------------------------- MODULE StakeTablesProofs --------------------------
(***************************************************************************)
(* Proofs about the two tables of the server that follow the pool contract *)
(* without looking at it from inside a transaction: pool_stakes, which     *)
(* syncs fill from its events (PoolIndex), and receipt_market_listings,    *)
(* which clients fill with what they say they did (ReceiptMarket).  The    *)
(* two share nothing; each has its own invariant and theorems.             *)
(***************************************************************************)
EXTENDS PoolIndex, ReceiptMarket, FiniteSetTheorems, TLAPS

-----------------------------------------------------------------------------
(* The stake index.                                                        *)

\* The log has events of stakes that were made, a queue some of their places,
\* and a transaction holds its stakes.
EventsMade ==
  \A n \in DOMAIN log : log[n] # Foreign => stake[log[n]] # NoStake
QueuesMade ==
  \A y \in Syncers :
    sync[y].pc \in {"check", "insert"} =>
      \A n \in sync[y].queue : n \in DOMAIN log /\ log[n] # Foreign
TransactionsHold == \A s \in Stakes : stake[s] # NoStake => s \in stake[s].tx

\* The syncers that found s missing and are about to insert it: with the rows
\* that s has already they are never more than there are syncers.
Inserting(s) ==
  {y \in Syncers : /\ sync[y].pc = "insert"
                   /\ \E n \in Latest(sync[y].queue) : log[n] = s}
RowsBounded ==
  \A s \in Stakes : RowsOf(s) + Cardinality(Inserting(s)) <= Cardinality(Syncers)

\* Rows are of stakes that were made, on the side they were made on.
RowsOnSide ==
  \A s \in Stakes, o \in Slots :
    rows[s][o] > 0 => stake[s] # NoStake /\ o = stake[s].outcome

IndexInv ==
  /\ TypeOK
  /\ EventsMade /\ QueuesMade /\ TransactionsHold
  /\ RowsBounded /\ RowsOnSide

LEMMA QueueType ==
  ASSUME TypeOK, NEW y \in Syncers, sync[y].pc \in {"check", "insert"}
  PROVE  sync[y].queue \in SUBSET (1 .. MaxLog)
BY DEF TypeOK, SyncState, Idle

LEMMA PlaceType ==
  ASSUME TypeOK, NEW n \in DOMAIN log, log[n] # Foreign
  PROVE  log[n] \in Stakes
BY DEF TypeOK

LEMMA FollowingType ==
  ASSUME NEW queue \in SUBSET (1 .. MaxLog)
  PROVE  Following(queue) \in SyncState
BY DEF Following, SyncState, Idle

LEMMA LaterType ==
  ASSUME NEW N, NEW queue \in SUBSET N
  PROVE  Later(queue) \in SUBSET N /\ Later(queue) \subseteq queue
BY DEF Later

\* The id of a new pool.
LEMMA NewPoolFresh ==
  ASSUME Created # Pools
  PROVE  NewPool \in Pools /\ named[NewPool] = NoNames
<1>1. \E p \in Pools : p \notin Created
  BY DEF Created
<1>2. NewPool \in Pools /\ NewPool \notin Created
  BY <1>1 DEF NewPool
<1> QED
  BY <1>2 DEF Created

\* What StakeOnChain adds to the log.
LEMMA BatchLogged ==
  ASSUME TypeOK,
         NEW batch \in SUBSET Stakes, NEW events \in SetToSeqs(batch),
         Len(log) + Cardinality(batch) <= MaxLog
  PROVE  /\ log \o events \in Seq(Stakes \cup {Foreign})
         /\ Len(log \o events) <= MaxLog
         /\ DOMAIN log \subseteq DOMAIN (log \o events)
         /\ \A n \in DOMAIN log : (log \o events)[n] = log[n]
         /\ \A n \in DOMAIN (log \o events) \ DOMAIN log :
              (log \o events)[n] \in batch
<1>1. IsFiniteSet(batch) /\ Cardinality(batch) \in Nat
  BY FS_Subset, FS_CardinalityType, PoolIndexAssumption
<1>2. events \in [1 .. Cardinality(batch) -> batch]
  BY DEF SetToSeqs
<1>3. events \in Seq(batch) /\ Len(events) = Cardinality(batch)
  BY <1>1, <1>2
<1>4. log \in Seq(Stakes \cup {Foreign}) /\ events \in Seq(Stakes \cup {Foreign})
  BY <1>3 DEF TypeOK
<1> QED
  BY <1>1, <1>3, <1>4, PoolIndexAssumption

LEMMA InitTypeOK == Init => TypeOK
<1> SUFFICES ASSUME Init
             PROVE  TypeOK
  OBVIOUS
<1>1. NoNames \in Named
  BY DEF NoNames, Named
<1>2. rows \in [Stakes -> [Slots -> Nat]]
  BY DEF Init
<1>3. backfill \in [Backfillers -> BackfillState] /\ sync \in [Syncers -> SyncState]
  BY DEF Init, BackfillState, SyncState
<1>4. log \in Seq(Stakes \cup {Foreign}) /\ Len(log) <= MaxLog
  BY PoolIndexAssumption DEF Init
<1> QED
  BY <1>1, <1>2, <1>3, <1>4 DEF Init, TypeOK

LEMMA ReportKeepsType ==
  ASSUME TypeOK, NEW g \in Ingesters, NEW l \in Lineups, NEW over \in BOOLEAN,
         StartIngest(g, l, over)
  PROVE  TypeOK'
<1>1. PICK n \in 0 .. 2 : l \in [1 .. n -> Teams]
  BY PoolIndexAssumption
<1>2. {<<o, l[o]>> : o \in DOMAIN l} \in SUBSET (Slots \X Teams)
  BY <1>1 DEF Slots
<1> QED
  BY <1>2 DEF StartIngest, TypeOK, onChain, history

LEMMA StoreKeepsType ==
  ASSUME TypeOK, NEW g \in Ingesters, StoreOpponent(g) \/ FailIngest(g)
  PROVE  TypeOK'
<1>1. CASE StoreOpponent(g)
  BY <1>1 DEF StoreOpponent, TypeOK, onChain, history, Named
<1>2. CASE FailIngest(g)
  BY <1>2 DEF FailIngest, TypeOK, match, onChain, history
<1> QED
  BY <1>1, <1>2

LEMMA BackfillKeepsType ==
  ASSUME TypeOK, NEW b \in Backfillers,
         \/ ListMissing(b) \/ ReadOpponents(b) \/ CreatePool(b) \/ LoseAnswer(b)
         \/ RegisterPool(b) \/ FailBackfill(b)
  PROVE  TypeOK'
<1>1. CASE ListMissing(b)
  BY <1>1 DEF ListMissing, TypeOK, match, onChain, history, BackfillState
<1>2. CASE ReadOpponents(b)
  BY <1>2 DEF ReadOpponents, TypeOK, match, onChain, history, BackfillState
<1>3. CASE CreatePool(b)
  <2>1. backfill[b].names \in Named
    BY <1>3 DEF CreatePool, TypeOK, BackfillState, Idle
  <2>2. named' \in [Pools -> Named]
    BY <1>3, <2>1, NewPoolFresh DEF CreatePool, TypeOK
  <2>3. backfill' \in [Backfillers -> BackfillState]
    <3>1. [pc |-> "configure", created |-> NewPool] \in BackfillState
      BY <1>3, NewPoolFresh DEF CreatePool, BackfillState
    <3> QED
      BY <1>3, <3>1 DEF CreatePool, TypeOK
  <2> QED
    BY <1>3, <2>2, <2>3 DEF CreatePool, TypeOK, match, history
<1>4. CASE LoseAnswer(b)
  <2>1. backfill[b].names \in Named
    BY <1>4 DEF LoseAnswer, TypeOK, BackfillState, Idle
  <2>2. named' \in [Pools -> Named]
    BY <1>4, <2>1, NewPoolFresh DEF LoseAnswer, TypeOK
  <2>3. backfill' \in [Backfillers -> BackfillState]
    BY <1>4 DEF LoseAnswer, TypeOK, BackfillState
  <2> QED
    BY <1>4, <2>2, <2>3 DEF LoseAnswer, TypeOK, match, history
<1>5. CASE RegisterPool(b)
  <2>1. backfill[b].created \in Pools
    BY <1>5 DEF RegisterPool, TypeOK, BackfillState, Idle
  <2> QED
    BY <1>5, <2>1 DEF RegisterPool, TypeOK, onChain, history, BackfillState
<1>6. CASE FailBackfill(b)
  BY <1>6 DEF FailBackfill, TypeOK, match, onChain, history, BackfillState
<1> QED
  BY <1>1, <1>2, <1>3, <1>4, <1>5, <1>6

LEMMA ConfigureKeepsType ==
  ASSUME TypeOK, NEW id, ConfigurePool(id)
  PROVE  TypeOK'
BY DEF ConfigurePool, TypeOK, onChain, Created

LEMMA StakeKeepsType ==
  ASSUME TypeOK, NEW batch \in SUBSET Stakes, NEW o \in Slots,
         StakeOnChain(batch, o)
  PROVE  TypeOK'
<1>1. PICK events \in SetToSeqs(batch) : log' = log \o events
  BY DEF StakeOnChain
<1>2. log' \in Seq(Stakes \cup {Foreign}) /\ Len(log') <= MaxLog
  BY <1>1, BatchLogged DEF StakeOnChain
<1>3. stake' \in [Stakes -> [pool : Pools, outcome : Slots, tx : SUBSET Stakes]
                            \cup {NoStake}]
  BY DEF StakeOnChain, TypeOK
<1> QED
  BY <1>2, <1>3 DEF StakeOnChain, TypeOK, match, history

LEMMA ElsewhereKeepsType ==
  ASSUME TypeOK, StakeElsewhere
  PROVE  TypeOK'
BY PoolIndexAssumption DEF StakeElsewhere, TypeOK, match, history

LEMMA SyncKeepsType ==
  ASSUME TypeOK, EventsMade, QueuesMade, NEW y \in Syncers,
         \/ StartSync(y) \/ ReadEvents(y) \/ CheckIndexed(y) \/ InsertIndexed(y)
         \/ FailSync(y)
  PROVE  TypeOK'
<1>1. CASE StartSync(y)
  BY <1>1 DEF StartSync, TypeOK, match, onChain, history, SyncState
<1>2. CASE ReadEvents(y)
  <2>1. EventsOf(sync[y].pool) \in SUBSET (1 .. MaxLog)
    BY PoolIndexAssumption DEF EventsOf, TypeOK
  <2>2. Following(EventsOf(sync[y].pool)) \in SyncState
    BY <2>1, FollowingType
  <2> QED
    BY <1>2, <2>2 DEF ReadEvents, TypeOK, match, onChain, history
<1>3. CASE CheckIndexed(y)
  <2>1. sync[y].queue \in SUBSET (1 .. MaxLog)
    BY <1>3, QueueType DEF CheckIndexed
  <2>2. Following(AfterKnown(sync[y].queue)) \in SyncState
    BY <2>1, LaterType, FollowingType DEF AfterKnown
  <2>3. [pc |-> "insert", queue |-> sync[y].queue] \in SyncState
    BY <2>1 DEF SyncState
  <2> QED
    BY <1>3, <2>2, <2>3 DEF CheckIndexed, TypeOK, match, onChain, history
<1>4. CASE InsertIndexed(y)
  <2>1. sync[y].queue \in SUBSET (1 .. MaxLog)
    BY <1>4, QueueType DEF InsertIndexed
  <2>2. Following(Later(sync[y].queue)) \in SyncState
    BY <2>1, LaterType, FollowingType
  <2>3. sync' \in [Syncers -> SyncState]
    BY <1>4, <2>2 DEF InsertIndexed, TypeOK
  <2>4. PICK n \in Latest(sync[y].queue) :
          rows' = [rows EXCEPT ![log[n]][SlotOf(log[n])] = @ + 1]
    BY <1>4 DEF InsertIndexed
  <2>5. n \in DOMAIN log /\ log[n] # Foreign
    BY <1>4, <2>4 DEF InsertIndexed, QueuesMade, Latest
  <2>6. log[n] \in Stakes /\ SlotOf(log[n]) \in Slots
    BY <2>5, PlaceType DEF EventsMade, TypeOK, SlotOf
  <2>7. rows' \in [Stakes -> [Slots -> Nat]]
    BY <2>4, <2>6 DEF TypeOK
  <2> QED
    BY <1>4, <2>3, <2>7 DEF InsertIndexed, TypeOK, match, onChain, history
<1>5. CASE FailSync(y)
  <2>1. sync[y].pc \in {"events", "check", "insert"}
    BY <1>5 DEF FailSync, TypeOK, SyncState, Idle
  <2>2. sync[y].pc # "events" => Following(Later(sync[y].queue)) \in SyncState
    <3> SUFFICES ASSUME sync[y].pc # "events"
                 PROVE  Following(Later(sync[y].queue)) \in SyncState
      OBVIOUS
    <3>1. sync[y].queue \in SUBSET (1 .. MaxLog)
      BY <2>1, QueueType
    <3> QED
      BY <3>1, LaterType, FollowingType
  <2> QED
    BY <1>5, <2>2 DEF FailSync, TypeOK, match, onChain, history, SyncState
<1> QED
  BY <1>1, <1>2, <1>3, <1>4, <1>5

LEMMA SyncersFinite ==
  /\ IsFiniteSet(Syncers) /\ Cardinality(Syncers) \in Nat
  /\ \A Y \in SUBSET Syncers :
       IsFiniteSet(Y) /\ Cardinality(Y) \in Nat /\ Cardinality(Y) <= Cardinality(Syncers)
<1>1. IsFiniteSet(Syncers)
  BY FS_AddElement, PoolIndexAssumption DEF Syncers
<1> QED
  BY <1>1, FS_Subset, FS_CardinalityType

LEMMA RowsType ==
  ASSUME TypeOK, NEW s \in Stakes
  PROVE  RowsOf(s) \in Nat
BY DEF TypeOK, RowsOf, Slots

\* Nobody but y changes who is inserting what.
LEMMA InsertingAt ==
  ASSUME TypeOK, NEW y \in Syncers, NEW next, sync' = [sync EXCEPT ![y] = next],
         UNCHANGED log, NEW s \in Stakes
  PROVE  /\ Inserting(s)' \subseteq Inserting(s) \cup {y}
         /\ next.pc # "insert" => Inserting(s)' \subseteq Inserting(s) \ {y}
         /\ (next.pc = "insert" /\ \A n \in Latest(next.queue) : log[n] # s) =>
              Inserting(s)' \subseteq Inserting(s) \ {y}
<1>1. \A z \in Syncers : sync'[z] = IF z = y THEN next ELSE sync[z]
  BY DEF TypeOK
<1> QED
  BY <1>1 DEF Inserting, Latest

LEMMA FewerInserting ==
  ASSUME TypeOK, NEW s \in Stakes, Inserting(s)' \subseteq Inserting(s)
  PROVE  Cardinality(Inserting(s)') <= Cardinality(Inserting(s))
<1>1. IsFiniteSet(Inserting(s))
  BY SyncersFinite DEF Inserting
<1> QED
  BY <1>1, FS_Subset

LEMMA InitIndexInv == Init => IndexInv
<1> SUFFICES ASSUME Init
             PROVE  IndexInv
  OBVIOUS
<1>1. TypeOK
  BY InitTypeOK
<1>2. EventsMade /\ QueuesMade /\ TransactionsHold /\ RowsOnSide
  BY DEF Init, EventsMade, QueuesMade, TransactionsHold, RowsOnSide, Idle
<1>3. RowsBounded
  <2> SUFFICES ASSUME NEW s \in Stakes
               PROVE  RowsOf(s) + Cardinality(Inserting(s)) <= Cardinality(Syncers)
    BY DEF RowsBounded
  <2>1. RowsOf(s) = 0
    BY DEF Init, RowsOf, Slots
  <2>2. Inserting(s) \in SUBSET Syncers
    BY DEF Inserting
  <2> QED
    BY <2>1, <2>2, SyncersFinite
<1> QED
  BY <1>1, <1>2, <1>3 DEF IndexInv

\* Reports and backfills leave the index alone.
LEMMA FrameIndex ==
  ASSUME IndexInv, TypeOK', UNCHANGED <<sync, stake, log, rows>>
  PROVE  IndexInv'
<1>1. EventsMade' /\ QueuesMade' /\ TransactionsHold' /\ RowsOnSide'
  BY DEF IndexInv, EventsMade, QueuesMade, TransactionsHold, RowsOnSide
<1>2. RowsBounded'
  BY DEF IndexInv, RowsBounded, RowsOf, Inserting
<1> QED
  BY <1>1, <1>2 DEF IndexInv

\* A syncer goes on, but not to an INSERT.
LEMMA SyncGoesOn ==
  ASSUME IndexInv, TypeOK', NEW y \in Syncers, NEW next,
         sync' = [sync EXCEPT ![y] = next], UNCHANGED <<stake, log, rows>>,
         next.pc # "insert",
         next.pc = "check" => \A n \in next.queue : n \in DOMAIN log /\ log[n] # Foreign
  PROVE  IndexInv'
<1>1. EventsMade' /\ TransactionsHold' /\ RowsOnSide'
  BY DEF IndexInv, EventsMade, TransactionsHold, RowsOnSide
<1>2. QueuesMade'
  BY DEF IndexInv, QueuesMade, TypeOK
<1>3. RowsBounded'
  <2> SUFFICES ASSUME NEW s \in Stakes
               PROVE  RowsOf(s)' + Cardinality(Inserting(s)') <= Cardinality(Syncers)
    BY DEF RowsBounded
  <2>1. Inserting(s)' \subseteq Inserting(s)
    BY InsertingAt DEF IndexInv
  <2>2. Cardinality(Inserting(s)') <= Cardinality(Inserting(s))
    BY <2>1, FewerInserting DEF IndexInv
  <2>3. Inserting(s) \in SUBSET Syncers /\ Inserting(s)' \in SUBSET Syncers
    BY DEF Inserting
  <2>4. RowsOf(s)' = RowsOf(s)
    BY DEF RowsOf
  <2> QED
    BY <2>2, <2>3, <2>4, SyncersFinite, RowsType DEF IndexInv, RowsBounded
<1> QED
  BY <1>1, <1>2, <1>3 DEF IndexInv

\* The log grows, by stakes that were just made or are not of the match.
LEMMA LogGrows ==
  ASSUME IndexInv, TypeOK', UNCHANGED <<sync, rows>>,
         DOMAIN log \subseteq DOMAIN log',
         \A n \in DOMAIN log : log'[n] = log[n],
         \A n \in DOMAIN log' \ DOMAIN log :
           log'[n] # Foreign => stake'[log'[n]] # NoStake,
         \A s \in Stakes : stake[s] # NoStake => stake'[s] = stake[s],
         TransactionsHold'
  PROVE  IndexInv'
<1>1. EventsMade'
  <2> SUFFICES ASSUME NEW n \in DOMAIN log, log[n] # Foreign
               PROVE  stake'[log[n]] # NoStake
    BY DEF EventsMade
  <2> QED
    BY PlaceType DEF IndexInv, EventsMade
<1>2. QueuesMade'
  BY DEF IndexInv, QueuesMade
<1>3. RowsOnSide'
  BY DEF IndexInv, RowsOnSide
<1>4. RowsBounded'
  <2> SUFFICES ASSUME NEW s \in Stakes
               PROVE  RowsOf(s)' + Cardinality(Inserting(s)') <= Cardinality(Syncers)
    BY DEF RowsBounded
  <2>1. Inserting(s)' = Inserting(s)
    BY DEF IndexInv, QueuesMade, Inserting, Latest
  <2>2. RowsOf(s)' = RowsOf(s)
    BY DEF RowsOf
  <2> QED
    BY <2>1, <2>2 DEF IndexInv, RowsBounded
<1> QED
  BY <1>1, <1>2, <1>3, <1>4 DEF IndexInv

LEMMA StakeKeepsIndexInv ==
  ASSUME IndexInv, TypeOK', NEW batch \in SUBSET Stakes, NEW o \in Slots,
         StakeOnChain(batch, o)
  PROVE  IndexInv'
<1>1. PICK events \in SetToSeqs(batch) : log' = log \o events
  BY DEF StakeOnChain
<1>2. /\ DOMAIN log \subseteq DOMAIN log'
      /\ \A n \in DOMAIN log : log'[n] = log[n]
      /\ \A n \in DOMAIN log' \ DOMAIN log : log'[n] \in batch
  BY <1>1, BatchLogged DEF StakeOnChain, IndexInv
<1>3. \A s \in Stakes :
        stake'[s] = IF s \in batch THEN [pool |-> pool, outcome |-> o, tx |-> batch]
                    ELSE stake[s]
  BY DEF StakeOnChain
<1>4. pool # NoPool
  BY PoolIndexAssumption DEF StakeOnChain
<1>5. \A s \in batch : stake'[s] # NoStake /\ s \in stake'[s].tx
  BY <1>3, <1>4 DEF NoStake
<1>6. TransactionsHold'
  BY <1>3, <1>5 DEF IndexInv, TransactionsHold
<1>7. \A s \in Stakes : stake[s] # NoStake => stake'[s] = stake[s]
  BY <1>3 DEF StakeOnChain
<1> QED
  BY <1>2, <1>5, <1>6, <1>7, LogGrows DEF StakeOnChain

LEMMA ElsewhereKeepsIndexInv ==
  ASSUME IndexInv, TypeOK', StakeElsewhere
  PROVE  IndexInv'
<1>1. /\ log' = Append(log, Foreign) /\ UNCHANGED <<sync, stake, rows>>
  BY DEF StakeElsewhere
<1>2. log \in Seq(Stakes \cup {Foreign})
  BY DEF IndexInv, TypeOK
<1>3. /\ DOMAIN log \subseteq DOMAIN log'
      /\ \A n \in DOMAIN log : log'[n] = log[n]
      /\ \A n \in DOMAIN log' \ DOMAIN log : log'[n] = Foreign
  BY <1>1, <1>2
<1>4. TransactionsHold'
  BY <1>1 DEF IndexInv, TransactionsHold
<1> QED
  BY <1>1, <1>3, <1>4, LogGrows

\* Found missing: one more is inserting, and there is no row.
LEMMA MissingKeepsIndexInv ==
  ASSUME IndexInv, TypeOK', NEW y \in Syncers, sync[y].pc = "check",
         NEW n \in Latest(sync[y].queue), ~AlreadyIndexed(log[n]),
         sync' = [sync EXCEPT ![y] = [pc |-> "insert", queue |-> sync[y].queue]],
         UNCHANGED <<stake, log, rows>>
  PROVE  IndexInv'
<1>1. EventsMade' /\ TransactionsHold' /\ RowsOnSide'
  BY DEF IndexInv, EventsMade, TransactionsHold, RowsOnSide
<1>2. QueuesMade'
  BY DEF IndexInv, QueuesMade, TypeOK
<1>3. n \in DOMAIN log /\ log[n] # Foreign
  BY DEF IndexInv, QueuesMade, Latest
<1>4. log[n] \in Stakes
  BY <1>3, PlaceType DEF IndexInv
<1>5. RowsOf(log[n]) = 0
  <2>1. log[n] \in stake[log[n]].tx
    BY <1>3, <1>4 DEF IndexInv, EventsMade, TransactionsHold
  <2> QED
    BY <1>4, <2>1, RowsType DEF IndexInv, AlreadyIndexed
<1>6. \A m \in Latest(sync[y].queue) : m = n
  <2>1. sync[y].queue \in SUBSET (1 .. MaxLog)
    BY QueueType DEF IndexInv
  <2> QED
    BY <2>1, PoolIndexAssumption DEF Latest
<1>7. RowsBounded'
  <2> SUFFICES ASSUME NEW s \in Stakes
               PROVE  RowsOf(s)' + Cardinality(Inserting(s)') <= Cardinality(Syncers)
    BY DEF RowsBounded
  <2>1. Inserting(s) \in SUBSET Syncers /\ Inserting(s)' \in SUBSET Syncers
    BY DEF Inserting
  <2>2. RowsOf(s)' = RowsOf(s)
    BY DEF RowsOf
  <2>3. CASE s = log[n]
    BY <1>5, <2>1, <2>2, <2>3, SyncersFinite
  <2>4. CASE s # log[n]
    <3> DEFINE next == [pc |-> "insert", queue |-> sync[y].queue]
    <3>1. Inserting(s)' \subseteq Inserting(s)
      <4>1. \A m \in Latest(next.queue) : log[m] # s
        BY <1>6, <2>4
      <4>2. next.pc = "insert" /\ sync' = [sync EXCEPT ![y] = next]
        OBVIOUS
      <4>3. TypeOK /\ log' = log
        BY DEF IndexInv
      <4> HIDE DEF next
      <4>4. Inserting(s)' \subseteq Inserting(s) \ {y}
        BY <4>1, <4>2, <4>3, InsertingAt
      <4> QED
        BY <4>4
    <3> QED
      BY <2>1, <2>2, <3>1, FewerInserting, SyncersFinite, RowsType
         DEF IndexInv, RowsBounded
  <2> QED
    BY <2>3, <2>4
<1> QED
  BY <1>1, <1>2, <1>7 DEF IndexInv

\* Inserted: the row takes the place of the one who inserted it.
LEMMA InsertKeepsIndexInv ==
  ASSUME IndexInv, TypeOK', NEW y \in Syncers, InsertIndexed(y)
  PROVE  IndexInv'
<1> DEFINE queue == sync[y].queue
<1>1. PICK n \in Latest(queue) :
        rows' = [rows EXCEPT ![log[n]][SlotOf(log[n])] = @ + 1]
  BY DEF InsertIndexed
<1>2. /\ sync[y].pc = "insert" /\ UNCHANGED <<stake, log>>
      /\ sync' = [sync EXCEPT ![y] = Following(Later(queue))]
  BY DEF InsertIndexed, onChain
<1>3. n \in DOMAIN log /\ log[n] # Foreign
  BY <1>1, <1>2 DEF IndexInv, QueuesMade, Latest
<1>4. log[n] \in Stakes /\ stake[log[n]] # NoStake
  BY <1>3, PlaceType DEF IndexInv, EventsMade
<1>5. SlotOf(log[n]) = stake[log[n]].outcome /\ SlotOf(log[n]) \in Slots
  BY <1>4 DEF IndexInv, TypeOK, SlotOf
<1>6. \A s \in Stakes, o \in Slots :
        rows'[s][o] = IF s = log[n] /\ o = SlotOf(log[n]) THEN rows[s][o] + 1
                      ELSE rows[s][o]
  BY <1>1, <1>4, <1>5 DEF IndexInv, TypeOK
<1>7. EventsMade' /\ TransactionsHold'
  BY <1>2 DEF IndexInv, EventsMade, TransactionsHold
<1>8. QueuesMade'
  BY <1>2 DEF IndexInv, QueuesMade, TypeOK, Following, Idle, Later
<1>9. RowsOnSide'
  BY <1>2, <1>4, <1>5, <1>6 DEF IndexInv, RowsOnSide
<1>10. RowsBounded'
  <2> SUFFICES ASSUME NEW s \in Stakes
               PROVE  RowsOf(s)' + Cardinality(Inserting(s)') <= Cardinality(Syncers)
    BY DEF RowsBounded
  <2>1. Inserting(s) \in SUBSET Syncers /\ Inserting(s)' \in SUBSET Syncers
    BY DEF Inserting
  <2> DEFINE next == Following(Later(queue))
  <2>2. next.pc # "insert" /\ sync' = [sync EXCEPT ![y] = next]
    BY <1>2 DEF Following, Idle
  <2> HIDE DEF next
  <2>3. Inserting(s)' \subseteq Inserting(s) \ {y}
    BY <1>2, <2>2, InsertingAt DEF IndexInv
  <2>4. CASE s = log[n]
    <3>1. y \in Inserting(s)
      BY <1>1, <1>2, <2>4 DEF Inserting
    <3>2. Cardinality(Inserting(s) \ {y}) = Cardinality(Inserting(s)) - 1
      BY <2>1, <3>1, SyncersFinite, FS_RemoveElement
    <3>3. Inserting(s) \ {y} \in SUBSET Syncers
      BY <2>1
    <3>4. Cardinality(Inserting(s)') <= Cardinality(Inserting(s) \ {y})
      BY <2>3, <3>3, SyncersFinite, FS_Subset
    <3>5. RowsOf(s)' = RowsOf(s) + 1
      <4>1. rows[s][1] \in Nat /\ rows[s][2] \in Nat
        BY DEF IndexInv, TypeOK, Slots
      <4>2. SlotOf(s) \in {1, 2}
        BY <1>5, <2>4 DEF Slots
      <4>3. \A o \in {1, 2} :
              rows'[s][o] = IF o = SlotOf(s) THEN rows[s][o] + 1 ELSE rows[s][o]
        BY <1>6, <2>4 DEF Slots
      <4> QED
        BY <4>1, <4>2, <4>3 DEF RowsOf
    <3>6. RowsOf(s) + Cardinality(Inserting(s)) <= Cardinality(Syncers)
      BY DEF IndexInv, RowsBounded
    <3>7. RowsOf(s) \in Nat
      BY RowsType DEF IndexInv
    <3> QED
      BY <2>1, <3>2, <3>3, <3>4, <3>5, <3>6, <3>7, SyncersFinite
  <2>5. CASE s # log[n]
    <3>1. Inserting(s)' \subseteq Inserting(s)
      BY <2>3
    <3>2. Cardinality(Inserting(s)') <= Cardinality(Inserting(s))
      BY <3>1, FewerInserting DEF IndexInv
    <3>3. RowsOf(s)' = RowsOf(s)
      BY <1>6, <2>5 DEF RowsOf, Slots
    <3> QED
      BY <2>1, <3>2, <3>3, SyncersFinite, RowsType DEF IndexInv, RowsBounded
  <2> QED
    BY <2>4, <2>5
<1> QED
  BY <1>7, <1>8, <1>9, <1>10 DEF IndexInv

LEMMA SyncKeepsIndexInv ==
  ASSUME IndexInv, TypeOK', NEW y \in Syncers,
         \/ StartSync(y) \/ ReadEvents(y) \/ CheckIndexed(y) \/ InsertIndexed(y)
         \/ FailSync(y)
  PROVE  IndexInv'
<1> DEFINE queue == sync[y].queue
<1>1. CASE StartSync(y)
  <2> DEFINE next == [pc |-> "events", pool |-> pool]
  <2>1. sync' = [sync EXCEPT ![y] = next] /\ UNCHANGED <<stake, log, rows>>
    BY <1>1 DEF StartSync, onChain
  <2>2. next.pc = "events"
    OBVIOUS
  <2> HIDE DEF next
  <2> QED
    BY <2>1, <2>2, SyncGoesOn
<1>2. CASE ReadEvents(y)
  <2> DEFINE next == Following(EventsOf(sync[y].pool))
  <2>1. sync' = [sync EXCEPT ![y] = next] /\ UNCHANGED <<stake, log, rows>>
    BY <1>2 DEF ReadEvents, onChain
  <2>2. /\ next.pc # "insert"
        /\ next.pc = "check" =>
             \A n \in next.queue : n \in DOMAIN log /\ log[n] # Foreign
    BY DEF Following, Idle, EventsOf
  <2> HIDE DEF next
  <2> QED
    BY <2>1, <2>2, SyncGoesOn
<1>3. \A q \in SUBSET queue :
        sync[y].pc \in {"check", "insert"} =>
          /\ Following(q).pc # "insert"
          /\ Following(q).pc = "check" =>
               \A n \in Following(q).queue : n \in DOMAIN log /\ log[n] # Foreign
  BY DEF IndexInv, QueuesMade, Following, Idle
<1>4. CASE CheckIndexed(y)
  <2>1. PICK n \in Latest(queue) :
          sync' = [sync EXCEPT ![y] =
            IF AlreadyIndexed(log[n]) THEN Following(AfterKnown(queue))
            ELSE [pc |-> "insert", queue |-> queue]]
    BY <1>4 DEF CheckIndexed
  <2>2. sync[y].pc = "check" /\ UNCHANGED <<stake, log, rows>>
    BY <1>4 DEF CheckIndexed, onChain
  <2>3. CASE AlreadyIndexed(log[n])
    <3> DEFINE next == Following(AfterKnown(queue))
    <3>1. sync' = [sync EXCEPT ![y] = next]
      BY <2>1, <2>3
    <3>2. AfterKnown(queue) \in SUBSET queue
      BY DEF AfterKnown, Later
    <3>3. /\ next.pc # "insert"
          /\ next.pc = "check" =>
               \A m \in next.queue : m \in DOMAIN log /\ log[m] # Foreign
      BY <1>3, <2>2, <3>2
    <3> HIDE DEF next
    <3> QED
      BY <2>2, <3>1, <3>3, SyncGoesOn
  <2>4. CASE ~AlreadyIndexed(log[n])
    BY <2>1, <2>2, <2>4, MissingKeepsIndexInv
  <2> QED
    BY <2>3, <2>4
<1>5. CASE InsertIndexed(y)
  BY <1>5, InsertKeepsIndexInv
<1>6. CASE FailSync(y)
  <2> DEFINE next == IF sync[y].pc = "events" THEN Idle ELSE Following(Later(queue))
  <2>1. sync' = [sync EXCEPT ![y] = next] /\ UNCHANGED <<stake, log, rows>>
    BY <1>6 DEF FailSync, onChain
  <2>2. sync[y].pc \in {"events", "check", "insert"}
    BY <1>6 DEF FailSync, IndexInv, TypeOK, SyncState, Idle
  <2>3. Later(queue) \in SUBSET queue
    BY DEF Later
  <2>4. /\ next.pc # "insert"
        /\ next.pc = "check" =>
             \A n \in next.queue : n \in DOMAIN log /\ log[n] # Foreign
    <3>1. CASE sync[y].pc = "events"
      BY <3>1 DEF Idle
    <3>2. CASE sync[y].pc # "events"
      BY <1>3, <2>2, <2>3, <3>2
    <3> QED
      BY <3>1, <3>2
  <2> HIDE DEF next
  <2> QED
    BY <2>1, <2>4, SyncGoesOn
<1> QED
  BY <1>1, <1>2, <1>4, <1>5, <1>6

LEMMA NextKeepsIndexInv == IndexInv /\ [Next]_vars => IndexInv'
<1> SUFFICES ASSUME IndexInv, [Next]_vars
             PROVE  IndexInv'
  OBVIOUS
<1>0. TypeOK /\ EventsMade /\ QueuesMade
  BY DEF IndexInv
<1>1. ASSUME NEW g \in Ingesters, NEW l \in Lineups, NEW over \in BOOLEAN,
             StartIngest(g, l, over)
      PROVE  IndexInv'
  BY <1>0, <1>1, ReportKeepsType, FrameIndex DEF StartIngest, onChain
<1>2. ASSUME NEW g \in Ingesters, StoreOpponent(g) \/ FailIngest(g)
      PROVE  IndexInv'
  <2>1. TypeOK'
    BY <1>0, <1>2, StoreKeepsType
  <2> QED
    BY <1>2, <2>1, FrameIndex DEF StoreOpponent, FailIngest, onChain
<1>3. ASSUME NEW b \in Backfillers,
             \/ ListMissing(b) \/ ReadOpponents(b) \/ CreatePool(b) \/ LoseAnswer(b)
             \/ RegisterPool(b) \/ FailBackfill(b)
      PROVE  IndexInv'
  <2>1. TypeOK'
    BY <1>0, <1>3, BackfillKeepsType
  <2> QED
    BY <1>3, <2>1, FrameIndex
       DEF ListMissing, ReadOpponents, CreatePool, LoseAnswer, RegisterPool,
           FailBackfill, onChain
<1>4. ASSUME NEW id, ConfigurePool(id)
      PROVE  IndexInv'
  BY <1>0, <1>4, ConfigureKeepsType, FrameIndex DEF ConfigurePool, onChain
<1>5. ASSUME NEW batch \in SUBSET Stakes, NEW o \in Slots, StakeOnChain(batch, o)
      PROVE  IndexInv'
  BY <1>0, <1>5, StakeKeepsType, StakeKeepsIndexInv
<1>6. ASSUME StakeElsewhere
      PROVE  IndexInv'
  BY <1>0, <1>6, ElsewhereKeepsType, ElsewhereKeepsIndexInv
<1>7. ASSUME NEW y \in Syncers,
             \/ StartSync(y) \/ ReadEvents(y) \/ CheckIndexed(y)
             \/ InsertIndexed(y) \/ FailSync(y)
      PROVE  IndexInv'
  BY <1>0, <1>7, SyncKeepsType, SyncKeepsIndexInv
<1>8. CASE UNCHANGED vars
  <2>1. TypeOK'
    BY <1>0, <1>8 DEF TypeOK, vars, match, onChain, history
  <2> QED
    BY <1>8, <2>1, FrameIndex DEF vars, onChain
<1> QED
  BY <1>1, <1>2, <1>3, <1>4, <1>5, <1>6, <1>7, <1>8 DEF Next

LEMMA IndexInvariance == Spec => []IndexInv
<1> QED
  BY InitIndexInv, NextKeepsIndexInv, PTL DEF Spec

\* The index, the logs and every report, backfill and sync keep their types,
\* whatever the interleaving: a sync handles only stakes that were made.
THEOREM IndexTypeCorrect == Spec => []TypeOK
<1>1. IndexInv => TypeOK
  BY DEF IndexInv
<1> QED
  BY <1>1, IndexInvariance, PTL

\* Whatever fails and however syncs overlap, each of them inserts one row of a
\* stake at most.
THEOREM OneRowPerSyncer == Spec => []RowsPerSyncer
<1>1. IndexInv => RowsPerSyncer
  <2> SUFFICES ASSUME IndexInv, NEW s \in Stakes
               PROVE  RowsOf(s) <= Cardinality(Syncers)
    BY DEF RowsPerSyncer
  <2>1. Inserting(s) \in SUBSET Syncers
    BY DEF Inserting
  <2>2. RowsOf(s) + Cardinality(Inserting(s)) <= Cardinality(Syncers)
    BY DEF IndexInv, RowsBounded
  <2> QED
    BY <2>1, <2>2, SyncersFinite, RowsType DEF IndexInv
<1> QED
  BY <1>1, IndexInvariance, PTL

-----------------------------------------------------------------------------
(* The pools of the match.                                                 *)

\* A pool that is registered, about to be, or has stakes was created.
PoolsCreated ==
  /\ \A b \in Backfillers :
       /\ backfill[b].pc = "create" => backfill[b].names # NoNames
       /\ backfill[b].pc = "configure" => named[backfill[b].created] # NoNames
  /\ pool \in Pools => named[pool] # NoNames
  /\ \A s \in Stakes : stake[s] # NoStake => pool # NoPool

\* Backfills that do not overlap come one at a time.
OneBackfill ==
  ~crossed =>
    \A b, c \in Backfillers : backfill[b] # Idle /\ backfill[c] # Idle => b = c

\* Then they rest once there is a pool, so the stakes stay in it.
PoolKept ==
  (~byHand /\ ~crossed) =>
    /\ pool # NoPool => \A b \in Backfillers : backfill[b] = Idle
    /\ \A s \in Stakes : stake[s] # NoStake => stake[s].pool = pool

\* Until a pool is registered, every one that was created is with a backfiller
\* who is about to register it, or was given up at a failure.  From then on only
\* those who had found the match before still create one.
Configuring == {b \in Backfillers : backfill[b].pc = "configure"}
Creating == {b \in Backfillers : backfill[b].pc \in {"opponents", "create"}}
PoolsCounted ==
  /\ pool = NoPool => Cardinality(Created) <= failures + Cardinality(Configuring)
  /\ pool # NoPool =>
       Cardinality(Created) + Cardinality(Creating)
         <= failures + Cardinality(Backfillers)

PoolInv ==
  /\ TypeOK
  /\ PoolsCreated /\ OneBackfill /\ PoolKept
  /\ IsFiniteSet(Created) /\ PoolsCounted

LEMMA InitPoolInv == Init => PoolInv
<1> SUFFICES ASSUME Init
             PROVE  PoolInv
  OBVIOUS
<1>1. PoolsCreated /\ OneBackfill /\ PoolKept
  BY PoolIndexAssumption DEF Init, PoolsCreated, OneBackfill, PoolKept, Idle
<1>2. Created = {} /\ Configuring = {}
  BY DEF Init, Created, Configuring, Idle
<1>3. pool = NoPool /\ failures = 0
  BY DEF Init
<1>4. IsFiniteSet({}) /\ Cardinality({}) = 0
  BY FS_EmptySet
<1>5. IsFiniteSet(Created) /\ PoolsCounted
  BY <1>2, <1>3, <1>4 DEF PoolsCounted
<1> QED
  BY <1>1, <1>5, InitTypeOK DEF PoolInv

LEMMA FramePool ==
  ASSUME PoolInv, TypeOK', UNCHANGED <<pool, backfill, named, stake, history>>,
         failures' >= failures
  PROVE  PoolInv'
<1>1. UNCHANGED <<pool, backfill, named, stake, byHand, crossed>>
  BY DEF history
<1>2. PoolsCreated' /\ OneBackfill' /\ PoolKept'
  BY <1>1 DEF PoolInv, PoolsCreated, OneBackfill, PoolKept
<1>3. UNCHANGED <<Created, Configuring, Creating>>
  BY <1>1 DEF Created, Configuring, Creating
<1>4. /\ Cardinality(Created) \in Nat /\ Cardinality(Configuring) \in Nat
      /\ Cardinality(Creating) \in Nat /\ Cardinality(Backfillers) \in Nat
  BY FS_CardinalityType, FS_Subset, PoolIndexAssumption
     DEF PoolInv, Configuring, Creating
<1>5. failures \in Nat /\ failures' \in Nat
  BY DEF PoolInv, TypeOK
<1>6. PoolsCounted'
  BY <1>1, <1>3, <1>4, <1>5 DEF PoolInv, PoolsCounted
<1> QED
  BY <1>2, <1>3, <1>6 DEF PoolInv

\* How many backfillers are about to create or to register a pool when one of
\* them goes on.
LEMMA BackfillCounts ==
  ASSUME TypeOK, NEW b \in Backfillers, NEW next,
         backfill' = [backfill EXCEPT ![b] = next]
  PROVE  /\ Cardinality(Configuring) \in Nat /\ Cardinality(Configuring') \in Nat
         /\ Cardinality(Creating) \in Nat /\ Cardinality(Creating') \in Nat
         /\ Cardinality(Configuring') >= Cardinality(Configuring) - 1
         /\ b \notin Configuring => Cardinality(Configuring') >= Cardinality(Configuring)
         /\ (b \notin Configuring /\ next.pc = "configure") =>
              Cardinality(Configuring') = Cardinality(Configuring) + 1
         /\ (next.pc \in {"opponents", "create"} => b \in Creating) =>
              Cardinality(Creating') <= Cardinality(Creating)
         /\ (b \in Creating /\ next.pc \notin {"opponents", "create"}) =>
              Cardinality(Creating') = Cardinality(Creating) - 1
<1>1. \A c \in Backfillers : backfill'[c] = IF c = b THEN next ELSE backfill[c]
  BY DEF TypeOK
<1>2. /\ IsFiniteSet(Configuring) /\ IsFiniteSet(Configuring')
      /\ IsFiniteSet(Creating) /\ IsFiniteSet(Creating')
  BY FS_Subset, PoolIndexAssumption DEF Configuring, Creating
<1>3. /\ Cardinality(Configuring) \in Nat /\ Cardinality(Configuring') \in Nat
      /\ Cardinality(Creating) \in Nat /\ Cardinality(Creating') \in Nat
  BY <1>2, FS_CardinalityType
<1>4. Configuring' = IF next.pc = "configure" THEN Configuring \cup {b}
                     ELSE Configuring \ {b}
  BY <1>1 DEF Configuring
<1>5. Creating' = IF next.pc \in {"opponents", "create"} THEN Creating \cup {b}
                  ELSE Creating \ {b}
  BY <1>1 DEF Creating
<1>6. /\ Cardinality(Configuring \cup {b}) =
           IF b \in Configuring THEN Cardinality(Configuring)
           ELSE Cardinality(Configuring) + 1
      /\ Cardinality(Creating \cup {b}) =
           IF b \in Creating THEN Cardinality(Creating) ELSE Cardinality(Creating) + 1
  BY <1>2, FS_AddElement
<1>7. /\ Cardinality(Configuring \ {b}) =
           IF b \in Configuring THEN Cardinality(Configuring) - 1
           ELSE Cardinality(Configuring)
      /\ Cardinality(Creating \ {b}) =
           IF b \in Creating THEN Cardinality(Creating) - 1 ELSE Cardinality(Creating)
  BY <1>2, FS_RemoveElement
<1>8. /\ Cardinality(Configuring') >= Cardinality(Configuring) - 1
      /\ b \notin Configuring => Cardinality(Configuring') >= Cardinality(Configuring)
      /\ (b \notin Configuring /\ next.pc = "configure") =>
           Cardinality(Configuring') = Cardinality(Configuring) + 1
  BY <1>3, <1>4, <1>6, <1>7
<1>9. /\ (next.pc \in {"opponents", "create"} => b \in Creating) =>
           Cardinality(Creating') <= Cardinality(Creating)
      /\ (b \in Creating /\ next.pc \notin {"opponents", "create"}) =>
           Cardinality(Creating') = Cardinality(Creating) - 1
  BY <1>3, <1>5, <1>6, <1>7
<1> QED
  BY <1>3, <1>8, <1>9

LEMMA BackfillersCounted ==
  /\ Cardinality(Backfillers) \in Nat
  /\ Cardinality(Configuring) + Cardinality(Creating) <= Cardinality(Backfillers)
<1>1. IsFiniteSet(Configuring) /\ IsFiniteSet(Creating)
  BY FS_Subset, PoolIndexAssumption DEF Configuring, Creating
<1>2. Configuring \cap Creating = {}
  BY DEF Configuring, Creating
<1>3. Cardinality(Configuring \cup Creating) =
        Cardinality(Configuring) + Cardinality(Creating)
  <2>1. Cardinality(Configuring \cap Creating) = 0
    BY <1>2, FS_EmptySet, Zenon
  <2>2. Cardinality(Configuring) \in Nat /\ Cardinality(Creating) \in Nat
    BY <1>1, FS_CardinalityType
  <2>3. Cardinality(Configuring \cup Creating) =
          Cardinality(Configuring) + Cardinality(Creating)
            - Cardinality(Configuring \cap Creating)
    BY <1>1, FS_Union
  <2> QED
    BY <2>1, <2>2, <2>3
<1>4. Configuring \cup Creating \subseteq Backfillers
  BY DEF Configuring, Creating
<1> QED
  BY <1>3, <1>4, FS_Subset, FS_CardinalityType, PoolIndexAssumption

\* A backfill goes on without touching the chain or the match.
LEMMA BackfillGoesOn ==
  ASSUME PoolInv, TypeOK', NEW b \in Backfillers, NEW next,
         backfill' = [backfill EXCEPT ![b] = next],
         UNCHANGED <<pool, named, stake, byHand>>, crossed => crossed',
         next.pc = "create" => next.names # NoNames, next.pc # "configure",
         pool = NoPool \/ backfill[b] # Idle,
         pool = NoPool \/ next = Idle \/ backfill[b].pc = "opponents",
         (~crossed' /\ next # Idle) =>
           \A c \in Backfillers : backfill[c] # Idle => c = b,
         failures' >= failures,
         backfill[b].pc = "configure" => failures' = failures + 1
  PROVE  PoolInv'
<1>1. \A c \in Backfillers : backfill'[c] = IF c = b THEN next ELSE backfill[c]
  BY DEF PoolInv, TypeOK
<1>2. PoolsCreated'
  BY <1>1 DEF PoolInv, PoolsCreated
<1>3. OneBackfill'
  BY <1>1 DEF PoolInv, OneBackfill
<1>4. PoolKept'
  BY <1>1 DEF PoolInv, PoolKept
<1>5. Created' = Created
  BY DEF Created
<1>6. failures \in Nat /\ failures' \in Nat /\ Cardinality(Created) \in Nat
  BY FS_CardinalityType DEF PoolInv, TypeOK
<1>7. CASE pool = NoPool
  <2>1. Cardinality(Created) <= failures + Cardinality(Configuring)
    BY <1>7 DEF PoolInv, PoolsCounted
  <2>2. b \in Configuring => failures' = failures + 1
    BY DEF Configuring
  <2>3. /\ Cardinality(Configuring) \in Nat /\ Cardinality(Configuring') \in Nat
        /\ Cardinality(Configuring') >= Cardinality(Configuring) - 1
        /\ b \notin Configuring => Cardinality(Configuring') >= Cardinality(Configuring)
    BY BackfillCounts DEF PoolInv
  <2>4. Cardinality(Created) <= failures' + Cardinality(Configuring')
    BY <1>6, <2>1, <2>2, <2>3
  <2>5. PoolsCounted'
    BY <1>5, <1>7, <2>4 DEF PoolsCounted
  <2> QED
    BY <1>2, <1>3, <1>4, <1>5, <2>5 DEF PoolInv
<1>8. CASE pool # NoPool
  <2>1. Cardinality(Created) + Cardinality(Creating)
          <= failures + Cardinality(Backfillers)
    BY <1>8 DEF PoolInv, PoolsCounted
  <2>2. next.pc \in {"opponents", "create"} => b \in Creating
    BY <1>8 DEF Creating, Idle
  <2>3. Cardinality(Creating') <= Cardinality(Creating)
    BY <2>2, BackfillCounts DEF PoolInv
  <2>4. Cardinality(Creating) \in Nat /\ Cardinality(Creating') \in Nat
    BY BackfillCounts DEF PoolInv
  <2>5. PoolsCounted'
    BY <1>5, <1>6, <1>8, <2>1, <2>3, <2>4, BackfillersCounted DEF PoolsCounted
  <2> QED
    BY <1>2, <1>3, <1>4, <1>5, <2>5 DEF PoolInv
<1> QED
  BY <1>7, <1>8

\* While a backfill is under way alone there is no pool yet.
LEMMA BackfillFirst ==
  ASSUME PoolInv, ~byHand, ~crossed, NEW b \in Backfillers, backfill[b] # Idle
  PROVE  /\ pool = NoPool
         /\ \A s \in Stakes : stake[s] = NoStake
         /\ \A c \in Backfillers : backfill[c] # Idle => c = b
<1>1. \A c \in Backfillers : backfill[c] # Idle => c = b
  BY DEF PoolInv, OneBackfill
<1>2. pool = NoPool
  BY DEF PoolInv, PoolKept
<1> QED
  BY <1>1, <1>2 DEF PoolInv, PoolsCreated

\* A creation names a pool that had no names, and takes a backfiller, or a
\* failure, for it.
LEMMA CreationKeepsPoolInv ==
  ASSUME PoolInv, TypeOK', NEW b \in Backfillers, CreatePool(b) \/ LoseAnswer(b)
  PROVE  PoolInv'
<1> DEFINE names == backfill[b].names
           next == backfill'[b]
<1>1. /\ NewPool \in Pools /\ named[NewPool] = NoNames
      /\ named' = [named EXCEPT ![NewPool] = names]
  BY NewPoolFresh DEF CreatePool, LoseAnswer
<1>2. /\ backfill[b].pc = "create"
      /\ UNCHANGED <<pool, stake, byHand, crossed>>
  BY DEF CreatePool, LoseAnswer, match, history
<1>3. names # NoNames
  BY <1>2 DEF PoolInv, PoolsCreated
<1>4. /\ \A q \in Pools : named'[q] = IF q = NewPool THEN names ELSE named[q]
      /\ \A q \in Pools : named[q] # NoNames => named'[q] # NoNames
  BY <1>1, <1>3 DEF PoolInv, TypeOK
<1>5. /\ backfill' = [backfill EXCEPT ![b] = next]
      /\ \/ next = [pc |-> "configure", created |-> NewPool] /\ failures' = failures
         \/ next = Idle /\ failures' = failures + 1
  BY DEF CreatePool, LoseAnswer, PoolInv, TypeOK
<1>6. \A c \in Backfillers : backfill'[c] = IF c = b THEN next ELSE backfill[c]
  BY <1>5 DEF PoolInv, TypeOK
<1>7. PoolsCreated'
  <2>1. ASSUME NEW c \in Backfillers
        PROVE  /\ backfill'[c].pc = "create" => backfill'[c].names # NoNames
               /\ backfill'[c].pc = "configure" =>
                    named'[backfill'[c].created] # NoNames
    <3>1. CASE c = b
      BY <1>1, <1>3, <1>4, <1>5, <3>1 DEF Idle
    <3>2. CASE c # b
      <4>1. backfill[c].pc = "configure" => backfill[c].created \in Pools
        BY DEF PoolInv, TypeOK, BackfillState, Idle
      <4> QED
        BY <1>4, <1>6, <3>2, <4>1 DEF PoolInv, PoolsCreated
    <3> QED
      BY <3>1, <3>2
  <2>2. pool' \in Pools => named'[pool'] # NoNames
    BY <1>2, <1>4 DEF PoolInv, PoolsCreated
  <2>3. \A s \in Stakes : stake'[s] # NoStake => pool' # NoPool
    BY <1>2 DEF PoolInv, PoolsCreated
  <2> QED
    BY <2>1, <2>2, <2>3 DEF PoolsCreated
<1>8. backfill[b] # Idle
  BY <1>2 DEF Idle
<1>9. OneBackfill'
  BY <1>2, <1>6, <1>8 DEF PoolInv, OneBackfill
<1>10. PoolKept'
  <2> SUFFICES ASSUME ~byHand', ~crossed'
               PROVE  pool' = NoPool /\ \A s \in Stakes : stake'[s] = NoStake
    BY DEF PoolKept
  <2> QED
    BY <1>2, <1>8, BackfillFirst
<1>11. Created' = Created \cup {NewPool} /\ NewPool \notin Created
  BY <1>1, <1>3, <1>4 DEF Created
<1>12. IsFiniteSet(Created') /\ Cardinality(Created') = Cardinality(Created) + 1
  BY <1>11, FS_AddElement DEF PoolInv
<1>13. Cardinality(Created) \in Nat /\ failures \in Nat
  BY FS_CardinalityType DEF PoolInv, TypeOK
<1>14. /\ b \in Creating /\ b \notin Configuring
       /\ next.pc \notin {"opponents", "create"}
       /\ next.pc = "configure" \/ failures' = failures + 1
  BY <1>2, <1>5 DEF Creating, Configuring, Idle
<1> HIDE DEF next
<1>15. /\ Cardinality(Creating) \in Nat /\ Cardinality(Configuring) \in Nat
       /\ Cardinality(Configuring') \in Nat /\ Cardinality(Creating') \in Nat
       /\ Cardinality(Creating') = Cardinality(Creating) - 1
       /\ Cardinality(Configuring') >= Cardinality(Configuring)
       /\ \/ Cardinality(Configuring') = Cardinality(Configuring) + 1
          \/ failures' = failures + 1
  BY <1>5, <1>14, BackfillCounts DEF PoolInv
<1>16. failures' = failures \/ failures' = failures + 1
  BY <1>5
<1>17. PoolsCounted'
  BY <1>2, <1>12, <1>13, <1>15, <1>16, BackfillersCounted DEF PoolInv, PoolsCounted
<1> QED
  BY <1>7, <1>9, <1>10, <1>12, <1>17 DEF PoolInv

\* Once a pool is registered the backfillers are counted instead.
LEMMA PoolAppears ==
  ASSUME PoolInv, UNCHANGED <<named, failures>>, pool' # NoPool, Creating' = Creating
  PROVE  IsFiniteSet(Created)' /\ PoolsCounted'
<1>1. Created' = Created
  BY DEF Created
<1>2. /\ Cardinality(Created) \in Nat /\ failures \in Nat
      /\ Cardinality(Creating) \in Nat /\ Cardinality(Configuring) \in Nat
  BY FS_CardinalityType, FS_Subset, PoolIndexAssumption
     DEF PoolInv, TypeOK, Creating, Configuring
<1>3. Cardinality(Created) + Cardinality(Creating)
        <= failures + Cardinality(Backfillers)
  BY <1>2, BackfillersCounted DEF PoolInv, PoolsCounted
<1> QED
  BY <1>1, <1>3 DEF PoolInv, PoolsCounted

LEMMA RegistrationKeepsPoolInv ==
  ASSUME PoolInv, TypeOK', NEW b \in Backfillers, RegisterPool(b)
  PROVE  PoolInv'
<1>1. /\ backfill[b].pc = "configure" /\ pool' = backfill[b].created
      /\ backfill' = [backfill EXCEPT ![b] = Idle]
      /\ UNCHANGED <<named, stake, byHand, crossed, failures>>
  BY DEF RegisterPool, onChain, history
<1>2. backfill[b].created \in Pools
  <2>1. backfill[b] \in BackfillState
    BY DEF PoolInv, TypeOK
  <2> QED
    BY <1>1, <2>1 DEF BackfillState, Idle
<1>3. \A c \in Backfillers : backfill'[c] = IF c = b THEN Idle ELSE backfill[c]
  BY <1>1 DEF PoolInv, TypeOK
<1>4. pool' # NoPool /\ named[pool'] # NoNames
  BY <1>1, <1>2, PoolIndexAssumption DEF PoolInv, PoolsCreated
<1>5. PoolsCreated'
  BY <1>1, <1>3, <1>4 DEF PoolInv, PoolsCreated, Idle
<1>6. OneBackfill'
  BY <1>1, <1>3 DEF PoolInv, OneBackfill
<1>7. PoolKept'
  <2> SUFFICES ASSUME ~byHand', ~crossed'
               PROVE  /\ \A c \in Backfillers : backfill'[c] = Idle
                      /\ \A s \in Stakes : stake'[s] = NoStake
    BY DEF PoolKept
  <2>1. backfill[b] # Idle
    BY <1>1 DEF Idle
  <2> QED
    BY <1>1, <1>3, <2>1, BackfillFirst
<1>8. Creating' = Creating
  BY <1>1, <1>3 DEF Creating, Idle
<1> QED
  BY <1>1, <1>4, <1>5, <1>6, <1>7, <1>8, PoolAppears DEF PoolInv

LEMMA ConfigurationKeepsPoolInv ==
  ASSUME PoolInv, TypeOK', NEW id, ConfigurePool(id)
  PROVE  PoolInv'
<1>1. /\ id \in Created \cup {Mistyped} /\ pool' = id /\ byHand' = TRUE
      /\ UNCHANGED <<backfill, named, stake, failures, crossed>>
  BY DEF ConfigurePool, onChain
<1>2. pool' # NoPool /\ (pool' \in Pools => named[pool'] # NoNames)
  BY <1>1, PoolIndexAssumption DEF Created
<1>3. PoolsCreated'
  BY <1>1, <1>2 DEF PoolInv, PoolsCreated
<1>4. OneBackfill' /\ PoolKept'
  BY <1>1 DEF PoolInv, OneBackfill, PoolKept
<1>5. Creating' = Creating
  BY <1>1 DEF Creating
<1> QED
  BY <1>1, <1>2, <1>3, <1>4, <1>5, PoolAppears DEF PoolInv

LEMMA StakeKeepsPoolInv ==
  ASSUME PoolInv, TypeOK', NEW batch \in SUBSET Stakes, NEW o \in Slots,
         StakeOnChain(batch, o)
  PROVE  PoolInv'
<1>1. /\ pool \in Pools
      /\ UNCHANGED <<pool, backfill, named, failures, byHand, crossed>>
  BY DEF StakeOnChain, match, history
<1>2. \A s \in Stakes :
        stake'[s] = IF s \in batch THEN [pool |-> pool, outcome |-> o, tx |-> batch]
                    ELSE stake[s]
  BY DEF StakeOnChain
<1>3. PoolsCreated'
  BY <1>1, <1>2, PoolIndexAssumption DEF PoolInv, PoolsCreated
<1>4. OneBackfill'
  BY <1>1 DEF PoolInv, OneBackfill
<1>5. PoolKept'
  BY <1>1, <1>2 DEF PoolInv, PoolKept
<1>6. UNCHANGED <<Created, Configuring, Creating>>
  BY <1>1 DEF Created, Configuring, Creating
<1>7. IsFiniteSet(Created)' /\ PoolsCounted'
  BY <1>1, <1>6 DEF PoolInv, PoolsCounted
<1> QED
  BY <1>3, <1>4, <1>5, <1>7 DEF PoolInv

LEMMA BackfillKeepsPoolInv ==
  ASSUME PoolInv, TypeOK', NEW b \in Backfillers,
         \/ ListMissing(b) \/ ReadOpponents(b) \/ CreatePool(b) \/ LoseAnswer(b)
         \/ RegisterPool(b) \/ FailBackfill(b)
  PROVE  PoolInv'
<1>0. failures \in Nat
  BY DEF PoolInv, TypeOK
<1>1. CASE ListMissing(b)
  <2> DEFINE next == [pc |-> "opponents"]
  <2>1. /\ backfill' = [backfill EXCEPT ![b] = next]
        /\ UNCHANGED <<pool, named, stake, byHand, failures>> /\ pool = NoPool
        /\ backfill[b].pc # "configure"
    BY <1>1 DEF ListMissing, MissingPool, match, onChain, Idle
  <2>2. next.pc = "opponents"
    OBVIOUS
  <2>3. /\ crossed => crossed'
        /\ ~crossed' => \A c \in Backfillers : ~(backfill[c] # Idle)
    BY <1>1, Zenon DEF ListMissing
  <2>4. (~crossed' /\ next # Idle) => \A c \in Backfillers : backfill[c] # Idle => c = b
    BY <2>3, Zenon
  <2>5. failures' >= failures
    BY <1>0, <2>1
  <2> HIDE DEF next
  <2> QED
    BY <2>1, <2>2, <2>3, <2>4, <2>5, BackfillGoesOn
<1>2. CASE ReadOpponents(b)
  <2> DEFINE next == IF Known(opponents) THEN [pc |-> "create", names |-> opponents]
                     ELSE Idle
  <2>1. /\ backfill' = [backfill EXCEPT ![b] = next]
        /\ backfill[b].pc = "opponents"
        /\ UNCHANGED <<pool, named, stake, byHand, failures>>
    BY <1>2 DEF ReadOpponents, match, onChain, history
  <2>2. backfill[b] # Idle
    BY <1>2 DEF ReadOpponents, Idle
  <2>3. /\ next.pc # "configure"
        /\ next.pc = "create" => next.names # NoNames
    BY DEF Known, NoNames, Slots, Idle
  <2>4. crossed' = crossed
    BY <1>2 DEF ReadOpponents, history
  <2>5. crossed => crossed'
    BY <2>4, Zenon
  <2>6. (~crossed' /\ next # Idle) => \A c \in Backfillers : backfill[c] # Idle => c = b
    BY <2>2, <2>4, Zenon DEF PoolInv, OneBackfill
  <2>7. failures' >= failures
    BY <1>0, <2>1
  <2> HIDE DEF next
  <2> QED
    BY <2>1, <2>2, <2>3, <2>5, <2>6, <2>7, BackfillGoesOn
<1>3. CASE CreatePool(b) \/ LoseAnswer(b)
  BY <1>3, CreationKeepsPoolInv
<1>4. CASE RegisterPool(b)
  BY <1>4, RegistrationKeepsPoolInv
<1>5. CASE FailBackfill(b)
  <2>1. /\ backfill' = [backfill EXCEPT ![b] = Idle]
        /\ UNCHANGED <<pool, named, stake, byHand>>
        /\ backfill[b] # Idle /\ failures' = failures + 1
    BY <1>5 DEF FailBackfill, match, onChain, history
  <2>2. Idle.pc = "idle"
    BY DEF Idle
  <2>3. crossed' = crossed
    BY <1>5 DEF FailBackfill, history
  <2>4. crossed => crossed'
    BY <2>3, Zenon
  <2>5. failures' >= failures
    BY <1>0, <2>1
  <2> QED
    BY <2>1, <2>2, <2>4, <2>5, BackfillGoesOn
<1> QED
  BY <1>1, <1>2, <1>3, <1>4, <1>5

LEMMA NextKeepsPoolInv == PoolInv /\ TypeOK' /\ [Next]_vars => PoolInv'
<1> SUFFICES ASSUME PoolInv, TypeOK', [Next]_vars
             PROVE  PoolInv'
  OBVIOUS
<1>0. failures \in Nat
  BY DEF PoolInv, TypeOK
<1>1. ASSUME NEW g \in Ingesters,
             \/ \E l \in Lineups, over \in BOOLEAN : StartIngest(g, l, over)
             \/ StoreOpponent(g) \/ FailIngest(g)
      PROVE  PoolInv'
  <2>1. /\ UNCHANGED <<pool, backfill, named, stake, history>>
        /\ failures' = failures \/ failures' = failures + 1
    BY <1>1 DEF StartIngest, StoreOpponent, FailIngest, match, onChain
  <2> QED
    BY <1>0, <2>1, FramePool
<1>2. ASSUME NEW b \in Backfillers,
             \/ ListMissing(b) \/ ReadOpponents(b) \/ CreatePool(b) \/ LoseAnswer(b)
             \/ RegisterPool(b) \/ FailBackfill(b)
      PROVE  PoolInv'
  BY <1>2, BackfillKeepsPoolInv
<1>3. ASSUME NEW id, ConfigurePool(id)
      PROVE  PoolInv'
  BY <1>3, ConfigurationKeepsPoolInv
<1>4. ASSUME NEW batch \in SUBSET Stakes, NEW o \in Slots, StakeOnChain(batch, o)
      PROVE  PoolInv'
  BY <1>4, StakeKeepsPoolInv
<1>5. CASE StakeElsewhere
  BY <1>0, <1>5, FramePool DEF StakeElsewhere, match
<1>6. ASSUME NEW y \in Syncers,
             \/ StartSync(y) \/ ReadEvents(y) \/ CheckIndexed(y)
             \/ InsertIndexed(y) \/ FailSync(y)
      PROVE  PoolInv'
  <2>1. /\ UNCHANGED <<pool, backfill, named, stake, history>>
        /\ failures' = failures \/ failures' = failures + 1
    BY <1>6
       DEF StartSync, ReadEvents, CheckIndexed, InsertIndexed, FailSync, match, onChain
  <2> QED
    BY <1>0, <2>1, FramePool
<1>7. CASE UNCHANGED vars
  BY <1>0, <1>7, FramePool DEF vars, match, onChain
<1> QED
  BY <1>1, <1>2, <1>3, <1>4, <1>5, <1>6, <1>7 DEF Next

LEMMA PoolInvariance == Spec => []PoolInv
<1>1. IndexInv' => TypeOK'
  BY DEF IndexInv
<1> QED
  BY <1>1, InitPoolInv, NextKeepsPoolInv, IndexInvariance, PTL DEF Spec

\* Backfills that do not overlap never replace the pool under the stakes that
\* were made in it, whatever call or statement of them fails or loses its
\* answer.
THEOREM StakesStayInPool == Spec => []StakesInRegisteredPool
<1>1. PoolInv => StakesInRegisteredPool
  BY DEF PoolInv, PoolKept, StakesInRegisteredPool
<1> QED
  BY <1>1, PoolInvariance, PTL

\* However many backfillers find the match without a pool at once, it gets one
\* of each at most, and one more for each failure.
THEOREM FewPools == Spec => []PoolsPerBackfiller
<1>1. PoolInv => PoolsPerBackfiller
  <2> SUFFICES ASSUME PoolInv
               PROVE  Cardinality(Created) <= Cardinality(Backfillers) + failures
    BY DEF PoolsPerBackfiller
  <2>1. /\ Cardinality(Created) \in Nat /\ failures \in Nat
        /\ Cardinality(Creating) \in Nat /\ Cardinality(Configuring) \in Nat
    BY FS_CardinalityType, FS_Subset, PoolIndexAssumption
       DEF PoolInv, TypeOK, Creating, Configuring
  <2> QED
    BY <2>1, BackfillersCounted DEF PoolInv, PoolsCounted
<1> QED
  BY <1>1, PoolInvariance, PTL

-----------------------------------------------------------------------------
(* The resale market.  First what its actions do to the chain: the receipt *)
(* and its listing are the only parts that the rows are about.             *)

\* A receipt that is for sale is escrowed; a resolved pool has a winner.
Escrowed ==
  listing[Receipt] # NoListing =>
    receipt[Receipt] # NoReceipt /\ receipt[Receipt].at = "listing"
WinnerNamed == status[Pool] = "resolved" => winning[Pool] \in Chain!Outcomes
ChainInv == Chain!TypeOK /\ Escrowed /\ WinnerNamed

\* Every step of the chain leaves a receipt minted, and its owner alone unless
\* the receipt is bought.
ReceiptStays ==
  receipt[Receipt] # NoReceipt =>
    receipt'[Receipt] # NoReceipt /\ receipt'[Receipt].owner = receipt[Receipt].owner

LEMMA ChainConstants ==
  /\ NoListing \notin Chain!ReceiptListing
  /\ NoReceipt \notin Chain!StakeReceipt
BY ReceiptMarketAssumption DEF Chain!StakingPoolAssumption

LEMMA InitChain == Chain!Init => ChainInv
BY ChainConstants
DEF Chain!Init, Chain!TypeOK, Chain!Outcomes, ChainInv, Escrowed, WinnerNamed

LEMMA HeldReceipt ==
  ASSUME Chain!TypeOK, NEW u, Chain!Held(Receipt, u)
  PROVE  receipt[Receipt] \in Chain!StakeReceipt /\ receipt[Receipt].at = "wallet"
BY DEF Chain!TypeOK, Chain!Held, Chain!Minted

LEMMA CreatePoolKeepsChain ==
  ASSUME ChainInv, Chain!CreatePool(Admin, Pool, Expiry)
  PROVE  ChainInv' /\ listing' = listing /\ ReceiptStays
BY DEF ChainInv, Escrowed, WinnerNamed, ReceiptStays, Chain!CreatePool, Chain!TypeOK,
       Expiry

LEMMA StakeKeepsChain ==
  ASSUME ChainInv, NEW u \in Wallets, Chain!Stake(u, Pool, Receipt, 1, Ask)
  PROVE  ChainInv' /\ listing' = listing /\ ReceiptStays
<1> USE DEF ChainInv, Chain!Stake
<1> DEFINE new ==
      [pool |-> Pool, owner |-> u, outcome |-> 1, amount |-> Ask,
       num |-> Chain!QuotedOdds(Pool, 1, Ask)[1],
       den |-> Chain!QuotedOdds(Pool, 1, Ask)[2],
       holder |-> u, at |-> "wallet"]
<1>1. /\ total[Pool] \in [Chain!Outcomes -> Nat] /\ vault[Pool] \in Nat
      /\ Ask \in Nat \ {0} /\ 1 \in Chain!Outcomes
  BY DEF Chain!TypeOK, Ask, Chain!Outcomes
<1>2. Chain!Pot(Pool) \in Nat /\ total[Pool][1] \in Nat
  BY <1>1 DEF Chain!Pot, Chain!Outcomes
<1>3. new \in Chain!StakeReceipt
  BY <1>1, <1>2 DEF Chain!StakeReceipt, Chain!QuotedOdds
<1>4. receipt' = [receipt EXCEPT ![Receipt] = new]
  OBVIOUS
<1>5. receipt[Receipt] = NoReceipt /\ receipt'[Receipt] = new
  BY <1>4 DEF Chain!Minted, Chain!TypeOK
<1>6. Chain!TypeOK'
  BY <1>1, <1>2, <1>3, <1>4 DEF Chain!TypeOK
<1>7. Escrowed' /\ WinnerNamed'
  BY <1>5 DEF Escrowed, WinnerNamed
<1> QED
  BY <1>5, <1>6, <1>7 DEF ReceiptStays

LEMMA ResolveKeepsChain ==
  ASSUME ChainInv, Chain!Resolve(Admin, Pool, 1)
  PROVE  ChainInv' /\ listing' = listing /\ ReceiptStays
BY DEF ChainInv, Escrowed, WinnerNamed, ReceiptStays, Chain!Resolve, Chain!TypeOK,
       Chain!Outcomes

LEMMA ClaimKeepsChain ==
  ASSUME ChainInv, NEW u \in Wallets, Chain!Claim(u, Pool, Receipt)
  PROVE  ChainInv' /\ listing' = listing /\ ReceiptStays
<1> USE DEF ChainInv, Chain!Claim, Chain!PayReceipt
<1> DEFINE x == Chain!ClaimPayout(Pool, Receipt)
<1>1. receipt[Receipt] \in Chain!StakeReceipt /\ receipt[Receipt].at = "wallet"
  BY HeldReceipt
<1>2. winning[Pool] \in Chain!Outcomes /\ total[Pool] \in [Chain!Outcomes -> Nat]
  BY DEF WinnerNamed, Chain!TypeOK
<1>3. Chain!Pot(Pool) \in Nat /\ Chain!winning_total(Pool) \in Nat
  BY <1>2 DEF Chain!Pot, Chain!Outcomes, Chain!winning_total
<1>4. receipt[Receipt].amount \in Nat
  BY <1>1 DEF Chain!StakeReceipt
<1>5. \A a, t \in Nat : a * t \in Nat
  OBVIOUS
<1>6. \A n \in Nat, w \in Nat \ {0} : n \div w \in Nat
  OBVIOUS
<1>7. x \in Nat
  BY <1>3, <1>4, <1>5, <1>6 DEF Chain!ClaimPayout
<1>8. vault[Pool] \in Nat /\ vault[Pool] >= x
  BY DEF Chain!TypeOK
<1> HIDE DEF x
<1>9. /\ receipt' = [receipt EXCEPT ![Receipt] = [receipt[Receipt] EXCEPT !.at = "deleted"]]
      /\ [receipt[Receipt] EXCEPT !.at = "deleted"] \in Chain!StakeReceipt
  BY <1>1 DEF Chain!StakeReceipt
<1>10. receipt' \in [{Receipt} -> Chain!StakeReceipt \cup {NoReceipt}]
  BY <1>9 DEF Chain!TypeOK
<1>11. vault' \in [{Pool} -> Nat] /\ paid' \in [{Receipt} -> Nat]
  BY <1>7, <1>8 DEF Chain!TypeOK, x
<1>12. Chain!TypeOK'
  BY <1>10, <1>11 DEF Chain!TypeOK
<1>13. receipt'[Receipt] # NoReceipt /\ receipt'[Receipt].owner = receipt[Receipt].owner
  BY <1>1, <1>9, ChainConstants DEF Chain!TypeOK, Chain!StakeReceipt
<1>14. Escrowed' /\ WinnerNamed'
  BY <1>1, <1>13 DEF Escrowed, WinnerNamed
<1> QED
  BY <1>12, <1>13, <1>14 DEF ReceiptStays

LEMMA TickKeepsChain ==
  ASSUME ChainInv, Chain!Tick
  PROVE  ChainInv' /\ listing' = listing /\ ReceiptStays
BY DEF ChainInv, Escrowed, WinnerNamed, ReceiptStays, Chain!Tick, Chain!TypeOK,
       Chain!poolVars

LEMMA ChainStepMoves ==
  ASSUME ChainInv, ChainStep
  PROVE  ChainInv' /\ listing' = listing /\ ReceiptStays
BY CreatePoolKeepsChain, StakeKeepsChain, ResolveKeepsChain, ClaimKeepsChain,
   TickKeepsChain DEF ChainStep

LEMMA ListingMoves ==
  ASSUME ChainInv, NEW u \in Wallets, Chain!ListReceipt(u, Receipt, Ask, Expiry)
  PROVE  /\ ChainInv' /\ ReceiptStays
         /\ receipt[Receipt] # NoReceipt /\ receipt[Receipt].owner = u
<1> USE DEF ChainInv, Chain!ListReceipt
<1> DEFINE new == [seller |-> u, ask |-> Ask, expires |-> Expiry]
<1>1. receipt[Receipt] \in Chain!StakeReceipt /\ receipt[Receipt].owner = u
  BY HeldReceipt DEF Chain!MayList
<1>2. /\ receipt' = [receipt EXCEPT ![Receipt] = [receipt[Receipt] EXCEPT !.at = "listing"]]
      /\ [receipt[Receipt] EXCEPT !.at = "listing"] \in Chain!StakeReceipt
  BY <1>1 DEF Chain!StakeReceipt
<1>3. listing' = [listing EXCEPT ![Receipt] = new] /\ new \in Chain!ReceiptListing
  BY DEF Chain!ReceiptListing, Ask, Expiry
<1>4. Chain!TypeOK'
  BY <1>2, <1>3 DEF Chain!TypeOK, Chain!poolVars
<1>5. /\ receipt'[Receipt] # NoReceipt /\ receipt'[Receipt].at = "listing"
      /\ receipt'[Receipt].owner = receipt[Receipt].owner
  BY <1>1, <1>2, ChainConstants DEF Chain!TypeOK, Chain!StakeReceipt
<1>6. Escrowed' /\ WinnerNamed'
  BY <1>5 DEF Escrowed, WinnerNamed, Chain!poolVars
<1> QED
  BY <1>1, <1>4, <1>5, <1>6, ChainConstants DEF ReceiptStays

\* The end of a listing: nothing is for sale, and the receipt is owner's.
LEMMA UnlistingMoves ==
  ASSUME ChainInv, listing[Receipt] # NoListing,
         NEW u \in Wallets \cup {Admin}, NEW owner \in Wallets \cup {Admin},
         Chain!Unlist(Receipt, u, owner)
  PROVE  /\ ChainInv' /\ listing'[Receipt] = NoListing
         /\ receipt'[Receipt] # NoReceipt /\ receipt'[Receipt].owner = owner
<1>1. receipt[Receipt] \in Chain!StakeReceipt
  BY DEF ChainInv, Escrowed, Chain!TypeOK
<1> DEFINE new == [receipt[Receipt] EXCEPT !.at = "wallet", !.holder = u, !.owner = owner]
<1>2. receipt' = [receipt EXCEPT ![Receipt] = new]
  BY DEF Chain!Unlist
<1>3. new \in Chain!StakeReceipt /\ new.owner = owner
  BY <1>1 DEF Chain!StakeReceipt
<1> HIDE DEF new
<1>4. /\ listing' = [listing EXCEPT ![Receipt] = NoListing] /\ Chain!TypeOK
      /\ UNCHANGED <<clock, status, winning, deadline, total, vault, paid>>
  BY DEF Chain!Unlist, Chain!poolVars, ChainInv
<1>5. receipt'[Receipt] = new /\ listing'[Receipt] = NoListing
  BY <1>2, <1>4 DEF Chain!TypeOK
<1>6. Chain!TypeOK'
  BY <1>2, <1>3, <1>4 DEF Chain!TypeOK
<1>7. WinnerNamed'
  BY <1>4 DEF ChainInv, WinnerNamed
<1> QED
  BY <1>3, <1>5, <1>6, <1>7, ChainConstants DEF ChainInv, Escrowed

LEMMA CancelMoves ==
  ASSUME ChainInv, NEW u \in Wallets, Chain!CancelReceiptListing(u, Receipt)
  PROVE  ChainInv' /\ listing'[Receipt] = NoListing /\ ReceiptStays
<1>1. receipt[Receipt] \in Chain!StakeReceipt /\ listing[Receipt] # NoListing
  BY DEF Chain!CancelReceiptListing, ChainInv, Escrowed, Chain!TypeOK
<1>2. receipt[Receipt].owner \in Wallets \cup {Admin}
  BY <1>1 DEF Chain!StakeReceipt
<1> QED
  BY <1>1, <1>2, UnlistingMoves DEF Chain!CancelReceiptListing, ReceiptStays

LEMMA PurchaseMoves ==
  ASSUME ChainInv, NEW u \in Wallets, Chain!BuyReceipt(u, Receipt, Ask)
  PROVE  /\ ChainInv' /\ listing[Receipt] # NoListing /\ listing'[Receipt] = NoListing
         /\ receipt'[Receipt] # NoReceipt /\ receipt'[Receipt].owner = u
BY UnlistingMoves DEF Chain!BuyReceipt

-----------------------------------------------------------------------------
\* Rows are numbered without gaps, and are of a receipt that was minted.
RowsFilled == \E n \in 0 .. MaxRows : Rows = 1 .. n
Drafting == {q \in Requests : request[q].pc = "insert"}
ReceiptMinted == Rows \cup Drafting # {} => receipt[Receipt] # NoReceipt

\* An object was listed from a row, and a row shows the last of its objects
\* whose activation went through.
ListedFromRow == \A o \in DOMAIN listed : listed[o] \in Rows
ObjectReported ==
  \A l \in Rows :
    /\ row[l].status = "draft" <=> row[l].object = 0
    /\ row[l].object # 0 =>
         /\ row[l].object \in reported /\ row[l].object \in DOMAIN listed
         /\ listed[row[l].object] = l
ReportedListed == reported \subseteq DOMAIN listed

\* One activation at a time, of the newest object reported.
Activating == {q \in Requests : request[q].pc = "activate"}
ActivationSound ==
  \A q \in Activating :
    /\ Activating = {q}
    /\ request[q].object \in reported
    /\ \A o \in reported : o <= request[q].object
    /\ listed[request[q].object] = request[q].row
    /\ row[request[q].row].object < request[q].object

\* A plan is of a row that was activated with its object, or a later one.
PlanSound ==
  \A u \in Wallets :
    buyPtb[u] # NoPtb =>
      /\ buyPtb[u].object \in DOMAIN listed
      /\ listed[buyPtb[u].object] = buyPtb[u].row
      /\ row[buyPtb[u].row].object >= buyPtb[u].object
      /\ row[buyPtb[u].row].seller # u

SellSound ==
  \A q \in Requests :
    request[q].pc = "sell" =>
      \E b \in bought : b.buyer = request[q].who /\ b.row = request[q].row

Tables ==
  /\ RowsFilled /\ ReceiptMinted /\ ListedFromRow /\ ObjectReported
  /\ ReportedListed /\ ActivationSound /\ PlanSound /\ SellSound

\* Without two drafts at the same time one row at most is open, a draft on its
\* way finds none, and the receipt is for sale from the open row alone.
OneOpen == \A k, l \in OpenRows : k = l
DraftSound ==
  \A q \in Drafting :
    /\ Drafting = {q} /\ OpenRows = {} /\ listing[Receipt] = NoListing
    /\ receipt[Receipt].owner = request[q].who
Bought(l) == \E b \in bought : b.row = l
ListingSound ==
  listing[Receipt] # NoListing =>
    /\ Len(listed) > 0 /\ listed[Len(listed)] \in OpenRows
    /\ ~Bought(listed[Len(listed)])
Owners ==
  \A l \in OpenRows :
    IF Bought(l)
    THEN receipt[Receipt].owner # row[l].seller /\ listing[Receipt] = NoListing
    ELSE receipt[Receipt].owner = row[l].seller

\* What was bought is the last object listed from its row: nothing is listed
\* from a row, nor activated for it, after its purchase.
PurchaseSound ==
  \A b \in bought :
    /\ b.row \in Rows /\ row[b.row].object = b.object
    /\ \A o \in DOMAIN listed : listed[o] = b.row => o <= b.object
SoldSound ==
  \A l \in Rows :
    row[l].status = "sold" =>
      [row |-> l, object |-> row[l].object, buyer |-> row[l].buyer] \in bought

Serial ==
  /\ OneOpen /\ DraftSound /\ ListingSound /\ Owners /\ PurchaseSound /\ SoldSound

MarketInv == MarketTypeOK /\ ChainInv /\ Tables /\ (~overlapped => Serial)

LEMMA RowType ==
  ASSUME MarketTypeOK, NEW l \in RowIds
  PROVE  /\ row[l] # NoRow => row[l] \in Row
         /\ row[l].status \in {"draft", "active", "sold"} => row[l] \in Row
         /\ row[l] \in Row => row[l] # NoRow
BY DEF MarketTypeOK, Row, NoRow

LEMMA OpenType ==
  ASSUME MarketTypeOK, NEW l \in OpenRows
  PROVE  l \in Rows /\ l \in RowIds /\ row[l] \in Row
BY RowType DEF OpenRows, Rows

LEMMA ListedType ==
  ASSUME MarketTypeOK
  PROVE  /\ Len(listed) \in Nat /\ DOMAIN listed = 1 .. Len(listed)
         /\ \A o \in DOMAIN listed : o \in Objects /\ listed[o] \in RowIds
BY ReceiptMarketAssumption DEF MarketTypeOK, Objects

LEMMA RequestType ==
  ASSUME MarketTypeOK, NEW q \in Requests
  PROVE  /\ request[q].pc = "insert" => request[q].who \in Wallets
         /\ request[q].pc = "activate" =>
              request[q].row \in RowIds /\ request[q].object \in Objects
         /\ request[q].pc = "sell" =>
              request[q].row \in RowIds /\ request[q].who \in Wallets
BY DEF MarketTypeOK, RequestState, Unsent, Done

LEMMA PlanType ==
  ASSUME MarketTypeOK, NEW u \in Wallets, buyPtb[u] # NoPtb
  PROVE  buyPtb[u] \in [row : RowIds, object : Objects]
BY DEF MarketTypeOK

LEMMA InitMarketInv == MarketInit => MarketInv
<1> SUFFICES ASSUME MarketInit
             PROVE  MarketInv
  OBVIOUS
<1> USE ReceiptMarketAssumption DEF MarketInit
<1>1. ChainInv
  BY InitChain
<1>2. MarketTypeOK
  <2>1. request \in [Requests -> RequestState]
    BY DEF RequestState
  <2>2. row \in [RowIds -> Row \cup {NoRow}]
    OBVIOUS
  <2>3. buyPtb \in [Wallets -> [row : RowIds, object : Objects] \cup {NoPtb}]
    OBVIOUS
  <2>4. listed \in Seq(RowIds) /\ Len(listed) <= MaxObjects
    OBVIOUS
  <2>5. bought \subseteq Purchase /\ reported \subseteq Objects
    OBVIOUS
  <2>6. accepting \in BOOLEAN /\ overlapped \in BOOLEAN /\ resent \in BOOLEAN
    OBVIOUS
  <2>7. faults = 0 /\ MaxFaults \in Nat
    OBVIOUS
  <2> HIDE ReceiptMarketAssumption DEF MarketInit
  <2>8. faults \in 0 .. MaxFaults
    BY <2>7
  <2> QED
    BY <1>1, <2>1, <2>2, <2>3, <2>4, <2>5, <2>6, <2>8 DEF MarketTypeOK, ChainInv
<1>3. Rows = {} /\ Drafting = {} /\ Activating = {} /\ OpenRows = {}
  BY DEF Rows, OpenRows, Drafting, Activating, Unsent
<1>4. RowsFilled
  <2>1. Rows = 1 .. 0 /\ 0 \in 0 .. MaxRows
    BY <1>3
  <2> QED
    BY <2>1 DEF RowsFilled
<1>5. listing[Receipt] = NoListing
  BY DEF Chain!Init
<1>6. Tables
  BY <1>3, <1>4
  DEF Tables, ReceiptMinted, ListedFromRow, ObjectReported, ReportedListed,
      ActivationSound, PlanSound, SellSound, Unsent
<1>7. Serial
  BY <1>3, <1>5
  DEF Serial, OneOpen, DraftSound, ListingSound, Owners, PurchaseSound, SoldSound
<1> QED
  BY <1>1, <1>2, <1>6, <1>7 DEF MarketInv

\* A step that leaves the tables and the requests alone, and neither lists the
\* receipt nor sells it.
LEMMA QuietKeepsMarketInv ==
  ASSUME MarketInv, MarketTypeOK', ChainInv', ReceiptStays,
         listing'[Receipt] = listing[Receipt] \/ listing'[Receipt] = NoListing,
         UNCHANGED <<listed, bought, row, buyPtb, request, reported, overlapped>>
  PROVE  MarketInv'
<1>1. Rows' = Rows /\ OpenRows' = OpenRows /\ Drafting' = Drafting
      /\ Activating' = Activating
  BY DEF Rows, OpenRows, Drafting, Activating
<1>2. OpenRows \subseteq Rows
  BY DEF OpenRows
<1>3. ReceiptMinted'
  BY <1>1 DEF MarketInv, Tables, ReceiptMinted, ReceiptStays
<1>4. Tables'
  BY <1>1, <1>3
  DEF MarketInv, Tables, RowsFilled, ListedFromRow, ObjectReported, ReportedListed,
      ActivationSound, PlanSound, SellSound
<1>5. ASSUME Serial
      PROVE  Serial'
  <2>1. Owners'
    BY <1>1, <1>2, <1>5
    DEF Serial, Owners, Bought, MarketInv, Tables, ReceiptMinted, ReceiptStays
  <2>2. DraftSound'
    BY <1>1, <1>5
    DEF Serial, DraftSound, MarketInv, Tables, ReceiptMinted, ReceiptStays
  <2>3. OneOpen' /\ PurchaseSound' /\ SoldSound'
    BY <1>1, <1>5 DEF Serial, OneOpen, PurchaseSound, SoldSound
  <2>4. ListingSound'
    BY <1>1, <1>5 DEF Serial, ListingSound, Bought
  <2> QED
    BY <2>1, <2>2, <2>3, <2>4 DEF Serial
<1> QED
  BY <1>4, <1>5 DEF MarketInv

LEMMA ListKeepsMarketInv ==
  ASSUME MarketInv, NEW u \in Wallets, NEW l \in RowIds, ListOnChain(u, l)
  PROVE  MarketInv'
<1> USE DEF ListOnChain, OffChain, clients, server
<1>1. /\ ChainInv' /\ ReceiptStays
      /\ receipt[Receipt] # NoReceipt /\ receipt[Receipt].owner = u
  BY ListingMoves DEF MarketInv
<1>2. listed' \in Seq(RowIds) /\ Len(listed') = Len(listed) + 1
      /\ listed'[Len(listed')] = l /\ \A o \in DOMAIN listed : listed'[o] = listed[o]
  BY DEF MarketInv, MarketTypeOK
<1>3. DOMAIN listed = 1 .. Len(listed) /\ DOMAIN listed' = 1 .. Len(listed) + 1
      /\ Len(listed) \in Nat
  BY <1>2, ListedType DEF MarketInv
<1>4. MarketTypeOK'
  BY <1>1, <1>2, <1>3, ReceiptMarketAssumption DEF MarketInv, MarketTypeOK, ChainInv
<1>5. Rows' = Rows /\ OpenRows' = OpenRows /\ Drafting' = Drafting
      /\ Activating' = Activating
  BY DEF Rows, OpenRows, Drafting, Activating
<1>6. l \in Rows /\ OpenRows \subseteq Rows
  BY DEF OpenRows
<1>7. Tables'
  <2> USE DEF MarketInv, Tables
  <2>1. RowsFilled' /\ ReceiptMinted' /\ SellSound'
    BY <1>1, <1>5 DEF RowsFilled, ReceiptMinted, ReceiptStays, SellSound
  <2>2. ListedFromRow'
    BY <1>2, <1>3, <1>5, <1>6 DEF ListedFromRow
  <2>3. ObjectReported' /\ ReportedListed'
    BY <1>2, <1>3, <1>5 DEF ObjectReported, ReportedListed
  <2>4. ActivationSound'
    BY <1>2, <1>5 DEF ActivationSound, ReportedListed
  <2>5. PlanSound'
    BY <1>2, <1>3 DEF PlanSound
  <2> QED
    BY <2>1, <2>2, <2>3, <2>4, <2>5
<1>8. ASSUME Serial
      PROVE  Serial'
  <2> USE <1>8 DEF Serial
  <2>1. ~Bought(l)
    BY <1>1 DEF Owners
  <2>2. OneOpen' /\ SoldSound'
    BY <1>5 DEF OneOpen, SoldSound
  <2>3. DraftSound'
    BY <1>5 DEF DraftSound
  <2>4. ListingSound'
    BY <1>2, <1>3, <1>5, <2>1 DEF ListingSound, Bought
  <2>5. Owners'
    BY <1>1, <1>5, <1>6, <2>1 DEF OneOpen, Owners, Bought, ReceiptStays
  <2>6. PurchaseSound'
    BY <1>2, <1>3, <1>5, <2>1 DEF PurchaseSound, Bought
  <2> QED
    BY <2>2, <2>3, <2>4, <2>5, <2>6
<1> QED
  BY <1>1, <1>4, <1>7, <1>8 DEF MarketInv

LEMMA PlanKeepsMarketInv ==
  ASSUME MarketInv, NEW u \in Wallets, NEW l \in RowIds, GetBuyPtb(u, l)
  PROVE  MarketInv'
<1> USE DEF GetBuyPtb, Buyable, PlannedObject, server, market, chainVars
<1>1. ChainInv'
  BY DEF MarketInv, ChainInv, Chain!TypeOK, Escrowed, WinnerNamed
<1>2. /\ row[l].object \in DOMAIN listed /\ listed[row[l].object] = l
      /\ row[l].object \in Objects
  <2>1. row[l] \in Row
    BY RowType DEF MarketInv
  <2>2. row[l].object # 0
    BY DEF MarketInv, Tables, ObjectReported
  <2> QED
    BY <2>1, <2>2 DEF Row, MarketInv, Tables, ObjectReported
<1>3. MarketTypeOK'
  BY <1>1, <1>2 DEF MarketInv, MarketTypeOK, ChainInv
<1>4. PlanSound'
  <2> SUFFICES ASSUME NEW v \in Wallets, buyPtb'[v] # NoPtb
               PROVE  /\ buyPtb'[v].object \in DOMAIN listed
                      /\ listed[buyPtb'[v].object] = buyPtb'[v].row
                      /\ row[buyPtb'[v].row].object >= buyPtb'[v].object
                      /\ row[buyPtb'[v].row].seller # v
    BY DEF PlanSound
  <2>1. CASE v = u
    BY <1>2, <2>1 DEF MarketInv, MarketTypeOK, Objects
  <2>2. CASE v # u
    BY <2>2 DEF MarketInv, MarketTypeOK, Tables, PlanSound
  <2> QED
    BY <2>1, <2>2
<1>5. Rows' = Rows /\ OpenRows' = OpenRows /\ Drafting' = Drafting
      /\ Activating' = Activating
  BY DEF Rows, OpenRows, Drafting, Activating
<1>6. Tables'
  BY <1>4, <1>5
  DEF MarketInv, Tables, RowsFilled, ReceiptMinted, ListedFromRow, ObjectReported,
      ReportedListed, ActivationSound, SellSound
<1>7. Serial => Serial'
  BY <1>5
  DEF Serial, OneOpen, DraftSound, ListingSound, Owners, Bought, PurchaseSound,
      SoldSound
<1> QED
  BY <1>1, <1>3, <1>6, <1>7 DEF MarketInv

LEMMA BuyKeepsMarketInv ==
  ASSUME MarketInv, NEW u \in Wallets, BuyOnChain(u)
  PROVE  MarketInv'
<1> USE DEF BuyOnChain, server
<1> DEFINE l == buyPtb[u].row
           b == [row |-> l, object |-> Len(listed), buyer |-> u]
<1>1. /\ ChainInv' /\ listing[Receipt] # NoListing /\ listing'[Receipt] = NoListing
      /\ receipt'[Receipt] # NoReceipt /\ receipt'[Receipt].owner = u
  BY PurchaseMoves DEF MarketInv
<1>2. bought' = bought \cup {b} /\ b \in Purchase
  BY PlanType DEF MarketInv, Purchase
<1>3. MarketTypeOK'
  BY <1>1, <1>2 DEF MarketInv, MarketTypeOK, ChainInv
<1>4. Rows' = Rows /\ OpenRows' = OpenRows /\ Drafting' = Drafting
      /\ Activating' = Activating
  BY DEF Rows, OpenRows, Drafting, Activating
<1>5. \A v \in Wallets : buyPtb'[v] # NoPtb => buyPtb[v] # NoPtb /\ buyPtb'[v] = buyPtb[v]
  BY DEF MarketInv, MarketTypeOK
<1>6. Tables'
  <2> USE DEF MarketInv, Tables
  <2>1. RowsFilled' /\ ReceiptMinted' /\ ListedFromRow' /\ ObjectReported'
        /\ ReportedListed' /\ ActivationSound'
    BY <1>1, <1>4
    DEF RowsFilled, ReceiptMinted, ListedFromRow, ObjectReported, ReportedListed,
        ActivationSound
  <2>2. PlanSound'
    BY <1>5 DEF PlanSound
  <2>3. SellSound'
    BY <1>2 DEF SellSound
  <2> QED
    BY <2>1, <2>2, <2>3
<1>7. ASSUME Serial
      PROVE  Serial'
  <2> USE <1>7 DEF Serial
  <2>1. /\ l = listed[Len(listed)] /\ l \in OpenRows /\ l \in Rows
        /\ row[l].seller # u /\ row[l].object >= Len(listed) /\ Len(listed) \in DOMAIN listed
    BY <1>1 DEF ListingSound, MarketInv, Tables, PlanSound, OpenRows
  <2>2. Len(listed) \in Nat /\ DOMAIN listed = 1 .. Len(listed)
    BY ListedType DEF MarketInv
  <2>3. row[l].object = Len(listed)
    <3>1. row[l] \in Row
      BY <2>1, OpenType DEF MarketInv
    <3>2. row[l].object # 0
      BY <2>1, <2>2
    <3>3. row[l].object \in DOMAIN listed
      BY <2>1, <3>2 DEF MarketInv, Tables, ObjectReported
    <3> QED
      BY <2>1, <2>2, <3>3
  <2> HIDE DEF l
  <2>4. OneOpen'
    BY <1>4 DEF OneOpen
  <2>5. DraftSound' /\ ListingSound'
    BY <1>1, <1>4, <2>1 DEF DraftSound, ListingSound
  <2>6. Owners'
    BY <1>1, <1>2, <1>4, <2>1 DEF OneOpen, Owners, Bought
  <2>7. PurchaseSound'
    BY <1>2, <1>4, <2>1, <2>2, <2>3 DEF PurchaseSound
  <2>8. SoldSound'
    BY <1>2, <1>4 DEF SoldSound
  <2> QED
    BY <2>4, <2>5, <2>6, <2>7, <2>8
<1> QED
  BY <1>1, <1>3, <1>6, <1>7 DEF MarketInv

\* A request that does nothing more to the tables.
LEMMA RequestEnds ==
  ASSUME MarketInv, NEW q \in Requests, request' = [request EXCEPT ![q] = Done],
         faults' \in 0 .. MaxFaults, UNCHANGED <<row, overlapped, resent, reported>>,
         OnChain
  PROVE  MarketInv'
<1> USE DEF OnChain, market, chainVars
<1>1. ChainInv'
  BY DEF MarketInv, ChainInv, Chain!TypeOK, Escrowed, WinnerNamed
<1>2. request' \in [Requests -> RequestState]
  BY DEF MarketInv, MarketTypeOK, RequestState
<1>3. MarketTypeOK'
  BY <1>1, <1>2 DEF MarketInv, MarketTypeOK, ChainInv
<1>4. \A p \in Requests : request'[p] = request[p] \/ request'[p] = Done
  BY DEF MarketInv, MarketTypeOK
<1>5. Rows' = Rows /\ OpenRows' = OpenRows
  BY DEF Rows, OpenRows
<1>6. Drafting' \subseteq Drafting /\ Activating' \subseteq Activating
  BY <1>4 DEF Drafting, Activating, Done
<1>7. \A p \in Drafting' \cup Activating' : request'[p] = request[p]
  BY <1>4 DEF Drafting, Activating, Done
<1>8. Tables'
  <2> USE DEF MarketInv, Tables
  <2>1. RowsFilled' /\ ReceiptMinted' /\ ListedFromRow' /\ ObjectReported'
        /\ ReportedListed' /\ PlanSound'
    BY <1>5, <1>6
    DEF RowsFilled, ReceiptMinted, ListedFromRow, ObjectReported, ReportedListed,
        PlanSound
  <2>2. ActivationSound'
    BY <1>6, <1>7 DEF ActivationSound
  <2>3. SellSound'
    BY <1>4 DEF SellSound, Done
  <2> QED
    BY <2>1, <2>2, <2>3
<1>9. ASSUME Serial
      PROVE  Serial'
  <2>1. DraftSound'
    BY <1>5, <1>6, <1>7, <1>9 DEF Serial, DraftSound
  <2> QED
    BY <1>5, <1>9, <2>1
    DEF Serial, OneOpen, ListingSound, Owners, Bought, PurchaseSound, SoldSound
<1> QED
  BY <1>1, <1>3, <1>8, <1>9 DEF MarketInv

LEMMA ReceiveCreateKeepsMarketInv ==
  ASSUME MarketInv, NEW q \in Requests, NEW u \in Wallets, ReceiveCreate(q, u)
  PROVE  MarketInv'
<1> USE DEF ReceiveCreate, Receive, OnChain, market, chainVars
<1>1. ChainInv'
  BY DEF MarketInv, ChainInv, Chain!TypeOK, Escrowed, WinnerNamed
<1>2. /\ request'[q] = [pc |-> "insert", who |-> u] /\ request[q] = Unsent
      /\ \A p \in Requests : p # q => request'[p] = request[p]
      /\ request' \in [Requests -> RequestState]
  BY DEF MarketInv, MarketTypeOK, RequestState
<1>3. MarketTypeOK'
  BY <1>1, <1>2 DEF MarketInv, MarketTypeOK, ChainInv
<1>4. Rows' = Rows /\ OpenRows' = OpenRows /\ Activating' = Activating
      /\ Drafting' = Drafting \cup {q}
  BY <1>2 DEF Rows, OpenRows, Drafting, Activating, Unsent
<1>5. receipt[Receipt] # NoReceipt /\ receipt[Receipt].at = "wallet"
      /\ listing[Receipt] = NoListing /\ receipt[Receipt].owner = u
  BY HeldReceipt, ChainConstants DEF MarketInv, ChainInv, Escrowed
<1>6. Tables'
  <2> USE DEF MarketInv, Tables
  <2>1. RowsFilled' /\ ReceiptMinted' /\ ListedFromRow' /\ ObjectReported'
        /\ ReportedListed' /\ PlanSound'
    BY <1>4, <1>5
    DEF RowsFilled, ReceiptMinted, ListedFromRow, ObjectReported, ReportedListed,
        PlanSound
  <2>2. ActivationSound'
    BY <1>2, <1>4 DEF ActivationSound, Activating, Unsent
  <2>3. SellSound'
    BY <1>2 DEF SellSound
  <2> QED
    BY <2>1, <2>2, <2>3
<1>7. ASSUME ~overlapped', Serial
      PROVE  Serial'
  <2>1. Drafting = {} /\ OpenRows = {}
    BY <1>7 DEF Drafting, has_open_receipt_listing
  <2>2. DraftSound'
    BY <1>2, <1>4, <1>5, <2>1 DEF DraftSound
  <2> QED
    BY <1>4, <1>7, <2>2
    DEF Serial, OneOpen, ListingSound, Owners, Bought, PurchaseSound, SoldSound
<1> QED
  BY <1>1, <1>3, <1>6, <1>7 DEF MarketInv, MarketTypeOK

LEMMA InsertDraftKeepsMarketInv ==
  ASSUME MarketInv, NEW q \in Requests, InsertDraft(q)
  PROVE  MarketInv'
<1> USE DEF OnChain, market, chainVars
<1>1. ChainInv'
  BY DEF InsertDraft, MarketInv, ChainInv, Chain!TypeOK, Escrowed, WinnerNamed
<1>2. PICK l \in RowIds :
        /\ l = Cardinality(Rows) + 1
        /\ row' = [row EXCEPT ![l] =
             [seller |-> request[q].who, buyer |-> NoWallet, object |-> 0,
              status |-> "draft"]]
  BY DEF InsertDraft
<1>3. PICK n \in 0 .. MaxRows : Rows = 1 .. n
  BY DEF MarketInv, Tables, RowsFilled
<1>4. l = n + 1 /\ l \notin Rows
  <2>1. Cardinality(1 .. n) = n
    BY <1>3, FS_Interval
  <2> QED
    BY <1>2, <1>3, <2>1
<1> DEFINE new == [seller |-> request[q].who, buyer |-> NoWallet, object |-> 0,
                   status |-> "draft"]
<1>5. new \in Row /\ new # NoRow /\ request[q].who \in Wallets
  BY RequestType DEF InsertDraft, MarketInv, Row, NoRow
<1>6. /\ row'[l] = new /\ \A k \in RowIds : k # l => row'[k] = row[k]
      /\ row' \in [RowIds -> Row \cup {NoRow}]
  BY <1>2, <1>5 DEF MarketInv, MarketTypeOK
<1>0. /\ row'[l] # NoRow /\ row'[l].seller = request[q].who
     /\ row'[l].object = 0 /\ row'[l].status = "draft"
  BY <1>5, <1>6
<1> HIDE DEF new
<1>7. /\ q \in Drafting /\ request' = [request EXCEPT ![q] = Done]
      /\ UNCHANGED <<listed, bought, buyPtb, reported, overlapped, resent, faults,
                    accepting>>
      /\ listing' = listing /\ receipt' = receipt
  BY DEF InsertDraft, Drafting, Continue
<1>8. /\ request'[q] = Done /\ \A p \in Requests : p # q => request'[p] = request[p]
      /\ request' \in [Requests -> RequestState]
  BY <1>7 DEF MarketInv, MarketTypeOK, RequestState
<1>9. MarketTypeOK'
  BY <1>1, <1>6, <1>7, <1>8 DEF MarketInv, MarketTypeOK, ChainInv
<1>10. /\ Rows' = Rows \cup {l} /\ OpenRows' = OpenRows \cup {l}
       /\ Drafting' = Drafting \ {q} /\ Activating' = Activating
  <2>1. Rows' = Rows \cup {l}
    BY <1>4, <1>0, <1>6 DEF Rows
  <2>2. OpenRows' = OpenRows \cup {l}
    BY <1>4, <1>0, <1>6, <2>1 DEF OpenRows, Rows
  <2>3. Drafting' = Drafting \ {q} /\ Activating' = Activating
    BY <1>7, <1>8 DEF Drafting, Activating, Done
  <2> QED
    BY <2>1, <2>2, <2>3
<1>11. Tables'
  <2> USE DEF MarketInv, Tables
  <2>1. RowsFilled'
    BY <1>3, <1>4, <1>10, ReceiptMarketAssumption DEF RowsFilled, RowIds
  <2>2. ReceiptMinted'
    BY <1>7 DEF ReceiptMinted
  <2>3. ListedFromRow' /\ ReportedListed'
    BY <1>7, <1>10 DEF ListedFromRow, ReportedListed
  <2>4. ObjectReported'
    BY <1>0, <1>4, <1>6, <1>7, <1>10 DEF ObjectReported, Rows
  <2>5. ActivationSound'
    <3>1. ASSUME NEW p \in Activating
          PROVE  /\ request'[p] = request[p] /\ request[p].row \in Rows
                 /\ row'[request[p].row] = row[request[p].row]
      <4>1. p # q /\ p \in Requests
        BY <1>7, <3>1 DEF Activating, Drafting
      <4>2. request[p].row \in Rows
        BY <3>1 DEF ActivationSound, ListedFromRow, ReportedListed
      <4> QED
        BY <1>4, <1>6, <1>8, <4>1, <4>2 DEF Rows
    <3> SUFFICES ASSUME NEW p \in Activating
                 PROVE  /\ Activating = {p}
                        /\ request'[p].object \in reported
                        /\ \A o \in reported : o <= request'[p].object
                        /\ listed[request'[p].object] = request'[p].row
                        /\ row'[request'[p].row].object < request'[p].object
      BY <1>7, <1>10 DEF ActivationSound
    <3>2. /\ Activating = {p} /\ request[p].object \in reported
          /\ \A o \in reported : o <= request[p].object
          /\ listed[request[p].object] = request[p].row
          /\ row[request[p].row].object < request[p].object
      BY DEF ActivationSound
    <3>3. request'[p] = request[p] /\ row'[request[p].row] = row[request[p].row]
      BY <3>1
    <3> HIDE DEF MarketInv, Tables
    <3> QED
      BY <3>2, <3>3
  <2>6. PlanSound'
    <3> SUFFICES ASSUME NEW u \in Wallets, buyPtb[u] # NoPtb
                 PROVE  row'[buyPtb[u].row] = row[buyPtb[u].row]
      BY <1>7 DEF PlanSound
    <3>1. buyPtb[u].row \in Rows
      BY DEF PlanSound, ListedFromRow
    <3> QED
      BY <1>4, <1>6, <3>1 DEF Rows
  <2>7. SellSound'
    BY <1>7, <1>8 DEF SellSound, Done
  <2> QED
    BY <2>1, <2>2, <2>3, <2>4, <2>5, <2>6, <2>7
<1>12. ASSUME Serial
       PROVE  Serial'
  <2> USE <1>12 DEF Serial
  <2>1. /\ OpenRows = {} /\ Drafting = {q} /\ listing[Receipt] = NoListing
        /\ receipt[Receipt].owner = request[q].who
    BY <1>7 DEF DraftSound
  <2>2. ~Bought(l)
    BY <1>4 DEF Bought, PurchaseSound
  <2>3. OneOpen' /\ DraftSound'
    BY <1>10, <2>1 DEF OneOpen, DraftSound
  <2>4. ListingSound'
    BY <1>7, <2>1 DEF ListingSound
  <2>5. Owners'
    BY <1>0, <1>6, <1>7, <1>10, <2>1, <2>2 DEF Owners, Bought
  <2>6. PurchaseSound'
    BY <1>0, <1>4, <1>6, <1>7, <1>10 DEF PurchaseSound, Rows
  <2>7. SoldSound'
    BY <1>0, <1>4, <1>6, <1>7, <1>10 DEF SoldSound, Rows
  <2> QED
    BY <2>3, <2>4, <2>5, <2>6, <2>7
<1> QED
  BY <1>1, <1>7, <1>9, <1>11, <1>12 DEF MarketInv

LEMMA ReceiveActivateKeepsMarketInv ==
  ASSUME MarketInv, NEW q \in Requests, NEW l \in RowIds, NEW o \in Objects,
         ReceiveActivate(q, l, o), ~resent'
  PROVE  MarketInv'
<1> USE DEF ReceiveActivate, Receive, OnChain, market, chainVars
<1>0. InTurn(o) /\ resent' \in BOOLEAN
  BY Zenon
<1>1. ChainInv'
  BY DEF MarketInv, ChainInv, Chain!TypeOK, Escrowed, WinnerNamed
<1> DEFINE new == [pc |-> "activate", row |-> l, object |-> o]
<1>2. /\ request'[q] = new /\ request[q] = Unsent
      /\ \A p \in Requests : p # q => request'[p] = request[p]
      /\ request' \in [Requests -> RequestState]
  BY DEF MarketInv, MarketTypeOK, RequestState
<1>3. MarketTypeOK'
  BY <1>0, <1>1, <1>2 DEF MarketInv, MarketTypeOK, ChainInv
<1>4. Rows' = Rows /\ OpenRows' = OpenRows /\ Drafting' = Drafting
      /\ Activating = {} /\ Activating' = {q}
  BY <1>0, <1>2 DEF Rows, OpenRows, Drafting, Activating, Unsent, InTurn
<1>5. o \in DOMAIN listed /\ l \in Rows /\ row[l] \in Row
  BY ListedType, RowType DEF MarketInv, Tables, ListedFromRow, Rows
<1>6. Tables'
  <2> USE DEF MarketInv, Tables
  <2>1. RowsFilled' /\ ReceiptMinted' /\ ListedFromRow' /\ ObjectReported' /\ PlanSound'
    BY <1>4 DEF RowsFilled, ReceiptMinted, ListedFromRow, ObjectReported, PlanSound
  <2>2. ReportedListed'
    BY <1>5 DEF ReportedListed
  <2>3. row[l].object < o
    BY <1>0, <1>5 DEF ObjectReported, Row, Objects, InTurn
  <2>4. \A r \in reported' : r <= o
    BY <1>0 DEF MarketTypeOK, Objects, InTurn
  <2>5. ActivationSound'
    BY <1>2, <1>4, <2>3, <2>4 DEF ActivationSound
  <2>6. SellSound'
    BY <1>2 DEF SellSound
  <2> QED
    BY <2>1, <2>2, <2>5, <2>6
<1>7. ASSUME Serial
      PROVE  Serial'
  <2>1. DraftSound'
    BY <1>2, <1>4, <1>7 DEF Serial, DraftSound, Drafting, Unsent
  <2> QED
    BY <1>4, <1>7, <2>1
    DEF Serial, OneOpen, ListingSound, Owners, Bought, PurchaseSound, SoldSound
<1> QED
  BY <1>1, <1>3, <1>6, <1>7 DEF MarketInv

LEMMA ActivateKeepsMarketInv ==
  ASSUME MarketInv, NEW q \in Requests, Activate(q)
  PROVE  MarketInv'
<1> USE DEF OnChain, market, chainVars
<1> DEFINE l == request[q].row
           o == request[q].object
<1>1. ChainInv'
  BY DEF Activate, MarketInv, ChainInv, Chain!TypeOK, Escrowed, WinnerNamed
<1>2. /\ q \in Activating /\ request' = [request EXCEPT ![q] = Done]
      /\ UNCHANGED <<listed, bought, buyPtb, reported, overlapped, resent, faults,
                    accepting>>
      /\ listing' = listing /\ receipt' = receipt
  BY DEF Activate, Activating, Continue
<1>a. row' = [row EXCEPT ![l].status = "active", ![l].object = o]
  BY DEF Activate
<1>3. /\ Activating = {q} /\ o \in reported /\ listed[o] = l
      /\ o \in DOMAIN listed /\ row[l].object < o
  BY <1>2 DEF MarketInv, Tables, ActivationSound, ReportedListed
<1>4. l \in Rows /\ l \in RowIds /\ row[l] \in Row /\ o \in Objects
  BY <1>3, ListedType, RowType DEF MarketInv, Tables, ListedFromRow, Rows
<1> HIDE DEF l, o
<1>5. /\ row'[l] = [row[l] EXCEPT !.status = "active", !.object = o]
      /\ \A k \in RowIds : k # l => row'[k] = row[k]
  BY <1>a, <1>4 DEF MarketInv, MarketTypeOK
<1>6. /\ row'[l] \in Row /\ row'[l].status = "active" /\ row'[l].object = o
      /\ row'[l].seller = row[l].seller
  BY <1>4, <1>5 DEF Row
<1>7. row' \in [RowIds -> Row \cup {NoRow}]
  <2>1. row' = [row EXCEPT ![l] = row'[l]]
    BY <1>a, <1>4 DEF MarketInv, MarketTypeOK
  <2> QED
    BY <1>6, <2>1 DEF MarketInv, MarketTypeOK
<1>8. /\ request'[q] = Done /\ \A p \in Requests : p # q => request'[p] = request[p]
      /\ request' \in [Requests -> RequestState]
  BY <1>2 DEF MarketInv, MarketTypeOK, RequestState
<1>9. MarketTypeOK'
  BY <1>1, <1>2, <1>7, <1>8 DEF MarketInv, MarketTypeOK, ChainInv
<1>10. /\ Rows' = Rows /\ OpenRows' = OpenRows \cup {l}
       /\ Drafting' = Drafting /\ Activating' = {}
  <2>1. Rows' = Rows
    BY <1>4, <1>5, <1>6 DEF Rows, Row, NoRow
  <2>2. OpenRows' = OpenRows \cup {l}
    BY <1>4, <1>5, <1>6, <2>1 DEF OpenRows, Rows
  <2>3. Drafting' = Drafting /\ Activating' = {}
    BY <1>2, <1>3, <1>8 DEF Drafting, Activating, Done
  <2> QED
    BY <2>1, <2>2, <2>3
<1>11. DOMAIN listed \subseteq Nat \ {0}
  BY ListedType DEF MarketInv
<1>12. Tables'
  <2> USE DEF MarketInv, Tables
  <2>1. RowsFilled' /\ ReceiptMinted' /\ ListedFromRow' /\ ReportedListed'
    BY <1>2, <1>10 DEF RowsFilled, ReceiptMinted, ListedFromRow, ReportedListed
  <2>2. ObjectReported'
    <3>1. /\ row'[l].status = "draft" <=> row'[l].object = 0
          /\ o \in reported /\ o \in DOMAIN listed /\ listed[o] = l
      BY <1>3, <1>6, <1>11
    <3>2. \A k \in Rows : k # l => row'[k] = row[k]
      BY <1>5 DEF Rows
    <3> QED
      BY <1>2, <1>6, <1>10, <3>1, <3>2 DEF ObjectReported
  <2>3. ActivationSound'
    BY <1>10 DEF ActivationSound
  <2>4. PlanSound'
    <3> SUFFICES ASSUME NEW u \in Wallets, buyPtb[u] # NoPtb
                 PROVE  /\ row'[buyPtb[u].row].object >= buyPtb[u].object
                        /\ row'[buyPtb[u].row].seller # u
      BY <1>2 DEF PlanSound
    <3>1. buyPtb[u].row \in RowIds /\ buyPtb[u].object \in Nat /\ o \in Nat
      BY <1>4, PlanType DEF Objects
    <3>2. CASE buyPtb[u].row = l
      BY <1>3, <1>4, <1>6, <3>1, <3>2 DEF PlanSound, Row, Objects
    <3>3. CASE buyPtb[u].row # l
      BY <1>5, <3>1, <3>3 DEF PlanSound
    <3> QED
      BY <3>2, <3>3
  <2>5. SellSound'
    BY <1>2, <1>8 DEF SellSound, Done
  <2> QED
    BY <2>1, <2>2, <2>3, <2>4, <2>5
<1>13. ASSUME Serial
       PROVE  Serial'
  <2> USE <1>13 DEF Serial
  <2>1. ~Bought(l)
    <3> SUFFICES ASSUME NEW b \in bought, b.row = l
                 PROVE  FALSE
      BY DEF Bought
    <3>1. o <= row[l].object
      BY <1>3 DEF PurchaseSound
    <3> QED
      BY <1>3, <1>4, <3>1 DEF Row, Objects
  <2>2. l \in OpenRows
    <3>1. row[l].status # "sold"
      BY <1>4, <2>1 DEF SoldSound, Bought
    <3> QED
      BY <1>4, <3>1 DEF OpenRows, Row
  <2>3. OpenRows' = OpenRows
    BY <1>10, <2>2
  <2>4. OneOpen' /\ DraftSound'
    BY <1>2, <1>10, <2>2, <2>3 DEF OneOpen, DraftSound
  <2>5. ListingSound'
    BY <1>2, <2>3 DEF ListingSound, Bought
  <2>6. Owners'
    <3>1. \A k \in OpenRows : row'[k].seller = row[k].seller
      BY <1>5, <1>6 DEF OpenRows, Rows
    <3> QED
      BY <1>2, <2>3, <3>1 DEF Owners, Bought
  <2>7. PurchaseSound'
    <3>1. \A b \in bought : b.row \in Rows /\ row'[b.row] = row[b.row]
      BY <1>5, <2>1 DEF PurchaseSound, Bought, Rows
    <3> QED
      BY <1>2, <1>10, <3>1 DEF PurchaseSound
  <2>8. SoldSound'
    BY <1>2, <1>5, <1>6, <1>10 DEF SoldSound, Rows
  <2> QED
    BY <2>4, <2>5, <2>6, <2>7, <2>8
<1> QED
  BY <1>1, <1>2, <1>9, <1>12, <1>13 DEF MarketInv

LEMMA ReceiveSoldKeepsMarketInv ==
  ASSUME MarketInv, NEW q \in Requests, NEW u \in Wallets, NEW l \in RowIds,
         ReceiveSold(q, u, l)
  PROVE  MarketInv'
<1> USE DEF ReceiveSold, Receive, OnChain, market, chainVars
<1>1. ChainInv'
  BY DEF MarketInv, ChainInv, Chain!TypeOK, Escrowed, WinnerNamed
<1>2. /\ request'[q] = [pc |-> "sell", row |-> l, who |-> u] /\ request[q] = Unsent
      /\ \A p \in Requests : p # q => request'[p] = request[p]
      /\ request' \in [Requests -> RequestState]
  BY DEF MarketInv, MarketTypeOK, RequestState
<1>3. MarketTypeOK'
  BY <1>1, <1>2 DEF MarketInv, MarketTypeOK, ChainInv
<1>4. Rows' = Rows /\ OpenRows' = OpenRows /\ Drafting' = Drafting
      /\ Activating' = Activating
  BY <1>2 DEF Rows, OpenRows, Drafting, Activating, Unsent
<1>5. \A p \in Drafting \cup Activating : request'[p] = request[p]
  BY <1>2 DEF Drafting, Activating, Unsent
<1>6. Tables'
  <2> USE DEF MarketInv, Tables
  <2>1. RowsFilled' /\ ReceiptMinted' /\ ListedFromRow' /\ ObjectReported'
        /\ ReportedListed' /\ PlanSound'
    BY <1>4
    DEF RowsFilled, ReceiptMinted, ListedFromRow, ObjectReported, ReportedListed,
        PlanSound
  <2>2. ActivationSound'
    BY <1>4, <1>5 DEF ActivationSound
  <2>3. SellSound'
    BY <1>2 DEF SellSound
  <2> QED
    BY <2>1, <2>2, <2>3
<1>7. ASSUME Serial
      PROVE  Serial'
  <2>1. DraftSound'
    BY <1>4, <1>5, <1>7 DEF Serial, DraftSound
  <2> QED
    BY <1>4, <1>7, <2>1
    DEF Serial, OneOpen, ListingSound, Owners, Bought, PurchaseSound, SoldSound
<1> QED
  BY <1>1, <1>3, <1>6, <1>7 DEF MarketInv

LEMMA MarkSoldKeepsMarketInv ==
  ASSUME MarketInv, NEW q \in Requests, MarkSold(q)
  PROVE  MarketInv'
<1> USE DEF OnChain, market, chainVars
<1> DEFINE l == request[q].row
<1>1. CASE ~Markable(l)
  BY <1>1, RequestEnds DEF MarkSold, Continue, MarketInv, MarketTypeOK
<1>2. CASE Markable(l)
  <2>1. ChainInv'
    BY DEF MarkSold, MarketInv, ChainInv, Chain!TypeOK, Escrowed, WinnerNamed
  <2>2. /\ request[q].pc = "sell" /\ request' = [request EXCEPT ![q] = Done]
        /\ UNCHANGED <<listed, bought, buyPtb, reported, overlapped, resent, faults,
                    accepting>>
        /\ listing' = listing /\ receipt' = receipt
    BY <1>2 DEF MarkSold, Continue
  <2>a. row' = [row EXCEPT ![l].status = "sold", ![l].buyer = request[q].who]
    BY <1>2 DEF MarkSold
  <2>3. l \in RowIds /\ request[q].who \in Wallets /\ row[l].status = "active"
    BY <1>2, <2>2, RequestType DEF MarketInv, Markable
  <2>4. PICK b \in bought : b.buyer = request[q].who /\ b.row = l
    BY <2>2 DEF MarketInv, Tables, SellSound
  <2> HIDE DEF l
  <2>5. row[l] \in Row /\ l \in Rows /\ l \in OpenRows
    BY <2>3, RowType DEF MarketInv, Rows, OpenRows
  <2>6. /\ row'[l] = [row[l] EXCEPT !.status = "sold", !.buyer = request[q].who]
        /\ \A k \in RowIds : k # l => row'[k] = row[k]
    BY <2>a, <2>3 DEF MarketInv, MarketTypeOK
  <2>7. /\ row'[l] \in Row /\ row'[l].status = "sold"
        /\ row'[l].object = row[l].object /\ row'[l].seller = row[l].seller
        /\ row'[l].buyer = request[q].who
    BY <2>3, <2>5, <2>6 DEF Row
  <2>8. row' \in [RowIds -> Row \cup {NoRow}]
    <3>1. row' = [row EXCEPT ![l] = row'[l]]
      BY <2>a, <2>3 DEF MarketInv, MarketTypeOK
    <3> QED
      BY <2>7, <3>1 DEF MarketInv, MarketTypeOK
  <2>9. /\ request'[q] = Done /\ \A p \in Requests : p # q => request'[p] = request[p]
        /\ request' \in [Requests -> RequestState]
    BY <2>2 DEF MarketInv, MarketTypeOK, RequestState
  <2>10. MarketTypeOK'
    BY <2>1, <2>2, <2>8, <2>9 DEF MarketInv, MarketTypeOK, ChainInv
  <2>11. /\ Rows' = Rows /\ OpenRows' = OpenRows \ {l}
         /\ Drafting' = Drafting /\ Activating' = Activating
    <3>1. Rows' = Rows
      BY <2>5, <2>6, <2>7 DEF Rows, Row, NoRow
    <3>2. OpenRows' = OpenRows \ {l}
      BY <2>5, <2>6, <2>7, <3>1 DEF OpenRows, Rows
    <3>3. Drafting' = Drafting /\ Activating' = Activating
      BY <2>2, <2>9 DEF Drafting, Activating, Done
    <3> QED
      BY <3>1, <3>2, <3>3
  <2>12. \A k \in RowIds : row'[k].object = row[k].object /\ row'[k].seller = row[k].seller
    BY <2>6, <2>7
  <2>13. \A p \in Drafting \cup Activating : request'[p] = request[p]
    BY <2>2, <2>9 DEF Drafting, Activating
  <2>14. Tables'
    <3> USE DEF MarketInv, Tables
    <3>1. RowsFilled' /\ ReceiptMinted' /\ ListedFromRow' /\ ReportedListed'
      BY <2>2, <2>11 DEF RowsFilled, ReceiptMinted, ListedFromRow, ReportedListed
    <3>2. ObjectReported'
      <4>1. \A k \in Rows :
              /\ row'[k].object = row[k].object
              /\ row'[k].status = "draft" <=> row[k].status = "draft"
        BY <2>3, <2>6, <2>7 DEF Rows
      <4> QED
        BY <2>2, <2>11, <4>1 DEF ObjectReported
    <3>3. ActivationSound'
      <4> SUFFICES ASSUME NEW p \in Activating
                   PROVE  /\ Activating = {p}
                          /\ request[p].object \in reported
                          /\ \A o \in reported : o <= request[p].object
                          /\ listed[request[p].object] = request[p].row
                          /\ row'[request[p].row].object < request[p].object
        BY <2>2, <2>11, <2>13 DEF ActivationSound
      <4>1. request[p].row \in RowIds
        BY RequestType DEF Activating
      <4> QED
        BY <2>12, <4>1 DEF ActivationSound
    <3>4. PlanSound'
      <4> SUFFICES ASSUME NEW u \in Wallets, buyPtb[u] # NoPtb
                   PROVE  /\ row'[buyPtb[u].row].object >= buyPtb[u].object
                          /\ row'[buyPtb[u].row].seller # u
        BY <2>2 DEF PlanSound
      <4>1. buyPtb[u].row \in RowIds
        BY PlanType
      <4> QED
        BY <2>12, <4>1 DEF PlanSound
    <3>5. SellSound'
      BY <2>2, <2>9 DEF SellSound, Done
    <3> QED
      BY <3>1, <3>2, <3>3, <3>4, <3>5
  <2>15. ASSUME Serial
         PROVE  Serial'
    <3> USE <2>15 DEF Serial
    <3>1. OneOpen' /\ DraftSound'
      BY <2>2, <2>5, <2>11, <2>13 DEF OneOpen, DraftSound
    <3>2. ListingSound'
      BY <2>2, <2>4, <2>11 DEF ListingSound, Bought
    <3>3. Owners'
      <4>1. \A k \in OpenRows : row'[k].seller = row[k].seller
        BY <2>12 DEF OpenRows, Rows
      <4> QED
        BY <2>2, <2>11, <4>1 DEF Owners, Bought
    <3>4. PurchaseSound'
      BY <2>2, <2>11, <2>12 DEF PurchaseSound, Rows
    <3>5. [row |-> l, object |-> row'[l].object, buyer |-> row'[l].buyer] = b
      BY <2>4, <2>7 DEF MarketInv, MarketTypeOK, Purchase, PurchaseSound
    <3>6. SoldSound'
      <4>1. \A k \in Rows : k # l => row'[k] = row[k]
        BY <2>6 DEF Rows
      <4> QED
        BY <2>2, <2>11, <3>5, <4>1 DEF SoldSound
    <3> QED
      BY <3>1, <3>2, <3>3, <3>4, <3>6
  <2> QED
    BY <2>1, <2>2, <2>10, <2>14, <2>15 DEF MarketInv
<1> QED
  BY <1>1, <1>2

LEMMA NextKeepsMarketInv ==
  MarketInv /\ ~resent' /\ [MarketNext]_marketVars => MarketInv'
<1> SUFFICES ASSUME MarketInv, ~resent', [MarketNext]_marketVars
             PROVE  MarketInv'
  OBVIOUS
<1>1. CASE ChainStep
  <2>1. ChainInv' /\ listing' = listing /\ ReceiptStays
    BY <1>1, ChainStepMoves DEF MarketInv
  <2>2. UNCHANGED <<listed, bought, accepting, row, buyPtb, request, reported, faults,
                    overlapped, resent>>
    BY <1>1 DEF ChainStep, market, OffChain, clients, server
  <2>3. MarketTypeOK'
    BY <2>1, <2>2 DEF MarketInv, MarketTypeOK, ChainInv
  <2> QED
    BY <2>1, <2>2, <2>3, QuietKeepsMarketInv
<1>2. ASSUME NEW u \in Wallets, NEW l \in RowIds, ListOnChain(u, l)
      PROVE  MarketInv'
  BY <1>2, ListKeepsMarketInv
<1>3. ASSUME NEW u \in Wallets, CancelOnChain(u)
      PROVE  MarketInv'
  <2>1. ChainInv' /\ listing'[Receipt] = NoListing /\ ReceiptStays
    BY <1>3, CancelMoves DEF MarketInv, CancelOnChain
  <2>2. UNCHANGED <<listed, bought, accepting, row, buyPtb, request, reported, faults,
                    overlapped, resent>>
    BY <1>3 DEF CancelOnChain, market, OffChain, clients, server
  <2>3. MarketTypeOK'
    BY <2>1, <2>2 DEF MarketInv, MarketTypeOK, ChainInv
  <2> QED
    BY <2>1, <2>2, <2>3, QuietKeepsMarketInv
<1>4. ASSUME NEW u \in Wallets, NEW l \in RowIds, GetBuyPtb(u, l)
      PROVE  MarketInv'
  BY <1>4, PlanKeepsMarketInv
<1>5. ASSUME NEW u \in Wallets, BuyOnChain(u)
      PROVE  MarketInv'
  BY <1>5, BuyKeepsMarketInv
<1>6. CASE CloseMatch \/ UNCHANGED marketVars
  <2>1. /\ UNCHANGED <<chainVars, listed, bought, row, buyPtb, request, reported, faults,
                       overlapped, resent>>
        /\ accepting' \in BOOLEAN
    BY <1>6
    DEF CloseMatch, marketVars, market, clients, server, MarketInv, MarketTypeOK
  <2>2. ChainInv' /\ listing' = listing /\ ReceiptStays
    BY <2>1
    DEF MarketInv, ChainInv, Chain!TypeOK, Escrowed, WinnerNamed, ReceiptStays, chainVars
  <2>3. MarketTypeOK'
    BY <2>1, <2>2 DEF MarketInv, MarketTypeOK, ChainInv
  <2> QED
    BY <2>1, <2>2, <2>3, QuietKeepsMarketInv
<1>7. ASSUME NEW q \in Requests, NEW u \in Wallets, ReceiveCreate(q, u)
      PROVE  MarketInv'
  BY <1>7, ReceiveCreateKeepsMarketInv
<1>8. ASSUME NEW q \in Requests, InsertDraft(q) \/ Activate(q) \/ MarkSold(q)
      PROVE  MarketInv'
  BY <1>8, InsertDraftKeepsMarketInv, ActivateKeepsMarketInv, MarkSoldKeepsMarketInv
<1>9. ASSUME NEW q \in Requests, NEW l \in RowIds, NEW o \in Objects,
             ReceiveActivate(q, l, o)
      PROVE  MarketInv'
  BY <1>9, ReceiveActivateKeepsMarketInv
<1>10. ASSUME NEW q \in Requests, NEW u \in Wallets, NEW l \in RowIds,
              ReceiveSold(q, u, l)
       PROVE  MarketInv'
  BY <1>10, ReceiveSoldKeepsMarketInv
<1>11. ASSUME NEW q \in Requests, Fail(q)
       PROVE  MarketInv'
  <2>1. faults' \in 0 .. MaxFaults
    BY <1>11, ReceiptMarketAssumption DEF Fail, MarketInv, MarketTypeOK
  <2> QED
    BY <1>11, <2>1, RequestEnds DEF Fail, Continue
<1> QED
  BY <1>1, <1>2, <1>3, <1>4, <1>5, <1>6, <1>7, <1>8, <1>9, <1>10, <1>11 DEF MarketNext

\* What was sent out of turn stays so.
LEMMA ResentForGood == [MarketNext]_marketVars => (resent => resent')
<1> SUFFICES ASSUME [MarketNext]_marketVars
             PROVE  resent => resent'
  OBVIOUS
<1>1. ASSUME NEW q \in Requests, NEW l \in RowIds, NEW o \in Objects,
             ReceiveActivate(q, l, o)
      PROVE  resent => resent'
  BY <1>1, Zenon DEF ReceiveActivate
<1>2. \/ resent' = resent
      \/ \E q \in Requests, l \in RowIds, o \in Objects : ReceiveActivate(q, l, o)
  BY DEF MarketNext, marketVars, server, OffChain, ChainStep, ListOnChain,
         CancelOnChain, GetBuyPtb, BuyOnChain, CloseMatch, ReceiveCreate, InsertDraft,
         Activate, ReceiveSold, MarkSold, Fail
<1> QED
  BY <1>1, <1>2, Zenon

LEMMA MarketInvariance == MarketSpec => [](~resent => MarketInv)
BY InitMarketInv, NextKeepsMarketInv, ResentForGood, PTL DEF MarketSpec

-----------------------------------------------------------------------------
\* Whatever is sent again, an active row shows an object, an activation is of a
\* row, and objects were listed from rows.
ActiveNamed == \A l \in RowIds : row[l].status = "active" => row[l].object \in Objects
ActivatesRow == \A q \in Requests : request[q].pc = "activate" => request[q].row \in Rows
MarketTypeInv ==
  MarketTypeOK /\ ChainInv /\ ListedFromRow /\ ActiveNamed /\ ActivatesRow

LEMMA InitMarketTypeInv == MarketInit => MarketTypeInv
<1> SUFFICES ASSUME MarketInit
             PROVE  MarketTypeInv
  OBVIOUS
<1>1. MarketInv
  BY InitMarketInv
<1>2. ActiveNamed /\ ActivatesRow
  BY DEF MarketInit, ActiveNamed, ActivatesRow, NoRow, Unsent
<1> QED
  BY <1>1, <1>2 DEF MarketInv, Tables, MarketTypeInv

\* Rows and requests stay what they are.
LEMMA FrameMarketType ==
  ASSUME MarketTypeInv, MarketTypeOK', ChainInv', UNCHANGED <<row, request>>,
         \A o \in DOMAIN listed' : listed'[o] \in Rows
  PROVE  MarketTypeInv'
<1>1. Rows' = Rows
  BY DEF Rows
<1> QED
  BY <1>1 DEF MarketTypeInv, ListedFromRow, ActiveNamed, ActivatesRow

\* A request changes; rows stay rows.
LEMMA TablesKeepMarketType ==
  ASSUME MarketTypeInv, MarketTypeOK', ChainInv', listed' = listed,
         Rows \subseteq Rows', ActiveNamed',
         NEW q \in Requests, NEW next, request' = [request EXCEPT ![q] = next],
         next.pc = "activate" => next.row \in Rows
  PROVE  MarketTypeInv'
<1>1. \A p \in Requests : request'[p] = IF p = q THEN next ELSE request[p]
  BY DEF MarketTypeInv, MarketTypeOK
<1>2. ListedFromRow'
  BY DEF MarketTypeInv, ListedFromRow
<1>3. ActivatesRow'
  BY <1>1 DEF MarketTypeInv, ActivatesRow
<1> QED
  BY <1>2, <1>3 DEF MarketTypeInv

LEMMA ClientsKeepMarketType ==
  ASSUME MarketTypeInv, NEW u \in Wallets,
         \/ \E l \in RowIds : ListOnChain(u, l) \/ GetBuyPtb(u, l)
         \/ BuyOnChain(u) \/ CancelOnChain(u)
  PROVE  MarketTypeInv'
<1> USE DEF OffChain, clients, server, market, chainVars
<1>0. ChainInv /\ MarketTypeOK
  BY DEF MarketTypeInv
<1>1. ASSUME NEW l \in RowIds, ListOnChain(u, l)
      PROVE  MarketTypeInv'
  <2>1. ChainInv'
    BY <1>0, <1>1, ListingMoves DEF ListOnChain
  <2>2. /\ l \in Rows /\ listed' = Append(listed, l) /\ Len(listed) < MaxObjects
        /\ UNCHANGED <<bought, accepting, clients, server>>
    BY <1>1 DEF ListOnChain, OpenRows
  <2>3. /\ listed' \in Seq(RowIds) /\ Len(listed') <= MaxObjects
        /\ \A o \in DOMAIN listed' : listed'[o] \in Rows
    BY <2>2, ReceiptMarketAssumption DEF MarketTypeInv, MarketTypeOK, ListedFromRow
  <2>4. MarketTypeOK'
    BY <1>0, <2>1, <2>2, <2>3 DEF MarketTypeOK, ChainInv
  <2> QED
    BY <2>1, <2>2, <2>3, <2>4, FrameMarketType
<1>2. ASSUME NEW l \in RowIds, GetBuyPtb(u, l)
      PROVE  MarketTypeInv'
  <2>1. ChainInv'
    BY <1>0, <1>2 DEF GetBuyPtb, ChainInv, Chain!TypeOK, Escrowed, WinnerNamed
  <2>2. row[l].object \in Objects
    BY <1>2 DEF GetBuyPtb, Buyable, MarketTypeInv, ActiveNamed
  <2>3. MarketTypeOK'
    BY <1>0, <1>2, <2>1, <2>2 DEF GetBuyPtb, PlannedObject, MarketTypeOK, ChainInv
  <2> QED
    BY <1>2, <2>1, <2>3, FrameMarketType DEF GetBuyPtb, MarketTypeInv, ListedFromRow
<1>3. CASE BuyOnChain(u)
  <2>1. ChainInv'
    BY <1>0, <1>3, PurchaseMoves DEF BuyOnChain
  <2>2. bought' \subseteq Purchase
    <3>1. buyPtb[u] \in [row : RowIds, object : Objects]
      BY <1>0, <1>3, PlanType DEF BuyOnChain
    <3> QED
      BY <1>0, <1>3, <3>1 DEF BuyOnChain, Purchase, MarketTypeOK
  <2>3. MarketTypeOK'
    BY <1>0, <1>3, <2>1, <2>2 DEF BuyOnChain, MarketTypeOK, ChainInv
  <2> QED
    BY <1>3, <2>1, <2>3, FrameMarketType DEF BuyOnChain, MarketTypeInv, ListedFromRow
<1>4. CASE CancelOnChain(u)
  <2>1. ChainInv'
    BY <1>0, <1>4, CancelMoves DEF CancelOnChain
  <2>2. MarketTypeOK'
    BY <1>0, <1>4, <2>1 DEF CancelOnChain, MarketTypeOK, ChainInv
  <2> QED
    BY <1>4, <2>1, <2>2, FrameMarketType
    DEF CancelOnChain, MarketTypeInv, ListedFromRow
<1> QED
  BY <1>1, <1>2, <1>3, <1>4

LEMMA ReceiptsKeepMarketType ==
  ASSUME MarketTypeInv, NEW q \in Requests,
         \/ \E u \in Wallets : ReceiveCreate(q, u)
         \/ \E l \in RowIds, o \in Objects : ReceiveActivate(q, l, o)
         \/ \E u \in Wallets, l \in RowIds : ReceiveSold(q, u, l)
         \/ Fail(q)
  PROVE  MarketTypeInv'
<1> DEFINE next == request'[q]
<1>0. ChainInv /\ MarketTypeOK
  BY DEF MarketTypeInv
<1>1. /\ UNCHANGED <<chainVars, listed, bought, accepting, buyPtb, row>>
      /\ request' = [request EXCEPT ![q] = next]
      /\ next \in RequestState
      /\ next.pc = "activate" => next.row \in Rows
  <2>1. ASSUME NEW u \in Wallets, ReceiveCreate(q, u)
        PROVE  /\ UNCHANGED <<chainVars, listed, bought, accepting, buyPtb, row>>
               /\ request' = [request EXCEPT ![q] = next]
               /\ next \in RequestState
               /\ next.pc = "activate" => next.row \in Rows
    BY <1>0, <2>1
    DEF ReceiveCreate, Receive, OnChain, market, MarketTypeOK, RequestState
  <2>2. ASSUME NEW l \in RowIds, NEW o \in Objects, ReceiveActivate(q, l, o)
        PROVE  /\ UNCHANGED <<chainVars, listed, bought, accepting, buyPtb, row>>
               /\ request' = [request EXCEPT ![q] = next]
               /\ next \in RequestState
               /\ next.pc = "activate" => next.row \in Rows
    BY <1>0, <2>2
    DEF ReceiveActivate, Receive, OnChain, market, MarketTypeOK, RequestState,
        MarketTypeInv, ListedFromRow
  <2>3. ASSUME NEW u \in Wallets, NEW l \in RowIds, ReceiveSold(q, u, l)
        PROVE  /\ UNCHANGED <<chainVars, listed, bought, accepting, buyPtb, row>>
               /\ request' = [request EXCEPT ![q] = next]
               /\ next \in RequestState
               /\ next.pc = "activate" => next.row \in Rows
    BY <1>0, <2>3
    DEF ReceiveSold, Receive, OnChain, market, MarketTypeOK, RequestState
  <2>4. CASE Fail(q)
    BY <1>0, <2>4 DEF Fail, Continue, OnChain, market, MarketTypeOK, RequestState, Done
  <2> QED
    BY <2>1, <2>2, <2>3, <2>4
<1>2. ChainInv'
  BY <1>0, <1>1 DEF chainVars, ChainInv, Chain!TypeOK, Escrowed, WinnerNamed
<1>3. reported' \subseteq Objects /\ faults' \in 0 .. MaxFaults
  <2>1. ASSUME NEW u \in Wallets, ReceiveCreate(q, u)
        PROVE  reported' = reported /\ faults' = faults
    BY <2>1 DEF ReceiveCreate
  <2>2. ASSUME NEW l \in RowIds, NEW o \in Objects, ReceiveActivate(q, l, o)
        PROVE  reported' = reported \cup {o} /\ faults' = faults
    BY <2>2 DEF ReceiveActivate
  <2>3. ASSUME NEW u \in Wallets, NEW l \in RowIds, ReceiveSold(q, u, l)
        PROVE  reported' = reported /\ faults' = faults
    BY <2>3 DEF ReceiveSold
  <2>4. ASSUME Fail(q)
        PROVE  reported' = reported /\ faults' = faults + 1 /\ faults < MaxFaults
    BY <2>4 DEF Fail
  <2>5. /\ reported \subseteq Objects /\ faults \in 0 .. MaxFaults
        /\ MaxFaults \in Nat
    BY <1>0, ReceiptMarketAssumption DEF MarketTypeOK
  <2> QED
    BY <2>1, <2>2, <2>3, <2>4, <2>5
<1>4. overlapped' \in BOOLEAN /\ resent' \in BOOLEAN
  <2>1. ASSUME NEW u \in Wallets, ReceiveCreate(q, u)
        PROVE  overlapped' \in BOOLEAN /\ resent' \in BOOLEAN
    <3>1. /\ overlapped' = (overlapped \/ \E o \in Requests : request[o].pc = "insert")
          /\ resent' = resent
      BY <2>1, Zenon DEF ReceiveCreate
    <3>2. overlapped' \in BOOLEAN
      BY <3>1, Zenon
    <3> QED
      BY <1>0, <3>1, <3>2 DEF MarketTypeOK
  <2>2. ASSUME NEW l \in RowIds, NEW o \in Objects, ReceiveActivate(q, l, o)
        PROVE  overlapped' \in BOOLEAN /\ resent' \in BOOLEAN
    <3>1. overlapped' = overlapped /\ resent' = (resent \/ ~InTurn(o))
      BY <2>2, Zenon DEF ReceiveActivate
    <3>2. resent' \in BOOLEAN
      BY <3>1, Zenon
    <3> QED
      BY <1>0, <3>1, <3>2 DEF MarketTypeOK
  <2>3. ASSUME NEW u \in Wallets, NEW l \in RowIds, ReceiveSold(q, u, l)
        PROVE  overlapped' \in BOOLEAN /\ resent' \in BOOLEAN
    BY <1>0, <2>3 DEF ReceiveSold, MarketTypeOK
  <2>4. CASE Fail(q)
    BY <1>0, <2>4 DEF Fail, MarketTypeOK
  <2> QED
    BY <2>1, <2>2, <2>3, <2>4
<1>5. MarketTypeOK'
  BY <1>0, <1>1, <1>2, <1>3, <1>4 DEF MarketTypeOK, ChainInv
<1>6. Rows \subseteq Rows' /\ ActiveNamed'
  BY <1>1 DEF Rows, ActiveNamed, MarketTypeInv
<1> HIDE DEF next
<1> QED
  BY <1>1, <1>2, <1>5, <1>6, TablesKeepMarketType

LEMMA StatementsKeepMarketType ==
  ASSUME MarketTypeInv, NEW q \in Requests,
         InsertDraft(q) \/ Activate(q) \/ MarkSold(q)
  PROVE  MarketTypeInv'
<1>0. ChainInv /\ MarketTypeOK
  BY DEF MarketTypeInv
<1>1. /\ UNCHANGED <<chainVars, listed, bought, accepting, buyPtb, faults, reported,
                     overlapped, resent>>
      /\ request' = [request EXCEPT ![q] = Done]
  BY DEF InsertDraft, Activate, MarkSold, Continue, OnChain, market
<1>2. ChainInv'
  BY <1>0, <1>1 DEF chainVars, ChainInv, Chain!TypeOK, Escrowed, WinnerNamed
<1>3. request' \in [Requests -> RequestState]
  BY <1>0, <1>1 DEF MarketTypeOK, RequestState
<1>4. \/ row' = row
      \/ \E l \in RowIds, new \in Row :
           /\ row' = [row EXCEPT ![l] = new]
           /\ new.status = "active" => new.object \in Objects
  <2>1. CASE InsertDraft(q)
    <3> DEFINE new == [seller |-> request[q].who, buyer |-> NoWallet, object |-> 0,
                       status |-> "draft"]
    <3>1. request[q].who \in Wallets
      BY <1>0, <2>1, RequestType DEF InsertDraft
    <3>2. new \in Row /\ new.status # "active"
      BY <3>1 DEF Row
    <3>3. \E l \in RowIds : row' = [row EXCEPT ![l] = new]
      BY <2>1 DEF InsertDraft
    <3> HIDE DEF new
    <3> QED
      BY <3>2, <3>3
  <2>2. CASE Activate(q)
    <3> DEFINE l == request[q].row
               new == [row[l] EXCEPT !.status = "active", !.object = request[q].object]
    <3>1. l \in RowIds /\ l \in Rows /\ request[q].object \in Objects
      BY <1>0, <2>2, RequestType DEF Activate, MarketTypeInv, ActivatesRow
    <3>2. row[l] \in Row
      BY <1>0, <3>1, RowType DEF Rows
    <3>3. new \in Row /\ new.object \in Objects
      BY <3>1, <3>2 DEF Row
    <3>4. row' = [row EXCEPT ![l] = new]
      BY <1>0, <2>2, <3>1, <3>2 DEF Activate, MarketTypeOK
    <3> HIDE DEF l, new
    <3> QED
      BY <3>1, <3>3, <3>4
  <2>3. CASE MarkSold(q) /\ Markable(request[q].row)
    <3> DEFINE l == request[q].row
               new == [row[l] EXCEPT !.status = "sold", !.buyer = request[q].who]
    <3>1. l \in RowIds /\ request[q].who \in Wallets
      BY <1>0, <2>3, RequestType DEF MarkSold
    <3>2. row[l] \in Row
      BY <1>0, <2>3, <3>1, RowType DEF Markable
    <3>3. new \in Row /\ new.status = "sold"
      BY <3>1, <3>2 DEF Row
    <3>4. row' = [row EXCEPT ![l] = new]
      BY <1>0, <2>3, <3>1, <3>2 DEF MarkSold, MarketTypeOK
    <3> HIDE DEF l, new
    <3> QED
      BY <3>1, <3>3, <3>4
  <2>4. CASE MarkSold(q) /\ ~Markable(request[q].row)
    BY <2>4 DEF MarkSold
  <2> QED
    BY <2>1, <2>2, <2>3, <2>4
<1>5. row' \in [RowIds -> Row \cup {NoRow}] /\ Rows \subseteq Rows' /\ ActiveNamed'
  <2>1. CASE row' = row
    BY <1>0, <2>1 DEF MarketTypeOK, Rows, ActiveNamed, MarketTypeInv
  <2>2. CASE row' # row
    <3>1. PICK l \in RowIds, new \in Row :
            /\ row' = [row EXCEPT ![l] = new]
            /\ new.status = "active" => new.object \in Objects
      BY <1>4, <2>2
    <3>2. new # NoRow
      BY DEF Row, NoRow
    <3>3. \A k \in RowIds : row'[k] = IF k = l THEN new ELSE row[k]
      BY <1>0, <3>1 DEF MarketTypeOK
    <3>4. row' \in [RowIds -> Row \cup {NoRow}]
      BY <1>0, <3>1 DEF MarketTypeOK
    <3>5. Rows \subseteq Rows'
      BY <3>2, <3>3 DEF Rows
    <3>6. ActiveNamed'
      BY <3>1, <3>3 DEF ActiveNamed, MarketTypeInv
    <3> QED
      BY <3>4, <3>5, <3>6
  <2> QED
    BY <2>1, <2>2
<1>6. MarketTypeOK'
  BY <1>0, <1>1, <1>2, <1>3, <1>5 DEF MarketTypeOK, ChainInv
<1>7. Done.pc # "activate"
  BY DEF Done
<1> QED
  BY <1>1, <1>2, <1>5, <1>6, <1>7, TablesKeepMarketType

LEMMA NextKeepsMarketType == MarketTypeInv /\ [MarketNext]_marketVars => MarketTypeInv'
<1> SUFFICES ASSUME MarketTypeInv, [MarketNext]_marketVars
             PROVE  MarketTypeInv'
  OBVIOUS
<1>0. ChainInv /\ MarketTypeOK /\ ListedFromRow
  BY DEF MarketTypeInv
<1>1. CASE ChainStep
  <2>1. ChainInv'
    BY <1>0, <1>1, ChainStepMoves
  <2>2. UNCHANGED <<listed, bought, accepting, row, buyPtb, request, reported, faults,
                    overlapped, resent>>
    BY <1>1 DEF ChainStep, market, OffChain, clients, server
  <2>3. MarketTypeOK'
    BY <1>0, <2>1, <2>2 DEF MarketTypeOK, ChainInv
  <2> QED
    BY <1>0, <2>1, <2>2, <2>3, FrameMarketType DEF ListedFromRow
<1>2. ASSUME NEW u \in Wallets,
             \/ \E l \in RowIds : ListOnChain(u, l) \/ GetBuyPtb(u, l)
             \/ BuyOnChain(u) \/ CancelOnChain(u)
      PROVE  MarketTypeInv'
  BY <1>2, ClientsKeepMarketType
<1>3. CASE CloseMatch \/ UNCHANGED marketVars
  <2>1. /\ UNCHANGED <<chainVars, listed, bought, row, buyPtb, request, reported, faults,
                       overlapped, resent>>
        /\ accepting' \in BOOLEAN
    BY <1>0, <1>3 DEF CloseMatch, marketVars, market, clients, server, MarketTypeOK
  <2>2. ChainInv'
    BY <1>0, <2>1 DEF ChainInv, Chain!TypeOK, Escrowed, WinnerNamed, chainVars
  <2>3. MarketTypeOK'
    BY <1>0, <2>1, <2>2 DEF MarketTypeOK, ChainInv
  <2> QED
    BY <1>0, <2>1, <2>2, <2>3, FrameMarketType DEF ListedFromRow
<1>4. ASSUME NEW q \in Requests,
             \/ \E u \in Wallets : ReceiveCreate(q, u)
             \/ \E l \in RowIds, o \in Objects : ReceiveActivate(q, l, o)
             \/ \E u \in Wallets, l \in RowIds : ReceiveSold(q, u, l)
             \/ Fail(q)
      PROVE  MarketTypeInv'
  BY <1>4, ReceiptsKeepMarketType
<1>5. ASSUME NEW q \in Requests, InsertDraft(q) \/ Activate(q) \/ MarkSold(q)
      PROVE  MarketTypeInv'
  BY <1>5, StatementsKeepMarketType
<1> QED
  BY <1>1, <1>2, <1>3, <1>4, <1>5 DEF MarketNext

\* Type correctness of the resale market, whatever the clients send again.
THEOREM MarketTypeCorrect == MarketSpec => []MarketTypeOK
<1>1. MarketTypeInv => MarketTypeOK
  BY DEF MarketTypeInv
<1> QED
  BY <1>1, InitMarketTypeInv, NextKeepsMarketType, PTL DEF MarketSpec

\* mark_receipt_listing_sold believes its caller, and is right to as long as no
\* two drafts were created at the same time and no activation was sent out of
\* turn: for every number of wallets, rows, listings and late or repeated
\* reports, a row that is marked sold shows the object and the buyer of a
\* purchase on chain.
THEOREM SoldRowsWereBought == MarketSpec => []SoldRowWasBought
<1>1. (~resent => MarketInv) => SoldRowWasBought
  BY DEF MarketInv, Serial, SoldSound, SoldRowWasBought
<1> QED
  BY <1>1, MarketInvariance, PTL

\* An open row is of the receipt's owner until its purchase.
THEOREM OpenRowsAreOwners == MarketSpec => []OpenRowIsOwners
<1>1. (~resent => MarketInv) => OpenRowIsOwners
  BY DEF MarketInv, Serial, Owners, Bought, OpenRowIsOwners
<1> QED
  BY <1>1, MarketInvariance, PTL
=============================================================================
