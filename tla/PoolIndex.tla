------------------------------ MODULE PoolIndex ------------------------------
(***************************************************************************)
(* How the pool of one match comes to be and how its stakes reach table    *)
(* pool_stakes: providers report the opponents, backfills create a pool on *)
(* chain and register it, users stake there, and syncs read the stake      *)
(* events of the package and insert what is not indexed yet.  Each         *)
(* statement and each call to the chain is a step; nothing spans two.      *)
(*                                                                         *)
(* An opponent is found by its position in the match, and position + 1 is  *)
(* the outcome on chain; both are called a slot here.                      *)
(***************************************************************************)
EXTENDS Integers, Sequences, SequencesExt, FiniteSets

CONSTANTS
  Teams,       \* opponents, as the provider knows them
  NoTeam,      \* a slot that is to be decided
  Lineups,     \* the opponents a report may name, in its order
  Ingesters,   \* workers and webhooks that store reports
  Backfillers, \* the scheduler, webhooks and administrators that backfill
  Pools,       \* object ids of pools that may be created for the match
  NoPool,      \* sui_pool_object_id IS NULL
  Mistyped,    \* an object id that is not one of a pool
  Stakes,      \* stakes that users may make, each with its receipt
  MaxBatch,    \* stakes in one transaction
  Foreign,     \* an event of another match's pool
  MaxLog,      \* bound on the events of the package
  Reconciler,  \* the background worker that syncs stakes
  Admins,      \* administrators that sync or configure by hand
  Crews,       \* the backfillers and syncers that may be at work together
  Window,      \* the limit that a sync passes to suix_queryEvents
  MaxFailures  \* statements and calls that may fail

Slots == {1, 2}
Syncers == Admins \cup {Reconciler}

ASSUME PoolIndexAssumption ==
  /\ NoTeam \notin Teams /\ Foreign \notin Stakes
  /\ NoPool \notin Pools \cup {Mistyped} /\ Mistyped \notin Pools
  /\ IsFiniteSet(Stakes) /\ IsFiniteSet(Admins) /\ IsFiniteSet(Backfillers)
  /\ \A crew \in Crews : Reconciler \in crew
  /\ Lineups \subseteq UNION {[1 .. n -> Teams] : n \in 0 .. 2}
  /\ MaxBatch \in Nat /\ MaxLog \in Nat /\ Window \in Nat \ {0}
  /\ MaxFailures \in Nat

VARIABLES
  crew,       \* who is at work; fixed
  open,       \* matches.status IN ('upcoming', 'live')
  opponents,  \* match_opponents by slot
  pool,       \* matches.sui_pool_object_id
  ingest,     \* per ingester: the opponents of its report still to be stored
  backfill,   \* per backfiller: its next step and what it has read
  sync,       \* per syncer: its next step and what it has read
  named,      \* chain: the teams a pool was created with, by outcome
  stake,      \* chain: the pool, outcome and transaction of each stake
  log,        \* chain: the StakePlaced events of the package, oldest first
  rows,       \* pool_stakes: how many rows a stake has, and of which slot
  failures,   \* statements and calls that failed so far
  byHand,     \* history: an administrator has registered a pool
  crossed     \* history: a backfill took the match up during another

match == <<open, opponents, pool>>
onChain == <<named, stake, log>>
history == <<byHand, crossed>>
vars == <<crew, match, ingest, backfill, sync, onChain, rows, failures, history>>

Named == [Slots -> Teams \cup {NoTeam}]
NoNames == [o \in Slots |-> NoTeam]
NoStake == [pool |-> NoPool, outcome |-> 0, tx |-> {}]
Idle == [pc |-> "idle"]

BackfillState ==
  {Idle} \cup [pc : {"opponents"}] \cup [pc : {"create"}, names : Named]
         \cup [pc : {"configure"}, created : Pools]
SyncState ==
  {Idle} \cup [pc : {"events"}, pool : Pools \cup {Mistyped}]
         \cup [pc : {"check", "insert"}, queue : SUBSET (1 .. MaxLog)]

TypeOK ==
  /\ crew \in Crews
  /\ open \in BOOLEAN
  /\ opponents \in Named
  /\ pool \in Pools \cup {NoPool, Mistyped}
  /\ ingest \in [Ingesters -> SUBSET (Slots \X Teams)]
  /\ backfill \in [Backfillers -> BackfillState]
  /\ sync \in [Syncers -> SyncState]
  /\ named \in [Pools -> Named]
  /\ stake \in [Stakes -> [pool : Pools, outcome : Slots, tx : SUBSET Stakes]
                          \cup {NoStake}]
  /\ log \in Seq(Stakes \cup {Foreign}) /\ Len(log) <= MaxLog
  /\ rows \in [Stakes -> [Slots -> Nat]]
  /\ failures \in Nat
  /\ byHand \in BOOLEAN
  /\ crossed \in BOOLEAN

Init ==
  /\ crew \in Crews
  /\ open = TRUE
  /\ opponents = NoNames
  /\ pool = NoPool
  /\ ingest = [g \in Ingesters |-> {}]
  /\ backfill = [b \in Backfillers |-> Idle]
  /\ sync = [y \in Syncers |-> Idle]
  /\ named = [p \in Pools |-> NoNames]
  /\ stake = [s \in Stakes |-> NoStake]
  /\ log = <<>>
  /\ rows = [s \in Stakes |-> [o \in Slots |-> 0]]
  /\ failures = 0
  /\ byHand = FALSE
  /\ crossed = FALSE

-----------------------------------------------------------------------------
(* The decisions of the statements, after their faulty forms.              *)

Known(names) == \A o \in Slots : names[o] # NoTeam

\* list_matches_missing_pool.  A variant that forgets the pool IS NULL.
MissingPoolFaulty == open /\ Known(opponents)
MissingPool == pool = NoPool /\ open /\ Known(opponents)

RowsOf(s) == rows[s][1] + rows[s][2]

\* The SELECT of record_indexed_pool_stake: a row with this transaction or this
\* receipt.  A variant that binds the two the wrong way round finds nothing.
AlreadyIndexedFaulty(s) == FALSE
AlreadyIndexed(s) == \E r \in stake[s].tx : RowsOf(r) > 0

\* The opponent of an event.
SlotOf(s) == stake[s].outcome

\* A sync handles its events newest first; a queue of them is the set of their
\* places in the log, which only grows.
Latest(queue) == {n \in queue : \A m \in queue : m <= n}
Later(queue) == queue \ Latest(queue)

\* What is left after an event that is indexed already.  A variant that takes
\* everything older for indexed too.
AfterKnownFaulty(queue) == {}
AfterKnown(queue) == Later(queue)

\* stake_events_for_pool: of the latest Window events of the package, those of
\* pool p.
EventsOf(p) ==
  {n \in DOMAIN log : /\ n > Len(log) - Window
                      /\ log[n] # Foreign /\ stake[log[n]].pool = p}

-----------------------------------------------------------------------------
(* Provider reports.                                                       *)

\* upsert_match: the match row, whose final status sticks; the opponents follow
\* one by one.  over: the report says finished or canceled.
StartIngest(g, lineup, over) ==
  /\ ingest[g] = {}
  /\ open' = (open /\ ~over)
  /\ ingest' = [ingest EXCEPT ![g] = {<<o, lineup[o]>> : o \in DOMAIN lineup}]
  /\ UNCHANGED <<crew, opponents, pool, backfill, sync, onChain, rows, failures, history>>

\* upsert_match_opponent, in the order of the positions: the position is the
\* key, and the team of it is overwritten.
StoreOpponent(g) ==
  /\ \E slot \in Slots, t \in Teams :
       /\ <<slot, t>> \in ingest[g]
       /\ \A rest \in ingest[g] : slot <= rest[1]
       /\ opponents' = [opponents EXCEPT ![slot] = t]
       /\ ingest' = [ingest EXCEPT ![g] = @ \ {<<slot, t>>}]
  /\ UNCHANGED <<crew, open, pool, backfill, sync, onChain, rows, failures, history>>

\* A statement of a report fails: the opponents after it are not stored.
FailIngest(g) ==
  /\ failures < MaxFailures
  /\ ingest[g] # {}
  /\ ingest' = [ingest EXCEPT ![g] = {}]
  /\ failures' = failures + 1
  /\ UNCHANGED <<crew, match, backfill, sync, onChain, rows, history>>

-----------------------------------------------------------------------------
(* run_pool_backfill, for the one match.                                   *)

ListMissing(b) ==
  /\ backfill[b] = Idle
  /\ MissingPool
  /\ backfill' = [backfill EXCEPT ![b] = [pc |-> "opponents"]]
  /\ crossed' = (crossed \/ \E c \in Backfillers : backfill[c] # Idle)
  /\ UNCHANGED <<crew, match, ingest, sync, onChain, rows, failures, byHand>>

ReadOpponents(b) ==
  /\ backfill[b].pc = "opponents"
  /\ backfill' = [backfill EXCEPT ![b] =
       IF Known(opponents) THEN [pc |-> "create", names |-> opponents] ELSE Idle]
  /\ UNCHANGED <<crew, match, ingest, sync, onChain, rows, failures, history>>

Created == {p \in Pools : named[p] # NoNames}

\* A new pool gets an id that no pool has; which one tells nothing.
NewPool == CHOOSE p \in Pools : p \notin Created

\* create_tournament_pool_on_chain.
CreatePool(b) ==
  /\ backfill[b].pc = "create"
  /\ Created # Pools
  /\ named' = [named EXCEPT ![NewPool] = backfill[b].names]
  /\ backfill' = [backfill EXCEPT ![b] = [pc |-> "configure", created |-> NewPool]]
  /\ UNCHANGED <<crew, match, ingest, sync, stake, log, rows, failures, history>>

\* The transaction was executed, but its answer is lost.
LoseAnswer(b) ==
  /\ failures < MaxFailures
  /\ backfill[b].pc = "create"
  /\ Created # Pools
  /\ named' = [named EXCEPT ![NewPool] = backfill[b].names]
  /\ backfill' = [backfill EXCEPT ![b] = Idle]
  /\ failures' = failures + 1
  /\ UNCHANGED <<crew, match, ingest, sync, stake, log, rows, history>>

\* configure_match_pool: whatever the pool was.
RegisterPool(b) ==
  /\ backfill[b].pc = "configure"
  /\ pool' = backfill[b].created
  /\ backfill' = [backfill EXCEPT ![b] = Idle]
  /\ UNCHANGED <<crew, open, opponents, ingest, sync, onChain, rows, failures, history>>

FailBackfill(b) ==
  /\ failures < MaxFailures
  /\ backfill[b] # Idle
  /\ backfill' = [backfill EXCEPT ![b] = Idle]
  /\ failures' = failures + 1
  /\ UNCHANGED <<crew, match, ingest, sync, onChain, rows, history>>

\* configure_tournament_pool: an administrator registers an object id by hand;
\* nobody looks whether it is one of a pool.
ConfigurePool(id) ==
  /\ Admins \cap crew # {}
  /\ id \in Created \cup {Mistyped}
  /\ pool' = id
  /\ byHand' = TRUE
  /\ UNCHANGED <<crew, open, opponents, ingest, backfill, sync, onChain, rows, failures,
                 crossed>>

-----------------------------------------------------------------------------
(* The chain: users stake in the pool that the match shows, and in those   *)
(* of other matches.                                                       *)

StakeOnChain(batch, outcome) ==
  /\ pool \in Pools
  /\ batch # {} /\ Cardinality(batch) <= MaxBatch
  /\ \A s \in batch : stake[s] = NoStake
  /\ Len(log) + Cardinality(batch) <= MaxLog
  /\ stake' = [s \in Stakes |->
                 IF s \in batch
                 THEN [pool |-> pool, outcome |-> outcome, tx |-> batch]
                 ELSE stake[s]]
  /\ \E events \in SetToSeqs(batch) : log' = log \o events
  /\ UNCHANGED <<crew, match, ingest, backfill, sync, named, rows, failures, history>>

StakeElsewhere ==
  /\ Len(log) < MaxLog
  /\ log' = Append(log, Foreign)
  /\ UNCHANGED <<crew, match, ingest, backfill, sync, named, stake, rows, failures, history>>

-----------------------------------------------------------------------------
(* run_stake_sync.                                                         *)

\* The match is read.  The reconciler takes only what
\* list_matches_with_active_pools returns, an administrator any match.
StartSync(y) ==
  /\ sync[y] = Idle
  /\ pool # NoPool
  /\ y = Reconciler => open
  /\ sync' = [sync EXCEPT ![y] = [pc |-> "events", pool |-> pool]]
  /\ UNCHANGED <<crew, match, ingest, backfill, onChain, rows, failures, history>>

Following(queue) == IF queue = {} THEN Idle ELSE [pc |-> "check", queue |-> queue]

ReadEvents(y) ==
  /\ sync[y].pc = "events"
  /\ sync' = [sync EXCEPT ![y] = Following(EventsOf(sync[y].pool))]
  /\ UNCHANGED <<crew, match, ingest, backfill, onChain, rows, failures, history>>

\* record_indexed_pool_stake: the SELECT ...
CheckIndexed(y) ==
  LET queue == sync[y].queue
  IN  /\ sync[y].pc = "check"
      /\ \E n \in Latest(queue) :
           sync' = [sync EXCEPT ![y] =
             IF AlreadyIndexed(log[n]) THEN Following(AfterKnown(queue))
             ELSE [pc |-> "insert", queue |-> queue]]
      /\ UNCHANGED <<crew, match, ingest, backfill, onChain, rows, failures, history>>

\* ... and the INSERT.  There is no unique index on either column.
InsertIndexed(y) ==
  LET queue == sync[y].queue
  IN  /\ sync[y].pc = "insert"
      /\ \E n \in Latest(queue) :
           rows' = [rows EXCEPT ![log[n]][SlotOf(log[n])] = @ + 1]
      /\ sync' = [sync EXCEPT ![y] = Following(Later(queue))]
      /\ UNCHANGED <<crew, match, ingest, backfill, onChain, failures, history>>

\* An event that fails is skipped, a read that fails ends the sync.
FailSync(y) ==
  /\ failures < MaxFailures
  /\ sync[y] # Idle
  /\ sync' = [sync EXCEPT ![y] =
       IF @.pc = "events" THEN Idle ELSE Following(Later(@.queue))]
  /\ failures' = failures + 1
  /\ UNCHANGED <<crew, match, ingest, backfill, onChain, rows, history>>

Next ==
  \/ \E g \in Ingesters :
       \/ \E l \in Lineups, over \in BOOLEAN : StartIngest(g, l, over)
       \/ StoreOpponent(g)
       \/ FailIngest(g)
  \/ \E b \in Backfillers \cap crew :
       \/ ListMissing(b) \/ ReadOpponents(b) \/ CreatePool(b) \/ LoseAnswer(b)
       \/ RegisterPool(b) \/ FailBackfill(b)
  \/ \E id \in Pools \cup {Mistyped} : ConfigurePool(id)
  \/ \E batch \in SUBSET Stakes, o \in Slots : StakeOnChain(batch, o)
  \/ StakeElsewhere
  \/ \E y \in Syncers \cap crew :
       \/ StartSync(y) \/ ReadEvents(y) \/ CheckIndexed(y) \/ InsertIndexed(y)
       \/ FailSync(y)

Spec == Init /\ [][Next]_vars

\* The reconciler runs in an endless loop.
ReconcilerStep ==
  \/ StartSync(Reconciler) \/ ReadEvents(Reconciler)
  \/ CheckIndexed(Reconciler) \/ InsertIndexed(Reconciler)

FairSpec == Spec /\ WF_vars(ReconcilerStep)

-----------------------------------------------------------------------------
(* Properties.                                                             *)

\* A row that a syncer inserts is preceded by its own look at the index: each
\* syncer adds one row at most, and nothing but their overlap doubles a stake.
RowsPerSyncer == \A s \in Stakes : RowsOf(s) <= Cardinality(Syncers)

\* As long as nobody registers a pool by hand and no two backfills overlap, the
\* pool of the match is never replaced under the stakes that were made in it,
\* whatever fails.
StakesInRegisteredPool ==
  \A s \in Stakes :
    (stake[s] # NoStake /\ ~byHand /\ ~crossed) => stake[s].pool = pool

\* A match gets no more pools on chain than backfills can find it without one:
\* one of each backfiller, and one more for every call or statement that failed.
PoolsPerBackfiller ==
  Cardinality(Created) <= Cardinality(Backfillers) + failures

\* A stake on chain is indexed, or another one of its transaction is, unless
\* the match ends or gets another pool first.
StakesReachIndex ==
  \A s \in Stakes :
    (stake[s] # NoStake) ~>
      ((\E r \in stake[s].tx : RowsOf(r) > 0) \/ ~open \/ pool # stake[s].pool)
=============================================================================
