----------------------- MODULE MatchSettlementProofs ------------------------
(***************************************************************************)
(* Proofs about the settlement of a match for every set of stakes, sides,  *)
(* amounts and tasks, however the statements of resolve_match and          *)
(* cancel_match interleave and fail: type correctness, winners never paid  *)
(* less than they staked, settled stakes that stay settled; and, where no  *)
(* task cancels, that the payouts are covered and that the statements of   *)
(* resolve_match together implement BetLedger.                             *)
(***************************************************************************)
EXTENDS MatchSettlement, UnitSumProofs

TransactionSteps == {"total", "winner_pool", "close", "refund", "winners", "pay"}

\* The row lock belongs to the one task inside its transaction.
LockHeld == \A t \in Tasks : task[t].pc \in TransactionSteps <=> lock = t

\* A request that passed its checks is for a row that does not exist yet, and
\* a task that is about to resolve has a winner to resolve for.
Pending ==
  /\ \A s \in Stakes : request[s] # NoRequest => status[s] = "none"
  /\ \A s \in Stakes : status[s] # "none" => amount[s] \in Nat \ {0}
  /\ \A t \in Tasks : task[t].pc \in TransactionSteps \cup {"lock"} =>
                        task[t].want \in Sides

\* A task that shares the pool has seen a positive winner pool.
SharesPool ==
  \A t \in Tasks : task[t].pc \in {"winners", "pay"} => task[t].wpool > 0

\* Rows on a list that a task took exist.
Listed == \A t \in Tasks : \A s \in task[t].list : status[s] # "none"

IInv == TypeOK /\ LockHeld /\ Pending /\ SharesPool /\ Listed

LEMMA ActiveFinite ==
  ASSUME TypeOK, Pending
  PROVE  /\ IsFiniteSet(Active) /\ \A s \in Active : amount[s] \in Nat \ {0}
         /\ PoolTotal \in Nat /\ PoolTotal = SumOf(Active, amount)
         /\ \A w : /\ PoolOf(w) \in Nat /\ PoolOf(w) = SumOf(ActiveOn(w), amount)
                   /\ PoolOf(w) <= PoolTotal
<1> USE MatchSettlementAssumption
<1>1. IsFiniteSet(Active) /\ \A s \in Active : amount[s] \in Nat \ {0}
  BY FS_Subset DEF Active, Pending
<1>2. {s \in Stakes : InPool(s)} = Active
  BY DEF InPool, Active
<1>3. SumOf(Active, amount) \in Nat
  BY <1>1, SumType
<1>4. PoolTotal = SumOf(Active, amount)
  BY <1>2 DEF PoolTotal
<1>5. ASSUME NEW w
      PROVE  /\ PoolOf(w) \in Nat /\ PoolOf(w) = SumOf(ActiveOn(w), amount)
             /\ PoolOf(w) <= PoolTotal
  <2>1. {s \in Stakes : InPool(s) /\ side[s] = w} = ActiveOn(w)
    BY DEF InPool, Active, ActiveOn
  <2>2. ActiveOn(w) \in SUBSET Active
    BY DEF ActiveOn
  <2>3. IsFiniteSet(ActiveOn(w)) /\ \A s \in ActiveOn(w) : amount[s] \in Nat
    BY <1>1, <2>2, FS_Subset
  <2>4. SumOf(ActiveOn(w), amount) \in Nat
    BY <2>3, SumType
  <2>5. SumOf(ActiveOn(w), amount) <= SumOf(Active, amount)
    BY <1>1, <2>2, SumMonotone
  <2> QED
    BY <1>4, <2>1, <2>4, <2>5 DEF PoolOf
<1> QED
  BY <1>1, <1>3, <1>4, <1>5

LEMMA InitIInv == Init => IInv
<1> SUFFICES ASSUME Init PROVE IInv
  OBVIOUS
<1> USE MatchSettlementAssumption DEF Init
<1>1. Idle \in TaskState /\ Idle.pc = "idle" /\ Idle.list = {}
  BY DEF Idle, TaskState, MatchStatus
<1>2. TypeOK
  <2>1. mStatus \in MatchStatus /\ poolSet \in BOOLEAN /\ winner \in Sides \cup {NoSide}
    BY DEF MatchStatus
  <2>2. /\ request \in [Stakes -> [side : Sides, amount : Amounts] \cup {NoRequest}]
        /\ status \in [Stakes -> StakeStatus]
        /\ side \in [Stakes -> Sides \cup {NoSide}]
        /\ amount \in [Stakes -> Amounts \cup {0}]
        /\ payout \in [Stakes -> Nat]
    BY DEF StakeStatus
  <2>3. /\ lock \in Tasks \cup {NoTask}
        /\ task \in [Tasks -> TaskState]
        /\ aborts \in 0 .. MaxAborts
    BY <1>1
  <2> QED
    BY <2>1, <2>2, <2>3 DEF TypeOK
<1>3. LockHeld
  BY <1>1 DEF LockHeld, TransactionSteps
<1>4. Pending
  BY <1>1 DEF Pending, TransactionSteps
<1>5. SharesPool
  BY <1>1 DEF SharesPool
<1>6. Listed
  BY <1>1 DEF Listed
<1> QED
  BY <1>2, <1>3, <1>4, <1>5, <1>6 DEF IInv

\* A step of task t alone, which becomes r and neither takes nor frees the row.
LEMMA TaskStep ==
  ASSUME IInv, NEW t \in Tasks, NEW r \in TaskState,
         task' = [task EXCEPT ![t] = r],
         UNCHANGED <<lock, stakes, request, poolSet, winner>>,
         mStatus' \in MatchStatus, aborts' \in 0 .. MaxAborts,
         r.pc \in TransactionSteps <=> task[t].pc \in TransactionSteps,
         r.pc \in TransactionSteps \cup {"lock"} => r.want \in Sides,
         r.pc \in {"winners", "pay"} => r.wpool > 0,
         \A s \in r.list : status[s] # "none"
  PROVE  IInv'
<1> USE DEF IInv, stakes
<1>1. TypeOK'
  BY DEF TypeOK
<1>2. LockHeld'
  BY DEF LockHeld, TypeOK
<1>3. Pending'
  BY DEF Pending, TypeOK
<1>4. SharesPool'
  BY DEF SharesPool, TypeOK
<1>5. Listed'
  BY DEF Listed, TypeOK
<1> QED
  BY <1>1, <1>2, <1>3, <1>4, <1>5

\* The end of t's transaction, committed or rolled back: stakes keep their
\* types, sides and amounts, and none appears or vanishes.
LEMMA EndStep ==
  ASSUME IInv, NEW t \in Tasks, lock = t, EndTransaction(t),
         mStatus' \in MatchStatus, winner' \in Sides \cup {NoSide},
         UNCHANGED <<request, poolSet, side, amount>>,
         aborts' \in 0 .. MaxAborts,
         status' \in [Stakes -> StakeStatus], payout' \in [Stakes -> Nat],
         \A s \in Stakes : status[s] = "none" <=> status'[s] = "none"
  PROVE  IInv'
<1> USE MatchSettlementAssumption DEF IInv, EndTransaction
<1>0. Idle \in TaskState /\ Idle.pc = "idle" /\ Idle.list = {}
  BY DEF Idle, TaskState, MatchStatus
<1>1. TypeOK'
  BY <1>0 DEF TypeOK
<1>2. LockHeld'
  BY <1>0 DEF LockHeld, TypeOK, TransactionSteps
<1>3. Pending'
  BY <1>0 DEF Pending, TypeOK, TransactionSteps
<1>4. SharesPool'
  BY <1>0 DEF SharesPool, TypeOK
<1>5. Listed'
  BY <1>0 DEF Listed, TaskState, TypeOK
<1> QED
  BY <1>1, <1>2, <1>3, <1>4, <1>5

\* Steps on stakes and requests alone.
LEMMA StakeStepsKeepIInv ==
  ASSUME IInv,
         \/ ConfigurePool
         \/ \E s \in Stakes, d \in Sides, a \in Amounts :
              CheckStake(s, d, a) \/ CheckIndexed(s, d, a)
         \/ \E s \in Stakes : InsertStake(s)
  PROVE  IInv'
<1> USE MatchSettlementAssumption DEF IInv
<1>1. CASE ConfigurePool
  <2> USE <1>1 DEF ConfigurePool, stakes
  <2>1. TypeOK'
    BY DEF TypeOK
  <2>2. LockHeld' /\ Pending' /\ SharesPool' /\ Listed'
    BY DEF LockHeld, Pending, SharesPool, Listed
  <2> QED
    BY <2>1, <2>2
<1>2. ASSUME NEW s \in Stakes, NEW d \in Sides, NEW a \in Amounts,
             CheckedRequest(s, d, a)
      PROVE  IInv'
  <2> USE <1>2 DEF CheckedRequest, match, stakes
  <2>1. [side |-> d, amount |-> a] \in [side : Sides, amount : Amounts]
    OBVIOUS
  <2>2. TypeOK'
    BY <2>1 DEF TypeOK
  <2>3. LockHeld' /\ SharesPool' /\ Listed'
    BY DEF LockHeld, SharesPool, Listed
  <2>4. Pending'
    BY DEF Pending, TypeOK
  <2> QED
    BY <2>2, <2>3, <2>4
<1>3. ASSUME NEW s \in Stakes, InsertStake(s) PROVE IInv'
  <2> USE <1>3 DEF InsertStake, match
  <2>1. request[s] \in [side : Sides, amount : Amounts]
    BY DEF TypeOK
  <2>2. TypeOK'
    BY <2>1 DEF TypeOK, StakeStatus
  <2>3. LockHeld' /\ SharesPool' /\ Listed'
    BY DEF LockHeld, SharesPool, Listed, TaskState, TypeOK
  <2>4. Pending'
    BY <2>1 DEF Pending, TypeOK
  <2> QED
    BY <2>2, <2>3, <2>4
<1> QED
  BY <1>1, <1>2, <1>3 DEF CheckStake, CheckIndexed

LEMMA LockedType ==
  ASSUME TypeOK, NEW t \in Tasks
  PROVE  task[t] \in TaskState
  BY DEF TypeOK

\* A task is called: by a report of a finished match, or by an administrator.
LEMMA CallStep ==
  ASSUME IInv, NEW t \in Tasks, task[t].pc = "idle", NEW w \in Sides,
         task' = [task EXCEPT ![t] = [Idle EXCEPT !.pc = "lock", !.want = w]],
         mStatus' \in MatchStatus,
         UNCHANGED <<lock, stakes, request, poolSet, winner, aborts>>
  PROVE  IInv'
<1> DEFINE r == [Idle EXCEPT !.pc = "lock", !.want = w]
<1>1. r \in TaskState /\ r.pc = "lock" /\ r.want = w /\ r.list = {}
  BY DEF Idle, TaskState, MatchStatus
<1>2. r.pc \notin TransactionSteps /\ task[t].pc \notin TransactionSteps
  BY <1>1 DEF TransactionSteps
<1>3. aborts' \in 0 .. MaxAborts
  BY DEF IInv, TypeOK
<1>4. task' = [task EXCEPT ![t] = r]
  OBVIOUS
<1> HIDE DEF r
<1> QED
  BY <1>1, <1>2, <1>3, <1>4, TaskStep

LEMMA CallsKeepIInv ==
  ASSUME IInv, NEW t \in Tasks,
         \/ \E report \in Reports, w \in Sides \cup {NoSide} : ProviderReport(t, report, w)
         \/ \E w \in Sides : CallResolve(t, w)
  PROVE  IInv'
<1> USE MatchSettlementAssumption
<1>1. ASSUME NEW report \in Reports, NEW w \in Sides \cup {NoSide},
             ProviderReport(t, report, w)
      PROVE  IInv'
  <2> USE <1>1 DEF ProviderReport
  <2>1. mStatus' \in MatchStatus
    BY DEF IInv, TypeOK, ProviderStatus, MatchStatus, Reports
  <2>2. CASE report = "finished" /\ w # NoSide
    BY <2>1, <2>2, CallStep DEF stakes
  <2>3. CASE ~(report = "finished" /\ w # NoSide)
    <3>1. UNCHANGED <<task, lock, stakes, request, poolSet, winner, aborts>>
      BY <2>3
    <3>2. TypeOK'
      BY <2>1, <3>1 DEF IInv, TypeOK, stakes
    <3>3. LockHeld' /\ Pending' /\ SharesPool' /\ Listed'
      BY <3>1 DEF IInv, LockHeld, Pending, SharesPool, Listed, stakes
    <3> QED
      BY <3>2, <3>3 DEF IInv
  <2> QED
    BY <2>2, <2>3
<1>2. ASSUME NEW w \in Sides, CallResolve(t, w) PROVE IInv'
  <2>1. mStatus' \in MatchStatus
    BY <1>2 DEF CallResolve, match, IInv, TypeOK
  <2> QED
    BY <1>2, <2>1, CallStep DEF CallResolve, match, stakes
<1> QED
  BY <1>1, <1>2

LEMMA LockMatchKeepsIInv ==
  ASSUME IInv, NEW t \in Tasks, LockMatch(t)
  PROVE  IInv'
<1> USE MatchSettlementAssumption DEF LockMatch, RowFree, IInv, match, stakes
<1> DEFINE r == [task[t] EXCEPT !.pc = "total", !.seen = mStatus]
<1>1. /\ r \in TaskState /\ r.pc = "total" /\ r.want = task[t].want
      /\ r.list = task[t].list /\ task' = [task EXCEPT ![t] = r]
  BY LockedType DEF TaskState, TypeOK
<1>2. TypeOK'
  BY <1>1 DEF TypeOK
<1> HIDE DEF r
<1>3. LockHeld'
  BY <1>1 DEF LockHeld, TypeOK, TransactionSteps
<1>4. Pending'
  BY <1>1 DEF Pending, TypeOK, TransactionSteps
<1>5. SharesPool'
  BY <1>1 DEF SharesPool, TypeOK
<1>6. Listed'
  BY <1>1 DEF Listed, TypeOK
<1> QED
  BY <1>2, <1>3, <1>4, <1>5, <1>6

LEMMA ReadTotalKeepsIInv ==
  ASSUME IInv, NEW t \in Tasks, ReadTotal(t)
  PROVE  IInv'
<1> USE MatchSettlementAssumption DEF ReadTotal
<1>1. CASE AlreadyResolved(task[t].seen, PoolTotal)
  <2>1. lock = t
    BY DEF IInv, LockHeld, TransactionSteps
  <2> QED
    BY <1>1, <2>1, EndStep DEF IInv, TypeOK, match, stakes
<1>2. CASE ~AlreadyResolved(task[t].seen, PoolTotal)
  <2> DEFINE r == [task[t] EXCEPT !.pc = "winner_pool", !.total = PoolTotal]
  <2>1. PoolTotal \in Nat
    BY ActiveFinite DEF IInv
  <2>2. /\ r \in TaskState /\ r.pc = "winner_pool" /\ r.want = task[t].want
        /\ r.list = task[t].list /\ task' = [task EXCEPT ![t] = r]
    BY <1>2, <2>1, LockedType DEF TaskState, IInv
  <2>3. r.want \in Sides
    BY <2>2 DEF IInv, Pending, TransactionSteps
  <2> HIDE DEF r
  <2>4. \A s \in r.list : status[s] # "none"
    BY <2>2 DEF IInv, Listed
  <2> QED
    BY <1>2, <2>2, <2>3, <2>4, TaskStep
       DEF TransactionSteps, match, stakes, IInv, TypeOK
<1> QED
  BY <1>1, <1>2

LEMMA ReadWinnerPoolKeepsIInv ==
  ASSUME IInv, NEW t \in Tasks, ReadWinnerPool(t)
  PROVE  IInv'
<1> DEFINE wpool == PoolOf(task[t].want)
           next == IF task[t].total = 0 THEN "close"
                   ELSE IF wpool \in {0, task[t].total} THEN "refund" ELSE "winners"
           r == [task[t] EXCEPT !.pc = next, !.wpool = wpool]
<1>1. wpool \in Nat
  BY ActiveFinite DEF IInv
<1>2. next \in {"close", "refund", "winners"} /\ (next = "winners" => wpool # 0)
  OBVIOUS
<1>3. task' = [task EXCEPT ![t] = r]
  BY DEF ReadWinnerPool, IInv, TypeOK
<1> HIDE DEF next, wpool
<1>4. /\ r \in TaskState /\ r.pc = next /\ r.want = task[t].want
      /\ r.wpool = wpool /\ r.list = task[t].list
  BY <1>1, <1>2, LockedType DEF TaskState, IInv
<1>5. r.want \in Sides
  BY <1>4 DEF IInv, Pending, TransactionSteps, ReadWinnerPool
<1>6. r.pc \in {"winners", "pay"} => r.wpool > 0
  BY <1>1, <1>2, <1>4
<1>7. /\ r.pc \in TransactionSteps /\ task[t].pc \in TransactionSteps
      /\ mStatus' \in MatchStatus /\ aborts' \in 0 .. MaxAborts
      /\ UNCHANGED <<lock, stakes, request, poolSet, winner>>
  BY <1>2, <1>4 DEF ReadWinnerPool, TransactionSteps, match, IInv, TypeOK
<1> HIDE DEF r
<1>8. \A s \in r.list : status[s] # "none"
  BY <1>4 DEF IInv, Listed
<1> QED
  BY <1>3, <1>4, <1>5, <1>6, <1>7, <1>8, TaskStep

LEMMA ListWinnersKeepsIInv ==
  ASSUME IInv, NEW t \in Tasks, ListWinners(t)
  PROVE  IInv'
<1> DEFINE r == [task[t] EXCEPT !.pc = "pay", !.list = ActiveOn(task[t].want)]
<1>1. ActiveOn(task[t].want) \in SUBSET Stakes
  BY DEF ActiveOn, Active
<1>2. /\ r \in TaskState /\ r.pc = "pay" /\ r.want = task[t].want
      /\ r.list = ActiveOn(task[t].want) /\ r.wpool = task[t].wpool /\ task' = [task EXCEPT ![t] = r]
  BY <1>1, LockedType DEF TaskState, IInv, ListWinners
<1>3. r.want \in Sides /\ r.wpool > 0
  BY <1>2 DEF IInv, Pending, SharesPool, TransactionSteps, ListWinners
<1>4. \A s \in r.list : status[s] # "none"
  BY <1>2 DEF ActiveOn, Active
<1> HIDE DEF r
<1> QED
  BY <1>2, <1>3, <1>4, TaskStep
     DEF ListWinners, TransactionSteps, match, stakes, IInv, TypeOK

\* What a settling transaction may do to the stakes keeps their types.
LEMMA SharesAreNatural ==
  ASSUME NEW a \in Nat, NEW total \in Nat, NEW w \in Nat, w > 0
  PROVE  (a * total) \div w \in Nat
<1>1. a * total \in Nat
  OBVIOUS
<1>2. \A n \in Nat : n \div w \in Nat
  OBVIOUS
<1> QED
  BY <1>1, <1>2

LEMMA AmountsNatural ==
  ASSUME TypeOK PROVE \A s \in Stakes : amount[s] \in Nat
<1>1. Amounts \cup {0} \subseteq Nat
  BY MatchSettlementAssumption
<1> QED
  BY <1>1 DEF TypeOK

LEMMA CommitsKeepIInv ==
  ASSUME IInv, NEW t \in Tasks, CommitEmpty(t) \/ CommitRefund(t) \/ CommitPayouts(t)
  PROVE  IInv'
<1> USE MatchSettlementAssumption
<1>1. lock = t
  BY DEF IInv, LockHeld, TransactionSteps, CommitEmpty, CommitRefund, CommitPayouts
<1>2. CASE CommitEmpty(t)
  BY <1>1, <1>2, EndStep DEF CommitEmpty, stakes, IInv, TypeOK, MatchStatus
<1>3. CASE CommitRefund(t)
  <2> USE <1>3 DEF CommitRefund
  <2>1. status' \in [Stakes -> StakeStatus]
    BY DEF IInv, TypeOK, StakeStatus
  <2>2. \A s \in Stakes : status[s] = "none" <=> status'[s] = "none"
    BY DEF Active
  <2>3. /\ mStatus' \in MatchStatus /\ winner' \in Sides \cup {NoSide}
        /\ payout' \in [Stakes -> Nat] /\ aborts' \in 0 .. MaxAborts
    BY DEF IInv, TypeOK, MatchStatus
  <2> QED
    BY <1>1, <2>1, <2>2, <2>3, EndStep
<1>4. CASE CommitPayouts(t)
  <2> USE <1>4 DEF CommitPayouts
  <2>1. task[t].total \in Nat /\ task[t].wpool \in Nat /\ task[t].wpool > 0
    BY LockedType DEF IInv, SharesPool, TaskState
  <2>2. task[t].want \in Sides /\ task[t].list \subseteq Stakes
    BY LockedType DEF IInv, Pending, TransactionSteps, TaskState
  <2>3. \A s \in Stakes : amount[s] \in Nat
    BY AmountsNatural DEF IInv
  <2>4. \A s \in Stakes : Payout(s, task[t].total, task[t].wpool) \in Nat
    BY <2>1, <2>3, SharesAreNatural DEF Payout
  <2>5. payout' \in [Stakes -> Nat]
    BY <2>4 DEF IInv, TypeOK
  <2>6. status' \in [Stakes -> StakeStatus]
    BY DEF IInv, TypeOK, StakeStatus
  <2>7. \A s \in task[t].list : status[s] # "none"
    BY DEF IInv, Listed
  <2>8. \A s \in Stakes : status[s] = "none" <=> status'[s] = "none"
    BY <2>7 DEF Losers, Active
  <2>9. /\ mStatus' \in MatchStatus /\ winner' \in Sides \cup {NoSide}
        /\ aborts' \in 0 .. MaxAborts
    BY <2>2 DEF IInv, TypeOK, MatchStatus
  <2> QED
    BY <1>1, <2>5, <2>6, <2>8, <2>9, EndStep
<1> QED
  BY <1>2, <1>3, <1>4

LEMMA CancellationKeepsIInv ==
  ASSUME IInv, NEW t \in Tasks, ListRefunds(t) \/ RefundStakes(t) \/ CancelMatch(t)
  PROVE  IInv'
<1> USE MatchSettlementAssumption
<1>1. CASE ListRefunds(t)
  <2> DEFINE r == [task[t] EXCEPT !.pc = "refund_stakes", !.list = Active]
  <2>1. /\ r \in TaskState /\ r.pc = "refund_stakes" /\ r.list = Active
        /\ task' = [task EXCEPT ![t] = r]
    BY <1>1, LockedType DEF TaskState, IInv, ListRefunds, Active
  <2>2. r.pc \notin TransactionSteps \cup {"lock"} /\ task[t].pc \notin TransactionSteps
    BY <1>1, <2>1 DEF TransactionSteps, ListRefunds
  <2>3. \A s \in r.list : status[s] # "none"
    BY <2>1 DEF Active
  <2>4. /\ mStatus' \in MatchStatus /\ aborts' \in 0 .. MaxAborts
        /\ UNCHANGED <<lock, stakes, request, poolSet, winner>>
    BY <1>1 DEF ListRefunds, match, IInv, TypeOK
  <2>5. r.pc \notin {"winners", "pay"}
    BY <2>1
  <2> HIDE DEF r
  <2> QED
    BY <2>1, <2>2, <2>3, <2>4, <2>5, TaskStep
<1>2. CASE RefundStakes(t)
  <2> DEFINE r == [task[t] EXCEPT !.pc = "cancel_match"]
  <2>1. /\ r \in TaskState /\ r.pc = "cancel_match" /\ r.list = task[t].list
        /\ task' = [task EXCEPT ![t] = r]
    BY <1>2, LockedType DEF TaskState, IInv, RefundStakes
  <2> HIDE DEF r
  <2> USE <1>2, <2>1 DEF RefundStakes, match
  <2>2. TypeOK'
    BY DEF IInv, TypeOK, StakeStatus
  <2>3. LockHeld' /\ SharesPool'
    BY DEF IInv, LockHeld, SharesPool, TransactionSteps, TypeOK
  <2>4. \A s \in Stakes : status[s] = "none" <=> status'[s] = "none"
    BY DEF Active
  <2>5. Pending'
    BY <2>4 DEF IInv, Pending, TransactionSteps, TypeOK
  <2>6. \A u \in Tasks : task'[u].list = task[u].list /\ task[u].list \subseteq Stakes
    BY LockedType DEF IInv, TypeOK, TaskState
  <2>7. Listed'
    BY <2>4, <2>6 DEF IInv, Listed
  <2> QED
    BY <2>2, <2>3, <2>5, <2>7 DEF IInv
<1>3. CASE CancelMatch(t)
  <2>1. Idle \in TaskState /\ Idle.pc = "idle" /\ Idle.list = {}
    BY DEF Idle, TaskState, MatchStatus
  <2>2. Idle.pc \notin TransactionSteps /\ task[t].pc \notin TransactionSteps
    BY <1>3, <2>1 DEF TransactionSteps, CancelMatch
  <2>3. mStatus' \in MatchStatus /\ aborts' \in 0 .. MaxAborts
    BY <1>3 DEF CancelMatch, MatchStatus, IInv, TypeOK
  <2> QED
    BY <1>3, <2>1, <2>2, <2>3, TaskStep DEF CancelMatch, stakes
<1> QED
  BY <1>1, <1>2, <1>3

LEMMA AbortKeepsIInv ==
  ASSUME IInv, NEW t \in Tasks, Abort(t)
  PROVE  IInv'
<1> USE MatchSettlementAssumption
<1>1. aborts' \in 0 .. MaxAborts /\ mStatus' \in MatchStatus
  BY DEF Abort, IInv, TypeOK, match
<1>2. CASE lock = t
  <2>1. EndTransaction(t)
    BY <1>2 DEF Abort, EndTransaction
  <2> QED
    BY <1>1, <1>2, <2>1, EndStep DEF Abort, IInv, TypeOK, match, stakes
<1>3. CASE lock # t
  <2>1. Idle \in TaskState /\ Idle.pc = "idle" /\ Idle.list = {}
    BY DEF Idle, TaskState, MatchStatus
  <2>2. Idle.pc \notin TransactionSteps \cup {"lock"} /\ task[t].pc \notin TransactionSteps
    BY <1>3, <2>1 DEF TransactionSteps, IInv, LockHeld
  <2>3. /\ task' = [task EXCEPT ![t] = Idle]
        /\ UNCHANGED <<lock, stakes, request, poolSet, winner>>
    BY <1>3 DEF Abort, match
  <2> QED
    BY <1>1, <2>1, <2>2, <2>3, TaskStep
<1> QED
  BY <1>2, <1>3

LEMMA NextKeepsIInv == IInv /\ [Next]_vars => IInv'
<1> SUFFICES ASSUME IInv, [Next]_vars PROVE IInv'
  OBVIOUS
<1>1. ASSUME NEW t \in Tasks, Transaction(t) PROVE IInv'
  BY <1>1, LockMatchKeepsIInv, ReadTotalKeepsIInv, ReadWinnerPoolKeepsIInv,
     ListWinnersKeepsIInv, CommitsKeepIInv DEF Transaction
<1>2. ASSUME NEW t \in Tasks, ListRefunds(t) \/ Cancellation(t) PROVE IInv'
  BY <1>2, CancellationKeepsIInv DEF Cancellation
<1>3. CASE UNCHANGED vars
  BY <1>3 DEF vars, match, stakes, IInv, TypeOK, LockHeld, Pending, SharesPool, Listed
<1> QED
  BY <1>1, <1>2, <1>3, StakeStepsKeepIInv, CallsKeepIInv, AbortKeepsIInv DEF Next

LEMMA Inductive == Spec => []IInv
  BY InitIInv, NextKeepsIInv, PTL DEF Spec

\* Type correctness: whatever statements interleave or fail, the rows of the
\* match and of its stakes hold values of the schema; in particular no payout
\* is a division by an empty winner pool.
THEOREM TypeCorrect == Spec => []TypeOK
<1>1. IInv => TypeOK
  BY DEF IInv
<1> QED
  BY <1>1, Inductive, PTL

-----------------------------------------------------------------------------
(* Settled stakes, with cancellations at any moment.                       *)

\* What a task read may have been refunded since, but not settled otherwise
\* nor have grown: only the holder of the row settles stakes or adds any.
Settling ==
  \A t \in Tasks :
    /\ task[t].pc = "winner_pool" => PoolTotal <= task[t].total
    /\ task[t].pc \in {"winners", "pay"} => task[t].wpool <= task[t].total
    /\ task[t].pc = "pay" =>
         \A s \in task[t].list : status[s] \in {"active", "refunded"}

Kept ==
  \A s \in Stakes :
    /\ status[s] \in {"won", "lost"} => status'[s] = status[s]
    /\ status[s] = "refunded" => status'[s] \in {"refunded", "won"}

WinInv == IInv /\ Settling /\ WinnersNeverLose

\* Stakes as they were: winners and sums are too.
LEMMA SameStakes ==
  ASSUME UNCHANGED stakes
  PROVE  /\ UNCHANGED <<status, side, amount, payout>>
         /\ PoolTotal' = PoolTotal /\ Active' = Active
         /\ \A w : PoolOf(w)' = PoolOf(w) /\ ActiveOn(w)' = ActiveOn(w)
         /\ WinnersNeverLose => WinnersNeverLose'
         /\ PayoutsCovered => PayoutsCovered'
         /\ Kept
<1>1. UNCHANGED <<status, side, amount, payout>>
  BY DEF stakes
<1>2. {s \in Stakes : InPool(s)}' = {s \in Stakes : InPool(s)}
  BY <1>1 DEF InPool
<1>3. PoolTotal' = PoolTotal
  BY <1>1, <1>2 DEF PoolTotal
<1>4. Active' = Active
  BY <1>1 DEF Active
<1>5. ASSUME NEW w PROVE PoolOf(w)' = PoolOf(w) /\ ActiveOn(w)' = ActiveOn(w)
  <2>1. {s \in Stakes : InPool(s) /\ side[s] = w}' = {s \in Stakes : InPool(s) /\ side[s] = w}
    BY <1>1 DEF InPool
  <2> QED
    BY <1>1, <1>4, <2>1 DEF PoolOf, ActiveOn
<1>6. Won' = Won /\ Lost' = Lost
  BY <1>1 DEF Won, Lost
<1>7. (WinnersNeverLose => WinnersNeverLose') /\ Kept
  BY <1>1, <1>6 DEF WinnersNeverLose, Kept
<1>8. PayoutsCovered => PayoutsCovered'
  BY <1>1, <1>6 DEF PayoutsCovered
<1> QED
  BY <1>1, <1>3, <1>4, <1>5, <1>7, <1>8

\* A share of a pool that holds the winners' stakes is at least the stake.
LEMMA ShareCoversStake ==
  ASSUME NEW a \in Nat, NEW w \in Nat \ {0}, NEW t \in Nat, w <= t
  PROVE  a <= (a * t) \div w
<1>1. PICK n \in Nat : n = a * t
  BY Product
<1>2. PICK q \in Nat : q = n \div w
  BY Division
<1>3. n < w * q + w
  BY <1>2, Division
<1>4. w * a <= n
  <2>1. PICK d \in Nat : t = w + d
    OBVIOUS
  <2>2. a * (w + d) = a * w + a * d /\ a * d \in Nat /\ a * w \in Nat /\ a * w = w * a
    OBVIOUS
  <2> QED
    BY <1>1, <2>1, <2>2
<1>5. ~(q + 1 <= a)
  <2>1. \A b, c \in Nat : b <= c => w * b <= w * c
    OBVIOUS
  <2>2. q + 1 <= a => w * (q + 1) <= w * a
    BY <2>1
  <2>3. w * (q + 1) = w * q + w /\ w * q \in Nat /\ w * a \in Nat
    BY Product
  <2> QED
    BY <1>3, <1>4, <2>2, <2>3
<1> QED
  BY <1>1, <1>2, <1>5

\* A step of one task that leaves the stakes alone.
LEMMA TaskKeepsSettling ==
  ASSUME WinInv, NEW t \in Tasks, NEW r,
         task' = [task EXCEPT ![t] = r], UNCHANGED stakes,
         r.pc = "winner_pool" => PoolTotal <= r.total,
         r.pc \in {"winners", "pay"} => r.wpool <= r.total,
         r.pc = "pay" => \A s \in r.list : status[s] \in {"active", "refunded"}
  PROVE  Settling' /\ WinnersNeverLose' /\ Kept
<1>1. \A u \in Tasks : task'[u] = IF u = t THEN r ELSE task[u]
  BY DEF WinInv, IInv, TypeOK
<1>2. PoolTotal' = PoolTotal /\ status' = status /\ WinnersNeverLose' /\ Kept
  BY SameStakes DEF WinInv
<1> QED
  BY <1>1, <1>2 DEF WinInv, Settling

\* With nobody in a transaction nothing that was read matters.
LEMMA NobodySettles ==
  ASSUME \A u \in Tasks : task'[u].pc \notin TransactionSteps
  PROVE  Settling'
BY DEF Settling, TransactionSteps

LEMMA OthersIdle ==
  ASSUME IInv, NEW t \in Tasks, lock = t, EndTransaction(t)
  PROVE  \A u \in Tasks : task'[u].pc \notin TransactionSteps
<1>1. \A u \in Tasks : task'[u] = IF u = t THEN Idle ELSE task[u]
  BY DEF EndTransaction, IInv, TypeOK
<1> QED
  BY <1>1 DEF IInv, LockHeld, Idle, TransactionSteps

LEMMA StakesSettling ==
  ASSUME WinInv,
         \/ ConfigurePool
         \/ \E s \in Stakes, d \in Sides, a \in Amounts :
              CheckStake(s, d, a) \/ CheckIndexed(s, d, a)
         \/ \E s \in Stakes : InsertStake(s)
  PROVE  Settling' /\ WinnersNeverLose' /\ Kept
<1>1. CASE UNCHANGED <<stakes, task>>
  <2>1. PoolTotal' = PoolTotal /\ status' = status /\ WinnersNeverLose' /\ Kept
    BY <1>1, SameStakes DEF WinInv
  <2>2. Settling'
    BY <1>1, <2>1 DEF WinInv, Settling
  <2> QED
    BY <2>1, <2>2
<1>2. ASSUME NEW s \in Stakes, InsertStake(s)
      PROVE  Settling' /\ WinnersNeverLose' /\ Kept
  <2> USE <1>2 DEF InsertStake, WinInv, IInv
  <2>1. \A u \in Tasks : task'[u].pc \notin TransactionSteps
    BY MatchSettlementAssumption DEF LockHeld, RowFree
  <2>2. status[s] = "none" /\ \A r \in Stakes \ {s} : status'[r] = status[r] /\ amount'[r] = amount[r]
    BY DEF Pending, TypeOK
  <2>3. status'[s] = "active"
    BY DEF TypeOK
  <2>4. Won' = Won /\ s \notin Won
    BY <2>2, <2>3 DEF Won
  <2>5. WinnersNeverLose'
    BY <2>2, <2>4 DEF WinnersNeverLose, Won
  <2>6. Kept
    BY <2>2 DEF Kept
  <2> QED
    BY <2>1, <2>5, <2>6, NobodySettles
<1> QED
  BY <1>1, <1>2 DEF ConfigurePool, CheckStake, CheckIndexed, CheckedRequest

\* Calls, and the steps of a task that wait, list or end without writing stakes.
LEMMA CallsSettling ==
  ASSUME WinInv, NEW t \in Tasks,
         \/ \E report \in Reports, w \in Sides \cup {NoSide} : ProviderReport(t, report, w)
         \/ \E w \in Sides : CallResolve(t, w)
         \/ ListRefunds(t) \/ CancelMatch(t) \/ LockMatch(t)
         \/ CommitEmpty(t) \/ Abort(t)
  PROVE  Settling' /\ WinnersNeverLose' /\ Kept
<1>1. UNCHANGED stakes
  BY DEF ProviderReport, CallResolve, ListRefunds, CancelMatch, LockMatch, CommitEmpty, Abort
<1>2. CASE UNCHANGED task
  <2>1. PoolTotal' = PoolTotal /\ status' = status /\ WinnersNeverLose' /\ Kept
    BY <1>1, SameStakes DEF WinInv
  <2> QED
    BY <1>2, <2>1 DEF WinInv, Settling
<1>3. ASSUME NEW r, task' = [task EXCEPT ![t] = r],
             r.pc \notin {"winner_pool", "winners", "pay"}
      PROVE  Settling' /\ WinnersNeverLose' /\ Kept
  BY <1>1, <1>3, TaskKeepsSettling
<1>4. \A w : [Idle EXCEPT !.pc = "lock", !.want = w].pc = "lock" /\ Idle.pc = "idle"
  BY DEF Idle
<1>5. ASSUME NEW pc, NEW l
      PROVE [task[t] EXCEPT !.pc = pc, !.list = l].pc = pc
  BY LockedType DEF WinInv, IInv, TaskState
<1>6. [task[t] EXCEPT !.pc = "total", !.seen = mStatus].pc = "total"
  BY LockedType DEF WinInv, IInv, TaskState
<1>7. ASSUME NEW w, task' = [task EXCEPT ![t] = [Idle EXCEPT !.pc = "lock", !.want = w]]
      PROVE  Settling' /\ WinnersNeverLose' /\ Kept
  BY <1>3, <1>4, <1>7
<1>8. CASE task' = [task EXCEPT ![t] = Idle]
  BY <1>3, <1>4, <1>8
<1>9. CASE ListRefunds(t)
  <2> DEFINE r == [task[t] EXCEPT !.pc = "refund_stakes", !.list = Active]
  <2>1. r.pc = "refund_stakes" /\ task' = [task EXCEPT ![t] = r]
    BY <1>5, <1>9 DEF ListRefunds, WinInv, IInv, TypeOK
  <2> QED
    BY <1>3, <2>1
<1>10. CASE LockMatch(t)
  <2> DEFINE r == [task[t] EXCEPT !.pc = "total", !.seen = mStatus]
  <2>1. r.pc = "total" /\ task' = [task EXCEPT ![t] = r]
    BY <1>6, <1>10 DEF LockMatch, WinInv, IInv, TypeOK
  <2> QED
    BY <1>3, <2>1
<1>11. ASSUME NEW report \in Reports, NEW w \in Sides \cup {NoSide}, ProviderReport(t, report, w)
       PROVE  Settling' /\ WinnersNeverLose' /\ Kept
  BY <1>2, <1>7, <1>11 DEF ProviderReport
<1>12. ASSUME NEW w \in Sides, CallResolve(t, w)
       PROVE  Settling' /\ WinnersNeverLose' /\ Kept
  BY <1>7, <1>12 DEF CallResolve
<1>13. CASE CancelMatch(t) \/ CommitEmpty(t) \/ Abort(t)
  BY <1>8, <1>13 DEF CancelMatch, CommitEmpty, EndTransaction, Abort
<1> QED
  BY <1>9, <1>10, <1>11, <1>12, <1>13

LEMMA ReadsSettling ==
  ASSUME WinInv, NEW t \in Tasks, ReadTotal(t) \/ ReadWinnerPool(t) \/ ListWinners(t)
  PROVE  Settling' /\ WinnersNeverLose' /\ Kept
<1>1. UNCHANGED stakes
  BY DEF ReadTotal, ReadWinnerPool, ListWinners
<1>2. task[t] \in TaskState /\ PoolTotal \in Nat
  BY LockedType, ActiveFinite DEF WinInv, IInv
<1>3. CASE ReadTotal(t) /\ AlreadyResolved(task[t].seen, PoolTotal)
  <2>1. task' = [task EXCEPT ![t] = Idle] /\ Idle.pc = "idle"
    BY <1>3 DEF ReadTotal, EndTransaction, Idle
  <2> QED
    BY <1>1, <2>1, TaskKeepsSettling
<1>4. CASE ReadTotal(t) /\ ~AlreadyResolved(task[t].seen, PoolTotal)
  <2> DEFINE r == [task[t] EXCEPT !.pc = "winner_pool", !.total = PoolTotal]
  <2>1. r.pc = "winner_pool" /\ r.total = PoolTotal /\ task' = [task EXCEPT ![t] = r]
    BY <1>2, <1>4 DEF ReadTotal, TaskState, WinInv, IInv, TypeOK
  <2> HIDE DEF r
  <2>2. PoolTotal <= r.total /\ r.pc \notin {"winners", "pay"}
    BY <1>2, <2>1
  <2> QED
    BY <1>1, <2>1, <2>2, TaskKeepsSettling
<1>5. CASE ReadWinnerPool(t)
  <2> DEFINE wpool == PoolOf(task[t].want)
             next == IF task[t].total = 0 THEN "close"
                     ELSE IF wpool \in {0, task[t].total} THEN "refund" ELSE "winners"
             r == [task[t] EXCEPT !.pc = next, !.wpool = wpool]
  <2>1. wpool <= PoolTotal /\ wpool \in Nat
    BY ActiveFinite DEF WinInv, IInv
  <2>2. task[t].pc = "winner_pool" /\ task' = [task EXCEPT ![t] = r]
    BY <1>5 DEF ReadWinnerPool, WinInv, IInv, TypeOK
  <2>3. PoolTotal <= task[t].total /\ task[t].total \in Nat
    BY <1>2, <2>2 DEF WinInv, Settling, TaskState
  <2>4. next \in {"close", "refund", "winners"}
    OBVIOUS
  <2> HIDE DEF next, wpool
  <2>5. r.pc = next /\ r.wpool = wpool /\ r.total = task[t].total
    BY <1>2 DEF TaskState
  <2> HIDE DEF r
  <2>6. r.wpool <= r.total
    BY <1>2, <2>1, <2>3, <2>5
  <2> QED
    BY <1>1, <2>2, <2>4, <2>5, <2>6, TaskKeepsSettling
<1>6. CASE ListWinners(t)
  <2> DEFINE r == [task[t] EXCEPT !.pc = "pay", !.list = ActiveOn(task[t].want)]
  <2>1. /\ r.pc = "pay" /\ r.list = ActiveOn(task[t].want)
        /\ r.wpool = task[t].wpool /\ r.total = task[t].total
        /\ task' = [task EXCEPT ![t] = r]
    BY <1>2, <1>6 DEF ListWinners, TaskState, WinInv, IInv, TypeOK
  <2> HIDE DEF r
  <2>2. r.wpool <= r.total
    BY <1>6, <2>1 DEF ListWinners, WinInv, Settling
  <2>3. \A s \in r.list : status[s] \in {"active", "refunded"}
    BY <2>1 DEF ActiveOn, Active
  <2> QED
    BY <1>1, <2>1, <2>2, <2>3, TaskKeepsSettling
<1> QED
  BY <1>3, <1>4, <1>5, <1>6

LEMMA WritesSettling ==
  ASSUME WinInv, NEW t \in Tasks, CommitRefund(t) \/ CommitPayouts(t) \/ RefundStakes(t)
  PROVE  Settling' /\ WinnersNeverLose' /\ Kept
<1> USE DEF WinInv
<1>1. CASE CommitRefund(t)
  <2> USE <1>1 DEF CommitRefund
  <2>1. lock = t
    BY DEF IInv, LockHeld, TransactionSteps
  <2>2. Settling'
    BY <2>1, OthersIdle, NobodySettles
  <2>3. Won' = Won
    BY DEF Won, Active
  <2> QED
    BY <2>2, <2>3 DEF WinnersNeverLose, Kept, Active
<1>2. CASE RefundStakes(t)
  <2> USE <1>2 DEF RefundStakes
  <2>1. Won' = Won /\ Kept
    BY DEF Won, Active, Kept
  <2>2. WinnersNeverLose'
    BY <2>1 DEF WinnersNeverLose
  <2>3. {s \in Stakes : InPool(s)}' = {}
    BY DEF InPool, Active
  <2>4. PoolTotal' = 0
    <3>1. SumOf({s \in Stakes : InPool(s)}', amount') = 0
      BY <2>3, SumEmpty
    <3> QED
      BY <3>1 DEF PoolTotal
  <2>5. \A u \in Tasks : /\ u # t => task'[u] = task[u]
                         /\ task'[t].pc = "cancel_match"
    BY LockedType DEF IInv, TypeOK, TaskState
  <2>6. \A u \in Tasks : task[u].total \in Nat /\ task[u].list \subseteq Stakes
    BY LockedType DEF IInv, TaskState
  <2>7. Settling'
    BY <2>4, <2>5, <2>6 DEF Settling
  <2> QED
    BY <2>1, <2>2, <2>7
<1>3. CASE CommitPayouts(t)
  <2> USE <1>3 DEF CommitPayouts
  <2>1. lock = t
    BY DEF IInv, LockHeld, TransactionSteps
  <2>2. Settling'
    BY <2>1, OthersIdle, NobodySettles
  <2>3. /\ task[t].total \in Nat /\ task[t].wpool \in Nat \ {0} /\ task[t].list \subseteq Stakes
        /\ task[t].wpool <= task[t].total
        /\ \A s \in task[t].list : status[s] \in {"active", "refunded"}
    BY LockedType DEF IInv, SharesPool, TaskState, Settling
  <2>4. \A s \in Stakes : Payout(s, task[t].total, task[t].wpool) >= amount[s]
    <3>1. \A s \in Stakes : amount[s] \in Nat
      BY AmountsNatural DEF IInv
    <3>2. \A s \in Stakes : /\ amount[s] <= Payout(s, task[t].total, task[t].wpool)
                            /\ Payout(s, task[t].total, task[t].wpool) \in Nat
      BY <2>3, <3>1, ShareCoversStake, SharesAreNatural DEF Payout
    <3> QED
      BY <3>1, <3>2
  <2>5. Kept
    BY <2>3 DEF Kept, Losers, Active
  <2>6. Won' = Won \cup task[t].list
    BY <2>3 DEF Won, Losers, Active, IInv, TypeOK
  <2>7. \A s \in Won' : payout'[s] >= amount'[s]
    <3>1. ASSUME NEW s \in task[t].list PROVE payout'[s] >= amount'[s]
      BY <2>3, <2>4, <3>1
    <3>2. ASSUME NEW s \in Won, s \notin task[t].list PROVE payout'[s] >= amount'[s]
      <4>1. s \notin Losers(task[t].want) /\ s \in Stakes
        BY <3>2 DEF Won, Losers, Active
      <4> QED
        BY <3>2, <4>1 DEF WinnersNeverLose
    <3> QED
      BY <2>6, <3>1, <3>2
  <2> QED
    BY <2>2, <2>5, <2>7 DEF WinnersNeverLose
<1> QED
  BY <1>1, <1>2, <1>3

LEMMA NextKeepsWinners ==
  ASSUME WinInv, [Next]_vars
  PROVE  WinInv' /\ Kept
<1>1. IInv'
  BY NextKeepsIInv DEF WinInv
<1>2. Settling' /\ WinnersNeverLose' /\ Kept
  <2>1. ASSUME NEW t \in Tasks, Transaction(t) \/ ListRefunds(t) \/ Cancellation(t) \/ Abort(t)
        PROVE  Settling' /\ WinnersNeverLose' /\ Kept
    BY <2>1, CallsSettling, ReadsSettling, WritesSettling DEF Transaction, Cancellation
  <2>2. CASE UNCHANGED vars
    <3>1. UNCHANGED <<stakes, task>>
      BY <2>2 DEF vars
    <3>2. PoolTotal' = PoolTotal /\ status' = status /\ WinnersNeverLose' /\ Kept
      BY <3>1, SameStakes DEF WinInv
    <3> QED
      BY <3>1, <3>2 DEF WinInv, Settling
  <2> QED
    BY <2>1, <2>2, StakesSettling, CallsSettling DEF Next
<1> QED
  BY <1>1, <1>2 DEF WinInv

LEMMA WinInductive == Spec => [](WinInv) /\ [][Kept]_vars
<1>1. Init => WinInv
  <2> SUFFICES ASSUME Init PROVE Settling /\ WinnersNeverLose
    BY InitIInv DEF WinInv
  <2>1. \A t \in Tasks : task[t].pc = "idle"
    BY DEF Init, Idle
  <2>2. Won = {}
    BY DEF Init, Won
  <2> QED
    BY <2>1, <2>2 DEF Settling, WinnersNeverLose
<1>2. WinInv /\ [Next]_vars => WinInv' /\ Kept
  BY NextKeepsWinners
<1> QED
  BY <1>1, <1>2, PTL DEF Spec

\* A winner is recorded with at least the stake, although cancel_match may
\* empty the pool between the sums, the list and the payouts of resolve_match.
THEOREM WinnersAreCovered == Spec => []WinnersNeverLose
<1>1. WinInv => WinnersNeverLose
  BY DEF WinInv
<1> QED
  BY <1>1, WinInductive, PTL

\* No later settlement, report or cancellation reopens or reverses a
\* settlement of resolve_match or cancel_match.
THEOREM SettledForGood == Spec => SettledStaysSettled
<1>1. SettledStaysSettled <=> [][Kept]_vars
  BY PTL DEF SettledStaysSettled, Kept
<1> QED
  BY <1>1, WinInductive, PTL

-----------------------------------------------------------------------------
(* Settlements without cancellations: the payouts never exceed the stakes  *)
(* that were settled, and every settlement is one step of BetLedger.       *)

\* Under the lock of the row nobody else settles stakes or adds any, so what
\* the transaction has read is the pool as it stands.
Exact ==
  \A t \in Tasks :
    /\ task[t].pc \in TransactionSteps \ {"total"} => task[t].total = PoolTotal
    /\ task[t].pc \in {"close", "refund", "winners", "pay"} =>
         task[t].wpool = PoolOf(task[t].want)
    /\ task[t].pc = "refund" => task[t].wpool \in {0, task[t].total}
    /\ task[t].pc \in {"winners", "pay"} => task[t].wpool \notin {0, task[t].total}
    /\ task[t].pc = "pay" => task[t].list = ActiveOn(task[t].want)

NoCancellation == \A t \in Tasks : task[t].pc \notin {"refund_stakes", "cancel_match"}

Unpaid ==
  \A s \in Stakes : /\ status[s] = "none" => amount[s] = 0
                    /\ status[s] \in {"none", "active"} => payout[s] = 0

ShareOf(t, w) == [s \in Stakes |-> (amount[s] * t) \div w]

\* The shares of any stakes in any pot t over any w sum to at most a share of
\* the sum of the stakes.
SharesFit ==
  \A S \in SUBSET Stakes, t \in Nat, w \in Nat \ {0} :
    w * SumOf(S, ShareOf(t, w)) <= t * SumOf(S, amount)

LedgerInv == IInv /\ Exact /\ NoCancellation /\ Unpaid /\ SharesFit /\ PayoutsCovered

\* Steps that leave the stakes alone and task t at r.
LEMMA TaskKeepsLedger ==
  ASSUME LedgerInv, NEW t \in Tasks, NEW r,
         task' = [task EXCEPT ![t] = r], UNCHANGED stakes,
         r.pc \in TransactionSteps \ {"total"} => r.total = PoolTotal,
         r.pc \in {"close", "refund", "winners", "pay"} => r.wpool = PoolOf(r.want),
         r.pc = "refund" => r.wpool \in {0, r.total},
         r.pc \in {"winners", "pay"} => r.wpool \notin {0, r.total},
         r.pc = "pay" => r.list = ActiveOn(r.want),
         r.pc \notin {"refund_stakes", "cancel_match"}
  PROVE  (Exact /\ NoCancellation)'
<1>1. \A u \in Tasks : task'[u] = IF u = t THEN r ELSE task[u]
  BY DEF LedgerInv, IInv, TypeOK
<1>2. /\ PoolTotal' = PoolTotal
      /\ \A w : PoolOf(w)' = PoolOf(w) /\ ActiveOn(w)' = ActiveOn(w)
  BY SameStakes
<1>3. ASSUME NEW u \in Tasks, NEW w, task'[u].want = w
      PROVE  PoolOf(task[u].want)' = PoolOf(w) /\ ActiveOn(task[u].want)' = ActiveOn(w)
  <2>1. UNCHANGED <<status, side, amount>>
    BY DEF stakes
  <2>2. {s \in Stakes : InPool(s) /\ side[s] = task[u].want}' = {s \in Stakes : InPool(s) /\ side[s] = w}
    BY <1>3, <2>1 DEF InPool
  <2>3. ActiveOn(task[u].want)' = ActiveOn(w)
    BY <1>3, <2>1 DEF ActiveOn, Active
  <2> QED
    BY <2>1, <2>2, <2>3 DEF PoolOf
<1>4. NoCancellation'
  BY <1>1 DEF LedgerInv, NoCancellation
<1>5. \A u \in Tasks : /\ PoolOf(task[u].want)' = PoolOf(task'[u].want)
                       /\ ActiveOn(task[u].want)' = ActiveOn(task'[u].want)
  BY <1>3
<1>6. Exact'
  BY <1>1, <1>2, <1>5 DEF LedgerInv, Exact
<1> QED
  BY <1>4, <1>6

LEMMA SameAmounts ==
  ASSUME LedgerInv, UNCHANGED amount,
         \A s \in Stakes : status[s] = "none" <=> status'[s] = "none",
         \A s \in Stakes : status'[s] \in {"none", "active"} =>
                             status[s] = status'[s] /\ payout'[s] = payout[s]
  PROVE  Unpaid' /\ SharesFit'
<1>1. \A t, w : ShareOf(t, w)' = ShareOf(t, w)
  BY DEF ShareOf
<1>2. Unpaid'
  BY DEF LedgerInv, Unpaid
<1>3. SharesFit'
  BY <1>1 DEF LedgerInv, SharesFit
<1> QED
  BY <1>2, <1>3

\* A stake is added: the shares of a set that holds it grow by its share.
LEMMA InsertKeepsFit ==
  ASSUME LedgerInv, NEW s \in Stakes, InsertStake(s)
  PROVE  SharesFit'
<1> USE MatchSettlementAssumption DEF LedgerInv, IInv, InsertStake
<1>1. /\ status[s] = "none" /\ amount[s] = 0 /\ amount'[s] \in Nat
      /\ \A r \in Stakes \ {s} : amount'[r] = amount[r]
      /\ \A r \in Stakes : amount[r] \in Nat /\ amount'[r] \in Nat
  <2>1. request[s].amount \in Nat
    BY DEF TypeOK
  <2>2. \A r \in Stakes : amount[r] \in Nat
    BY AmountsNatural
  <2> QED
    BY <2>1, <2>2 DEF Pending, Unpaid, TypeOK
<1> SUFFICES ASSUME NEW S \in SUBSET Stakes, NEW t \in Nat, NEW w \in Nat \ {0}
             PROVE  w * SumOf(S, ShareOf(t, w)') <= t * SumOf(S, amount')
  BY DEF SharesFit
<1>2. \A r \in Stakes : ShareOf(t, w)[r] \in Nat /\ ShareOf(t, w)'[r] \in Nat
  BY <1>1, SharesAreNatural DEF ShareOf
<1>3. \A r \in Stakes \ {s} : ShareOf(t, w)'[r] = ShareOf(t, w)[r]
  BY <1>1 DEF ShareOf
<1> DEFINE R == S \ {s}
<1>4. IsFiniteSet(R) /\ R \in SUBSET Stakes /\ s \notin R
  BY FS_Subset
<1>5. w * SumOf(R, ShareOf(t, w)) <= t * SumOf(R, amount)
  BY <1>4 DEF SharesFit
<1>6. SumOf(R, ShareOf(t, w)') = SumOf(R, ShareOf(t, w)) /\ SumOf(R, amount') = SumOf(R, amount)
  BY <1>1, <1>3, <1>4, SumSame
<1>7. SumOf(R, ShareOf(t, w)) \in Nat /\ SumOf(R, amount) \in Nat
  BY <1>1, <1>2, <1>4, SumType
<1>8. CASE s \notin S
  <2>1. R = S
    BY <1>8
  <2> QED
    BY <1>5, <1>6, <2>1
<1>9. CASE s \in S
  <2>1. R \cup {s} = S
    BY <1>9
  <2> HIDE DEF R
  <2>2. SumOf(R \cup {s}, ShareOf(t, w)') = SumOf(R, ShareOf(t, w)') + ShareOf(t, w)'[s]
    BY <1>2, <1>4, SumAdd
  <2>3. SumOf(R \cup {s}, amount') = SumOf(R, amount') + amount'[s]
    BY <1>1, <1>4, SumAdd
  <2>4. ShareOf(t, w)'[s] = (amount'[s] * t) \div w
    BY DEF ShareOf
  <2>5. PICK z \in Nat : z = SumOf(R, ShareOf(t, w))
    BY <1>7
  <2>6. PICK n \in Nat : n = SumOf(R, amount)
    BY <1>7
  <2>7. PICK a \in Nat : a = amount'[s]
    BY <1>1
  <2>8. w * (z + ((a * t) \div w)) <= t * (n + a)
    BY <1>5, <2>5, <2>6, OneMoreShare
  <2>9. SumOf(S, ShareOf(t, w)') = z + ((a * t) \div w)
    BY <1>6, <2>1, <2>2, <2>4, <2>5, <2>7
  <2>10. SumOf(S, amount') = n + a
    BY <1>6, <2>1, <2>3, <2>6, <2>7
  <2> QED
    BY <2>8, <2>9, <2>10
<1> QED
  BY <1>8, <1>9

LEMMA SameStakesLedger ==
  ASSUME LedgerInv, UNCHANGED stakes
  PROVE  Unpaid' /\ SharesFit' /\ PayoutsCovered'
<1>1. UNCHANGED <<status, side, amount, payout>> /\ PayoutsCovered'
  BY SameStakes DEF LedgerInv
<1>2. Unpaid' /\ SharesFit'
  BY <1>1, SameAmounts
<1> QED
  BY <1>1, <1>2

\* With nobody in a transaction nothing that was read matters.
LEMMA NobodyReads ==
  ASSUME LedgerInv, NEW t \in Tasks, lock = t, EndTransaction(t)
  PROVE  (Exact /\ NoCancellation)'
<1>1. \A u \in Tasks : task'[u].pc \notin TransactionSteps
  BY OthersIdle DEF LedgerInv
<1>2. \A u \in Tasks : task'[u] = IF u = t THEN Idle ELSE task[u]
  BY DEF EndTransaction, LedgerInv, IInv, TypeOK
<1>3. Exact'
  BY <1>1 DEF Exact, TransactionSteps
<1>4. NoCancellation'
  BY <1>2 DEF NoCancellation, LedgerInv, Idle
<1> QED
  BY <1>3, <1>4

LEMMA StillLedger ==
  ASSUME LedgerInv, UNCHANGED <<stakes, task>>
  PROVE  (Exact /\ NoCancellation /\ Unpaid /\ SharesFit /\ PayoutsCovered)'
<1>1. PoolTotal' = PoolTotal
  BY SameStakes
<1>2. ASSUME NEW u \in Tasks
      PROVE  PoolOf(task[u].want)' = PoolOf(task[u].want) /\ ActiveOn(task[u].want)' = ActiveOn(task[u].want)
  <2>1. UNCHANGED <<status, side, amount, task>>
    BY DEF stakes
  <2>2. {s \in Stakes : InPool(s) /\ side[s] = task[u].want}' = {s \in Stakes : InPool(s) /\ side[s] = task[u].want}
    BY <2>1 DEF InPool
  <2> QED
    BY <2>1, <2>2 DEF PoolOf, ActiveOn, Active
<1>3. Exact'
  BY <1>1, <1>2 DEF LedgerInv, Exact
<1>4. NoCancellation'
  BY DEF LedgerInv, NoCancellation
<1> QED
  BY <1>3, <1>4, SameStakesLedger

LEMMA SettledAmountsStay ==
  ASSUME PayoutsCovered, Won' = Won, Lost' = Lost, payout' = payout,
         \A r \in Won \cup Lost : amount'[r] = amount[r]
  PROVE  PayoutsCovered'
<1>1. SumOf(Won \cup Lost, amount') = SumOf(Won \cup Lost, amount)
  BY SumSame
<1> QED
  BY <1>1 DEF PayoutsCovered

LEMMA StakesLedger ==
  ASSUME LedgerInv,
         \/ ConfigurePool
         \/ \E s \in Stakes, d \in Sides, a \in Amounts :
              CheckStake(s, d, a) \/ CheckIndexed(s, d, a)
         \/ \E s \in Stakes : InsertStake(s)
  PROVE  (Exact /\ NoCancellation /\ Unpaid /\ SharesFit /\ PayoutsCovered)'
<1>1. CASE UNCHANGED <<stakes, task>>
  BY <1>1, StillLedger
<1>2. ASSUME NEW s \in Stakes, InsertStake(s)
      PROVE  (Exact /\ NoCancellation /\ Unpaid /\ SharesFit /\ PayoutsCovered)'
  <2> USE <1>2 DEF InsertStake, LedgerInv, IInv
  <2>1. \A u \in Tasks : task'[u].pc \notin TransactionSteps
    BY MatchSettlementAssumption DEF LockHeld, RowFree
  <2>2. Exact'
    BY <2>1 DEF Exact, TransactionSteps
  <2>3. NoCancellation'
    BY DEF NoCancellation
  <2>4. /\ status[s] = "none" /\ payout[s] = 0 /\ payout' = payout
        /\ \A r \in Stakes \ {s} : status'[r] = status[r] /\ amount'[r] = amount[r]
    BY DEF Pending, TypeOK, Unpaid
  <2>5. status'[s] = "active"
    BY DEF TypeOK
  <2>6. Unpaid'
    BY <2>4, <2>5 DEF Unpaid
  <2>7. Won' = Won /\ Lost' = Lost /\ s \notin Won \cup Lost
    BY <2>4, <2>5 DEF Won, Lost
  <2>8. \A r \in Won \cup Lost : amount'[r] = amount[r]
    BY <2>4, <2>7 DEF Won, Lost
  <2>9. PayoutsCovered'
    BY <2>4, <2>7, <2>8, SettledAmountsStay
  <2> QED
    BY <2>2, <2>3, <2>6, <2>9, InsertKeepsFit
<1> QED
  BY <1>1, <1>2 DEF ConfigurePool, CheckStake, CheckIndexed, CheckedRequest

\* Calls, and the steps of a task that write no stakes.
LEMMA CallsLedger ==
  ASSUME LedgerInv, NEW t \in Tasks,
         \/ \E report \in Reports, w \in Sides \cup {NoSide} : ProviderReport(t, report, w)
         \/ \E w \in Sides : CallResolve(t, w)
         \/ LockMatch(t) \/ CommitEmpty(t) \/ Abort(t)
  PROVE  (Exact /\ NoCancellation /\ Unpaid /\ SharesFit /\ PayoutsCovered)'
<1>1. UNCHANGED stakes
  BY DEF ProviderReport, CallResolve, LockMatch, CommitEmpty, Abort
<1>2. Unpaid' /\ SharesFit' /\ PayoutsCovered'
  BY <1>1, SameStakesLedger
<1>3. ASSUME NEW r, task' = [task EXCEPT ![t] = r], r.pc \in {"idle", "lock", "total"}
      PROVE  (Exact /\ NoCancellation)'
  BY <1>1, <1>3, TaskKeepsLedger DEF TransactionSteps
<1>4. \A w : [Idle EXCEPT !.pc = "lock", !.want = w].pc = "lock" /\ Idle.pc = "idle"
  BY DEF Idle
<1>5. ASSUME NEW report \in Reports, NEW w \in Sides \cup {NoSide}, ProviderReport(t, report, w)
      PROVE  (Exact /\ NoCancellation)'
  <2>1. CASE UNCHANGED task
    <3>1. task' = [task EXCEPT ![t] = task[t]] /\ task[t].pc = "idle"
      BY <1>5, <2>1 DEF ProviderReport, LedgerInv, IInv, TypeOK
    <3> QED
      BY <1>3, <3>1
  <2>2. CASE task' = [task EXCEPT ![t] = [Idle EXCEPT !.pc = "lock", !.want = w]]
    BY <1>3, <1>4, <2>2
  <2> QED
    BY <1>5, <2>1, <2>2 DEF ProviderReport
<1>6. ASSUME NEW w \in Sides, CallResolve(t, w) PROVE (Exact /\ NoCancellation)'
  BY <1>3, <1>4, <1>6 DEF CallResolve
<1>7. CASE LockMatch(t)
  <2> DEFINE r == [task[t] EXCEPT !.pc = "total", !.seen = mStatus]
  <2>1. r.pc = "total" /\ task' = [task EXCEPT ![t] = r]
    BY <1>7, LockedType DEF LockMatch, TaskState, LedgerInv, IInv, TypeOK
  <2> QED
    BY <1>2, <1>3, <2>1
<1>8. CASE CommitEmpty(t) \/ Abort(t)
  <2>1. task' = [task EXCEPT ![t] = Idle]
    BY <1>8 DEF CommitEmpty, EndTransaction, Abort
  <2> QED
    BY <1>2, <1>3, <1>4, <2>1
<1> QED
  BY <1>2, <1>5, <1>6, <1>7, <1>8

LEMMA ReadsLedger ==
  ASSUME LedgerInv, NEW t \in Tasks, ReadTotal(t) \/ ReadWinnerPool(t) \/ ListWinners(t)
  PROVE  (Exact /\ NoCancellation /\ Unpaid /\ SharesFit /\ PayoutsCovered)'
<1>1. UNCHANGED stakes
  BY DEF ReadTotal, ReadWinnerPool, ListWinners
<1>2. task[t] \in TaskState /\ Unpaid' /\ SharesFit' /\ PayoutsCovered'
  BY <1>1, LockedType, SameStakesLedger DEF LedgerInv, IInv
<1>3. task[t].pc # "total" /\ task[t].pc \in TransactionSteps => task[t].total = PoolTotal
  BY DEF LedgerInv, Exact
<1>4. CASE ReadTotal(t) /\ AlreadyResolved(task[t].seen, PoolTotal)
  <2>1. task' = [task EXCEPT ![t] = Idle] /\ Idle.pc = "idle"
    BY <1>4 DEF ReadTotal, EndTransaction, Idle
  <2> QED
    BY <1>1, <1>2, <2>1, TaskKeepsLedger DEF TransactionSteps
<1>5. CASE ReadTotal(t) /\ ~AlreadyResolved(task[t].seen, PoolTotal)
  <2> DEFINE r == [task[t] EXCEPT !.pc = "winner_pool", !.total = PoolTotal]
  <2>1. r.pc = "winner_pool" /\ r.total = PoolTotal /\ task' = [task EXCEPT ![t] = r]
    BY <1>2, <1>5 DEF ReadTotal, TaskState, LedgerInv, IInv, TypeOK
  <2> HIDE DEF r
  <2>2. r.pc \notin {"close", "refund", "winners", "pay", "refund_stakes", "cancel_match"}
    BY <2>1
  <2> QED
    BY <1>1, <1>2, <2>1, <2>2, TaskKeepsLedger
<1>6. CASE ReadWinnerPool(t)
  <2> DEFINE wpool == PoolOf(task[t].want)
             next == IF task[t].total = 0 THEN "close"
                     ELSE IF wpool \in {0, task[t].total} THEN "refund" ELSE "winners"
             r == [task[t] EXCEPT !.pc = next, !.wpool = wpool]
  <2>1. task' = [task EXCEPT ![t] = r]
    BY <1>6 DEF ReadWinnerPool, LedgerInv, IInv, TypeOK
  <2>2. task[t].total = PoolTotal
    BY <1>3, <1>6 DEF ReadWinnerPool, TransactionSteps
  <2>3. /\ next \in {"close", "refund", "winners"}
        /\ next = "refund" => wpool \in {0, task[t].total}
        /\ next = "winners" => wpool \notin {0, task[t].total}
    OBVIOUS
  <2>4. wpool = PoolOf(task[t].want)
    OBVIOUS
  <2> HIDE DEF next, wpool
  <2>5. /\ r.pc = next /\ r.wpool = wpool /\ r.total = task[t].total
        /\ r.want = task[t].want
    BY <1>2 DEF TaskState
  <2> HIDE DEF r
  <2>6. r.wpool = PoolOf(r.want)
    BY <2>4, <2>5
  <2>7. /\ r.pc = "refund" => r.wpool \in {0, r.total}
        /\ r.pc \in {"winners", "pay"} => r.wpool \notin {0, r.total}
        /\ r.pc \notin {"pay", "refund_stakes", "cancel_match"}
    BY <2>3, <2>5
  <2> QED
    BY <1>1, <1>2, <2>1, <2>2, <2>5, <2>6, <2>7, TaskKeepsLedger
<1>7. CASE ListWinners(t)
  <2> DEFINE r == [task[t] EXCEPT !.pc = "pay", !.list = ActiveOn(task[t].want)]
  <2>1. /\ r.pc = "pay" /\ r.list = ActiveOn(task[t].want) /\ r.want = task[t].want
        /\ r.wpool = task[t].wpool /\ r.total = task[t].total
        /\ task' = [task EXCEPT ![t] = r]
    BY <1>2, <1>7 DEF ListWinners, TaskState, LedgerInv, IInv, TypeOK
  <2> HIDE DEF r
  <2>2. /\ task[t].pc = "winners" /\ task[t].wpool = PoolOf(task[t].want)
        /\ task[t].total = PoolTotal /\ task[t].wpool \notin {0, task[t].total}
    BY <1>3, <1>7 DEF ListWinners, LedgerInv, Exact, TransactionSteps
  <2>3. r.wpool = PoolOf(r.want) /\ r.list = ActiveOn(r.want) /\ r.total = PoolTotal
    BY <2>1, <2>2
  <2>4. r.pc \notin {"refund", "refund_stakes", "cancel_match"} /\ r.wpool \notin {0, r.total}
    BY <2>1, <2>2
  <2> QED
    BY <1>1, <1>2, <2>1, <2>3, <2>4, TaskKeepsLedger
<1> QED
  BY <1>4, <1>5, <1>6, <1>7

\* The pool that a settling transaction found is what it closes.
LEMMA FoundPool ==
  ASSUME LedgerInv, NEW t \in Tasks, task[t].pc \in {"refund", "winners", "pay"}
  PROVE  /\ lock = t /\ task[t].want \in Sides
         /\ task[t].total = PoolTotal /\ task[t].wpool = PoolOf(task[t].want)
         /\ PoolTotal \in Nat /\ PoolOf(task[t].want) \in Nat
         /\ PoolOf(task[t].want) <= PoolTotal
         /\ PoolTotal = SumOf(Active, amount)
         /\ PoolOf(task[t].want) = SumOf(ActiveOn(task[t].want), amount)
<1>1. lock = t /\ task[t].want \in Sides
  BY DEF LedgerInv, IInv, LockHeld, Pending, TransactionSteps
<1>2. task[t].total = PoolTotal /\ task[t].wpool = PoolOf(task[t].want)
  BY DEF LedgerInv, Exact, TransactionSteps
<1> QED
  BY <1>1, <1>2, ActiveFinite DEF LedgerInv, IInv

LEMMA RefundLedger ==
  ASSUME LedgerInv, NEW t \in Tasks, CommitRefund(t)
  PROVE  (Exact /\ NoCancellation /\ Unpaid /\ SharesFit /\ PayoutsCovered)'
<1> USE DEF CommitRefund
<1>1. lock = t
  BY FoundPool
<1>2. (Exact /\ NoCancellation)'
  BY <1>1, NobodyReads
<1>3. Won' = Won /\ Lost' = Lost
  BY DEF Won, Lost, Active
<1>4. PayoutsCovered'
  BY <1>3 DEF LedgerInv, PayoutsCovered
<1>5. /\ \A s \in Stakes : status[s] = "none" <=> status'[s] = "none"
      /\ \A s \in Stakes : status'[s] \in {"none", "active"} =>
                             status[s] = status'[s] /\ payout'[s] = payout[s]
  BY DEF Active
<1> QED
  BY <1>2, <1>4, <1>5, SameAmounts

\* The listed winners share at most the stakes that this settlement closes.
LEMMA PayoutsLedger ==
  ASSUME LedgerInv, NEW t \in Tasks, CommitPayouts(t)
  PROVE  (Exact /\ NoCancellation /\ Unpaid /\ SharesFit /\ PayoutsCovered)'
<1> USE MatchSettlementAssumption
<1> DEFINE w == task[t].want
<1>1. PICK L \in SUBSET Stakes : L = ActiveOn(w)
  BY DEF ActiveOn, Active
<1>2. PICK B \in SUBSET Stakes : B = Losers(w)
  BY DEF Losers, Active
<1>3. PICK T \in Nat : T = task[t].total
  BY FoundPool DEF CommitPayouts
<1>4. PICK W \in Nat \ {0} : W = task[t].wpool
  BY FoundPool DEF CommitPayouts, LedgerInv, Exact
<1>5. /\ lock = t /\ task[t].list = L /\ T = SumOf(Active, amount) /\ W = SumOf(L, amount)
  BY <1>1, <1>3, <1>4, FoundPool DEF CommitPayouts, LedgerInv, Exact
<1>6. L \cap B = {} /\ L \cup B = Active
  BY <1>1, <1>2 DEF ActiveOn, Losers
<1>7. /\ status' = [s \in Stakes |-> IF s \in L THEN "won" ELSE IF s \in B THEN "lost" ELSE status[s]]
      /\ payout' = [s \in Stakes |-> IF s \in L THEN (amount[s] * T) \div W
                                     ELSE IF s \in B THEN 0 ELSE payout[s]]
      /\ amount' = amount /\ EndTransaction(t)
  BY <1>2, <1>3, <1>4, <1>5 DEF CommitPayouts, Payout
<1> HIDE DEF w
<1>8. (Exact /\ NoCancellation)'
  BY <1>5, <1>7, NobodyReads
<1>9. \A s \in L \cup B : status[s] = "active"
  BY <1>6 DEF Active
<1>10. Unpaid' /\ SharesFit'
  <2>1. \A s \in Stakes : status[s] = "none" <=> status'[s] = "none"
    BY <1>7, <1>9
  <2>2. \A s \in Stakes : status'[s] \in {"none", "active"} =>
                            status[s] = status'[s] /\ payout'[s] = payout[s]
    BY <1>7
  <2> QED
    BY <1>7, <2>1, <2>2, SameAmounts
<1>11. \A s \in Stakes : amount[s] \in Nat /\ payout[s] \in Nat /\ payout'[s] \in Nat
  <2>1. \A s \in Stakes : amount[s] \in Nat /\ payout[s] \in Nat
    BY AmountsNatural DEF LedgerInv, IInv, TypeOK
  <2>2. \A s \in Stakes : (amount[s] * T) \div W \in Nat
    BY <2>1, SharesAreNatural
  <2> QED
    BY <1>7, <2>1, <2>2
<1>12. PICK V \in SUBSET Stakes : V = Won
  BY DEF Won
<1>13. PICK D \in SUBSET Stakes : D = Lost
  BY DEF Lost
<1>14. V \cap (L \cup B) = {} /\ (V \cup D) \cap (L \cup B) = {} /\ V \cap L = {}
  BY <1>9, <1>12, <1>13 DEF Won, Lost
<1>15. Won' = V \cup L /\ Lost' = D \cup B
  BY <1>6, <1>7, <1>9, <1>12, <1>13, <1>14 DEF Won, Lost
<1>16. /\ IsFiniteSet(V) /\ IsFiniteSet(L) /\ IsFiniteSet(V \cup D) /\ IsFiniteSet(L \cup B)
  <2>1. V \cup D \in SUBSET Stakes /\ L \cup B \in SUBSET Stakes
    OBVIOUS
  <2> QED
    BY <2>1, FS_Subset
<1>17. SumOf(V \cup L, payout') = SumOf(V, payout') + SumOf(L, payout')
  BY <1>11, <1>14, <1>16, SumUnion
<1>18. SumOf(V, payout') = SumOf(V, payout)
  <2>1. \A s \in V : payout'[s] = payout[s]
    BY <1>7, <1>14
  <2> QED
    BY <2>1, SumSame
<1>19. SumOf(L, payout') = SumOf(L, ShareOf(T, W))
  <2>1. \A s \in L : payout'[s] = ShareOf(T, W)[s]
    BY <1>7 DEF ShareOf
  <2> QED
    BY <2>1, SumSame
<1>20. SumOf(L, ShareOf(T, W)) \in Nat /\ SumOf(V, payout) \in Nat /\ SumOf(V \cup D, amount) \in Nat
  <2>1. \A s \in Stakes : ShareOf(T, W)[s] \in Nat
    BY <1>11, SharesAreNatural DEF ShareOf
  <2> QED
    BY <1>11, <1>16, <2>1, SumType
<1>21. SumOf(L, ShareOf(T, W)) <= T
  <2>1. W * SumOf(L, ShareOf(T, W)) <= T * W
    BY <1>5 DEF LedgerInv, SharesFit
  <2>2. PICK z \in Nat : z = SumOf(L, ShareOf(T, W))
    BY <1>20
  <2>3. W * z <= T * W => z <= T
    <3>1. \A b, c \in Nat : b + 1 <= c => W * (b + 1) <= W * c
      OBVIOUS
    <3>2. T + 1 <= z => W * (T + 1) <= W * z
      BY <3>1
    <3>3. W * (T + 1) = T * W + W /\ T * W \in Nat /\ W * z \in Nat
      BY Product
    <3> QED
      BY <3>2, <3>3
  <2> QED
    BY <2>1, <2>2, <2>3
<1>22. SumOf(V \cup D \cup (L \cup B), amount') = SumOf(V \cup D, amount) + T
  <2>1. SumOf((V \cup D) \cup (L \cup B), amount) = SumOf(V \cup D, amount) + SumOf(L \cup B, amount)
    BY <1>11, <1>14, <1>16, SumUnion
  <2>2. SumOf(L \cup B, amount) = SumOf(Active, amount)
    BY <1>6, Zenon
  <2> QED
    BY <1>5, <1>7, <2>1, <2>2
<1>23. SumOf(V, payout) <= SumOf(V \cup D, amount)
  BY <1>12, <1>13 DEF LedgerInv, PayoutsCovered
<1>24. SumOf(V \cup L, payout') <= SumOf(V \cup D \cup (L \cup B), amount')
  BY <1>3, <1>17, <1>18, <1>19, <1>20, <1>21, <1>22, <1>23
<1>25. V \cup D \cup (L \cup B) = (V \cup L) \cup (D \cup B)
  OBVIOUS
<1>26. SumOf(V \cup L, payout') <= SumOf((V \cup L) \cup (D \cup B), amount')
  BY <1>24, <1>25, Zenon
<1>27. PayoutsCovered'
  BY <1>15, <1>26, Zenon DEF PayoutsCovered
<1> QED
  BY <1>8, <1>10, <1>27

\* The ledger sums as the settlement does.
LEMMA SameSums == \A S, w : Ledger!SumOf(S, w) = SumOf(S, w)
<1>1. \A T : Ledger!Cardinality(T) = Cardinality(T)
  BY Zenon DEF Cardinality, Ledger!Cardinality
<1> QED
  BY <1>1 DEF Ledger!SumOf, Ledger!Units, SumOf, Units

\* Every step that changes stakes is a step of the ledger.
LEMMA StepsMap ==
  ASSUME LedgerInv, NoCancellation, Cancellers = {}, [Next]_vars
  PROVE  [Ledger!Next]_<<status, side, amount, payout>>
<1> USE MatchSettlementAssumption
<1>1. ASSUME NEW s \in Stakes, InsertStake(s) PROVE Ledger!Next
  <2>1. /\ status[s] = "none" /\ status' = [status EXCEPT ![s] = "active"]
        /\ payout' = payout /\ side' = [side EXCEPT ![s] = request[s].side]
    BY <1>1 DEF InsertStake, LedgerInv, IInv, Pending
  <2>2. request[s].side \in Sides /\ request[s].amount \in Nat /\ request[s].amount > 0
    <3>1. request \in [Stakes -> [side : Sides, amount : Amounts] \cup {NoRequest}]
      BY DEF LedgerInv, IInv, TypeOK
    <3>2. request[s] \in [side : Sides, amount : Amounts] \cup {NoRequest}
      BY <3>1
    <3>3. request[s] # NoRequest
      BY <1>1 DEF InsertStake
    <3>4. request[s] \in [side : Sides, amount : Amounts]
      BY <3>2, <3>3
    <3>5. request[s].side \in Sides /\ request[s].amount \in Amounts
      BY <3>4
    <3>6. \A a \in Amounts : a \in Nat /\ a > 0
      BY MatchSettlementAssumption
    <3> QED
      BY <3>5, <3>6
  <2>3. amount' = [amount EXCEPT ![s] = amount'[s]] /\ amount'[s] > 0
    BY <1>1, <2>2 DEF InsertStake, LedgerInv, IInv, TypeOK
  <2>4. Ledger!Place(s, request[s].side)
    BY <2>1, <2>3 DEF Ledger!Place
  <2> QED
    BY <2>2, <2>4 DEF Ledger!Next
<1>2. ASSUME NEW t \in Tasks, CommitRefund(t) PROVE Ledger!Next
  <2> DEFINE w == task[t].want
  <2>1. /\ w \in Sides /\ PoolOf(w) \in {0, PoolTotal}
        /\ PoolTotal = SumOf(Active, amount) /\ PoolOf(w) = SumOf(ActiveOn(w), amount)
    BY <1>2, FoundPool DEF CommitRefund, LedgerInv, Exact
  <2> HIDE DEF w
  <2>2. Ledger!Open = Active /\ Ledger!Backers(w) = ActiveOn(w)
    BY DEF Ledger!Open, Ledger!Backers, Active, ActiveOn
  <2>3. Ledger!WinnerPool(w) = PoolOf(w) /\ Ledger!Pool = PoolTotal
    <3>1. SumOf(Ledger!Open, amount) = SumOf(Active, amount)
      BY <2>2, Zenon
    <3>2. SumOf(Ledger!Backers(w), amount) = SumOf(ActiveOn(w), amount)
      BY <2>2, Zenon
    <3> QED
      BY <2>1, <3>1, <3>2, SameSums DEF Ledger!WinnerPool, Ledger!Pool
  <2>4. Ledger!RefundUnmatched(w)
    BY <1>2, <2>1, <2>2, <2>3 DEF CommitRefund, Ledger!RefundUnmatched
  <2> QED
    BY <2>1, <2>4 DEF Ledger!Next
<1>3. ASSUME NEW t \in Tasks, CommitPayouts(t) PROVE Ledger!Next
  <2> DEFINE w == task[t].want
  <2>1. /\ w \in Sides /\ PoolOf(w) \notin {0, PoolTotal}
        /\ PoolOf(w) \in Nat /\ PoolTotal \in Nat /\ PoolOf(w) <= PoolTotal
        /\ PoolTotal = SumOf(Active, amount) /\ PoolOf(w) = SumOf(ActiveOn(w), amount)
        /\ task[t].total = PoolTotal /\ task[t].wpool = PoolOf(w)
        /\ task[t].list = ActiveOn(w)
    BY <1>3, FoundPool DEF CommitPayouts, LedgerInv, Exact
  <2>2. /\ status' = [s \in Stakes |-> IF s \in task[t].list THEN "won"
                                       ELSE IF s \in Losers(w) THEN "lost"
                                       ELSE status[s]]
        /\ payout' = [s \in Stakes |-> IF s \in task[t].list
                                       THEN Payout(s, task[t].total, task[t].wpool)
                                       ELSE IF s \in Losers(w) THEN 0
                                       ELSE payout[s]]
        /\ UNCHANGED <<side, amount>>
    BY <1>3 DEF CommitPayouts
  <2> HIDE DEF w
  <2>3. Ledger!Open = Active /\ Ledger!Backers(w) = ActiveOn(w)
    BY DEF Ledger!Open, Ledger!Backers, Active, ActiveOn
  <2>4. Ledger!WinnerPool(w) = PoolOf(w) /\ Ledger!Pool = PoolTotal
    <3>1. SumOf(Ledger!Open, amount) = SumOf(Active, amount)
      BY <2>3, Zenon
    <3>2. SumOf(Ledger!Backers(w), amount) = SumOf(ActiveOn(w), amount)
      BY <2>3, Zenon
    <3> QED
      BY <2>1, <3>1, <3>2, SameSums DEF Ledger!WinnerPool, Ledger!Pool
  <2>5. \A s \in Stakes : s \in Losers(w) <=> s \in Active /\ s \notin ActiveOn(w)
    BY DEF Losers, Active, ActiveOn
  <2>6. \A s \in Stakes : s \in Losers(w) => payout[s] = 0
    BY DEF Losers, Active, LedgerInv, Unpaid
  <2>7. status' = [s \in Stakes |-> IF s \in Ledger!Backers(w) THEN "won"
                                    ELSE IF s \in Ledger!Open THEN "lost"
                                    ELSE status[s]]
    BY <2>1, <2>2, <2>3, <2>5
  <2>8. payout' = [s \in Stakes |-> IF s \in Ledger!Backers(w)
                                    THEN (amount[s] * Ledger!Pool) \div Ledger!WinnerPool(w)
                                    ELSE payout[s]]
    <3>1. \A s : Payout(s, task[t].total, task[t].wpool) = (amount[s] * Ledger!Pool) \div Ledger!WinnerPool(w)
      BY <2>1, <2>4 DEF Payout
    <3> QED
      BY <2>1, <2>2, <2>3, <2>6, <3>1
  <2>9. 0 < Ledger!WinnerPool(w) /\ Ledger!WinnerPool(w) < Ledger!Pool
    BY <2>1, <2>4
  <2>10. Ledger!PayWinners(w)
    BY <2>2, <2>7, <2>8, <2>9 DEF Ledger!PayWinners
  <2> QED
    BY <2>1, <2>10 DEF Ledger!Next
<1>4. ASSUME NEW t \in Tasks, Cancellation(t) \/ ListRefunds(t) PROVE FALSE
  BY <1>4 DEF Cancellation, RefundStakes, CancelMatch, ListRefunds, NoCancellation
<1>5. ASSUME NEW t \in Tasks,
             LockMatch(t) \/ ReadTotal(t) \/ ReadWinnerPool(t) \/ CommitEmpty(t)
               \/ ListWinners(t) \/ Abort(t)
      PROVE  UNCHANGED stakes
  BY <1>5 DEF LockMatch, ReadTotal, ReadWinnerPool, CommitEmpty, ListWinners, Abort
<1>6. ASSUME NEW t \in Tasks, NEW w \in Sides, CallResolve(t, w) PROVE UNCHANGED stakes
  BY <1>6 DEF CallResolve
<1>7. ASSUME NEW t \in Tasks, NEW report \in Reports, NEW w \in Sides \cup {NoSide},
             ProviderReport(t, report, w)
      PROVE  UNCHANGED stakes
  BY <1>7 DEF ProviderReport
<1>8. ASSUME \/ ConfigurePool
             \/ \E s \in Stakes, d \in Sides, a \in Amounts :
                  CheckStake(s, d, a) \/ CheckIndexed(s, d, a)
             \/ UNCHANGED vars
      PROVE  UNCHANGED stakes
  BY <1>8 DEF ConfigurePool, CheckStake, CheckIndexed, CheckedRequest, vars
<1>9. Ledger!Next \/ UNCHANGED stakes
  BY <1>1, <1>2, <1>3, <1>4, <1>5, <1>6, <1>7, <1>8 DEF Next, Transaction
<1> QED
  BY <1>9 DEF stakes

LEMMA NextKeepsLedger ==
  ASSUME LedgerInv, Cancellers = {}, [Next]_vars
  PROVE  LedgerInv'
<1>1. IInv'
  BY NextKeepsIInv DEF LedgerInv
<1>2. ASSUME NEW t \in Tasks PROVE ~Cancellation(t) /\ ~ListRefunds(t)
  BY DEF Cancellation, RefundStakes, CancelMatch, ListRefunds, LedgerInv, NoCancellation
<1>3. CASE UNCHANGED vars
  <2>1. UNCHANGED <<stakes, task>>
    BY <1>3 DEF vars
  <2> QED
    BY <1>1, <2>1, StillLedger DEF LedgerInv
<1>4. CASE Next
  <2>1. (Exact /\ NoCancellation /\ Unpaid /\ SharesFit /\ PayoutsCovered)'
    <3>1. ASSUME NEW t \in Tasks, Transaction(t) \/ Abort(t)
          PROVE  (Exact /\ NoCancellation /\ Unpaid /\ SharesFit /\ PayoutsCovered)'
      BY <3>1, CallsLedger, ReadsLedger, RefundLedger, PayoutsLedger DEF Transaction
    <3> QED
      BY <1>2, <1>4, <3>1, StakesLedger, CallsLedger DEF Next
  <2> QED
    BY <1>1, <2>1 DEF LedgerInv
<1> QED
  BY <1>3, <1>4

LEMMA InitLedgerInv == Init => LedgerInv /\ Ledger!Init
<1> SUFFICES ASSUME Init PROVE LedgerInv /\ Ledger!Init
  OBVIOUS
<1> USE MatchSettlementAssumption DEF Init
<1>1. \A t \in Tasks : task[t].pc = "idle"
  BY DEF Idle
<1>2. Exact /\ NoCancellation /\ Unpaid
  BY <1>1 DEF Exact, NoCancellation, Unpaid, TransactionSteps
<1>3. SharesFit
  <2> SUFFICES ASSUME NEW S \in SUBSET Stakes, NEW t \in Nat, NEW w \in Nat \ {0}
               PROVE  w * SumOf(S, ShareOf(t, w)) <= t * SumOf(S, amount)
    BY DEF SharesFit
  <2>1. (0 * t) \div w = 0
    OBVIOUS
  <2>2. \A s \in S : ShareOf(t, w)[s] = 0 /\ amount[s] = 0
    BY <2>1 DEF ShareOf
  <2>3. SumOf(S, ShareOf(t, w)) = 0 /\ SumOf(S, amount) = 0
    BY <2>2, SumZero
  <2> QED
    BY <2>3
<1>4. PayoutsCovered
  <2>1. Won = {} /\ Won \cup Lost = {}
    BY DEF Won, Lost
  <2>2. SumOf(Won, payout) = 0
    BY <2>1, SumEmpty, Zenon
  <2>3. SumOf(Won \cup Lost, amount) = 0
    BY <2>1, SumEmpty, Zenon
  <2> QED
    BY <2>2, <2>3 DEF PayoutsCovered
<1>5. Ledger!Init
  BY DEF Ledger!Init
<1> QED
  BY <1>2, <1>3, <1>4, <1>5, InitIInv DEF LedgerInv

\* Over however many settlements late stakes cause, no more is paid to winners
\* than the settled stakes held, where no task cancels the match.
THEOREM PayoutsAreCovered == Cancellers = {} => (Spec => []PayoutsCovered)
<1> SUFFICES ASSUME Cancellers = {} PROVE Spec => []PayoutsCovered
  OBVIOUS
<1>1. Init => LedgerInv
  BY InitLedgerInv
<1>2. LedgerInv /\ [Next]_vars => LedgerInv'
  BY NextKeepsLedger
<1>3. LedgerInv => PayoutsCovered
  BY DEF LedgerInv
<1> QED
  BY <1>1, <1>2, <1>3, PTL DEF Spec

\* The seven statements of resolve_match, with stakes, reports and failures
\* between them, settle as BetLedger does in one step.
THEOREM SettlementIsAtomic == Cancellers = {} => (Spec => ImplementsLedger)
<1> SUFFICES ASSUME Cancellers = {} PROVE Spec => ImplementsLedger
  OBVIOUS
<1>1. Init => LedgerInv /\ Ledger!Init
  BY InitLedgerInv
<1>2. LedgerInv /\ [Next]_vars => LedgerInv'
  BY NextKeepsLedger
<1>3. LedgerInv /\ [Next]_vars => [Ledger!Next]_<<status, side, amount, payout>>
  BY StepsMap DEF LedgerInv
<1>4. Ledger!vars = <<status, side, amount, payout>>
  BY DEF Ledger!vars
<1> QED
  BY <1>1, <1>2, <1>3, <1>4, PTL DEF Spec, ImplementsLedger, Ledger!Spec, Ledger!vars
=============================================================================
