-------------------------- MODULE MatchSettlement ---------------------------
(***************************************************************************)
(* One row of table matches and its pool_stakes rows, as db.rs and         *)
(* handlers/tournament.rs change them from concurrent requests and         *)
(* workers: stakes are placed or indexed, providers report, and tasks      *)
(* resolve or cancel the match.                                            *)
(*                                                                         *)
(* resolve_match is one READ COMMITTED transaction, so each statement      *)
(* before its first write is a step of its own that reads the rows of that *)
(* moment.  SELECT ... FOR UPDATE locks the match row against another      *)
(* resolve_match, against every UPDATE of the row, and against inserts of  *)
(* stakes, whose foreign key takes a key-share lock on it.  It does not    *)
(* lock the stake rows: cancel_match, three statements that each commit on *)
(* their own, may update them meanwhile.  Once the transaction has written *)
(* a stake, a concurrent update of stakes waits for its commit or is       *)
(* aborted as a deadlock, so its writes and its commit are one step.       *)
(***************************************************************************)
EXTENDS Integers, FiniteSets, UnitSum

CONSTANTS
  Stakes,      \* stake rows that may come to exist
  Sides,       \* the opponents of the match
  NoSide,      \* not a side
  Amounts,     \* stake sizes the inputs are drawn from
  Tasks,       \* request handlers and workers that resolve or cancel
  Cancellers,  \* the tasks that may call cancel_match
  NoTask,      \* not a task
  MaxAborts    \* how many statements may fail

ASSUME MatchSettlementAssumption ==
  /\ NoSide \notin Sides
  /\ NoTask \notin Tasks
  /\ Cancellers \subseteq Tasks
  /\ Amounts \subseteq Nat \ {0}
  /\ MaxAborts \in Nat
  /\ IsFiniteSet(Stakes)

VARIABLES
  mStatus,  \* matches.status
  poolSet,  \* matches.sui_pool_object_id IS NOT NULL
  winner,   \* the opponent with is_winner, or NoSide
  request,  \* per stake: what a stake request that passed its checks will insert
  status,   \* pool_stakes.status, "none" before the row exists
  side,     \* pool_stakes.opponent_id
  amount,   \* pool_stakes.amount_usdc
  payout,   \* pool_stakes.payout_usdc, 0 for NULL
  lock,     \* the transaction that holds the match row FOR UPDATE
  task,     \* per task: its next statement and what it has read
  aborts    \* statements that failed so far

match == <<mStatus, poolSet, winner>>
stakes == <<status, side, amount, payout>>
vars == <<match, request, stakes, lock, task, aborts>>

MatchStatus == {"upcoming", "live", "completed", "cancelled", "refunded"}
StakeStatus == {"none", "active", "won", "lost", "refunded"}
Reports == {"not_started", "running", "finished", "canceled", "postponed"}
NoRequest == [side |-> NoSide, amount |-> 0]
Idle == [pc |-> "idle", want |-> NoSide, seen |-> "upcoming",
         total |-> 0, wpool |-> 0, list |-> {}]
TaskState ==
  [pc : {"idle", "lock", "total", "winner_pool", "close", "refund", "winners",
         "pay", "refund_stakes", "cancel_match"},
   want : Sides \cup {NoSide}, seen : MatchStatus,
   total : Nat, wpool : Nat, list : SUBSET Stakes]

Init ==
  /\ mStatus = "upcoming"
  /\ poolSet = FALSE
  /\ winner = NoSide
  /\ request = [s \in Stakes |-> NoRequest]
  /\ status = [s \in Stakes |-> "none"]
  /\ side = [s \in Stakes |-> NoSide]
  /\ amount = [s \in Stakes |-> 0]
  /\ payout = [s \in Stakes |-> 0]
  /\ lock = NoTask
  /\ task = [t \in Tasks |-> Idle]
  /\ aborts = 0

-----------------------------------------------------------------------------
(* The WHERE clauses and expressions of the statements.  Each is preceded  *)
(* by the faulty form that the properties must tell from it.               *)

\* A variant that forgets status = 'active' in the sums of the pool.
InPoolFaulty(s) == status[s] # "none"
InPool(s) == status[s] = "active"

Active == {s \in Stakes : status[s] = "active"}
ActiveOn(w) == {s \in Active : side[s] = w}
PoolTotal == SumOf({s \in Stakes : InPool(s)}, amount)
PoolOf(w) == SumOf({s \in Stakes : InPool(s) /\ side[s] = w}, amount)

\* A variant whose FOR UPDATE is missing: nobody waits for the row.
RowFreeFaulty == TRUE
RowFree == lock = NoTask

\* upsert_match: our status for the provider's.
ProviderStatus(report) ==
  CASE report = "running" -> "live"
    [] report = "finished" -> "completed"
    [] report = "canceled" -> "cancelled"
    [] OTHER -> "upcoming"

\* A variant that takes the mere status for a finished settlement.
AlreadyResolvedFaulty(seen, total) == seen = "completed"
AlreadyResolved(seen, total) == seen = "completed" /\ total = 0

\* A variant that pays only the losers' stakes.
PayoutOfLosers(s, total, wpool) == (amount[s] * (total - wpool)) \div wpool
Payout(s, total, wpool) == (amount[s] * total) \div wpool

\* A variant that forgets status = 'active' when it marks the losers.
LosersFaulty(w) == {s \in Stakes : status[s] # "none" /\ side[s] # w}
Losers(w) == {s \in Active : side[s] # w}

-----------------------------------------------------------------------------
(* Stakes and provider reports.                                            *)

\* configure_match_pool.
ConfigurePool ==
  /\ ~poolSet /\ RowFree
  /\ poolSet' = TRUE
  /\ UNCHANGED <<mStatus, winner, request, stakes, lock, task, aborts>>

CheckedRequest(s, d, a) ==
  /\ poolSet
  /\ status[s] = "none" /\ request[s] = NoRequest
  /\ request' = [request EXCEPT ![s] = [side |-> d, amount |-> a]]
  /\ UNCHANGED <<match, stakes, lock, task, aborts>>

\* place_stake up to its last read: the match must be accepting stakes.
CheckStake(s, d, a) ==
  /\ mStatus \in {"upcoming", "live"}
  /\ CheckedRequest(s, d, a)

\* run_stake_sync up to the insert of one event: no status is looked at.
CheckIndexed(s, d, a) == CheckedRequest(s, d, a)

\* The INSERT of place_stake and of record_indexed_pool_stake.
InsertStake(s) ==
  /\ request[s] # NoRequest /\ RowFree
  /\ status' = [status EXCEPT ![s] = "active"]
  /\ side' = [side EXCEPT ![s] = request[s].side]
  /\ amount' = [amount EXCEPT ![s] = request[s].amount]
  /\ request' = [request EXCEPT ![s] = NoRequest]
  /\ UNCHANGED <<match, payout, lock, task, aborts>>

\* upsert_match, then resolve_finished_provider_match when the match is
\* finished and its winner w known (w = NoSide: no winner, or not one of ours).
ProviderReport(t, report, w) ==
  /\ task[t].pc = "idle" /\ RowFree
  /\ mStatus' = IF mStatus \in {"completed", "cancelled"} THEN mStatus
                ELSE ProviderStatus(report)
  /\ task' = IF report = "finished" /\ w # NoSide
             THEN [task EXCEPT ![t] = [Idle EXCEPT !.pc = "lock", !.want = w]]
             ELSE task
  /\ UNCHANGED <<poolSet, winner, request, stakes, lock, aborts>>

-----------------------------------------------------------------------------
(* resolve_match.                                                          *)

\* resolve_tournament, and approval of an outcome proposal.
CallResolve(t, w) ==
  /\ task[t].pc = "idle"
  /\ task' = [task EXCEPT ![t] = [Idle EXCEPT !.pc = "lock", !.want = w]]
  /\ UNCHANGED <<match, request, stakes, lock, aborts>>

\* SELECT * FROM matches ... FOR UPDATE.
LockMatch(t) ==
  /\ task[t].pc = "lock" /\ RowFree
  /\ lock' = t
  /\ task' = [task EXCEPT ![t].pc = "total", ![t].seen = mStatus]
  /\ UNCHANGED <<match, request, stakes, aborts>>

EndTransaction(t) ==
  /\ lock' = NoTask
  /\ task' = [task EXCEPT ![t] = Idle]

ReadTotal(t) ==
  /\ task[t].pc = "total"
  /\ IF AlreadyResolved(task[t].seen, PoolTotal)
     THEN EndTransaction(t)
     ELSE /\ task' = [task EXCEPT ![t].pc = "winner_pool", ![t].total = PoolTotal]
          /\ UNCHANGED lock
  /\ UNCHANGED <<match, request, stakes, aborts>>

ReadWinnerPool(t) ==
  /\ task[t].pc = "winner_pool"
  /\ LET wpool == PoolOf(task[t].want)
         next == IF task[t].total = 0 THEN "close"
                 ELSE IF wpool \in {0, task[t].total} THEN "refund" ELSE "winners"
     IN  task' = [task EXCEPT ![t].pc = next, ![t].wpool = wpool]
  /\ UNCHANGED <<match, request, stakes, lock, aborts>>

\* ResolveResult::Empty.
CommitEmpty(t) ==
  /\ task[t].pc = "close"
  /\ mStatus' = "completed"
  /\ EndTransaction(t)
  /\ UNCHANGED <<poolSet, winner, request, stakes, aborts>>

\* ResolveResult::Refunded: everybody or nobody backed the winner.
CommitRefund(t) ==
  /\ task[t].pc = "refund"
  /\ status' = [s \in Stakes |-> IF s \in Active THEN "refunded" ELSE status[s]]
  /\ mStatus' = "refunded"
  /\ EndTransaction(t)
  /\ UNCHANGED <<poolSet, winner, request, side, amount, payout, aborts>>

ListWinners(t) ==
  /\ task[t].pc = "winners"
  /\ task' = [task EXCEPT ![t].pc = "pay", ![t].list = ActiveOn(task[t].want)]
  /\ UNCHANGED <<match, request, stakes, lock, aborts>>

\* ResolveResult::Resolved: the listed rows are updated by id, whatever
\* their status has become; the losers are those still active.
CommitPayouts(t) ==
  /\ task[t].pc = "pay"
  /\ LET me == task[t] IN
       /\ status' = [s \in Stakes |-> IF s \in me.list THEN "won"
                                      ELSE IF s \in Losers(me.want) THEN "lost"
                                      ELSE status[s]]
       /\ payout' = [s \in Stakes |-> IF s \in me.list
                                      THEN Payout(s, me.total, me.wpool)
                                      ELSE IF s \in Losers(me.want) THEN 0
                                      ELSE payout[s]]
       /\ winner' = me.want
  /\ mStatus' = "completed"
  /\ EndTransaction(t)
  /\ UNCHANGED <<poolSet, request, side, amount, aborts>>

-----------------------------------------------------------------------------
(* cancel_match.                                                           *)

ListRefunds(t) ==
  /\ t \in Cancellers /\ task[t].pc = "idle"
  /\ task' = [task EXCEPT ![t].pc = "refund_stakes", ![t].list = Active]
  /\ UNCHANGED <<match, request, stakes, lock, aborts>>

RefundStakes(t) ==
  /\ task[t].pc = "refund_stakes"
  /\ status' = [s \in Stakes |-> IF s \in Active THEN "refunded" ELSE status[s]]
  /\ task' = [task EXCEPT ![t].pc = "cancel_match"]
  /\ UNCHANGED <<match, request, side, amount, payout, lock, aborts>>

CancelMatch(t) ==
  /\ task[t].pc = "cancel_match" /\ RowFree
  /\ mStatus' = "cancelled"
  /\ task' = [task EXCEPT ![t] = Idle]
  /\ UNCHANGED <<poolSet, winner, request, stakes, lock, aborts>>

\* A statement fails: `?` returns from the handler, dropping the transaction
\* rolls it back, and what cancel_match committed stays.
Abort(t) ==
  /\ task[t].pc # "idle" /\ aborts < MaxAborts
  /\ aborts' = aborts + 1
  /\ task' = [task EXCEPT ![t] = Idle]
  /\ lock' = IF lock = t THEN NoTask ELSE lock
  /\ UNCHANGED <<match, request, stakes>>

-----------------------------------------------------------------------------
Transaction(t) ==
  \/ LockMatch(t) \/ ReadTotal(t) \/ ReadWinnerPool(t)
  \/ CommitEmpty(t) \/ CommitRefund(t) \/ ListWinners(t) \/ CommitPayouts(t)

Cancellation(t) == RefundStakes(t) \/ CancelMatch(t)

Next ==
  \/ ConfigurePool
  \/ \E s \in Stakes, d \in Sides, a \in Amounts :
       CheckStake(s, d, a) \/ CheckIndexed(s, d, a)
  \/ \E s \in Stakes : InsertStake(s)
  \/ \E t \in Tasks, report \in Reports, w \in Sides \cup {NoSide} :
       ProviderReport(t, report, w)
  \/ \E t \in Tasks, w \in Sides : CallResolve(t, w)
  \/ \E t \in Tasks : \/ Transaction(t)
                      \/ ListRefunds(t)
                      \/ Cancellation(t)
                      \/ Abort(t)

Spec == Init /\ [][Next]_vars

\* A statement sent to the database runs once the lock it waits for is
\* released; the sync workers poll for ever, and what a provider has once
\* decided about a match it keeps reporting.
TaskFairness == \A t \in Tasks : SF_vars(Transaction(t)) /\ SF_vars(Cancellation(t))
Reported(report, winners) ==
  SF_vars(\E t \in Tasks, w \in winners : ProviderReport(t, report, w))

FairSpec == Spec /\ TaskFairness /\ Reported("finished", Sides)

-----------------------------------------------------------------------------
\* Rows hold only values of the schema; a task that read sums holds naturals.
TypeOK ==
  /\ mStatus \in MatchStatus
  /\ poolSet \in BOOLEAN
  /\ winner \in Sides \cup {NoSide}
  /\ request \in [Stakes -> [side : Sides, amount : Amounts] \cup {NoRequest}]
  /\ status \in [Stakes -> StakeStatus]
  /\ side \in [Stakes -> Sides \cup {NoSide}]
  /\ amount \in [Stakes -> Amounts \cup {0}]
  /\ payout \in [Stakes -> Nat]
  /\ lock \in Tasks \cup {NoTask}
  /\ task \in [Tasks -> TaskState]
  /\ aborts \in 0 .. MaxAborts

Won == {s \in Stakes : status[s] = "won"}
Lost == {s \in Stakes : status[s] = "lost"}

\* resolve_match never records more winnings than were staked by the winners
\* and losers together, over however many settlements late stakes cause.
PayoutsCovered == SumOf(Won, payout) <= SumOf(Won \cup Lost, amount)

\* A winning stake is recorded with at least what was staked on it: the sums
\* a payout is computed from never mix two moments of the pool to its loss.
WinnersNeverLose == \A s \in Won : payout[s] >= amount[s]

\* Once resolve_match or cancel_match has settled a stake, no later
\* settlement, report or cancellation reopens it, takes its winnings away or
\* turns a refund into a loss.
SettledStaysSettled ==
  [][\A s \in Stakes :
       /\ status[s] \in {"won", "lost"} => status'[s] = status[s]
       /\ status[s] = "refunded" => status'[s] \in {"refunded", "won"}]_vars

\* Without cancellations the statements of place_stake, record_indexed_pool_stake
\* and resolve_match implement the ledger: a settlement takes effect as if at
\* once, on exactly the stakes active at that moment.
Ledger == INSTANCE BetLedger
ImplementsLedger == Ledger!Spec

\* No stake stays open for ever, however tasks interleave and fail.
EveryStakeSettles ==
  \A s \in Stakes : status[s] = "active" ~> status[s] # "active"

=============================================================================
