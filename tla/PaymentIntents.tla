--------------------------- MODULE PaymentIntents ---------------------------
(***************************************************************************)
(* Payment intents (handlers/payment.rs): the rows of payment_intents that *)
(* one wallet creates to stake on one match, the wallet's USDC balance     *)
(* that every request reads anew, and what the client does with the        *)
(* answers: it pays onramp sessions and sends staking transactions, in its *)
(* own time, while the balance changes under it.                           *)
(*                                                                         *)
(* Amounts are in USDC.  The statuses submitted, completed, cancelled and  *)
(* expired, which the schema allows, are set by no statement.              *)
(***************************************************************************)
EXTENDS Integers

CONSTANTS
  Intents,     \* ids of intents
  Requests,    \* requests that may be under way at the same time
  Amounts,     \* amounts that clients ask to stake, the minimum is 1
  Reserves,    \* reserve_balance_usdc of a request
  MaxBalance,  \* what the wallet may hold
  MaxI64       \* the largest i64

ASSUME PaymentAssumption ==
  /\ Amounts \subseteq 1..MaxI64 /\ Reserves \subseteq 0..MaxI64
  /\ MaxBalance \in 0..MaxI64 /\ MaxI64 \in Nat

VARIABLES
  balance,   \* chain: the wallet's USDC
  accepting, \* the match is upcoming or live
  poolSet,   \* matches.sui_pool_object_id is set
  intent,    \* table payment_intents
  request,   \* per request: its next statement and what it has read
  plan,      \* the staking transaction the client has fetched
  session,   \* the onramp session the client has opened
  told       \* per intent: what the user was last told of it

match == <<accepting, poolSet>>
client == <<plan, session>>
vars == <<balance, match, intent, request, client, told>>

Statuses == {"requires_funding", "ready_to_stake"}

\* PaymentIntentRecord, with the columns that decisions depend on.
PaymentIntentRecord ==
  [amount : Amounts, reserve : Reserves, status : Statuses]
NoIntent == [status |-> "none"]

Idle == [pc |-> "idle"]

\* CreatePaymentIntentRequest after its checks, and the requests on a row; a
\* poll keeps the status that it found.
CreatePaymentIntentRequest ==
  [kind : {"create"}, intent : Intents, amount : Amounts, reserve : Reserves]
RowRequest ==
  [kind : {"get"}, intent : Intents, previous : Statuses]
  \cup [kind : {"onramp", "ptb"}, intent : Intents]

\* What a request has learned of the balance: PaymentIntentFunding.  fresh is
\* history: nothing has left the wallet since.
PaymentIntentFunding == [shortfall : 0..MaxI64, fresh : BOOLEAN]

RequestState ==
  {Idle}
  \cup [pc : {"balance"}, of : CreatePaymentIntentRequest \cup RowRequest]
  \cup [pc : {"store", "answer"},
        of : CreatePaymentIntentRequest \cup RowRequest,
        funding : PaymentIntentFunding]

\* PaymentIntentPtbResponse that can be built, RampSessionResponse.
Plan == [intent : Intents, fresh : BOOLEAN]
RampSession == [intent : Intents, amount : 1..MaxI64, fresh : BOOLEAN]
Nothing == [intent |-> "none"]

TypeOK ==
  /\ balance \in 0..MaxBalance
  /\ accepting \in BOOLEAN /\ poolSet \in BOOLEAN
  /\ intent \in [Intents -> PaymentIntentRecord \cup {NoIntent}]
  /\ request \in [Requests -> RequestState]
  /\ plan \in Plan \cup {Nothing}
  /\ session \in RampSession \cup {Nothing}
  /\ told \in [Intents -> {"nothing", "fund", "ready", "swallowed"}]

Init ==
  /\ balance = 0
  /\ accepting = TRUE /\ poolSet = FALSE
  /\ intent = [i \in Intents |-> NoIntent]
  /\ request = [q \in Requests |-> Idle]
  /\ plan = Nothing /\ session = Nothing
  /\ told = [i \in Intents |-> "nothing"]

-----------------------------------------------------------------------------
(* What the code decides, after faulty forms that the properties must tell *)
(* from it.                                                                *)

AtLeast0(n) == IF n > 0 THEN n ELSE 0

\* checked_add: an amount and a reserve that do not add up are refused.
Fits(amount, reserve) == amount + reserve <= MaxI64

\* A variant that forgets the reserve.
calculate_shortfallFaulty(amount, reserve, have) == AtLeast0(amount - have)
calculate_shortfall(amount, reserve, have) == AtLeast0(amount + reserve - have)

StatusFor(shortfall) ==
  IF shortfall > 0 THEN "requires_funding" ELSE "ready_to_stake"

\* The CASE of update_payment_intent_funding: a status that is final stays.  A
\* variant that counts the initial one among them.
UpdatedStatusFaulty(old, shortfall) == old
UpdatedStatus(old, shortfall) ==
  IF old \in {"submitted", "completed", "cancelled", "expired"}
  THEN old
  ELSE StatusFor(shortfall)

\* load_match_for_payment and validate_payment_target: the opponents of a match
\* stay, so that its status decides.
validate_payment_target == accepting

\* What get_payment_intent compares.  A variant that looks at the status after
\* the update.
NoticeDueFaulty(previous, found) ==
  found = "requires_funding" /\ found = "ready_to_stake"
NoticeDue(previous, found) ==
  previous = "requires_funding" /\ found = "ready_to_stake"

\* The amount of an onramp session is the shortfall this request has found.  A
\* variant that leaves the reserve out.
SessionAmountFaulty(i, funding) == intent[i].amount
SessionAmount(i, funding) == funding.shortfall

Unused == {i \in Intents : intent[i] = NoIntent}
\* Ids that a client knows: the answer to the creation was on its way.
Known == {i \in Intents \ Unused : told[i] # "nothing"}

-----------------------------------------------------------------------------
(* Requests: first what is read and checked before the balance, then the   *)
(* balance, the statement and the answer.                                  *)

Continue(q, next) == request' = [request EXCEPT ![q] = next]
Busy == {q \in Requests : request[q] # Idle}
Under(q, pc) == request[q].pc = pc

\* create_payment_intent, whose INSERT will make row i.
ReceiveCreate(q, i, amount, reserve) ==
  /\ request[q] = Idle
  /\ i \in Unused
  /\ \A o \in Busy : request[o].of.intent # i
  /\ validate_payment_target
  /\ poolSet
  /\ Continue(q, [pc |-> "balance",
                  of |-> [kind |-> "create", intent |-> i, amount |-> amount,
                          reserve |-> reserve]])
  /\ UNCHANGED <<balance, match, intent, client, told>>

\* load_intent_for_wallet and load_match_for_payment, of the three requests on
\* an intent.
ReceiveRefresh(q, of) ==
  /\ request[q] = Idle
  /\ of.intent \in Known
  /\ validate_payment_target
  /\ Continue(q, [pc |-> "balance", of |-> of])
  /\ UNCHANGED <<balance, match, intent, client, told>>

ReceiveGet(q, i) ==
  ReceiveRefresh(q, [kind |-> "get", intent |-> i, previous |-> intent[i].status])

AmountOf(r) == IF r.kind = "create" THEN r.amount ELSE intent[r.intent].amount
ReserveOf(r) == IF r.kind = "create" THEN r.reserve ELSE intent[r.intent].reserve

\* wallet_usdc_balance and calculate_shortfall.
ReadBalance(q) ==
  LET r == request[q].of
  IN  /\ Under(q, "balance")
      /\ IF Fits(AmountOf(r), ReserveOf(r))
         THEN Continue(q, [pc |-> "store", of |-> r, funding |->
                [shortfall |-> calculate_shortfall(AmountOf(r), ReserveOf(r), balance),
                 fresh |-> TRUE]])
         ELSE Continue(q, Idle)
      /\ UNCHANGED <<balance, match, intent, client, told>>

\* The INSERT of Db::create_payment_intent.
CreateIntent(q) ==
  LET r == request[q].of
      f == request[q].funding
  IN  /\ Under(q, "store") /\ r.kind = "create"
      /\ intent' = [intent EXCEPT ![r.intent] =
           [amount |-> r.amount, reserve |-> r.reserve,
            status |-> StatusFor(f.shortfall)]]
      /\ Continue(q, [request[q] EXCEPT !.pc = "answer"])
      /\ UNCHANGED <<balance, match, client, told>>

\* The UPDATE of update_payment_intent_funding.  Only a poll tells the user
\* that the intent has become ready.
UpdateFunding(q) ==
  LET r == request[q].of
      f == request[q].funding
      old == intent[r.intent].status
      new == UpdatedStatus(old, f.shortfall)
  IN  /\ Under(q, "store") /\ r.kind # "create"
      /\ intent' = [intent EXCEPT ![r.intent].status = new]
      /\ told' = IF r.kind # "get" /\ old # new /\ new = "ready_to_stake"
                    /\ told[r.intent] # "ready"
                 THEN [told EXCEPT ![r.intent] = "swallowed"]
                 ELSE told
      /\ IF r.kind = "get" /\ ~NoticeDue(r.previous, new)
         THEN Continue(q, Idle)
         ELSE Continue(q, [request[q] EXCEPT !.pc = "answer"])
      /\ UNCHANGED <<balance, match, client>>

\* notify_payment_intent_created.
NotifyCreated(q) ==
  LET r == request[q].of
  IN  /\ Under(q, "answer") /\ r.kind = "create"
      /\ told' = [told EXCEPT ![r.intent] =
           IF request[q].funding.shortfall > 0 THEN "fund" ELSE "ready"]
      /\ Continue(q, Idle)
      /\ UNCHANGED <<balance, match, intent, client>>

\* notify_payment_intent_ready.
NotifyReady(q) ==
  /\ Under(q, "answer") /\ request[q].of.kind = "get"
  /\ told' = [told EXCEPT ![request[q].of.intent] = "ready"]
  /\ Continue(q, Idle)
  /\ UNCHANGED <<balance, match, intent, client>>

\* create_payment_intent_onramp_session: a session if one is needed.
OpenSession(q) ==
  LET r == request[q].of
      f == request[q].funding
  IN  /\ Under(q, "answer") /\ r.kind = "onramp"
      /\ session' = IF f.shortfall > 0
                    THEN [intent |-> r.intent, amount |-> SessionAmount(r.intent, f),
                          fresh |-> f.fresh]
                    ELSE session
      /\ Continue(q, Idle)
      /\ UNCHANGED <<balance, match, intent, plan, told>>

\* get_payment_intent_ptb, which loads the match once more.
BuildPlan(q) ==
  LET r == request[q].of
      f == request[q].funding
  IN  /\ Under(q, "answer") /\ r.kind = "ptb"
      /\ plan' = IF validate_payment_target /\ f.shortfall = 0 /\ poolSet
                 THEN [intent |-> r.intent, fresh |-> f.fresh]
                 ELSE plan
      /\ Continue(q, Idle)
      /\ UNCHANGED <<balance, match, intent, session, told>>

\* The RPC or a statement fails, or the client hangs up.  A notice that is lost
\* on the way is lost for good.
Fail(q) ==
  /\ request[q] # Idle
  /\ Continue(q, Idle)
  /\ told' = IF /\ request[q].pc = "answer"
                /\ request[q].of.kind \in {"create", "get"}
                /\ told[request[q].of.intent] # "ready"
             THEN [told EXCEPT ![request[q].of.intent] = "swallowed"]
             ELSE told
  /\ UNCHANGED <<balance, match, intent, client>>

-----------------------------------------------------------------------------
(* The wallet and the match.                                               *)

Stale(x) == IF x = Nothing THEN x ELSE [x EXCEPT !.fresh = FALSE]
StaleRequests ==
  [q \in Requests |-> IF request[q] # Idle /\ request[q].pc \in {"store", "answer"}
                      THEN [request[q] EXCEPT !.funding.fresh = FALSE]
                      ELSE request[q]]

Deposit ==
  /\ balance < MaxBalance
  /\ balance' = balance + 1
  /\ UNCHANGED <<match, intent, request, client, told>>

\* The wallet spends on something else.
Spend ==
  /\ balance > 0
  /\ balance' = balance - 1
  /\ plan' = Stale(plan) /\ session' = Stale(session)
  /\ request' = StaleRequests
  /\ UNCHANGED <<match, intent, told>>

PaySession ==
  /\ session # Nothing
  /\ balance + session.amount <= MaxBalance
  /\ balance' = balance + session.amount
  /\ session' = Nothing
  /\ UNCHANGED <<match, intent, request, plan, told>>

\* The client sends the transaction; nothing reports that to the intent.
StakeOnChain ==
  /\ plan # Nothing /\ balance >= intent[plan.intent].amount
  /\ balance' = balance - intent[plan.intent].amount
  /\ plan' = Nothing /\ session' = Stale(session)
  /\ request' = StaleRequests
  /\ UNCHANGED <<match, intent, told>>

ConfigurePool ==
  /\ ~poolSet /\ poolSet' = TRUE
  /\ UNCHANGED <<balance, accepting, intent, request, client, told>>

CloseMatch ==
  /\ accepting /\ accepting' = FALSE
  /\ UNCHANGED <<balance, poolSet, intent, request, client, told>>

Next ==
  \/ \E q \in Requests :
       \/ \E i \in Intents, a \in Amounts, r \in Reserves : ReceiveCreate(q, i, a, r)
       \/ \E i \in Known : ReceiveGet(q, i)
       \/ \E i \in Known, k \in {"onramp", "ptb"} :
            ReceiveRefresh(q, [kind |-> k, intent |-> i])
       \/ ReadBalance(q) \/ CreateIntent(q) \/ UpdateFunding(q)
       \/ NotifyCreated(q) \/ NotifyReady(q) \/ OpenSession(q) \/ BuildPlan(q)
       \/ Fail(q)
  \/ Deposit \/ Spend \/ PaySession \/ StakeOnChain
  \/ ConfigurePool \/ CloseMatch

Spec == Init /\ [][Next]_vars

\* A client polls its intents, a request under way ends, and not every poll
\* fails at the same point.
Poll(i) == \E q \in Requests : i \in Known /\ ReceiveGet(q, i)
Polling(i) == {q \in Busy : request[q].of.intent = i /\ request[q].of.kind = "get"}
PollRead(i) == \E q \in Polling(i) : ReadBalance(q)
PollStore(i) == \E q \in Polling(i) : UpdateFunding(q)
Step(q) ==
  \/ ReadBalance(q) \/ CreateIntent(q) \/ UpdateFunding(q) \/ NotifyCreated(q)
  \/ NotifyReady(q) \/ OpenSession(q) \/ BuildPlan(q)

Fairness ==
  /\ \A i \in Intents : /\ SF_vars(Poll(i))
                        /\ SF_vars(PollRead(i)) /\ SF_vars(PollStore(i))
  /\ \A q \in Requests : WF_vars(Step(q))

FairSpec == Spec /\ Fairness

-----------------------------------------------------------------------------
(* Properties.                                                             *)

Required(i) == intent[i].amount + intent[i].reserve

\* A stake sent from a plan leaves the reserve in the wallet, however late it is
\* sent and whatever else was refreshed meanwhile, if nothing has left the
\* wallet since the balance was read for it.
ReserveKept ==
  [][\A i \in Intents :
       StakeOnChain /\ plan.intent = i /\ plan.fresh =>
         balance' >= intent[i].reserve]_vars

\* An onramp session brings what its intent lacks, under the same condition.
SessionFundsIntent ==
  [][PaySession /\ session.fresh => balance' >= Required(session.intent)]_vars

\* Whoever has an intent that is ready has been told so or is being told,
\* unless the notice was lost or the intent became ready while a plan or a
\* session was asked for: however polls overlap.
ReadyIsNoticed ==
  \A i \in Intents \ Unused :
    intent[i].status = "ready_to_stake" =>
      \/ told[i] \in {"ready", "swallowed"}
      \/ \E q \in Requests : /\ Under(q, "answer")
                            /\ request[q].of.intent = i
                            /\ request[q].of.kind \in {"create", "get"}

\* While the wallet has enough and the match stays open, a client that polls
\* finds its intent ready at last and for good, although requests that read an
\* older balance may store it later.
ReadyAtLast ==
  \A i \in Intents :
    <>[](i \in Known /\ accepting /\ balance >= Required(i)) =>
      <>[](i \in Known /\ intent[i].status = "ready_to_stake")
=============================================================================
