------------------------ MODULE PaymentIntentsProofs ------------------------
(***************************************************************************)
(* Proofs about payment intents for every number of intents and requests,  *)
(* and for all amounts, reserves and balances, the bounds of i64 included: *)
(* no sum overflows, a plan or a session that is used later still fits the *)
(* wallet, and a user is told that an intent has become ready.             *)
(***************************************************************************)
EXTENDS PaymentIntents, TLAPS

Created(r) == r.of.kind = "create"
Funded(r) == r.pc \in {"store", "answer"}
Noticing(r, i) ==
  /\ r.pc = "answer" /\ r.of.intent = i
  /\ r.of.kind = "get" \/ (Created(r) /\ r.funding.shortfall = 0)

\* The user has been told of i, will never be, or is being told.
Told(i) == told[i] \in {"ready", "swallowed"}
Noticed(i) == Told(i) \/ \E q \in Requests : Noticing(request[q], i)

\* What a request has read, and what is promised of it, stays true.
RequestSound(r) ==
  /\ r \in RequestState
  /\ r # Idle /\ ~Created(r) => intent[r.of.intent] # NoIntent
  /\ r.pc \in {"balance", "store"} /\ Created(r) => intent[r.of.intent] = NoIntent
  /\ r.pc = "answer" /\ Created(r) =>
       /\ intent[r.of.intent] = [amount |-> r.of.amount, reserve |-> r.of.reserve,
                                 status |-> StatusFor(r.funding.shortfall)]
       /\ told[r.of.intent] = "nothing"
  /\ Funded(r) /\ r.funding.fresh =>
       balance + r.funding.shortfall >= AmountOf(r.of) + ReserveOf(r.of)
  /\ r # Idle /\ r.of.kind = "get" /\ r.of.previous = "ready_to_stake" =>
       Noticed(r.of.intent)

RequestsSound == \A q \in Requests : RequestSound(request[q])

\* Nobody else works on an intent whose creation is under way.
Apart(r, x) ==
  r # Idle /\ x # Idle /\ (Created(r) \/ Created(x)) => r.of.intent # x.of.intent
Exclusive == \A q, o \in Requests : q # o => Apart(request[q], request[o])

\* The wallet has what a plan needs, and with a session what the intent does.
ClientSound ==
  /\ plan # Nothing =>
       /\ intent[plan.intent] # NoIntent
       /\ plan.fresh => balance >= Required(plan.intent)
  /\ session # Nothing =>
       /\ intent[session.intent] # NoIntent
       /\ session.fresh => balance + session.amount >= Required(session.intent)

ReadyNoticed ==
  \A i \in Intents : intent[i] # NoIntent /\ intent[i].status = "ready_to_stake" =>
    Noticed(i)

Untold == \A i \in Intents : intent[i] = NoIntent => told[i] = "nothing"

\* The inductive invariant.
IInv == TypeOK /\ RequestsSound /\ Exclusive /\ ClientSound /\ ReadyNoticed /\ Untold

-----------------------------------------------------------------------------
\* A request carries the fields of its next statement.
LEMMA FieldTypes ==
  ASSUME NEW r \in RequestState
  PROVE  /\ r.pc \in {"idle", "balance", "store", "answer"}
         /\ r = Idle <=> r.pc = "idle"
         /\ r # Idle => /\ r.of \in CreatePaymentIntentRequest \cup RowRequest
                        /\ r.of.intent \in Intents
                        /\ r.of.kind \in {"create", "get", "onramp", "ptb"}
                        /\ Created(r) => r.of.amount \in Amounts /\ r.of.reserve \in Reserves
                        /\ r.of.kind = "get" => r.of.previous \in Statuses
         /\ Funded(r) => /\ r.funding \in PaymentIntentFunding
                         /\ r.funding.shortfall \in 0..MaxI64
                         /\ r.funding.fresh \in BOOLEAN
<1>1. r.pc \in {"idle", "balance", "store", "answer"} /\ (r = Idle <=> r.pc = "idle")
  BY DEF RequestState, Idle
<1>2. ASSUME r # Idle
      PROVE  r.of \in CreatePaymentIntentRequest \cup RowRequest
  BY <1>2 DEF RequestState
<1>3. ASSUME NEW x \in CreatePaymentIntentRequest \cup RowRequest
      PROVE  /\ x.intent \in Intents /\ x.kind \in {"create", "get", "onramp", "ptb"}
             /\ x.kind = "create" => x.amount \in Amounts /\ x.reserve \in Reserves
             /\ x.kind = "get" => x.previous \in Statuses
  BY DEF CreatePaymentIntentRequest, RowRequest
<1>4. ASSUME Funded(r) PROVE r.funding \in PaymentIntentFunding
  BY <1>4 DEF RequestState, Idle, Funded
<1> QED
  BY <1>1, <1>2, <1>3, <1>4 DEF Created, PaymentIntentFunding

LEMMA IntentTypes ==
  ASSUME TypeOK, NEW i \in Intents, intent[i] # NoIntent
  PROVE  /\ intent[i] \in PaymentIntentRecord
         /\ intent[i].amount \in 1..MaxI64 /\ intent[i].reserve \in 0..MaxI64
         /\ intent[i].status \in Statuses
BY PaymentAssumption DEF TypeOK, PaymentIntentRecord

LEMMA IdleIsSound == RequestSound(Idle) /\ RequestSound(Idle)' /\ Idle.pc = "idle"
BY DEF RequestSound, RequestState, Idle, Funded

\* A step of request q alone, which becomes r and touches no other intent than
\* its own.
LEMMA RequestStep ==
  ASSUME IInv, NEW q \in Requests, NEW r, request' = [request EXCEPT ![q] = r],
         UNCHANGED balance, RequestSound(r)',
         \A o \in Requests \ {q} : Apart(request[o], r),
         \A i \in Intents : intent[i] # NoIntent =>
           /\ intent'[i] # NoIntent
           /\ intent'[i].amount = intent[i].amount
           /\ intent'[i].reserve = intent[i].reserve,
         \A i \in Intents : (intent'[i] # intent[i] \/ told'[i] # told[i]) =>
           request[q] # Idle /\ i = request[q].of.intent,
         \A i \in Intents : intent'[i] # NoIntent /\ intent[i] = NoIntent =>
           Created(request[q]),
         \A i \in Intents : Told(i) => Told(i)',
         \A i \in Intents : Noticing(request[q], i) => Told(i)'
  PROVE  /\ request' \in [Requests -> RequestState]
         /\ RequestsSound' /\ Exclusive'
         /\ \A i \in Intents : Noticed(i) => Noticed(i)'
<1> USE DEF IInv
<1>1. /\ \A o \in Requests : request'[o] = IF o = q THEN r ELSE request[o]
      /\ request' \in [Requests -> RequestState]
  BY DEF TypeOK, RequestSound
<1>2. \A i \in Intents : Noticed(i) => Noticed(i)'
  BY <1>1 DEF Noticed
<1>3. ASSUME NEW o \in Requests, o # q PROVE RequestSound(request[o])'
  <2>1. PICK x : x = request[o]
    OBVIOUS
  <2>2. RequestSound(x) /\ x \in RequestState
    BY <2>1 DEF RequestsSound, RequestSound
  <2>3. x # Idle => x.of.intent \in Intents
    BY <2>2, FieldTypes
  <2>4. x # Idle /\ ~Created(x) => intent'[x.of.intent] # NoIntent
    BY <2>2, <2>3 DEF RequestSound
  <2>5. x # Idle /\ Created(x) =>
          intent'[x.of.intent] = intent[x.of.intent] /\ told'[x.of.intent] = told[x.of.intent]
    <3>1. x # Idle /\ Created(x) /\ request[q] # Idle => x.of.intent # request[q].of.intent
      BY <1>3, <2>1 DEF Exclusive, Apart
    <3> QED
      BY <2>3, <3>1
  <2>6. Funded(x) => AmountOf(x.of)' = AmountOf(x.of) /\ ReserveOf(x.of)' = ReserveOf(x.of)
    <3>1. Funded(x) => x # Idle
      BY FieldTypes, <2>2 DEF Funded
    <3>2. Funded(x) /\ ~Created(x) =>
            /\ intent'[x.of.intent].amount = intent[x.of.intent].amount
            /\ intent'[x.of.intent].reserve = intent[x.of.intent].reserve
      BY <2>2, <2>3, <3>1 DEF RequestSound
    <3> QED
      BY <3>2 DEF AmountOf, ReserveOf, Created
  <2>7. x # Idle /\ x.of.kind = "get" /\ x.of.previous = "ready_to_stake" =>
          Noticed(x.of.intent)'
    BY <1>2, <2>2, <2>3 DEF RequestSound
  <2>8. x.pc \in {"balance", "store", "answer"} => x # Idle
    BY <2>2, FieldTypes
  <2>9. RequestSound(x)'
    BY <2>2, <2>4, <2>5, <2>6, <2>7, <2>8 DEF RequestSound
  <2> QED
    BY <1>1, <1>3, <2>1, <2>9
<1>4. RequestsSound'
  BY <1>1, <1>3 DEF RequestsSound, RequestSound
<1>5. Exclusive'
  BY <1>1 DEF Exclusive, Apart
<1> QED
  BY <1>1, <1>2, <1>4, <1>5

\* A request is received, ends, or reads: no table changes.
LEMMA ReadStep ==
  ASSUME IInv, NEW q \in Requests, NEW r, request' = [request EXCEPT ![q] = r],
         RequestSound(r)', \A o \in Requests \ {q} : Apart(request[o], r),
         UNCHANGED <<balance, match, intent, client, told>>,
         \A i \in Intents : Noticing(request[q], i) => Told(i)'
  PROVE  IInv'
<1> USE DEF match, client
<1>1. /\ request' \in [Requests -> RequestState]
      /\ RequestsSound' /\ Exclusive'
      /\ \A i \in Intents : Noticed(i) => Noticed(i)'
  BY RequestStep DEF Told
<1>2. TypeOK'
  BY <1>1 DEF IInv, TypeOK
<1>3. ClientSound' /\ ReadyNoticed' /\ Untold'
  BY <1>1 DEF IInv, ClientSound, Required, ReadyNoticed, Untold
<1> QED
  BY <1>1, <1>2, <1>3 DEF IInv

\* The request that is under way, with its fields.
LEMMA UnderWay ==
  ASSUME IInv, NEW q \in Requests
  PROVE  RequestSound(request[q]) /\ request[q] \in RequestState
BY DEF IInv, RequestsSound, RequestSound

\* A request that moves on with the same subject stays apart from the others.
LEMMA StaysApart ==
  ASSUME IInv, NEW q \in Requests, NEW r,
         r = Idle \/ (request[q] # Idle /\ r.of = request[q].of)
  PROVE  \A o \in Requests \ {q} : Apart(request[o], r)
BY DEF IInv, Exclusive, Apart, Created

LEMMA ReceiveCreateKeepsIInv ==
  ASSUME IInv, NEW q \in Requests, NEW i \in Intents, NEW a \in Amounts,
         NEW v \in Reserves, ReceiveCreate(q, i, a, v)
  PROVE  IInv'
<1> USE DEF ReceiveCreate
<1>1. PICK r : r = [pc |-> "balance",
                    of |-> [kind |-> "create", intent |-> i, amount |-> a, reserve |-> v]]
  OBVIOUS
<1>2. /\ r \in RequestState /\ r.pc = "balance" /\ Created(r) /\ r.of.intent = i
      /\ r.of.kind = "create"
  BY <1>1 DEF RequestState, CreatePaymentIntentRequest, Created
<1>3. request' = [request EXCEPT ![q] = r] /\ request[q] = Idle
  BY <1>1 DEF Continue
<1>4. intent'[i] = NoIntent
  BY DEF Unused
<1>5. RequestSound(r)'
  BY <1>2, <1>4 DEF RequestSound, Funded
<1>6. \A o \in Requests \ {q} : Apart(request[o], r)
  BY <1>2 DEF Apart, Busy
<1> QED
  BY <1>3, <1>5, <1>6, IdleIsSound, ReadStep DEF Noticing

LEMMA ReceiveRefreshKeepsIInv ==
  ASSUME IInv, NEW q \in Requests, NEW of \in RowRequest, ReceiveRefresh(q, of),
         of.kind = "get" => of.previous = intent[of.intent].status
  PROVE  IInv'
<1> USE DEF ReceiveRefresh
<1>0. of.kind # "create" /\ of.intent \in Intents
  BY DEF RowRequest
<1>1. PICK r : r = [pc |-> "balance", of |-> of]
  OBVIOUS
<1>2. r \in RequestState /\ r.pc = "balance" /\ r.of = of /\ ~Created(r)
  BY <1>0, <1>1 DEF RequestState, Created
<1>3. request' = [request EXCEPT ![q] = r] /\ request[q] = Idle
  BY <1>1 DEF Continue
<1>4. intent[of.intent] # NoIntent /\ told[of.intent] # "nothing"
  BY DEF Known, Unused
<1>5. \A o \in Requests \ {q} : Apart(request[o], r)
  <2> SUFFICES ASSUME NEW o \in Requests, request[o] # Idle, Created(request[o])
               PROVE  request[o].of.intent # r.of.intent
    BY <1>2 DEF Apart
  <2> QED
    BY <1>2, <1>4, UnderWay, FieldTypes DEF RequestSound
<1>6. of.kind = "get" /\ of.previous = "ready_to_stake" => Noticed(of.intent)'
  <2>1. of.kind = "get" /\ of.previous = "ready_to_stake" => Noticed(of.intent)
    BY <1>0, <1>4 DEF IInv, ReadyNoticed
  <2>2. \A o \in Requests : Noticing(request[o], of.intent) => Noticing(request'[o], of.intent)
    BY <1>3, IdleIsSound DEF IInv, TypeOK, Noticing
  <2> QED
    BY <2>1, <2>2 DEF Noticed, Told
<1>7. RequestSound(r)'
  BY <1>2, <1>4, <1>6 DEF RequestSound, Funded
<1> QED
  BY <1>3, <1>5, <1>7, IdleIsSound, ReadStep DEF Noticing

\* The shortfall that is computed makes up for what the wallet lacks.
LEMMA ShortfallSuffices ==
  ASSUME NEW a \in 1..MaxI64, NEW v \in 0..MaxI64, NEW have \in 0..MaxI64, Fits(a, v)
  PROVE  /\ calculate_shortfall(a, v, have) \in 0..MaxI64
         /\ have + calculate_shortfall(a, v, have) >= a + v
BY PaymentAssumption DEF Fits, calculate_shortfall, AtLeast0

LEMMA AmountTypes ==
  ASSUME IInv, NEW q \in Requests, request[q] # Idle,
         Created(request[q]) \/ intent[request[q].of.intent] # NoIntent
  PROVE  AmountOf(request[q].of) \in 1..MaxI64 /\ ReserveOf(request[q].of) \in 0..MaxI64
BY PaymentAssumption, UnderWay, FieldTypes, IntentTypes
   DEF IInv, AmountOf, ReserveOf, Created

LEMMA ReadBalanceKeepsIInv ==
  ASSUME IInv, NEW q \in Requests, ReadBalance(q) PROVE IInv'
<1> USE DEF ReadBalance
<1> DEFINE a == AmountOf(request[q].of)
           v == ReserveOf(request[q].of)
<1>1. /\ request[q].pc = "balance" /\ request[q] # Idle /\ RequestSound(request[q])
      /\ request[q].of \in CreatePaymentIntentRequest \cup RowRequest
      /\ request[q].of.intent \in Intents
      /\ Created(request[q]) => intent[request[q].of.intent] = NoIntent
      /\ ~Created(request[q]) => intent[request[q].of.intent] # NoIntent
  BY UnderWay, FieldTypes, IdleIsSound DEF Under, RequestSound
<1>2. a \in 1..MaxI64 /\ v \in 0..MaxI64 /\ balance \in 0..MaxI64
  BY <1>1, AmountTypes, PaymentAssumption DEF IInv, TypeOK
<1>3. \A i \in Intents : ~Noticing(request[q], i)
  BY <1>1 DEF Noticing
<1>4. CASE ~Fits(a, v)
  BY <1>3, <1>4, IdleIsSound, StaysApart, ReadStep DEF Continue
<1>5. CASE Fits(a, v)
  <2>1. PICK n : n = calculate_shortfall(a, v, balance)
    OBVIOUS
  <2>2. n \in 0..MaxI64 /\ balance + n >= a + v
    BY <1>2, <1>5, <2>1, ShortfallSuffices
  <2>3. PICK r : r = [pc |-> "store", of |-> request[q].of,
                      funding |-> [shortfall |-> n, fresh |-> TRUE]]
    OBVIOUS
  <2>4. /\ r \in RequestState /\ r.pc = "store" /\ r.of = request[q].of
        /\ r.funding.shortfall = n /\ Created(r) = Created(request[q])
    BY <1>1, <2>2, <2>3 DEF RequestState, PaymentIntentFunding, Created
  <2>5. request' = [request EXCEPT ![q] = r]
    BY <1>5, <2>1, <2>3 DEF Continue
  <2>6. r.of.kind = "get" /\ r.of.previous = "ready_to_stake" => Noticed(r.of.intent)'
    <3>1. \A o \in Requests : Noticing(request[o], r.of.intent) =>
                              Noticing(request'[o], r.of.intent)
      BY <1>1, <2>4, <2>5 DEF IInv, TypeOK, Noticing
    <3> QED
      BY <1>1, <2>4, <3>1 DEF RequestSound, Noticed, Told
  <2>7. balance' + n >= AmountOf(r.of)' + ReserveOf(r.of)'
    BY <2>2, <2>4 DEF AmountOf, ReserveOf
  <2>8. RequestSound(r)'
    BY <1>1, <2>4, <2>6, <2>7 DEF RequestSound, Created
  <2> QED
    BY <1>1, <1>3, <2>4, <2>5, <2>8, StaysApart, ReadStep
<1> QED
  BY <1>4, <1>5

\* A funded request, one step further.
LEMMA FundedMoves ==
  ASSUME NEW x \in RequestState, x.pc = "store"
  PROVE  LET y == [x EXCEPT !.pc = "answer"]
         IN  /\ y \in RequestState /\ y.pc = "answer" /\ y.of = x.of
             /\ y.funding = x.funding /\ y # Idle /\ x # Idle
<1>1. x \in [pc : {"store", "answer"}, of : CreatePaymentIntentRequest \cup RowRequest,
             funding : PaymentIntentFunding]
  BY DEF RequestState, Idle
<1> QED
  BY <1>1 DEF RequestState, Idle

LEMMA StatusIsStatus == \A n : StatusFor(n) \in Statuses
BY DEF StatusFor, Statuses

LEMMA CreateIntentKeepsIInv ==
  ASSUME IInv, NEW q \in Requests, CreateIntent(q) PROVE IInv'
<1> USE DEF CreateIntent, match, client
<1>0. PICK i, row :
        /\ i = request[q].of.intent
        /\ row = [amount |-> request[q].of.amount, reserve |-> request[q].of.reserve,
                  status |-> StatusFor(request[q].funding.shortfall)]
  OBVIOUS
<1>1. /\ request[q].pc = "store" /\ request[q] # Idle /\ RequestSound(request[q])
      /\ request[q] \in RequestState /\ Created(request[q])
      /\ i \in Intents /\ intent[i] = NoIntent /\ told[i] = "nothing"
      /\ row \in PaymentIntentRecord
  <2>1. /\ request[q].pc = "store" /\ request[q] # Idle /\ RequestSound(request[q])
        /\ request[q] \in RequestState /\ Created(request[q])
    BY UnderWay, IdleIsSound DEF Under, Created
  <2>2. /\ i \in Intents /\ request[q].of.amount \in Amounts
        /\ request[q].of.reserve \in Reserves
    BY <1>0, <2>1, FieldTypes
  <2>3. intent[i] = NoIntent
    BY <1>0, <2>1 DEF RequestSound
  <2>4. row \in PaymentIntentRecord
    BY <1>0, <2>2, StatusIsStatus DEF PaymentIntentRecord
  <2> QED
    BY <2>1, <2>2, <2>3, <2>4 DEF IInv, Untold
<1>2. PICK r : r = [request[q] EXCEPT !.pc = "answer"]
  OBVIOUS
<1>3. /\ r \in RequestState /\ r.pc = "answer" /\ r.of = request[q].of
      /\ r.funding = request[q].funding /\ r # Idle
  BY <1>1, <1>2, FundedMoves
<1>4. request' = [request EXCEPT ![q] = r] /\ UNCHANGED <<balance, told>>
  BY <1>2 DEF Continue
<1>5. /\ intent' \in [Intents -> PaymentIntentRecord \cup {NoIntent}]
      /\ intent'[i] = row /\ row # NoIntent
      /\ \A o \in Intents \ {i} : intent'[o] = intent[o]
  BY <1>0, <1>1 DEF IInv, TypeOK, NoIntent, PaymentIntentRecord, Statuses
<1>6. Funded(r) /\ r.funding.fresh =>
        balance' + r.funding.shortfall >= AmountOf(r.of)' + ReserveOf(r.of)'
  BY <1>1, <1>3, <1>4 DEF RequestSound, Funded, AmountOf, ReserveOf, Created
<1>7. RequestSound(r)'
  BY <1>0, <1>1, <1>3, <1>4, <1>5, <1>6 DEF RequestSound, Created
<1>8. /\ request' \in [Requests -> RequestState]
      /\ RequestsSound' /\ Exclusive'
      /\ \A o \in Intents : Noticed(o) => Noticed(o)'
  BY <1>0, <1>1, <1>3, <1>4, <1>5, <1>7, StaysApart, RequestStep DEF Noticing, Told
<1>9. TypeOK'
  BY <1>5, <1>8 DEF IInv, TypeOK
<1>10. ClientSound'
  BY <1>1, <1>4, <1>5 DEF IInv, ClientSound, Required, TypeOK, Plan, RampSession, Nothing
<1>11. ReadyNoticed'
  <2>1. row.status = "ready_to_stake" => Noticing(r, i)
    <3>1. r.funding.shortfall \in 0..MaxI64
      BY <1>3, FieldTypes DEF Funded
    <3>2. row.status = "ready_to_stake" => r.funding.shortfall = 0
      BY <1>0, <1>3, <3>1, PaymentAssumption DEF StatusFor
    <3> QED
      BY <1>0, <1>1, <1>3, <3>2 DEF Noticing, Created
  <2>2. row.status = "ready_to_stake" => Noticed(i)'
    BY <1>4, <2>1 DEF IInv, TypeOK, Noticed
  <2> QED
    BY <1>5, <1>8, <2>2 DEF IInv, ReadyNoticed
<1>12. Untold'
  BY <1>4, <1>5 DEF IInv, Untold
<1> QED
  BY <1>8, <1>9, <1>10, <1>11, <1>12 DEF IInv

\* The UPDATE makes an intent ready only for somebody who tells the user, or
\* swallows that.
LEMMA UpdateFundingKeepsIInv ==
  ASSUME IInv, NEW q \in Requests, UpdateFunding(q) PROVE IInv'
<1> USE DEF UpdateFunding, match, client
<1>0. PICK i, old, new, of :
        /\ i = request[q].of.intent /\ old = intent[i].status
        /\ new = UpdatedStatus(old, request[q].funding.shortfall)
        /\ of = request[q].of
  OBVIOUS
<1>1. /\ request[q].pc = "store" /\ request[q] # Idle /\ RequestSound(request[q])
      /\ request[q] \in RequestState /\ ~Created(request[q])
      /\ i \in Intents /\ intent[i] # NoIntent
      /\ of.kind \in {"get", "onramp", "ptb"}
  <2>1. /\ request[q].pc = "store" /\ request[q] # Idle /\ RequestSound(request[q])
        /\ request[q] \in RequestState /\ ~Created(request[q])
    BY UnderWay, IdleIsSound DEF Under, Created
  <2> QED
    BY <1>0, <2>1, FieldTypes DEF RequestSound, Created
<1>2. intent[i] \in PaymentIntentRecord /\ old \in Statuses
  BY <1>0, <1>1, IntentTypes DEF IInv
<1>3. new \in Statuses
  BY <1>0, <1>2, StatusIsStatus DEF UpdatedStatus, Statuses
<1>4. /\ intent' \in [Intents -> PaymentIntentRecord \cup {NoIntent}]
      /\ intent'[i] # NoIntent /\ intent'[i].status = new
      /\ intent'[i].amount = intent[i].amount
      /\ intent'[i].reserve = intent[i].reserve
      /\ \A o \in Intents \ {i} : intent'[o] = intent[o]
  <2>1. PICK x : x = [intent[i] EXCEPT !.status = new]
    OBVIOUS
  <2>2. /\ x \in PaymentIntentRecord /\ x # NoIntent /\ x.status = new
        /\ x.amount = intent[i].amount /\ x.reserve = intent[i].reserve
    BY <1>2, <1>3, <2>1 DEF PaymentIntentRecord, NoIntent, Statuses
  <2>3. intent' = [intent EXCEPT ![i] = x]
    BY <1>0, <2>1
  <2> QED
    BY <1>1, <2>2, <2>3 DEF IInv, TypeOK
<1>5. PICK r : r = IF of.kind = "get" /\ ~NoticeDue(of.previous, new)
                   THEN Idle ELSE [request[q] EXCEPT !.pc = "answer"]
  OBVIOUS
<1>6. request' = [request EXCEPT ![q] = r]
  BY <1>0, <1>5 DEF Continue
<1>7. \/ r = Idle
      \/ /\ r \in RequestState /\ r.pc = "answer" /\ r.of = of
         /\ r.funding = request[q].funding /\ r # Idle
  BY <1>0, <1>1, <1>5, FundedMoves
<1>8. /\ told' \in [Intents -> {"nothing", "fund", "ready", "swallowed"}]
      /\ \A o \in Intents : /\ Told(o) => Told(o)'
                            /\ told'[o] # told[o] => o = i
  BY <1>0, <1>1 DEF IInv, TypeOK, Told
<1>9. ASSUME NEW o \in Intents, Noticed(o) PROVE Noticed(o)'
  BY <1>1, <1>6, <1>8, <1>9 DEF IInv, TypeOK, Noticed, Noticing
<1>10. of.kind = "get" /\ of.previous = "ready_to_stake" => Noticed(i)'
  BY <1>0, <1>1, <1>9 DEF RequestSound
<1>11. Funded(r) /\ r.funding.fresh =>
         balance' + r.funding.shortfall >= AmountOf(r.of)' + ReserveOf(r.of)'
  BY <1>0, <1>1, <1>4, <1>7, IdleIsSound DEF RequestSound, Funded, AmountOf, ReserveOf, Created
<1>12. RequestSound(r)'
  BY <1>0, <1>1, <1>4, <1>7, <1>10, <1>11, IdleIsSound DEF RequestSound, Created
<1>a. /\ UNCHANGED <<balance, accepting, poolSet, plan, session>>
      /\ old # "ready_to_stake" /\ new = "ready_to_stake" /\ of.kind # "get" => Told(i)'
  BY <1>0, <1>1 DEF IInv, TypeOK, Told
<1>b. \A o \in Intents : intent[o] # NoIntent =>
        /\ intent'[o] # NoIntent
        /\ intent'[o].amount = intent[o].amount /\ intent'[o].reserve = intent[o].reserve
  BY <1>4
<1>c. \A o \in Intents : intent'[o] = NoIntent => intent[o] = NoIntent /\ told'[o] = told[o]
  BY <1>4, <1>8
<1> HIDE DEF UpdateFunding
<1>13. /\ request' \in [Requests -> RequestState]
       /\ RequestsSound' /\ Exclusive'
  <2>1. \A o \in Requests \ {q} : Apart(request[o], r)
    BY <1>0, <1>1, <1>7, StaysApart
  <2>2. \A o \in Intents : (intent'[o] # intent[o] \/ told'[o] # told[o]) =>
                           request[q] # Idle /\ o = request[q].of.intent
    BY <1>0, <1>1, <1>4, <1>8
  <2>3. \A o \in Intents : ~(intent'[o] # NoIntent /\ intent[o] = NoIntent)
    BY <1>1, <1>4
  <2>4. \A o \in Intents : ~Noticing(request[q], o)
    BY <1>1 DEF Noticing
  <2>5. \A o \in Intents : Told(o) => Told(o)'
    BY <1>8
  <2> QED
    BY <1>6, <1>12, <1>a, <1>b, <2>1, <2>2, <2>3, <2>4, <2>5, RequestStep
<1>14. TypeOK'
  BY <1>4, <1>8, <1>13, <1>a DEF IInv, TypeOK
<1>15. ClientSound'
  BY <1>a, <1>b DEF IInv, ClientSound, Required, TypeOK, Plan, RampSession, Nothing
<1>16. ReadyNoticed'
  <2>1. ASSUME new = "ready_to_stake" PROVE Noticed(i)'
    <3>1. CASE old = "ready_to_stake"
      BY <1>0, <1>1, <1>9, <3>1 DEF IInv, ReadyNoticed
    <3>2. CASE old # "ready_to_stake" /\ of.kind # "get"
      BY <1>a, <2>1, <3>2 DEF Noticed
    <3>3. CASE of.kind = "get" /\ of.previous = "ready_to_stake"
      BY <1>10, <3>3
    <3>4. CASE of.kind = "get" /\ of.previous # "ready_to_stake"
      <4>1. of.previous \in Statuses
        BY <1>0, <1>1, <3>4, FieldTypes
      <4>2. NoticeDue(of.previous, new)
        BY <2>1, <3>4, <4>1 DEF NoticeDue, Statuses
      <4>3. r # Idle /\ Noticing(r, i)
        BY <1>0, <1>1, <1>5, <3>4, <4>2, FundedMoves DEF Noticing
      <4> QED
        BY <1>6, <4>3 DEF IInv, TypeOK, Noticed
    <3> QED
      BY <3>1, <3>2, <3>3, <3>4
  <2> QED
    BY <1>4, <1>9, <2>1 DEF IInv, ReadyNoticed
<1>17. Untold'
  BY <1>c DEF IInv, Untold
<1> QED
  BY <1>13, <1>14, <1>15, <1>16, <1>17 DEF IInv

\* A request that ends with its answer, and what it tells the user or the
\* client.
LEMMA LastStep ==
  ASSUME IInv, NEW q \in Requests, request[q] # Idle, request' = [request EXCEPT ![q] = Idle],
         UNCHANGED <<balance, match, intent>>,
         told' \in [Intents -> {"nothing", "fund", "ready", "swallowed"}],
         \A i \in Intents : told'[i] # told[i] => i = request[q].of.intent /\ intent[i] # NoIntent,
         \A i \in Intents : Told(i) => Told(i)',
         \A i \in Intents : Noticing(request[q], i) => Told(i)',
         plan' \in Plan \cup {Nothing}, session' \in RampSession \cup {Nothing},
         ClientSound'
  PROVE  IInv'
<1> USE DEF match
<1>1. \A o \in Requests \ {q} : Apart(request[o], Idle)
  BY DEF Apart
<1>2. \A i \in Intents : (intent'[i] # intent[i] \/ told'[i] # told[i]) =>
                         request[q] # Idle /\ i = request[q].of.intent
  OBVIOUS
<1>3. /\ request' \in [Requests -> RequestState]
      /\ RequestsSound' /\ Exclusive'
      /\ \A i \in Intents : Noticed(i) => Noticed(i)'
  BY <1>1, <1>2, IdleIsSound, RequestStep
<1>4. TypeOK'
  BY <1>3 DEF IInv, TypeOK
<1>5. ReadyNoticed' /\ Untold'
  BY <1>3 DEF IInv, ReadyNoticed, Untold
<1> QED
  BY <1>3, <1>4, <1>5 DEF IInv

\* A request that has its answer left.
LEMMA Answering ==
  ASSUME IInv, NEW q \in Requests, Under(q, "answer")
  PROVE  /\ request[q] # Idle /\ Funded(request[q])
         /\ request[q].of.intent \in Intents
         /\ request[q].funding.shortfall \in 0..MaxI64
         /\ request[q].funding.fresh \in BOOLEAN
         /\ intent[request[q].of.intent] # NoIntent
<1>1. /\ request[q].pc = "answer" /\ request[q] # Idle /\ RequestSound(request[q])
      /\ request[q] \in RequestState /\ Funded(request[q])
  BY UnderWay, IdleIsSound DEF Under, Funded
<1>2. Created(request[q]) => intent[request[q].of.intent] # NoIntent
  BY <1>1 DEF RequestSound, NoIntent
<1> QED
  BY <1>1, <1>2, FieldTypes DEF RequestSound

LEMMA NotifyCreatedKeepsIInv ==
  ASSUME IInv, NEW q \in Requests, NotifyCreated(q) PROVE IInv'
<1> USE DEF NotifyCreated, match, client
<1>1. PICK i : i = request[q].of.intent
  OBVIOUS
<1>2. /\ request[q].pc = "answer" /\ Created(request[q]) /\ request[q] # Idle
      /\ i \in Intents /\ intent[i] # NoIntent /\ told[i] = "nothing"
  BY <1>1, Answering, UnderWay DEF Under, Created, RequestSound
<1>3. /\ told' \in [Intents -> {"nothing", "fund", "ready", "swallowed"}]
      /\ \A o \in Intents \ {i} : told'[o] = told[o]
      /\ request[q].funding.shortfall = 0 => told'[i] = "ready"
      /\ request' = [request EXCEPT ![q] = Idle]
  BY <1>1, <1>2 DEF IInv, TypeOK, Continue
<1>4. \A o \in Intents : Told(o) => Told(o)'
  BY <1>2, <1>3 DEF Told
<1>5. \A o \in Intents : Noticing(request[q], o) => Told(o)'
  BY <1>1, <1>2, <1>3 DEF Told, Noticing, Created
<1>6. /\ plan' \in Plan \cup {Nothing} /\ session' \in RampSession \cup {Nothing}
      /\ ClientSound'
  BY DEF IInv, TypeOK, ClientSound, Required
<1>7. UNCHANGED <<balance, match, intent>>
  OBVIOUS
<1> HIDE DEF NotifyCreated
<1> QED
  BY <1>1, <1>2, <1>3, <1>4, <1>5, <1>6, <1>7, LastStep

LEMMA NotifyReadyKeepsIInv ==
  ASSUME IInv, NEW q \in Requests, NotifyReady(q) PROVE IInv'
<1> USE DEF NotifyReady, match, client
<1>1. PICK i : i = request[q].of.intent
  OBVIOUS
<1>2. request[q] # Idle /\ i \in Intents /\ intent[i] # NoIntent
  BY <1>1, Answering
<1>3. /\ told' \in [Intents -> {"nothing", "fund", "ready", "swallowed"}]
      /\ \A o \in Intents \ {i} : told'[o] = told[o]
      /\ told'[i] = "ready"
      /\ request' = [request EXCEPT ![q] = Idle]
  BY <1>1, <1>2 DEF IInv, TypeOK, Continue
<1>4. \A o \in Intents : Told(o) => Told(o)'
  BY <1>2, <1>3 DEF Told
<1>5. \A o \in Intents : Noticing(request[q], o) => Told(o)'
  BY <1>1, <1>3 DEF Told, Noticing
<1>6. /\ plan' \in Plan \cup {Nothing} /\ session' \in RampSession \cup {Nothing}
      /\ ClientSound'
  BY DEF IInv, TypeOK, ClientSound, Required
<1>7. UNCHANGED <<balance, match, intent>>
  OBVIOUS
<1> HIDE DEF NotifyReady
<1> QED
  BY <1>1, <1>2, <1>3, <1>4, <1>5, <1>6, <1>7, LastStep

\* What an answer promises of the wallet, and who it is for.
LEMMA AnswerSuffices ==
  ASSUME IInv, NEW q \in Requests, Under(q, "answer"), request[q].of.kind # "create",
         request[q].funding.fresh
  PROVE  balance + request[q].funding.shortfall >= Required(request[q].of.intent)
BY Answering, UnderWay DEF RequestSound, AmountOf, ReserveOf, Required

LEMMA OpenSessionKeepsIInv ==
  ASSUME IInv, NEW q \in Requests, OpenSession(q) PROVE IInv'
<1> USE DEF OpenSession, match, client
<1>1. PICK i, n, fresh : /\ i = request[q].of.intent
                         /\ n = request[q].funding.shortfall
                         /\ fresh = request[q].funding.fresh
  OBVIOUS
<1>2. /\ request[q] # Idle /\ request[q].of.kind = "onramp"
      /\ i \in Intents /\ intent[i] # NoIntent /\ n \in 0..MaxI64 /\ fresh \in BOOLEAN
      /\ fresh => balance + n >= Required(i)
  BY <1>1, Answering, AnswerSuffices
<1>3. /\ UNCHANGED <<balance, match, intent, plan, told>>
      /\ request' = [request EXCEPT ![q] = Idle]
      /\ session' = IF n > 0 THEN [intent |-> i, amount |-> n, fresh |-> fresh] ELSE session
  BY <1>1 DEF Continue, SessionAmount
<1> HIDE DEF OpenSession
<1>4. session' \in RampSession \cup {Nothing} /\ plan' \in Plan \cup {Nothing}
  BY <1>2, <1>3, PaymentAssumption DEF IInv, TypeOK, RampSession
<1>5. ClientSound'
  <2>1. CASE n > 0
    BY <1>2, <1>3, <2>1 DEF IInv, ClientSound, Required
  <2>2. CASE ~(n > 0)
    BY <1>3, <2>2 DEF IInv, ClientSound, Required
  <2> QED
    BY <2>1, <2>2
<1>6. \A o \in Intents : ~Noticing(request[q], o) /\ (Told(o) => Told(o)')
  BY <1>2, <1>3 DEF Noticing, Told, Created
<1>7. told' \in [Intents -> {"nothing", "fund", "ready", "swallowed"}]
  BY <1>3 DEF IInv, TypeOK
<1> QED
  BY <1>2, <1>3, <1>4, <1>5, <1>6, <1>7, LastStep

LEMMA BuildPlanKeepsIInv ==
  ASSUME IInv, NEW q \in Requests, BuildPlan(q) PROVE IInv'
<1> USE DEF BuildPlan, match, client
<1>1. PICK i, n, fresh : /\ i = request[q].of.intent
                         /\ n = request[q].funding.shortfall
                         /\ fresh = request[q].funding.fresh
  OBVIOUS
<1>2. /\ request[q] # Idle /\ request[q].of.kind = "ptb"
      /\ i \in Intents /\ intent[i] # NoIntent /\ n \in 0..MaxI64 /\ fresh \in BOOLEAN
      /\ fresh => balance + n >= Required(i)
  BY <1>1, Answering, AnswerSuffices
<1>3. /\ UNCHANGED <<balance, match, intent, session, told>>
      /\ request' = [request EXCEPT ![q] = Idle]
      /\ plan' = plan \/ (n = 0 /\ plan' = [intent |-> i, fresh |-> fresh])
  BY <1>1 DEF Continue
<1> HIDE DEF BuildPlan
<1>4. session' \in RampSession \cup {Nothing} /\ plan' \in Plan \cup {Nothing}
  BY <1>2, <1>3 DEF IInv, TypeOK, Plan
<1>5. ClientSound'
  <2>1. CASE plan' = plan
    BY <1>3, <2>1 DEF IInv, ClientSound, Required
  <2>2. CASE n = 0 /\ plan' = [intent |-> i, fresh |-> fresh]
    <3>1. balance \in Int
      BY PaymentAssumption DEF IInv, TypeOK
    <3> QED
      BY <1>2, <1>3, <2>2, <3>1 DEF IInv, ClientSound, Required
  <2> QED
    BY <1>3, <2>1, <2>2
<1>6. \A o \in Intents : ~Noticing(request[q], o) /\ (Told(o) => Told(o)')
  BY <1>2, <1>3 DEF Noticing, Told, Created
<1>7. told' \in [Intents -> {"nothing", "fund", "ready", "swallowed"}]
  BY <1>3 DEF IInv, TypeOK
<1> QED
  BY <1>2, <1>3, <1>4, <1>5, <1>6, <1>7, LastStep

LEMMA FailKeepsIInv ==
  ASSUME IInv, NEW q \in Requests, Fail(q) PROVE IInv'
<1> USE DEF Fail, match, client
<1>1. PICK i : i = request[q].of.intent
  OBVIOUS
<1>2. /\ request[q] # Idle /\ i \in Intents
      /\ request[q].pc = "answer" => intent[i] # NoIntent
  BY <1>1, Answering, UnderWay, FieldTypes DEF Under
<1>3. /\ told' \in [Intents -> {"nothing", "fund", "ready", "swallowed"}]
      /\ \A o \in Intents : told'[o] # told[o] => o = i /\ request[q].pc = "answer"
      /\ told'[i] = told[i] \/ told'[i] = "swallowed"
      /\ request' = [request EXCEPT ![q] = Idle]
      /\ UNCHANGED <<balance, match, intent, plan, session>>
  BY <1>1, <1>2 DEF IInv, TypeOK, Continue
<1>4. \A o \in Intents : Noticing(request[q], o) => Told(o)'
  BY <1>1, <1>2 DEF IInv, TypeOK, Told, Noticing, Created
<1> HIDE DEF Fail
<1>5. \A o \in Intents : Told(o) => Told(o)'
  BY <1>3 DEF Told
<1>6. /\ plan' \in Plan \cup {Nothing} /\ session' \in RampSession \cup {Nothing}
      /\ ClientSound'
  BY <1>3 DEF IInv, TypeOK, ClientSound, Required
<1> QED
  BY <1>1, <1>2, <1>3, <1>4, <1>5, <1>6, LastStep

-----------------------------------------------------------------------------
\* The balance grows, or nothing that concerns requests changes: what was read
\* is still enough.
LEMMA RequestsEndure ==
  ASSUME IInv, UNCHANGED <<intent, request, told>>, balance' \in Int, balance' >= balance
  PROVE  RequestsSound' /\ Exclusive' /\ ReadyNoticed' /\ Untold'
<1>1. \A i \in Intents : Noticed(i)' = Noticed(i)
  BY DEF Noticed, Told
<1>2. ASSUME NEW q \in Requests PROVE RequestSound(request[q])'
  <2>1. PICK x : x = request[q]
    OBVIOUS
  <2>2. RequestSound(x) /\ x \in RequestState
    BY <2>1, UnderWay
  <2>3. AmountOf(x.of)' = AmountOf(x.of) /\ ReserveOf(x.of)' = ReserveOf(x.of)
    BY DEF AmountOf, ReserveOf
  <2>4. Funded(x) /\ x.funding.fresh =>
          balance' + x.funding.shortfall >= AmountOf(x.of) + ReserveOf(x.of)
    <3>1. SUFFICES ASSUME Funded(x), x.funding.fresh
                   PROVE  balance' + x.funding.shortfall >= AmountOf(x.of) + ReserveOf(x.of)
      OBVIOUS
    <3>2. x # Idle /\ x.funding.shortfall \in Int /\ x.of.intent \in Intents
      BY <2>2, <3>1, FieldTypes, PaymentAssumption DEF Funded
    <3>3. Created(x) \/ intent[x.of.intent] # NoIntent
      BY <2>2, <3>2 DEF RequestSound
    <3>4. AmountOf(x.of) \in Int /\ ReserveOf(x.of) \in Int
      BY <2>1, <3>2, <3>3, AmountTypes, PaymentAssumption
    <3>5. balance + x.funding.shortfall >= AmountOf(x.of) + ReserveOf(x.of)
      BY <2>2, <3>1 DEF RequestSound
    <3> QED
      BY <3>2, <3>4, <3>5, PaymentAssumption DEF IInv, TypeOK
  <2>5. x # Idle => x.of.intent \in Intents
    BY <2>2, FieldTypes
  <2>6. RequestSound(x)'
    BY <1>1, <2>2, <2>3, <2>4, <2>5 DEF RequestSound
  <2> QED
    BY <2>1, <2>6
<1> QED
  BY <1>1, <1>2 DEF IInv, RequestsSound, Exclusive, Apart, ReadyNoticed, Untold

LEMMA DepositKeepsIInv == ASSUME IInv, Deposit PROVE IInv'
<1> USE DEF Deposit, match, client
<1>1. balance \in 0..MaxBalance /\ balance' = balance + 1 /\ balance' \in 0..MaxBalance
  BY PaymentAssumption DEF IInv, TypeOK
<1>2. RequestsSound' /\ Exclusive' /\ ReadyNoticed' /\ Untold'
  BY <1>1, RequestsEndure, PaymentAssumption
<1>3. TypeOK'
  BY <1>1 DEF IInv, TypeOK
<1>4. plan # Nothing /\ plan.fresh => balance' >= Required(plan.intent)
  <2>1. plan # Nothing => plan.intent \in Intents /\ intent[plan.intent] # NoIntent
    BY DEF IInv, TypeOK, Plan, ClientSound
  <2>2. plan # Nothing => Required(plan.intent) \in Int
    BY <2>1, IntentTypes, PaymentAssumption DEF IInv, Required
  <2> QED
    BY <1>1, <2>2, PaymentAssumption DEF IInv, ClientSound
<1>5. session # Nothing /\ session.fresh => balance' + session.amount >= Required(session.intent)
  <2>1. session # Nothing => /\ session.intent \in Intents /\ intent[session.intent] # NoIntent
                             /\ session.amount \in Int
    BY PaymentAssumption DEF IInv, TypeOK, RampSession, ClientSound
  <2>2. session # Nothing => Required(session.intent) \in Int
    BY <2>1, IntentTypes, PaymentAssumption DEF IInv, Required
  <2> QED
    BY <1>1, <2>1, <2>2, PaymentAssumption DEF IInv, ClientSound
<1>6. ClientSound'
  BY <1>4, <1>5 DEF IInv, ClientSound, Required
<1> QED
  BY <1>2, <1>3, <1>6 DEF IInv

LEMMA PaySessionKeepsIInv == ASSUME IInv, PaySession PROVE IInv'
<1> USE DEF PaySession, match, client
<1>1. /\ balance \in 0..MaxBalance /\ session.amount \in 1..MaxI64
      /\ balance' = balance + session.amount /\ balance' \in 0..MaxBalance
  BY PaymentAssumption DEF IInv, TypeOK, RampSession
<1>2. RequestsSound' /\ Exclusive' /\ ReadyNoticed' /\ Untold'
  BY <1>1, RequestsEndure, PaymentAssumption
<1>3. TypeOK'
  BY <1>1 DEF IInv, TypeOK
<1>4. plan # Nothing /\ plan.fresh => balance' >= Required(plan.intent)
  <2>1. plan # Nothing => plan.intent \in Intents /\ intent[plan.intent] # NoIntent
    BY DEF IInv, TypeOK, Plan, ClientSound
  <2>2. plan # Nothing => Required(plan.intent) \in Int
    BY <2>1, IntentTypes, PaymentAssumption DEF IInv, Required
  <2> QED
    BY <1>1, <2>2, PaymentAssumption DEF IInv, ClientSound
<1>5. ClientSound'
  BY <1>4 DEF IInv, ClientSound, Required
<1> QED
  BY <1>2, <1>3, <1>5 DEF IInv

\* Something has left the wallet: no request counts on its balance any more.
LEMMA StaleStep ==
  ASSUME IInv, request' = StaleRequests, UNCHANGED <<intent, told>>
  PROVE  /\ request' \in [Requests -> RequestState]
         /\ RequestsSound' /\ Exclusive' /\ ReadyNoticed' /\ Untold'
<1>1. ASSUME NEW q \in Requests
      PROVE  /\ request'[q] \in RequestState
             /\ request'[q].pc = request[q].pc
             /\ request'[q] # Idle <=> request[q] # Idle
             /\ request[q] # Idle => request'[q].of = request[q].of
             /\ Funded(request[q]) =>
                  /\ request'[q].funding.shortfall = request[q].funding.shortfall
                  /\ request'[q].funding.fresh = FALSE
  <2>1. PICK x : x = request[q]
    OBVIOUS
  <2>2. x \in RequestState
    BY <2>1, UnderWay
  <2>3. CASE x \in [pc : {"store", "answer"}, of : CreatePaymentIntentRequest \cup RowRequest,
                     funding : PaymentIntentFunding]
    <3>1. PICK y : y = [x EXCEPT !.funding.fresh = FALSE]
      OBVIOUS
    <3>2. /\ y \in [pc : {"store", "answer"}, of : CreatePaymentIntentRequest \cup RowRequest,
                     funding : PaymentIntentFunding]
          /\ y.pc = x.pc /\ y.of = x.of /\ y.funding.shortfall = x.funding.shortfall
          /\ y.funding.fresh = FALSE
      BY <2>3, <3>1 DEF PaymentIntentFunding
    <3>3. y \in RequestState /\ y # Idle /\ x # Idle
      BY <2>3, <3>2 DEF RequestState, Idle
    <3>4. request'[q] = y
      BY <2>1, <2>3, <3>1, <3>3 DEF StaleRequests
    <3> QED
      BY <2>1, <3>2, <3>3, <3>4
  <2>4. CASE x \notin [pc : {"store", "answer"}, of : CreatePaymentIntentRequest \cup RowRequest,
                        funding : PaymentIntentFunding]
    <3>1. x.pc \notin {"store", "answer"}
      BY <2>2, <2>4 DEF RequestState, Idle
    <3>2. request'[q] = x
      BY <2>1, <3>1 DEF StaleRequests
    <3> QED
      BY <2>1, <2>2, <3>1, <3>2 DEF Funded
  <2> QED
    BY <2>3, <2>4
<1>2. request' \in [Requests -> RequestState]
  <2>1. request' = [q \in Requests |-> request'[q]]
    BY DEF StaleRequests
  <2> QED
    BY <1>1, <2>1
<1>3. ASSUME NEW i \in Intents, Noticed(i) PROVE Noticed(i)'
  <2>1. ASSUME NEW q \in Requests, Noticing(request[q], i) PROVE Noticing(request'[q], i)
    BY <1>1, <2>1, UnderWay, FieldTypes DEF Noticing, Created, Funded
  <2> QED
    BY <1>3, <2>1 DEF Noticed, Told
<1>4. ASSUME NEW q \in Requests PROVE RequestSound(request[q])'
  <2>1. PICK x, y : x = request[q] /\ y = request'[q]
    OBVIOUS
  <2>2. RequestSound(x) /\ x \in RequestState
    BY <2>1, UnderWay
  <2>3. /\ y \in RequestState /\ y.pc = x.pc /\ (y # Idle <=> x # Idle)
        /\ x # Idle => y.of = x.of /\ x.of.intent \in Intents
        /\ Funded(x) => y.funding.shortfall = x.funding.shortfall /\ y.funding.fresh = FALSE
        /\ x.pc \in {"balance", "store", "answer"} => x # Idle
    BY <1>1, <2>1, <2>2, FieldTypes
  <2>4. RequestSound(y)'
    BY <1>3, <2>2, <2>3 DEF RequestSound, Created, Funded
  <2> QED
    BY <2>1, <2>4
<1>5. ASSUME NEW q \in Requests, NEW o \in Requests, q # o
      PROVE  Apart(request'[q], request'[o])
  <2>1. Apart(request[q], request[o])
    BY <1>5 DEF IInv, Exclusive
  <2> QED
    BY <1>1, <2>1 DEF Apart, Created
<1> QED
  BY <1>2, <1>3, <1>4, <1>5 DEF IInv, RequestsSound, Exclusive, ReadyNoticed, Untold

LEMMA StaleIsStale ==
  /\ plan \in Plan \cup {Nothing} =>
       /\ Stale(plan) \in Plan \cup {Nothing}
       /\ Stale(plan) # Nothing => /\ plan # Nothing /\ Stale(plan).intent = plan.intent
                                   /\ Stale(plan).fresh = FALSE
  /\ session \in RampSession \cup {Nothing} =>
       /\ Stale(session) \in RampSession \cup {Nothing}
       /\ Stale(session) # Nothing =>
            /\ session # Nothing /\ Stale(session).intent = session.intent
            /\ Stale(session).fresh = FALSE
BY DEF Stale, Plan, RampSession

LEMMA SpendKeepsIInv == ASSUME IInv, Spend PROVE IInv'
<1> USE DEF Spend, match
<1>1. balance' \in 0..MaxBalance
  BY PaymentAssumption DEF IInv, TypeOK
<1>2. /\ request' \in [Requests -> RequestState]
      /\ RequestsSound' /\ Exclusive' /\ ReadyNoticed' /\ Untold'
  BY StaleStep
<1>3. TypeOK'
  BY <1>1, <1>2, StaleIsStale DEF IInv, TypeOK
<1>4. ClientSound'
  BY StaleIsStale DEF IInv, TypeOK, ClientSound
<1> QED
  BY <1>2, <1>3, <1>4 DEF IInv

LEMMA StakeOnChainKeepsIInv == ASSUME IInv, StakeOnChain PROVE IInv'
<1> USE DEF StakeOnChain, match
<1>1. plan.intent \in Intents /\ intent[plan.intent] # NoIntent
  BY DEF IInv, TypeOK, Plan, ClientSound
<1>2. balance' \in 0..MaxBalance
  BY <1>1, IntentTypes, PaymentAssumption DEF IInv, TypeOK
<1>3. /\ request' \in [Requests -> RequestState]
      /\ RequestsSound' /\ Exclusive' /\ ReadyNoticed' /\ Untold'
  BY StaleStep
<1>4. TypeOK'
  BY <1>2, <1>3, StaleIsStale DEF IInv, TypeOK
<1>5. ClientSound'
  BY StaleIsStale DEF IInv, TypeOK, ClientSound
<1> QED
  BY <1>3, <1>4, <1>5 DEF IInv

\* Steps of the match, and stuttering.
LEMMA MatchStepKeepsIInv ==
  ASSUME IInv, UNCHANGED <<balance, intent, request, client, told>>,
         accepting' \in BOOLEAN, poolSet' \in BOOLEAN
  PROVE  IInv'
<1> USE DEF client
<1>1. RequestsSound' /\ Exclusive' /\ ReadyNoticed' /\ Untold'
  BY RequestsEndure, PaymentAssumption DEF IInv, TypeOK
<1>2. TypeOK' /\ ClientSound'
  BY DEF IInv, TypeOK, ClientSound, Required
<1> QED
  BY <1>1, <1>2 DEF IInv

-----------------------------------------------------------------------------
LEMMA InitIInv == ASSUME Init PROVE IInv
<1> USE DEF Init
<1>1. TypeOK
  <2>1. balance \in 0..MaxBalance
    BY PaymentAssumption
  <2>2. Idle \in RequestState
    BY DEF RequestState
  <2> QED
    BY <2>1, <2>2 DEF TypeOK
<1>2. RequestsSound /\ Exclusive
  BY IdleIsSound DEF RequestsSound, Exclusive, Apart
<1>3. ClientSound /\ ReadyNoticed /\ Untold
  BY DEF ClientSound, ReadyNoticed, Untold
<1> QED
  BY <1>1, <1>2, <1>3 DEF IInv

LEMMA NextKeepsIInv == ASSUME IInv, [Next]_vars PROVE IInv'
<1>1. ASSUME NEW q \in Requests, NEW i \in Intents, NEW a \in Amounts, NEW r \in Reserves,
             ReceiveCreate(q, i, a, r)
      PROVE  IInv'
  BY <1>1, ReceiveCreateKeepsIInv
<1>2. ASSUME NEW q \in Requests, NEW i \in Known, ReceiveGet(q, i) PROVE IInv'
  <2>1. i \in Intents /\ intent[i] # NoIntent
    BY DEF Known, Unused
  <2>2. intent[i].status \in Statuses
    BY <2>1, IntentTypes DEF IInv
  <2>3. PICK of : of = [kind |-> "get", intent |-> i, previous |-> intent[i].status]
    OBVIOUS
  <2>4. of \in RowRequest /\ of.previous = intent[of.intent].status
    BY <2>1, <2>2, <2>3 DEF RowRequest
  <2> QED
    BY <1>2, <2>3, <2>4, ReceiveRefreshKeepsIInv DEF ReceiveGet
<1>3. ASSUME NEW q \in Requests, NEW i \in Known, NEW k \in {"onramp", "ptb"},
             ReceiveRefresh(q, [kind |-> k, intent |-> i])
      PROVE  IInv'
  <2>1. PICK of : of = [kind |-> k, intent |-> i]
    OBVIOUS
  <2>2. of \in RowRequest /\ of.kind # "get"
    BY <2>1 DEF RowRequest, Known
  <2> QED
    BY <1>3, <2>1, <2>2, ReceiveRefreshKeepsIInv
<1>4. ASSUME NEW q \in Requests, Step(q) \/ Fail(q) PROVE IInv'
  BY <1>4, ReadBalanceKeepsIInv, CreateIntentKeepsIInv, UpdateFundingKeepsIInv,
     NotifyCreatedKeepsIInv, NotifyReadyKeepsIInv, OpenSessionKeepsIInv, BuildPlanKeepsIInv,
     FailKeepsIInv DEF Step
<1>5. CASE Deposit \/ Spend \/ PaySession \/ StakeOnChain
  BY <1>5, DepositKeepsIInv, SpendKeepsIInv, PaySessionKeepsIInv, StakeOnChainKeepsIInv
<1>6. CASE ConfigurePool \/ CloseMatch \/ UNCHANGED vars
  BY <1>6, MatchStepKeepsIInv DEF ConfigurePool, CloseMatch, vars, match, IInv, TypeOK
<1> QED
  BY <1>1, <1>2, <1>3, <1>4, <1>5, <1>6 DEF Next, Step

\* The invariant holds in every state of every behaviour.
THEOREM Invariance == Spec => []IInv
<1>1. Init => IInv
  BY InitIInv
<1>2. IInv /\ [Next]_vars => IInv'
  BY NextKeepsIInv
<1> QED
  BY <1>1, <1>2, PTL DEF Spec

\* Every row, request, plan and session has its type: no sum of an amount and a
\* reserve, and no shortfall, exceeds an i64.
THEOREM TypeCorrect == Spec => []TypeOK
<1>1. IInv => TypeOK
  BY DEF IInv
<1> QED
  BY <1>1, Invariance, PTL

\* Whoever has an intent that is ready has been told so, is being told, or has
\* lost the notice.
THEOREM UserIsTold == Spec => []ReadyIsNoticed
<1>1. ASSUME IInv PROVE ReadyIsNoticed
  <2>1. \A q \in Requests, i \in Intents : Noticing(request[q], i) =>
          /\ Under(q, "answer") /\ request[q].of.intent = i
          /\ request[q].of.kind \in {"create", "get"}
    BY DEF Noticing, Under, Created
  <2> QED
    BY <1>1, <2>1 DEF IInv, ReadyNoticed, ReadyIsNoticed, Noticed, Told, Unused
<1> QED
  BY <1>1, Invariance, PTL

\* A stake whose plan is fresh leaves the reserve in the wallet.
THEOREM ReserveStays == Spec => ReserveKept
<1>1. ASSUME IInv, NEW i \in Intents, StakeOnChain, plan.intent = i, plan.fresh
      PROVE  balance' >= intent[i].reserve
  <2>1. intent[i] # NoIntent /\ balance >= Required(i)
    BY <1>1 DEF StakeOnChain, IInv, ClientSound
  <2> QED
    BY <1>1, <2>1, IntentTypes, PaymentAssumption DEF StakeOnChain, IInv, TypeOK, Required
<1>2. IInv => \A i \in Intents :
                StakeOnChain /\ plan.intent = i /\ plan.fresh => balance' >= intent[i].reserve
  BY <1>1
<1> QED
  BY <1>2, Invariance, PTL DEF ReserveKept

\* A session that is fresh brings what its intent lacks.
THEOREM SessionSuffices == Spec => SessionFundsIntent
<1>1. ASSUME IInv, PaySession, session.fresh PROVE balance' >= Required(session.intent)
  BY <1>1 DEF PaySession, IInv, ClientSound
<1> QED
  BY <1>1, Invariance, PTL DEF SessionFundsIntent
=============================================================================
