-------------------------- MODULE WagerIndexProofs --------------------------
(***************************************************************************)
(* Proofs about the wager index for every set of wallets and requests,     *)
(* however the statements of the requests interleave and fail: the row     *)
(* never runs ahead of the chain, the platform pays only a winner that     *)
(* both participants have declared, declarations that agree are noticed,   *)
(* losses are counted against losers and failed payments are shown.        *)
(***************************************************************************)
EXTENDS WagerIndex, TLAPS

\* No client sends POST /status a status that claims a step on chain.
ModestClients == SetStatuses \cap {"active", "cancelled"} = {}

OnChain == status[Wager]
Sides == {Initiator, Challenger}
BothSaid(x) ==
  Challenger \in People /\ x \in said[Initiator] \cap said[Challenger]

\* The wager on chain is the initiator's, and its challenger is the named one
\* from the moment there is one.
ChainSound ==
  /\ OnChain = "none" => row = NoRow /\ wager[Wager] = Chain!Unborn
  /\ OnChain # "none" =>
       /\ wager[Wager] \in Chain!WagerObject
       /\ wager[Wager].initiator = Initiator
       /\ wager[Wager].stake = Stake
       /\ named \in {NoAddress, Challenger}
  /\ Challenger \in Wallet
  /\ OnChain \in {"active", "resolved"} => Challenger \in People

RowSound ==
  Indexed =>
    /\ row.challenger \in {NoAddress, Challenger}
    /\ row.winner \in Sides \cup {NoAddress}
    /\ row.creatorPick # NoAddress =>
         row.creatorPick \in said[Initiator] \cap Sides
    /\ row.challengerPick # NoAddress =>
         /\ Challenger \in People
         /\ row.challengerPick \in said[Challenger] \cap Sides
    /\ ModestClients =>
         /\ row.status = "active" => OnChain \in {"active", "resolved"}
         /\ row.status = "cancelled" => OnChain = "cancelled"

\* What a request has read, or is about to write, stays true until it does.
RequestSound(r) ==
  /\ r \in RequestState
  /\ r \notin {Unsent, Done} => Indexed
  /\ r.pc = "accept" =>
       /\ OnChain \in {"active", "resolved"}
       /\ r.who = Challenger
       /\ r.seen.winner \in Sides \cup {NoAddress}
  /\ r.pc = "set_status" =>
       (ModestClients => /\ r.to # "active"
                         /\ r.to = "cancelled" => OnChain = "cancelled")
  /\ r.pc = "declare" => r.who \in Sides /\ r.pick \in Sides
  /\ r.pc = "resolve" => BothSaid(r.pick) /\ r.pick \in Sides
  /\ r.pc \in {"count_win", "count_loss", "pay"} =>
       BothSaid(r.pick) /\ r.pick \in agreed

RequestsSound == \A q \in Requests : RequestSound(request[q])

\* The inductive invariant: the payment relies on what the request has read
\* three statements before, the row on what the chain can no longer undo.
IInv == TypeOK /\ ChainSound /\ RowSound /\ RequestsSound /\ PaidAsDeclared

\* What a step may do to the facts that other requests rely on.
Advances ==
  /\ Challenger \in People => Challenger' = Challenger
  /\ OnChain \in {"active", "resolved"} => OnChain' \in {"active", "resolved"}
  /\ OnChain = "cancelled" => OnChain' = "cancelled"
  /\ Indexed => Indexed'
  /\ \A p \in People : said[p] \subseteq said'[p]
  /\ agreed \subseteq agreed'

-----------------------------------------------------------------------------
(* Requests.                                                               *)

\* A request carries the fields of its next statement.
LEMMA FieldTypes ==
  ASSUME NEW r \in RequestState
  PROVE  /\ r.pc = "accept" => r.who \in People /\ r.seen \in Row
         /\ r.pc = "set_status" => r.to \in RowStatus
         /\ r.pc = "declare" => r.who \in People /\ r.pick \in People
         /\ r.pc \in {"resolve", "count_win", "pay"} => r.pick \in People
         /\ r.pc = "count_loss" => r.pick \in People /\ r.loser \in People
         /\ r.pc = "mark" => r.error \in BOOLEAN
BY DEF RequestState, Unsent, Done

\* A request that does not move stays sound.
LEMMA FrameRequest ==
  ASSUME ChainSound, Advances, NEW r, RequestSound(r)
  PROVE  RequestSound(r)'
<1> USE WagerIndexAssumption DEF RequestSound, Advances, ChainSound
<1>0. /\ Challenger \in People \cup {NoAddress}
      /\ Initiator \in People /\ NoAddress \notin People
  BY DEF Wallet
<1> DEFINE C == Challenger
           D == Challenger'
<1>1. \A x \in People : x \in Sides => x \in Sides'
  BY <1>0 DEF Sides
<1>2. \A x : BothSaid(x) => BothSaid(x)'
  BY <1>0 DEF BothSaid
<1>3. r \in RequestState
  OBVIOUS
<1>4. r \notin {Unsent, Done} => Indexed'
  OBVIOUS
<1>5. r.pc = "accept" =>
        /\ OnChain' \in {"active", "resolved"}
        /\ r.who = Challenger'
        /\ r.seen.winner \in (Sides \cup {NoAddress})'
  BY <1>0 DEF Sides
<1>6. r.pc = "declare" => r.who \in Sides' /\ r.pick \in Sides'
  BY <1>1, <1>3, FieldTypes
<1>7. r.pc = "resolve" => BothSaid(r.pick)' /\ r.pick \in Sides'
  BY <1>1, <1>2, <1>3, FieldTypes
<1>8. r.pc \in {"count_win", "count_loss", "pay"} =>
        BothSaid(r.pick)' /\ r.pick \in agreed'
  BY <1>2
<1> QED
  BY <1>3, <1>4, <1>5, <1>6, <1>7, <1>8

\* A step that moves one request to a sound state keeps them all sound.
LEMMA FrameRequests ==
  ASSUME IInv, Advances, NEW q \in Requests, NEW n, RequestSound(n)',
         request' = [request EXCEPT ![q] = n]
  PROVE  RequestsSound' /\ request' \in [Requests -> RequestState]
<1> USE DEF IInv, RequestsSound
<1>1. n \in RequestState
  BY DEF RequestSound
<1>2. request \in [Requests -> RequestState]
  BY DEF TypeOK
<1>3. request' \in [Requests -> RequestState]
  BY <1>1, <1>2
<1>4. ASSUME NEW o \in Requests PROVE RequestSound(request[o])'
  <2>1. PICK r : r = request[o]
    OBVIOUS
  <2>2. CASE o = q
    <3>1. request'[o] = n
      BY <2>2, <1>2
    <3> QED
      BY <3>1 DEF RequestSound
  <2>3. CASE o # q
    <3>1. request'[o] = r
      BY <2>1, <2>3, <1>2
    <3>2. RequestSound(r)
      BY <2>1
    <3>3. RequestSound(r)'
      BY <3>2, FrameRequest
    <3> QED
      BY <3>1, <3>3 DEF RequestSound
  <2> QED
    BY <2>2, <2>3
<1> QED
  BY <1>3, <1>4

\* A request that is answered, or whose last statement sets the error, relies
\* on nothing.
LEMMA DoneIsSound == RequestSound(Done)'
BY DEF RequestSound, RequestState, Done, Unsent

\* What it takes for a step of a request to keep the invariant.
LEMMA RequestStep ==
  ASSUME IInv, UNCHANGED chain,
         row' \in Row \cup {NoRow}, Indexed => Indexed',
         Indexed' => OnChain # "none", RowSound',
         disputed' \subseteq People, failures' \in Nat,
         wins' \in [People -> Nat], losses' \in [People -> Nat],
         said' \in [People -> SUBSET People], agreed' \subseteq People,
         \A p \in People : said[p] \subseteq said'[p], agreed \subseteq agreed',
         NEW q \in Requests, NEW n, RequestSound(n)',
         request' = [request EXCEPT ![q] = n]
  PROVE  IInv'
<1>0. /\ UNCHANGED <<clock, wager, status, vault, net, named>>
      /\ OnChain' = OnChain /\ Challenger' = Challenger
  BY DEF chain, OnChain, Challenger
<1>1. Advances
  BY <1>0 DEF Advances
<1>2. RequestsSound' /\ request' \in [Requests -> RequestState]
  BY <1>1, FrameRequests
<1>3. TypeOK'
  BY <1>0, <1>2 DEF IInv, TypeOK, Chain!TypeOK
<1>4. ChainSound'
  BY <1>0 DEF IInv, ChainSound, Indexed, OnChain, Challenger
<1>5. PaidAsDeclared'
  <2>1. SUFFICES ASSUME OnChain = "resolved"
                 PROVE  wager[Wager].winner \in
                          said'[Initiator] \cap said'[Challenger] \cap agreed'
    BY <1>0 DEF PaidAsDeclared, OnChain, Challenger
  <2>2. Challenger \in People /\ Initiator \in People
    BY <2>1, WagerIndexAssumption DEF IInv, ChainSound
  <2> QED
    BY <2>1, <2>2 DEF IInv, PaidAsDeclared, OnChain
<1> QED
  BY <1>2, <1>3, <1>4, <1>5 DEF IInv

\* A step of a request that leaves the row and the history alone.
LEMMA ReadStep ==
  ASSUME IInv, UNCHANGED <<chain, row, history>>,
         disputed' \subseteq People, failures' \in Nat,
         wins' \in [People -> Nat], losses' \in [People -> Nat],
         NEW q \in Requests, NEW n, RequestSound(n)',
         request' = [request EXCEPT ![q] = n]
  PROVE  IInv'
<1>0. /\ UNCHANGED <<row, said, agreed>>
      /\ OnChain' = OnChain /\ Challenger' = Challenger
  BY DEF chain, history, OnChain, Challenger
<1>1. row \in Row \cup {NoRow} /\ (Indexed => OnChain # "none")
  BY DEF IInv, TypeOK, ChainSound, Indexed
<1>2. RowSound'
  BY <1>0 DEF IInv, RowSound, Indexed, Sides
<1>3. said \in [People -> SUBSET People] /\ agreed \subseteq People
  BY DEF IInv, TypeOK
<1>4. /\ row' \in Row \cup {NoRow} /\ (Indexed => Indexed')
      /\ Indexed' => OnChain # "none"
      /\ said' \in [People -> SUBSET People] /\ agreed' \subseteq People
      /\ \A p \in People : said[p] \subseteq said'[p]
      /\ agreed \subseteq agreed'
  BY <1>0, <1>1, <1>3 DEF Indexed
<1> QED
  BY <1>2, <1>4, RequestStep

-----------------------------------------------------------------------------
(* The statements.                                                         *)

\* create_wager: the named challenger is the chain's, or nobody.
LEMMA CreateKeepsIInv ==
  ASSUME IInv, NEW q \in Requests, CreateWager(q)
  PROVE  IInv'
<1> USE WagerIndexAssumption DEF CreateWager, Receive
<1>0. /\ UNCHANGED <<wager, status, named, said, agreed>>
      /\ OnChain' = OnChain /\ Challenger' = Challenger
      /\ OnChain # "none"
  BY DEF chain, history, OnChain, Challenger
<1>1. named \in {NoAddress, Challenger} /\ named \in Wallet
  BY <1>0 DEF IInv, ChainSound, TypeOK
<1>2. row \in Row \cup {NoRow}
  BY DEF IInv, TypeOK
<1>3. /\ row'.challenger = named /\ row'.status = "open"
      /\ row'.winner = NoAddress
      /\ row'.creatorPick = IF Indexed THEN row.creatorPick ELSE NoAddress
      /\ row'.challengerPick = IF Indexed THEN row.challengerPick ELSE NoAddress
  OBVIOUS
<1>4. row' \in Row
  BY <1>1, <1>2 DEF Row, RowStatus, Wallet, Indexed
<1>5. row' # NoRow
  BY <1>3 DEF NoRow
<1>6. RowSound'
  BY <1>0, <1>1, <1>3 DEF IInv, RowSound, Sides
<1>7. RequestSound(Done)'
  BY DoneIsSound
<1> QED
  BY <1>0, <1>4, <1>5, <1>6, <1>7, RequestStep DEF IInv, TypeOK, Indexed, users

\* accept_wager reads a row whose winner, if any, is a participant.
LEMMA ReceiveAcceptKeepsIInv ==
  ASSUME IInv, NEW q \in Requests, NEW p \in People, ReceiveAccept(q, p)
  PROVE  IInv'
<1> USE WagerIndexAssumption DEF ReceiveAccept, OnlyRequests, Receive
<1>0. /\ UNCHANGED <<chain, row, history>>
      /\ Indexed' /\ OnChain' = OnChain /\ Challenger' = Challenger
  BY DEF chain, Indexed, OnChain, Challenger
<1>1. row \in Row
  BY DEF IInv, TypeOK, Indexed
<1>2. PICK n : n = [pc |-> "accept", who |-> p, seen |-> row]
  OBVIOUS
<1>3. n \in RequestState
  BY <1>1, <1>2 DEF RequestState
<1>4. row.winner \in Sides \cup {NoAddress} /\ p = Challenger
  BY DEF IInv, RowSound, Challenger
<1>5. RequestSound(n)'
  BY <1>0, <1>2, <1>3, <1>4 DEF RequestSound, OnChain, Sides
<1> QED
  BY <1>0, <1>2, <1>5, ReadStep DEF IInv, TypeOK, users

\* cancel_wager runs after the cancellation on chain.
LEMMA ReceiveCancelKeepsIInv ==
  ASSUME IInv, NEW q \in Requests, ReceiveCancel(q)
  PROVE  IInv'
<1> USE WagerIndexAssumption DEF ReceiveCancel, OnlyRequests, Receive, CancelStatus, DeclineStatus
<1>0. /\ UNCHANGED <<chain, row, history>>
      /\ Indexed' /\ OnChain' = OnChain /\ Challenger' = Challenger
  BY DEF chain, Indexed, OnChain, Challenger
<1>1. row \in Row
  BY DEF IInv, TypeOK, Indexed
<1>2. PICK n : n = [pc |-> "set_status", to |-> CancelStatus]
  OBVIOUS
<1>3. n \in RequestState
  BY <1>2 DEF RequestState, RowStatus
<1>4. ModestClients => n.to # "active" /\ (n.to = "cancelled" => OnChain = "cancelled")
  BY <1>2 DEF ModestClients, OnChain
<1>5. RequestSound(n)'
  BY <1>0, <1>2, <1>3, <1>4 DEF RequestSound
<1> QED
  BY <1>0, <1>2, <1>5, ReadStep DEF IInv, TypeOK, users

\* decline_wager claims nothing of the chain.
LEMMA ReceiveDeclineKeepsIInv ==
  ASSUME IInv, NEW q \in Requests, NEW p \in People, ReceiveDecline(q, p)
  PROVE  IInv'
<1> USE WagerIndexAssumption DEF ReceiveDecline, OnlyRequests, Receive, CancelStatus, DeclineStatus
<1>0. /\ UNCHANGED <<chain, row, history>>
      /\ Indexed' /\ OnChain' = OnChain /\ Challenger' = Challenger
  BY DEF chain, Indexed, OnChain, Challenger
<1>1. row \in Row
  BY DEF IInv, TypeOK, Indexed
<1>2. PICK n : n = [pc |-> "set_status", to |-> DeclineStatus]
  OBVIOUS
<1>3. n \in RequestState
  BY <1>2 DEF RequestState, RowStatus
<1>4. ModestClients => n.to # "active" /\ (n.to = "cancelled" => OnChain = "cancelled")
  BY <1>2 DEF ModestClients, OnChain
<1>5. RequestSound(n)'
  BY <1>0, <1>2, <1>3, <1>4 DEF RequestSound
<1> QED
  BY <1>0, <1>2, <1>5, ReadStep DEF IInv, TypeOK, users

\* update_wager_status claims what its client claims.
LEMMA ReceiveStatusKeepsIInv ==
  ASSUME IInv, NEW q \in Requests, NEW s \in SetStatuses, ReceiveStatus(q, s)
  PROVE  IInv'
<1> USE WagerIndexAssumption DEF ReceiveStatus, OnlyRequests, Receive, CancelStatus, DeclineStatus
<1>0. /\ UNCHANGED <<chain, row, history>>
      /\ Indexed' /\ OnChain' = OnChain /\ Challenger' = Challenger
  BY DEF chain, Indexed, OnChain, Challenger
<1>1. row \in Row
  BY DEF IInv, TypeOK, Indexed
<1>2. PICK n : n = [pc |-> "set_status", to |-> s]
  OBVIOUS
<1>3. n \in RequestState
  BY <1>2 DEF RequestState, RowStatus
<1>4. ModestClients => n.to # "active" /\ (n.to = "cancelled" => OnChain = "cancelled")
  BY <1>2 DEF ModestClients, OnChain
<1>5. RequestSound(n)'
  BY <1>0, <1>2, <1>3, <1>4 DEF RequestSound
<1> QED
  BY <1>0, <1>2, <1>5, ReadStep DEF IInv, TypeOK, users

\* submit_dispute records who disputes.
LEMMA ReceiveDisputeKeepsIInv ==
  ASSUME IInv, NEW q \in Requests, NEW p \in People, ReceiveDispute(q, p)
  PROVE  IInv'
<1> USE WagerIndexAssumption DEF ReceiveDispute, Receive
<1>0. /\ UNCHANGED <<chain, row, history>>
      /\ Indexed' /\ OnChain' = OnChain /\ Challenger' = Challenger
  BY DEF chain, Indexed, OnChain, Challenger
<1>1. row \in Row
  BY DEF IInv, TypeOK, Indexed
<1>2. PICK n : n = [pc |-> "set_status", to |-> "disputed"]
  OBVIOUS
<1>3. n \in RequestState
  BY <1>2 DEF RequestState, RowStatus
<1>5. RequestSound(n)'
  BY <1>0, <1>2, <1>3 DEF RequestSound
<1>6. disputed' \subseteq People
  BY DEF IInv, TypeOK
<1> QED
  BY <1>0, <1>2, <1>5, <1>6, ReadStep DEF IInv, TypeOK, users

\* declare_winner takes participants of the row, who are those of the chain.
LEMMA ReceiveDeclarationKeepsIInv ==
  ASSUME IInv, NEW q \in Requests, NEW p \in People, NEW x \in People, ReceiveDeclaration(q, p, x)
  PROVE  IInv'
<1> USE WagerIndexAssumption DEF ReceiveDeclaration, OnlyRequests, Receive
<1>0. /\ UNCHANGED <<chain, row, history>>
      /\ Indexed' /\ OnChain' = OnChain /\ Challenger' = Challenger
  BY DEF chain, Indexed, OnChain, Challenger
<1>1. row \in Row
  BY DEF IInv, TypeOK, Indexed
<1>2. PICK n : n = [pc |-> "declare", who |-> p, pick |-> x]
  OBVIOUS
<1>3. n \in RequestState
  BY <1>2 DEF RequestState
<1>4. p \in Sides /\ x \in Sides
  BY DEF IInv, RowSound, Participants, Sides
<1>5. RequestSound(n)'
  BY <1>0, <1>2, <1>3, <1>4 DEF RequestSound, Sides
<1> QED
  BY <1>0, <1>2, <1>5, ReadStep DEF IInv, TypeOK, users

\* What a request that is under way relies on.
LEMMA UnderWay ==
  ASSUME IInv, NEW q \in Requests, request[q].pc \notin {"unsent", "done"}
  PROVE  /\ RequestSound(request[q]) /\ Indexed /\ row \in Row
         /\ OnChain # "none"
<1>1. RequestSound(request[q])
  BY DEF IInv, RequestsSound
<1>2. Indexed
  BY <1>1 DEF RequestSound, Unsent, Done
<1> QED
  BY <1>1, <1>2 DEF IInv, TypeOK, ChainSound, Indexed

\* accept_wager writes the row back with the challenger of the chain.
LEMMA WriteAcceptKeepsIInv ==
  ASSUME IInv, NEW q \in Requests, WriteAccept(q)
  PROVE  IInv'
<1> USE WagerIndexAssumption DEF WriteAccept, Continue
<1>0. /\ UNCHANGED <<wager, status, said, agreed>>
      /\ OnChain' = OnChain /\ Challenger' = Challenger
  BY DEF chain, history, OnChain, Challenger
<1>1. PICK r : r = request[q]
  OBVIOUS
<1>2. RequestSound(r) /\ Indexed /\ row \in Row /\ OnChain # "none"
  BY <1>1, UnderWay
<1>3. r.who \in People /\ r.seen \in Row
  BY <1>1, <1>2, FieldTypes DEF RequestSound
<1>4. row' = [row EXCEPT !.challenger = r.who, !.status = "active",
                         !.winner = r.seen.winner, !.error = r.seen.error]
  BY <1>1
<1>5. row' \in Row
  BY <1>2, <1>3, <1>4 DEF Row, RowStatus, Wallet
<1>6. row' # NoRow
  BY <1>2, <1>4 DEF NoRow, Row
<1>7. RowSound'
  BY <1>0, <1>1, <1>2, <1>4 DEF IInv, RowSound, Sides, RequestSound, Row
<1>8. RequestSound(Done)'
  BY DoneIsSound
<1> QED
  BY <1>0, <1>2, <1>5, <1>6, <1>7, <1>8, RequestStep
  DEF IInv, TypeOK, Indexed, users

\* The UPDATE of a status writes one that the request vouches for.
LEMMA WriteStatusKeepsIInv ==
  ASSUME IInv, NEW q \in Requests, WriteStatus(q)
  PROVE  IInv'
<1> USE WagerIndexAssumption DEF WriteStatus, Continue
<1>0. /\ UNCHANGED <<wager, status, said, agreed>>
      /\ OnChain' = OnChain /\ Challenger' = Challenger
  BY DEF chain, history, OnChain, Challenger
<1>1. PICK r : r = request[q]
  OBVIOUS
<1>2. RequestSound(r) /\ Indexed /\ row \in Row /\ OnChain # "none"
  BY <1>1, UnderWay
<1>3. r.to \in RowStatus
  BY <1>1, <1>2, FieldTypes DEF RequestSound
<1>4. row' = [row EXCEPT !.status = r.to]
  BY <1>1
<1>5. row' \in Row
  BY <1>2, <1>3, <1>4 DEF Row
<1>6. row' # NoRow
  BY <1>3, <1>2, <1>4 DEF NoRow, Row, RowStatus
<1>7. RowSound'
  BY <1>0, <1>1, <1>2, <1>4 DEF IInv, RowSound, Sides, RequestSound, Row
<1>8. RequestSound(Done)'
  BY DoneIsSound
<1> QED
  BY <1>0, <1>2, <1>5, <1>6, <1>7, <1>8, RequestStep
  DEF IInv, TypeOK, Indexed, users

\* The UPDATE of a declaration: the column is that of the wallet that declares.
LEMMA StoreDeclarationKeepsIInv ==
  ASSUME IInv, NEW q \in Requests, StoreDeclaration(q)
  PROVE  IInv'
<1> USE WagerIndexAssumption DEF StoreDeclaration, StoreThen, Continue
<1>0. /\ UNCHANGED <<wager, status, agreed>>
      /\ OnChain' = OnChain /\ Challenger' = Challenger
  BY DEF chain, OnChain, Challenger
<1>1. PICK r : r = request[q]
  OBVIOUS
<1>2. RequestSound(r) /\ Indexed /\ row \in Row /\ OnChain # "none"
  BY <1>1, UnderWay
<1>3. r.who \in People \cap Sides /\ r.pick \in People \cap Sides
  BY <1>1, <1>2, FieldTypes DEF RequestSound
<1>4. /\ row' = IF r.who = Initiator
                 THEN [row EXCEPT !.creatorPick = r.pick]
                 ELSE [row EXCEPT !.challengerPick = r.pick]
      /\ said' = [said EXCEPT ![r.who] = @ \cup {r.pick}]
  BY <1>1 DEF Declared
<1>5. /\ said' \in [People -> SUBSET People]
      /\ \A p \in People : said[p] \subseteq said'[p]
      /\ r.pick \in said'[r.who]
  <2>1. said \in [People -> SUBSET People]
    BY DEF IInv, TypeOK
  <2>2. PICK w, x : w = r.who /\ x = r.pick
    OBVIOUS
  <2>3. /\ w \in People /\ x \in People
        /\ said' = [said EXCEPT ![w] = said[w] \cup {x}]
    BY <1>3, <1>4, <2>2
  <2>4. \A p \in People :
          said'[p] = IF p = w THEN said[w] \cup {x} ELSE said[p]
    BY <2>1, <2>3
  <2>5. said[w] \cup {x} \in SUBSET People
    BY <2>1, <2>3
  <2>6. said' \in [People -> SUBSET People]
    BY <2>1, <2>3, <2>5
  <2> HIDE DEF StoreDeclaration, StoreThen
  <2> QED
    BY <2>2, <2>3, <2>4, <2>6
<1>6. row' \in Row /\ row' # NoRow
  BY <1>2, <1>3, <1>4 DEF Row, Wallet, NoRow, RowStatus
<1>7. RowSound'
  <2>1. Initiator \in People
    OBVIOUS
  <2>2. /\ row'.challenger = row.challenger /\ row'.winner = row.winner
        /\ row'.status = row.status
    BY <1>2, <1>4 DEF Row
  <2>3. row'.creatorPick # NoAddress =>
          row'.creatorPick \in said'[Initiator] \cap Sides
    BY <1>2, <1>3, <1>4, <1>5, <2>1 DEF IInv, RowSound, Row
  <2>4. row'.challengerPick # NoAddress =>
          /\ Challenger \in People
          /\ row'.challengerPick \in said'[Challenger] \cap Sides
    <3>1. CASE r.who = Initiator
      <4>1. row'.challengerPick = row.challengerPick
        BY <1>2, <1>4, <3>1 DEF Row
      <4> QED
        BY <1>2, <1>5, <4>1 DEF IInv, RowSound
    <3>2. CASE r.who # Initiator
      <4>1. row'.challengerPick = r.pick /\ r.who = Challenger
        BY <1>2, <1>3, <1>4, <3>2 DEF Row, Sides
      <4> QED
        BY <1>3, <1>5, <4>1
    <3> QED
      BY <3>1, <3>2
  <2> QED
    BY <1>0, <1>2, <2>2, <2>3, <2>4 DEF IInv, RowSound, Sides
<1>8. PICK n : n = [pc |-> "compare"]
  OBVIOUS
<1>9. RequestSound(n)'
  BY <1>6, <1>8 DEF RequestSound, RequestState, Indexed
<1> QED
  BY <1>0, <1>2, <1>5, <1>6, <1>7, <1>8, <1>9, RequestStep
  DEF IInv, TypeOK, Indexed, users

\* The SELECT: two declarations that agree were made by both participants.
LEMMA CompareKeepsIInv ==
  ASSUME IInv, NEW q \in Requests, CompareDeclarations(q)
  PROVE  IInv'
<1> USE WagerIndexAssumption DEF CompareDeclarations, OnlyRequests, Continue
<1>0. /\ UNCHANGED <<chain, row, history>>
      /\ OnChain' = OnChain /\ Challenger' = Challenger
      /\ UNCHANGED <<said, agreed>>
  BY DEF OnChain, Challenger, chain, history
<1>1. Indexed /\ row \in Row
  BY UnderWay
<1>2. PICK n : n = Compared(row)
  OBVIOUS
<1>3. CASE Agree(row)
  <2>1. /\ Challenger \in People
        /\ row.creatorPick \in said[Initiator] \cap said[Challenger] \cap Sides
        /\ row.creatorPick \in People
    BY <1>1, <1>3 DEF IInv, RowSound, Agree, Row, Wallet
  <2>2. n = [pc |-> "resolve", pick |-> row.creatorPick]
    BY <1>2, <1>3 DEF Compared
  <2>3. n \in RequestState
    BY <2>1, <2>2 DEF RequestState
  <2>4. RequestSound(n)'
    BY <1>0, <1>1, <2>1, <2>2, <2>3 DEF RequestSound, BothSaid, Indexed, Sides
  <2> QED
    BY <1>0, <1>2, <2>4, ReadStep DEF IInv, TypeOK, users
<1>4. CASE ~Agree(row)
  <2>1. n = Done /\ RequestSound(Done)'
    BY <1>2, <1>4, DoneIsSound DEF Compared
  <2> QED
    BY <1>0, <1>2, <2>1, ReadStep DEF IInv, TypeOK, users
<1> QED
  BY <1>3, <1>4

\* The UPDATE that resolves writes a winner both have declared.
LEMMA ResolveRowKeepsIInv ==
  ASSUME IInv, NEW q \in Requests, ResolveRow(q)
  PROVE  IInv'
<1> USE WagerIndexAssumption DEF ResolveRow, Continue
<1>0. /\ UNCHANGED <<wager, status, said>>
      /\ OnChain' = OnChain /\ Challenger' = Challenger
  BY DEF chain, OnChain, Challenger
<1>1. PICK r : r = request[q]
  OBVIOUS
<1>2. RequestSound(r) /\ Indexed /\ row \in Row /\ OnChain # "none"
  BY <1>1, UnderWay
<1>3. r.pick \in People \cap Sides /\ BothSaid(r.pick)
  BY <1>1, <1>2, FieldTypes DEF RequestSound
<1>4. /\ row' = [row EXCEPT !.status = "resolved", !.winner = r.pick,
                            !.error = FALSE]
      /\ agreed' = agreed \cup {r.pick}
  BY <1>1
<1>5. row' \in Row /\ row' # NoRow
  BY <1>2, <1>3, <1>4 DEF Row, Wallet, RowStatus, NoRow
<1>6. RowSound'
  BY <1>0, <1>2, <1>3, <1>4 DEF IInv, RowSound, Sides, Row
<1>7. PICK n : n = [pc |-> "count_win", pick |-> r.pick]
  OBVIOUS
<1>8. n \in RequestState
  BY <1>3, <1>7 DEF RequestState
<1>9. RequestSound(n)'
  BY <1>0, <1>3, <1>4, <1>5, <1>7, <1>8
  DEF RequestSound, BothSaid, Indexed
<1> QED
  BY <1>0, <1>1, <1>2, <1>3, <1>4, <1>5, <1>6, <1>7, <1>9, RequestStep
  DEF IInv, TypeOK, Indexed, users

\* The first UPDATE of record_wager_result.
LEMMA CountWinKeepsIInv ==
  ASSUME IInv, NEW q \in Requests, CountWin(q)
  PROVE  IInv'
<1> USE WagerIndexAssumption DEF CountWin, Continue
<1>0. /\ UNCHANGED <<chain, row, history>>
      /\ OnChain' = OnChain /\ Challenger' = Challenger
      /\ UNCHANGED <<said, agreed>>
  BY DEF OnChain, Challenger, chain, history
<1>1. PICK r : r = request[q]
  OBVIOUS
<1>2. RequestSound(r) /\ Indexed /\ row \in Row
  BY <1>1, UnderWay
<1>3. r.pick \in People /\ BothSaid(r.pick) /\ r.pick \in agreed
  BY <1>1, <1>2, FieldTypes DEF RequestSound
<1>4. PICK loser : loser = Loser(row, r.pick)
  OBVIOUS
<1>5. loser \in People \cup {NoAddress}
  BY <1>2, <1>4 DEF Loser, Row, Wallet
<1>6. PICK n : n = IF loser = NoAddress
                   THEN [pc |-> "pay", pick |-> r.pick]
                   ELSE [pc |-> "count_loss", pick |-> r.pick, loser |-> loser]
  OBVIOUS
<1>7. n \in RequestState
  BY <1>3, <1>5, <1>6 DEF RequestState
<1>8. RequestSound(n)'
  BY <1>0, <1>2, <1>3, <1>6, <1>7 DEF RequestSound, BothSaid, Indexed
<1>9. request' = [request EXCEPT ![q] = n] /\ wins' \in [People -> Nat]
  BY <1>1, <1>3, <1>4, <1>6 DEF IInv, TypeOK
<1> QED
  BY <1>0, <1>8, <1>9, ReadStep DEF IInv, TypeOK

\* The second UPDATE of record_wager_result.
LEMMA CountLossKeepsIInv ==
  ASSUME IInv, NEW q \in Requests, CountLoss(q)
  PROVE  IInv'
<1> USE WagerIndexAssumption DEF CountLoss, Continue
<1>0. /\ UNCHANGED <<chain, row, history>>
      /\ OnChain' = OnChain /\ Challenger' = Challenger
      /\ UNCHANGED <<said, agreed>>
  BY DEF OnChain, Challenger, chain, history
<1>1. PICK r : r = request[q]
  OBVIOUS
<1>2. RequestSound(r) /\ Indexed
  BY <1>1, UnderWay
<1>3. /\ r.pick \in People /\ BothSaid(r.pick) /\ r.pick \in agreed
      /\ r.loser \in People
  BY <1>1, <1>2, FieldTypes DEF RequestSound
<1>4. PICK n : n = [pc |-> "pay", pick |-> r.pick]
  OBVIOUS
<1>5. n \in RequestState
  BY <1>3, <1>4 DEF RequestState
<1>6. RequestSound(n)'
  BY <1>0, <1>2, <1>3, <1>4, <1>5 DEF RequestSound, BothSaid, Indexed
<1>7. request' = [request EXCEPT ![q] = n] /\ losses' \in [People -> Nat]
  BY <1>1, <1>3, <1>4 DEF IInv, TypeOK
<1> QED
  BY <1>0, <1>6, <1>7, ReadStep DEF IInv, TypeOK

\* The UPDATE of the error after the attempt.
LEMMA MarkAttemptKeepsIInv ==
  ASSUME IInv, NEW q \in Requests, MarkAttempt(q)
  PROVE  IInv'
<1> USE WagerIndexAssumption DEF MarkAttempt, Continue
<1>0. /\ UNCHANGED <<wager, status, said, agreed>>
      /\ OnChain' = OnChain /\ Challenger' = Challenger
  BY DEF chain, history, OnChain, Challenger
<1>1. PICK r : r = request[q]
  OBVIOUS
<1>2. RequestSound(r) /\ Indexed /\ row \in Row /\ OnChain # "none"
  BY <1>1, UnderWay
<1>3. r.error \in BOOLEAN
  BY <1>1, <1>2, FieldTypes DEF RequestSound
<1>4. row' = [row EXCEPT !.error = r.error]
  BY <1>1
<1>5. row' \in Row
  BY <1>2, <1>3, <1>4 DEF Row
<1>6. row' # NoRow
  BY <1>2, <1>4 DEF NoRow, Row, RowStatus
<1>7. RowSound'
  BY <1>0, <1>2, <1>4 DEF IInv, RowSound, Sides, Row
<1>8. RequestSound(Done)'
  BY DoneIsSound
<1> QED
  BY <1>0, <1>2, <1>5, <1>6, <1>7, <1>8, RequestStep
  DEF IInv, TypeOK, Indexed, users

\* A request that breaks off takes nothing back.
LEMMA FailKeepsIInv ==
  ASSUME IInv, NEW q \in Requests, Fail(q)
  PROVE  IInv'
<1> USE DEF Fail, Continue
<1>0. UNCHANGED <<chain, row, history, disputed, users>> /\ failures' \in Nat
  BY DEF IInv, TypeOK
<1>1. RequestSound(Done)'
  BY DoneIsSound
<1> QED
  BY <1>0, <1>1, ReadStep DEF IInv, TypeOK, users

-----------------------------------------------------------------------------
(* The chain.                                                              *)

\* What the row claims stays true when the chain moves.
LEMMA FrameRow ==
  ASSUME IInv, Advances, UNCHANGED row
  PROVE  RowSound'
<1> USE WagerIndexAssumption
<1>0. SUFFICES ASSUME row # NoRow PROVE RowSound'
  BY DEF RowSound, Indexed
<1>1. /\ row \in Row /\ Challenger \in Wallet
      /\ Challenger \in People => Challenger' = Challenger
      /\ Initiator \in People
  BY <1>0 DEF IInv, TypeOK, ChainSound, Advances
<1>2. /\ said[Initiator] \subseteq said'[Initiator]
      /\ Challenger \in People => said[Challenger] \subseteq said'[Challenger]
  BY <1>1 DEF Advances, Challenger
<1>3. Sides \ {NoAddress} \subseteq Sides'
  BY <1>1 DEF Sides, Wallet
<1>4. row.challenger \in {NoAddress, Challenger'}
  BY <1>0, <1>1 DEF IInv, RowSound, Indexed, Wallet
<1>5. row.winner \in Sides' \cup {NoAddress}
  BY <1>0, <1>3 DEF IInv, RowSound, Indexed
<1>6. row.creatorPick # NoAddress =>
        row.creatorPick \in said'[Initiator] \cap Sides'
  BY <1>0, <1>2, <1>3 DEF IInv, RowSound, Indexed
<1>7. row.challengerPick # NoAddress =>
        /\ Challenger' \in People
        /\ row.challengerPick \in said'[Challenger'] \cap Sides'
  BY <1>0, <1>1, <1>2, <1>3 DEF IInv, RowSound, Indexed
<1>8. ModestClients =>
        /\ row.status = "active" => OnChain' \in {"active", "resolved"}
        /\ row.status = "cancelled" => OnChain' = "cancelled"
  BY <1>0 DEF IInv, RowSound, Indexed, Advances
<1> QED
  BY <1>4, <1>5, <1>6, <1>7, <1>8 DEF RowSound

\* What it takes for a step on chain alone to keep the invariant.
LEMMA ChainStep ==
  ASSUME IInv, OnlyChain, Advances,
         Chain!TypeOK', named' \in Wallet, ChainSound', PaidAsDeclared'
  PROVE  IInv'
<1>0. UNCHANGED <<row, disputed, wins, losses, request, failures, said, agreed>>
  BY DEF OnlyChain, users, history
<1>1. TypeOK'
  BY <1>0 DEF IInv, TypeOK
<1>2. RowSound'
  BY <1>0, FrameRow
<1>3. RequestsSound'
  <2> SUFFICES ASSUME NEW o \in Requests PROVE RequestSound(request[o])'
    BY DEF RequestsSound
  <2>1. PICK r : r = request[o]
    OBVIOUS
  <2>2. RequestSound(r)'
    BY <2>1, FrameRequest DEF IInv, RequestsSound
  <2> QED
    BY <1>0, <2>1, <2>2 DEF RequestSound
<1> QED
  BY <1>1, <1>2, <1>3 DEF IInv

\* create_wager of the contract.
LEMMA CreateOnChainKeepsIInv ==
  ASSUME IInv, NEW c \in Wallet, CreateOnChain(c)
  PROVE  IInv'
<1> USE WagerIndexAssumption DEF CreateOnChain, Chain!CreateWager
<1>0. PICK obj : obj = [initiator |-> Initiator, challenger |-> c,
                        resolver |-> Platform, stake |-> Stake, expiry |-> 0,
                        winner |-> NoAddress]
  OBVIOUS
<1>1. obj \in Chain!WagerObject
  BY <1>0 DEF Chain!WagerObject, Wallet, Stake
<1>2. Chain!TypeOK
  BY DEF IInv, TypeOK
<1>3. wager'[Wager] = obj /\ status'[Wager] = "open" /\ named' = c
  BY <1>0, <1>2 DEF Chain!TypeOK
<1>4. OnChain = "none" /\ row = NoRow /\ Challenger = NoAddress
  BY DEF IInv, ChainSound, OnChain, Challenger, Chain!Unborn
<1>5. /\ OnChain' = "open" /\ Challenger' = c
  BY <1>0, <1>3 DEF OnChain, Challenger
<1>6. UNCHANGED <<row, said, agreed>>
  BY DEF OnlyChain, history
<1>7. Advances
  BY <1>4, <1>5, <1>6 DEF Advances, Indexed
<1>8. Chain!TypeOK'
  <2>1. wager' \in [{Wager} -> Chain!WagerObject \cup {Chain!Unborn}]
    BY <1>0, <1>1, <1>2 DEF Chain!TypeOK
  <2>2. status' \in [{Wager} -> Chain!Statuses]
    BY <1>2 DEF Chain!TypeOK, Chain!Statuses
  <2>3. vault' \in [{Wager} -> Nat]
    BY <1>2 DEF Chain!TypeOK, Stake
  <2>4. net' \in [{Wager} -> [People \cup {Platform} -> Int]]
    BY <1>2 DEF Chain!TypeOK, Stake
  <2> QED
    BY <1>2, <2>1, <2>2, <2>3, <2>4 DEF Chain!TypeOK
<1>9. ChainSound'
  BY <1>0, <1>1, <1>3, <1>5 DEF ChainSound
<1>10. PaidAsDeclared'
  BY <1>3 DEF PaidAsDeclared
<1> QED
  BY <1>3, <1>7, <1>8, <1>9, <1>10, ChainStep

\* accept_wager of the contract.
LEMMA AcceptOnChainKeepsIInv ==
  ASSUME IInv, NEW p \in People, AcceptOnChain(p)
  PROVE  IInv'
<1> USE WagerIndexAssumption
    DEF AcceptOnChain, Chain!AcceptWager, Chain!MayAccept, Chain!MatchesStake
<1>1. Chain!TypeOK
  BY DEF IInv, TypeOK
<1>2. OnChain = "open" /\ wager[Wager] \in Chain!WagerObject
  BY DEF IInv, ChainSound, OnChain
<1>3. /\ wager'[Wager] = [wager[Wager] EXCEPT !.challenger = p]
      /\ status'[Wager] = "active"
  BY <1>1, <1>2 DEF Chain!TypeOK, Chain!WagerObject
<1>4. OnChain' = "active" /\ Challenger' = p
  BY <1>2, <1>3 DEF OnChain, Challenger, Chain!WagerObject
<1>5. UNCHANGED <<row, said, agreed, named>>
  BY DEF OnlyChain, history
<1>6. Challenger \in {NoAddress, p}
  BY DEF Challenger
<1>7. Advances
  BY <1>2, <1>4, <1>5, <1>6 DEF Advances, Indexed
<1>8. wager'[Wager] \in Chain!WagerObject
  BY <1>2, <1>3 DEF Chain!WagerObject
<1>9. Chain!TypeOK'
  <2>1. wager' \in [{Wager} -> Chain!WagerObject \cup {Chain!Unborn}]
    BY <1>1, <1>3, <1>8 DEF Chain!TypeOK
  <2>2. status' \in [{Wager} -> Chain!Statuses]
    BY <1>1 DEF Chain!TypeOK, Chain!Statuses
  <2>3. vault' \in [{Wager} -> Nat]
    BY <1>1 DEF Chain!TypeOK, Stake
  <2>4. net' \in [{Wager} -> [People \cup {Platform} -> Int]]
    BY <1>1 DEF Chain!TypeOK, Stake
  <2> QED
    BY <1>1, <2>1, <2>2, <2>3, <2>4 DEF Chain!TypeOK
<1>10. ChainSound'
  <2>1. wager'[Wager].initiator = Initiator /\ wager'[Wager].stake = Stake
    BY <1>2, <1>3 DEF IInv, ChainSound, Chain!WagerObject
  <2>2. named' \in {NoAddress, p}
    BY <1>2, <1>5, <1>6 DEF IInv, ChainSound
  <2> QED
    BY <1>4, <1>8, <2>1, <2>2 DEF ChainSound, Wallet
<1>11. PaidAsDeclared'
  BY <1>3 DEF PaidAsDeclared
<1> QED
  BY <1>5, <1>7, <1>9, <1>10, <1>11, ChainStep DEF IInv, TypeOK

\* cancel_wager of the contract.
LEMMA CancelOnChainKeepsIInv ==
  ASSUME IInv, CancelOnChain
  PROVE  IInv'
<1> USE WagerIndexAssumption
    DEF CancelOnChain, Chain!CancelWager, Chain!Cancellable
<1>1. Chain!TypeOK
  BY DEF IInv, TypeOK
<1>2. OnChain = "open" /\ status'[Wager] = "cancelled"
  BY <1>1 DEF OnChain, Chain!TypeOK
<1>3. OnChain' = "cancelled" /\ Challenger' = Challenger
  BY <1>2 DEF OnChain, Challenger
<1>4. UNCHANGED <<row, said, agreed, named, wager>>
  BY DEF OnlyChain, history
<1>5. Advances
  BY <1>2, <1>3, <1>4 DEF Advances, Indexed
<1>6. Chain!TypeOK'
  <2>1. status' \in [{Wager} -> Chain!Statuses]
    BY <1>1 DEF Chain!TypeOK, Chain!Statuses
  <2>2. vault' \in [{Wager} -> Nat]
    BY <1>1 DEF Chain!TypeOK
  <2>3. net' \in [{Wager} -> [People \cup {Platform} -> Int]]
    BY <1>1 DEF Chain!TypeOK
  <2> QED
    BY <1>1, <2>1, <2>2, <2>3 DEF Chain!TypeOK
<1>7. ChainSound'
  BY <1>2, <1>3, <1>4 DEF IInv, ChainSound
<1>8. PaidAsDeclared'
  BY <1>2 DEF PaidAsDeclared
<1> QED
  BY <1>4, <1>5, <1>6, <1>7, <1>8, ChainStep DEF IInv, TypeOK

\* resolve_wager of the contract, from a request whose winner both declared.
LEMMA ResolveOnChain ==
  ASSUME IInv, NEW x, BothSaid(x), x \in agreed,
         Chain!ResolveWager(Platform, Wager, x),
         UNCHANGED <<named, row, history>>
  PROVE  /\ Chain!TypeOK' /\ named' \in Wallet
         /\ ChainSound' /\ RowSound' /\ PaidAsDeclared' /\ Advances
         /\ OnChain' = "resolved" /\ Challenger' = Challenger
<1> USE WagerIndexAssumption
    DEF Chain!ResolveWager, Chain!Participant, Chain!Prize
<1>1. Chain!TypeOK /\ named \in Wallet
  BY DEF IInv, TypeOK
<1>2. OnChain = "active" /\ wager[Wager] \in Chain!WagerObject
  BY DEF IInv, ChainSound, OnChain
<1>3. /\ x \in Sides /\ Challenger \in People /\ x \in People
      /\ x \in said[Initiator] \cap said[Challenger]
  BY <1>2 DEF IInv, ChainSound, Sides, Challenger, BothSaid
<1>4. /\ wager'[Wager] = [wager[Wager] EXCEPT !.winner = x]
      /\ status'[Wager] = "resolved"
  BY <1>1 DEF Chain!TypeOK
<1>5. OnChain' = "resolved" /\ Challenger' = Challenger
  BY <1>2, <1>4 DEF OnChain, Challenger, Chain!WagerObject
<1>6. UNCHANGED <<row, said, agreed, named>>
  BY DEF history
<1>7. Advances
  BY <1>2, <1>5, <1>6 DEF Advances, Indexed
<1>8. wager'[Wager] \in Chain!WagerObject
  BY <1>2, <1>3, <1>4 DEF Chain!WagerObject
<1>9. Chain!TypeOK'
  <2>1. wager' \in [{Wager} -> Chain!WagerObject \cup {Chain!Unborn}]
    BY <1>1, <1>4, <1>8 DEF Chain!TypeOK
  <2>2. status' \in [{Wager} -> Chain!Statuses]
    BY <1>1 DEF Chain!TypeOK, Chain!Statuses
  <2>3. vault' \in [{Wager} -> Nat]
    BY <1>1 DEF Chain!TypeOK
  <2>4. net' \in [{Wager} -> [People \cup {Platform} -> Int]]
    BY <1>1, <1>3 DEF Chain!TypeOK
  <2> QED
    BY <1>1, <2>1, <2>2, <2>3, <2>4 DEF Chain!TypeOK
<1>10. ChainSound'
  <2>1. wager'[Wager].initiator = Initiator /\ wager'[Wager].stake = Stake
    BY <1>2, <1>4 DEF IInv, ChainSound, Chain!WagerObject
  <2>2. named' \in {NoAddress, Challenger}
    BY <1>2, <1>6 DEF IInv, ChainSound
  <2> QED
    BY <1>3, <1>5, <1>8, <2>1, <2>2 DEF ChainSound, Wallet
<1>11. PaidAsDeclared'
  <2>1. wager'[Wager].winner = x
    BY <1>2, <1>4 DEF Chain!WagerObject
  <2> QED
    BY <1>3, <1>5, <1>6, <2>1 DEF PaidAsDeclared
<1>12. RowSound'
  BY <1>6, <1>7, FrameRow
<1> QED
  BY <1>1, <1>5, <1>6, <1>7, <1>9, <1>10, <1>11, <1>12

\* A paying request that goes on to mark its attempt relies on the row alone.
LEMMA MarkIsSound ==
  ASSUME IInv, NEW q \in Requests, request[q].pc = "pay", UNCHANGED row,
         NEW b \in BOOLEAN
  PROVE  RequestSound([pc |-> "mark", error |-> b])'
<1>1. PICK n : n = [pc |-> "mark", error |-> b]
  OBVIOUS
<1>2. n \in RequestState
  BY <1>1 DEF RequestState
<1>3. Indexed'
  BY UnderWay DEF Indexed
<1> QED
  BY <1>1, <1>2, <1>3 DEF RequestSound

\* A request that pays: whether the answer arrives, is lost, or the
\* transaction fails.
LEMMA PaidStep ==
  ASSUME IInv, NEW q \in Requests, request[q].pc = "pay",
         Chain!ResolveWager(Platform, Wager, request[q].pick),
         UNCHANGED <<named, row, disputed, users, history>>, failures' \in Nat,
         NEW b \in BOOLEAN,
         request' = [request EXCEPT ![q] = [pc |-> "mark", error |-> b]]
  PROVE  IInv'
<1>0. UNCHANGED <<row, disputed, wins, losses, said, agreed>>
  BY DEF users, history
<1>1. PICK r : r = request[q]
  OBVIOUS
<1>2. BothSaid(r.pick) /\ r.pick \in agreed
  BY <1>1, UnderWay DEF RequestSound
<1>3. /\ Chain!TypeOK' /\ named' \in Wallet
      /\ ChainSound' /\ RowSound' /\ PaidAsDeclared' /\ Advances
  BY <1>1, <1>2, ResolveOnChain
<1>4. PICK n : n = [pc |-> "mark", error |-> b]
  OBVIOUS
<1>5. RequestSound(n)'
  BY <1>4, MarkIsSound DEF RequestSound
<1>6. RequestsSound' /\ request' \in [Requests -> RequestState]
  BY <1>3, <1>4, <1>5, FrameRequests
<1>7. TypeOK'
  BY <1>0, <1>3, <1>6 DEF IInv, TypeOK
<1> QED
  BY <1>3, <1>6, <1>7 DEF IInv

\* resolve_wager_on_chain, answered.
LEMMA PayKeepsIInv ==
  ASSUME IInv, NEW q \in Requests, Pay(q)
  PROVE  IInv'
<1> USE DEF Pay, Continue, AttemptFailed
<1>1. CASE /\ Chain!ResolveWager(Platform, Wager, request[q].pick)
           /\ UNCHANGED named
           /\ Continue(q, [pc |-> "mark", error |-> AttemptFailed(TRUE)])
  <2>1. failures' \in Nat
    BY DEF IInv, TypeOK
  <2>2. PICK b \in BOOLEAN : b = ~TRUE
    OBVIOUS
  <2>3. request' = [request EXCEPT ![q] = [pc |-> "mark", error |-> b]]
    BY <1>1, <2>2
  <2> QED
    BY <1>1, <2>1, <2>3, PaidStep
<1>2. CASE /\ Continue(q, [pc |-> "mark", error |-> AttemptFailed(FALSE)])
           /\ UNCHANGED chain
  <2>1. UNCHANGED <<chain, row, history, disputed, users>> /\ failures' \in Nat
    BY <1>2 DEF IInv, TypeOK
  <2>2. PICK n : n = [pc |-> "mark", error |-> ~FALSE]
    OBVIOUS
  <2>3. RequestSound(n)'
    BY <2>2, MarkIsSound DEF RequestSound
  <2> QED
    BY <1>2, <2>1, <2>2, <2>3, ReadStep DEF IInv, TypeOK, users
<1> QED
  BY <1>1, <1>2

\* resolve_wager_on_chain, executed and not answered.
LEMMA PayUnheardKeepsIInv ==
  ASSUME IInv, NEW q \in Requests, PayUnheard(q)
  PROVE  IInv'
<1> USE DEF PayUnheard, Continue, AttemptFailed
<1>1. failures' \in Nat
  BY DEF IInv, TypeOK
<1>2. PICK b \in BOOLEAN : b = ~FALSE
  OBVIOUS
<1>3. request' = [request EXCEPT ![q] = [pc |-> "mark", error |-> b]]
  BY <1>2
<1> QED
  BY <1>1, <1>3, PaidStep

-----------------------------------------------------------------------------
(* The specification.                                                      *)

LEMMA InitIInv == Init => IInv
<1> SUFFICES ASSUME Init PROVE IInv
  OBVIOUS
<1> USE WagerIndexAssumption DEF Init
<1>1. Chain!TypeOK /\ wager[Wager] = Chain!Unborn /\ status[Wager] = "none"
  BY DEF Chain!Init, Chain!TypeOK, Chain!Statuses
<1>2. TypeOK
  <2>1. request \in [Requests -> RequestState]
    BY DEF RequestState
  <2>2. said \in [People -> SUBSET People] /\ agreed \subseteq People
    OBVIOUS
  <2>3. wins \in [People -> Nat] /\ losses \in [People -> Nat]
    OBVIOUS
  <2> QED
    BY <1>1, <2>1, <2>2, <2>3 DEF TypeOK, Wallet
<1>3. ChainSound
  BY <1>1 DEF ChainSound, OnChain, Challenger, Chain!Unborn, Wallet
<1>4. RowSound
  BY DEF RowSound, Indexed
<1>5. RequestsSound
  <2>1. RequestSound(Unsent)
    BY DEF RequestSound, RequestState, Unsent
  <2> QED
    BY <2>1 DEF RequestsSound
<1>6. PaidAsDeclared
  BY <1>1 DEF PaidAsDeclared
<1> QED
  BY <1>2, <1>3, <1>4, <1>5, <1>6 DEF IInv

LEMMA StutterKeepsIInv ==
  ASSUME IInv, UNCHANGED vars
  PROVE  IInv'
<1>0. /\ UNCHANGED <<clock, wager, status, vault, net, named, row, disputed,
                     wins, losses, request, failures, said, agreed>>
      /\ OnlyChain
  BY DEF vars, chain, users, history, OnlyChain
<1>1. OnChain' = OnChain /\ Challenger' = Challenger
  BY <1>0 DEF OnChain, Challenger
<1>2. Advances
  BY <1>0, <1>1 DEF Advances, Indexed
<1>3. Chain!TypeOK' /\ named' \in Wallet
  BY <1>0 DEF IInv, TypeOK, Chain!TypeOK
<1>4. ChainSound'
  BY <1>0, <1>1 DEF IInv, ChainSound
<1>5. PaidAsDeclared'
  BY <1>0, <1>1 DEF IInv, PaidAsDeclared
<1> QED
  BY <1>0, <1>2, <1>3, <1>4, <1>5, ChainStep

LEMMA NextKeepsIInv == IInv /\ [Next]_vars => IInv'
<1> SUFFICES ASSUME IInv, [Next]_vars PROVE IInv'
  OBVIOUS
<1>1. ASSUME NEW c \in Wallet, CreateOnChain(c) PROVE IInv'
  BY <1>1, CreateOnChainKeepsIInv
<1>2. ASSUME NEW p \in People, AcceptOnChain(p) PROVE IInv'
  BY <1>2, AcceptOnChainKeepsIInv
<1>3. CASE CancelOnChain
  BY <1>3, CancelOnChainKeepsIInv
<1>4. ASSUME NEW q \in Requests, CreateWager(q) PROVE IInv'
  BY <1>4, CreateKeepsIInv
<1>5. ASSUME NEW q \in Requests, NEW p \in People, ReceiveAccept(q, p)
      PROVE  IInv'
  BY <1>5, ReceiveAcceptKeepsIInv
<1>6. ASSUME NEW q \in Requests, ReceiveCancel(q) PROVE IInv'
  BY <1>6, ReceiveCancelKeepsIInv
<1>7. ASSUME NEW q \in Requests, NEW p \in People, ReceiveDecline(q, p)
      PROVE  IInv'
  BY <1>7, ReceiveDeclineKeepsIInv
<1>8. ASSUME NEW q \in Requests, NEW s \in SetStatuses, ReceiveStatus(q, s)
      PROVE  IInv'
  BY <1>8, ReceiveStatusKeepsIInv
<1>9. ASSUME NEW q \in Requests, NEW p \in People, ReceiveDispute(q, p)
      PROVE  IInv'
  BY <1>9, ReceiveDisputeKeepsIInv
<1>10. ASSUME NEW q \in Requests, NEW p \in People, NEW x \in People,
              ReceiveDeclaration(q, p, x)
       PROVE  IInv'
  BY <1>10, ReceiveDeclarationKeepsIInv
<1>11. ASSUME NEW q \in Requests, WriteAccept(q) PROVE IInv'
  BY <1>11, WriteAcceptKeepsIInv
<1>12. ASSUME NEW q \in Requests, WriteStatus(q) PROVE IInv'
  BY <1>12, WriteStatusKeepsIInv
<1>13. ASSUME NEW q \in Requests, StoreDeclaration(q) PROVE IInv'
  BY <1>13, StoreDeclarationKeepsIInv
<1>14. ASSUME NEW q \in Requests, CompareDeclarations(q) PROVE IInv'
  BY <1>14, CompareKeepsIInv
<1>15. ASSUME NEW q \in Requests, ResolveRow(q) PROVE IInv'
  BY <1>15, ResolveRowKeepsIInv
<1>16. ASSUME NEW q \in Requests, CountWin(q) PROVE IInv'
  BY <1>16, CountWinKeepsIInv
<1>17. ASSUME NEW q \in Requests, CountLoss(q) PROVE IInv'
  BY <1>17, CountLossKeepsIInv
<1>18. ASSUME NEW q \in Requests, Pay(q) PROVE IInv'
  BY <1>18, PayKeepsIInv
<1>19. ASSUME NEW q \in Requests, PayUnheard(q) PROVE IInv'
  BY <1>19, PayUnheardKeepsIInv
<1>20. ASSUME NEW q \in Requests, MarkAttempt(q) PROVE IInv'
  BY <1>20, MarkAttemptKeepsIInv
<1>21. ASSUME NEW q \in Requests, Fail(q) PROVE IInv'
  BY <1>21, FailKeepsIInv
<1>22. CASE UNCHANGED vars
  BY <1>22, StutterKeepsIInv
<1> QED
  BY <1>1, <1>2, <1>3, <1>4, <1>5, <1>6, <1>7, <1>8, <1>9, <1>10, <1>11,
     <1>12, <1>13, <1>14, <1>15, <1>16, <1>17, <1>18, <1>19, <1>20, <1>21,
     <1>22
  DEF Next

LEMMA Invariance == Spec => []IInv
BY InitIInv, NextKeepsIInv, PTL DEF Spec

\* Every variable keeps its type, and with it every request the fields of the
\* statement it is about to execute.
THEOREM TypeCorrect == Spec => []TypeOK
<1>1. IInv => TypeOK
  BY DEF IInv
<1> QED
  BY <1>1, Invariance, PTL

\* The platform pays only a winner that both participants have declared,
\* whatever the other requests write between the comparison of the
\* declarations and the payment, and whichever of them break off.
THEOREM PaymentAsDeclared == Spec => []PaidAsDeclared
<1>1. IInv => PaidAsDeclared
  BY DEF IInv
<1> QED
  BY <1>1, Invariance, PTL

\* If no client claims through POST /status a step that it has not made on
\* chain, the row of table wagers never runs ahead of the contract.
THEOREM RowNeverAhead ==
  ASSUME ModestClients
  PROVE  Spec => []RowFollowsChain
<1>1. IInv => RowFollowsChain
  BY DEF IInv, RowSound, RowFollowsChain, Sides, OnChain
<1> QED
  BY <1>1, Invariance, PTL

-----------------------------------------------------------------------------
(* What the declarations lead to.  Each fact names the request that still  *)
(* has to do its part; as long as no request broke off there is one.       *)

\* A request that will still see that the row's declarations agree.
Comparing(r, pick) == r.pc = "compare" \/ (r.pc = "resolve" /\ r.pick = pick)

Noticing ==
  (failures = 0 /\ Indexed /\ Agree(row)) =>
    \/ row.creatorPick \in agreed
    \/ \E q \in Requests : Comparing(request[q], row.creatorPick)

\* A wager is resolved between two wallets, and a loss is counted against a
\* wallet other than the winner.
Duel ==
  /\ (Indexed /\ row.challengerPick # NoAddress) => Challenger # Initiator
  /\ \A q \in Requests :
       /\ request[q].pc \in {"resolve", "count_win"} => Challenger # Initiator
       /\ request[q].pc = "count_loss" => request[q].loser # request[q].pick
  /\ \A p \in People : losses[p] > 0 => \E x \in agreed : x # p

\* No client sets a status back to open.
NoReopening == "open" \notin SetStatuses

Paying == {"count_win", "count_loss", "pay", "mark"}

\* An open row has no winner that accept_wager could write back, and a winner
\* that is not paid shows the error or is still being paid.
Shown ==
  /\ (Indexed /\ row.status = "open") => row.winner = NoAddress
  /\ \A q \in Requests :
       /\ request[q].pc = "accept" => request[q].seen.winner = NoAddress
       /\ request[q].pc = "set_status" => request[q].to # "open"
       /\ (request[q].pc = "mark" /\ ~request[q].error) => OnChain = "resolved"
  /\ (failures = 0 /\ Indexed /\ row.winner # NoAddress /\ OnChain # "resolved") =>
       row.error \/ \E q \in Requests : request[q].pc \in Paying

\* One request moves.
LEMMA OneMoves ==
  ASSUME IInv, NEW q \in Requests, NEW n, request' = [request EXCEPT ![q] = n]
  PROVE  request'[q] = n /\ \A o \in Requests \ {q} : request'[o] = request[o]
BY DEF IInv, TypeOK

LEMMA NoticingStep ==
  ASSUME IInv, Noticing, NEW q \in Requests, NEW n,
         request' = [request EXCEPT ![q] = n],
         failures' = 0 => failures = 0, agreed \subseteq agreed',
         (failures' = 0 /\ Indexed' /\ Agree(row)') =>
           \/ row'.creatorPick \in agreed'
           \/ Comparing(n, row'.creatorPick)
           \/ /\ Indexed /\ Agree(row) /\ row'.creatorPick = row.creatorPick
              /\ request[q].pc \notin {"compare", "resolve"}
  PROVE  Noticing'
<1>1. request'[q] = n /\ \A o \in Requests \ {q} : request'[o] = request[o]
  BY OneMoves
<1> QED
  BY <1>1 DEF Noticing, Comparing

LEMMA DuelStep ==
  ASSUME IInv, Duel, NEW q \in Requests, NEW n,
         request' = [request EXCEPT ![q] = n], agreed \subseteq agreed',
         Challenger' = Challenger,
         (Indexed' /\ row'.challengerPick # NoAddress) => Challenger # Initiator,
         n.pc \in {"resolve", "count_win"} => Challenger # Initiator,
         n.pc = "count_loss" => n.loser # n.pick,
         \A p \in People : losses'[p] > 0 => losses[p] > 0 \/ \E x \in agreed' : x # p
  PROVE  Duel'
<1>1. request'[q] = n /\ \A o \in Requests \ {q} : request'[o] = request[o]
  BY OneMoves
<1> QED
  BY <1>1 DEF Duel

LEMMA ShownStep ==
  ASSUME IInv, Shown, NEW q \in Requests, NEW n,
         request' = [request EXCEPT ![q] = n], failures' = 0 => failures = 0,
         OnChain = "resolved" => OnChain' = "resolved",
         (Indexed' /\ row'.status = "open") => row'.winner = NoAddress,
         n.pc = "accept" => n.seen.winner = NoAddress,
         n.pc = "set_status" => n.to # "open",
         (n.pc = "mark" /\ ~n.error) => OnChain' = "resolved",
         (failures' = 0 /\ Indexed' /\ row'.winner # NoAddress /\ OnChain' # "resolved") =>
           \/ row'.error
           \/ n.pc \in Paying
           \/ /\ Indexed /\ row.winner # NoAddress /\ row'.error = row.error
              /\ request[q].pc \notin Paying
  PROVE  Shown'
<1>1. request'[q] = n /\ \A o \in Requests \ {q} : request'[o] = request[o]
  BY OneMoves
<1> QED
  BY <1>1 DEF Shown

FollowUp == Noticing /\ Duel /\ (NoReopening => Shown)

\* The checks of the handlers, up to their first write.
LEMMA ReceiptsFollow ==
  ASSUME IInv, FollowUp, NEW q \in Requests,
         \/ \E p \in People : ReceiveAccept(q, p)
         \/ ReceiveCancel(q)
         \/ \E p \in People : ReceiveDecline(q, p)
         \/ \E s \in SetStatuses : ReceiveStatus(q, s)
         \/ \E p \in People : ReceiveDispute(q, p)
         \/ \E p, x \in People : ReceiveDeclaration(q, p, x)
  PROVE  FollowUp'
<1>1. /\ UNCHANGED <<chain, row, users, failures, history>>
      /\ request[q] = Unsent /\ Indexed
  BY DEF ReceiveAccept, ReceiveCancel, ReceiveDecline, ReceiveStatus, ReceiveDispute,
         ReceiveDeclaration, Receive, OnlyRequests
<1>2. /\ UNCHANGED <<row, losses, failures, agreed>> /\ Indexed' /\ request[q].pc = "unsent"
      /\ OnChain' = OnChain /\ Challenger' = Challenger
  BY <1>1 DEF users, history, chain, OnChain, Challenger, Indexed, Unsent
<1>3. ASSUME NEW n, request' = [request EXCEPT ![q] = n],
             n.pc \in {"accept", "set_status", "declare"},
             n.pc = "accept" => row.status = "open" /\ n.seen = row,
             n.pc = "set_status" =>
               n.to \in {"cancelled", "declined", "disputed"} \cup SetStatuses
      PROVE  FollowUp'
  <2>1. Agree(row)' = Agree(row)
    BY <1>2 DEF Agree
  <2>2. Noticing'
    <3>1. (failures' = 0 /\ Indexed' /\ Agree(row)') =>
            /\ Indexed /\ Agree(row) /\ row'.creatorPick = row.creatorPick
            /\ request[q].pc \notin {"compare", "resolve"}
      BY <1>1, <1>2, <2>1
    <3>2. agreed \subseteq agreed' /\ (failures' = 0 => failures = 0) /\ Noticing
      BY <1>2 DEF FollowUp
    <3> QED
      BY <1>3, <3>1, <3>2, NoticingStep
  <2>3. Duel'
    BY <1>1, <1>2, <1>3, DuelStep DEF FollowUp, Duel
  <2>4. ASSUME NoReopening PROVE Shown'
    <3>1. n.pc = "accept" => n.seen.winner = NoAddress
      BY <1>1, <1>3, <2>4 DEF FollowUp, Shown
    <3>2. n.pc = "set_status" => n.to # "open"
      BY <1>3, <2>4 DEF NoReopening
    <3> QED
      BY <1>1, <1>2, <1>3, <2>4, <3>1, <3>2, ShownStep DEF FollowUp, Shown, Paying
  <2> QED
    BY <2>2, <2>3, <2>4 DEF FollowUp
<1>4. ASSUME NEW p \in People, ReceiveAccept(q, p) PROVE FollowUp'
  <2>1. PICK n : n = [pc |-> "accept", who |-> p, seen |-> row]
    OBVIOUS
  <2>2. n.pc = "accept" /\ n.seen = row /\ row.status = "open" /\ request' = [request EXCEPT ![q] = n]
    BY <1>4, <2>1 DEF ReceiveAccept, Receive
  <2> QED
    BY <1>3, <2>2
<1>5. ASSUME NEW s \in {"cancelled", "declined", "disputed"} \cup SetStatuses,
             Receive(q, [pc |-> "set_status", to |-> s])
      PROVE  FollowUp'
  <2>1. PICK n : n = [pc |-> "set_status", to |-> s]
    OBVIOUS
  <2>2. n.pc = "set_status" /\ n.to = s /\ request' = [request EXCEPT ![q] = n]
    BY <1>5, <2>1 DEF Receive
  <2> QED
    BY <1>3, <2>2
<1>6. ASSUME NEW p \in People, NEW x \in People, ReceiveDeclaration(q, p, x) PROVE FollowUp'
  <2>1. PICK n : n = [pc |-> "declare", who |-> p, pick |-> x]
    OBVIOUS
  <2>2. n.pc = "declare" /\ request' = [request EXCEPT ![q] = n]
    BY <1>6, <2>1 DEF ReceiveDeclaration, Receive
  <2> QED
    BY <1>3, <2>2
<1> QED
  BY <1>4, <1>5, <1>6
  DEF ReceiveCancel, ReceiveDecline, ReceiveStatus, ReceiveDispute, CancelStatus, DeclineStatus

\* A step on chain alone.
LEMMA ChainFollows ==
  ASSUME IInv, FollowUp, OnlyChain,
         Indexed => (Challenger # Initiator => Challenger' # Initiator),
         OnChain = "resolved" => OnChain' = "resolved"
  PROVE  FollowUp'
<1>1. UNCHANGED <<row, losses, request, failures, agreed>> /\ (Indexed' <=> Indexed)
  BY DEF OnlyChain, users, history, Indexed
<1>2. Agree(row)' = Agree(row)
  BY <1>1 DEF Agree
<1>3. Noticing'
  BY <1>1, <1>2 DEF FollowUp, Noticing, Comparing
<1>4. \A q \in Requests : request[q].pc \in {"resolve", "count_win"} => Indexed
  BY UnderWay
<1>5. Duel'
  BY <1>1, <1>4 DEF FollowUp, Duel
<1>6. NoReopening => Shown'
  BY <1>1 DEF FollowUp, Shown
<1> QED
  BY <1>3, <1>5, <1>6 DEF FollowUp

LEMMA ChainStepsFollow ==
  ASSUME IInv, FollowUp,
         \/ \E c \in Wallet : CreateOnChain(c)
         \/ \E p \in People : AcceptOnChain(p)
         \/ CancelOnChain
  PROVE  FollowUp'
<1> USE WagerIndexAssumption
<1>1. ASSUME NEW c \in Wallet, CreateOnChain(c) PROVE FollowUp'
  <2>1. OnChain = "none" /\ ~Indexed /\ OnlyChain
    BY <1>1 DEF CreateOnChain, Chain!CreateWager, OnChain, IInv, ChainSound, Indexed
  <2> QED
    BY <2>1, ChainFollows
<1>2. ASSUME NEW p \in People, AcceptOnChain(p) PROVE FollowUp'
  <2>1. OnChain = "open" /\ OnlyChain /\ wager[Wager] \in Chain!WagerObject
    BY <1>2 DEF AcceptOnChain, Chain!AcceptWager, OnChain, IInv, ChainSound
  <2>2. /\ p # wager[Wager].initiator
        /\ wager' = [wager EXCEPT ![Wager] = [wager[Wager] EXCEPT !.challenger = p]]
    BY <1>2 DEF AcceptOnChain, Chain!AcceptWager, Chain!MayAccept
  <2>3. wager \in [{Wager} -> Chain!WagerObject \cup {Chain!Unborn}]
    BY DEF IInv, TypeOK, Chain!TypeOK
  <2>4. wager'[Wager] = [wager[Wager] EXCEPT !.challenger = p]
    BY <2>2, <2>3
  <2>5. Challenger' = p
    BY <2>1, <2>4 DEF Challenger, Chain!WagerObject
  <2>6. Challenger' # Initiator
    BY <2>1, <2>2, <2>5 DEF IInv, ChainSound
  <2> QED
    BY <2>1, <2>6, ChainFollows
<1>3. CASE CancelOnChain
  <2>1. OnChain = "open" /\ OnlyChain /\ Challenger' = Challenger
    BY <1>3 DEF CancelOnChain, Chain!CancelWager, Chain!Cancellable, OnChain, Challenger
  <2> QED
    BY <2>1, ChainFollows
<1> QED
  BY <1>1, <1>2, <1>3

\* A statement of a request that leaves the chain alone.
LEMMA SameChain ==
  ASSUME UNCHANGED chain PROVE OnChain' = OnChain /\ Challenger' = Challenger
BY DEF chain, OnChain, Challenger

LEMMA CreateFollows ==
  ASSUME IInv, FollowUp, NEW q \in Requests, CreateWager(q)
  PROVE  FollowUp'
<1> USE DEF FollowUp
<1>1. /\ request' = [request EXCEPT ![q] = Done] /\ Done.pc = "done" /\ request[q].pc = "unsent"
      /\ OnChain' = OnChain /\ Challenger' = Challenger
      /\ UNCHANGED <<losses, failures, agreed>>
  BY SameChain DEF CreateWager, Receive, Done, Unsent, users, history
<1>2. /\ row'.status = "open" /\ row'.winner = NoAddress
      /\ row'.creatorPick = IF Indexed THEN row.creatorPick ELSE NoAddress
      /\ row'.challengerPick = IF Indexed THEN row.challengerPick ELSE NoAddress
  BY DEF CreateWager
<1>3. Noticing'
  <2>1. Agree(row)' => Indexed /\ Agree(row) /\ row'.creatorPick = row.creatorPick
    BY <1>2 DEF Agree
  <2> QED
    BY <1>1, <2>1, NoticingStep
<1>4. Duel'
  BY <1>1, <1>2, DuelStep DEF Duel
<1>5. NoReopening => Shown'
  BY <1>1, <1>2, ShownStep
<1> QED
  BY <1>3, <1>4, <1>5

\* accept_wager and update_wager_status write neither declarations nor winners.
LEMMA WritesFollow ==
  ASSUME IInv, FollowUp, NEW q \in Requests, WriteAccept(q) \/ WriteStatus(q)
  PROVE  FollowUp'
<1> USE DEF FollowUp
<1>1. /\ request' = [request EXCEPT ![q] = Done] /\ Done.pc = "done"
      /\ OnChain' = OnChain /\ Challenger' = Challenger
      /\ UNCHANGED <<losses, failures, agreed>>
      /\ request[q].pc \in {"accept", "set_status"}
  BY SameChain DEF WriteAccept, WriteStatus, Continue, Done, users, history
<1>2. Indexed /\ row \in Row
  BY <1>1, UnderWay
<1>3. /\ row'.creatorPick = row.creatorPick /\ row'.challengerPick = row.challengerPick
  BY <1>2 DEF WriteAccept, WriteStatus, Row
<1>4. Noticing'
  <2>1. Agree(row)' = Agree(row)
    BY <1>3 DEF Agree
  <2>2. (failures' = 0 /\ Indexed' /\ Agree(row)') =>
          /\ Indexed /\ Agree(row) /\ row'.creatorPick = row.creatorPick
          /\ request[q].pc \notin {"compare", "resolve"}
    BY <1>1, <1>2, <1>3, <2>1
  <2>3. agreed \subseteq agreed' /\ (failures' = 0 => failures = 0)
    BY <1>1
  <2> QED
    BY <1>1, <2>2, <2>3, NoticingStep
<1>5. Duel'
  BY <1>1, <1>2, <1>3, DuelStep DEF Duel
<1>6. ASSUME NoReopening PROVE Shown'
  <2>1. CASE WriteAccept(q)
    <3>1. row'.winner = NoAddress /\ row'.status = "active"
      BY <1>2, <1>6, <2>1 DEF WriteAccept, Shown, Row
    <3> QED
      BY <1>1, <1>6, <3>1, ShownStep
  <2>2. CASE WriteStatus(q)
    <3>1. row'.winner = row.winner /\ row'.error = row.error /\ row'.status # "open"
      BY <1>2, <1>6, <2>2 DEF WriteStatus, Shown, Row
    <3>2. request[q].pc \notin Paying
      BY <1>1 DEF Paying
    <3> QED
      BY <1>1, <1>2, <1>6, <3>1, <3>2, ShownStep
  <2> QED
    BY <2>1, <2>2
<1> QED
  BY <1>4, <1>5, <1>6

\* The UPDATE of a declaration: its own comparison comes after it.
LEMMA StoreFollows ==
  ASSUME IInv, FollowUp, NEW q \in Requests, StoreDeclaration(q)
  PROVE  FollowUp'
<1> USE DEF FollowUp
<1>1. PICK n : n = [pc |-> "compare"]
  OBVIOUS
<1>2. /\ request' = [request EXCEPT ![q] = n] /\ n.pc = "compare" /\ request[q].pc = "declare"
      /\ OnChain' = OnChain /\ Challenger' = Challenger
      /\ UNCHANGED <<losses, failures, agreed>>
  BY <1>1, SameChain DEF StoreDeclaration, StoreThen, Continue, users
<1>3. Indexed /\ row \in Row /\ RequestSound(request[q])
  BY <1>2, UnderWay
<1>4. PICK w, x : w = request[q].who /\ x = request[q].pick /\ w \in Sides
  BY <1>2, <1>3 DEF RequestSound
<1>5. row' = IF w = Initiator THEN [row EXCEPT !.creatorPick = x]
                              ELSE [row EXCEPT !.challengerPick = x]
  BY <1>4 DEF StoreDeclaration, StoreThen, Declared
<1>6. /\ row'.status = row.status /\ row'.winner = row.winner /\ row'.error = row.error
      /\ w = Initiator => row'.challengerPick = row.challengerPick
  BY <1>3, <1>5 DEF Row
<1>7. Noticing'
  <2>1. Comparing(n, row'.creatorPick)
    BY <1>2 DEF Comparing
  <2> QED
    BY <1>2, <2>1, NoticingStep
<1>8. Duel'
  <2>1. row'.challengerPick # NoAddress => Challenger # Initiator
    BY <1>3, <1>4, <1>6 DEF Duel, Sides
  <2> QED
    BY <1>2, <2>1, DuelStep
<1>9. ASSUME NoReopening PROVE Shown'
  <2>1. request[q].pc \notin Paying
    BY <1>2 DEF Paying
  <2> QED
    BY <1>2, <1>3, <1>6, <1>9, <2>1, ShownStep DEF Shown
<1> QED
  BY <1>7, <1>8, <1>9

LEMMA CompareFollows ==
  ASSUME IInv, FollowUp, NEW q \in Requests, CompareDeclarations(q)
  PROVE  FollowUp'
<1> USE DEF FollowUp
<1>1. PICK n : n = Compared(row)
  OBVIOUS
<1>2. /\ request' = [request EXCEPT ![q] = n] /\ request[q].pc = "compare"
      /\ OnChain' = OnChain /\ Challenger' = Challenger
      /\ UNCHANGED <<row, losses, failures, agreed>> /\ (Indexed' <=> Indexed)
  BY <1>1, SameChain
  DEF CompareDeclarations, Continue, OnlyRequests, users, history, Indexed
<1>3. Indexed /\ row \in Row
  BY <1>2, UnderWay
<1>4. /\ Agree(row) => n.pc = "resolve" /\ n.pick = row.creatorPick
      /\ ~Agree(row) => n.pc = "done"
  BY <1>1 DEF Compared, Done
<1>5. Noticing'
  <2>1. Agree(row)' = Agree(row)
    BY <1>2 DEF Agree
  <2>2. Agree(row)' => Comparing(n, row'.creatorPick)
    BY <1>2, <1>4, <2>1 DEF Comparing
  <2> QED
    BY <1>2, <2>2, NoticingStep
<1>6. Duel'
  <2>1. n.pc = "resolve" => Challenger # Initiator
    BY <1>3, <1>4 DEF Duel, Agree
  <2>2. n.pc \notin {"count_win", "count_loss"}
    BY <1>4
  <2> QED
    BY <1>2, <2>1, <2>2, DuelStep DEF Duel
<1>7. ASSUME NoReopening PROVE Shown'
  <2>1. request[q].pc \notin Paying /\ n.pc \in {"resolve", "done"}
    BY <1>2, <1>4 DEF Paying
  <2> QED
    BY <1>2, <1>7, <2>1, ShownStep DEF Shown
<1> QED
  BY <1>5, <1>6, <1>7

LEMMA ResolveRowFollows ==
  ASSUME IInv, FollowUp, NEW q \in Requests, ResolveRow(q)
  PROVE  FollowUp'
<1> USE DEF FollowUp
<1>1. PICK n : n = [pc |-> "count_win", pick |-> request[q].pick]
  OBVIOUS
<1>2. /\ request' = [request EXCEPT ![q] = n] /\ request[q].pc = "resolve" /\ n.pc = "count_win"
      /\ OnChain' = OnChain /\ Challenger' = Challenger
      /\ UNCHANGED <<losses, failures>> /\ agreed' = agreed \cup {request[q].pick}
  BY <1>1, SameChain DEF ResolveRow, Continue, users
<1>3. Indexed /\ row \in Row
  BY <1>2, UnderWay
<1>4. /\ row'.creatorPick = row.creatorPick /\ row'.challengerPick = row.challengerPick
      /\ row'.status = "resolved"
  BY <1>3 DEF ResolveRow, Row
<1>5. Noticing'
  <2>1. Agree(row)' = Agree(row)
    BY <1>4 DEF Agree
  <2> SUFFICES ASSUME failures = 0, Agree(row)
               PROVE  \/ row.creatorPick \in agreed'
                      \/ \E o \in Requests : Comparing(request'[o], row.creatorPick)
    BY <1>2, <1>4, <2>1 DEF Noticing, Comparing
  <2>2. CASE row.creatorPick \in agreed
    BY <1>2, <2>2
  <2>3. ASSUME NEW o \in Requests, Comparing(request[o], row.creatorPick)
        PROVE  \/ row.creatorPick \in agreed'
               \/ \E u \in Requests : Comparing(request'[u], row.creatorPick)
    <3>1. CASE o = q
      BY <1>2, <2>3, <3>1 DEF Comparing
    <3>2. CASE o # q
      <4>1. request'[o] = request[o]
        BY <1>2, <3>2, OneMoves
      <4> QED
        BY <2>3, <4>1
    <3> QED
      BY <3>1, <3>2
  <2> QED
    BY <1>3, <2>2, <2>3 DEF Noticing
<1>6. Duel'
  <2>1. Challenger # Initiator
    BY <1>2 DEF Duel
  <2> QED
    BY <1>2, <2>1, DuelStep
<1>7. ASSUME NoReopening PROVE Shown'
  <2>1. n.pc \in Paying
    BY <1>2 DEF Paying
  <2> QED
    BY <1>2, <1>4, <1>7, <2>1, ShownStep
<1> QED
  BY <1>5, <1>6, <1>7

\* A step of a request that settles users' counts or the payment: it has done
\* its part in noticing, and still has to show what became of the payment.
LEMMA PaymentStep ==
  ASSUME IInv, FollowUp, NEW q \in Requests, NEW n,
         request' = [request EXCEPT ![q] = n], request[q].pc \in Paying,
         n.pc \in Paying \ {"count_win"},
         UNCHANGED <<row, agreed>>, failures' = 0 => failures = 0,
         OnChain = "resolved" => OnChain' = "resolved", Challenger' = Challenger,
         n.pc = "count_loss" => n.loser # n.pick,
         (n.pc = "mark" /\ ~n.error) => OnChain' = "resolved",
         \A p \in People : losses'[p] > 0 => losses[p] > 0 \/ \E x \in agreed' : x # p
  PROVE  FollowUp'
<1> USE DEF FollowUp
<1>1. (Indexed' <=> Indexed) /\ Agree(row)' = Agree(row)
  BY DEF Indexed, Agree
<1>2. /\ request[q].pc \notin {"compare", "resolve"}
      /\ n.pc \notin {"resolve", "count_win", "accept", "set_status"}
  BY DEF Paying
<1>3. Noticing'
  <2>1. (failures' = 0 /\ Indexed' /\ Agree(row)') =>
          /\ Indexed /\ Agree(row) /\ row'.creatorPick = row.creatorPick
          /\ request[q].pc \notin {"compare", "resolve"}
    BY <1>1, <1>2
  <2>2. agreed \subseteq agreed'
    OBVIOUS
  <2> QED
    BY <2>1, <2>2, NoticingStep
<1>4. Duel'
  <2>1. (Indexed' /\ row'.challengerPick # NoAddress) => Challenger # Initiator
    BY <1>1 DEF Duel
  <2>2. agreed \subseteq agreed'
    OBVIOUS
  <2> QED
    BY <1>2, <2>1, <2>2, DuelStep
<1>5. ASSUME NoReopening PROVE Shown'
  BY <1>1, <1>2, <1>5, ShownStep DEF Shown
<1> QED
  BY <1>3, <1>4, <1>5

LEMMA CountsFollow ==
  ASSUME IInv, FollowUp, NEW q \in Requests, CountWin(q) \/ CountLoss(q)
  PROVE  FollowUp'
<1>0. /\ UNCHANGED <<row, agreed, failures>> /\ OnChain' = OnChain /\ Challenger' = Challenger
      /\ request[q].pc \in {"count_win", "count_loss"}
  BY SameChain DEF CountWin, CountLoss, history
<1>1. PICK r : r = request[q]
  OBVIOUS
<1>2. RequestSound(r) /\ Indexed /\ row \in Row
  BY <1>0, <1>1, UnderWay
<1>3. CASE CountWin(q)
  <2>1. PICK n : n = IF Loser(row, r.pick) = NoAddress
                     THEN [pc |-> "pay", pick |-> r.pick]
                     ELSE [pc |-> "count_loss", pick |-> r.pick, loser |-> Loser(row, r.pick)]
    OBVIOUS
  <2>2. request' = [request EXCEPT ![q] = n] /\ r.pc = "count_win" /\ losses' = losses
    BY <1>1, <1>3, <2>1 DEF CountWin, Continue
  <2>3. Challenger # Initiator
    BY <1>1, <2>2 DEF FollowUp, Duel
  <2>4. Loser(row, r.pick) # NoAddress => Loser(row, r.pick) # r.pick
    BY <1>2, <2>3 DEF Loser, IInv, RowSound
  <2>5. /\ n.pc \in {"pay", "count_loss"}
        /\ n.pc = "count_loss" => n.loser # n.pick
    BY <2>1, <2>4
  <2>6. r.pc \in Paying /\ n.pc \in Paying \ {"count_win"} /\ n.pc # "mark"
    BY <2>2, <2>5 DEF Paying
  <2> QED
    BY <1>0, <1>1, <2>2, <2>5, <2>6, PaymentStep
<1>4. CASE CountLoss(q)
  <2>1. PICK n : n = [pc |-> "pay", pick |-> r.pick]
    OBVIOUS
  <2>2. /\ request' = [request EXCEPT ![q] = n] /\ r.pc = "count_loss" /\ n.pc = "pay"
        /\ losses' = [losses EXCEPT ![r.loser] = losses[r.loser] + 1]
    BY <1>1, <1>4, <2>1 DEF CountLoss, Continue
  <2>3. r.loser # r.pick /\ r.pick \in agreed
    BY <1>1, <1>2, <2>2 DEF FollowUp, Duel, RequestSound
  <2>4. \A p \in People : losses'[p] > 0 => losses[p] > 0 \/ \E x \in agreed' : x # p
    <3>1. losses \in [People -> Nat]
      BY DEF IInv, TypeOK
    <3>2. ASSUME NEW p \in People, p # r.loser PROVE losses'[p] = losses[p]
      BY <2>2, <3>1, <3>2
    <3> QED
      BY <1>0, <2>3, <3>2
  <2>5. r.pc \in Paying /\ n.pc \in Paying \ {"count_win"} /\ n.pc \notin {"mark", "count_loss"}
    BY <2>2 DEF Paying
  <2> QED
    BY <1>0, <1>1, <2>2, <2>4, <2>5, PaymentStep
<1> QED
  BY <1>3, <1>4

LEMMA PaysFollow ==
  ASSUME IInv, FollowUp, NEW q \in Requests, Pay(q) \/ PayUnheard(q)
  PROVE  FollowUp'
<1>1. /\ request[q].pc = "pay" /\ UNCHANGED <<row, losses, agreed, history>>
      /\ failures' = 0 => failures = 0
  BY DEF Pay, PayUnheard, users, history, IInv, TypeOK
<1>2. request[q].pc \in Paying /\ "mark" \in Paying \ {"count_win"}
  BY <1>1 DEF Paying
<1>3. RequestSound(request[q])
  BY <1>1, UnderWay
<1>4. ASSUME NEW b, request' = [request EXCEPT ![q] = [pc |-> "mark", error |-> b]],
             OnChain = "resolved" => OnChain' = "resolved", Challenger' = Challenger,
             ~b => OnChain' = "resolved"
      PROVE  FollowUp'
  <2>1. PICK n : n = [pc |-> "mark", error |-> b]
    OBVIOUS
  <2>2. n.pc = "mark" /\ n.error = b /\ request' = [request EXCEPT ![q] = n]
    BY <1>4, <2>1
  <2>3. \A p \in People : losses'[p] > 0 => losses[p] > 0 \/ \E x \in agreed' : x # p
    BY <1>1
  <2> QED
    BY <1>1, <1>2, <1>4, <2>2, <2>3, PaymentStep
<1>5. CASE Chain!ResolveWager(Platform, Wager, request[q].pick) /\ UNCHANGED named
  <2>1. BothSaid(request[q].pick) /\ request[q].pick \in agreed
    BY <1>1, <1>3 DEF RequestSound
  <2>2. PICK x : x = request[q].pick
    OBVIOUS
  <2>3. OnChain' = "resolved" /\ Challenger' = Challenger
    BY <1>1, <1>5, <2>1, <2>2, ResolveOnChain
  <2>4. \E b : request' = [request EXCEPT ![q] = [pc |-> "mark", error |-> b]]
    BY DEF Pay, PayUnheard, Continue
  <2> QED
    BY <1>4, <2>3, <2>4
<1>6. CASE Continue(q, [pc |-> "mark", error |-> AttemptFailed(FALSE)]) /\ UNCHANGED chain
  <2>1. PICK b : b = AttemptFailed(FALSE)
    OBVIOUS
  <2>2. b /\ request' = [request EXCEPT ![q] = [pc |-> "mark", error |-> b]]
    BY <1>6, <2>1 DEF Continue, AttemptFailed
  <2> QED
    BY <1>4, <1>6, <2>2, SameChain
<1> QED
  BY <1>5, <1>6 DEF Pay, PayUnheard

\* mark_wager_resolution_attempt: without an error the chain has resolved.
LEMMA MarkFollows ==
  ASSUME IInv, FollowUp, NEW q \in Requests, MarkAttempt(q)
  PROVE  FollowUp'
<1> USE DEF FollowUp
<1>1. /\ request' = [request EXCEPT ![q] = Done] /\ Done.pc = "done" /\ request[q].pc = "mark"
      /\ OnChain' = OnChain /\ Challenger' = Challenger
      /\ UNCHANGED <<losses, failures, agreed>>
  BY SameChain DEF MarkAttempt, Continue, Done, users, history
<1>2. Indexed /\ row \in Row /\ RequestSound(request[q])
  BY <1>1, UnderWay
<1>3. /\ row'.creatorPick = row.creatorPick /\ row'.challengerPick = row.challengerPick
      /\ row'.status = row.status /\ row'.winner = row.winner
      /\ row'.error = request[q].error
  BY <1>2 DEF MarkAttempt, Row
<1>4. Noticing'
  <2>1. Agree(row)' = Agree(row)
    BY <1>3 DEF Agree
  <2>2. (failures' = 0 /\ Indexed' /\ Agree(row)') =>
          /\ Indexed /\ Agree(row) /\ row'.creatorPick = row.creatorPick
          /\ request[q].pc \notin {"compare", "resolve"}
    BY <1>1, <1>2, <1>3, <2>1
  <2>3. agreed \subseteq agreed' /\ (failures' = 0 => failures = 0)
    BY <1>1
  <2> QED
    BY <1>1, <2>2, <2>3, NoticingStep
<1>5. Duel'
  BY <1>1, <1>2, <1>3, DuelStep DEF Duel
<1>6. ASSUME NoReopening PROVE Shown'
  <2>1. request[q].error \/ OnChain = "resolved"
    BY <1>1, <1>6 DEF Shown
  <2>2. (Indexed' /\ row'.status = "open") => row'.winner = NoAddress
    BY <1>2, <1>3, <1>6 DEF Shown
  <2> QED
    BY <1>1, <1>3, <1>6, <2>1, <2>2, ShownStep
<1> QED
  BY <1>4, <1>5, <1>6

LEMMA FailFollows ==
  ASSUME IInv, FollowUp, NEW q \in Requests, Fail(q)
  PROVE  FollowUp'
<1> USE DEF FollowUp
<1>1. /\ request' = [request EXCEPT ![q] = Done] /\ Done.pc = "done"
      /\ OnChain' = OnChain /\ Challenger' = Challenger
      /\ UNCHANGED <<row, losses, agreed>> /\ (Indexed' <=> Indexed) /\ failures' # 0
  BY SameChain DEF Fail, Continue, Done, users, history, Indexed, IInv, TypeOK
<1>2. Noticing'
  BY <1>1 DEF Noticing
<1>3. Duel'
  BY <1>1, DuelStep DEF Duel
<1>4. ASSUME NoReopening PROVE Shown'
  BY <1>1, <1>4, ShownStep DEF Shown
<1> QED
  BY <1>2, <1>3, <1>4

LEMMA NextFollows ==
  ASSUME IInv, FollowUp, [Next]_vars
  PROVE  FollowUp'
<1>1. CASE Next
  BY <1>1, ChainStepsFollow, ReceiptsFollow, CreateFollows, WritesFollow, StoreFollows,
     CompareFollows, ResolveRowFollows, CountsFollow, PaysFollow, MarkFollows, FailFollows
  DEF Next
<1>2. CASE UNCHANGED vars
  <2>1. OnlyChain /\ OnChain' = OnChain /\ Challenger' = Challenger
    BY <1>2, SameChain DEF vars, OnlyChain
  <2> QED
    BY <2>1, ChainFollows
<1> QED
  BY <1>1, <1>2

LEMMA FollowUpInvariant == Spec => []FollowUp
<1>1. Init => FollowUp
  <2> SUFFICES ASSUME Init PROVE FollowUp
    OBVIOUS
  <2>1. \A q \in Requests : request[q].pc = "unsent"
    BY DEF Init, Unsent
  <2>2. ~Indexed /\ \A p \in People : losses[p] = 0
    BY DEF Init, Indexed
  <2> QED
    BY <2>1, <2>2 DEF FollowUp, Noticing, Duel, Shown
<1>2. IInv /\ FollowUp /\ [Next]_vars => FollowUp'
  BY NextFollows
<1> QED
  BY <1>1, <1>2, Invariance, PTL DEF Spec

\* Once every request has been answered and none broke off, two declarations
\* that agree have resolved the row, also when they were stored at the same
\* moment and each request read only after both.
THEOREM AgreementIsNoticed == Spec => []AgreementNoticed
<1>1. FollowUp => AgreementNoticed
  <2>1. \A q \in Requests : \A x : request[q] \in {Unsent, Done} => ~Comparing(request[q], x)
    BY DEF Comparing, Unsent, Done
  <2> QED
    BY <2>1 DEF FollowUp, Noticing, AgreementNoticed, Quiet
<1> QED
  BY <1>1, FollowUpInvariant, PTL

\* A loss is counted against a wallet only when another wallet was agreed on,
\* however the two counts of a request interleave with those of the others.
THEOREM WinnersDoNotLose == Spec => []NobodyWinsAndLoses
<1>1. FollowUp => NobodyWinsAndLoses
  BY DEF FollowUp, Duel, NobodyWinsAndLoses
<1> QED
  BY <1>1, FollowUpInvariant, PTL

\* If no client sets a wager back to open through POST /status, a winner that
\* the platform failed to pay shows the error once the requests are answered.
THEOREM FailureShows ==
  ASSUME NoReopening
  PROVE  Spec => []FailureIsShown
<1>1. FollowUp => FailureIsShown
  <2>1. \A q \in Requests : request[q] \in {Unsent, Done} => request[q].pc \notin Paying
    BY DEF Paying, Unsent, Done
  <2> QED
    BY <2>1 DEF FollowUp, Shown, FailureIsShown, Quiet, OnChain
<1> QED
  BY <1>1, FollowUpInvariant, PTL
=============================================================================
