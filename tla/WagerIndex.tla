----------------------------- MODULE WagerIndex -----------------------------
(***************************************************************************)
(* One row of table wagers and the wager on chain that it indexes.         *)
(* handlers/wager.rs changes the row from concurrent requests that read    *)
(* it, check what they read and write; every statement commits on its own. *)
(* When both participants declared the same winner the row is resolved and *)
(* the platform, resolver of the wager, pays that winner on chain.         *)
(*                                                                         *)
(* The chain is WagerEscrow with one wager.  The clients are outside the   *)
(* repository and follow its documentation: they create, accept and cancel *)
(* on chain first and then tell the backend, as often as they have to.     *)
(***************************************************************************)
EXTENDS Integers

CONSTANTS
  People,      \* wallets that take part in wagers
  Initiator,   \* the wallet that creates this one
  Platform,    \* the signer of the backend, resolver of the wager
  NoAddress,   \* @0x0 on chain, NULL in the row
  Wager,       \* its object id and on_chain_address
  Requests,    \* requests that the clients may send, each once
  SetStatuses, \* what they send to POST /status
  MaxFailures  \* how many statements may fail

ASSUME WagerIndexAssumption ==
  /\ Initiator \in People
  /\ Platform \notin People
  /\ NoAddress \notin People \cup {Platform}
  /\ SetStatuses \subseteq {"open", "active", "cancelled", "declined", "expired"}
  /\ MaxFailures \in Nat

VARIABLES
  clock, wager, status, vault, net,  \* the chain's, see WagerEscrow
  named,     \* the challenger that the initiator's client named, if any
  row,       \* the row of table wagers, NoRow before it is indexed
  disputed,  \* dispute_submissions: who filed one
  wins,      \* users.wins of each wallet
  losses,    \* users.losses
  request,   \* per request: its next statement and what it has read
  failures,  \* statements that failed so far
  said,      \* history: per wallet, the winners it has ever declared
  agreed     \* history: the winners the row was ever resolved to

chain == <<clock, wager, status, vault, net, named>>
users == <<wins, losses>>
history == <<said, agreed>>
vars == <<chain, row, disputed, users, request, failures, history>>

Stake == 1

Chain == INSTANCE WagerEscrow WITH
  Users <- People \cup {Platform}, Wagers <- {Wager}, Amounts <- {Stake},
  Expiries <- {0}, MaxTime <- 0

Wallet == People \cup {NoAddress}
RowStatus == {"open", "active", "resolved", "disputed", "cancelled", "declined",
              "expired"}

\* initiator, stake and resolver never change and are those of the chain;
\* resolution_error is a flag, times are left out.
Row == [challenger : Wallet, status : RowStatus, winner : Wallet, error : BOOLEAN,
        creatorPick : Wallet, challengerPick : Wallet]
NoRow == [status |-> "none"]

Unsent == [pc |-> "unsent"]
Done == [pc |-> "done"]
RequestState ==
  {Unsent, Done}
  \cup [pc : {"accept"}, who : People, seen : Row]
  \cup [pc : {"set_status"}, to : RowStatus]
  \cup [pc : {"declare"}, who : People, pick : People]
  \cup [pc : {"compare"}]
  \cup [pc : {"resolve", "count_win", "pay"}, pick : People]
  \cup [pc : {"count_loss"}, pick : People, loser : People]
  \cup [pc : {"mark"}, error : BOOLEAN]

TypeOK ==
  /\ Chain!TypeOK
  /\ named \in Wallet
  /\ row \in Row \cup {NoRow}
  /\ disputed \subseteq People
  /\ wins \in [People -> Nat] /\ losses \in [People -> Nat]
  /\ request \in [Requests -> RequestState]
  /\ failures \in Nat
  /\ said \in [People -> SUBSET People]
  /\ agreed \subseteq People

Init ==
  /\ Chain!Init
  /\ named = NoAddress
  /\ row = NoRow
  /\ disputed = {}
  /\ wins = [p \in People |-> 0] /\ losses = [p \in People |-> 0]
  /\ request = [r \in Requests |-> Unsent]
  /\ failures = 0
  /\ said = [p \in People |-> {}]
  /\ agreed = {}

-----------------------------------------------------------------------------
(* The decisions of the handlers.  Each is preceded by a faulty form that  *)
(* the properties must tell from it.                                       *)

\* A variant in which one declaration is enough.
AgreeFaulty(r) == r.creatorPick # NoAddress
Agree(r) == r.creatorPick # NoAddress /\ r.creatorPick = r.challengerPick

Declared(r, p, x) ==
  IF p = Initiator THEN [r EXCEPT !.creatorPick = x]
                   ELSE [r EXCEPT !.challengerPick = x]

\* A variant that takes the challenger for the loser, whoever won.
LoserFaulty(r, x) == r.challenger
Loser(r, x) == IF x = Initiator THEN r.challenger ELSE Initiator

\* A variant that records a decline as a cancellation.
DeclineStatusFaulty == "cancelled"
DeclineStatus == "declined"

CancelStatus == "cancelled"

\* A variant that records the success of every attempt.
AttemptFailedFaulty(ok) == FALSE
AttemptFailed(ok) == ~ok

\* cancel_wager refuses every other wager.
Cancellable(r) == r.status = "open"

Participants(r) == {Initiator, r.challenger} \ {NoAddress}

-----------------------------------------------------------------------------
(* The chain: the initiator creates the wager and may cancel it, somebody  *)
(* may accept it.  Only the platform resolves, in Pay.                     *)

OnlyChain == UNCHANGED <<row, disputed, users, request, failures, history>>

CreateOnChain(c) ==
  /\ Chain!CreateWager(Initiator, Wager, Stake, c, 0, Platform)
  /\ named' = c
  /\ OnlyChain

AcceptOnChain(p) ==
  /\ Chain!AcceptWager(p, Wager, Stake)
  /\ UNCHANGED named
  /\ OnlyChain

CancelOnChain ==
  /\ Chain!CancelWager(Initiator, Wager)
  /\ UNCHANGED named
  /\ OnlyChain

-----------------------------------------------------------------------------
(* Requests: what is read and checked first, then one step per statement.  *)

Receive(q, next) ==
  /\ request[q] = Unsent
  /\ request' = [request EXCEPT ![q] = next]

Continue(q, next) == request' = [request EXCEPT ![q] = next]

Indexed == row # NoRow

\* create_wager: the INSERT, or on a repeated request its ON CONFLICT clause,
\* which leaves the declarations alone.
CreateWager(q) ==
  /\ status[Wager] # "none"
  /\ Receive(q, Done)
  /\ row' = [challenger |-> named, status |-> "open", winner |-> NoAddress,
             error |-> FALSE,
             creatorPick |-> IF Indexed THEN row.creatorPick ELSE NoAddress,
             challengerPick |-> IF Indexed THEN row.challengerPick ELSE NoAddress]
  /\ UNCHANGED <<chain, disputed, users, failures, history>>

OnlyRequests == UNCHANGED <<chain, row, disputed, users, failures, history>>

\* accept_wager up to its write, from the account that accepted on chain.
ReceiveAccept(q, p) ==
  /\ status[Wager] \in {"active", "resolved"} /\ p = wager[Wager].challenger
  /\ Indexed
  /\ p # Initiator
  /\ row.challenger \in {NoAddress, p}
  /\ row.status = "open"
  /\ Receive(q, [pc |-> "accept", who |-> p, seen |-> row])
  /\ OnlyRequests

\* Its upsert_wager writes the whole row back as it was read.
WriteAccept(q) ==
  /\ request[q].pc = "accept"
  /\ row' = [row EXCEPT !.challenger = request[q].who, !.status = "active",
                        !.winner = request[q].seen.winner,
                        !.error = request[q].seen.error]
  /\ Continue(q, Done)
  /\ UNCHANGED <<chain, disputed, users, failures, history>>

\* cancel_wager up to its write, after the cancellation on chain.
ReceiveCancel(q) ==
  /\ status[Wager] = "cancelled"
  /\ Indexed /\ Cancellable(row)
  /\ Receive(q, [pc |-> "set_status", to |-> CancelStatus])
  /\ OnlyRequests

\* decline_wager up to its write.
ReceiveDecline(q, p) ==
  /\ Indexed
  /\ row.challenger = p
  /\ row.status = "open"
  /\ Receive(q, [pc |-> "set_status", to |-> DeclineStatus])
  /\ OnlyRequests

\* update_wager_status: nothing is read before the write.
ReceiveStatus(q, s) ==
  /\ Indexed
  /\ Receive(q, [pc |-> "set_status", to |-> s])
  /\ OnlyRequests

\* submit_dispute up to its second statement; who submits is not looked at.
ReceiveDispute(q, p) ==
  /\ Indexed
  /\ disputed' = disputed \cup {p}
  /\ Receive(q, [pc |-> "set_status", to |-> "disputed"])
  /\ UNCHANGED <<chain, row, users, failures, history>>

\* The UPDATE of update_wager_status in db.rs: whatever the status was.
WriteStatus(q) ==
  /\ request[q].pc = "set_status"
  /\ row' = [row EXCEPT !.status = request[q].to]
  /\ Continue(q, Done)
  /\ UNCHANGED <<chain, disputed, users, failures, history>>

\* declare_winner up to set_declared_winner.  No status is looked at.
ReceiveDeclaration(q, p, x) ==
  /\ Indexed
  /\ p \in Participants(row)
  /\ x \in Participants(row)
  /\ Receive(q, [pc |-> "declare", who |-> p, pick |-> x])
  /\ OnlyRequests

Compared(r) == IF Agree(r) THEN [pc |-> "resolve", pick |-> r.creatorPick] ELSE Done

StoreThen(q, next) ==
  /\ request[q].pc = "declare"
  /\ row' = Declared(row, request[q].who, request[q].pick)
  /\ said' = [said EXCEPT ![request[q].who] = @ \cup {request[q].pick}]
  /\ Continue(q, next)
  /\ UNCHANGED <<chain, disputed, users, failures, agreed>>

\* set_declared_winner: the UPDATE of the participant's column ...  A variant
\* that selects before it updates.
StoreDeclarationFaulty(q) == StoreThen(q, Compared(row))
StoreDeclaration(q) == StoreThen(q, [pc |-> "compare"])

\* ... then the SELECT of both columns ...
CompareDeclarations(q) ==
  /\ request[q].pc = "compare"
  /\ Continue(q, Compared(row))
  /\ OnlyRequests

\* ... the UPDATE that resolves ...
ResolveRow(q) ==
  /\ request[q].pc = "resolve"
  /\ row' = [row EXCEPT !.status = "resolved", !.winner = request[q].pick,
                        !.error = FALSE]
  /\ agreed' = agreed \cup {request[q].pick}
  /\ Continue(q, [pc |-> "count_win", pick |-> request[q].pick])
  /\ UNCHANGED <<chain, disputed, users, failures, said>>

\* ... get_wager_by_address with the first UPDATE of record_wager_result ...
CountWin(q) ==
  LET x == request[q].pick
      loser == Loser(row, x)
  IN  /\ request[q].pc = "count_win"
      /\ wins' = [wins EXCEPT ![x] = @ + 1]
      /\ Continue(q, IF loser = NoAddress
                     THEN [pc |-> "pay", pick |-> x]
                     ELSE [pc |-> "count_loss", pick |-> x, loser |-> loser])
      /\ UNCHANGED <<chain, row, disputed, losses, failures, history>>

\* ... and the second.
CountLoss(q) ==
  /\ request[q].pc = "count_loss"
  /\ losses' = [losses EXCEPT ![request[q].loser] = @ + 1]
  /\ Continue(q, [pc |-> "pay", pick |-> request[q].pick])
  /\ UNCHANGED <<chain, row, disputed, wins, failures, history>>

\* resolve_wager_on_chain: the contract may refuse, and the transaction may
\* fail for other reasons (no gas, no answer of the node).
Pay(q) ==
  /\ request[q].pc = "pay"
  /\ \/ /\ Chain!ResolveWager(Platform, Wager, request[q].pick) /\ UNCHANGED named
        /\ Continue(q, [pc |-> "mark", error |-> AttemptFailed(TRUE)])
     \/ /\ Continue(q, [pc |-> "mark", error |-> AttemptFailed(FALSE)])
        /\ UNCHANGED chain
  /\ UNCHANGED <<row, disputed, users, failures, history>>

\* The transaction was executed, but its answer is lost.
PayUnheard(q) ==
  /\ failures < MaxFailures
  /\ request[q].pc = "pay"
  /\ Chain!ResolveWager(Platform, Wager, request[q].pick) /\ UNCHANGED named
  /\ Continue(q, [pc |-> "mark", error |-> AttemptFailed(FALSE)])
  /\ failures' = failures + 1
  /\ UNCHANGED <<row, disputed, users, history>>

\* mark_wager_resolution_attempt.
MarkAttempt(q) ==
  /\ request[q].pc = "mark"
  /\ row' = [row EXCEPT !.error = request[q].error]
  /\ Continue(q, Done)
  /\ UNCHANGED <<chain, disputed, users, failures, history>>

\* A statement fails, or the client hangs up and the handler is dropped: what
\* was written stays, what was to come never happens.
Fail(q) ==
  /\ failures < MaxFailures
  /\ request[q] \notin {Unsent, Done}
  /\ failures' = failures + 1
  /\ Continue(q, Done)
  /\ UNCHANGED <<chain, row, disputed, users, history>>

Next ==
  \/ \E c \in Wallet : CreateOnChain(c)
  \/ \E p \in People : AcceptOnChain(p)
  \/ CancelOnChain
  \/ \E q \in Requests :
       \/ CreateWager(q)
       \/ \E p \in People : ReceiveAccept(q, p)
       \/ ReceiveCancel(q)
       \/ \E p \in People : ReceiveDecline(q, p)
       \/ \E s \in SetStatuses : ReceiveStatus(q, s)
       \/ \E p \in People : ReceiveDispute(q, p)
       \/ \E p, x \in People : ReceiveDeclaration(q, p, x)
       \/ WriteAccept(q)
       \/ WriteStatus(q)
       \/ StoreDeclaration(q)
       \/ CompareDeclarations(q)
       \/ ResolveRow(q)
       \/ CountWin(q)
       \/ CountLoss(q)
       \/ Pay(q)
       \/ PayUnheard(q)
       \/ MarkAttempt(q)
       \/ Fail(q)

Spec == Init /\ [][Next]_vars

-----------------------------------------------------------------------------
(* Properties.                                                             *)

Challenger == wager[Wager].challenger
Quiet == \A q \in Requests : request[q] \in {Unsent, Done}

\* The row never claims more than the chain has done, however late, repeated
\* or overtaken the requests are: an active wager was accepted on chain, a
\* cancelled one cancelled there, its challenger is the chain's, and so is
\* whoever won.
RowFollowsChain ==
  Indexed =>
    /\ row.status = "active" => status[Wager] \in {"active", "resolved"}
    /\ row.status = "cancelled" => status[Wager] = "cancelled"
    /\ row.challenger \in {NoAddress, Challenger}
    /\ row.winner \in {NoAddress, Initiator, Challenger}

\* The platform pays only a winner that both participants have declared.
PaidAsDeclared ==
  status[Wager] = "resolved" =>
    wager[Wager].winner \in said[Initiator] \cap said[Challenger] \cap agreed

\* Two declarations that agree are noticed, also when they arrive at the same
\* moment and each request reads only after both have written: unless a
\* request broke off, the row was resolved to that winner.
AgreementNoticed ==
  (Indexed /\ Quiet /\ failures = 0 /\ Agree(row)) => row.creatorPick \in agreed

\* As long as the participants agreed on one winner only, nobody has both won
\* and lost, however often they repeated it.
NobodyWinsAndLoses ==
  \A p \in People :
    wins[p] > 0 /\ losses[p] > 0 => \E x \in agreed : x # p

\* A winner that the platform failed to pay shows the error to the clients
\* that poll the row, unless a request broke off.
FailureIsShown ==
  (Indexed /\ Quiet /\ failures = 0 /\ row.winner # NoAddress
   /\ status[Wager] # "resolved") => row.error

=============================================================================
