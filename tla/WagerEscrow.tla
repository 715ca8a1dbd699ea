---------------------------- MODULE WagerEscrow -----------------------------
(***************************************************************************)
(* The 1-v-1 wager contract of sui/sources/wager.move: shared Wager        *)
(* objects, each with a vault that escrows both stakes until the resolver  *)
(* named at creation declares a winner.  One action per entry function; an *)
(* aborted assert! is a guard, as in StakingPool.                          *)
(***************************************************************************)
EXTENDS Integers

CONSTANTS
  Users,       \* accounts that send transactions
  NoAddress,   \* the sentinel @0x0
  Wagers,      \* object ids of the wagers that may be created
  Amounts,     \* values of the coins offered
  Expiries,    \* values of expiry_ms tried
  MaxTime      \* bound on the clock

ASSUME WagerEscrowAssumption ==
  /\ NoAddress \notin Users
  /\ Amounts \subseteq Nat
  /\ Expiries \subseteq Nat
  /\ MaxTime \in Nat

VARIABLES
  clock,
  wager,     \* per id: the fields of the Wager object
  status,    \* per id: "none" before creation, then the STATUS_ codes
  vault,     \* per id: value of the vault balance
  net        \* per id and account: coins received from the wager less coins paid in

vars == <<clock, wager, status, vault, net>>

Statuses == {"none", "open", "active", "resolved", "cancelled"}

\* The fields of a Wager object.
WagerObject ==
  [initiator: Users, challenger: Users \cup {NoAddress}, resolver: Users,
   stake: Nat \ {0}, expiry: Nat, winner: Users \cup {NoAddress}]

\* An id without an object yet.
Unborn == [initiator |-> NoAddress, challenger |-> NoAddress,
           resolver |-> NoAddress, stake |-> 0, expiry |-> 0,
           winner |-> NoAddress]

\* The type of every variable, and no more.
TypeOK ==
  /\ clock \in Nat
  /\ wager \in [Wagers -> WagerObject \cup {Unborn}]
  /\ status \in [Wagers -> Statuses]
  /\ vault \in [Wagers -> Nat]
  /\ net \in [Wagers -> [Users -> Int]]

Init ==
  /\ clock = 0
  /\ wager = [w \in Wagers |-> Unborn]
  /\ status = [w \in Wagers |-> "none"]
  /\ vault = [w \in Wagers |-> 0]
  /\ net = [w \in Wagers |-> [u \in Users |-> 0]]

-----------------------------------------------------------------------------
(* The tests of the entry functions, after their faulty variants.          *)

PositiveStake(a) == a > 0

MatchesStakeFaulty(w, payment) == payment > 0
MatchesStake(w, payment) == payment = wager[w].stake

\* E_SELF_ACCEPT and E_NOT_TARGETED_CHALLENGER.
MayAccept(u, w) ==
  /\ u # wager[w].initiator
  /\ wager[w].challenger \in {NoAddress, u}

Cancellable(w) == status[w] = "open"

\* What resolve_wager takes from the vault: all of it.
Prize(w) == vault[w]

ParticipantFaulty(x, w) == x \in Users
Participant(x, w) == x \in {wager[w].initiator, wager[w].challenger}

-----------------------------------------------------------------------------
\* The challenger may be NoAddress (anyone may accept) or any account, the
\* initiator's own included; resolver and expiry are not looked at.
CreateWager(u, w, stake, challenger, expiry, resolver) ==
  /\ status[w] = "none"
  /\ PositiveStake(stake)
  /\ wager' = [wager EXCEPT ![w] =
       [initiator |-> u, challenger |-> challenger, resolver |-> resolver,
        stake |-> stake, expiry |-> expiry, winner |-> NoAddress]]
  /\ status' = [status EXCEPT ![w] = "open"]
  /\ vault' = [vault EXCEPT ![w] = stake]
  /\ net' = [net EXCEPT ![w][u] = @ - stake]
  /\ UNCHANGED clock

AcceptWager(u, w, payment) ==
  /\ status[w] = "open"
  /\ clock <= wager[w].expiry
  /\ MayAccept(u, w)
  /\ MatchesStake(w, payment)
  /\ wager' = [wager EXCEPT ![w].challenger = u]
  /\ status' = [status EXCEPT ![w] = "active"]
  /\ vault' = [vault EXCEPT ![w] = @ + payment]
  /\ net' = [net EXCEPT ![w][u] = @ - payment]
  /\ UNCHANGED clock

ResolveWager(u, w, winner) ==
  /\ u = wager[w].resolver
  /\ status[w] = "active"
  /\ Participant(winner, w)
  /\ wager' = [wager EXCEPT ![w].winner = winner]
  /\ status' = [status EXCEPT ![w] = "resolved"]
  /\ vault' = [vault EXCEPT ![w] = @ - Prize(w)]
  /\ net' = [net EXCEPT ![w][winner] = @ + Prize(w)]
  /\ UNCHANGED clock

CancelWager(u, w) ==
  /\ u = wager[w].initiator
  /\ Cancellable(w)
  /\ status' = [status EXCEPT ![w] = "cancelled"]
  /\ vault' = [vault EXCEPT ![w] = 0]
  /\ net' = [net EXCEPT ![w][u] = @ + vault[w]]
  /\ UNCHANGED <<clock, wager>>

Tick ==
  /\ clock < MaxTime
  /\ clock' = clock + 1
  /\ UNCHANGED <<wager, status, vault, net>>

Next ==
  \/ \E u, r \in Users, c \in Users \cup {NoAddress}, w \in Wagers,
        a \in Amounts, e \in Expiries : CreateWager(u, w, a, c, e, r)
  \/ \E u \in Users, w \in Wagers, a \in Amounts : AcceptWager(u, w, a)
  \/ \E u, x \in Users, w \in Wagers : ResolveWager(u, w, x)
  \/ \E u \in Users, w \in Wagers : CancelWager(u, w)
  \/ Tick

Spec == Init /\ [][Next]_vars

-----------------------------------------------------------------------------
\* What each account must have gained from wager w, given where w stands: a
\* participant is out of its stake while the wager runs, a resolved wager has
\* moved one stake from the loser to the winner, a cancelled one has moved
\* nothing, and nobody else ever gains or loses.
FairNet(w, u) ==
  LET obj == wager[w]
      in == u \in {obj.initiator, obj.challenger}
  IN  CASE status[w] = "open" /\ u = obj.initiator -> -obj.stake
        [] status[w] = "active" /\ in -> -obj.stake
        [] status[w] = "resolved" /\ u = obj.winner -> obj.stake
        [] status[w] = "resolved" /\ in /\ u # obj.winner -> -obj.stake
        [] OTHER -> 0

\* A wager is zero-sum between its two participants, at every stage.
ZeroSum == \A w \in Wagers, u \in Users : net[w][u] = FairNet(w, u)

\* The vault is the stakes of those who are in: one while open, two while
\* active, none once resolved or cancelled.  Nothing is ever stranded in it.
VaultMatchesStatus ==
  \A w \in Wagers :
    vault[w] = CASE status[w] = "open" -> wager[w].stake
                 [] status[w] = "active" -> 2 * wager[w].stake
                 [] OTHER -> 0

\* Every wager that went active was between two different accounts, and its
\* winner, once there is one, is one of them.
TwoParticipants ==
  \A w \in Wagers :
    /\ status[w] \in {"active", "resolved"} =>
         /\ {wager[w].initiator, wager[w].challenger} \subseteq Users
         /\ wager[w].initiator # wager[w].challenger
    /\ wager[w].winner # NoAddress <=> status[w] = "resolved"
    /\ status[w] = "resolved" =>
         wager[w].winner \in {wager[w].initiator, wager[w].challenger}

-----------------------------------------------------------------------------
\* The escrow a wager implements: open until resolved or cancelled.
WagerPhase(w) ==
  CASE status[w] \in {"open", "active"} -> "open"
    [] status[w] = "resolved" -> "settled"
    [] status[w] = "cancelled" -> "void"
    [] OTHER -> "none"

\* The stakes taken in so far: the challenger's too once the wager went active.
Taken(w) ==
  IF status[w] \in {"active", "resolved"} THEN 2 * wager[w].stake
                                          ELSE wager[w].stake

Phases == [w \in Wagers |-> WagerPhase(w)]
Winners == [w \in Wagers |-> wager[w].winner]
AllTaken == [w \in Wagers |-> Taken(w)]
AllGiven == [w \in Wagers |-> Taken(w) - vault[w]]

WagerVault == INSTANCE Escrow WITH
  Accounts <- Wagers, Verdicts <- Users, NoVerdict <- NoAddress,
  phase <- Phases, verdict <- Winners, taken <- AllTaken, given <- AllGiven

\* The wager contract implements the escrow: one resolution or one
\* cancellation for ever, and the whole of what was taken in leaves with it.
ImplementsEscrow == WagerVault!Spec
=============================================================================
