------------------------- MODULE WagerEscrowProofs --------------------------
(***************************************************************************)
(* Proofs about the wager contract for every set of accounts, wagers and   *)
(* amounts: its invariants, and that it implements Escrow.  TLC checks the *)
(* same formulas on the instance of WagerEscrow.cfg.                       *)
(***************************************************************************)
EXTENDS WagerEscrow, TLAPS

\* An object exists, with all its fields, from its creation on.
Created ==
  \A w \in Wagers :
    wager[w] \in IF status[w] = "none" THEN {Unborn} ELSE WagerObject

\* The inductive invariant: a step of ZeroSum needs the vault's contents
\* (what a resolution pays) and the two participants (who paid it in).
IInv == TypeOK /\ Created /\ VaultMatchesStatus /\ TwoParticipants /\ ZeroSum

LEMMA InitIInv == Init => IInv
<1> SUFFICES ASSUME Init PROVE IInv
  OBVIOUS
<1> USE WagerEscrowAssumption DEF Init
<1>1. TypeOK
  BY DEF TypeOK, Unborn, Statuses
<1>2. Created
  BY DEF Created
<1>3. VaultMatchesStatus
  BY DEF VaultMatchesStatus
<1>4. TwoParticipants
  BY DEF TwoParticipants, Unborn
<1>5. ZeroSum
  BY DEF ZeroSum, FairNet
<1> QED
  BY <1>1, <1>2, <1>3, <1>4, <1>5 DEF IInv

\* create_wager escrows the initiator's stake.
LEMMA CreateKeepsIInv ==
  ASSUME IInv, NEW u \in Users, NEW w \in Wagers, NEW a \in Amounts,
         NEW c \in Users \cup {NoAddress}, NEW e \in Expiries, NEW r \in Users,
         CreateWager(u, w, a, c, e, r)
  PROVE  IInv'
<1> USE WagerEscrowAssumption DEF IInv, TypeOK, CreateWager, PositiveStake
<1> DEFINE obj == [initiator |-> u, challenger |-> c, resolver |-> r,
                   stake |-> a, expiry |-> e, winner |-> NoAddress]
<1>0. obj \in WagerObject
  BY DEF WagerObject
<1>1. TypeOK'
  BY <1>0 DEF Statuses
<1>2. Created'
  BY <1>0 DEF Created
<1>3. VaultMatchesStatus'
  BY DEF VaultMatchesStatus
<1>4. TwoParticipants'
  BY DEF TwoParticipants
<1>5. ZeroSum'
  BY DEF ZeroSum, FairNet
<1> QED
  BY <1>1, <1>2, <1>3, <1>4, <1>5 DEF IInv

\* accept_wager escrows the challenger's stake and names the challenger.
LEMMA AcceptKeepsIInv ==
  ASSUME IInv, NEW u \in Users, NEW w \in Wagers, NEW a \in Amounts,
         AcceptWager(u, w, a)
  PROVE  IInv'
<1> USE WagerEscrowAssumption
    DEF IInv, TypeOK, AcceptWager, MayAccept, MatchesStake
<1>a. wager[w] \in WagerObject
  BY DEF Created
<1>0. wager[w] \in WagerObject /\ wager'[w] = [wager[w] EXCEPT !.challenger = u]
  BY <1>a
<1>b. wager'[w] \in WagerObject
  BY <1>0 DEF WagerObject
<1>1. TypeOK'
  BY <1>b DEF Statuses
<1>2. Created'
  BY <1>b DEF Created
<1>3. VaultMatchesStatus'
  BY <1>0 DEF VaultMatchesStatus, WagerObject
<1>4. TwoParticipants'
  BY <1>0 DEF TwoParticipants, WagerObject
<1>5. ZeroSum'
  BY <1>0 DEF ZeroSum, FairNet, WagerObject
<1> QED
  BY <1>1, <1>2, <1>3, <1>4, <1>5 DEF IInv

\* resolve_wager pays the whole vault, both stakes, to one participant.
LEMMA ResolveKeepsIInv ==
  ASSUME IInv, NEW u \in Users, NEW w \in Wagers, NEW x \in Users,
         ResolveWager(u, w, x)
  PROVE  IInv'
<1> USE WagerEscrowAssumption DEF IInv, TypeOK, ResolveWager, Participant, Prize
<1>a. wager[w] \in WagerObject
  BY DEF Created
<1>0. /\ wager[w] \in WagerObject
      /\ wager'[w] = [wager[w] EXCEPT !.winner = x]
      /\ vault[w] = 2 * wager[w].stake
  BY <1>a DEF VaultMatchesStatus
<1>b. wager'[w] \in WagerObject
  BY <1>0 DEF WagerObject
<1>1. TypeOK'
  BY <1>0, <1>b DEF Statuses, WagerObject
<1>2. Created'
  BY <1>b DEF Created
<1>3. VaultMatchesStatus'
  BY <1>0 DEF VaultMatchesStatus, WagerObject
<1>4. TwoParticipants'
  BY <1>0 DEF TwoParticipants, WagerObject
<1>5. ZeroSum'
  <2> SUFFICES ASSUME NEW v \in Wagers, NEW y \in Users
               PROVE  net'[v][y] = FairNet(v, y)'
    BY DEF ZeroSum
  <2>1. CASE v # w
    BY <2>1 DEF ZeroSum, FairNet
  <2>2. CASE v = w /\ y = x
    BY <1>0, <2>2 DEF ZeroSum, FairNet, WagerObject
  <2>3. CASE v = w /\ y # x
    BY <1>0, <2>3 DEF ZeroSum, FairNet, WagerObject
  <2> QED
    BY <2>1, <2>2, <2>3
<1> QED
  BY <1>1, <1>2, <1>3, <1>4, <1>5 DEF IInv

\* cancel_wager gives the initiator its stake back.
LEMMA CancelKeepsIInv ==
  ASSUME IInv, NEW u \in Users, NEW w \in Wagers, CancelWager(u, w)
  PROVE  IInv'
<1> USE WagerEscrowAssumption DEF IInv, TypeOK, CancelWager, Cancellable
<1>0. wager[w] \in WagerObject /\ vault[w] = wager[w].stake
  BY DEF Created, VaultMatchesStatus
<1>1. TypeOK'
  BY <1>0 DEF Statuses, WagerObject
<1>2. Created'
  BY <1>0 DEF Created
<1>3. VaultMatchesStatus'
  BY <1>0 DEF VaultMatchesStatus
<1>4. TwoParticipants'
  BY <1>0 DEF TwoParticipants
<1>5. ZeroSum'
  BY <1>0 DEF ZeroSum, FairNet, WagerObject
<1> QED
  BY <1>1, <1>2, <1>3, <1>4, <1>5 DEF IInv

\* A step that leaves every wager alone: the clock, or a stutter.
LEMMA ClockKeepsIInv ==
  ASSUME IInv, clock' \in Nat, UNCHANGED <<wager, status, vault, net>>
  PROVE  IInv'
  BY DEF IInv, TypeOK, Created, VaultMatchesStatus, TwoParticipants, ZeroSum,
         FairNet

LEMMA NextKeepsIInv == IInv /\ [Next]_vars => IInv'
<1> SUFFICES ASSUME IInv, [Next]_vars PROVE IInv'
  OBVIOUS
<1>1. CASE \E u, r \in Users, c \in Users \cup {NoAddress}, w \in Wagers,
              a \in Amounts, e \in Expiries : CreateWager(u, w, a, c, e, r)
  BY <1>1, CreateKeepsIInv
<1>2. CASE \E u \in Users, w \in Wagers, a \in Amounts : AcceptWager(u, w, a)
  BY <1>2, AcceptKeepsIInv
<1>3. CASE \E u, x \in Users, w \in Wagers : ResolveWager(u, w, x)
  BY <1>3, ResolveKeepsIInv
<1>4. CASE \E u \in Users, w \in Wagers : CancelWager(u, w)
  BY <1>4, CancelKeepsIInv
<1>5. CASE Tick
  BY <1>5, ClockKeepsIInv DEF Tick, IInv, TypeOK
<1>6. CASE UNCHANGED vars
  BY <1>6, ClockKeepsIInv DEF vars, IInv, TypeOK
<1> QED
  BY <1>1, <1>2, <1>3, <1>4, <1>5, <1>6 DEF Next

LEMMA Invariance == Spec => []IInv
<1> QED
  BY InitIInv, NextKeepsIInv, PTL DEF Spec

\* Every field of every Wager object always has its type.
THEOREM TypeCorrect == Spec => []TypeOK
<1>1. IInv => TypeOK
  BY DEF IInv
<1> QED
  BY <1>1, Invariance, PTL

\* The vault of a wager always holds exactly the stakes of those who are in.
THEOREM VaultCorrect == Spec => []VaultMatchesStatus
<1>1. IInv => VaultMatchesStatus
  BY DEF IInv
<1> QED
  BY <1>1, Invariance, PTL

\* A wager only ever moves one stake, from its loser to its winner.
THEOREM WagerIsZeroSum == Spec => []ZeroSum
<1>1. IInv => ZeroSum
  BY DEF IInv
<1> QED
  BY <1>1, Invariance, PTL

\* An active wager is between two different accounts, one of whom wins it.
THEOREM WagerHasTwoParticipants == Spec => []TwoParticipants
<1>1. IInv => TwoParticipants
  BY DEF IInv
<1> QED
  BY <1>1, Invariance, PTL

-----------------------------------------------------------------------------
(* The contract implements Escrow.                                         *)


\* The escrow variables, one wager at a time.
LEMMA MappedAt ==
  ASSUME NEW w \in Wagers
  PROVE  /\ Phases[w] = WagerPhase(w) /\ Phases'[w] = WagerPhase(w)'
         /\ Winners[w] = wager[w].winner /\ Winners'[w] = wager'[w].winner
         /\ AllTaken[w] = Taken(w) /\ AllTaken'[w] = Taken(w)'
         /\ AllGiven[w] = Taken(w) - vault[w]
         /\ AllGiven'[w] = Taken(w)' - vault'[w]
  BY DEF Phases, Winners, AllTaken, AllGiven

\* A step on wager w changes the escrow variables at w only.
LEMMA FrameMaps ==
  ASSUME NEW w \in Wagers,
         \A v \in Wagers \ {w} : /\ wager'[v] = wager[v]
                                 /\ status'[v] = status[v]
                                 /\ vault'[v] = vault[v]
  PROVE  /\ Phases' = [Phases EXCEPT ![w] = Phases'[w]]
         /\ Winners' = [Winners EXCEPT ![w] = Winners'[w]]
         /\ AllTaken' = [AllTaken EXCEPT ![w] = AllTaken'[w]]
         /\ AllGiven' = [AllGiven EXCEPT ![w] = AllGiven'[w]]
<1>1. \A v \in Wagers \ {w} : WagerPhase(v)' = WagerPhase(v)
  BY DEF WagerPhase
<1>2. \A v \in Wagers \ {w} : Taken(v)' = Taken(v)
  BY DEF Taken
<1>3. Phases' = [Phases EXCEPT ![w] = Phases'[w]]
  BY <1>1 DEF Phases
<1>4. Winners' = [Winners EXCEPT ![w] = Winners'[w]]
  BY DEF Winners
<1>5. AllTaken' = [AllTaken EXCEPT ![w] = AllTaken'[w]]
  BY <1>2 DEF AllTaken
<1>6. AllGiven' = [AllGiven EXCEPT ![w] = AllGiven'[w]]
  BY <1>2 DEF AllGiven
<1> QED
  BY <1>3, <1>4, <1>5, <1>6

\* An escrow variable that changes at w only, and not at w, does not change.
LEMMA SameMaps ==
  ASSUME NEW w \in Wagers
  PROVE  /\ Phases' = [Phases EXCEPT ![w] = Phases[w]] => Phases' = Phases
         /\ Winners' = [Winners EXCEPT ![w] = Winners[w]] => Winners' = Winners
         /\ AllTaken' = [AllTaken EXCEPT ![w] = AllTaken[w]] => AllTaken' = AllTaken
         /\ AllGiven' = [AllGiven EXCEPT ![w] = AllGiven[w]] => AllGiven' = AllGiven
  BY DEF Winners, AllTaken, AllGiven, Phases

\* No wager exists at first, and no account of the escrow.
LEMMA InitRefines == Init => WagerVault!Init
  BY DEF Init, WagerVault!Init, WagerPhase, Taken, Unborn, Phases, Winners,
         AllTaken, AllGiven

\* create_wager opens the account with the initiator's stake.
LEMMA CreateRefines ==
  ASSUME IInv, NEW u \in Users, NEW w \in Wagers, NEW a \in Amounts,
         NEW c \in Users \cup {NoAddress}, NEW e \in Expiries, NEW r \in Users,
         CreateWager(u, w, a, c, e, r)
  PROVE  WagerVault!Open(w)
<1> USE WagerEscrowAssumption DEF IInv, TypeOK, CreateWager, PositiveStake
<1>1. wager[w] = Unborn /\ vault[w] = 0
  BY DEF Created, VaultMatchesStatus
<1>2. Phases[w] = "none" /\ Phases'[w] = "open"
  BY MappedAt DEF WagerPhase
<1>3. AllTaken[w] = 0 /\ AllTaken'[w] = a
  BY MappedAt, <1>1 DEF Taken, Unborn
<1>4. Winners'[w] = Winners[w] /\ AllGiven'[w] = AllGiven[w]
  BY MappedAt, <1>1 DEF Taken, Unborn
<1> QED
  BY FrameMaps, SameMaps, <1>2, <1>3, <1>4 DEF WagerVault!Open

\* accept_wager takes the challenger's stake in.
LEMMA AcceptRefines ==
  ASSUME IInv, NEW u \in Users, NEW w \in Wagers, NEW a \in Amounts,
         AcceptWager(u, w, a)
  PROVE  WagerVault!TakeIn(w)
<1> USE WagerEscrowAssumption
    DEF IInv, TypeOK, AcceptWager, MayAccept, MatchesStake
<1>1. wager[w] \in WagerObject /\ vault[w] = wager[w].stake
  BY DEF Created, VaultMatchesStatus
<1>2. /\ wager'[w].stake = wager[w].stake
      /\ wager'[w].winner = wager[w].winner
      /\ wager[w].stake \in Nat \ {0}
  BY <1>1 DEF WagerObject
<1>3. Phases[w] = "open" /\ Phases'[w] = Phases[w]
  BY MappedAt DEF WagerPhase
<1>4. AllTaken[w] = wager[w].stake /\ AllTaken'[w] = 2 * wager[w].stake
  BY MappedAt, <1>2 DEF Taken
<1>5. Winners'[w] = Winners[w]
  BY MappedAt, <1>2
<1>6. AllGiven'[w] = AllGiven[w]
  BY MappedAt, <1>1, <1>2 DEF Taken
<1> QED
  BY FrameMaps, SameMaps, <1>2, <1>3, <1>4, <1>5, <1>6 DEF WagerVault!TakeIn

\* resolve_wager settles the account and gives out all it took in.
LEMMA ResolveRefines ==
  ASSUME IInv, NEW u \in Users, NEW w \in Wagers, NEW x \in Users,
         ResolveWager(u, w, x)
  PROVE  WagerVault!Settle(w)
<1> USE WagerEscrowAssumption DEF IInv, TypeOK, ResolveWager, Prize
<1>1. wager[w] \in WagerObject /\ vault[w] = 2 * wager[w].stake
  BY DEF Created, VaultMatchesStatus
<1>2. /\ wager'[w].stake = wager[w].stake /\ wager'[w].winner = x
      /\ wager[w].stake \in Nat \ {0}
  BY <1>1 DEF WagerObject
<1>3. Phases[w] = "open" /\ Phases'[w] = "settled"
  BY MappedAt DEF WagerPhase
<1>4. AllTaken[w] = 2 * wager[w].stake /\ AllTaken'[w] = AllTaken[w]
  BY MappedAt, <1>2 DEF Taken
<1>5. Winners'[w] \in Users
  BY MappedAt, <1>2
<1>6. AllGiven[w] = 0 /\ AllGiven'[w] = AllTaken[w]
  BY MappedAt, <1>1, <1>2, <1>4 DEF Taken
<1> QED
  BY FrameMaps, SameMaps, <1>2, <1>3, <1>4, <1>5, <1>6
     DEF WagerVault!Settle, WagerVault!PayOut

\* cancel_wager voids the account and gives out all it took in.
LEMMA CancelRefines ==
  ASSUME IInv, NEW u \in Users, NEW w \in Wagers, CancelWager(u, w)
  PROVE  WagerVault!Void(w)
<1> USE WagerEscrowAssumption DEF IInv, TypeOK, CancelWager, Cancellable
<1>1. wager[w] \in WagerObject /\ vault[w] = wager[w].stake
  BY DEF Created, VaultMatchesStatus
<1>2. wager[w].stake \in Nat \ {0}
  BY <1>1 DEF WagerObject
<1>3. Phases[w] = "open" /\ Phases'[w] = "void"
  BY MappedAt DEF WagerPhase
<1>4. AllTaken[w] = wager[w].stake /\ AllTaken'[w] = AllTaken[w]
  BY MappedAt DEF Taken
<1>5. Winners'[w] = Winners[w]
  BY MappedAt
<1>6. AllGiven[w] = 0 /\ AllGiven'[w] = AllTaken[w]
  BY MappedAt, <1>1, <1>2 DEF Taken
<1> QED
  BY FrameMaps, SameMaps, <1>2, <1>3, <1>4, <1>5, <1>6
     DEF WagerVault!Void, WagerVault!PayOut

\* A step that leaves every wager alone is invisible in the escrow.
LEMMA ClockRefines ==
  ASSUME UNCHANGED <<wager, status, vault>>
  PROVE  UNCHANGED WagerVault!vars
  BY DEF WagerVault!vars, Phases, Winners, AllTaken, AllGiven, WagerPhase, Taken

LEMMA NextRefines == IInv /\ [Next]_vars => [WagerVault!Next]_WagerVault!vars
<1> SUFFICES ASSUME IInv, [Next]_vars PROVE [WagerVault!Next]_WagerVault!vars
  OBVIOUS
<1>1. CASE \E u, r \in Users, c \in Users \cup {NoAddress}, w \in Wagers,
              a \in Amounts, e \in Expiries : CreateWager(u, w, a, c, e, r)
  BY <1>1, CreateRefines DEF WagerVault!Next
<1>2. CASE \E u \in Users, w \in Wagers, a \in Amounts : AcceptWager(u, w, a)
  BY <1>2, AcceptRefines DEF WagerVault!Next
<1>3. CASE \E u, x \in Users, w \in Wagers : ResolveWager(u, w, x)
  BY <1>3, ResolveRefines DEF WagerVault!Next
<1>4. CASE \E u \in Users, w \in Wagers : CancelWager(u, w)
  BY <1>4, CancelRefines DEF WagerVault!Next
<1>5. CASE Tick
  BY <1>5, ClockRefines DEF Tick
<1>6. CASE UNCHANGED vars
  BY <1>6, ClockRefines DEF vars
<1> QED
  BY <1>1, <1>2, <1>3, <1>4, <1>5, <1>6 DEF Next

\* Every wager is an escrow account: one resolution or one cancellation for
\* ever, and never more out than in.
THEOREM WagerImplementsEscrow == Spec => ImplementsEscrow
<1> QED
  BY InitRefines, NextRefines, Invariance, PTL
     DEF Spec, ImplementsEscrow, WagerVault!Spec
=============================================================================
