------------------------------- MODULE Escrow -------------------------------
(***************************************************************************)
(* What both contracts promise about the money they hold, abstracted from  *)
(* who stakes and by which formula winners are paid: an account is opened  *)
(* once, takes money in only while it is open, is then either settled with *)
(* one verdict or voided, neither of which is ever revised, gives money    *)
(* out only from then on, and never gives out more than it took in.        *)
(* StakingPool implements it with one account per pool, WagerEscrow with   *)
(* one account per wager.                                                  *)
(***************************************************************************)
EXTENDS Integers

CONSTANTS Accounts, Verdicts, NoVerdict

VARIABLES
  phase,    \* per account: "none", "open", "settled" or "void"
  verdict,  \* per account: NoVerdict, or the verdict it was settled with
  taken,    \* per account: all the money ever taken in
  given     \* per account: all the money ever given out

vars == <<phase, verdict, taken, given>>

Init ==
  /\ phase = [k \in Accounts |-> "none"]
  /\ verdict = [k \in Accounts |-> NoVerdict]
  /\ taken = [k \in Accounts |-> 0]
  /\ given = [k \in Accounts |-> 0]

\* Opening may already take a first deposit.
Open(k) ==
  /\ phase[k] = "none"
  /\ phase' = [phase EXCEPT ![k] = "open"]
  /\ taken' = [taken EXCEPT ![k] = taken'[k]]
  /\ taken[k] <= taken'[k]
  /\ UNCHANGED <<verdict, given>>

TakeIn(k) ==
  /\ phase[k] = "open"
  /\ taken' = [taken EXCEPT ![k] = taken'[k]]
  /\ taken[k] < taken'[k]
  /\ UNCHANGED <<phase, verdict, given>>

\* Some of what was taken in and not yet given out is given out.
PayOut(k) ==
  /\ given' = [given EXCEPT ![k] = given'[k]]
  /\ given[k] <= given'[k]
  /\ given'[k] <= taken[k]

\* Closing may already give out.
Settle(k) ==
  /\ phase[k] = "open"
  /\ phase' = [phase EXCEPT ![k] = "settled"]
  /\ verdict'[k] \in Verdicts
  /\ verdict' = [verdict EXCEPT ![k] = verdict'[k]]
  /\ PayOut(k)
  /\ UNCHANGED taken

Void(k) ==
  /\ phase[k] = "open"
  /\ phase' = [phase EXCEPT ![k] = "void"]
  /\ PayOut(k)
  /\ UNCHANGED <<verdict, taken>>

GiveOut(k) ==
  /\ phase[k] \in {"settled", "void"}
  /\ PayOut(k)
  /\ UNCHANGED <<phase, verdict, taken>>

Next ==
  \E k \in Accounts : Open(k) \/ TakeIn(k) \/ Settle(k) \/ Void(k) \/ GiveOut(k)

Spec == Init /\ [][Next]_vars
=============================================================================
