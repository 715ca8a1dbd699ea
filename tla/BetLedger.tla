----------------------------- MODULE BetLedger ------------------------------
(***************************************************************************)
(* What settling the bets of one match promises, without workers, locks or *)
(* statements: a bet is placed once, all the bets open at one moment are   *)
(* settled together, and a settled bet is never settled again.  A          *)
(* settlement for winner w shares the whole pool between the backers of w  *)
(* in proportion to their bets, rounded down, unless nobody or everybody   *)
(* backed w, when every open bet is refunded.                              *)
(***************************************************************************)
EXTENDS Integers, UnitSum

CONSTANTS Stakes, Sides, NoSide

VARIABLES
  status,  \* per bet: "none", "active", "won", "lost" or "refunded"
  side,    \* per bet: the side backed, NoSide before it is placed
  amount,  \* per bet: the money bet
  payout   \* per bet: the money won

vars == <<status, side, amount, payout>>

Init ==
  /\ status = [s \in Stakes |-> "none"]
  /\ side = [s \in Stakes |-> NoSide]
  /\ amount = [s \in Stakes |-> 0]
  /\ payout = [s \in Stakes |-> 0]

Open == {s \in Stakes : status[s] = "active"}
Backers(w) == {s \in Open : side[s] = w}
Pool == SumOf(Open, amount)
WinnerPool(w) == SumOf(Backers(w), amount)

Place(s, d) ==
  /\ status[s] = "none"
  /\ status' = [status EXCEPT ![s] = "active"]
  /\ side' = [side EXCEPT ![s] = d]
  /\ amount' = [amount EXCEPT ![s] = amount'[s]]
  /\ amount'[s] > 0
  /\ UNCHANGED payout

PayWinners(w) ==
  /\ 0 < WinnerPool(w) /\ WinnerPool(w) < Pool
  /\ status' = [s \in Stakes |-> IF s \in Backers(w) THEN "won"
                                 ELSE IF s \in Open THEN "lost" ELSE status[s]]
  /\ payout' = [s \in Stakes |-> IF s \in Backers(w)
                                 THEN (amount[s] * Pool) \div WinnerPool(w)
                                 ELSE payout[s]]
  /\ UNCHANGED <<side, amount>>

RefundUnmatched(w) ==
  /\ WinnerPool(w) \in {0, Pool}
  /\ status' = [s \in Stakes |-> IF s \in Open THEN "refunded" ELSE status[s]]
  /\ UNCHANGED <<side, amount, payout>>

Next ==
  \/ \E s \in Stakes, d \in Sides : Place(s, d)
  \/ \E w \in Sides : PayWinners(w) \/ RefundUnmatched(w)

Spec == Init /\ [][Next]_vars
=============================================================================
