--------------------------- MODULE MCWagerEscrow ----------------------------
(* WagerEscrow with the definitions its configuration needs. *)
EXTENDS WagerEscrow, TLC

\* Accounts and wager ids are interchangeable: no property names one of them.
Interchangeable == Permutations(Users) \cup Permutations(Wagers)
=============================================================================
