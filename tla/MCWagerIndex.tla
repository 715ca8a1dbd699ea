---------------------------- MODULE MCWagerIndex ----------------------------
(***************************************************************************)
(* Instances of WagerIndex for TLC.                                        *)
(***************************************************************************)
EXTENDS WagerIndex, TLC

\* Requests are interchangeable, and so are those who did not create the wager.
Interchangeable == Permutations(Requests) \cup Permutations(People \ {Initiator})
=============================================================================
