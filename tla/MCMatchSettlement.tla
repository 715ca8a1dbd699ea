------------------------- MODULE MCMatchSettlement --------------------------
(***************************************************************************)
(* Instances of MatchSettlement for TLC.                                   *)
(***************************************************************************)
EXTENDS MatchSettlement, TLC

\* Stake rows and tasks that neither cancel are interchangeable.
Interchangeable == Permutations(Stakes) \cup Permutations(Tasks \ Cancellers)
=============================================================================
