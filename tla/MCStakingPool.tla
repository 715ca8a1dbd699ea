--------------------------- MODULE MCStakingPool ----------------------------
(* StakingPool with the definitions its configurations need: receipts are  *)
(* interchangeable ids, and no property names one of them.                 *)
EXTENDS StakingPool, TLC

Interchangeable == Permutations(Receipts)
=============================================================================
