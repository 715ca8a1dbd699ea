----------------------------- MODULE MCPoolIndex -----------------------------
(***************************************************************************)
(* Instances of PoolIndex for TLC.                                         *)
(***************************************************************************)
EXTENDS PoolIndex, TLC

CONSTANTS A, B, b1, b2, admin

\* Both opponents are known from the first report.
Full == {<<A, B>>}

\* Two backfills and the reconciler, or one and two syncs.
TwoOfAKind == {{b1, b2, Reconciler}, {b1, admin, Reconciler}}
=============================================================================
