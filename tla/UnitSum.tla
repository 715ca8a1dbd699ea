------------------------------ MODULE UnitSum -------------------------------
(***************************************************************************)
(* Sums of amounts over a finite set, the arithmetic every money invariant *)
(* of this project is stated with.  An amount w[x] is a heap of w[x] base  *)
(* units (MIST); the sum over S is the number of units in the heaps of S.  *)
(* Counting units instead of folding an addition keeps the definition free *)
(* of recursion, so that UnitSumProofs can derive from the library's       *)
(* cardinality theorems how a sum changes when one heap is added, removed  *)
(* or replaced, for every set and every amount.                            *)
(***************************************************************************)
EXTENDS Integers, FiniteSets

\* The units of the heaps of S: unit k of heap x is the pair <<x, k>>.
Units(S, w) == UNION {{x} \X (1 .. w[x]) : x \in S}

\* The sum of w[x] over all x \in S, for a finite S and natural amounts.
SumOf(S, w) == Cardinality(Units(S, w))

=============================================================================
