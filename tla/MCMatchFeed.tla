---------------------------- MODULE MCMatchFeed ----------------------------
(* MatchFeed for TLC: a match whose second opponent may be decided later.  *)
EXTENDS MatchFeed

CONSTANTS A, B

\* The provider lists an opponent where it stays, or moves it.
InOrder == {<<A, Tbd>>, <<A, B>>}
Moved == {<<A, Tbd>>, <<B, A>>}
Listed == InOrder \cup Moved

Setting(f, ls, ks) == [feed |-> f, lineups |-> ls, kinds |-> ks]

Mixes ==
  {Setting("pandascore", InOrder, {"poller", "webhook"}),
   Setting("pandascore", Moved, {"scheduler", "poller"}),
   Setting("pandascore", {<<A, B>>}, {"sync"}),
   Setting("pandascore", {<<A, B>>}, {"poller", "admin"}),
   Setting("pandascore", {<<A, B>>}, {"create"}),
   Setting("graphql", {<<A, B>>}, {"grid_sync", "admin"}),
   Setting("rest", InOrder, {"grid_sync"})}
=============================================================================
