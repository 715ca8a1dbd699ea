\* Two backfills beside the reconciler, or one beside the reconciler and an
\* administrator, with one failure; every event is in the window.
SPECIFICATION FairSpec
CONSTANTS
  A = A
  B = B
  Teams = {A, B}
  NoTeam = NoTeam
  Lineups <- Full
  Ingesters = {g1}
  Backfillers = {b1, b2}
  Pools = {p1, p2, p3}
  NoPool = NoPool
  Mistyped = Mistyped
  Stakes = {s1, s2}
  MaxBatch = 2
  Foreign = Foreign
  MaxLog = 2
  Reconciler = Reconciler
  Admins = {admin}
  b1 = b1
  b2 = b2
  admin = admin
  Crews <- TwoOfAKind
  Window = 2
  MaxFailures = 1
INVARIANTS
  RowsPerSyncer
  StakesInRegisteredPool
  PoolsPerBackfiller
PROPERTY
  StakesReachIndex
