\* Three stakes, two resolving tasks, one failure.
SPECIFICATION Spec
CONSTANTS
  Stakes = {s1, s2, s3}
  Sides = {A, B}
  NoSide = NoSide
  Amounts = {1, 2}
  Tasks = {t1, t2}
  Cancellers = {}
  NoTask = NoTask
  MaxAborts = 1
SYMMETRY Interchangeable
INVARIANTS
  PayoutsCovered
PROPERTY
  ImplementsLedger
