\* Two stakes, a resolving and a cancelling task, one failure.
SPECIFICATION FairSpec
CONSTANTS
  Stakes = {s1, s2}
  Sides = {A, B}
  NoSide = NoSide
  Amounts = {1, 2}
  Tasks = {t1, t2}
  Cancellers = {t2}
  NoTask = NoTask
  MaxAborts = 1
INVARIANT
  WinnersNeverLose
PROPERTIES
  SettledStaysSettled
  EveryStakeSettles
