\* Three wallets and four requests, one of which may fail.
SPECIFICATION Spec
CONSTANTS
  People = {ann, bob, cyd}
  Initiator = ann
  Platform = Platform
  NoAddress = NoAddress
  Wager = w1
  Requests = {q1, q2, q3, q4}
  SetStatuses = {"expired"}
  MaxFailures = 1
SYMMETRY Interchangeable
CHECK_DEADLOCK FALSE
INVARIANTS
  RowFollowsChain
  PaidAsDeclared
  AgreementNoticed
  NobodyWinsAndLoses
  FailureIsShown
