\* Three accounts (initiator, challenger, outsider), two wagers.
CONSTANTS
  Users = {alice, bob, carol}
  NoAddress = NoAddress
  Wagers = {w1, w2}
  Amounts = {0, 1, 2}
  Expiries = {0, 1}
  MaxTime = 1
SPECIFICATION Spec
SYMMETRY Interchangeable
INVARIANTS ZeroSum
PROPERTY ImplementsEscrow
CHECK_DEADLOCK FALSE
