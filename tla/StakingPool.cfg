\* One pool, three receipts of one account: the arithmetic of settlement.
CONSTANTS
  Users = {alice}
  Admin = alice
  Pools = {p1}
  Receipts = {r1, r2, r3}
  Amounts = {0, 1, 2, 3}
  Deadlines = {1}
  MaxTime = 2
  MaxU64 = 7
  NoListing = NoListing
  NoReceipt = NoReceipt
SPECIFICATION Spec
SYMMETRY Interchangeable
INVARIANTS Solvent PaidFairShare DustBound LastQuoteHonoured
CHECK_DEADLOCK FALSE
