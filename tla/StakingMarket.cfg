\* Two pools, two accounts, two receipts: gifts, resale, redemption at the wrong pool.
CONSTANTS
  Users = {alice, bob}
  Admin = alice
  Pools = {p1, p2}
  Receipts = {r1, r2}
  Amounts = {0, 1}
  Deadlines = {1}
  MaxTime = 2
  MaxU64 = 2
  NoListing = NoListing
  NoReceipt = NoReceipt
SPECIFICATION Spec
SYMMETRY Interchangeable
INVARIANTS BooksBalance SellerIsOwner
PROPERTY ImplementsEscrow
CHECK_DEADLOCK FALSE
