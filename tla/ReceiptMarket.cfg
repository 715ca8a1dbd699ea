\* Two wallets, two rows, three listings on chain, five requests.
SPECIFICATION MarketSpec
CONSTANTS
  Wallets = {ann, bob}
  Admin = Admin
  Pool = p1
  Receipt = r1
  NoListing = NoListing
  NoReceipt = NoReceipt
  NoWallet = NoWallet
  MaxRows = 2
  MaxObjects = 3
  Requests = {q1, q2, q3, q4, q5}
  MaxFaults = 1
SYMMETRY Interchangeable
CHECK_DEADLOCK FALSE
INVARIANTS
  SoldRowWasBought
  OpenRowIsOwners
