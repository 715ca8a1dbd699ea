SPECIFICATION FairSpec
CONSTANTS
  Intents = {i1}
  Requests = {q1, q2}
  Amounts = {1, 3}
  Reserves = {1}
  MaxBalance = 3
  MaxI64 = 3
INVARIANTS ReadyIsNoticed
PROPERTIES ReserveKept SessionFundsIntent ReadyAtLast
CHECK_DEADLOCK FALSE
