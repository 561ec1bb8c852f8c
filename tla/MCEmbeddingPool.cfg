CONSTANTS
  num_workers_ = 3
  MaxTotal = 7
  bs = 2
  CanFail = TRUE
SPECIFICATION PoolSpec
INVARIANTS
  InTextOrder
  LostOnlyBesideIdleWorkers
PROPERTIES
  CallReturns
CHECK_DEADLOCK FALSE
