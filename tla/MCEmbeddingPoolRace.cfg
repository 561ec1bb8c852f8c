CONSTANTS
  num_workers_ = 3
  MaxTotal = 2
  bs = 1
  CanFail = FALSE
SPECIFICATION PoolSpec
INVARIANTS MissingOnlyIfFailed
CHECK_DEADLOCK FALSE
