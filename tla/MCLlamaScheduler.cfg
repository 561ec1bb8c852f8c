CONSTANTS
  Request = {r1, r2, r3}
  max_batch_size_ = 2
  None = None
SPECIFICATION Spec
PROPERTIES
  EveryRequestSettled
  StopReturns
