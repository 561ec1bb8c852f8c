CONSTANTS
  Request = {r1}
  max_batch_size_ = 2
  None = None
SPECIFICATION Spec
INVARIANTS SubmitWaitsForAnswer
