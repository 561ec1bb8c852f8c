CONSTANTS
  Thread = {t1, worker}
  Worker = worker
  Text = {r1, r2}
  NumContexts = 2
  IndexModulus = 3
  max_batch_size_ = 2
  MaxDirectCalls = 2
  None = None
SPECIFICATION Spec
INVARIANTS TypeOK ContextExclusive EmbeddingsNeverMixed FreedOnlyUnderScheduler BatchFailsAsAWhole StopFinishesBatch
PROPERTIES DestructorReturns DirectCallReturns ImplementsScheduler ImplementsFifo
CHECK_DEADLOCK FALSE
