CONSTANTS
  Process = {p1, p2}
  Config <- MCConfig
  configs <- MCConfigs
  Objective = {"LATENCY", "BALANCED"}
  Latency = {10, 100}
  Budget = {50}
  MinTokens = {100}
  MaxCalls = 2
  MaxCrashes = 1
  Empty = Empty
  None = None
SPECIFICATION Spec
INVARIANTS
  EmptyOnlyWhileWritten
  
  ConstraintsHeldUnlessNoneFits
SYMMETRY MCSymmetry
CHECK_DEADLOCK FALSE
