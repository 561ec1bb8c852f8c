CONSTANTS
  Process = {p1, p2}
  Inode = {i1, i2}
  Machine <- Machines
  Windows = FALSE
  Model <- Models
  Backend = {onnx, llama}
  Config = {c1}
  MaxConfigs = 2
  MaxSaves = 2
  MaxFaults = 1
  None = None
SPECIFICATION Spec
INVARIANTS ExactWhileUndisturbed HitWasSaved BestIsHeld
CHECK_DEADLOCK FALSE
SYMMETRY Symmetry
