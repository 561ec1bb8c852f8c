CONSTANTS
  Process = {p1, p2}
  files <- ModelFiles
  Optional <- OptionalFiles
  Inode = {i1, i2, i3, i4}
  NumChunks = 2
  MaxCrashes = 2
  MaxFailures = 2
  None = None
SPECIFICATION Spec
INVARIANTS
  IncompleteOnlyUnflushed
  TornOnlyWhileWritten
PROPERTIES
  EventuallyCached
