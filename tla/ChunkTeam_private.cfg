CONSTANTS
  K = 2
  N = 2
  TeamSize = 3
  NumChunks = 4
  SharedPtrs = FALSE
  Schedules = {"dynamic", "static"}
  Unset = Unset
SPECIFICATION Spec
INVARIANTS TypeOK ChunkExclusive
PROPERTIES ImplementsCall CallReturns
CHECK_DEADLOCK FALSE
