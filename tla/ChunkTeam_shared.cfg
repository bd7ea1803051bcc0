CONSTANTS
  K = 2
  N = 1
  TeamSize = 2
  NumChunks = 2
  SharedPtrs = TRUE
  Schedules = {"static"}
  Unset = Unset
SPECIFICATION Spec
PROPERTY ImplementsCall
CHECK_DEADLOCK FALSE
