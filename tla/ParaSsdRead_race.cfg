CONSTANTS
  K = 2
  N = 1
  NumBlocks = 2
  Teams = {2}
  Builds = {"elided"}
  MaxFaults = 0
SPECIFICATION ProgramSpec
INVARIANT NoErrorWithoutFault
CHECK_DEADLOCK FALSE
