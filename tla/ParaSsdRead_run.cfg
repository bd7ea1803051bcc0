CONSTANTS
  K = 2
  N = 1
  NumBlocks = 2
  Teams = {1, 2}
  Builds = {"elided", "tested_once"}
  MaxFaults = 1
SPECIFICATION ProgramSpec
INVARIANTS ProgramTypeOK PublishedIsEncoded VerdictSound InOrderWritesEncoded InOrderNoError
PROPERTY Terminates
CHECK_DEADLOCK FALSE
