SPECIFICATION Spec
CONSTANTS
  Hist = 2
  LookAhead = 9
  MaxMatch = 3
  RegSize = 3
  HdrSize = 3
  Files <- MCNamedFiles
  Packs = {1}
  InSizes = {1, 4}
  OutSizes = {1, 20}
  SplitHeaders = TRUE
  NameSizes = {9}
  Garbage = {0, 2}
INVARIANT ValidAccepted
CHECK_DEADLOCK FALSE
