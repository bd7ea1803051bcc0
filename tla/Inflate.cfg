SPECIFICATION Spec
CONSTANTS
  Hist = 2
  LookAhead = 9
  MaxMatch = 3
  RegSize = 3
  HdrSize = 3
  Files <- MCFiles
  Packs = {1, 3}
  InSizes = {1, 5}
  OutSizes = {0, 1, 3, 9}
  SplitHeaders = FALSE
  NameSizes = {1}
  Garbage = {0, 30}
INVARIANTS
  TypeOK
  BuffersHold
  HistoryKept
  ExtraRead
  CountsWhatIsWritten
  TrailerTakenExactly
PROPERTIES
  ReturnsWhenDone
  ImplementsDecompressor
  Finishes
CHECK_DEADLOCK FALSE
