CONSTANTS
  K = 3
  N = 2
  MaxSize = 4
  StripLen = 8
  PtrLen = 16
  IntMax = 16
  SizeMax = 64
  Uninit = Uninit
  Shapes <- MCShapes
  DefaultChunk = 3
  Zero = Zero
  Stray = Stray
SPECIFICATION ProgramsSpec
INVARIANTS
  PaddingFits
  ContinueHoldsData
  OrderHoldsPaddedData
  StripesHoldData
  DataRecovered
  DataSurvives
PROPERTY FollowsProtocol
CHECK_DEADLOCK FALSE
