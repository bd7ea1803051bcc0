CONSTANTS
  Shapes <- MCShapes
  DefaultChunk = 3
  IntMax = 16
  Zero = Zero
  Stray = Stray
SPECIFICATION Spec
INVARIANT OrderHoldsData
