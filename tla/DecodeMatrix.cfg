CONSTANTS
  k = 3
  m = 6
  ByteValues = {0, 1, 2, 3, 4, 5, 6, 7, 8, 9, 10, 11, 12, 13, 14, 15}
  Add <- MCXor
  Mul <- MCMul
  Inv <- MCInv
  Half = 2
  Twice <- MCTwice
  Group = 2
  Saving = 1
  Width <- MCWidth
  Lens = {1, 3, 4}
  Data <- MCData
SPECIFICATION EncodeSpec
INVARIANTS SelectionInRange SurvivorsSelected EliminationInvariant NeverSingular DecodeRowsRebuild BytesRebuilt
CHECK_DEADLOCK FALSE
