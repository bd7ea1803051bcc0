CONSTANTS
  K = 3
  N = 1
  strip_offset = 2
  Capacity = 3
  Calls <- MCCalls
  Versions = {1}
  Blank = Blank
SPECIFICATION Spec
INVARIANTS TypeOK WriteLands
PROPERTY ImplementsStripStore
