CONSTANTS
  K = 2
  N = 2
  MaxSize = 2
  StripLen = 4
  EncodePtrSize = 4
  CacheSize = 8
  Calls <- AllCalls
  ErrInputs <- MCErrInputs
  IntMax = 8
  SizeMax = 32
  EncodeAfterDecode = TRUE
  DecodeBetweenCached = FALSE
  Uninit = Uninit
SPECIFICATION Spec
PROPERTY EncodeMakesCodeword
