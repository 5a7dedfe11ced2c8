SPECIFICATION SafetySpec
CONSTANTS
  Bounds <- HeaderOnly
  PredLen = 8
  Pending = 4
  LenBytes = 1
  LenRange = 16
  HeaderLen = 2
  Ahead <- OneByOne
INVARIANTS
  DecodeAccepts
CHECK_DEADLOCK FALSE
