SPECIFICATION SafetySpec
CONSTANTS
  Bounds <- Huge
  PredLen = 20
  Pending = 4
  LenBytes = 1
  LenRange = 16
  HeaderLen = 2
  Ahead <- OneByOne
INVARIANTS
  NoMessageLeft
CHECK_DEADLOCK FALSE
