SPECIFICATION SafetySpec
CONSTANTS
  Bounds <- OneLong
  PredLen = 8
  Pending = 4
  LenBytes = 1
  LenRange = 16
  HeaderLen = 2
  Ahead <- OneByOne
INVARIANTS
  StreamIntact
CHECK_DEADLOCK FALSE
