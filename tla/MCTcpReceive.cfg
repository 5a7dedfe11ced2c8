SPECIFICATION Spec
CONSTANTS
  Bounds <- Grouped
  PredLen = 20
  Pending = 2
  LenBytes = 1
  LenRange = 32
  HeaderLen = 2
  Ahead <- InGroups
INVARIANTS
  ReceiveInv
  NoStrandedBytes
  NoMessageLeft
PROPERTIES
  SentIsDelivered
CHECK_DEADLOCK FALSE
