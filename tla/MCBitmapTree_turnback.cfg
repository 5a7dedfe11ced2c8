SPECIFICATION TreeSpec
CONSTANTS
  Size = 40
  LongBits = 64
  IntBits = 32
  MaxAstray = 4
INVARIANTS
  TurnedBackIsFree
CHECK_DEADLOCK FALSE
