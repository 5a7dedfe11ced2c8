SPECIFICATION TreeSpec
CONSTANTS
  Size = 35
  LongBits = 6
  IntBits = 3
  MaxAstray = 2
INVARIANTS
  TreeIsFreeSet
  NullWhenExhausted
CHECK_DEADLOCK FALSE
