SPECIFICATION TreeSpec
CONSTANTS
  Size = 64
  LongBits = 4
  IntBits = 2
  MaxAstray = 1
INVARIANTS
  TreeIsFreeSet
  NullWhenExhausted
CHECK_DEADLOCK FALSE
