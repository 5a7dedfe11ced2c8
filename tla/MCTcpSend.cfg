SPECIFICATION SendSpec
CONSTANTS
  Sizes = {0, 2, 3}
  MaxBatch = 3
  MaxBytes = 9
  MaxCalls = 3
  VecMax = 2
  Space = 6
  Errors = TRUE
INVARIANTS
  SendTypeOK
  EqualSentInOrder
CHECK_DEADLOCK FALSE
