SPECIFICATION SendSpec
CONSTANTS
  Sizes = {1, 3}
  MaxBatch = 3
  MaxBytes = 8
  MaxCalls = 3
  VecMax = 2
  Space = 8
  Errors = FALSE
INVARIANTS
  SentOnceInOrder
CHECK_DEADLOCK FALSE
