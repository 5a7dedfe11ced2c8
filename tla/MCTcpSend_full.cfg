SPECIFICATION SendSpec
CONSTANTS
  Sizes = {2}
  MaxBatch = 3
  MaxBytes = 8
  MaxCalls = 3
  VecMax = 2
  Space = 2
  Errors = FALSE
INVARIANTS
  NothingVanishes
CHECK_DEADLOCK FALSE
