SPECIFICATION SafetySpec
CONSTANTS
  c1 = c1
  c2 = c2
  L1 = L1
  L2 = L2
  Conns <- TwoConns
  Loopers <- OneLooper
  AttachInline = TRUE
  Resets = TRUE
  Kicks = TRUE
  MaxSends = 1
  EmptySends = TRUE
  MaxChunks = 1
SYMMETRY Symmetry
INVARIANTS
  OnlyCutsFail
  OrderlyEnd
CHECK_DEADLOCK FALSE
