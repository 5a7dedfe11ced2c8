SPECIFICATION Spec
CONSTANTS
  c1 = c1
  c2 = c2
  L1 = L1
  L2 = L2
  Conns <- OneConn
  Loopers <- OneLooper
  AttachInline = TRUE
  Resets = FALSE
  Kicks = FALSE
  MaxSends = 0
  EmptySends = FALSE
  MaxChunks = 2
PROPERTIES
  EndIsNotified
CHECK_DEADLOCK FALSE
