SPECIFICATION Spec
CONSTANTS
  c1 = c1
  c2 = c2
  L1 = L1
  L2 = L2
  Conns <- TwoConns
  Loopers <- TwoLoopers
  AttachInline = FALSE
  Resets = FALSE
  Kicks = FALSE
  MaxSends = 0
  EmptySends = FALSE
  MaxChunks = 2
INVARIANTS
  ServerInv
PROPERTIES
  LifeCycle
  EndIsReclaimed
CHECK_DEADLOCK FALSE
