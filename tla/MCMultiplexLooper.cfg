SPECIFICATION Spec
CONSTANTS
  p1 = p1
  p2 = p2
  r1 = r1
  r2 = r2
  r3 = r3
  Posters <- MCPosters
  LoopThread = LoopThread
  Runnables <- MCTwoRunnables
  MaxCalls = 2
INVARIANTS
  LoopInv
PROPERTIES
  MailboxSpec
  StopEndsLoop
CHECK_DEADLOCK FALSE
