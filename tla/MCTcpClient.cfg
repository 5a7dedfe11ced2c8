SPECIFICATION ClientSpec
CONSTANTS
  AttachInHandler = FALSE
  MaxStarts = 1
  OthersOpen = TRUE
INVARIANTS
  NoAssertFailure
  ClosedOrOvertaken
PROPERTIES
  HandedOverOpen
  StopReturns
CHECK_DEADLOCK FALSE
