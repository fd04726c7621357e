SPECIFICATION Spec
CONSTANTS
  MaxConnects = 3
  MaxFrames = 3
  CloseRounds = 2
CHECK_DEADLOCK FALSE
INVARIANTS UpIsUsable FailedConnectLeavesNothing
PROPERTIES NoTextAfterClose CloseReturns
