SPECIFICATION ConnFairSpec
CONSTANTS
  FallbackCount = 1
  MaxAttempts = 1
  AttemptCap = 1
  HasAuthCb = TRUE
  MaxServices = 2
CHECK_DEADLOCK FALSE
INVARIANTS NoOrphanThread BackoffSeesClose
PROPERTIES ExitHasReason NoRetryAfterFatal CloseReturns Redials
VIEW LiveState
