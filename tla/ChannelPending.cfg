SPECIFICATION Spec
CONSTANTS
  RingRoom = 1
  PendRoom = 2
  MaxMsg = 3
  MaxCalls = 2
  MaxEvents = 2
CHECK_DEADLOCK FALSE
INVARIANT QueuedNotLost
