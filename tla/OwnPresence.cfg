SPECIFICATION OwnSpec
CONSTANTS
  Data = {"d1", "d2"}
  RingSize = 2
  MaxCalls = 4
  MaxEvents = 3
CHECK_DEADLOCK FALSE
INVARIANTS OwnEntryFollows
