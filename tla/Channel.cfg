SPECIFICATION FairSpec
CONSTANTS
  RingRoom = 1
  PendRoom = 2
  MaxMsg = 3
  MaxCalls = 2
  MaxEvents = 2
CHECK_DEADLOCK FALSE
INVARIANTS RefusedNeverSent OrderOnEachPath AttachedIsConfirmed AttachingIsAnswered
PROPERTIES ReattachTaken
