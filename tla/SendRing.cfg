SPECIFICATION FairSpec
CONSTANTS
  AppThreads = {a1}
  Svc = svc
  RingCapacity = 3
  MaxSerial = 2
  MaxConn = 2
VIEW OrderState
INVARIANTS ThreadOrder SerialsUnique
PROPERTIES IsFifo EveryFrameTaken
