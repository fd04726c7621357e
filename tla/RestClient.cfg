SPECIFICATION Spec
CONSTANTS
  None = None
  Requests = {}
  Responses = {}
  LinkMax = 32
  Channels <- ShortNames
  Paged <- ShortName
  Keyed = {"k"}
  Plain = {"p"}
  Others = {"s1", "s2", "s3"}
  PublishEnc = 8
  NameEnc = 20
  PathSizes = {6, 7}
  CursorMax = 14
  PageSize = 2
  ResultsMax = 1
  Stored <- TwoPages
  MaxCalls = 3
CHECK_DEADLOCK FALSE
INVARIANTS CleanBetweenRequests ToldIsStored KeyedOnce PagesInOrder CursorIsNextPage
