SPECIFICATION Spec
CONSTANTS
  c1 = c1
  c2 = c2
  c3 = c3
  c4 = c4
  NoId = NoId
  Ids <- FourIds
  SigTs <- FourStamps
  Window = 2
  Cap = 2
  MaxAge = 1
  MaxAhead = 1
  Times <- AnyTime
  CompactEvery = 3
  WriteMayFail = TRUE
  TornAppends = FALSE
  MaxLines = 4
  MaxRuns = 2
  None = None
  Commands <- TwoCommands
  Hold = 1
  MaxWaiting = 2
  HardCap = 2
  Tries = 2
  Deadline = 2
  Backoff <- TwoBackoffs
  RateLimited = 1
  Remembered = 1
  MaxAcks = 3
INVARIANTS
  TypesOK
  NeverTwice
  FreshNotStale
  NeverOvertaken
PROPERTIES
  NotAgainWhileUp
  GivenUpLate
  FinalSettles
CHECK_DEADLOCK FALSE
