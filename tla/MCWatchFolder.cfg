CONSTANTS
  NumFiles = 2
  MaxSize = 2
  MaxPolls = 2
  MaxSessions = 2
  Verdict = {"pass"}
  Old = {"pass"}
  Nested = TRUE
SPECIFICATION Spec
CHECK_DEADLOCK FALSE
INVARIANTS
  NothingLost
PROPERTIES
  ScannedFilesWereIdle
  DeliveredStays
  OwedFilesHandled
