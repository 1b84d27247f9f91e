CONSTANTS
  NumFiles = 1
  MaxSize = 2
  MaxPolls = 2
  MaxSessions = 1
  Verdict = {"pass", "warn", "inconclusive", "fail"}
  Old = {"pass"}
  Nested = TRUE
SPECIFICATION Spec
CHECK_DEADLOCK FALSE
PROPERTIES
  DeliveredWhole
