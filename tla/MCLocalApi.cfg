CONSTANTS
  Conn = {c1, c2}
  MaxJobs = 2
SPECIFICATION Spec
CHECK_DEADLOCK FALSE
INVARIANTS
  TypeOK
  NeverMissingResult
  WithdrawnNeverRuns
  NoOrphanResult
PROPERTIES
  ImplementsLifecycle
  TimelyCancelHonoured
  StartedJobSettles
  DropReturns
