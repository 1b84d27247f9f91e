CONSTANTS
  MaxConcurrent = 2
  MaxJobs = 4
  NumPaths = 3
  MaxRetries = 1
SPECIFICATION Spec
INVARIANTS
  AnswerFindsJobRunning
  NoIdleSlot
PROPERTIES
  NoStartWhilePaused
  OldestFirst
  QueueDrains
