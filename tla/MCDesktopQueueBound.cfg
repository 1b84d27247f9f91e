CONSTANTS
  MaxConcurrent = 2
  MaxJobs = 3
  NumPaths = 3
  MaxRetries = 0
SPECIFICATION Spec
INVARIANTS
  RunningBound
