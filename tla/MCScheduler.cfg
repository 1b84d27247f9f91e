CONSTANTS
  NumJobs = 4
  Limit = 3
SPECIFICATION Spec
INVARIANTS
  OneWorkerPerJob
  OthersKeepTheirResults
  NoJobSkipped
PROPERTIES
  Returns
