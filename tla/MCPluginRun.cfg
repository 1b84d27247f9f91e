CONSTANTS
  Capacity = 1
  RequestSize = 2
  OutLimit = 1
  ErrLimit = 1
  MaxWritten = 3
SPECIFICATION Spec
INVARIANTS
  NoTruncatedResponse
PROPERTIES
  FullPipeDrains
  ReturnsWithoutHelper
