SPECIFICATION ServiceSpec
CONSTANTS
  Requests <- MCRequests
  Block = 1
  Chunks = 1
PROPERTIES
  CleanupWaitsForStop
