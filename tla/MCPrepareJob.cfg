SPECIFICATION Spec
CONSTANTS
  Requests <- MCRequests
  Block = 2
  Chunks = 1
INVARIANTS CardIsWhole EndIsTrue CursorsKept
PROPERTIES FirstFailureKept Rests
