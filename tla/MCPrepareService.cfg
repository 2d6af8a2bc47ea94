SPECIFICATION ServiceSpec
CONSTANTS
  Requests <- MCRequests
  Block = 1
  Chunks = 1
INVARIANTS TasksAgree
PROPERTIES CommandAnswered ClaimSettles
