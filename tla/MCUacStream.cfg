CONSTANTS
  Target = 2
  Capacity = 3
  Wrap = 7
  Modulus = 3
  FileChunks = 2
  Ahead = 1
  PollHalf = 1
  Budget = 4
SPECIFICATION Spec
INVARIANTS InStep PlayIsTrue
PROPERTIES MissesCounted BlameIsFair
CHECK_DEADLOCK FALSE
