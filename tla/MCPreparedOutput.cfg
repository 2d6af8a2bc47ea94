SPECIFICATION OutputSpec
CONSTANTS
  Requests <- MCRequests
  Transport <- MCTransport
  Block = 2
  Chunks = 1
  PlaybackRate = 3
  MaxToken = 13
  RingCapacity = 6
  OutputBlock = 1
  DrainFrames = 3
  MaxGap = 2
  StartTokens = {1, 4, 6, 10}
  Outcomes = {"ok", "fail", "late", "corrupt"}
INVARIANTS InStep ReleasedIsQuiet
PROPERTIES EndsTrue PlaybackSettles
