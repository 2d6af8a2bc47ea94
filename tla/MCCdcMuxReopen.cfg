SPECIFICATION MuxSpec
CONSTANTS
  Bodies <- MCBodies
  WireFrames = 1
  FifoFrames = 2
  MaxEpochs = 2
  MaxFrames = 3
  MaxConns = 2
  MaxFaults = 0
  MaxJobs = 1
INVARIANTS ConnectionSelectsProtocol
CHECK_DEADLOCK FALSE
