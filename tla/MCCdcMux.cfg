SPECIFICATION MuxSpec
CONSTANTS
  Bodies <- MCBodies
  WireFrames = 1
  FifoFrames = 1
  MaxEpochs = 2
  MaxFrames = 3
  MaxConns = 2
  MaxFaults = 1
  MaxJobs = 1
INVARIANTS NeverFails
PROPERTIES DeliveredInOrder HeardInOrder Unblocks JobEndReported
CHECK_DEADLOCK FALSE
