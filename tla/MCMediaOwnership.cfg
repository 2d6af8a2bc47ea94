SPECIFICATION MediaSpec
CONSTANT MaxChunks = 3
INVARIANTS AttemptIsWhole HostIoHeld
PROPERTIES AttemptSettles CardKept
