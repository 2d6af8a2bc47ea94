CONSTANTS
  Lists <- MCLists
  PlayLen = 1
  RingCap = 2
  Wrap = 12
  Stall = 1
  Slack = 1
  Patience = 4
  MaxOpens = 2
  MaxRuns = 1
  MaxFaults = 1
SPECIFICATION Spec
INVARIANTS ResultsKept CardStays
PROPERTIES GapKept StopIsLast Settles
