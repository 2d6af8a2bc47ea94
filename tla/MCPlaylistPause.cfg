CONSTANTS
  Lists <- MCLate
  PlayLen = 1
  RingCap = 1
  Wrap = 12
  Stall = 1
  Slack = 1
  Patience = 4
  MaxOpens = 1
  MaxRuns = 1
  MaxFaults = 0
SPECIFICATION Spec
PROPERTY NeverEarly
