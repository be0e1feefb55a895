CONSTANTS
  w1 = w1
  w2 = w2
  Workers = {w1, w2}
  Staleness = 0
  MaxClock = 4
  MaxEpoch = 2
  MaxPushes <- MCMaxPushes
  MaxOff = 0
  MaxCalls = 4
  Bodies = {TRUE, FALSE}
SPECIFICATION SysSpec
SYMMETRY Symmetry
INVARIANT EpochsIsolated
CHECK_DEADLOCK FALSE
