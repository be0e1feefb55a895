CONSTANTS
  w1 = w1
  w2 = w2
  Workers = {w1, w2}
  MaxIter = 2
  MaxEpoch = 2
  MaxOff = 1
SPECIFICATION FairSpec
INVARIANTS
  PhaseCanEnd
PROPERTY
  ImplementsStaleStore
  RequestAnswered
CHECK_DEADLOCK FALSE
