CONSTANTS
  w1 = w1
  w2 = w2
  Workers = {w1, w2}
  Staleness = 1
  MaxClock = 3
  MaxEpoch = 2
  MaxPushes <- MCMaxPushes
  MaxOff = 1
SPECIFICATION FairSpec
INVARIANTS
  TypeOK
  BoundedStaleness
  MinClockExact
  Unblocked
PROPERTY
  ImplementsStaleStore
  PullAnswered
