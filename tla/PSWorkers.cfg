CONSTANTS
  Workers = {0, 1}
  Chunks = {0, 1}
  Tables <- Sound
SPECIFICATION FairSpec
INVARIANTS
  ReadsConsistent
  CacheClocks
  UpdatesCounted
PROPERTY
  PullsReturn
