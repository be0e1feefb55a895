CONSTANTS
  Threads = {0, 1}
  MaxIter = 3
  Chunks = {0, 1, 2, 3}
  WordSize = 64
  Tables <- SharedTables
SPECIFICATION FairSpec
INVARIANT CachedFlagsRight
