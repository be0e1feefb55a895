CONSTANTS
  Workers = {0, 1}
  Chunks = {0, 1, 2}
  Tables <- Unsound
SPECIFICATION Spec
INVARIANTS
  CountedOnce
  FreshReads
  WithinStaleness
