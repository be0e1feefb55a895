CONSTANTS
  Programs <- AllPrograms
  Stores <- SmallStores
  Scale = 4
  staleness = 1
SPECIFICATION FairSpec
INVARIANTS
  FullGradient
  SnapshotShared
PROPERTY
  ProgramEnds
