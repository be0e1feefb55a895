CONSTANTS
  Programs <- ChunkPrograms
  Stores <- SmallStores
  Scale = 4
  staleness = 1
SPECIFICATION Spec
INVARIANT FullGradientAlways
