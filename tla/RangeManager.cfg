CONSTANTS
  Width = 4
  IntWidth = 3
  MaxServers = 3
  MaxChunkSize = 5
SPECIFICATION Spec
INVARIANTS
  RangesPartition
  RequestsRouted
