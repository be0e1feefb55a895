SPECIFICATION FairSpec
CONSTANTS
  h1 = h1
  h2 = h2
  b1 = b1
  b2 = b2
  b3 = b3
  Hosts = {h1, h2}
  Blocks = {b1, b2, b3}
  Replicas <- MCReplicas
  Threads = {1, 2, 3}
  HostOf <- MCHostOf
  Lines <- MCLines
  Blank <- NoBlank
  BatchSize = 2
  BatchNum = 2
  Scenarios <- BufferScenarios
  Epochs = 2
  Rounds = 2
INVARIANT EveryLineRead
CHECK_DEADLOCK FALSE
