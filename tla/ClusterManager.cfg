SPECIFICATION FairSpec
CONSTANTS
  NumProcs = 2
  ThreadsPerProc = 2
  Tasks <- MixedTasks
  Rounds <- MixedRounds
  Hints = {"greedy", "sequential", "priority", "autoparallelism"}
  CountThreshold <- MixedThresholds
  AngryThreshold = 2
  TryIters = 2
  MaxWorkers = 2
  MaxFaster = 2
INVARIANTS
  ThreadsAccounted
  EpochsInOrder
  TransferFindsModel
  AssertionsHold
PROPERTY
  SubmitReturns
CHECK_DEADLOCK FALSE
