SPECIFICATION FairSpec
CONSTANTS
  NumProcs = 2
  ThreadsPerProc = 2
  Tasks <- OddTasks
  Rounds <- OddRounds
  Hints = {"greedy"}
  CountThreshold <- TwoThreads
  AngryThreshold = 2
  TryIters = 2
  MaxWorkers = 2
  MaxFaster = 2
PROPERTY SubmitReturns
CHECK_DEADLOCK FALSE
