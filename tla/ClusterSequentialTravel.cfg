SPECIFICATION Spec
CONSTANTS
  NumProcs = 3
  ThreadsPerProc = 1
  Tasks <- TravellingTasks
  Rounds <- TravellingRounds
  Hints = {"sequential"}
  CountThreshold <- OneThread
  AngryThreshold = 2
  TryIters = 2
  MaxWorkers = 2
  MaxFaster = 2
INVARIANT AlwaysAssigned
CHECK_DEADLOCK FALSE
