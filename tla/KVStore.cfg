SPECIFICATION ALSFairSpec
CONSTANTS
    NumProcesses = 2
    ThreadsPerProcess = 2
    NumServersPerProcess = 2
    Base = 10
    Programs <- MCAllPrograms
INVARIANTS
  RequestsServed
  FreshFactors
  RMSEComplete
PROPERTY
  StoreStops
CHECK_DEADLOCK FALSE
