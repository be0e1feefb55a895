SPECIFICATION ALSFairSpec
CONSTANTS
    NumProcesses = 2
    ThreadsPerProcess = 2
    NumServersPerProcess = 2
    Base = 10
    Programs <- MCUnsupported
INVARIANTS
  SetUpBeforeUse
  AddsUp
  LastFactors
CHECK_DEADLOCK FALSE
