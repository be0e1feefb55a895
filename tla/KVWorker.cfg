CONSTANTS
  NumServers = 2
  LocalServers = {1}
  Kvs = {1}
  MaxRequests = 2
  Offered <- MCOffered
  MinClocks = {0}
SPECIFICATION FairSpec
INVARIANTS
  WaitDelivers
  AnswersUnderstood
PROPERTY
  WaitEnds
CHECK_DEADLOCK FALSE
