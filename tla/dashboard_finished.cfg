CONSTANTS
  Clients = {c1}
  Capacity = 2
  MaxEmitted = 2
  MaxInjected = 0
  MaxFailures = 0
SPECIFICATION FairSpec
PROPERTY FinishedOnCompletion
CHECK_DEADLOCK FALSE
