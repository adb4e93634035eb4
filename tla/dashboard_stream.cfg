CONSTANTS
  Clients = {c1}
  Capacity = 2
  MaxEmitted = 4
  MaxInjected = 2
  MaxFailures = 1
SPECIFICATION FairSpec
INVARIANTS
  NoSilentLoss
  GapFree
PROPERTIES
  EveryEventLogged
  EveryEventDelivered
CHECK_DEADLOCK FALSE
