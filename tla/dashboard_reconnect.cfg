CONSTANTS
  Clients = {c1}
  Capacity = 2
  MaxEmitted = 2
  MaxInjected = 2
  MaxFailures = 1
SPECIFICATION Spec
INVARIANT ReconnectSendsWhatWasMissed
CHECK_DEADLOCK FALSE
