CONSTANTS
  MaxConns = 2
  MaxCrashes = 0
  MaxFailures = 0
SPECIFICATION Spec
INVARIANTS JoinedCanReconnect
CHECK_DEADLOCK FALSE
