CONSTANTS
  r1 = r1
  r2 = r2
  Requests = {r1, r2}
  Control = {}
  MaxConcurrent = 2
  Reports = 1
  Cap = 2
  MaxConns = 2
  Key <- RetryKeys
SPECIFICATION Spec
INVARIANTS OneExecutionPerKey
CHECK_DEADLOCK FALSE
