CONSTANTS
  r1 = r1
  r2 = r2
  Requests = {r1, r2}
  Control = {r2}
  MaxConcurrent = 1
  Reports = 2
  Cap = 3
  MaxConns = 2
  Key <- DistinctKeys
SPECIFICATION FairSpec
INVARIANTS TypeOK SuccessIsReal SuccessIsWhole SlotsAreExact
PROPERTIES  ControlStarts CallerIsTold 
CHECK_DEADLOCK FALSE
