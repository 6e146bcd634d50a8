CONSTANTS
  j1 = j1
  j2 = j2
  Jobs <- OneJob
  Rows = 2
  Workers = 2
  MaxRuns = 3
  MaxControls = 2
  MaxFaults = 2
SPECIFICATION FairSpec
INVARIANTS TypeOK SuccessIsExhausted EndedIsStill OneArchiver NeverOverstated
 
CHECK_DEADLOCK FALSE
