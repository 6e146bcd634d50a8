CONSTANTS
  j1 = j1
  j2 = j2
  Jobs <- OneJob
  Rows = 2
  Workers = 2
  MaxRuns = 2
  MaxControls = 1
  MaxFaults = 0
SPECIFICATION Spec
INVARIANT StatisticsAreWhole
CHECK_DEADLOCK FALSE
