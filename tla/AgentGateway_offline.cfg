CONSTANTS
  MaxConns = 2
  MaxCrashes = 0
  MaxFailures = 1
SPECIFICATION FairSpec
PROPERTIES OfflineIsDetected
CHECK_DEADLOCK FALSE
