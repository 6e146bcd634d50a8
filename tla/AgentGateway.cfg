CONSTANTS
  MaxConns = 3
  MaxCrashes = 1
  MaxFailures = 1
SPECIFICATION FairSpec
INVARIANTS TypeOK CurrentIsServed ServedIsReachable OneOpenClient QuietIsOffline SoleEnrollmentHolds
PROPERTIES ConnectedIsOnline
CHECK_DEADLOCK FALSE
