\* The components that share no state with one another, each in turn.
CONSTANTS
  BackupTasks <- const_BackupTasks
  Names = {1, 2}
  NoFile = 0
  Pieces = 2
  ControlTasks <- const_ControlTasks
  ReplicationTasks <- const_ReplicationTasks
  ReplicationPlans <- const_ReplicationPlans
  DatafileTasks <- const_DatafileTasks
  Targets = {1, 2}
  Packages = {1, 2, 3}
  Folder <- const_Folder
  Contents = {1, 2}
  Rules <- const_Rules
  MaxClock = 1
  MaxSize = 3
  MaxValue = 2
  MaxAge = 2
  MaxRequests = 3
  MaxLogins = 4
  MaxUploads = 3
  MaxFaults = 1
  MaxReplicationFaults = 2
SPECIFICATION Spec
INVARIANTS
  TypeOK
  BackupIsThere
  StatusFollowsLast
  FollowsItsRow
  SecretsAreUsed
  OneTokenPerSession
  PackageIsThere
  AlertsAreTrue
PROPERTIES
  GrowsOnly
  LastingIsAlerted
\* The tasks, uploads and requests end.
CHECK_DEADLOCK FALSE
