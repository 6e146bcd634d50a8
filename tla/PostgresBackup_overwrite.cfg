\* Backups of one instance to one name, without a fault.
CONSTANTS
  Tasks <- const_Tasks
  Names = {"nightly.dump"}
  NoFile = "none"
  MaxFaults = 0
SPECIFICATION Spec
INVARIANT FileIsIntact
CHECK_DEADLOCK FALSE
