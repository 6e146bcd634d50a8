CONSTANTS
  Workers = {w1, w2}
  NoWorker = NoWorker
  Keys = {k1}
  NoKey = NoKey
  LeaseSeconds = 1
  MaxTasks = 2
  MaxClock = 3
  MaxBoots = 2
  MaxFaults = 1
SPECIFICATION FairSpec
INVARIANTS
  TypeOK
  StartedAtMostOnce
PROPERTIES
  ImplementsLedger
  QueuedIsClaimed
  RunningIsFinished
