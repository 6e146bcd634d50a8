CONSTANTS
  Workers = {w1, w2}
  NoWorker = NoWorker
  Keys = {k1}
  NoKey = NoKey
  LeaseSeconds = 1
  MaxTasks = 1
  MaxClock = 3
  MaxBoots = 2
  MaxFaults = 0
SPECIFICATION FairSpec
PROPERTIES AbandonedIsResolved
