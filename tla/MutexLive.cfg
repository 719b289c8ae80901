CONSTANTS
  Threads = {t1, t2, t3}
  NoThread = NoThread
  Collector = t1
  Recursive = FALSE
  ReorderLoads = FALSE
  MaxOps = 5
  MaxRequests = 1
SPECIFICATION FairSpec
CHECK_DEADLOCK FALSE
INVARIANTS
  NoLostContender
PROPERTIES
  NoThreadLeftAsleep
  EmptyCheckpointEnds
