CONSTANTS
  Threads = {t1, t2}
  NoThread = NoThread
  Collector = t1
  Recursive = FALSE
  ReorderLoads = TRUE
  MaxOps = 2
  MaxRequests = 0
SPECIFICATION Spec
CHECK_DEADLOCK FALSE
INVARIANTS
  NoLostContender
