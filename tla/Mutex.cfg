CONSTANTS
  Threads = {t1, t2, t3}
  NoThread = NoThread
  Collector = t1
  Recursive = TRUE
  ReorderLoads = TRUE
  MaxOps = 6
  MaxRequests = 0
SPECIFICATION Spec
CHECK_DEADLOCK FALSE
INVARIANTS
  OwnerExact
  CountsExact
  IInv
PROPERTIES
  ImplementsCondition
