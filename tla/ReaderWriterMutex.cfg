CONSTANTS
  Threads = {t1, t2, t3}
  NoThread = NoThread
  MaxOps = 6
SPECIFICATION Spec
CHECK_DEADLOCK FALSE
INVARIANTS
  StateExact
  NoLostSleeper
  PendingExact
  IInv
PROPERTIES
  ImplementsSharedLock
  EveryCallReturns
