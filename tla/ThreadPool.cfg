CONSTANTS
  Workers = {w1, w2, w3}
  Clients = {c1, c2}
  Creator = c1
  CreatePeers = FALSE
  NoTask = NoTask
  MaxTasks = 2
  MaxOps = 3
SPECIFICATION Spec
CHECK_DEADLOCK FALSE
INVARIANTS
  TypeInv
  NoStrandedTask
PROPERTIES
  MaxActiveRespected
  WaitWaits
  WaitEnds
  TasksAreRun
  DestructorReturns
