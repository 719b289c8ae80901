SPECIFICATION FairSpec
CONSTANTS
  NoThread = NoThread
  Threads = {g, m1}
  InitialList = {g, m1}
  kMaxSuspendBarriers = 3
  SuspendAllers = {m1}
  IdSuspenders = {}
  Attachers = {}
  MaxOps = 2
  Checkpointers = {m1}
  SyncCheckpointers = {m1}
  EmptyCheckpointers = {m1}
  Flippers = {g}
  JniCriticals = {}
PROPERTIES
  CheckpointsComplete
  SuspendAllCompletes
