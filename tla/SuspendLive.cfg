SPECIFICATION FairSpec
CONSTANTS
  NoThread = NoThread
  Threads = {a, b, c}
  InitialList = {a, b, c}
  kMaxSuspendBarriers = 3
  SuspendAllers = {}
  IdSuspenders = {a, b}
  Attachers = {}
  MaxOps = 1
  Checkpointers = {}
  SyncCheckpointers = {}
  EmptyCheckpointers = {}
  Flippers = {}
  JniCriticals = {}
PROPERTIES
  SuspensionsByIdComplete
  SuspendedThreadsResume
