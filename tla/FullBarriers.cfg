SPECIFICATION FairSpec
CONSTANTS
  NoThread = NoThread
  Threads = {s1, s2, a}
  InitialList = {s1, s2, a}
  kMaxSuspendBarriers = 1
  SuspendAllers = {s1, s2}
  IdSuspenders = {a}
  Attachers = {}
  MaxOps = 1
  Checkpointers = {}
  SyncCheckpointers = {}
  EmptyCheckpointers = {}
  Flippers = {}
  JniCriticals = {}
PROPERTIES
  RetriesSucceed
CHECK_DEADLOCK FALSE
