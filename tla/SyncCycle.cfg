SPECIFICATION Spec
CONSTANTS
  NoThread = NoThread
  Threads = {a, b}
  InitialList = {a, b}
  kMaxSuspendBarriers = 3
  SuspendAllers = {}
  IdSuspenders = {}
  Attachers = {}
  MaxOps = 1
  Checkpointers = {}
  SyncCheckpointers = {a, b}
  EmptyCheckpointers = {}
  Flippers = {}
  JniCriticals = {}
INVARIANTS
  NoSuspendCycle
