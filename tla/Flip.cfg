SPECIFICATION Spec
CONSTANTS
  NoThread = NoThread
  Threads = {g, a, m1}
  InitialList = {g, a, m1}
  kMaxSuspendBarriers = 3
  SuspendAllers = {}
  IdSuspenders = {a}
  Attachers = {}
  MaxOps = 2
  Checkpointers = {}
  SyncCheckpointers = {}
  EmptyCheckpointers = {}
  Flippers = {g}
  JniCriticals = {m1}
INVARIANTS
  HeldThreadsStaySuspended
  FlippedBeforeRunning
  NoFlipInCritical
  FurtherInv
