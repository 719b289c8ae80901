SPECIFICATION Spec
CONSTANTS
  NoThread = NoThread
  Threads = {c1, s1, m1}
  InitialList = {c1, s1, m1}
  kMaxSuspendBarriers = 3
  SuspendAllers = {s1, c1}
  IdSuspenders = {}
  Attachers = {}
  MaxOps = 1
  Checkpointers = {c1}
  SyncCheckpointers = {m1}
  EmptyCheckpointers = {s1}
  Flippers = {}
  JniCriticals = {}
INVARIANTS
  HeldThreadsStaySuspended
  CheckpointRunsOnce
  EmptyCheckpointAnswered
  IInv
  FurtherInv
