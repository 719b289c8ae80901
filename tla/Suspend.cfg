SPECIFICATION Spec
CONSTANTS
  NoThread = NoThread
  Threads = {a, b, s1}
  InitialList = {a, b, s1}
  kMaxSuspendBarriers = 3
  SuspendAllers = {a, s1}
  IdSuspenders = {a, b}
  Attachers = {b}
  MaxOps = 1
  Checkpointers = {}
  SyncCheckpointers = {}
  EmptyCheckpointers = {}
  Flippers = {}
  JniCriticals = {}
INVARIANTS
  TypeOK
  MutatorExclusion
  SuspendCountExact
  SuspendBarrierExact
  HeldThreadsStaySuspended
  NoByIdCycle
  NoLostResume
