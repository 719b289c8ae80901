------------------------ MODULE ThreadListCheckpoint ------------------------
(***************************************************************************)
(* Running a closure on every thread or on one thread                      *)
(* (ThreadList::RunCheckpoint, Thread::RequestSynchronousCheckpoint) and   *)
(* waiting for every runnable thread to reach a suspend point              *)
(* (ThreadList::RunEmptyCheckpoint).  A runnable thread runs the closure   *)
(* itself; a suspended one is held suspended while the requester runs it.  *)
(***************************************************************************)
EXTENDS ThreadListSuspend

CONSTANTS
  Checkpointers,       \* threads that call RunCheckpoint
  SyncCheckpointers,   \* threads that call RequestSynchronousCheckpoint
  EmptyCheckpointers   \* threads that call RunEmptyCheckpoint

ASSUME CheckpointRolesAssumption ==
  /\ Checkpointers \subseteq Threads
  /\ SyncCheckpointers \subseteq Threads
  /\ EmptyCheckpointers \subseteq Threads

VARIABLES
  expected   \* the count a requester adds to its barrier before it waits

\* A new closure, with a barrier of its own.
NewClosure(s) ==
  /\ closureBarrier' = [closureBarrier EXCEPT ![s] = 0]
  /\ ranOn' = [ranOn EXCEPT ![s] = {}]

-----------------------------------------------------------------------------
(***************************************************************************)
(* ThreadList::RunCheckpoint.                                              *)
(***************************************************************************)

RunCheckpoint(s) ==
  /\ Begin(s, Checkpointers, {"running", "suspended"})
  /\ BothLocksFree
  /\ listLock' = s
  /\ countLock' = s
  /\ todo' = [todo EXCEPT ![s] = list \ {s}]
  /\ expected' = [expected EXCEPT ![s] = Cardinality(list)]
  /\ NewClosure(s)
  /\ Goto(s, "requestCheckpoint")
  /\ UNCHANGED <<wordVars, countVars, checkpoints, emptyBarrier, flipVars,
                 passVars, pc, resumeWaiters, listVars, mutatorVars, caller,
                 raised, current>>

\* RequestCheckpoint on a runnable thread: compare-and-set of the flag, then
\* the closure is queued.
EnqueueCheckpoint(s, t) ==
  /\ state[t] = "Runnable"
  /\ flags' = [flags EXCEPT ![t] = @ \union {"CheckpointRequest"}]
  /\ checkpoints' = [checkpoints EXCEPT ![t] = Append(@, s)]

CheckpointRunnableThread(s, t) ==
  /\ op[s] = "requestCheckpoint"
  /\ t \in todo[s]
  /\ EnqueueCheckpoint(s, t)
  /\ todo' = [todo EXCEPT ![s] = @ \ {t}]
  /\ UNCHANGED <<state, countVars, closureBarrier, ranOn, emptyBarrier, flipVars,
                 passVars, pc, countLock, resumeWaiters, listVars, listLock,
                 mutatorVars, op, caller, raised, current, opsLeft, expected>>

\* RequestCheckpoint failed and the thread was then seen out of kRunnable: go
\* on to raise its suspend count.
CheckpointTargetNotRunnable(s, t) ==
  /\ op[s] = "requestCheckpoint"
  /\ t \in todo[s]
  /\ state[t] # "Runnable"
  /\ current' = [current EXCEPT ![s] = t]
  /\ Goto(s, "raiseCheckpoint")
  /\ UNCHANGED <<wordVars, countVars, checkpointVars, flipVars, passVars, pc,
                 countLock, resumeWaiters, listVars, listLock, mutatorVars,
                 caller, todo, raised, opsLeft, expected>>

\* Variant with a defect: the raised count is not remembered.
CheckpointSuspendedUnrecorded(s, t) ==
  /\ t = current[s]
  /\ \/ op[s] = "raiseCheckpoint"
     \/ op[s] = "retryCheckpoint" /\ countLock = NoThread
  /\ CanSuspend(s, t, NoThread)
  /\ RaiseSuspendCount(t, NoThread)
  /\ countLock' = s
  /\ UNCHANGED raised
  /\ todo' = [todo EXCEPT ![s] = @ \ {t}]
  /\ current' = [current EXCEPT ![s] = NoThread]
  /\ Goto(s, "requestCheckpoint")
  /\ UNCHANGED <<state, checkpointVars, flipVars, passVars, pc, resumeWaiters,
                 listVars, listLock, mutatorVars, caller, opsLeft, expected>>

\* Make sure that the thread stays suspended.  It may be runnable again by
\* now: thread_suspend_count_lock_ keeps no thread without a suspend request
\* from becoming runnable.
CheckpointSuspendedThread(s, t) ==
  /\ t = current[s]
  /\ \/ op[s] = "raiseCheckpoint"
     \/ op[s] = "retryCheckpoint" /\ countLock = NoThread
  /\ CanSuspend(s, t, NoThread)
  /\ RaiseSuspendCount(t, NoThread)
  /\ countLock' = s
  /\ raised' = [raised EXCEPT ![s] = @ \union {t}]
  /\ todo' = [todo EXCEPT ![s] = @ \ {t}]
  /\ current' = [current EXCEPT ![s] = NoThread]
  /\ Goto(s, "requestCheckpoint")
  /\ UNCHANGED <<state, checkpointVars, flipVars, passVars, pc, resumeWaiters,
                 listVars, listLock, mutatorVars, caller, opsLeft, expected>>

\* The first attempt fails: ModifySuspendCount drops the lock and tries again.
CheckpointRequestFails(s, t) ==
  /\ op[s] = "raiseCheckpoint"
  /\ t = current[s]
  /\ ~CanSuspend(s, t, NoThread)
  /\ countLock' = NoThread
  /\ Goto(s, "retryCheckpoint")
  /\ UNCHANGED <<wordVars, countVars, checkpointVars, flipVars, passVars, pc,
                 resumeWaiters, listVars, listLock, mutatorVars, caller, todo,
                 raised, current, opsLeft, expected>>

\* Leave the critical section and run the closure on the calling thread.
CheckpointSelf(s) ==
  /\ op[s] = "requestCheckpoint"
  /\ todo[s] = {}
  /\ listLock' = NoThread
  /\ countLock' = NoThread
  /\ RunClosure(s, s)
  /\ Goto(s, "checkpointOthers")
  /\ UNCHANGED <<wordVars, countVars, checkpoints, emptyBarrier, transitioning,
                 passVars, pc, resumeWaiters, listVars, mutatorVars, localVars,
                 expected>>

\* Variant with a defect: the closure is run without waiting for the thread.
CheckpointOtherUnchecked(s, t) ==
  /\ op[s] = "checkpointOthers"
  /\ t \in raised[s]
  /\ RunClosure(s, t)
  /\ current' = [current EXCEPT ![s] = t]
  /\ Goto(s, "checkpointLower")
  /\ UNCHANGED <<wordVars, countVars, checkpoints, emptyBarrier, transitioning,
                 passVars, pc, countLock, resumeWaiters, listVars, listLock,
                 mutatorVars, caller, todo, raised, opsLeft, expected>>

\* Wait for a thread of suspended_count_modified_threads to be suspended and
\* run the closure on it.
CheckpointOther(s, t) ==
  /\ op[s] = "checkpointOthers"
  /\ t \in raised[s]
  /\ IsSuspended(t)
  /\ RunClosure(s, t)
  /\ current' = [current EXCEPT ![s] = t]
  /\ Goto(s, "checkpointLower")
  /\ UNCHANGED <<wordVars, countVars, checkpoints, emptyBarrier, transitioning,
                 passVars, pc, countLock, resumeWaiters, listVars, listLock,
                 mutatorVars, caller, todo, raised, opsLeft, expected>>

CheckpointLower(s) ==
  /\ op[s] = "checkpointLower"
  /\ countLock = NoThread
  /\ LowerSuspendCounts({current[s]})
  /\ raised' = [raised EXCEPT ![s] = @ \ {current[s]}]
  /\ current' = [current EXCEPT ![s] = NoThread]
  /\ Goto(s, "checkpointOthers")
  /\ UNCHANGED <<state, checkpointVars, flipVars, passVars, pc, countLock,
                 resumeWaiters, listVars, listLock, mutatorVars, caller, todo,
                 opsLeft, expected>>

\* "Imitate ResumeAll": the broadcast at the end of RunCheckpoint.
CheckpointBroadcast(s) ==
  /\ op[s] = "checkpointOthers"
  /\ raised[s] = {}
  /\ countLock = NoThread
  /\ BroadcastResumeCond
  /\ Goto(s, "barrierIncrement")
  /\ UNCHANGED <<wordVars, countVars, checkpointVars, flipVars, passVars, pc,
                 countLock, listVars, listLock, mutatorVars, localVars, expected>>

\* Barrier::Increment by the caller of RunCheckpoint, in a suspended state:
\* add what RunCheckpoint returned, then wait for the count to be zero.
BarrierIncrement(s) ==
  /\ op[s] = "barrierIncrement"
  /\ pc[s] = "suspended"
  /\ closureBarrier' = [closureBarrier EXCEPT ![s] = @ + expected[s]]
  /\ Goto(s, "barrierWait")
  /\ UNCHANGED <<wordVars, countVars, checkpoints, ranOn, emptyBarrier, flipVars,
                 passVars, pc, countLock, resumeWaiters, listVars, listLock,
                 mutatorVars, localVars, expected>>

BarrierReachesZero(s) ==
  /\ op[s] = "barrierWait"
  /\ closureBarrier[s] = 0
  /\ Goto(s, "none")
  /\ UNCHANGED <<transitionVars, listVars, listLock, mutatorVars, localVars,
                 expected>>

-----------------------------------------------------------------------------
(***************************************************************************)
(* Thread::RequestSynchronousCheckpoint, called runnable and holding       *)
(* thread_list_lock_, with the default suspend_state kWaiting, on another  *)
(* thread of the list (its shortcuts for the calling thread itself and for *)
(* a terminated thread touch no shared state).                             *)
(***************************************************************************)

\* The target is runnable: queue a BarrierClosure and wait for its barrier.
RequestSynchronousCheckpoint(s, t) ==
  /\ Begin(s, SyncCheckpointers, {"running"})
  /\ t \in list \ {s}
  /\ BothLocksFree
  /\ EnqueueCheckpoint(s, t)
  /\ NewClosure(s)
  /\ expected' = [expected EXCEPT ![s] = 1]
  /\ Goto(s, "barrierIncrement")
  /\ UNCHANGED <<state, countVars, emptyBarrier, flipVars, passVars, pc,
                 countLock, resumeWaiters, listVars, listLock, mutatorVars,
                 caller, todo, raised, current>>

\* The target was seen suspended: go on to raise its suspend count.
SyncTargetNotRunnable(s, t) ==
  /\ Begin(s, SyncCheckpointers, {"running"})
  /\ t \in list \ {s}
  /\ listLock = NoThread
  /\ state[t] # "Runnable"
  /\ listLock' = s
  /\ current' = [current EXCEPT ![s] = t]
  /\ NewClosure(s)
  /\ Goto(s, "syncRaise")
  /\ UNCHANGED <<wordVars, countVars, checkpoints, emptyBarrier, flipVars,
                 passVars, pc, countLock, resumeWaiters, listVars, mutatorVars,
                 caller, todo, raised, expected>>

\* ModifySuspendCount, repeated until it succeeds; then thread_list_lock_ is
\* released and the caller changes to suspend_state.
SyncRaise(s) ==
  /\ op[s] = "syncRaise"
  /\ countLock = NoThread
  /\ CanSuspend(s, current[s], NoThread)
  /\ RaiseSuspendCount(current[s], NoThread)
  /\ raised' = [raised EXCEPT ![s] = {current[s]}]
  /\ listLock' = NoThread
  /\ Goto(s, "syncWait")
  /\ UNCHANGED <<state, checkpointVars, flipVars, passVars, pc, countLock,
                 resumeWaiters, listVars, mutatorVars, caller, todo, current,
                 opsLeft, expected>>

\* Variant with a defect: there is no wait for the target.
SyncTargetUnchecked(s) ==
  /\ op[s] = "syncWait"
  /\ pc[s] = "suspended"
  /\ Goto(s, "syncRun")
  /\ UNCHANGED <<transitionVars, listVars, listLock, mutatorVars, localVars,
                 expected>>

\* The target is out of kRunnable: the caller goes back to kRunnable.
SyncTargetSuspended(s) ==
  /\ op[s] = "syncWait"
  /\ pc[s] = "suspended"
  /\ state[current[s]] # "Runnable"
  /\ Goto(s, "syncRun")
  /\ UNCHANGED <<transitionVars, listVars, listLock, mutatorVars, localVars,
                 expected>>

SyncRun(s) ==
  /\ op[s] = "syncRun"
  /\ pc[s] = "running"
  /\ RunClosure(s, current[s])
  /\ Goto(s, "syncLower")
  /\ UNCHANGED <<wordVars, countVars, checkpoints, emptyBarrier, transitioning,
                 passVars, pc, countLock, resumeWaiters, listVars, listLock,
                 mutatorVars, localVars, expected>>

\* thread_list_lock_ is taken again and kept until the broadcast is done.
SyncLower(s) ==
  /\ op[s] = "syncLower"
  /\ BothLocksFree
  /\ LowerSuspendCounts({current[s]})
  /\ raised' = [raised EXCEPT ![s] = {}]
  /\ current' = [current EXCEPT ![s] = NoThread]
  /\ listLock' = s
  /\ Goto(s, "syncBroadcast")
  /\ UNCHANGED <<state, checkpointVars, flipVars, passVars, pc, countLock,
                 resumeWaiters, listVars, mutatorVars, caller, todo, opsLeft,
                 expected>>

SyncBroadcast(s) ==
  /\ op[s] = "syncBroadcast"
  /\ countLock = NoThread
  /\ BroadcastResumeCond
  /\ listLock' = NoThread
  /\ Goto(s, "none")
  /\ UNCHANGED <<wordVars, countVars, checkpointVars, flipVars, passVars, pc,
                 countLock, listVars, mutatorVars, localVars, expected>>

-----------------------------------------------------------------------------
(***************************************************************************)
(* ThreadList::RunEmptyCheckpoint.  "Only one concurrent use is currently  *)
(* supported" (thread_list.h): the guard on the other requesters.          *)
(***************************************************************************)

EmptyOps == {"emptyRequest", "emptyIncrement", "emptyWait"}

\* Init the barrier and take the locks for the loop over list_.
ThreadListRunEmptyCheckpoint(s) ==
  /\ Begin(s, EmptyCheckpointers, {"running", "suspended"})
  /\ \A u \in Threads : op[u] \notin EmptyOps
  /\ BothLocksFree
  /\ listLock' = s
  /\ countLock' = s
  /\ todo' = [todo EXCEPT ![s] = list \ {s}]
  /\ expected' = [expected EXCEPT ![s] = 0]
  /\ emptyBarrier' = 0
  /\ Goto(s, "emptyRequest")
  /\ UNCHANGED <<wordVars, countVars, checkpoints, closureBarrier, ranOn,
                 flipVars, passVars, pc, resumeWaiters, listVars, mutatorVars,
                 caller, raised, current>>

\* Flag and count a runnable thread: it may answer from now on.
RequestEmptyCheckpoint(s, t) ==
  /\ op[s] = "emptyRequest"
  /\ t \in todo[s]
  /\ state[t] = "Runnable"
  /\ flags' = [flags EXCEPT ![t] = @ \union {"EmptyCheckpointRequest"}]
  /\ expected' = [expected EXCEPT ![s] = @ + 1]
  /\ todo' = [todo EXCEPT ![s] = @ \ {t}]
  /\ UNCHANGED <<state, countVars, checkpointVars, flipVars, passVars, pc,
                 countLock, resumeWaiters, listVars, listLock, mutatorVars, op,
                 caller, raised, current, opsLeft>>

\* Variant with a defect: a suspended thread is flagged, though not counted.
EmptyTargetFlagged(s, t) ==
  /\ op[s] = "emptyRequest"
  /\ t \in todo[s]
  /\ state[t] # "Runnable"
  /\ flags' = [flags EXCEPT ![t] = @ \union {"EmptyCheckpointRequest"}]
  /\ todo' = [todo EXCEPT ![s] = @ \ {t}]
  /\ UNCHANGED <<state, countVars, checkpointVars, flipVars, passVars, pc,
                 countLock, resumeWaiters, listVars, listLock, mutatorVars, op,
                 caller, raised, current, opsLeft, expected>>

\* A thread seen suspended is not asked.
EmptyTargetSuspended(s, t) ==
  /\ op[s] = "emptyRequest"
  /\ t \in todo[s]
  /\ state[t] # "Runnable"
  /\ todo' = [todo EXCEPT ![s] = @ \ {t}]
  /\ UNCHANGED <<wordVars, countVars, checkpointVars, flipVars, passVars, pc,
                 countLock, resumeWaiters, listVars, listLock, mutatorVars, op,
                 caller, raised, current, opsLeft, expected>>

\* Leave the critical section.  The broadcasts that follow concern threads
\* asleep on other locks: module FutexMutex.
EmptyRequestsDone(s) ==
  /\ op[s] = "emptyRequest"
  /\ todo[s] = {}
  /\ listLock' = NoThread
  /\ countLock' = NoThread
  /\ Goto(s, "emptyIncrement")
  /\ UNCHANGED <<wordVars, countVars, checkpointVars, flipVars, passVars, pc,
                 resumeWaiters, listVars, mutatorVars, localVars, expected>>

EmptyBarrierIncrement(s) ==
  /\ op[s] = "emptyIncrement"
  /\ pc[s] = "suspended"
  /\ emptyBarrier' = emptyBarrier + expected[s]
  /\ Goto(s, "emptyWait")
  /\ UNCHANGED <<wordVars, countVars, checkpoints, closureBarrier, ranOn,
                 flipVars, passVars, pc, countLock, resumeWaiters, listVars,
                 listLock, mutatorVars, localVars, expected>>

EmptyBarrierReachesZero(s) ==
  /\ op[s] = "emptyWait"
  /\ emptyBarrier = 0
  /\ Goto(s, "none")
  /\ UNCHANGED <<transitionVars, listVars, listLock, mutatorVars, localVars,
                 expected>>

=============================================================================
