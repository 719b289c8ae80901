-------------------------- MODULE ThreadSuspension --------------------------
(***************************************************************************)
(* Thread suspension as a whole: threads that run managed and native code, *)
(* reach suspend points, attach and detach, while some of them suspend all *)
(* the others, suspend one other, run checkpoints, or flip thread roots.   *)
(***************************************************************************)
EXTENDS ThreadListFlip

vars == <<transitionVars, threadListVars, expected, jniVars>>

\* Operations during which a thread executes code that has suspend points
\* and that moves between managed and native code as it likes.
OrdinaryOps == {"none", "byIdHold", "unregister"}

\* Operations that take the thread out of kRunnable, into a waiting state or
\* at the end of a ScopedObjectAccess; and those that take it back.
LeavingOps == {"byIdSleep", "byIdFound", "byIdFail", "syncWait",
               "barrierIncrement", "emptyIncrement"}
ReturningOps == {"byIdEnter", "syncRun"}

Init ==
  /\ list = InitialList
  /\ pc = [t \in Threads |-> IF t \in InitialList THEN "suspended" ELSE "unborn"]
  /\ state = [t \in Threads |-> "Native"]
  /\ flags = [t \in Threads |-> {}]
  /\ suspendCount = [t \in Threads |-> 0]
  /\ barriers = [t \in Threads |-> {}]
  /\ claimed = [t \in Threads |-> {}]
  /\ pending = [t \in Threads |-> 0]
  /\ checkpoints = [t \in Threads |-> << >>]
  /\ closureBarrier = [t \in Threads |-> 0]
  /\ ranOn = [t \in Threads |-> {}]
  /\ emptyBarrier = 0
  /\ flipFunction = [t \in Threads |-> FALSE]
  /\ transitioning = [t \in Threads |-> FALSE]
  /\ countLock = NoThread
  /\ resumeWaiters = {}
  /\ suspendAllCount = 0
  /\ unregisteringCount = 0
  /\ listLock = NoThread
  /\ mutatorWriter = NoThread
  /\ mutatorReaders = {}
  /\ op = [t \in Threads |-> "none"]
  /\ caller = [t \in Threads |-> "none"]
  /\ todo = [t \in Threads |-> {}]
  /\ raised = [t \in Threads |-> {}]
  /\ current = [t \in Threads |-> NoThread]
  /\ opsLeft = [t \in Threads |-> MaxOps]
  /\ expected = [t \in Threads |-> 0]
  /\ threadFlipRunning = FALSE
  /\ disableThreadFlipCount = 0
  /\ critical = [t \in Threads |-> 0]

-----------------------------------------------------------------------------

\* CheckSuspend at a suspend point, and the flag checks on the way out of
\* kRunnable.  A pending checkpoint is run before a pending suspension.
RunRequestedCheckpoint(t) ==
  /\ op[t] \in OrdinaryOps \union LeavingOps
  /\ RunCheckpointFunction(t) \/ RunEmptyCheckpoint(t)

FullSuspendCheck(t) ==
  /\ op[t] \in OrdinaryOps
  /\ "SuspendRequest" \in flags[t]
  /\ TransitionToSuspendedAndRunCheckpoints(t, "Suspended")

\* A native call or a blocking operation.
LeaveRunnable(t) ==
  /\ op[t] \in OrdinaryOps
  /\ TransitionToSuspendedAndRunCheckpoints(t, "Native")

\* The start of a wait or the end of a ScopedObjectAccess in an operation.
LeaveRunnableToWait(t) ==
  /\ op[t] \in LeavingOps
  /\ TransitionToSuspendedAndRunCheckpoints(t, "Native")

ReturnFromNative(t) ==
  /\ op[t] \in OrdinaryOps
  /\ state[t] = "Native"
  /\ EnterTransitionToRunnable(t)

\* The second half of FullSuspendCheck, or the start of a ScopedObjectAccess
\* or the end of a ScopedThreadStateChange inside an operation.
ReturnToRunnable(t) ==
  /\ op[t] \in ReturningOps \/ (op[t] \in OrdinaryOps /\ state[t] = "Suspended")
  /\ EnterTransitionToRunnable(t)

TransitionStep(t) ==
  \/ ClaimSuspendBarriers(t)
  \/ \E b \in Threads : PassSuspendBarrier(t, b)
  \/ FinishTransitionToSuspended(t)
  \/ BecomeRunnable(t)
  \/ WaitForResume(t)
  \/ ResumeCondNotified(t)
  \/ RunFlipFunction(t)

-----------------------------------------------------------------------------

\* What the steps of the base modules leave alone.
ThreadListUnchanged == UNCHANGED <<threadListVars, expected, jniVars>>

CheckpointsAndFlipUnchanged == UNCHANGED <<expected, jniVars>>

\* What a thread may do but need not.
Choice(t) ==
  \/ /\ LeaveRunnable(t) \/ ReturnFromNative(t) \/ SpuriousWakeup(t)
     /\ ThreadListUnchanged
  \/ /\ \/ SuspendAll(t)
        \/ \E u \in Threads : SuspendThreadByThreadId(t, u)
        \/ Register(t)
        \/ critical[t] = 0 /\ Unregister(t)
     /\ CheckpointsAndFlipUnchanged
  \/ /\ \/ RunCheckpoint(t)
        \/ \E u \in Threads : \/ RequestSynchronousCheckpoint(t, u)
                              \/ SyncTargetNotRunnable(t, u)
        \/ ThreadListRunEmptyCheckpoint(t)
     /\ UNCHANGED jniVars
  \/ FlipThreadRoots(t)
  \/ EnterCritical(t)
  \/ EnterNestedCritical(t)

\* What a thread does sooner or later once it has come to it.
SuspendStep(t) ==
  \/ \E u \in Threads : RequestSuspend(t, u) \/ RequestSuspendFails(t, u)
  \/ CheckSuspended(t)
  \/ FinishRequests(t)
  \/ SuspendBarrierPassed(t)
  \/ LockMutatorExclusive(t)
  \/ ResumeAll(t)
  \/ LowerAllAndBroadcast(t)

ByIdStep(t) ==
  \/ ByIdGivesWay(t)
  \/ ByIdRequest(t)
  \/ ByIdRequestFails(t)
  \/ ByIdPoll(t)
  \/ ByIdTimeout(t)
  \/ ByIdRoundEnds(t)
  \/ Resume(t)
  \/ ResumeBroadcasts(t)

DetachStep(t) == RemoveFromList(t) \/ FinishUnregister(t)

CheckpointStep(t) ==
  \/ \E u \in Threads : \/ CheckpointRunnableThread(t, u)
                        \/ CheckpointTargetNotRunnable(t, u)
                        \/ CheckpointSuspendedThread(t, u)
                        \/ CheckpointRequestFails(t, u)
                        \/ CheckpointOther(t, u)
                        \/ RequestEmptyCheckpoint(t, u)
                        \/ EmptyTargetSuspended(t, u)
  \/ CheckpointSelf(t)
  \/ CheckpointLower(t)
  \/ CheckpointBroadcast(t)
  \/ BarrierIncrement(t)
  \/ BarrierReachesZero(t)
  \/ SyncRaise(t)
  \/ SyncTargetSuspended(t)
  \/ SyncRun(t)
  \/ SyncLower(t)
  \/ SyncBroadcast(t)
  \/ EmptyRequestsDone(t)
  \/ EmptyBarrierIncrement(t)
  \/ EmptyBarrierReachesZero(t)

FlipStep(t) ==
  \/ ThreadFlipBegun(t)
  \/ FlipSuspendAll(t)
  \/ FlipUnlockMutator(t)
  \/ FlipResumeRunnable(t)
  \/ ThreadFlipEnd(t)
  \/ FlipLockShared(t)
  \/ \E u \in Threads : FlipOther(t, u)
  \/ FlipUnlockShared(t)
  \/ FlipResumeOthers(t)

Progress(t) ==
  \/ /\ \/ RunRequestedCheckpoint(t)
        \/ FullSuspendCheck(t)
        \/ LeaveRunnableToWait(t)
        \/ ReturnToRunnable(t)
        \/ TransitionStep(t)
     /\ ThreadListUnchanged
  \/ /\ SuspendStep(t) \/ ByIdStep(t) \/ DetachStep(t)
     /\ CheckpointsAndFlipUnchanged
  \/ CheckpointStep(t) /\ UNCHANGED jniVars
  \/ FlipStep(t)
  \/ IncrementDisableThreadFlip(t)
  \/ DecrementDisableThreadFlip(t)

Next == \E t \in Threads : Choice(t) \/ Progress(t)

Spec == Init /\ [][Next]_vars

\* A thread that has started a transition or an operation goes on with it, and
\* managed code reaches suspend points: the threads are scheduled fairly.  The
\* code between SuspendThreadByThreadId and Resume may change state as often as
\* it likes (so Resume is not enabled all the time) but comes to the Resume.
FairSpec ==
  /\ Spec
  /\ \A t \in Threads :
       /\ WF_vars(Progress(t))
       /\ SF_vars(Resume(t) /\ CheckpointsAndFlipUnchanged)

-----------------------------------------------------------------------------
(***************************************************************************)
(* Invariants.                                                             *)
(***************************************************************************)

RequestingOps == {"requestSuspend", "retrySuspend", "checkSuspended",
                  "waitForBarrier"}

SuspendAllOps == RequestingOps \union
                 {"lockMutator", "allSuspended", "resumeAll", "flipResume"}

ByIdOps == {"byIdEnter", "byIdRetry", "byIdSleep", "byIdFound", "byIdFail",
            "byIdHold", "broadcast"}

CheckpointOps == {"requestCheckpoint", "raiseCheckpoint", "retryCheckpoint",
                  "checkpointOthers", "checkpointLower", "barrierIncrement",
                  "barrierWait", "syncRaise", "syncWait", "syncRun",
                  "syncLower", "syncBroadcast", "emptyRequest",
                  "emptyIncrement", "emptyWait"}

FlipOps == {"threadFlipBegin", "flipSuspendAll", "threadFlipEnd",
            "flipLockShared", "flipOthers", "flipResumeOthers"}

Ops == {"none", "unregister", "detached", "jniWait"} \union SuspendAllOps
       \union ByIdOps \union CheckpointOps \union FlipOps

\* Every variable keeps its type; in particular the suspend counts, the
\* pending_threads counters and the disable count never become negative (the
\* CHECKs of ModifySuspendCountInternal, PassActiveSuspendBarriers and
\* DecrementDisableThreadFlip).
TypeOK ==
  /\ state \in [Threads -> ThreadState]
  /\ flags \in [Threads -> SUBSET ThreadFlag]
  /\ suspendCount \in [Threads -> Nat]
  /\ barriers \in [Threads -> SUBSET Threads]
  /\ checkpoints \in [Threads -> Seq(Threads)]
  /\ flipFunction \in [Threads -> BOOLEAN]
  /\ transitioning \in [Threads -> BOOLEAN]
  /\ pc \in [Threads -> Pc]
  /\ claimed \in [Threads -> SUBSET Threads]
  /\ pending \in [Threads -> Nat]
  /\ closureBarrier \in [Threads -> Int]
  /\ ranOn \in [Threads -> SUBSET Threads]
  /\ emptyBarrier \in Int
  /\ countLock \in Threads \union {NoThread}
  /\ resumeWaiters \in SUBSET Threads
  /\ list \in SUBSET Threads
  /\ suspendAllCount \in Nat
  /\ unregisteringCount \in Nat
  /\ listLock \in Threads \union {NoThread}
  /\ mutatorWriter \in Threads \union {NoThread}
  /\ mutatorReaders \in SUBSET Threads
  /\ op \in [Threads -> Ops]
  /\ caller \in [Threads -> {"none", "SuspendAll", "FlipThreadRoots"}]
  /\ todo \in [Threads -> SUBSET Threads]
  /\ raised \in [Threads -> SUBSET Threads]
  /\ current \in [Threads -> Threads \union {NoThread}]
  /\ opsLeft \in [Threads -> Nat]
  /\ expected \in [Threads -> Nat]
  /\ threadFlipRunning \in BOOLEAN
  /\ disableThreadFlipCount \in Nat
  /\ critical \in [Threads -> Nat]

\* SuspendAll: while a thread holds the mutator lock exclusively no other
\* thread is runnable, although runnable threads do not own that lock.
MutatorExclusion ==
  \A s, t \in Threads : mutatorWriter = s /\ s # t => state[t] # "Runnable"

\* The threads whose suspend count s has raised as part of a SuspendAll.
SuspendAllTargets(s) ==
  IF op[s] \in SuspendAllOps THEN list \ ({s} \union todo[s]) ELSE {}

SuspendedBy(s) == SuspendAllTargets(s) \union raised[s]

Suspenders(t) == {s \in Threads : t \in SuspendedBy(s)}

AllSuspenders == {s \in Threads : op[s] \in SuspendAllOps}

\* ModifySuspendCount: a suspend count is the number of operations that have
\* raised it and have yet to lower it, and suspend_all_count_ is the number of
\* those that a newly attached thread has to count.
SuspendCountExact ==
  /\ \A t \in Threads : suspendCount[t] = Cardinality(Suspenders(t))
  /\ suspendAllCount = Cardinality(AllSuspenders)

\* The threads that hold a pointer to the pending_threads of s.
Owing(s) == {t \in Threads : s \in barriers[t] \union claimed[t]}

\* SuspendAllInternal and PassActiveSuspendBarriers: pending_threads counts
\* the threads yet to be asked and the threads holding a pointer to it, and no
\* thread keeps that pointer after SuspendAllInternal, on whose stack the
\* counter lives, has returned.
SuspendBarrierExact ==
  \A s \in Threads :
    IF op[s] \in RequestingOps
      THEN pending[s] = Cardinality(todo[s] \union Owing(s))
      ELSE Owing(s) = {}

\* AssertThreadsAreSuspended, and "Threads cannot be deleted while they are
\* suspended" (SuspendAllInternal): whoever works on a thread that it keeps
\* suspended finds it attached and suspended, until it resumes it itself.
HeldThreadsStaySuspended ==
  \A s \in Threads :
    /\ op[s] = "allSuspended" => \A t \in list \ {s} : IsSuspended(t)
    /\ op[s] \in {"byIdFound", "byIdHold", "checkpointLower", "syncRun",
                   "syncLower"}
         => current[s] \in list /\ IsSuspended(current[s])
    /\ op[s] \in FlipOps => \A t \in raised[s] : t \in list /\ IsSuspended(t)

\* resume_cond_: a thread asleep without a suspend request has a broadcast
\* coming from an operation that has lowered suspend counts.
NoLostResume ==
  \A t \in resumeWaiters :
    "SuspendRequest" \notin flags[t] =>
      \E s \in Threads : op[s] \in {"broadcast", "checkpointOthers",
                                    "checkpointLower", "syncBroadcast"}

\* FlipThreadRoots: no thread runs managed code with references that have not
\* been flipped, and a thread is flipped before it is destroyed (~Thread).
FlippedBeforeRunning ==
  \A t \in Threads : pc[t] \in {"running", "unborn"} => ~flipFunction[t]

\* ThreadFlipBegin: from the suspension to the end of the flip no thread is in
\* a JNI critical section.
NoFlipInCritical ==
  \A s, t \in Threads :
    op[s] \in SuspendAllOps /\ caller[s] = "FlipThreadRoots" /\ critical[t] > 0
      => op[t] = "jniWait"

\* RunCheckpoint, RequestSynchronousCheckpoint: the closure runs once on each
\* thread that the count it waits for stands for, so the barrier is zero only
\* when all of them have run it, and nobody can run it afterwards.
CheckpointRunsOnce ==
  \A s \in Threads :
    LET queued == {t \in Threads : \E i \in DOMAIN checkpoints[t] :
                                     checkpoints[t][i] = s} IN
      /\ queued \intersect ranOn[s] = {}
      /\ op[s] = "barrierWait" =>
           closureBarrier[s] = Cardinality(queued)
      /\ op[s] \notin CheckpointOps => queued = {}

\* RunEmptyCheckpoint: when it returns every thread that was runnable has
\* answered; a late answer would disturb the barrier of the next one.
EmptyCheckpointAnswered ==
  LET flagged == {t \in Threads : "EmptyCheckpointRequest" \in flags[t]} IN
    /\ (\A s \in Threads : op[s] \notin EmptyOps) => flagged = {}
    /\ \A s \in Threads : op[s] = "emptyWait" =>
         emptyBarrier = Cardinality(flagged)

\* The operations that suspend one thread and have to become runnable
\* themselves before they resume it.
HoldsForItself(s, ops) == IF op[s] \in ops THEN raised[s] ELSE {}

\* SuspendThreadByThreadId: "to avoid potential cycles in threads requesting
\* each other suspend".  In every set of threads there is one that no other
\* thread of the set keeps suspended.
NoByIdCycle ==
  \A C \in (SUBSET Threads) \ {{}} :
    \E t \in C : \A s \in C : t \notin HoldsForItself(s, ByIdOps)

\* The same for all operations of that kind.
NoSuspendCycle ==
  \A C \in (SUBSET Threads) \ {{}} :
    \E t \in C : \A s \in C :
      t \notin HoldsForItself(s, ByIdOps \union {"syncWait", "syncRun"})

\* ModifySuspendCount: a request that had to be repeated succeeds in the end.
RetriesSucceed ==
  \A s \in Threads : op[s] = "retrySuspend" ~> op[s] = "checkSuspended"

\* Every SuspendAll gets all threads suspended.
SuspendAllCompletes ==
  \A s \in Threads : op[s] = "requestSuspend" ~> op[s] = "allSuspended"

\* RunCheckpoint, RequestSynchronousCheckpoint and RunEmptyCheckpoint return:
\* the threads they wait for do answer.
CheckpointsComplete ==
  \A s \in Threads : op[s] \in CheckpointOps ~> op[s] = "none"

\* SuspendThreadByThreadId and Resume return, also when several threads ask
\* for each other.
SuspensionsByIdComplete ==
  \A s \in Threads : op[s] \in ByIdOps ~> op[s] = "none"

\* Every thread that waits to be resumed runs again.
SuspendedThreadsResume ==
  \A t \in Threads : pc[t] = "waitResume" ~> pc[t] = "running"

=============================================================================
