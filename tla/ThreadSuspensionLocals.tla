----------------------- MODULE ThreadSuspensionLocals -----------------------
(***************************************************************************)
(* Every step of thread suspension preserves TodoInv and RaisedInv, what   *)
(* the local variables of the operations hold.                             *)
(***************************************************************************)
EXTENDS ThreadSuspensionInv, TLAPS

USE DEF transitionVars, wordVars, countVars, checkpointVars, flipVars,
        passVars, threadListVars, listVars, mutatorVars, localVars, jniVars,
        ThreadListUnchanged, CheckpointsAndFlipUnchanged, Goto, Begin

\* Control points outside a SuspendAll, and of one that has stopped the world,
\* at which the local variables hold nothing.
IdleOps == {"none", "unregister", "detached", "jniWait", "broadcast",
            "barrierIncrement", "barrierWait", "syncBroadcast",
            "emptyIncrement", "emptyWait", "threadFlipBegin", "flipSuspendAll"}

StoppedOps == {"lockMutator", "allSuspended", "resumeAll", "flipResume"}

\* A step from one such control point to another one.
LEMMA QuietLocals ==
  ASSUME OpTypes, TodoInv, RaisedInv, NEW t \in Threads,
         op[t] \in IdleOps \union StoppedOps \union {"waitForBarrier"},
         NEW l \in IdleOps \union StoppedOps, op' = [op EXCEPT ![t] = l],
         UNCHANGED <<list, todo, raised, current, barriers>>
  PROVE  TodoInv' /\ RaisedInv'
<1>1. todo[t] = {} /\ raised[t] = {}
  BY DEF TodoInv, LoopOps, RaisedInv, RaisingOps, IdleOps, StoppedOps
<1>2. TodoInv'
  BY ZenonT(40), <1>1 DEF OpTypes, TodoInv, LoopOps, IdleOps, StoppedOps
<1>3. RaisedInv'
  BY <1>1 DEF OpTypes, RaisedInv, RaisingOps, IdleOps, StoppedOps
<1> QED
  BY ZenonT(40), <1>2, <1>3

LEMMA QuietStep ==
  ASSUME OpTypes, TodoInv, RaisedInv, NEW t \in Threads, NEW l,
         \/ op[t] \in IdleOps /\ l \in IdleOps
         \/ op[t] \in StoppedOps /\ l \in StoppedOps,
         op' = [op EXCEPT ![t] = l],
         UNCHANGED <<list, todo, raised, current, barriers>>
  PROVE  TodoInv' /\ RaisedInv' /\ SuspendAllsUnaffected
<1>1. TodoInv' /\ RaisedInv'
  BY ZenonT(40), QuietLocals
<1>2. SuspendAllsUnaffected
  BY ZenonT(40)
  DEF OpTypes, SuspendAllsUnaffected, SuspendAllTargets, SuspendAllOps,
      RequestingOps, IdleOps, StoppedOps
<1> QED
  BY ZenonT(40), <1>1, <1>2

-----------------------------------------------------------------------------

\* The state transitions of a thread: TodoInv and RaisedInv hold on, and
\* the SuspendAlls are left alone or the step is one of SuspendAllAffected.
LEMMA TransitionStepsLocals ==
  ASSUME WordTypes, OpTypes, LockTypes, StateInv, LockInv, RequestInv,
         TodoInv, RaisedInv, NEW t \in Threads, TransitionSteps(t)
  PROVE  /\ TodoInv' /\ RaisedInv'
         /\ SuspendAllsUnaffected \/ SuspendAllAffected(t)
<1>1. CASE ClaimSuspendBarriers(t) /\ ThreadListUnchanged
  BY <1>1, ThreadsAssumption
  DEF ClaimSuspendBarriers, LockInv, CountLockOps, ListLockOps, OpTypes,
      TodoInv, LoopOps, RaisedInv, RaisingOps, WordTypes,
      SuspendAllsUnaffected, SuspendAllTargets, SuspendAllOps, RequestingOps
<1>2. ASSUME \/ LeaveRunnable(t) \/ ReturnFromNative(t) \/ SpuriousWakeup(t)
             \/ RunCheckpointFunction(t) \/ RunEmptyCheckpoint(t)
             \/ FullSuspendCheck(t) \/ LeaveRunnableToWait(t)
             \/ ReturnToRunnable(t) \/ FinishTransitionToSuspended(t)
             \/ BecomeRunnable(t) \/ WaitForResume(t) \/ ResumeCondNotified(t)
             \/ RunFlipFunction(t)
             \/ \E u \in Threads : PassSuspendBarrier(t, u),
             ThreadListUnchanged
      PROVE  /\ TodoInv' /\ RaisedInv'
             /\ SuspendAllsUnaffected \/ SuspendAllAffected(t)
  <2>1. /\ op' = op /\ todo' = todo /\ list' = list /\ current' = current
        /\ raised' = raised /\ barriers' = barriers
    BY ZenonT(40), <1>2
    DEF LeaveRunnable, TransitionToSuspendedAndRunCheckpoints,
        ReturnFromNative, EnterTransitionToRunnable, SpuriousWakeup,
        RunCheckpointFunction, RunClosure, RunEmptyCheckpoint,
        FullSuspendCheck, LeaveRunnableToWait, ReturnToRunnable,
        PassSuspendBarrier, FinishTransitionToSuspended, BecomeRunnable,
        WaitForResume, ResumeCondNotified, RunFlipFunction
  <2> QED
    BY ZenonT(40), <2>1
    DEF TodoInv, RaisedInv, SuspendAllsUnaffected, SuspendAllTargets
<1> QED
  BY ZenonT(40), <1>1, <1>2 DEF TransitionSteps

-----------------------------------------------------------------------------

\* SuspendAll and ResumeAll: TodoInv and RaisedInv hold on, and
\* the SuspendAlls are left alone or the step is one of SuspendAllAffected.
LEMMA SuspendAllStepsLocals ==
  ASSUME WordTypes, OpTypes, LockTypes, StateInv, LockInv, RequestInv,
         TodoInv, RaisedInv, NEW t \in Threads, SuspendSteps(t)
  PROVE  /\ TodoInv' /\ RaisedInv'
         /\ SuspendAllsUnaffected \/ SuspendAllAffected(t)
<1>1. CASE SuspendAll(t) /\ CheckpointsAndFlipUnchanged
  <2>1. /\ op[t] = "none" /\ op' = [op EXCEPT ![t] = "requestSuspend"]
        /\ todo' = [todo EXCEPT ![t] = list \ {t}]
        /\ UNCHANGED <<list, raised, current, barriers>>
    BY <1>1, ZenonT(40) DEF SuspendAll, EnterSuspendAllInternal
  <2>2. TodoInv'
    BY ZenonT(40), <1>1, <2>1 DEF OpTypes, TodoInv, LoopOps
  <2>3. RaisedInv'
    BY <1>1, <2>1 DEF OpTypes, RaisedInv, RaisingOps
  <2> QED
    BY ZenonT(40), <1>1, <2>2, <2>3 DEF SuspendAllAffected
<1>2. ASSUME NEW u \in Threads, RequestSuspend(t, u), CheckpointsAndFlipUnchanged
      PROVE  /\ TodoInv' /\ RaisedInv'
             /\ SuspendAllsUnaffected \/ SuspendAllAffected(t)
  <2>1. /\ \/ op[t] = "requestSuspend" /\ u \in todo[t]
           \/ op[t] = "retrySuspend" /\ u = current[t]
        /\ op' = [op EXCEPT ![t] = "checkSuspended"]
        /\ todo' = [todo EXCEPT ![t] = @ \ {u}]
        /\ current' = [current EXCEPT ![t] = u]
        /\ UNCHANGED <<list, raised>>
    BY <1>2, ZenonT(40) DEF RequestSuspend
  <2>2. \A s, v \in Threads : s \in barriers[v] => s \in barriers'[v]
    BY ZenonT(40), <1>2 DEF RequestSuspend, RaiseSuspendCount, WordTypes
  <2>3. t \in barriers'[u]
    BY ZenonT(40), <1>2, ThreadsAssumption
    DEF RequestSuspend, RaiseSuspendCount, WordTypes
  <2>4. TodoInv'
    BY <1>2, <2>1, <2>2, <2>3 DEF OpTypes, TodoInv, LoopOps, LockTypes
  <2>5. RaisedInv'
    BY <1>2, <2>1 DEF OpTypes, RaisedInv, RaisingOps
  <2> QED
    BY ZenonT(40), <1>2, <2>4, <2>5 DEF SuspendAllAffected
<1>3. ASSUME NEW u \in Threads, RequestSuspendFails(t, u), CheckpointsAndFlipUnchanged
      PROVE  /\ TodoInv' /\ RaisedInv'
             /\ SuspendAllsUnaffected \/ SuspendAllAffected(t)
  <2>1. /\ op[t] = "requestSuspend" /\ u \in todo[t]
        /\ op' = [op EXCEPT ![t] = "retrySuspend"]
        /\ current' = [current EXCEPT ![t] = u]
        /\ UNCHANGED <<list, todo, raised, barriers>>
    BY <1>3, ZenonT(40) DEF RequestSuspendFails
  <2>2. TodoInv'
    BY ZenonT(40), <1>3, <2>1 DEF OpTypes, TodoInv, LoopOps
  <2>3. RaisedInv'
    BY <1>3, <2>1 DEF OpTypes, RaisedInv, RaisingOps
  <2>4. SuspendAllsUnaffected
    BY <1>3, ZenonT(40), <2>1
    DEF OpTypes, SuspendAllsUnaffected, SuspendAllTargets, SuspendAllOps,
        RequestingOps
  <2> QED
    BY ZenonT(40), <2>2, <2>3, <2>4
<1>4. CASE CheckSuspended(t) /\ CheckpointsAndFlipUnchanged
  <2>1. /\ op[t] = "checkSuspended"
        /\ op' = [op EXCEPT ![t] = "requestSuspend"]
        /\ current' = [current EXCEPT ![t] = NoThread]
        /\ UNCHANGED <<list, todo, raised>>
    BY <1>4, ZenonT(40) DEF CheckSuspended
  <2>2. \A s, v \in Threads : s # t /\ s \in barriers[v] => s \in barriers'[v]
    BY <1>4 DEF CheckSuspended, ClearSuspendBarrier, WordTypes
  <2>3. TodoInv'
    BY ZenonT(40), <1>4, <2>1, <2>2 DEF OpTypes, TodoInv, LoopOps, LockTypes
  <2>4. RaisedInv'
    BY <1>4, <2>1 DEF OpTypes, RaisedInv, RaisingOps
  <2>5. SuspendAllsUnaffected
    BY <1>4, ZenonT(40), <2>1
    DEF OpTypes, SuspendAllsUnaffected, SuspendAllTargets, SuspendAllOps,
        RequestingOps
  <2> QED
    BY ZenonT(40), <2>3, <2>4, <2>5
<1>5. CASE FinishRequests(t) /\ CheckpointsAndFlipUnchanged
  <2>1. /\ op[t] = "requestSuspend" /\ todo[t] = {}
        /\ op' = [op EXCEPT ![t] = "waitForBarrier"]
        /\ UNCHANGED <<list, todo, raised, current, barriers>>
    BY <1>5, ZenonT(40) DEF FinishRequests
  <2>2. TodoInv'
    BY ZenonT(40), <1>5, <2>1 DEF OpTypes, TodoInv, LoopOps
  <2>3. RaisedInv'
    BY <1>5, <2>1 DEF OpTypes, RaisedInv, RaisingOps
  <2>4. SuspendAllsUnaffected
    BY <1>5, ZenonT(40), <2>1
    DEF OpTypes, SuspendAllsUnaffected, SuspendAllTargets, SuspendAllOps,
        RequestingOps
  <2> QED
    BY ZenonT(40), <2>2, <2>3, <2>4
<1>6. CASE SuspendBarrierPassed(t) /\ CheckpointsAndFlipUnchanged
  <2>1. /\ op[t] = "waitForBarrier" /\ op' = [op EXCEPT ![t] = "lockMutator"]
        /\ UNCHANGED <<list, todo, raised, current, barriers>>
    BY <1>6, ZenonT(40) DEF SuspendBarrierPassed
  <2>2. TodoInv' /\ RaisedInv'
    BY <1>6, ZenonT(40), <2>1, QuietLocals DEF IdleOps, StoppedOps
  <2> QED
    BY ZenonT(40), <1>6, <2>2 DEF SuspendAllAffected
<1>7. CASE LockMutatorExclusive(t) /\ CheckpointsAndFlipUnchanged
  <2>1. /\ op[t] = "lockMutator" /\ op' = [op EXCEPT ![t] = "allSuspended"]
        /\ UNCHANGED <<list, todo, raised, current, barriers>>
    BY <1>7, ZenonT(40) DEF LockMutatorExclusive
  <2> QED
    BY <1>7, ZenonT(40), <2>1, QuietStep DEF IdleOps, StoppedOps
<1>8. CASE ResumeAll(t) /\ CheckpointsAndFlipUnchanged
  <2>1. /\ op[t] = "allSuspended" /\ op' = [op EXCEPT ![t] = "resumeAll"]
        /\ UNCHANGED <<list, todo, raised, current, barriers>>
    BY <1>8, ZenonT(40) DEF ResumeAll
  <2> QED
    BY <1>8, ZenonT(40), <2>1, QuietStep DEF IdleOps, StoppedOps
<1>9. CASE LowerAllAndBroadcast(t) /\ CheckpointsAndFlipUnchanged
  <2>1. TodoInv' /\ RaisedInv'
    BY <1>9
    DEF LowerAllAndBroadcast, LowerSuspendCounts, BothLocksFree, OpTypes,
        TodoInv, LoopOps, RaisedInv, RaisingOps
  <2>2. SuspendAllAffected(t)
    BY ZenonT(40), <1>9 DEF SuspendAllAffected
  <2> QED
    BY ZenonT(40), <2>1, <2>2
<1> QED
  BY ZenonT(40), <1>1, <1>2, <1>3, <1>4, <1>5, <1>6, <1>7, <1>8, <1>9
  DEF SuspendSteps

-----------------------------------------------------------------------------

\* SuspendThreadByThreadId and Resume: TodoInv and RaisedInv hold on, and
\* the SuspendAlls are left alone or the step is one of SuspendAllAffected.
LEMMA ByIdStepsLocals ==
  ASSUME WordTypes, OpTypes, LockTypes, StateInv, LockInv, RequestInv,
         TodoInv, RaisedInv, NEW t \in Threads, ByIdSteps(t)
  PROVE  /\ TodoInv' /\ RaisedInv'
         /\ SuspendAllsUnaffected \/ SuspendAllAffected(t)
<1>1. ASSUME NEW u \in Threads, SuspendThreadByThreadId(t, u), CheckpointsAndFlipUnchanged
      PROVE  /\ TodoInv' /\ RaisedInv'
             /\ SuspendAllsUnaffected \/ SuspendAllAffected(t)
  <2>1. /\ op[t] = "none" /\ u # t /\ op' = [op EXCEPT ![t] = "byIdEnter"]
        /\ current' = [current EXCEPT ![t] = u]
        /\ UNCHANGED <<list, todo, raised, barriers>>
    BY <1>1, ZenonT(40) DEF SuspendThreadByThreadId
  <2>2. TodoInv'
    BY ZenonT(40), <1>1, <2>1 DEF OpTypes, TodoInv, LoopOps
  <2>3. RaisedInv'
    BY <1>1, <2>1 DEF OpTypes, RaisedInv, RaisingOps
  <2>4. SuspendAllsUnaffected
    BY <1>1, ZenonT(40), <2>1
    DEF OpTypes, SuspendAllsUnaffected, SuspendAllTargets, SuspendAllOps,
        RequestingOps
  <2> QED
    BY ZenonT(40), <2>2, <2>3, <2>4
<1>2. CASE ByIdGivesWay(t) /\ CheckpointsAndFlipUnchanged
  <2>1. /\ op[t] = "byIdEnter" /\ raised[t] = {}
        /\ \/ op' = [op EXCEPT ![t] = "byIdFail"]
           \/ op' = [op EXCEPT ![t] = "byIdSleep"]
        /\ UNCHANGED <<list, todo, raised, current, barriers>>
    BY <1>2, ZenonT(40) DEF ByIdGivesWay
  <2>2. TodoInv'
    BY <1>2, <2>1 DEF OpTypes, TodoInv, LoopOps
  <2>3. RaisedInv'
    BY <1>2, <2>1 DEF OpTypes, RaisedInv, RaisingOps
  <2>4. SuspendAllsUnaffected
    BY <1>2, ZenonT(40), <2>1
    DEF OpTypes, SuspendAllsUnaffected, SuspendAllTargets, SuspendAllOps,
        RequestingOps
  <2> QED
    BY ZenonT(40), <2>2, <2>3, <2>4
<1>3. CASE ByIdRequest(t) /\ CheckpointsAndFlipUnchanged
  <2>1. /\ op[t] \in {"byIdEnter", "byIdRetry"} /\ current[t] \in list
        /\ \/ op' = [op EXCEPT ![t] = "byIdFound"]
           \/ op' = [op EXCEPT ![t] = "byIdSleep"]
        /\ raised' = [raised EXCEPT ![t] = {current[t]}]
        /\ UNCHANGED <<list, todo, current>>
    BY <1>3, ZenonT(40) DEF ByIdRequest, ByIdOutcome
  <2>2. \A s, v \in Threads : s \in barriers[v] => s \in barriers'[v]
    BY ZenonT(40), <1>3
    DEF ByIdRequest, ByIdOutcome, RaiseSuspendCount, WordTypes
  <2>3. TodoInv'
    BY <1>3, <2>1, <2>2 DEF OpTypes, TodoInv, LoopOps, LockTypes
  <2>4. RaisedInv'
    BY <1>3, <2>1 DEF OpTypes, RaisedInv, RaisingOps
  <2>5. SuspendAllsUnaffected
    BY <1>3, ZenonT(40), <2>1
    DEF OpTypes, SuspendAllsUnaffected, SuspendAllTargets, SuspendAllOps,
        RequestingOps
  <2> QED
    BY ZenonT(40), <2>3, <2>4, <2>5
<1>4. CASE ByIdRequestFails(t) /\ CheckpointsAndFlipUnchanged
  <2>1. /\ op[t] = "byIdEnter" /\ raised[t] = {}
        /\ op' = [op EXCEPT ![t] = "byIdRetry"]
        /\ UNCHANGED <<list, todo, raised, current, barriers>>
    BY <1>4, ZenonT(40) DEF ByIdRequestFails
  <2>2. TodoInv'
    BY ZenonT(40), <1>4, <2>1 DEF OpTypes, TodoInv, LoopOps
  <2>3. RaisedInv'
    BY <1>4, <2>1 DEF OpTypes, RaisedInv, RaisingOps
  <2>4. SuspendAllsUnaffected
    BY <1>4, ZenonT(40), <2>1
    DEF OpTypes, SuspendAllsUnaffected, SuspendAllTargets, SuspendAllOps,
        RequestingOps
  <2> QED
    BY ZenonT(40), <2>2, <2>3, <2>4
<1>5. CASE ByIdPoll(t) /\ CheckpointsAndFlipUnchanged
  <2>1. /\ op[t] = "byIdEnter" /\ raised[t] # {}
        /\ \/ op' = [op EXCEPT ![t] = "byIdFound"]
           \/ op' = [op EXCEPT ![t] = "byIdSleep"]
        /\ raised' = [raised EXCEPT ![t] = {current[t]}]
        /\ UNCHANGED <<list, todo, current, barriers>>
    BY <1>5, ZenonT(40) DEF ByIdPoll, ByIdOutcome
  <2>2. TodoInv'
    BY <1>5, <2>1 DEF OpTypes, TodoInv, LoopOps
  <2>3. RaisedInv'
    BY <1>5, <2>1 DEF OpTypes, RaisedInv, RaisingOps
  <2>4. SuspendAllsUnaffected
    BY <1>5, ZenonT(40), <2>1
    DEF OpTypes, SuspendAllsUnaffected, SuspendAllTargets, SuspendAllOps,
        RequestingOps
  <2> QED
    BY ZenonT(40), <2>2, <2>3, <2>4
<1>6. CASE ByIdTimeout(t) /\ CheckpointsAndFlipUnchanged
  <2>1. /\ op[t] = "byIdEnter" /\ op' = [op EXCEPT ![t] = "byIdFail"]
        /\ raised' = [raised EXCEPT ![t] = {}]
        /\ UNCHANGED <<list, todo, current, barriers>>
    BY <1>6, ZenonT(40) DEF ByIdTimeout, LowerSuspendCounts
  <2>2. TodoInv'
    BY ZenonT(40), <1>6, <2>1 DEF OpTypes, TodoInv, LoopOps
  <2>3. RaisedInv'
    BY <1>6, <2>1 DEF OpTypes, RaisedInv, RaisingOps
  <2>4. SuspendAllsUnaffected
    BY <1>6, ZenonT(40), <2>1
    DEF OpTypes, SuspendAllsUnaffected, SuspendAllTargets, SuspendAllOps,
        RequestingOps
  <2> QED
    BY ZenonT(40), <2>2, <2>3, <2>4
<1>7. CASE ByIdRoundEnds(t) /\ CheckpointsAndFlipUnchanged
  BY <1>7
  DEF ByIdRoundEnds, OpTypes, TodoInv, LoopOps, RaisedInv, RaisingOps,
      SuspendAllsUnaffected, SuspendAllTargets, SuspendAllOps, RequestingOps
<1>8. CASE Resume(t) /\ CheckpointsAndFlipUnchanged
  <2>1. /\ op[t] = "byIdHold" /\ op' = [op EXCEPT ![t] = "broadcast"]
        /\ raised' = [raised EXCEPT ![t] = {}]
        /\ current' = [current EXCEPT ![t] = NoThread]
        /\ UNCHANGED <<list, todo, barriers>>
    BY <1>8, ZenonT(40) DEF Resume, LowerSuspendCounts
  <2>2. TodoInv'
    BY ZenonT(40), <1>8, <2>1 DEF OpTypes, TodoInv, LoopOps
  <2>3. RaisedInv'
    BY <1>8, <2>1 DEF OpTypes, RaisedInv, RaisingOps
  <2>4. SuspendAllsUnaffected
    BY <1>8, ZenonT(40), <2>1
    DEF OpTypes, SuspendAllsUnaffected, SuspendAllTargets, SuspendAllOps,
        RequestingOps
  <2> QED
    BY ZenonT(40), <2>2, <2>3, <2>4
<1>9. CASE ResumeBroadcasts(t) /\ CheckpointsAndFlipUnchanged
  <2>1. /\ op[t] = "broadcast" /\ op' = [op EXCEPT ![t] = "none"]
        /\ UNCHANGED <<list, todo, raised, current, barriers>>
    BY <1>9, ZenonT(40) DEF ResumeBroadcasts
  <2> QED
    BY <1>9, ZenonT(40), <2>1, QuietStep DEF IdleOps, StoppedOps
<1> QED
  BY ZenonT(40), <1>1, <1>2, <1>3, <1>4, <1>5, <1>6, <1>7, <1>8, <1>9
  DEF ByIdSteps

-----------------------------------------------------------------------------

\* Register and Unregister: TodoInv and RaisedInv hold on, and
\* the SuspendAlls are left alone or the step is one of SuspendAllAffected.
LEMMA AttachStepsLocals ==
  ASSUME WordTypes, OpTypes, LockTypes, StateInv, LockInv, RequestInv,
         TodoInv, RaisedInv, NEW t \in Threads, AttachSteps(t)
  PROVE  /\ TodoInv' /\ RaisedInv'
         /\ SuspendAllsUnaffected \/ SuspendAllAffected(t)
<1>1. CASE Register(t) /\ CheckpointsAndFlipUnchanged
  <2>1. /\ op[t] = "none"
        /\ list' = list \union {t}
        /\ UNCHANGED <<op, todo, raised, current, barriers>>
    BY <1>1, ZenonT(40) DEF Register
  <2>2. TodoInv'
    BY ZenonT(40), <1>1, <2>1 DEF OpTypes, TodoInv, LoopOps
  <2>3. RaisedInv'
    BY ZenonT(40), <1>1, <2>1 DEF OpTypes, RaisedInv, RaisingOps
  <2> QED
    BY ZenonT(40), <1>1, <2>2, <2>3 DEF SuspendAllAffected
<1>2. CASE Unregister(t) /\ CheckpointsAndFlipUnchanged
  <2>1. /\ op[t] = "none" /\ op' = [op EXCEPT ![t] = "unregister"]
        /\ UNCHANGED <<list, todo, raised, current, barriers>>
    BY <1>2, ZenonT(40) DEF Unregister
  <2> QED
    BY <1>2, ZenonT(40), <2>1, QuietStep DEF IdleOps, StoppedOps
<1>3. CASE RemoveFromList(t) /\ CheckpointsAndFlipUnchanged
  <2>1. \A s \in Threads : t \notin raised[s]
    BY ZenonT(40), <1>3
    DEF RemoveFromList, IsSuspended, StateInv, RequestInv, SuspendedBy
  <2>2. \A s \in Threads : op[s] \notin ListLockOps
    BY ZenonT(40), <1>3, ThreadsAssumption
    DEF RemoveFromList, BothLocksFree, LockInv
  <2>3. TodoInv'
    BY ZenonT(40), <1>3, <2>2
    DEF RemoveFromList, OpTypes, TodoInv, LoopOps, ListLockOps, CountLockOps
  <2>4. RaisedInv'
    BY <1>3, <2>1, <2>2
    DEF RemoveFromList, OpTypes, RaisedInv, RaisingOps, ListLockOps,
        CountLockOps
  <2>5. SuspendAllAffected(t)
    BY ZenonT(40), <1>3 DEF SuspendAllAffected
  <2> QED
    BY ZenonT(40), <2>3, <2>4, <2>5
<1>4. CASE FinishUnregister(t) /\ CheckpointsAndFlipUnchanged
  <2>1. /\ op[t] = "detached" /\ op' = [op EXCEPT ![t] = "none"]
        /\ UNCHANGED <<list, todo, raised, current, barriers>>
    BY <1>4, ZenonT(40) DEF FinishUnregister
  <2> QED
    BY <1>4, ZenonT(40), <2>1, QuietStep DEF IdleOps, StoppedOps
<1> QED
  BY ZenonT(40), <1>1, <1>2, <1>3, <1>4 DEF AttachSteps

-----------------------------------------------------------------------------

\* RunCheckpoint: TodoInv and RaisedInv hold on, and
\* the SuspendAlls are left alone or the step is one of SuspendAllAffected.
LEMMA RunCheckpointStepsLocals ==
  ASSUME WordTypes, OpTypes, LockTypes, StateInv, LockInv, RequestInv,
         TodoInv, RaisedInv, NEW t \in Threads, RunCheckpointSteps(t)
  PROVE  /\ TodoInv' /\ RaisedInv'
         /\ SuspendAllsUnaffected \/ SuspendAllAffected(t)
<1>1. CASE RunCheckpoint(t) /\ UNCHANGED jniVars
  <2>1. /\ op[t] = "none" /\ op' = [op EXCEPT ![t] = "requestCheckpoint"]
        /\ todo' = [todo EXCEPT ![t] = list \ {t}]
        /\ UNCHANGED <<list, raised, current, barriers>>
    BY <1>1, ZenonT(40) DEF RunCheckpoint
  <2>2. TodoInv'
    BY <1>1, <2>1 DEF OpTypes, TodoInv, LoopOps, RaisedInv, RaisingOps
  <2>3. RaisedInv'
    BY <1>1, <2>1 DEF OpTypes, RaisedInv, RaisingOps
  <2>4. SuspendAllsUnaffected
    BY <1>1, ZenonT(40), <2>1
    DEF OpTypes, SuspendAllsUnaffected, SuspendAllTargets, SuspendAllOps,
        RequestingOps
  <2> QED
    BY ZenonT(40), <2>2, <2>3, <2>4
<1>2. ASSUME NEW u \in Threads, CheckpointRunnableThread(t, u), UNCHANGED jniVars
      PROVE  /\ TodoInv' /\ RaisedInv'
             /\ SuspendAllsUnaffected \/ SuspendAllAffected(t)
  <2>1. /\ op[t] = "requestCheckpoint"
        /\ todo' = [todo EXCEPT ![t] = @ \ {u}]
        /\ UNCHANGED <<op, list, raised, current, barriers>>
    BY <1>2, ZenonT(40) DEF CheckpointRunnableThread
  <2>2. TodoInv'
    BY <1>2, <2>1 DEF OpTypes, TodoInv, LoopOps
  <2>3. RaisedInv'
    BY ZenonT(40), <1>2, <2>1 DEF OpTypes, RaisedInv, RaisingOps
  <2>4. SuspendAllsUnaffected
    BY <1>2, ZenonT(40), <2>1
    DEF OpTypes, SuspendAllsUnaffected, SuspendAllTargets, SuspendAllOps,
        RequestingOps
  <2> QED
    BY ZenonT(40), <2>2, <2>3, <2>4
<1>3. ASSUME NEW u \in Threads, CheckpointSuspendedThread(t, u), UNCHANGED jniVars
      PROVE  /\ TodoInv' /\ RaisedInv'
             /\ SuspendAllsUnaffected \/ SuspendAllAffected(t)
  <2>1. /\ op[t] \in {"raiseCheckpoint", "retryCheckpoint"} /\ u = current[t]
        /\ op' = [op EXCEPT ![t] = "requestCheckpoint"]
        /\ todo' = [todo EXCEPT ![t] = @ \ {u}]
        /\ raised' = [raised EXCEPT ![t] = @ \union {u}]
        /\ current' = [current EXCEPT ![t] = NoThread]
        /\ UNCHANGED list
    BY <1>3, ZenonT(40) DEF CheckpointSuspendedThread
  <2>2. \A s, v \in Threads : s \in barriers[v] => s \in barriers'[v]
    BY ZenonT(40), <1>3
    DEF CheckpointSuspendedThread, RaiseSuspendCount, WordTypes
  <2>3. TodoInv'
    BY <1>3, <2>1, <2>2 DEF OpTypes, TodoInv, LoopOps, LockTypes
  <2>4. RaisedInv'
    BY <1>3, <2>1 DEF OpTypes, RaisedInv, RaisingOps, TodoInv
  <2>5. SuspendAllsUnaffected
    BY <1>3, ZenonT(40), <2>1
    DEF OpTypes, SuspendAllsUnaffected, SuspendAllTargets, SuspendAllOps,
        RequestingOps
  <2> QED
    BY ZenonT(40), <2>3, <2>4, <2>5
<1>4. ASSUME NEW u \in Threads, CheckpointRequestFails(t, u), UNCHANGED jniVars
      PROVE  /\ TodoInv' /\ RaisedInv'
             /\ SuspendAllsUnaffected \/ SuspendAllAffected(t)
  <2>1. /\ op[t] = "raiseCheckpoint" /\ u = current[t]
        /\ op' = [op EXCEPT ![t] = "retryCheckpoint"]
        /\ UNCHANGED <<list, todo, raised, current, barriers>>
    BY <1>4, ZenonT(40) DEF CheckpointRequestFails
  <2>2. TodoInv'
    BY ZenonT(40), <1>4, <2>1 DEF OpTypes, TodoInv, LoopOps
  <2>3. RaisedInv'
    BY <1>4, <2>1 DEF OpTypes, RaisedInv, RaisingOps
  <2>4. SuspendAllsUnaffected
    BY <1>4, ZenonT(40), <2>1
    DEF OpTypes, SuspendAllsUnaffected, SuspendAllTargets, SuspendAllOps,
        RequestingOps
  <2> QED
    BY ZenonT(40), <2>2, <2>3, <2>4
<1>5. CASE CheckpointSelf(t) /\ UNCHANGED jniVars
  <2>1. /\ op[t] = "requestCheckpoint" /\ todo[t] = {}
        /\ op' = [op EXCEPT ![t] = "checkpointOthers"]
        /\ UNCHANGED <<list, todo, raised, current, barriers>>
    BY <1>5, ZenonT(40) DEF CheckpointSelf
  <2>2. TodoInv'
    BY ZenonT(40), <1>5, <2>1 DEF OpTypes, TodoInv, LoopOps
  <2>3. RaisedInv'
    BY <1>5, <2>1 DEF OpTypes, RaisedInv, RaisingOps
  <2>4. SuspendAllsUnaffected
    BY <1>5, ZenonT(40), <2>1
    DEF OpTypes, SuspendAllsUnaffected, SuspendAllTargets, SuspendAllOps,
        RequestingOps
  <2> QED
    BY ZenonT(40), <2>2, <2>3, <2>4
<1>6. ASSUME NEW u \in Threads, CheckpointOther(t, u), UNCHANGED jniVars
      PROVE  /\ TodoInv' /\ RaisedInv'
             /\ SuspendAllsUnaffected \/ SuspendAllAffected(t)
  <2>1. /\ op[t] = "checkpointOthers" /\ u \in raised[t]
        /\ op' = [op EXCEPT ![t] = "checkpointLower"]
        /\ current' = [current EXCEPT ![t] = u]
        /\ UNCHANGED <<list, todo, raised, barriers>>
    BY <1>6, ZenonT(40) DEF CheckpointOther
  <2>2. TodoInv'
    BY ZenonT(40), <1>6, <2>1 DEF OpTypes, TodoInv, LoopOps
  <2>3. RaisedInv'
    BY <1>6, <2>1 DEF OpTypes, RaisedInv, RaisingOps
  <2>4. SuspendAllsUnaffected
    BY <1>6, ZenonT(40), <2>1
    DEF OpTypes, SuspendAllsUnaffected, SuspendAllTargets, SuspendAllOps,
        RequestingOps
  <2> QED
    BY ZenonT(40), <2>2, <2>3, <2>4
<1>7. CASE CheckpointLower(t) /\ UNCHANGED jniVars
  <2>1. /\ op[t] = "checkpointLower"
        /\ op' = [op EXCEPT ![t] = "checkpointOthers"]
        /\ raised' = [raised EXCEPT ![t] = @ \ {current[t]}]
        /\ current' = [current EXCEPT ![t] = NoThread]
        /\ UNCHANGED <<list, todo, barriers>>
    BY <1>7, ZenonT(40) DEF CheckpointLower, LowerSuspendCounts
  <2>2. TodoInv'
    BY ZenonT(40), <1>7, <2>1 DEF OpTypes, TodoInv, LoopOps
  <2>3. RaisedInv'
    BY <1>7, <2>1 DEF OpTypes, RaisedInv, RaisingOps
  <2>4. SuspendAllsUnaffected
    BY <1>7, ZenonT(40), <2>1
    DEF OpTypes, SuspendAllsUnaffected, SuspendAllTargets, SuspendAllOps,
        RequestingOps
  <2> QED
    BY ZenonT(40), <2>2, <2>3, <2>4
<1>8. CASE CheckpointBroadcast(t) /\ UNCHANGED jniVars
  <2>1. /\ op[t] = "checkpointOthers" /\ raised[t] = {}
        /\ op' = [op EXCEPT ![t] = "barrierIncrement"]
        /\ UNCHANGED <<list, todo, raised, current, barriers>>
    BY <1>8, ZenonT(40) DEF CheckpointBroadcast
  <2>2. TodoInv'
    BY ZenonT(40), <1>8, <2>1 DEF OpTypes, TodoInv, LoopOps
  <2>3. RaisedInv'
    BY <1>8, <2>1 DEF OpTypes, RaisedInv, RaisingOps
  <2>4. SuspendAllsUnaffected
    BY <1>8, ZenonT(40), <2>1
    DEF OpTypes, SuspendAllsUnaffected, SuspendAllTargets, SuspendAllOps,
        RequestingOps
  <2> QED
    BY ZenonT(40), <2>2, <2>3, <2>4
<1>9. CASE BarrierIncrement(t) /\ UNCHANGED jniVars
  <2>1. /\ op[t] = "barrierIncrement" /\ op' = [op EXCEPT ![t] = "barrierWait"]
        /\ UNCHANGED <<list, todo, raised, current, barriers>>
    BY <1>9, ZenonT(40) DEF BarrierIncrement
  <2> QED
    BY <1>9, ZenonT(40), <2>1, QuietStep DEF IdleOps, StoppedOps
<1>10. CASE BarrierReachesZero(t) /\ UNCHANGED jniVars
  <2>1. /\ op[t] = "barrierWait" /\ op' = [op EXCEPT ![t] = "none"]
        /\ UNCHANGED <<list, todo, raised, current, barriers>>
    BY <1>10, ZenonT(40) DEF BarrierReachesZero
  <2> QED
    BY <1>10, ZenonT(40), <2>1, QuietStep DEF IdleOps, StoppedOps
<1>11. ASSUME NEW u \in Threads, CheckpointTargetNotRunnable(t, u), UNCHANGED jniVars
      PROVE  /\ TodoInv' /\ RaisedInv'
             /\ SuspendAllsUnaffected \/ SuspendAllAffected(t)
  <2>1. /\ op[t] = "requestCheckpoint" /\ u \in todo[t]
        /\ op' = [op EXCEPT ![t] = "raiseCheckpoint"]
        /\ current' = [current EXCEPT ![t] = u]
        /\ UNCHANGED <<list, todo, raised, barriers>>
    BY <1>11, ZenonT(40) DEF CheckpointTargetNotRunnable
  <2>2. TodoInv'
    BY ZenonT(40), <1>11, <2>1 DEF OpTypes, TodoInv, LoopOps
  <2>3. RaisedInv'
    BY <1>11, <2>1 DEF OpTypes, RaisedInv, RaisingOps
  <2>4. SuspendAllsUnaffected
    BY <1>11, ZenonT(40), <2>1
    DEF OpTypes, SuspendAllsUnaffected, SuspendAllTargets, SuspendAllOps,
        RequestingOps
  <2> QED
    BY ZenonT(40), <2>2, <2>3, <2>4
<1> QED
  BY ZenonT(40), <1>1, <1>2, <1>3, <1>4, <1>5, <1>6, <1>7, <1>8, <1>9, <1>10,
     <1>11 DEF RunCheckpointSteps

-----------------------------------------------------------------------------

\* RequestSynchronousCheckpoint: TodoInv and RaisedInv hold on, and
\* the SuspendAlls are left alone or the step is one of SuspendAllAffected.
LEMMA SyncStepsLocals ==
  ASSUME WordTypes, OpTypes, LockTypes, StateInv, LockInv, RequestInv,
         TodoInv, RaisedInv, NEW t \in Threads, SyncSteps(t)
  PROVE  /\ TodoInv' /\ RaisedInv'
         /\ SuspendAllsUnaffected \/ SuspendAllAffected(t)
<1>1. ASSUME NEW u \in Threads, RequestSynchronousCheckpoint(t, u), UNCHANGED jniVars
      PROVE  /\ TodoInv' /\ RaisedInv'
             /\ SuspendAllsUnaffected \/ SuspendAllAffected(t)
  <2>1. /\ op[t] = "none" /\ op' = [op EXCEPT ![t] = "barrierIncrement"]
        /\ UNCHANGED <<list, todo, raised, current, barriers>>
    BY <1>1, ZenonT(40) DEF RequestSynchronousCheckpoint
  <2> QED
    BY <1>1, ZenonT(40), <2>1, QuietStep DEF IdleOps, StoppedOps
<1>2. ASSUME NEW u \in Threads, SyncTargetNotRunnable(t, u), UNCHANGED jniVars
      PROVE  /\ TodoInv' /\ RaisedInv'
             /\ SuspendAllsUnaffected \/ SuspendAllAffected(t)
  <2>1. /\ op[t] = "none" /\ u \in list \ {t}
        /\ op' = [op EXCEPT ![t] = "syncRaise"]
        /\ current' = [current EXCEPT ![t] = u]
        /\ UNCHANGED <<list, todo, raised, barriers>>
    BY <1>2, ZenonT(40) DEF SyncTargetNotRunnable
  <2>2. TodoInv'
    BY ZenonT(40), <1>2, <2>1 DEF OpTypes, TodoInv, LoopOps
  <2>3. RaisedInv'
    BY <1>2, <2>1 DEF OpTypes, RaisedInv, RaisingOps
  <2>4. SuspendAllsUnaffected
    BY <1>2, ZenonT(40), <2>1
    DEF OpTypes, SuspendAllsUnaffected, SuspendAllTargets, SuspendAllOps,
        RequestingOps
  <2> QED
    BY ZenonT(40), <2>2, <2>3, <2>4
<1>3. CASE SyncRaise(t) /\ UNCHANGED jniVars
  <2>1. /\ op[t] = "syncRaise" /\ op' = [op EXCEPT ![t] = "syncWait"]
        /\ raised' = [raised EXCEPT ![t] = {current[t]}]
        /\ UNCHANGED <<list, todo, current>>
    BY <1>3, ZenonT(40) DEF SyncRaise
  <2>2. \A s, v \in Threads : s \in barriers[v] => s \in barriers'[v]
    BY ZenonT(40), <1>3 DEF SyncRaise, RaiseSuspendCount, WordTypes
  <2>3. TodoInv'
    BY <1>3, <2>1, <2>2 DEF OpTypes, TodoInv, LoopOps, LockTypes
  <2>4. RaisedInv'
    BY <1>3, <2>1 DEF OpTypes, RaisedInv, RaisingOps
  <2>5. SuspendAllsUnaffected
    BY <1>3, ZenonT(40), <2>1
    DEF OpTypes, SuspendAllsUnaffected, SuspendAllTargets, SuspendAllOps,
        RequestingOps
  <2> QED
    BY ZenonT(40), <2>3, <2>4, <2>5
<1>4. CASE SyncTargetSuspended(t) /\ UNCHANGED jniVars
  <2>1. /\ op[t] = "syncWait" /\ op' = [op EXCEPT ![t] = "syncRun"]
        /\ UNCHANGED <<list, todo, raised, current, barriers>>
    BY <1>4, ZenonT(40) DEF SyncTargetSuspended
  <2>2. TodoInv'
    BY ZenonT(40), <1>4, <2>1 DEF OpTypes, TodoInv, LoopOps
  <2>3. RaisedInv'
    BY <1>4, <2>1 DEF OpTypes, RaisedInv, RaisingOps
  <2>4. SuspendAllsUnaffected
    BY <1>4, ZenonT(40), <2>1
    DEF OpTypes, SuspendAllsUnaffected, SuspendAllTargets, SuspendAllOps,
        RequestingOps
  <2> QED
    BY ZenonT(40), <2>2, <2>3, <2>4
<1>5. CASE SyncRun(t) /\ UNCHANGED jniVars
  <2>1. /\ op[t] = "syncRun" /\ op' = [op EXCEPT ![t] = "syncLower"]
        /\ UNCHANGED <<list, todo, raised, current, barriers>>
    BY <1>5, ZenonT(40) DEF SyncRun
  <2>2. TodoInv'
    BY ZenonT(40), <1>5, <2>1 DEF OpTypes, TodoInv, LoopOps
  <2>3. RaisedInv'
    BY <1>5, <2>1 DEF OpTypes, RaisedInv, RaisingOps
  <2>4. SuspendAllsUnaffected
    BY <1>5, ZenonT(40), <2>1
    DEF OpTypes, SuspendAllsUnaffected, SuspendAllTargets, SuspendAllOps,
        RequestingOps
  <2> QED
    BY ZenonT(40), <2>2, <2>3, <2>4
<1>6. CASE SyncLower(t) /\ UNCHANGED jniVars
  <2>1. /\ op[t] = "syncLower" /\ op' = [op EXCEPT ![t] = "syncBroadcast"]
        /\ raised' = [raised EXCEPT ![t] = {}]
        /\ current' = [current EXCEPT ![t] = NoThread]
        /\ UNCHANGED <<list, todo, barriers>>
    BY <1>6, ZenonT(40) DEF SyncLower, LowerSuspendCounts
  <2>2. TodoInv'
    BY ZenonT(40), <1>6, <2>1 DEF OpTypes, TodoInv, LoopOps
  <2>3. RaisedInv'
    BY <1>6, <2>1 DEF OpTypes, RaisedInv, RaisingOps
  <2>4. SuspendAllsUnaffected
    BY <1>6, ZenonT(40), <2>1
    DEF OpTypes, SuspendAllsUnaffected, SuspendAllTargets, SuspendAllOps,
        RequestingOps
  <2> QED
    BY ZenonT(40), <2>2, <2>3, <2>4
<1>7. CASE SyncBroadcast(t) /\ UNCHANGED jniVars
  <2>1. /\ op[t] = "syncBroadcast" /\ op' = [op EXCEPT ![t] = "none"]
        /\ UNCHANGED <<list, todo, raised, current, barriers>>
    BY <1>7, ZenonT(40) DEF SyncBroadcast
  <2> QED
    BY <1>7, ZenonT(40), <2>1, QuietStep DEF IdleOps, StoppedOps
<1> QED
  BY ZenonT(40), <1>1, <1>2, <1>3, <1>4, <1>5, <1>6, <1>7 DEF SyncSteps

-----------------------------------------------------------------------------

\* RunEmptyCheckpoint: TodoInv and RaisedInv hold on, and
\* the SuspendAlls are left alone or the step is one of SuspendAllAffected.
LEMMA EmptyStepsLocals ==
  ASSUME WordTypes, OpTypes, LockTypes, StateInv, LockInv, RequestInv,
         TodoInv, RaisedInv, NEW t \in Threads, EmptySteps(t)
  PROVE  /\ TodoInv' /\ RaisedInv'
         /\ SuspendAllsUnaffected \/ SuspendAllAffected(t)
<1>1. CASE ThreadListRunEmptyCheckpoint(t) /\ UNCHANGED jniVars
  <2>1. /\ op[t] = "none" /\ op' = [op EXCEPT ![t] = "emptyRequest"]
        /\ todo' = [todo EXCEPT ![t] = list \ {t}]
        /\ UNCHANGED <<list, raised, current, barriers>>
    BY <1>1, ZenonT(40) DEF ThreadListRunEmptyCheckpoint
  <2>2. TodoInv'
    BY <1>1, <2>1 DEF OpTypes, TodoInv, LoopOps, RaisedInv, RaisingOps
  <2>3. RaisedInv'
    BY <1>1, <2>1 DEF OpTypes, RaisedInv, RaisingOps
  <2>4. SuspendAllsUnaffected
    BY <1>1, ZenonT(40), <2>1
    DEF OpTypes, SuspendAllsUnaffected, SuspendAllTargets, SuspendAllOps,
        RequestingOps
  <2> QED
    BY ZenonT(40), <2>2, <2>3, <2>4
<1>2. CASE EmptyBarrierIncrement(t) /\ UNCHANGED jniVars
  <2>1. /\ op[t] = "emptyIncrement" /\ op' = [op EXCEPT ![t] = "emptyWait"]
        /\ UNCHANGED <<list, todo, raised, current, barriers>>
    BY <1>2, ZenonT(40) DEF EmptyBarrierIncrement
  <2> QED
    BY <1>2, ZenonT(40), <2>1, QuietStep DEF IdleOps, StoppedOps
<1>3. CASE EmptyBarrierReachesZero(t) /\ UNCHANGED jniVars
  <2>1. /\ op[t] = "emptyWait" /\ op' = [op EXCEPT ![t] = "none"]
        /\ UNCHANGED <<list, todo, raised, current, barriers>>
    BY <1>3, ZenonT(40) DEF EmptyBarrierReachesZero
  <2> QED
    BY <1>3, ZenonT(40), <2>1, QuietStep DEF IdleOps, StoppedOps
<1>4. ASSUME NEW u \in Threads,
             RequestEmptyCheckpoint(t, u) \/ EmptyTargetSuspended(t, u),
             UNCHANGED jniVars
      PROVE  /\ TodoInv' /\ RaisedInv'
             /\ SuspendAllsUnaffected \/ SuspendAllAffected(t)
  <2>1. /\ op[t] = "emptyRequest"
        /\ todo' = [todo EXCEPT ![t] = @ \ {u}]
        /\ UNCHANGED <<op, list, raised, current, barriers>>
    BY <1>4, ZenonT(40) DEF RequestEmptyCheckpoint, EmptyTargetSuspended
  <2>2. TodoInv'
    BY <1>4, <2>1 DEF OpTypes, TodoInv, LoopOps
  <2>3. RaisedInv'
    BY ZenonT(40), <1>4, <2>1 DEF OpTypes, RaisedInv, RaisingOps
  <2>4. SuspendAllsUnaffected
    BY <1>4, ZenonT(40), <2>1
    DEF OpTypes, SuspendAllsUnaffected, SuspendAllTargets, SuspendAllOps,
        RequestingOps
  <2> QED
    BY ZenonT(40), <2>2, <2>3, <2>4
<1>5. CASE EmptyRequestsDone(t) /\ UNCHANGED jniVars
  <2>1. /\ op[t] = "emptyRequest" /\ todo[t] = {}
        /\ op' = [op EXCEPT ![t] = "emptyIncrement"]
        /\ UNCHANGED <<list, todo, raised, current, barriers>>
    BY <1>5, ZenonT(40) DEF EmptyRequestsDone
  <2>2. TodoInv'
    BY <1>5, <2>1 DEF OpTypes, TodoInv, LoopOps
  <2>3. RaisedInv'
    BY <1>5, <2>1 DEF OpTypes, RaisedInv, RaisingOps
  <2>4. SuspendAllsUnaffected
    BY <1>5, ZenonT(40), <2>1
    DEF OpTypes, SuspendAllsUnaffected, SuspendAllTargets, SuspendAllOps,
        RequestingOps
  <2> QED
    BY ZenonT(40), <2>2, <2>3, <2>4
<1> QED
  BY ZenonT(40), <1>1, <1>2, <1>3, <1>4, <1>5 DEF EmptySteps

-----------------------------------------------------------------------------

\* FlipThreadRoots: TodoInv and RaisedInv hold on, and
\* the SuspendAlls are left alone or the step is one of SuspendAllAffected.
LEMMA FlipStepsLocals ==
  ASSUME WordTypes, OpTypes, LockTypes, StateInv, LockInv, RequestInv,
         TodoInv, RaisedInv, NEW t \in Threads, FlipSteps(t)
  PROVE  /\ TodoInv' /\ RaisedInv'
         /\ SuspendAllsUnaffected \/ SuspendAllAffected(t)
<1>1. CASE FlipThreadRoots(t)
  <2>1. /\ op[t] = "none" /\ op' = [op EXCEPT ![t] = "threadFlipBegin"]
        /\ UNCHANGED <<list, todo, raised, current, barriers>>
    BY <1>1, ZenonT(40) DEF FlipThreadRoots
  <2> QED
    BY <1>1, ZenonT(40), <2>1, QuietStep DEF IdleOps, StoppedOps
<1>2. CASE ThreadFlipBegun(t)
  <2>1. /\ op[t] = "threadFlipBegin" /\ op' = [op EXCEPT ![t] = "flipSuspendAll"]
        /\ UNCHANGED <<list, todo, raised, current, barriers>>
    BY <1>2, ZenonT(40) DEF ThreadFlipBegun
  <2> QED
    BY <1>2, ZenonT(40), <2>1, QuietStep DEF IdleOps, StoppedOps
<1>3. CASE FlipSuspendAll(t)
  <2>1. /\ op[t] = "flipSuspendAll"
        /\ op' = [op EXCEPT ![t] = "requestSuspend"]
        /\ todo' = [todo EXCEPT ![t] = list \ {t}]
        /\ UNCHANGED <<list, raised, current, barriers>>
    BY <1>3, ZenonT(40) DEF FlipSuspendAll, EnterSuspendAllInternal
  <2>2. TodoInv'
    BY ZenonT(40), <1>3, <2>1 DEF OpTypes, TodoInv, LoopOps
  <2>3. RaisedInv'
    BY <1>3, <2>1 DEF OpTypes, RaisedInv, RaisingOps
  <2> QED
    BY ZenonT(40), <1>3, <2>2, <2>3 DEF SuspendAllAffected
<1>4. CASE FlipUnlockMutator(t)
  <2>1. /\ op[t] = "allSuspended" /\ op' = [op EXCEPT ![t] = "flipResume"]
        /\ UNCHANGED <<list, todo, raised, current, barriers>>
    BY <1>4, ZenonT(40) DEF FlipUnlockMutator
  <2> QED
    BY <1>4, ZenonT(40), <2>1, QuietStep DEF IdleOps, StoppedOps
<1>5. CASE FlipResumeRunnable(t)
  <2>1. /\ op[t] = "flipResume" /\ op' = [op EXCEPT ![t] = "threadFlipEnd"]
        /\ raised' = [raised EXCEPT ![t] = list \ ({t} \union ResumedEarly(t))]
        /\ UNCHANGED <<list, todo, current, barriers>>
    BY <1>5, ZenonT(40) DEF FlipResumeRunnable, LowerSuspendCounts
  <2>2. TodoInv'
    BY ZenonT(40), <1>5, <2>1 DEF OpTypes, TodoInv, LoopOps
  <2>3. RaisedInv'
    BY <1>5, <2>1 DEF OpTypes, RaisedInv, RaisingOps
  <2> QED
    BY ZenonT(40), <1>5, <2>2, <2>3 DEF SuspendAllAffected
<1>6. CASE ThreadFlipEnd(t)
  <2>1. /\ op[t] = "threadFlipEnd"
        /\ op' = [op EXCEPT ![t] = "flipLockShared"]
        /\ UNCHANGED <<list, todo, raised, current, barriers>>
    BY <1>6, ZenonT(40) DEF ThreadFlipEnd
  <2>2. TodoInv'
    BY ZenonT(40), <1>6, <2>1 DEF OpTypes, TodoInv, LoopOps
  <2>3. RaisedInv'
    BY <1>6, <2>1 DEF OpTypes, RaisedInv, RaisingOps
  <2>4. SuspendAllsUnaffected
    BY <1>6, ZenonT(40), <2>1
    DEF OpTypes, SuspendAllsUnaffected, SuspendAllTargets, SuspendAllOps,
        RequestingOps
  <2> QED
    BY ZenonT(40), <2>2, <2>3, <2>4
<1>7. CASE FlipLockShared(t)
  <2>1. /\ op[t] = "flipLockShared" /\ op' = [op EXCEPT ![t] = "flipOthers"]
        /\ todo' = [todo EXCEPT ![t] = raised[t] \union {t}]
        /\ UNCHANGED <<list, raised, current, barriers>>
    BY <1>7, ZenonT(40) DEF FlipLockShared
  <2>2. TodoInv'
    BY ZenonT(40), <1>7, <2>1 DEF OpTypes, TodoInv, LoopOps
  <2>3. RaisedInv'
    BY <1>7, <2>1 DEF OpTypes, RaisedInv, RaisingOps
  <2>4. SuspendAllsUnaffected
    BY <1>7, ZenonT(40), <2>1
    DEF OpTypes, SuspendAllsUnaffected, SuspendAllTargets, SuspendAllOps,
        RequestingOps
  <2> QED
    BY ZenonT(40), <2>2, <2>3, <2>4
<1>8. ASSUME NEW u \in Threads, FlipOther(t, u)
      PROVE  /\ TodoInv' /\ RaisedInv'
             /\ SuspendAllsUnaffected \/ SuspendAllAffected(t)
  <2>1. /\ op[t] = "flipOthers"
        /\ todo' = [todo EXCEPT ![t] = @ \ {u}]
        /\ UNCHANGED <<op, list, raised, current, barriers>>
    BY <1>8, ZenonT(40) DEF FlipOther
  <2>2. TodoInv'
    BY ZenonT(40), <1>8, <2>1 DEF OpTypes, TodoInv, LoopOps
  <2>3. RaisedInv'
    BY ZenonT(40), <1>8, <2>1 DEF OpTypes, RaisedInv, RaisingOps
  <2>4. SuspendAllsUnaffected
    BY <1>8, ZenonT(40), <2>1
    DEF OpTypes, SuspendAllsUnaffected, SuspendAllTargets, SuspendAllOps,
        RequestingOps
  <2> QED
    BY ZenonT(40), <2>2, <2>3, <2>4
<1>9. CASE FlipUnlockShared(t)
  <2>1. /\ op[t] = "flipOthers" /\ todo[t] = {}
        /\ op' = [op EXCEPT ![t] = "flipResumeOthers"]
        /\ UNCHANGED <<list, todo, raised, current, barriers>>
    BY <1>9, ZenonT(40) DEF FlipUnlockShared
  <2>2. TodoInv'
    BY ZenonT(40), <1>9, <2>1 DEF OpTypes, TodoInv, LoopOps
  <2>3. RaisedInv'
    BY <1>9, <2>1 DEF OpTypes, RaisedInv, RaisingOps
  <2>4. SuspendAllsUnaffected
    BY <1>9, ZenonT(40), <2>1
    DEF OpTypes, SuspendAllsUnaffected, SuspendAllTargets, SuspendAllOps,
        RequestingOps
  <2> QED
    BY ZenonT(40), <2>2, <2>3, <2>4
<1>10. CASE FlipResumeOthers(t)
  <2>1. /\ op[t] = "flipResumeOthers" /\ op' = [op EXCEPT ![t] = "none"]
        /\ raised' = [raised EXCEPT ![t] = {}]
        /\ UNCHANGED <<list, todo, current, barriers>>
    BY <1>10, ZenonT(40) DEF FlipResumeOthers, LowerSuspendCounts
  <2>2. TodoInv'
    BY ZenonT(40), <1>10, <2>1 DEF OpTypes, TodoInv, LoopOps
  <2>3. RaisedInv'
    BY <1>10, <2>1 DEF OpTypes, RaisedInv, RaisingOps
  <2>4. SuspendAllsUnaffected
    BY <1>10, ZenonT(40), <2>1
    DEF OpTypes, SuspendAllsUnaffected, SuspendAllTargets, SuspendAllOps,
        RequestingOps
  <2> QED
    BY ZenonT(40), <2>2, <2>3, <2>4
<1> QED
  BY ZenonT(40), <1>1, <1>2, <1>3, <1>4, <1>5, <1>6, <1>7, <1>8, <1>9, <1>10
  DEF FlipSteps

-----------------------------------------------------------------------------

\* JNI critical sections: TodoInv and RaisedInv hold on, and
\* the SuspendAlls are left alone or the step is one of SuspendAllAffected.
LEMMA JniStepsLocals ==
  ASSUME WordTypes, OpTypes, LockTypes, StateInv, LockInv, RequestInv,
         TodoInv, RaisedInv, NEW t \in Threads, JniSteps(t)
  PROVE  /\ TodoInv' /\ RaisedInv'
         /\ SuspendAllsUnaffected \/ SuspendAllAffected(t)
<1>1. CASE EnterCritical(t)
  <2>1. /\ op[t] = "none" /\ op' = [op EXCEPT ![t] = "jniWait"]
        /\ UNCHANGED <<list, todo, raised, current, barriers>>
    BY <1>1, ZenonT(40)
    DEF EnterCritical, TransitionToSuspendedAndRunCheckpoints
  <2> QED
    BY <1>1, ZenonT(40), <2>1, QuietStep DEF IdleOps, StoppedOps
<1>2. CASE IncrementDisableThreadFlip(t)
  <2>1. /\ op[t] = "jniWait" /\ op' = [op EXCEPT ![t] = "none"]
        /\ UNCHANGED <<list, todo, raised, current, barriers>>
    BY <1>2, ZenonT(40)
    DEF IncrementDisableThreadFlip, EnterTransitionToRunnable
  <2> QED
    BY <1>2, ZenonT(40), <2>1, QuietStep DEF IdleOps, StoppedOps
<1>3. ASSUME EnterNestedCritical(t) \/ DecrementDisableThreadFlip(t)
      PROVE  /\ TodoInv' /\ RaisedInv'
             /\ SuspendAllsUnaffected \/ SuspendAllAffected(t)
  <2>1. /\ op' = op /\ todo' = todo /\ list' = list /\ current' = current
        /\ raised' = raised /\ barriers' = barriers
    BY ZenonT(40), <1>3 DEF EnterNestedCritical, DecrementDisableThreadFlip
  <2> QED
    BY ZenonT(40), <2>1
    DEF TodoInv, RaisedInv, SuspendAllsUnaffected, SuspendAllTargets
<1> QED
  BY ZenonT(40), <1>1, <1>2, <1>3 DEF JniSteps

-----------------------------------------------------------------------------

\* Every step: TodoInv and RaisedInv hold on, and
\* the SuspendAlls are left alone or the step is one of SuspendAllAffected.
LEMMA LocalsPreserved ==
  ASSUME WordTypes, OpTypes, LockTypes, StateInv, LockInv, RequestInv,
         TodoInv, RaisedInv, NEW t \in Threads, AnyStep(t)
  PROVE  /\ TodoInv' /\ RaisedInv'
         /\ SuspendAllsUnaffected \/ SuspendAllAffected(t)
  BY ZenonT(40), TransitionStepsLocals, SuspendAllStepsLocals, ByIdStepsLocals,
     AttachStepsLocals, RunCheckpointStepsLocals, SyncStepsLocals,
     EmptyStepsLocals, FlipStepsLocals, JniStepsLocals DEF AnyStep

====
