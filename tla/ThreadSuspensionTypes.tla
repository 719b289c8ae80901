----------------------- MODULE ThreadSuspensionTypes ------------------------
(***************************************************************************)
(* Every step of thread suspension keeps the types, and StateInv, OpInv    *)
(* and LockInv: where a thread is, what its word says and which locks it   *)
(* holds.                                                                  *)
(***************************************************************************)
EXTENDS ThreadSuspensionInv, TLAPS

USE DEF transitionVars, wordVars, countVars, checkpointVars, flipVars,
        passVars, threadListVars, listVars, mutatorVars, localVars, jniVars,
        ThreadListUnchanged, CheckpointsAndFlipUnchanged, Goto, Begin

-----------------------------------------------------------------------------
(***************************************************************************)
(* The states, flags, sets, locks and control points stay what they are,   *)
(* and current names a thread where an operation uses it.                  *)
(***************************************************************************)

\* The control points outside operations, of Unregister and of JNI critical
\* sections are among Ops.
LEMMA OrdinaryLabels ==
  /\ "none" \in Ops /\ "unregister" \in Ops /\ "detached" \in Ops
  /\ "jniWait" \in Ops
  BY ZenonT(40) DEF Ops

\* The control points of SuspendAll are among Ops.
LEMMA SuspendAllLabels ==
  /\ "requestSuspend" \in Ops /\ "retrySuspend" \in Ops /\ "checkSuspended" \in Ops
  /\ "waitForBarrier" \in Ops /\ "lockMutator" \in Ops /\ "allSuspended" \in Ops
  /\ "resumeAll" \in Ops /\ "flipResume" \in Ops
  BY ZenonT(40) DEF Ops, SuspendAllOps, RequestingOps

\* The control points of SuspendThreadByThreadId are among Ops.
LEMMA ByIdLabels ==
  /\ "byIdEnter" \in Ops /\ "byIdRetry" \in Ops /\ "byIdSleep" \in Ops
  /\ "byIdFound" \in Ops /\ "byIdFail" \in Ops /\ "byIdHold" \in Ops
  /\ "broadcast" \in Ops
  BY ZenonT(40) DEF Ops, ByIdOps

\* The control points of the checkpoints are among Ops.
LEMMA CheckpointLabels ==
  /\ "requestCheckpoint" \in Ops /\ "retryCheckpoint" \in Ops /\ "checkpointOthers" \in Ops
  /\ "checkpointLower" \in Ops /\ "barrierIncrement" \in Ops /\ "barrierWait" \in Ops
  /\ "syncRaise" \in Ops /\ "syncWait" \in Ops /\ "syncRun" \in Ops
  /\ "syncLower" \in Ops /\ "syncBroadcast" \in Ops /\ "emptyIncrement" \in Ops
  /\ "emptyWait" \in Ops /\ "raiseCheckpoint" \in Ops /\ "emptyRequest" \in Ops
  BY ZenonT(40) DEF Ops, CheckpointOps

\* The control points of FlipThreadRoots are among Ops.
LEMMA FlipLabels ==
  /\ "threadFlipBegin" \in Ops /\ "flipSuspendAll" \in Ops /\ "threadFlipEnd" \in Ops
  /\ "flipLockShared" \in Ops /\ "flipOthers" \in Ops /\ "flipResumeOthers" \in Ops
  BY ZenonT(40) DEF Ops, FlipOps

\* The outcome of a round of SuspendThreadByThreadId is one of its control
\* points.
LEMMA ByIdOutcomeTypes ==
  ASSUME op \in [Threads -> Ops], raised \in [Threads -> SUBSET Threads],
         NEW s \in Threads, NEW t \in Threads, NEW b, ByIdOutcome(s, t, b)
  PROVE  op' \in [Threads -> Ops] /\ raised' \in [Threads -> SUBSET Threads]
  BY SMTT(30), ByIdLabels DEF ByIdOutcome

-----------------------------------------------------------------------------

\* The state transitions of a thread: the variables that hold states, sets,
\* locks and control points keep their types.
LEMMA TransitionStepsSetTypes ==
  ASSUME WordTypes, ClosureTypes, LockTypes, OpTypes, CurrentTypes,
         NEW t \in Threads, TransitionSteps(t)
  PROVE  WordTypes' /\ ClosureTypes' /\ LockTypes' /\ OpTypes' /\ CurrentTypes'
<1>1. CASE LeaveRunnable(t) /\ ThreadListUnchanged
  BY ZenonT(40), <1>1
  DEF LeaveRunnable, TransitionToSuspendedAndRunCheckpoints, Pc, ThreadState,
      WordTypes, ClosureTypes, LockTypes, OpTypes, CurrentTypes
<1>2. CASE ReturnFromNative(t) /\ ThreadListUnchanged
  BY ZenonT(40), <1>2
  DEF ReturnFromNative, EnterTransitionToRunnable, Pc, WordTypes, ClosureTypes,
      LockTypes, OpTypes, CurrentTypes
<1>3. CASE SpuriousWakeup(t) /\ ThreadListUnchanged
  BY ZenonT(40), <1>3
  DEF SpuriousWakeup, WordTypes, ClosureTypes, LockTypes, OpTypes, CurrentTypes
<1>4. CASE RunCheckpointFunction(t) /\ ThreadListUnchanged
  BY SMTT(30), <1>4
  DEF RunCheckpointFunction, RunClosure, ThreadFlag, WordTypes, ClosureTypes,
      LockTypes, OpTypes, CurrentTypes
<1>5. CASE RunEmptyCheckpoint(t) /\ ThreadListUnchanged
  BY ZenonT(40), <1>5
  DEF RunEmptyCheckpoint, ThreadFlag, WordTypes, ClosureTypes, LockTypes,
      OpTypes, CurrentTypes
<1>6. CASE FullSuspendCheck(t) /\ ThreadListUnchanged
  BY ZenonT(40), <1>6
  DEF FullSuspendCheck, TransitionToSuspendedAndRunCheckpoints, Pc,
      ThreadState, WordTypes, ClosureTypes, LockTypes, OpTypes, CurrentTypes
<1>7. CASE LeaveRunnableToWait(t) /\ ThreadListUnchanged
  BY ZenonT(40), <1>7
  DEF LeaveRunnableToWait, TransitionToSuspendedAndRunCheckpoints, Pc,
      ThreadState, WordTypes, ClosureTypes, LockTypes, OpTypes, CurrentTypes
<1>8. CASE ReturnToRunnable(t) /\ ThreadListUnchanged
  BY ZenonT(40), <1>8
  DEF ReturnToRunnable, EnterTransitionToRunnable, Pc, WordTypes, ClosureTypes,
      LockTypes, OpTypes, CurrentTypes
<1>9. CASE ClaimSuspendBarriers(t) /\ ThreadListUnchanged
  BY ZenonT(40), <1>9
  DEF ClaimSuspendBarriers, ThreadFlag, WordTypes, ClosureTypes, LockTypes,
      OpTypes, CurrentTypes
<1>10. ASSUME NEW u \in Threads, PassSuspendBarrier(t, u), ThreadListUnchanged
      PROVE  WordTypes' /\ ClosureTypes' /\ LockTypes' /\ OpTypes' /\ CurrentTypes'
  BY ZenonT(40), <1>10
  DEF PassSuspendBarrier, WordTypes, ClosureTypes, LockTypes, OpTypes,
      CurrentTypes
<1>11. CASE FinishTransitionToSuspended(t) /\ ThreadListUnchanged
  BY ZenonT(40), <1>11
  DEF FinishTransitionToSuspended, Pc, WordTypes, ClosureTypes, LockTypes,
      OpTypes, CurrentTypes
<1>12. CASE BecomeRunnable(t) /\ ThreadListUnchanged
  BY ZenonT(40), <1>12
  DEF BecomeRunnable, Pc, ThreadState, WordTypes, ClosureTypes, LockTypes,
      OpTypes, CurrentTypes
<1>13. CASE WaitForResume(t) /\ ThreadListUnchanged
  BY ZenonT(40), <1>13
  DEF WaitForResume, Pc, WordTypes, ClosureTypes, LockTypes, OpTypes,
      CurrentTypes
<1>14. CASE ResumeCondNotified(t) /\ ThreadListUnchanged
  BY ZenonT(40), <1>14
  DEF ResumeCondNotified, Pc, WordTypes, ClosureTypes, LockTypes, OpTypes,
      CurrentTypes
<1>15. CASE RunFlipFunction(t) /\ ThreadListUnchanged
  BY ZenonT(40), <1>15
  DEF RunFlipFunction, Pc, WordTypes, ClosureTypes, LockTypes, OpTypes,
      CurrentTypes
<1> QED
  BY ZenonT(40), <1>1, <1>2, <1>3, <1>4, <1>5, <1>6, <1>7, <1>8, <1>9, <1>10,
     <1>11, <1>12, <1>13, <1>14, <1>15 DEF TransitionSteps

-----------------------------------------------------------------------------

\* SuspendAll and ResumeAll: the variables that hold states, sets,
\* locks and control points keep their types.
LEMMA SuspendAllStepsSetTypes ==
  ASSUME WordTypes, ClosureTypes, LockTypes, OpTypes, CurrentTypes,
         NEW t \in Threads, SuspendSteps(t)
  PROVE  WordTypes' /\ ClosureTypes' /\ LockTypes' /\ OpTypes' /\ CurrentTypes'
<1>1. CASE SuspendAll(t) /\ CheckpointsAndFlipUnchanged
  BY ZenonT(40), <1>1, SuspendAllLabels
  DEF SuspendAll, EnterSuspendAllInternal, WordTypes, ClosureTypes, LockTypes,
      OpTypes, CurrentTypes, NamingOps
<1>2. ASSUME NEW u \in Threads, RequestSuspend(t, u), CheckpointsAndFlipUnchanged
      PROVE  WordTypes' /\ ClosureTypes' /\ LockTypes' /\ OpTypes' /\ CurrentTypes'
  BY ZenonT(40), <1>2, SuspendAllLabels
  DEF RequestSuspend, RaiseSuspendCount, ThreadFlag, WordTypes, ClosureTypes,
      LockTypes, OpTypes, CurrentTypes, NamingOps
<1>3. ASSUME NEW u \in Threads, RequestSuspendFails(t, u), CheckpointsAndFlipUnchanged
      PROVE  WordTypes' /\ ClosureTypes' /\ LockTypes' /\ OpTypes' /\ CurrentTypes'
  BY ZenonT(40), <1>3, SuspendAllLabels
  DEF RequestSuspendFails, WordTypes, ClosureTypes, LockTypes, OpTypes,
      CurrentTypes, NamingOps
<1>4. CASE CheckSuspended(t) /\ CheckpointsAndFlipUnchanged
  <2>1. current[t] \in Threads
    BY ZenonT(40), <1>4 DEF CheckSuspended, CurrentTypes, NamingOps
  <2>2. WordTypes'
    BY SMTT(30), <1>4, <2>1
    DEF CheckSuspended, ClearSuspendBarrier, ThreadFlag, WordTypes
  <2>3. ClosureTypes' /\ LockTypes' /\ OpTypes' /\ CurrentTypes'
    BY ZenonT(40), <1>4, SuspendAllLabels
    DEF CheckSuspended, ClosureTypes, LockTypes, OpTypes, CurrentTypes,
        NamingOps
  <2> QED
    BY ZenonT(40), <2>2, <2>3
<1>5. CASE FinishRequests(t) /\ CheckpointsAndFlipUnchanged
  BY ZenonT(40), <1>5, SuspendAllLabels
  DEF FinishRequests, WordTypes, ClosureTypes, LockTypes, OpTypes,
      CurrentTypes, NamingOps
<1>6. CASE SuspendBarrierPassed(t) /\ CheckpointsAndFlipUnchanged
  BY ZenonT(40), <1>6, SuspendAllLabels
  DEF SuspendBarrierPassed, WordTypes, ClosureTypes, LockTypes, OpTypes,
      CurrentTypes, NamingOps
<1>7. CASE LockMutatorExclusive(t) /\ CheckpointsAndFlipUnchanged
  BY ZenonT(40), <1>7, SuspendAllLabels
  DEF LockMutatorExclusive, WordTypes, ClosureTypes, LockTypes, OpTypes,
      CurrentTypes, NamingOps
<1>8. CASE ResumeAll(t) /\ CheckpointsAndFlipUnchanged
  BY ZenonT(40), <1>8, SuspendAllLabels
  DEF ResumeAll, WordTypes, ClosureTypes, LockTypes, OpTypes, CurrentTypes,
      NamingOps
<1>9. CASE LowerAllAndBroadcast(t) /\ CheckpointsAndFlipUnchanged
  BY ZenonT(40), <1>9, OrdinaryLabels
  DEF LowerAllAndBroadcast, LowerSuspendCounts, BroadcastResumeCond,
      ThreadFlag, WordTypes, ClosureTypes, LockTypes, OpTypes, CurrentTypes,
      NamingOps
<1> QED
  BY ZenonT(40), <1>1, <1>2, <1>3, <1>4, <1>5, <1>6, <1>7, <1>8, <1>9
  DEF SuspendSteps

-----------------------------------------------------------------------------

\* SuspendThreadByThreadId and Resume: the variables that hold states, sets,
\* locks and control points keep their types.
LEMMA ByIdStepsSetTypes ==
  ASSUME WordTypes, ClosureTypes, LockTypes, OpTypes, CurrentTypes,
         NEW t \in Threads, ByIdSteps(t)
  PROVE  WordTypes' /\ ClosureTypes' /\ LockTypes' /\ OpTypes' /\ CurrentTypes'
<1>1. ASSUME NEW u \in Threads, SuspendThreadByThreadId(t, u), CheckpointsAndFlipUnchanged
      PROVE  WordTypes' /\ ClosureTypes' /\ LockTypes' /\ OpTypes' /\ CurrentTypes'
  BY ZenonT(40), <1>1, ByIdLabels
  DEF SuspendThreadByThreadId, WordTypes, ClosureTypes, LockTypes, OpTypes,
      CurrentTypes, NamingOps
<1>2. CASE ByIdGivesWay(t) /\ CheckpointsAndFlipUnchanged
  <2>1. WordTypes' /\ ClosureTypes' /\ LockTypes'
    BY ZenonT(40), <1>2 DEF ByIdGivesWay, WordTypes, ClosureTypes, LockTypes
  <2>2. OpTypes' /\ CurrentTypes'
    BY SMTT(30), <1>2, ByIdLabels
    DEF ByIdGivesWay, OpTypes, CurrentTypes, NamingOps
  <2> QED
    BY ZenonT(40), <2>1, <2>2
<1>3. CASE ByIdRequest(t) /\ CheckpointsAndFlipUnchanged
  <2>1. current[t] \in Threads
    BY ZenonT(40), <1>3 DEF ByIdRequest, LockTypes
  <2>2. WordTypes' /\ ClosureTypes' /\ LockTypes'
    BY ZenonT(40), <1>3, <2>1
    DEF ByIdRequest, RaiseSuspendCount, ThreadFlag, WordTypes, ClosureTypes,
        LockTypes
  <2>3. OpTypes'
    BY ZenonT(40), <1>3, <2>1, ByIdOutcomeTypes DEF ByIdRequest, OpTypes
  <2>4. CurrentTypes'
    BY ZenonT(40), <1>3, <2>1
    DEF ByIdRequest, ByIdOutcome, OpTypes, CurrentTypes
  <2> QED
    BY ZenonT(40), <2>2, <2>3, <2>4
<1>4. CASE ByIdRequestFails(t) /\ CheckpointsAndFlipUnchanged
  BY ZenonT(40), <1>4, ByIdLabels
  DEF ByIdRequestFails, WordTypes, ClosureTypes, LockTypes, OpTypes,
      CurrentTypes, NamingOps
<1>5. CASE ByIdPoll(t) /\ CheckpointsAndFlipUnchanged
  <2>1. current[t] \in Threads
    BY ZenonT(40), <1>5 DEF ByIdPoll, CurrentTypes, NamingOps
  <2>2. WordTypes' /\ ClosureTypes' /\ LockTypes'
    BY ZenonT(40), <1>5, <2>1 DEF ByIdPoll, WordTypes, ClosureTypes, LockTypes
  <2>3. OpTypes'
    BY ZenonT(40), <1>5, <2>1, ByIdOutcomeTypes DEF ByIdPoll, OpTypes
  <2>4. CurrentTypes'
    BY ZenonT(40), <1>5, <2>1 DEF ByIdPoll, ByIdOutcome, OpTypes, CurrentTypes
  <2> QED
    BY ZenonT(40), <2>2, <2>3, <2>4
<1>6. CASE ByIdTimeout(t) /\ CheckpointsAndFlipUnchanged
  BY ZenonT(40), <1>6, ByIdLabels
  DEF ByIdTimeout, LowerSuspendCounts, ThreadFlag, WordTypes, ClosureTypes,
      LockTypes, OpTypes, CurrentTypes, NamingOps
<1>7. CASE ByIdRoundEnds(t) /\ CheckpointsAndFlipUnchanged
  <2>1. WordTypes' /\ ClosureTypes' /\ LockTypes'
    BY ZenonT(40), <1>7 DEF ByIdRoundEnds, WordTypes, ClosureTypes, LockTypes
  <2>2. OpTypes' /\ CurrentTypes'
    BY SMTT(30), <1>7, OrdinaryLabels, ByIdLabels
    DEF ByIdRoundEnds, OpTypes, CurrentTypes, NamingOps
  <2> QED
    BY ZenonT(40), <2>1, <2>2
<1>8. CASE Resume(t) /\ CheckpointsAndFlipUnchanged
  BY ZenonT(40), <1>8, ByIdLabels
  DEF Resume, LowerSuspendCounts, ThreadFlag, WordTypes, ClosureTypes,
      LockTypes, OpTypes, CurrentTypes, NamingOps
<1>9. CASE ResumeBroadcasts(t) /\ CheckpointsAndFlipUnchanged
  BY ZenonT(40), <1>9, OrdinaryLabels
  DEF ResumeBroadcasts, BroadcastResumeCond, WordTypes, ClosureTypes,
      LockTypes, OpTypes, CurrentTypes, NamingOps
<1> QED
  BY ZenonT(40), <1>1, <1>2, <1>3, <1>4, <1>5, <1>6, <1>7, <1>8, <1>9
  DEF ByIdSteps

-----------------------------------------------------------------------------

\* Register and Unregister: the variables that hold states, sets,
\* locks and control points keep their types.
LEMMA AttachStepsSetTypes ==
  ASSUME WordTypes, ClosureTypes, LockTypes, OpTypes, CurrentTypes,
         NEW t \in Threads, AttachSteps(t)
  PROVE  WordTypes' /\ ClosureTypes' /\ LockTypes' /\ OpTypes' /\ CurrentTypes'
<1>1. CASE Register(t) /\ CheckpointsAndFlipUnchanged
  BY ZenonT(40), <1>1
  DEF Register, Pc, ThreadFlag, ThreadState, WordTypes, ClosureTypes,
      LockTypes, OpTypes, CurrentTypes
<1>2. CASE Unregister(t) /\ CheckpointsAndFlipUnchanged
  BY ZenonT(40), <1>2, OrdinaryLabels
  DEF Unregister, WordTypes, ClosureTypes, LockTypes, OpTypes, CurrentTypes,
      NamingOps
<1>3. CASE RemoveFromList(t) /\ CheckpointsAndFlipUnchanged
  BY ZenonT(40), <1>3, OrdinaryLabels
  DEF RemoveFromList, Pc, WordTypes, ClosureTypes, LockTypes, OpTypes,
      CurrentTypes, NamingOps
<1>4. CASE FinishUnregister(t) /\ CheckpointsAndFlipUnchanged
  BY ZenonT(40), <1>4, OrdinaryLabels
  DEF FinishUnregister, WordTypes, ClosureTypes, LockTypes, OpTypes,
      CurrentTypes, NamingOps
<1> QED
  BY ZenonT(40), <1>1, <1>2, <1>3, <1>4 DEF AttachSteps

-----------------------------------------------------------------------------

\* RunCheckpoint: the variables that hold states, sets,
\* locks and control points keep their types.
LEMMA RunCheckpointStepsSetTypes ==
  ASSUME WordTypes, ClosureTypes, LockTypes, OpTypes, CurrentTypes,
         NEW t \in Threads, RunCheckpointSteps(t)
  PROVE  WordTypes' /\ ClosureTypes' /\ LockTypes' /\ OpTypes' /\ CurrentTypes'
<1>1. CASE RunCheckpoint(t) /\ UNCHANGED jniVars
  BY ZenonT(40), <1>1, CheckpointLabels
  DEF RunCheckpoint, NewClosure, WordTypes, ClosureTypes, LockTypes, OpTypes,
      CurrentTypes, NamingOps
<1>2. ASSUME NEW u \in Threads, CheckpointRunnableThread(t, u), UNCHANGED jniVars
      PROVE  WordTypes' /\ ClosureTypes' /\ LockTypes' /\ OpTypes' /\ CurrentTypes'
  BY SMTT(30), <1>2
  DEF CheckpointRunnableThread, EnqueueCheckpoint, ThreadFlag, WordTypes,
      ClosureTypes, LockTypes, OpTypes, CurrentTypes
<1>3. ASSUME NEW u \in Threads, CheckpointSuspendedThread(t, u), UNCHANGED jniVars
      PROVE  WordTypes' /\ ClosureTypes' /\ LockTypes' /\ OpTypes' /\ CurrentTypes'
  BY ZenonT(40), <1>3, CheckpointLabels
  DEF CheckpointSuspendedThread, RaiseSuspendCount, ThreadFlag, WordTypes,
      ClosureTypes, LockTypes, OpTypes, CurrentTypes, NamingOps
<1>4. ASSUME NEW u \in Threads, CheckpointRequestFails(t, u), UNCHANGED jniVars
      PROVE  WordTypes' /\ ClosureTypes' /\ LockTypes' /\ OpTypes' /\ CurrentTypes'
  BY ZenonT(40), <1>4, CheckpointLabels
  DEF CheckpointRequestFails, WordTypes, ClosureTypes, LockTypes, OpTypes,
      CurrentTypes, NamingOps
<1>5. CASE CheckpointSelf(t) /\ UNCHANGED jniVars
  BY ZenonT(40), <1>5, CheckpointLabels
  DEF CheckpointSelf, RunClosure, WordTypes, ClosureTypes, LockTypes, OpTypes,
      CurrentTypes, NamingOps
<1>6. ASSUME NEW u \in Threads, CheckpointOther(t, u), UNCHANGED jniVars
      PROVE  WordTypes' /\ ClosureTypes' /\ LockTypes' /\ OpTypes' /\ CurrentTypes'
  BY ZenonT(40), <1>6, CheckpointLabels
  DEF CheckpointOther, RunClosure, WordTypes, ClosureTypes, LockTypes, OpTypes,
      CurrentTypes, NamingOps
<1>7. CASE CheckpointLower(t) /\ UNCHANGED jniVars
  BY ZenonT(40), <1>7, CheckpointLabels
  DEF CheckpointLower, LowerSuspendCounts, ThreadFlag, WordTypes, ClosureTypes,
      LockTypes, OpTypes, CurrentTypes, NamingOps
<1>8. CASE CheckpointBroadcast(t) /\ UNCHANGED jniVars
  BY ZenonT(40), <1>8, CheckpointLabels
  DEF CheckpointBroadcast, BroadcastResumeCond, WordTypes, ClosureTypes,
      LockTypes, OpTypes, CurrentTypes, NamingOps
<1>9. CASE BarrierIncrement(t) /\ UNCHANGED jniVars
  BY ZenonT(40), <1>9, CheckpointLabels
  DEF BarrierIncrement, WordTypes, ClosureTypes, LockTypes, OpTypes,
      CurrentTypes, NamingOps
<1>10. CASE BarrierReachesZero(t) /\ UNCHANGED jniVars
  BY ZenonT(40), <1>10, OrdinaryLabels
  DEF BarrierReachesZero, WordTypes, ClosureTypes, LockTypes, OpTypes,
      CurrentTypes, NamingOps
<1>11. ASSUME NEW u \in Threads, CheckpointTargetNotRunnable(t, u), UNCHANGED jniVars
      PROVE  WordTypes' /\ ClosureTypes' /\ LockTypes' /\ OpTypes' /\ CurrentTypes'
  BY ZenonT(40), <1>11, CheckpointLabels
  DEF CheckpointTargetNotRunnable, WordTypes, ClosureTypes, LockTypes,
      OpTypes, CurrentTypes, NamingOps
<1> QED
  BY ZenonT(40), <1>1, <1>2, <1>3, <1>4, <1>5, <1>6, <1>7, <1>8, <1>9, <1>10,
     <1>11 DEF RunCheckpointSteps

-----------------------------------------------------------------------------

\* RequestSynchronousCheckpoint: the variables that hold states, sets,
\* locks and control points keep their types.
LEMMA SyncStepsSetTypes ==
  ASSUME WordTypes, ClosureTypes, LockTypes, OpTypes, CurrentTypes,
         NEW t \in Threads, SyncSteps(t)
  PROVE  WordTypes' /\ ClosureTypes' /\ LockTypes' /\ OpTypes' /\ CurrentTypes'
<1>1. ASSUME NEW u \in Threads, RequestSynchronousCheckpoint(t, u), UNCHANGED jniVars
      PROVE  WordTypes' /\ ClosureTypes' /\ LockTypes' /\ OpTypes' /\ CurrentTypes'
  BY SMTT(30), <1>1, CheckpointLabels
  DEF RequestSynchronousCheckpoint, EnqueueCheckpoint, NewClosure, ThreadFlag,
      WordTypes, ClosureTypes, LockTypes, OpTypes, CurrentTypes, NamingOps
<1>2. ASSUME NEW u \in Threads, SyncTargetNotRunnable(t, u), UNCHANGED jniVars
      PROVE  WordTypes' /\ ClosureTypes' /\ LockTypes' /\ OpTypes' /\ CurrentTypes'
  BY ZenonT(40), <1>2, CheckpointLabels
  DEF SyncTargetNotRunnable, NewClosure, WordTypes, ClosureTypes, LockTypes,
      OpTypes, CurrentTypes, NamingOps
<1>3. CASE SyncRaise(t) /\ UNCHANGED jniVars
  BY SMTT(30), <1>3, CheckpointLabels
  DEF SyncRaise, RaiseSuspendCount, ThreadFlag, WordTypes, ClosureTypes,
      LockTypes, OpTypes, CurrentTypes, NamingOps
<1>4. CASE SyncTargetSuspended(t) /\ UNCHANGED jniVars
  BY ZenonT(40), <1>4, CheckpointLabels
  DEF SyncTargetSuspended, WordTypes, ClosureTypes, LockTypes, OpTypes,
      CurrentTypes, NamingOps
<1>5. CASE SyncRun(t) /\ UNCHANGED jniVars
  BY SMTT(30), <1>5, CheckpointLabels
  DEF SyncRun, RunClosure, WordTypes, ClosureTypes, LockTypes, OpTypes,
      CurrentTypes, NamingOps
<1>6. CASE SyncLower(t) /\ UNCHANGED jniVars
  BY ZenonT(40), <1>6, CheckpointLabels
  DEF SyncLower, LowerSuspendCounts, ThreadFlag, WordTypes, ClosureTypes,
      LockTypes, OpTypes, CurrentTypes, NamingOps
<1>7. CASE SyncBroadcast(t) /\ UNCHANGED jniVars
  BY ZenonT(40), <1>7, OrdinaryLabels
  DEF SyncBroadcast, BroadcastResumeCond, WordTypes, ClosureTypes, LockTypes,
      OpTypes, CurrentTypes, NamingOps
<1> QED
  BY ZenonT(40), <1>1, <1>2, <1>3, <1>4, <1>5, <1>6, <1>7 DEF SyncSteps

-----------------------------------------------------------------------------

\* RunEmptyCheckpoint: the variables that hold states, sets,
\* locks and control points keep their types.
LEMMA EmptyStepsSetTypes ==
  ASSUME WordTypes, ClosureTypes, LockTypes, OpTypes, CurrentTypes,
         NEW t \in Threads, EmptySteps(t)
  PROVE  WordTypes' /\ ClosureTypes' /\ LockTypes' /\ OpTypes' /\ CurrentTypes'
<1>1. CASE ThreadListRunEmptyCheckpoint(t) /\ UNCHANGED jniVars
  BY ZenonT(40), <1>1, CheckpointLabels
  DEF ThreadListRunEmptyCheckpoint, WordTypes, ClosureTypes, LockTypes,
      OpTypes, CurrentTypes, NamingOps
<1>2. CASE EmptyBarrierIncrement(t) /\ UNCHANGED jniVars
  BY ZenonT(40), <1>2, CheckpointLabels
  DEF EmptyBarrierIncrement, WordTypes, ClosureTypes, LockTypes, OpTypes,
      CurrentTypes, NamingOps
<1>3. CASE EmptyBarrierReachesZero(t) /\ UNCHANGED jniVars
  BY ZenonT(40), <1>3, OrdinaryLabels
  DEF EmptyBarrierReachesZero, WordTypes, ClosureTypes, LockTypes, OpTypes,
      CurrentTypes, NamingOps
<1>4. ASSUME NEW u \in Threads, RequestEmptyCheckpoint(t, u), UNCHANGED jniVars
      PROVE  WordTypes' /\ ClosureTypes' /\ LockTypes' /\ OpTypes' /\ CurrentTypes'
  BY ZenonT(40), <1>4
  DEF RequestEmptyCheckpoint, ThreadFlag, WordTypes, ClosureTypes, LockTypes,
      OpTypes, CurrentTypes
<1>5. ASSUME NEW u \in Threads, EmptyTargetSuspended(t, u), UNCHANGED jniVars
      PROVE  WordTypes' /\ ClosureTypes' /\ LockTypes' /\ OpTypes' /\ CurrentTypes'
  BY ZenonT(40), <1>5
  DEF EmptyTargetSuspended, WordTypes, ClosureTypes, LockTypes, OpTypes,
      CurrentTypes
<1>6. CASE EmptyRequestsDone(t) /\ UNCHANGED jniVars
  BY ZenonT(40), <1>6, CheckpointLabels
  DEF EmptyRequestsDone, WordTypes, ClosureTypes, LockTypes, OpTypes,
      CurrentTypes, NamingOps
<1> QED
  BY ZenonT(40), <1>1, <1>2, <1>3, <1>4, <1>5, <1>6 DEF EmptySteps

-----------------------------------------------------------------------------

\* FlipThreadRoots: the variables that hold states, sets,
\* locks and control points keep their types.
LEMMA FlipStepsSetTypes ==
  ASSUME WordTypes, ClosureTypes, LockTypes, OpTypes, CurrentTypes,
         NEW t \in Threads, FlipSteps(t)
  PROVE  WordTypes' /\ ClosureTypes' /\ LockTypes' /\ OpTypes' /\ CurrentTypes'
<1>1. CASE FlipThreadRoots(t)
  BY ZenonT(40), <1>1, FlipLabels
  DEF FlipThreadRoots, ThreadState, WordTypes, ClosureTypes, LockTypes,
      OpTypes, CurrentTypes, NamingOps
<1>2. CASE ThreadFlipBegun(t)
  BY ZenonT(40), <1>2, FlipLabels
  DEF ThreadFlipBegun, ThreadState, WordTypes, ClosureTypes, LockTypes,
      OpTypes, CurrentTypes, NamingOps
<1>3. CASE FlipSuspendAll(t)
  BY ZenonT(40), <1>3, SuspendAllLabels
  DEF FlipSuspendAll, EnterSuspendAllInternal, WordTypes, ClosureTypes,
      LockTypes, OpTypes, CurrentTypes, NamingOps
<1>4. CASE FlipUnlockMutator(t)
  BY ZenonT(40), <1>4, SuspendAllLabels
  DEF FlipUnlockMutator, WordTypes, ClosureTypes, LockTypes, OpTypes,
      CurrentTypes, NamingOps
<1>5. CASE FlipResumeRunnable(t)
  BY ZenonT(40), <1>5, FlipLabels
  DEF FlipResumeRunnable, LowerSuspendCounts, BroadcastResumeCond, ThreadFlag,
      WordTypes, ClosureTypes, LockTypes, OpTypes, CurrentTypes, NamingOps
<1>6. CASE ThreadFlipEnd(t)
  BY ZenonT(40), <1>6, FlipLabels
  DEF ThreadFlipEnd, WordTypes, ClosureTypes, LockTypes, OpTypes, CurrentTypes,
      NamingOps
<1>7. CASE FlipLockShared(t)
  BY ZenonT(40), <1>7, FlipLabels
  DEF FlipLockShared, WordTypes, ClosureTypes, LockTypes, OpTypes,
      CurrentTypes, NamingOps
<1>8. ASSUME NEW u \in Threads, FlipOther(t, u)
      PROVE  WordTypes' /\ ClosureTypes' /\ LockTypes' /\ OpTypes' /\ CurrentTypes'
  BY ZenonT(40), <1>8
  DEF FlipOther, WordTypes, ClosureTypes, LockTypes, OpTypes, CurrentTypes
<1>9. CASE FlipUnlockShared(t)
  BY ZenonT(40), <1>9, FlipLabels
  DEF FlipUnlockShared, WordTypes, ClosureTypes, LockTypes, OpTypes,
      CurrentTypes, NamingOps
<1>10. CASE FlipResumeOthers(t)
  BY ZenonT(40), <1>10, OrdinaryLabels
  DEF FlipResumeOthers, LowerSuspendCounts, BroadcastResumeCond, ThreadFlag,
      WordTypes, ClosureTypes, LockTypes, OpTypes, CurrentTypes, NamingOps
<1> QED
  BY ZenonT(40), <1>1, <1>2, <1>3, <1>4, <1>5, <1>6, <1>7, <1>8, <1>9, <1>10
  DEF FlipSteps

-----------------------------------------------------------------------------

\* JNI critical sections: the variables that hold states, sets,
\* locks and control points keep their types.
LEMMA JniStepsSetTypes ==
  ASSUME WordTypes, ClosureTypes, LockTypes, OpTypes, CurrentTypes,
         NEW t \in Threads, JniSteps(t)
  PROVE  WordTypes' /\ ClosureTypes' /\ LockTypes' /\ OpTypes' /\ CurrentTypes'
<1>1. CASE EnterCritical(t)
  BY ZenonT(40), <1>1, OrdinaryLabels
  DEF EnterCritical, TransitionToSuspendedAndRunCheckpoints, Pc, ThreadState,
      WordTypes, ClosureTypes, LockTypes, OpTypes, CurrentTypes, NamingOps
<1>2. CASE EnterNestedCritical(t)
  BY ZenonT(40), <1>2
  DEF EnterNestedCritical, WordTypes, ClosureTypes, LockTypes, OpTypes,
      CurrentTypes
<1>3. CASE IncrementDisableThreadFlip(t)
  BY ZenonT(40), <1>3, OrdinaryLabels
  DEF IncrementDisableThreadFlip, EnterTransitionToRunnable, Pc, WordTypes,
      ClosureTypes, LockTypes, OpTypes, CurrentTypes, NamingOps
<1>4. CASE DecrementDisableThreadFlip(t)
  BY ZenonT(40), <1>4
  DEF DecrementDisableThreadFlip, WordTypes, ClosureTypes, LockTypes, OpTypes,
      CurrentTypes
<1> QED
  BY ZenonT(40), <1>1, <1>2, <1>3, <1>4 DEF JniSteps

-----------------------------------------------------------------------------

\* Every step: the variables that hold states, sets,
\* locks and control points keep their types.
LEMMA SetTypesPreserved ==
  ASSUME WordTypes, ClosureTypes, LockTypes, OpTypes, CurrentTypes,
         NEW t \in Threads, AnyStep(t)
  PROVE  WordTypes' /\ ClosureTypes' /\ LockTypes' /\ OpTypes' /\ CurrentTypes'
  BY ZenonT(40), TransitionStepsSetTypes, SuspendAllStepsSetTypes,
     ByIdStepsSetTypes, AttachStepsSetTypes, RunCheckpointStepsSetTypes,
     SyncStepsSetTypes, EmptyStepsSetTypes, FlipStepsSetTypes, JniStepsSetTypes
  DEF AnyStep

-----------------------------------------------------------------------------
(***************************************************************************)
(* The counters stay integers; and the steps that change suspend counts or *)
(* suspend barriers.                                                       *)
(***************************************************************************)

\* ModifySuspendCount(+1) leaves integers.
LEMMA RaiseCounters ==
  ASSUME CounterTypes, NEW u \in Threads, NEW b, RaiseSuspendCount(u, b),
         pending' = pending, suspendAllCount' = suspendAllCount
  PROVE  CounterTypes'
  BY DEF CounterTypes, RaiseSuspendCount

\* So does ModifySuspendCount(-1), with or without the end of a SuspendAll.
LEMMA LowerCounters ==
  ASSUME CounterTypes, NEW S, LowerSuspendCounts(S), pending' = pending,
         \/ suspendAllCount' = suspendAllCount
         \/ suspendAllCount' = suspendAllCount - 1
  PROVE  CounterTypes'
  BY DEF CounterTypes, LowerSuspendCounts

\* The state transitions of a thread, as far as the suspend barriers are concerned.
LEMMA TransitionBarriers ==
  ASSUME WordTypes, NEW t \in Threads, TransitionSteps(t)
  PROVE  BarriersUnaffected \/ BarriersAffected(t)
<1>1. ASSUME LeaveRunnable(t), ThreadListUnchanged
      PROVE  BarriersUnaffected
  BY ZenonT(40), <1>1
  DEF LeaveRunnable, TransitionToSuspendedAndRunCheckpoints, WordTypes,
      BarriersUnaffected
<1>2. ASSUME FullSuspendCheck(t), ThreadListUnchanged
      PROVE  BarriersUnaffected
  BY ZenonT(40), <1>2
  DEF FullSuspendCheck, TransitionToSuspendedAndRunCheckpoints, WordTypes,
      BarriersUnaffected
<1>3. ASSUME LeaveRunnableToWait(t), ThreadListUnchanged
      PROVE  BarriersUnaffected
  BY ZenonT(40), <1>3
  DEF LeaveRunnableToWait, TransitionToSuspendedAndRunCheckpoints, WordTypes,
      BarriersUnaffected
<1>4. ASSUME \/ ReturnFromNative(t) \/ SpuriousWakeup(t)
             \/ RunCheckpointFunction(t) \/ RunEmptyCheckpoint(t)
             \/ ReturnToRunnable(t) \/ FinishTransitionToSuspended(t)
             \/ WaitForResume(t) \/ ResumeCondNotified(t) \/ RunFlipFunction(t),
             ThreadListUnchanged
      PROVE  BarriersUnaffected
  BY ZenonT(40), <1>4
  DEF ReturnFromNative, EnterTransitionToRunnable, SpuriousWakeup,
      RunCheckpointFunction, RunClosure, RunEmptyCheckpoint, ReturnToRunnable,
      FinishTransitionToSuspended, WaitForResume, ResumeCondNotified,
      RunFlipFunction, BarriersUnaffected
<1> QED
  BY ZenonT(40), <1>1, <1>2, <1>3, <1>4 DEF TransitionSteps, BarriersAffected

\* SuspendAll and ResumeAll, as far as the suspend barriers are concerned.
LEMMA SuspendAllBarriers ==
  ASSUME WordTypes, NEW t \in Threads, SuspendSteps(t)
  PROVE  BarriersUnaffected \/ BarriersAffected(t)
<1>1. ASSUME \/ FinishRequests(t) \/ SuspendBarrierPassed(t)
             \/ LockMutatorExclusive(t) \/ ResumeAll(t)
             \/ LowerAllAndBroadcast(t)
             \/ \E u \in Threads : RequestSuspendFails(t, u),
             CheckpointsAndFlipUnchanged
      PROVE  BarriersUnaffected
  BY ZenonT(40), <1>1
  DEF RequestSuspendFails, FinishRequests, SuspendBarrierPassed,
      LockMutatorExclusive, ResumeAll, LowerAllAndBroadcast,
      LowerSuspendCounts, BarriersUnaffected
<1> QED
  BY ZenonT(40), <1>1 DEF SuspendSteps, BarriersAffected

\* SuspendThreadByThreadId and Resume, as far as the suspend barriers are concerned.
LEMMA ByIdBarriers ==
  ASSUME WordTypes, NEW t \in Threads, ByIdSteps(t)
  PROVE  BarriersUnaffected
<1>1. ASSUME ByIdRequest(t), CheckpointsAndFlipUnchanged
      PROVE  BarriersUnaffected
  BY ZenonT(40), <1>1
  DEF ByIdRequest, RaiseSuspendCount, WordTypes, BarriersUnaffected
<1>2. ASSUME \/ ByIdGivesWay(t) \/ ByIdRequestFails(t) \/ ByIdPoll(t)
             \/ ByIdTimeout(t) \/ ByIdRoundEnds(t) \/ Resume(t)
             \/ ResumeBroadcasts(t)
             \/ \E u \in Threads : SuspendThreadByThreadId(t, u),
             CheckpointsAndFlipUnchanged
      PROVE  BarriersUnaffected
  BY ZenonT(40), <1>2
  DEF SuspendThreadByThreadId, ByIdGivesWay, ByIdRequestFails, ByIdPoll,
      ByIdTimeout, LowerSuspendCounts, ByIdRoundEnds, Resume, ResumeBroadcasts,
      BarriersUnaffected
<1> QED
  BY ZenonT(40), <1>1, <1>2 DEF ByIdSteps

\* Register and Unregister, as far as the suspend barriers are concerned.
LEMMA AttachBarriers ==
  ASSUME WordTypes, NEW t \in Threads, AttachSteps(t)
  PROVE  BarriersUnaffected
<1>1. ASSUME Register(t), CheckpointsAndFlipUnchanged
      PROVE  BarriersUnaffected
  BY ZenonT(40), <1>1 DEF Register, WordTypes, BarriersUnaffected
<1>2. ASSUME Unregister(t) \/ RemoveFromList(t) \/ FinishUnregister(t),
             CheckpointsAndFlipUnchanged
      PROVE  BarriersUnaffected
  BY ZenonT(40), <1>2
  DEF Unregister, RemoveFromList, FinishUnregister, BarriersUnaffected
<1> QED
  BY ZenonT(40), <1>1, <1>2 DEF AttachSteps

\* RunCheckpoint, as far as the suspend barriers are concerned.
LEMMA RunCheckpointBarriers ==
  ASSUME WordTypes, NEW t \in Threads, RunCheckpointSteps(t)
  PROVE  BarriersUnaffected
<1>1. ASSUME NEW u \in Threads, CheckpointSuspendedThread(t, u), UNCHANGED jniVars
      PROVE  BarriersUnaffected
  BY ZenonT(40), <1>1
  DEF CheckpointSuspendedThread, RaiseSuspendCount, WordTypes,
      BarriersUnaffected
<1>2. ASSUME \/ RunCheckpoint(t) \/ CheckpointSelf(t) \/ CheckpointLower(t)
             \/ CheckpointBroadcast(t) \/ BarrierIncrement(t)
             \/ BarrierReachesZero(t)
             \/ \E u \in Threads : \/ CheckpointRunnableThread(t, u)
                                 \/ CheckpointTargetNotRunnable(t, u)
                                 \/ CheckpointRequestFails(t, u)
                                 \/ CheckpointOther(t, u),
             UNCHANGED jniVars
      PROVE  BarriersUnaffected
  BY ZenonT(40), <1>2
  DEF RunCheckpoint, CheckpointRunnableThread, CheckpointTargetNotRunnable,
      CheckpointRequestFails, CheckpointSelf, RunClosure, CheckpointOther,
      CheckpointLower, LowerSuspendCounts, CheckpointBroadcast,
      BarrierIncrement, BarrierReachesZero, BarriersUnaffected
<1> QED
  BY ZenonT(40), <1>1, <1>2 DEF RunCheckpointSteps

\* RequestSynchronousCheckpoint, as far as the suspend barriers are concerned.
LEMMA SyncBarriers ==
  ASSUME WordTypes, NEW t \in Threads, SyncSteps(t)
  PROVE  BarriersUnaffected
<1>1. ASSUME SyncRaise(t), UNCHANGED jniVars
      PROVE  BarriersUnaffected
  BY ZenonT(40), <1>1
  DEF SyncRaise, RaiseSuspendCount, WordTypes, BarriersUnaffected
<1>2. ASSUME \/ SyncTargetSuspended(t) \/ SyncRun(t) \/ SyncLower(t)
             \/ SyncBroadcast(t)
             \/ \E u \in Threads : RequestSynchronousCheckpoint(t, u) \/ SyncTargetNotRunnable(t, u),
             UNCHANGED jniVars
      PROVE  BarriersUnaffected
  BY ZenonT(40), <1>2
  DEF RequestSynchronousCheckpoint, SyncTargetNotRunnable, SyncTargetSuspended,
      SyncRun, RunClosure, SyncLower, LowerSuspendCounts, SyncBroadcast,
      BarriersUnaffected
<1> QED
  BY ZenonT(40), <1>1, <1>2 DEF SyncSteps

\* RunEmptyCheckpoint, as far as the suspend barriers are concerned.
LEMMA EmptyBarriers ==
  ASSUME WordTypes, NEW t \in Threads, EmptySteps(t)
  PROVE  BarriersUnaffected
  BY ZenonT(40)
  DEF EmptySteps, ThreadListRunEmptyCheckpoint, RequestEmptyCheckpoint,
      EmptyTargetSuspended, EmptyRequestsDone, EmptyBarrierIncrement,
      EmptyBarrierReachesZero, BarriersUnaffected

\* FlipThreadRoots, as far as the suspend barriers are concerned.
LEMMA FlipBarriers ==
  ASSUME WordTypes, NEW t \in Threads, FlipSteps(t)
  PROVE  BarriersUnaffected \/ BarriersAffected(t)
<1>1. ASSUME FlipThreadRoots(t)
      PROVE  BarriersUnaffected
  BY ZenonT(40), <1>1 DEF FlipThreadRoots, WordTypes, BarriersUnaffected
<1>2. ASSUME ThreadFlipBegun(t)
      PROVE  BarriersUnaffected
  BY ZenonT(40), <1>2 DEF ThreadFlipBegun, WordTypes, BarriersUnaffected
<1>3. ASSUME \/ FlipUnlockMutator(t) \/ FlipResumeRunnable(t)
             \/ ThreadFlipEnd(t) \/ FlipLockShared(t) \/ FlipUnlockShared(t)
             \/ FlipResumeOthers(t)
             \/ \E u \in Threads : FlipOther(t, u)
      PROVE  BarriersUnaffected
  BY ZenonT(40), <1>3
  DEF FlipUnlockMutator, FlipResumeRunnable, LowerSuspendCounts, ThreadFlipEnd,
      FlipLockShared, FlipOther, FlipUnlockShared, FlipResumeOthers,
      BarriersUnaffected
<1> QED
  BY ZenonT(40), <1>1, <1>2, <1>3 DEF FlipSteps, BarriersAffected

\* JNI critical sections, as far as the suspend barriers are concerned.
LEMMA JniBarriers ==
  ASSUME WordTypes, NEW t \in Threads, JniSteps(t)
  PROVE  BarriersUnaffected
<1>1. ASSUME EnterCritical(t)
      PROVE  BarriersUnaffected
  BY ZenonT(40), <1>1
  DEF EnterCritical, TransitionToSuspendedAndRunCheckpoints, WordTypes,
      BarriersUnaffected
<1>2. ASSUME \/ EnterNestedCritical(t) \/ IncrementDisableThreadFlip(t)
             \/ DecrementDisableThreadFlip(t)
      PROVE  BarriersUnaffected
  BY ZenonT(40), <1>2
  DEF EnterNestedCritical, IncrementDisableThreadFlip,
      EnterTransitionToRunnable, DecrementDisableThreadFlip, BarriersUnaffected
<1> QED
  BY ZenonT(40), <1>1, <1>2 DEF JniSteps

\* Every step leaves the suspend barriers alone or is one of BarriersAffected.
LEMMA BarriersSteps ==
  ASSUME WordTypes, NEW t \in Threads, AnyStep(t)
  PROVE  BarriersUnaffected \/ BarriersAffected(t)
  BY ZenonT(40), TransitionBarriers, SuspendAllBarriers, ByIdBarriers,
     AttachBarriers, RunCheckpointBarriers, SyncBarriers, EmptyBarriers,
     FlipBarriers, JniBarriers DEF AnyStep

-----------------------------------------------------------------------------

\* The state transitions of a thread: the counters stay integers, and the
\* counts are left alone or the step is one of CountsAffected.
LEMMA TransitionStepsCounters ==
  ASSUME CounterTypes, NEW t \in Threads, TransitionSteps(t)
  PROVE  /\ CounterTypes'
         /\ CountsUnchanged \/ CountsAffected(t)
<1>1. ASSUME NEW u \in Threads, PassSuspendBarrier(t, u), ThreadListUnchanged
      PROVE  /\ CounterTypes'
             /\ CountsUnchanged \/ CountsAffected(t)
  BY <1>1 DEF PassSuspendBarrier, CounterTypes, CountsUnchanged
<1>2. ASSUME \/ LeaveRunnable(t) \/ ReturnFromNative(t) \/ SpuriousWakeup(t)
             \/ RunCheckpointFunction(t) \/ RunEmptyCheckpoint(t)
             \/ FullSuspendCheck(t) \/ LeaveRunnableToWait(t)
             \/ ReturnToRunnable(t) \/ ClaimSuspendBarriers(t)
             \/ FinishTransitionToSuspended(t) \/ BecomeRunnable(t)
             \/ WaitForResume(t) \/ ResumeCondNotified(t) \/ RunFlipFunction(t),
             ThreadListUnchanged
      PROVE  /\ CounterTypes'
             /\ CountsUnchanged \/ CountsAffected(t)
  <2>1. /\ suspendCount' = suspendCount /\ pending' = pending
        /\ suspendAllCount' = suspendAllCount /\ raised' = raised
    BY ZenonT(40), <1>2
    DEF LeaveRunnable, TransitionToSuspendedAndRunCheckpoints,
        ReturnFromNative, EnterTransitionToRunnable, SpuriousWakeup,
        RunCheckpointFunction, RunClosure, RunEmptyCheckpoint,
        FullSuspendCheck, LeaveRunnableToWait, ReturnToRunnable,
        ClaimSuspendBarriers, FinishTransitionToSuspended, BecomeRunnable,
        WaitForResume, ResumeCondNotified, RunFlipFunction
  <2> QED
    BY ZenonT(40), <2>1 DEF CounterTypes, CountsUnchanged
<1> QED
  BY ZenonT(40), <1>1, <1>2 DEF TransitionSteps

-----------------------------------------------------------------------------

\* SuspendAll and ResumeAll: the counters stay integers, and the
\* counts are left alone or the step is one of CountsAffected.
LEMMA SuspendAllStepsCounters ==
  ASSUME CounterTypes, OpTypes, LockTypes, CurrentTypes, CardinalityFacts,
         NEW t \in Threads, SuspendSteps(t)
  PROVE  /\ CounterTypes'
         /\ CountsUnchanged \/ CountsAffected(t)
<1>1. CASE SuspendAll(t) /\ CheckpointsAndFlipUnchanged
  <2>1. CounterTypes'
    BY <1>1
    DEF SuspendAll, EnterSuspendAllInternal, CounterTypes, LockTypes,
        CardinalityFacts
  <2>2. CountsAffected(t)
    BY ZenonT(40), <1>1 DEF CountsAffected
  <2> QED
    BY ZenonT(40), <2>1, <2>2
<1>2. ASSUME NEW u \in Threads, RequestSuspend(t, u), CheckpointsAndFlipUnchanged
      PROVE  /\ CounterTypes'
             /\ CountsUnchanged \/ CountsAffected(t)
  <2>1. u \in Threads
    OBVIOUS
  <2>2. /\ RaiseSuspendCount(u, t)
        /\ pending' = pending /\ suspendAllCount' = suspendAllCount
    BY <1>2, ZenonT(40) DEF RequestSuspend
  <2>3. CountsAffected(t)
    BY ZenonT(40), <1>2 DEF CountsAffected
  <2> QED
    BY ZenonT(40), <2>1, <2>2, RaiseCounters, <2>3
<1>3. CASE CheckSuspended(t) /\ CheckpointsAndFlipUnchanged
  BY <1>3
  DEF CheckSuspended, CounterTypes, CurrentTypes, NamingOps, OpTypes,
      CountsUnchanged
<1>4. CASE LowerAllAndBroadcast(t) /\ CheckpointsAndFlipUnchanged
  <2>1. /\ LowerSuspendCounts(list \ {t}) /\ pending' = pending
        /\ suspendAllCount' = suspendAllCount - 1
    BY <1>4, ZenonT(40) DEF LowerAllAndBroadcast
  <2>2. CountsAffected(t)
    BY ZenonT(40), <1>4 DEF CountsAffected
  <2> QED
    BY ZenonT(40), <2>1, LowerCounters, <2>2
<1>5. ASSUME \/ FinishRequests(t) \/ SuspendBarrierPassed(t)
             \/ LockMutatorExclusive(t) \/ ResumeAll(t)
             \/ \E u \in Threads : RequestSuspendFails(t, u),
             CheckpointsAndFlipUnchanged
      PROVE  /\ CounterTypes'
             /\ CountsUnchanged \/ CountsAffected(t)
  <2>1. /\ suspendCount' = suspendCount /\ pending' = pending
        /\ suspendAllCount' = suspendAllCount /\ raised' = raised
    BY ZenonT(40), <1>5
    DEF RequestSuspendFails, FinishRequests, SuspendBarrierPassed,
        LockMutatorExclusive, ResumeAll
  <2> QED
    BY ZenonT(40), <2>1 DEF CounterTypes, CountsUnchanged
<1> QED
  BY ZenonT(40), <1>1, <1>2, <1>3, <1>4, <1>5 DEF SuspendSteps

-----------------------------------------------------------------------------

\* SuspendThreadByThreadId and Resume: the counters stay integers, and the
\* counts are left alone or the step is one of CountsAffected.
LEMMA ByIdStepsCounters ==
  ASSUME CounterTypes, OpTypes, LockTypes, CurrentTypes, NEW t \in Threads,
         ByIdSteps(t)
  PROVE  /\ CounterTypes'
         /\ CountsUnchanged \/ CountsAffected(t)
<1>1. CASE ByIdRequest(t) /\ CheckpointsAndFlipUnchanged
  <2>1. current[t] \in Threads
    BY ZenonT(40), <1>1 DEF ByIdRequest, LockTypes
  <2>2. /\ RaiseSuspendCount(current[t], NoThread)
        /\ pending' = pending /\ suspendAllCount' = suspendAllCount
    BY <1>1, ZenonT(40) DEF ByIdRequest
  <2>3. CountsAffected(t)
    BY ZenonT(40), <1>1 DEF CountsAffected
  <2> QED
    BY ZenonT(40), <2>1, <2>2, RaiseCounters, <2>3
<1>2. CASE ByIdPoll(t) /\ CheckpointsAndFlipUnchanged
  <2>1. CounterTypes'
    BY ZenonT(40), <1>2
    DEF ByIdPoll, ByIdOutcome, CounterTypes, CurrentTypes, NamingOps, OpTypes
  <2>2. CountsAffected(t)
    BY ZenonT(40), <1>2 DEF CountsAffected
  <2> QED
    BY ZenonT(40), <2>1, <2>2
<1>3. CASE ByIdTimeout(t) /\ CheckpointsAndFlipUnchanged
  <2>1. /\ LowerSuspendCounts(raised[t]) /\ pending' = pending
        /\ suspendAllCount' = suspendAllCount
    BY <1>3, ZenonT(40) DEF ByIdTimeout
  <2>2. CountsAffected(t)
    BY ZenonT(40), <1>3 DEF CountsAffected
  <2> QED
    BY ZenonT(40), <2>1, LowerCounters, <2>2
<1>4. CASE Resume(t) /\ CheckpointsAndFlipUnchanged
  <2>1. /\ LowerSuspendCounts({current[t]}) /\ pending' = pending
        /\ suspendAllCount' = suspendAllCount
    BY <1>4, ZenonT(40) DEF Resume
  <2>2. CountsAffected(t)
    BY ZenonT(40), <1>4 DEF CountsAffected
  <2> QED
    BY ZenonT(40), <2>1, LowerCounters, <2>2
<1>5. ASSUME \/ ByIdGivesWay(t) \/ ByIdRequestFails(t) \/ ByIdRoundEnds(t)
             \/ ResumeBroadcasts(t)
             \/ \E u \in Threads : SuspendThreadByThreadId(t, u),
             CheckpointsAndFlipUnchanged
      PROVE  /\ CounterTypes'
             /\ CountsUnchanged \/ CountsAffected(t)
  <2>1. /\ suspendCount' = suspendCount /\ pending' = pending
        /\ suspendAllCount' = suspendAllCount /\ raised' = raised
    BY ZenonT(40), <1>5
    DEF SuspendThreadByThreadId, ByIdGivesWay, ByIdRequestFails, ByIdRoundEnds,
        ResumeBroadcasts
  <2> QED
    BY ZenonT(40), <2>1 DEF CounterTypes, CountsUnchanged
<1> QED
  BY ZenonT(40), <1>1, <1>2, <1>3, <1>4, <1>5 DEF ByIdSteps

-----------------------------------------------------------------------------

\* Register and Unregister: the counters stay integers, and the
\* counts are left alone or the step is one of CountsAffected.
LEMMA AttachStepsCounters ==
  ASSUME CounterTypes, NEW t \in Threads, AttachSteps(t)
  PROVE  /\ CounterTypes'
         /\ CountsUnchanged \/ CountsAffected(t)
<1>1. CASE Register(t) /\ CheckpointsAndFlipUnchanged
  <2>1. CounterTypes'
    BY ZenonT(40), <1>1 DEF Register, CounterTypes
  <2>2. CountsAffected(t)
    BY ZenonT(40), <1>1 DEF CountsAffected
  <2> QED
    BY ZenonT(40), <2>1, <2>2
<1>2. ASSUME Unregister(t) \/ RemoveFromList(t) \/ FinishUnregister(t),
             CheckpointsAndFlipUnchanged
      PROVE  /\ CounterTypes'
             /\ CountsUnchanged \/ CountsAffected(t)
  <2>1. /\ suspendCount' = suspendCount /\ pending' = pending
        /\ suspendAllCount' = suspendAllCount /\ raised' = raised
    BY ZenonT(40), <1>2 DEF Unregister, RemoveFromList, FinishUnregister
  <2> QED
    BY ZenonT(40), <2>1 DEF CounterTypes, CountsUnchanged
<1> QED
  BY ZenonT(40), <1>1, <1>2 DEF AttachSteps

-----------------------------------------------------------------------------

\* RunCheckpoint: the counters stay integers, and the
\* counts are left alone or the step is one of CountsAffected.
LEMMA RunCheckpointStepsCounters ==
  ASSUME CounterTypes, OpTypes, CurrentTypes, NEW t \in Threads,
         RunCheckpointSteps(t)
  PROVE  /\ CounterTypes'
         /\ CountsUnchanged \/ CountsAffected(t)
<1>1. ASSUME NEW u \in Threads, CheckpointSuspendedThread(t, u), UNCHANGED jniVars
      PROVE  /\ CounterTypes'
             /\ CountsUnchanged \/ CountsAffected(t)
  <2>1. u \in Threads
    OBVIOUS
  <2>2. /\ RaiseSuspendCount(u, NoThread)
        /\ pending' = pending /\ suspendAllCount' = suspendAllCount
    BY <1>1, ZenonT(40) DEF CheckpointSuspendedThread
  <2>3. CountsAffected(t)
    BY ZenonT(40), <1>1 DEF CountsAffected
  <2> QED
    BY ZenonT(40), <2>1, <2>2, RaiseCounters, <2>3
<1>2. CASE CheckpointLower(t) /\ UNCHANGED jniVars
  <2>1. /\ LowerSuspendCounts({current[t]}) /\ pending' = pending
        /\ suspendAllCount' = suspendAllCount
    BY <1>2, ZenonT(40) DEF CheckpointLower
  <2>2. CountsAffected(t)
    BY ZenonT(40), <1>2 DEF CountsAffected
  <2> QED
    BY ZenonT(40), <2>1, LowerCounters, <2>2
<1>3. ASSUME \/ RunCheckpoint(t) \/ CheckpointSelf(t) \/ CheckpointBroadcast(t)
             \/ BarrierIncrement(t) \/ BarrierReachesZero(t)
             \/ \E u \in Threads : \/ CheckpointRunnableThread(t, u)
                                 \/ CheckpointTargetNotRunnable(t, u)
                                 \/ CheckpointRequestFails(t, u)
                                 \/ CheckpointOther(t, u),
             UNCHANGED jniVars
      PROVE  /\ CounterTypes'
             /\ CountsUnchanged \/ CountsAffected(t)
  <2>1. /\ suspendCount' = suspendCount /\ pending' = pending
        /\ suspendAllCount' = suspendAllCount /\ raised' = raised
    BY ZenonT(40), <1>3
    DEF RunCheckpoint, CheckpointRunnableThread, CheckpointTargetNotRunnable,
        CheckpointRequestFails, CheckpointSelf, RunClosure, CheckpointOther,
        CheckpointBroadcast, BarrierIncrement, BarrierReachesZero
  <2> QED
    BY ZenonT(40), <2>1 DEF CounterTypes, CountsUnchanged
<1> QED
  BY ZenonT(40), <1>1, <1>2, <1>3 DEF RunCheckpointSteps

-----------------------------------------------------------------------------

\* RequestSynchronousCheckpoint: the counters stay integers, and the
\* counts are left alone or the step is one of CountsAffected.
LEMMA SyncStepsCounters ==
  ASSUME CounterTypes, OpTypes, CurrentTypes, NEW t \in Threads, SyncSteps(t)
  PROVE  /\ CounterTypes'
         /\ CountsUnchanged \/ CountsAffected(t)
<1>1. CASE SyncRaise(t) /\ UNCHANGED jniVars
  <2>1. current[t] \in Threads
    BY ZenonT(40), <1>1 DEF SyncRaise, CurrentTypes, NamingOps, OpTypes
  <2>2. /\ RaiseSuspendCount(current[t], NoThread)
        /\ pending' = pending /\ suspendAllCount' = suspendAllCount
    BY <1>1, ZenonT(40) DEF SyncRaise
  <2>3. CountsAffected(t)
    BY ZenonT(40), <1>1 DEF CountsAffected
  <2> QED
    BY ZenonT(40), <2>1, <2>2, RaiseCounters, <2>3
<1>2. CASE SyncLower(t) /\ UNCHANGED jniVars
  <2>1. /\ LowerSuspendCounts({current[t]}) /\ pending' = pending
        /\ suspendAllCount' = suspendAllCount
    BY <1>2, ZenonT(40) DEF SyncLower
  <2>2. CountsAffected(t)
    BY ZenonT(40), <1>2 DEF CountsAffected
  <2> QED
    BY ZenonT(40), <2>1, LowerCounters, <2>2
<1>3. ASSUME \/ SyncTargetSuspended(t) \/ SyncRun(t) \/ SyncBroadcast(t)
             \/ \E u \in Threads : RequestSynchronousCheckpoint(t, u) \/ SyncTargetNotRunnable(t, u),
             UNCHANGED jniVars
      PROVE  /\ CounterTypes'
             /\ CountsUnchanged \/ CountsAffected(t)
  <2>1. /\ suspendCount' = suspendCount /\ pending' = pending
        /\ suspendAllCount' = suspendAllCount /\ raised' = raised
    BY ZenonT(40), <1>3
    DEF RequestSynchronousCheckpoint, SyncTargetNotRunnable,
        SyncTargetSuspended, SyncRun, RunClosure, SyncBroadcast
  <2> QED
    BY ZenonT(40), <2>1 DEF CounterTypes, CountsUnchanged
<1> QED
  BY ZenonT(40), <1>1, <1>2, <1>3 DEF SyncSteps

-----------------------------------------------------------------------------

\* RunEmptyCheckpoint: the counters stay integers, and the
\* counts are left alone or the step is one of CountsAffected.
LEMMA EmptyStepsCounters ==
  ASSUME CounterTypes, NEW t \in Threads, EmptySteps(t)
  PROVE  /\ CounterTypes'
         /\ CountsUnchanged \/ CountsAffected(t)
<1>1. /\ suspendCount' = suspendCount /\ pending' = pending
      /\ suspendAllCount' = suspendAllCount /\ raised' = raised
  BY ZenonT(40)
  DEF EmptySteps, ThreadListRunEmptyCheckpoint, RequestEmptyCheckpoint,
      EmptyTargetSuspended, EmptyRequestsDone, EmptyBarrierIncrement,
      EmptyBarrierReachesZero
<1> QED
  BY ZenonT(40), <1>1 DEF CounterTypes, CountsUnchanged

-----------------------------------------------------------------------------

\* FlipThreadRoots: the counters stay integers, and the
\* counts are left alone or the step is one of CountsAffected.
LEMMA FlipStepsCounters ==
  ASSUME CounterTypes, LockTypes, CardinalityFacts, NEW t \in Threads,
         FlipSteps(t)
  PROVE  /\ CounterTypes'
         /\ CountsUnchanged \/ CountsAffected(t)
<1>1. CASE FlipSuspendAll(t)
  <2>1. CounterTypes'
    BY <1>1
    DEF FlipSuspendAll, EnterSuspendAllInternal, CounterTypes, LockTypes,
        CardinalityFacts
  <2>2. CountsAffected(t)
    BY ZenonT(40), <1>1 DEF CountsAffected
  <2> QED
    BY ZenonT(40), <2>1, <2>2
<1>2. CASE FlipResumeRunnable(t)
  <2>1. /\ LowerSuspendCounts(ResumedEarly(t)) /\ pending' = pending
        /\ suspendAllCount' = suspendAllCount - 1
    BY <1>2, ZenonT(40) DEF FlipResumeRunnable
  <2>2. CountsAffected(t)
    BY ZenonT(40), <1>2 DEF CountsAffected
  <2> QED
    BY ZenonT(40), <2>1, LowerCounters, <2>2
<1>3. CASE FlipResumeOthers(t)
  <2>1. /\ LowerSuspendCounts(raised[t]) /\ pending' = pending
        /\ suspendAllCount' = suspendAllCount
    BY <1>3, ZenonT(40) DEF FlipResumeOthers
  <2>2. CountsAffected(t)
    BY ZenonT(40), <1>3 DEF CountsAffected
  <2> QED
    BY ZenonT(40), <2>1, LowerCounters, <2>2
<1>4. ASSUME \/ FlipThreadRoots(t) \/ ThreadFlipBegun(t) \/ FlipUnlockMutator(t)
             \/ ThreadFlipEnd(t) \/ FlipLockShared(t) \/ FlipUnlockShared(t)
             \/ \E u \in Threads : FlipOther(t, u)
      PROVE  /\ CounterTypes'
             /\ CountsUnchanged \/ CountsAffected(t)
  <2>1. /\ suspendCount' = suspendCount /\ pending' = pending
        /\ suspendAllCount' = suspendAllCount /\ raised' = raised
    BY ZenonT(40), <1>4
    DEF FlipThreadRoots, ThreadFlipBegun, FlipUnlockMutator, ThreadFlipEnd,
        FlipLockShared, FlipOther, FlipUnlockShared
  <2> QED
    BY ZenonT(40), <2>1 DEF CounterTypes, CountsUnchanged
<1> QED
  BY ZenonT(40), <1>1, <1>2, <1>3, <1>4 DEF FlipSteps

-----------------------------------------------------------------------------

\* JNI critical sections: the counters stay integers, and the
\* counts are left alone or the step is one of CountsAffected.
LEMMA JniStepsCounters ==
  ASSUME CounterTypes, NEW t \in Threads, JniSteps(t)
  PROVE  /\ CounterTypes'
         /\ CountsUnchanged \/ CountsAffected(t)
<1>1. /\ suspendCount' = suspendCount /\ pending' = pending
      /\ suspendAllCount' = suspendAllCount /\ raised' = raised
  BY ZenonT(40)
  DEF JniSteps, EnterCritical, TransitionToSuspendedAndRunCheckpoints,
      EnterNestedCritical, IncrementDisableThreadFlip,
      EnterTransitionToRunnable, DecrementDisableThreadFlip
<1> QED
  BY ZenonT(40), <1>1 DEF CounterTypes, CountsUnchanged

-----------------------------------------------------------------------------

\* Every step: the counters stay integers, and the
\* counts are left alone or the step is one of CountsAffected.
LEMMA CounterTypesPreserved ==
  ASSUME CounterTypes, OpTypes, LockTypes, CurrentTypes, CardinalityFacts,
         NEW t \in Threads, AnyStep(t)
  PROVE  /\ CounterTypes'
         /\ CountsUnchanged \/ CountsAffected(t)
  BY ZenonT(40), TransitionStepsCounters, SuspendAllStepsCounters,
     ByIdStepsCounters, AttachStepsCounters, RunCheckpointStepsCounters,
     SyncStepsCounters, EmptyStepsCounters, FlipStepsCounters,
     JniStepsCounters DEF AnyStep

-----------------------------------------------------------------------------
(***************************************************************************)
(* Where a thread is, what its word says and which locks it holds.         *)
(***************************************************************************)

\* The state transitions of a thread: StateInv, OpInv and LockInv hold on.
LEMMA TransitionStepsStructure ==
  ASSUME WordTypes, FlipTypes, OpTypes, StateInv, OpInv, LockInv,
         NEW t \in Threads, TransitionSteps(t)
  PROVE  StateInv' /\ OpInv' /\ LockInv'
<1>1. CASE LeaveRunnable(t) /\ ThreadListUnchanged
  BY SMTT(30), <1>1
  DEF LeaveRunnable, TransitionToSuspendedAndRunCheckpoints, OrdinaryOps,
      WordTypes, OpTypes, StateInv, OpInv, LockInv, SuspendAllOps,
      RequestingOps, FlipOps
<1>2. CASE ReturnFromNative(t) /\ ThreadListUnchanged
  BY SMTT(30), <1>2
  DEF ReturnFromNative, EnterTransitionToRunnable, OrdinaryOps, WordTypes,
      OpTypes, StateInv, OpInv, LockInv, SuspendAllOps, RequestingOps, FlipOps
<1>3. CASE SpuriousWakeup(t) /\ ThreadListUnchanged
  BY ZenonT(40), <1>3
  DEF SpuriousWakeup, WordTypes, OpTypes, StateInv, OpInv, LockInv
<1>4. CASE FullSuspendCheck(t) /\ ThreadListUnchanged
  BY SMTT(30), <1>4
  DEF FullSuspendCheck, TransitionToSuspendedAndRunCheckpoints, OrdinaryOps,
      WordTypes, OpTypes, StateInv, OpInv, LockInv, SuspendAllOps,
      RequestingOps, FlipOps
<1>5. CASE LeaveRunnableToWait(t) /\ ThreadListUnchanged
  BY SMTT(30), <1>5
  DEF LeaveRunnableToWait, TransitionToSuspendedAndRunCheckpoints, LeavingOps,
      WordTypes, OpTypes, StateInv, OpInv, LockInv, SuspendAllOps,
      RequestingOps, FlipOps
<1>6. CASE ReturnToRunnable(t) /\ ThreadListUnchanged
  BY SMTT(30), <1>6
  DEF ReturnToRunnable, EnterTransitionToRunnable, OrdinaryOps, ReturningOps,
      WordTypes, OpTypes, StateInv, OpInv, LockInv, SuspendAllOps,
      RequestingOps, FlipOps
<1>7. CASE ClaimSuspendBarriers(t) /\ ThreadListUnchanged
  BY ZenonT(40), <1>7
  DEF ClaimSuspendBarriers, WordTypes, OpTypes, StateInv, OpInv, LockInv
<1>8. ASSUME NEW u \in Threads, PassSuspendBarrier(t, u), ThreadListUnchanged
      PROVE  StateInv' /\ OpInv' /\ LockInv'
  BY ZenonT(40), <1>8
  DEF PassSuspendBarrier, WordTypes, OpTypes, StateInv, OpInv, LockInv
<1>9. CASE FinishTransitionToSuspended(t) /\ ThreadListUnchanged
  BY SMTT(30), <1>9
  DEF FinishTransitionToSuspended, WordTypes, OpTypes, StateInv, OpInv,
      LockInv, SuspendAllOps, RequestingOps, FlipOps
<1>10. CASE BecomeRunnable(t) /\ ThreadListUnchanged
  BY SMTT(30), <1>10
  DEF BecomeRunnable, WordTypes, OpTypes, StateInv, OpInv, LockInv,
      SuspendAllOps, RequestingOps, FlipOps
<1>11. CASE WaitForResume(t) /\ ThreadListUnchanged
  BY SMTT(30), <1>11
  DEF WaitForResume, WordTypes, FlipTypes, OpTypes, StateInv, OpInv, LockInv,
      SuspendAllOps, RequestingOps, FlipOps
<1>12. CASE ResumeCondNotified(t) /\ ThreadListUnchanged
  BY SMTT(30), <1>12
  DEF ResumeCondNotified, WordTypes, FlipTypes, OpTypes, StateInv, OpInv,
      LockInv, SuspendAllOps, RequestingOps, FlipOps
<1>13. CASE RunFlipFunction(t) /\ ThreadListUnchanged
  BY SMTT(30), <1>13
  DEF RunFlipFunction, WordTypes, OpTypes, StateInv, OpInv, LockInv,
      SuspendAllOps, RequestingOps, FlipOps
<1>14. ASSUME RunCheckpointFunction(t) \/ RunEmptyCheckpoint(t),
             ThreadListUnchanged
      PROVE  StateInv' /\ OpInv' /\ LockInv'
  <2>1. /\ state' = state /\ pc' = pc /\ list' = list
        /\ transitioning' = transitioning /\ resumeWaiters' = resumeWaiters
        /\ claimed' = claimed /\ op' = op /\ countLock' = countLock
        /\ listLock' = listLock /\ mutatorWriter' = mutatorWriter
    BY ZenonT(40), <1>14
    DEF RunCheckpointFunction, RunClosure, RunEmptyCheckpoint
  <2> QED
    BY ZenonT(40), <2>1 DEF StateInv, OpInv, LockInv
<1> QED
  BY ZenonT(40), <1>1, <1>2, <1>3, <1>4, <1>5, <1>6, <1>7, <1>8, <1>9, <1>10,
     <1>11, <1>12, <1>13, <1>14 DEF TransitionSteps

-----------------------------------------------------------------------------

\* SuspendAll and ResumeAll: StateInv, OpInv and LockInv hold on.
LEMMA SuspendAllStepsStructure ==
  ASSUME WordTypes, FlipTypes, OpTypes, StateInv, OpInv, LockInv,
         NEW t \in Threads, SuspendSteps(t)
  PROVE  StateInv' /\ OpInv' /\ LockInv'
<1>1. CASE SuspendAll(t) /\ CheckpointsAndFlipUnchanged
  BY SMTT(30), <1>1, ThreadsAssumption
  DEF SuspendAll, EnterSuspendAllInternal, BothLocksFree, WordTypes, OpTypes,
      StateInv, OpInv, LockInv, SuspendAllOps, RequestingOps, FlipOps,
      CountLockOps, ListLockOps
<1>2. ASSUME NEW u \in Threads, RequestSuspend(t, u), CheckpointsAndFlipUnchanged
      PROVE  StateInv' /\ OpInv' /\ LockInv'
  BY SMTT(30), <1>2, ThreadsAssumption
  DEF RequestSuspend, WordTypes, OpTypes, StateInv, OpInv, LockInv,
      SuspendAllOps, RequestingOps, FlipOps, CountLockOps, ListLockOps
<1>3. ASSUME NEW u \in Threads, RequestSuspendFails(t, u), CheckpointsAndFlipUnchanged
      PROVE  StateInv' /\ OpInv' /\ LockInv'
  BY SMTT(30), <1>3, ThreadsAssumption
  DEF RequestSuspendFails, WordTypes, OpTypes, StateInv, OpInv, LockInv,
      SuspendAllOps, RequestingOps, FlipOps, CountLockOps, ListLockOps
<1>4. CASE CheckSuspended(t) /\ CheckpointsAndFlipUnchanged
  BY SMTT(30), <1>4, ThreadsAssumption
  DEF CheckSuspended, WordTypes, OpTypes, StateInv, OpInv, LockInv,
      SuspendAllOps, RequestingOps, FlipOps, CountLockOps, ListLockOps
<1>5. CASE FinishRequests(t) /\ CheckpointsAndFlipUnchanged
  BY SMTT(30), <1>5, ThreadsAssumption
  DEF FinishRequests, WordTypes, OpTypes, StateInv, OpInv, LockInv,
      SuspendAllOps, RequestingOps, FlipOps, CountLockOps, ListLockOps
<1>6. CASE SuspendBarrierPassed(t) /\ CheckpointsAndFlipUnchanged
  BY SMTT(30), <1>6, ThreadsAssumption
  DEF SuspendBarrierPassed, WordTypes, OpTypes, StateInv, OpInv, LockInv,
      SuspendAllOps, RequestingOps, FlipOps, CountLockOps, ListLockOps
<1>7. CASE LockMutatorExclusive(t) /\ CheckpointsAndFlipUnchanged
  BY SMTT(30), <1>7, ThreadsAssumption
  DEF LockMutatorExclusive, WordTypes, OpTypes, StateInv, OpInv, LockInv,
      SuspendAllOps, RequestingOps, FlipOps, CountLockOps, ListLockOps
<1>8. CASE ResumeAll(t) /\ CheckpointsAndFlipUnchanged
  BY SMTT(30), <1>8, ThreadsAssumption
  DEF ResumeAll, WordTypes, OpTypes, StateInv, OpInv, LockInv, SuspendAllOps,
      RequestingOps, FlipOps, CountLockOps, ListLockOps
<1>9. CASE LowerAllAndBroadcast(t) /\ CheckpointsAndFlipUnchanged
  BY ZenonT(40), <1>9, ThreadsAssumption
  DEF LowerAllAndBroadcast, LowerSuspendCounts, BroadcastResumeCond,
      BothLocksFree, WordTypes, OpTypes, StateInv, OpInv, LockInv,
      SuspendAllOps, RequestingOps, FlipOps, CountLockOps, ListLockOps
<1> QED
  BY ZenonT(40), <1>1, <1>2, <1>3, <1>4, <1>5, <1>6, <1>7, <1>8, <1>9
  DEF SuspendSteps

-----------------------------------------------------------------------------

\* SuspendThreadByThreadId and Resume: StateInv, OpInv and LockInv hold on.
LEMMA ByIdStepsStructure ==
  ASSUME WordTypes, FlipTypes, OpTypes, StateInv, OpInv, LockInv,
         NEW t \in Threads, ByIdSteps(t)
  PROVE  StateInv' /\ OpInv' /\ LockInv'
<1>1. ASSUME NEW u \in Threads, SuspendThreadByThreadId(t, u), CheckpointsAndFlipUnchanged
      PROVE  StateInv' /\ OpInv' /\ LockInv'
  BY SMTT(30), <1>1, ThreadsAssumption
  DEF SuspendThreadByThreadId, WordTypes, OpTypes, StateInv, OpInv, LockInv,
      SuspendAllOps, RequestingOps, FlipOps, CountLockOps, ListLockOps
<1>2. CASE ByIdGivesWay(t) /\ CheckpointsAndFlipUnchanged
  BY SMTT(30), <1>2, ThreadsAssumption
  DEF ByIdGivesWay, BothLocksFree, WordTypes, OpTypes, StateInv, OpInv,
      LockInv, SuspendAllOps, RequestingOps, FlipOps, CountLockOps, ListLockOps
<1>3. CASE ByIdRequest(t) /\ CheckpointsAndFlipUnchanged
  BY SMTT(30), <1>3, ThreadsAssumption
  DEF ByIdRequest, ByIdOutcome, BothLocksFree, WordTypes, OpTypes, StateInv,
      OpInv, LockInv, SuspendAllOps, RequestingOps, FlipOps, CountLockOps,
      ListLockOps
<1>4. CASE ByIdRequestFails(t) /\ CheckpointsAndFlipUnchanged
  BY SMTT(30), <1>4, ThreadsAssumption
  DEF ByIdRequestFails, BothLocksFree, WordTypes, OpTypes, StateInv, OpInv,
      LockInv, SuspendAllOps, RequestingOps, FlipOps, CountLockOps, ListLockOps
<1>5. CASE ByIdPoll(t) /\ CheckpointsAndFlipUnchanged
  BY SMTT(30), <1>5, ThreadsAssumption
  DEF ByIdPoll, ByIdOutcome, BothLocksFree, WordTypes, OpTypes, StateInv,
      OpInv, LockInv, SuspendAllOps, RequestingOps, FlipOps, CountLockOps,
      ListLockOps
<1>6. CASE ByIdTimeout(t) /\ CheckpointsAndFlipUnchanged
  BY SMTT(30), <1>6, ThreadsAssumption
  DEF ByIdTimeout, LowerSuspendCounts, BothLocksFree, WordTypes, OpTypes,
      StateInv, OpInv, LockInv, SuspendAllOps, RequestingOps, FlipOps,
      CountLockOps, ListLockOps
<1>7. CASE ByIdRoundEnds(t) /\ CheckpointsAndFlipUnchanged
  BY SMTT(30), <1>7, ThreadsAssumption
  DEF ByIdRoundEnds, WordTypes, OpTypes, StateInv, OpInv, LockInv,
      SuspendAllOps, RequestingOps, FlipOps, CountLockOps, ListLockOps
<1>8. CASE Resume(t) /\ CheckpointsAndFlipUnchanged
  BY ZenonT(40), <1>8, ThreadsAssumption
  DEF Resume, LowerSuspendCounts, BothLocksFree, WordTypes, OpTypes, StateInv,
      OpInv, LockInv, SuspendAllOps, RequestingOps, FlipOps, CountLockOps,
      ListLockOps
<1>9. CASE ResumeBroadcasts(t) /\ CheckpointsAndFlipUnchanged
  BY ZenonT(40), <1>9, ThreadsAssumption
  DEF ResumeBroadcasts, BroadcastResumeCond, WordTypes, OpTypes, StateInv,
      OpInv, LockInv, SuspendAllOps, RequestingOps, FlipOps, CountLockOps,
      ListLockOps
<1> QED
  BY ZenonT(40), <1>1, <1>2, <1>3, <1>4, <1>5, <1>6, <1>7, <1>8, <1>9
  DEF ByIdSteps

-----------------------------------------------------------------------------

\* Register and Unregister: StateInv, OpInv and LockInv hold on.
LEMMA AttachStepsStructure ==
  ASSUME WordTypes, FlipTypes, OpTypes, StateInv, OpInv, LockInv,
         NEW t \in Threads, AttachSteps(t)
  PROVE  StateInv' /\ OpInv' /\ LockInv'
<1>1. CASE Register(t) /\ CheckpointsAndFlipUnchanged
  BY SMTT(30), <1>1
  DEF Register, BothLocksFree, WordTypes, OpTypes, StateInv, OpInv, LockInv,
      SuspendAllOps, RequestingOps, FlipOps
<1>2. CASE Unregister(t) /\ CheckpointsAndFlipUnchanged
  BY SMTT(30), <1>2, ThreadsAssumption
  DEF Unregister, WordTypes, OpTypes, StateInv, OpInv, LockInv, SuspendAllOps,
      RequestingOps, FlipOps, CountLockOps, ListLockOps
<1>3. CASE RemoveFromList(t) /\ CheckpointsAndFlipUnchanged
  BY SMTT(30), <1>3, ThreadsAssumption
  DEF RemoveFromList, BothLocksFree, WordTypes, OpTypes, StateInv, OpInv,
      LockInv, SuspendAllOps, RequestingOps, FlipOps, CountLockOps, ListLockOps
<1>4. CASE FinishUnregister(t) /\ CheckpointsAndFlipUnchanged
  BY ZenonT(40), <1>4, ThreadsAssumption
  DEF FinishUnregister, WordTypes, OpTypes, StateInv, OpInv, LockInv,
      SuspendAllOps, RequestingOps, FlipOps, CountLockOps, ListLockOps
<1> QED
  BY ZenonT(40), <1>1, <1>2, <1>3, <1>4 DEF AttachSteps

-----------------------------------------------------------------------------

\* RunCheckpoint: StateInv, OpInv and LockInv hold on.
LEMMA RunCheckpointStepsStructure ==
  ASSUME WordTypes, FlipTypes, OpTypes, StateInv, OpInv, LockInv,
         NEW t \in Threads, RunCheckpointSteps(t)
  PROVE  StateInv' /\ OpInv' /\ LockInv'
<1>1. CASE RunCheckpoint(t) /\ UNCHANGED jniVars
  BY SMTT(30), <1>1, ThreadsAssumption
  DEF RunCheckpoint, BothLocksFree, WordTypes, OpTypes, StateInv, OpInv,
      LockInv, SuspendAllOps, RequestingOps, FlipOps, CountLockOps, ListLockOps
<1>2. ASSUME NEW u \in Threads, CheckpointSuspendedThread(t, u), UNCHANGED jniVars
      PROVE  StateInv' /\ OpInv' /\ LockInv'
  BY SMTT(30), <1>2, ThreadsAssumption
  DEF CheckpointSuspendedThread, WordTypes, OpTypes, StateInv, OpInv, LockInv,
      SuspendAllOps, RequestingOps, FlipOps, CountLockOps, ListLockOps
<1>3. ASSUME NEW u \in Threads, CheckpointRequestFails(t, u), UNCHANGED jniVars
      PROVE  StateInv' /\ OpInv' /\ LockInv'
  BY SMTT(30), <1>3, ThreadsAssumption
  DEF CheckpointRequestFails, WordTypes, OpTypes, StateInv, OpInv, LockInv,
      SuspendAllOps, RequestingOps, FlipOps, CountLockOps, ListLockOps
<1>4. CASE CheckpointSelf(t) /\ UNCHANGED jniVars
  BY SMTT(30), <1>4, ThreadsAssumption
  DEF CheckpointSelf, RunClosure, WordTypes, OpTypes, StateInv, OpInv, LockInv,
      SuspendAllOps, RequestingOps, FlipOps, CountLockOps, ListLockOps
<1>5. ASSUME NEW u \in Threads, CheckpointOther(t, u), UNCHANGED jniVars
      PROVE  StateInv' /\ OpInv' /\ LockInv'
  BY SMTT(30), <1>5, ThreadsAssumption
  DEF CheckpointOther, RunClosure, WordTypes, OpTypes, StateInv, OpInv,
      LockInv, SuspendAllOps, RequestingOps, FlipOps, CountLockOps, ListLockOps
<1>6. CASE CheckpointLower(t) /\ UNCHANGED jniVars
  BY ZenonT(40), <1>6, ThreadsAssumption
  DEF CheckpointLower, LowerSuspendCounts, WordTypes, OpTypes, StateInv, OpInv,
      LockInv, SuspendAllOps, RequestingOps, FlipOps, CountLockOps, ListLockOps
<1>7. CASE CheckpointBroadcast(t) /\ UNCHANGED jniVars
  BY ZenonT(40), <1>7, ThreadsAssumption
  DEF CheckpointBroadcast, BroadcastResumeCond, WordTypes, OpTypes, StateInv,
      OpInv, LockInv, SuspendAllOps, RequestingOps, FlipOps, CountLockOps,
      ListLockOps
<1>8. CASE BarrierIncrement(t) /\ UNCHANGED jniVars
  BY ZenonT(40), <1>8, ThreadsAssumption
  DEF BarrierIncrement, WordTypes, OpTypes, StateInv, OpInv, LockInv,
      SuspendAllOps, RequestingOps, FlipOps, CountLockOps, ListLockOps
<1>9. CASE BarrierReachesZero(t) /\ UNCHANGED jniVars
  BY ZenonT(40), <1>9, ThreadsAssumption
  DEF BarrierReachesZero, WordTypes, OpTypes, StateInv, OpInv, LockInv,
      SuspendAllOps, RequestingOps, FlipOps, CountLockOps, ListLockOps
<1>10. ASSUME \E u \in Threads : CheckpointRunnableThread(t, u),
             UNCHANGED jniVars
      PROVE  StateInv' /\ OpInv' /\ LockInv'
  <2>1. /\ state' = state /\ pc' = pc /\ list' = list
        /\ transitioning' = transitioning /\ resumeWaiters' = resumeWaiters
        /\ claimed' = claimed /\ op' = op /\ countLock' = countLock
        /\ listLock' = listLock /\ mutatorWriter' = mutatorWriter
    BY ZenonT(40), <1>10 DEF CheckpointRunnableThread
  <2> QED
    BY ZenonT(40), <2>1 DEF StateInv, OpInv, LockInv
<1>11. ASSUME NEW u \in Threads, CheckpointTargetNotRunnable(t, u), UNCHANGED jniVars
      PROVE  StateInv' /\ OpInv' /\ LockInv'
  BY SMTT(30), <1>11, ThreadsAssumption
  DEF CheckpointTargetNotRunnable, WordTypes, OpTypes, StateInv, OpInv,
      LockInv, SuspendAllOps, RequestingOps, FlipOps, CountLockOps,
      ListLockOps
<1> QED
  BY ZenonT(40), <1>1, <1>2, <1>3, <1>4, <1>5, <1>6, <1>7, <1>8, <1>9, <1>10,
     <1>11
  DEF RunCheckpointSteps

-----------------------------------------------------------------------------

\* RequestSynchronousCheckpoint: StateInv, OpInv and LockInv hold on.
LEMMA SyncStepsStructure ==
  ASSUME WordTypes, FlipTypes, OpTypes, StateInv, OpInv, LockInv,
         NEW t \in Threads, SyncSteps(t)
  PROVE  StateInv' /\ OpInv' /\ LockInv'
<1>1. ASSUME NEW u \in Threads, RequestSynchronousCheckpoint(t, u), UNCHANGED jniVars
      PROVE  StateInv' /\ OpInv' /\ LockInv'
  <2>1. StateInv' /\ OpInv'
    BY ZenonT(40), <1>1
    DEF RequestSynchronousCheckpoint, OpTypes, StateInv, OpInv, SuspendAllOps,
        RequestingOps, FlipOps
  <2>2. LockInv'
    BY ZenonT(40), <1>1, ThreadsAssumption
    DEF RequestSynchronousCheckpoint, BothLocksFree, OpTypes, LockInv,
        CountLockOps, ListLockOps
  <2> QED
    BY ZenonT(40), <2>1, <2>2
<1>2. ASSUME NEW u \in Threads, SyncTargetNotRunnable(t, u), UNCHANGED jniVars
      PROVE  StateInv' /\ OpInv' /\ LockInv'
  <2>1. StateInv' /\ OpInv'
    BY ZenonT(40), <1>2
    DEF SyncTargetNotRunnable, OpTypes, StateInv, OpInv, SuspendAllOps,
        RequestingOps, FlipOps
  <2>2. LockInv'
    BY ZenonT(40), <1>2, ThreadsAssumption
    DEF SyncTargetNotRunnable, OpTypes, LockInv, CountLockOps, ListLockOps
  <2> QED
    BY ZenonT(40), <2>1, <2>2
<1>3. CASE SyncRaise(t) /\ UNCHANGED jniVars
  <2>1. StateInv' /\ OpInv'
    BY ZenonT(40), <1>3
    DEF SyncRaise, OpTypes, StateInv, OpInv, SuspendAllOps, RequestingOps,
        FlipOps
  <2>2. LockInv'
    BY ZenonT(40), <1>3, ThreadsAssumption
    DEF SyncRaise, OpTypes, LockInv, CountLockOps, ListLockOps
  <2> QED
    BY ZenonT(40), <2>1, <2>2
<1>4. CASE SyncTargetSuspended(t) /\ UNCHANGED jniVars
  <2>1. StateInv' /\ OpInv'
    BY ZenonT(40), <1>4
    DEF SyncTargetSuspended, OpTypes, StateInv, OpInv, SuspendAllOps,
        RequestingOps, FlipOps
  <2>2. LockInv'
    BY ZenonT(40), <1>4, ThreadsAssumption
    DEF SyncTargetSuspended, OpTypes, LockInv, CountLockOps, ListLockOps
  <2> QED
    BY ZenonT(40), <2>1, <2>2
<1>5. CASE SyncRun(t) /\ UNCHANGED jniVars
  BY SMTT(30), <1>5, ThreadsAssumption
  DEF SyncRun, RunClosure, WordTypes, OpTypes, StateInv, OpInv, LockInv,
      SuspendAllOps, RequestingOps, FlipOps, CountLockOps, ListLockOps
<1>6. CASE SyncLower(t) /\ UNCHANGED jniVars
  BY SMTT(30), <1>6, ThreadsAssumption
  DEF SyncLower, LowerSuspendCounts, BothLocksFree, WordTypes, OpTypes,
      StateInv, OpInv, LockInv, SuspendAllOps, RequestingOps, FlipOps,
      CountLockOps, ListLockOps
<1>7. CASE SyncBroadcast(t) /\ UNCHANGED jniVars
  BY SMTT(30), <1>7, ThreadsAssumption
  DEF SyncBroadcast, BroadcastResumeCond, WordTypes, OpTypes, StateInv, OpInv,
      LockInv, SuspendAllOps, RequestingOps, FlipOps, CountLockOps, ListLockOps
<1> QED
  BY ZenonT(40), <1>1, <1>2, <1>3, <1>4, <1>5, <1>6, <1>7 DEF SyncSteps

-----------------------------------------------------------------------------

\* RunEmptyCheckpoint: StateInv, OpInv and LockInv hold on.
LEMMA EmptyStepsStructure ==
  ASSUME WordTypes, FlipTypes, OpTypes, StateInv, OpInv, LockInv,
         NEW t \in Threads, EmptySteps(t)
  PROVE  StateInv' /\ OpInv' /\ LockInv'
<1>1. CASE ThreadListRunEmptyCheckpoint(t) /\ UNCHANGED jniVars
  BY SMTT(30), <1>1, ThreadsAssumption
  DEF ThreadListRunEmptyCheckpoint, BothLocksFree, WordTypes, OpTypes,
      StateInv, OpInv, LockInv, SuspendAllOps, RequestingOps, FlipOps,
      CountLockOps, ListLockOps
<1>2. CASE EmptyBarrierIncrement(t) /\ UNCHANGED jniVars
  BY ZenonT(40), <1>2, ThreadsAssumption
  DEF EmptyBarrierIncrement, WordTypes, OpTypes, StateInv, OpInv, LockInv,
      SuspendAllOps, RequestingOps, FlipOps, CountLockOps, ListLockOps
<1>3. CASE EmptyBarrierReachesZero(t) /\ UNCHANGED jniVars
  BY ZenonT(40), <1>3, ThreadsAssumption
  DEF EmptyBarrierReachesZero, WordTypes, OpTypes, StateInv, OpInv, LockInv,
      SuspendAllOps, RequestingOps, FlipOps, CountLockOps, ListLockOps
<1>4. CASE EmptyRequestsDone(t) /\ UNCHANGED jniVars
  BY SMTT(30), <1>4, ThreadsAssumption
  DEF EmptyRequestsDone, WordTypes, OpTypes, StateInv, OpInv, LockInv,
      SuspendAllOps, RequestingOps, FlipOps, CountLockOps, ListLockOps
<1>5. ASSUME \E u \in Threads : \/ RequestEmptyCheckpoint(t, u)
                               \/ EmptyTargetSuspended(t, u),
             UNCHANGED jniVars
      PROVE  StateInv' /\ OpInv' /\ LockInv'
  <2>1. /\ state' = state /\ pc' = pc /\ list' = list
        /\ transitioning' = transitioning /\ resumeWaiters' = resumeWaiters
        /\ claimed' = claimed /\ op' = op /\ countLock' = countLock
        /\ listLock' = listLock /\ mutatorWriter' = mutatorWriter
    BY ZenonT(40), <1>5 DEF RequestEmptyCheckpoint, EmptyTargetSuspended
  <2> QED
    BY ZenonT(40), <2>1 DEF StateInv, OpInv, LockInv
<1> QED
  BY ZenonT(40), <1>1, <1>2, <1>3, <1>4, <1>5 DEF EmptySteps

-----------------------------------------------------------------------------

\* FlipThreadRoots: StateInv, OpInv and LockInv hold on.
LEMMA FlipStepsStructure ==
  ASSUME WordTypes, FlipTypes, OpTypes, StateInv, OpInv, LockInv,
         NEW t \in Threads, FlipSteps(t)
  PROVE  StateInv' /\ OpInv' /\ LockInv'
<1>1. CASE FlipThreadRoots(t)
  BY SMTT(30), <1>1, ThreadsAssumption
  DEF FlipThreadRoots, WordTypes, OpTypes, StateInv, OpInv, LockInv,
      SuspendAllOps, RequestingOps, FlipOps, CountLockOps, ListLockOps
<1>2. CASE ThreadFlipBegun(t)
  BY SMTT(30), <1>2, ThreadsAssumption
  DEF ThreadFlipBegun, WordTypes, OpTypes, StateInv, OpInv, LockInv,
      SuspendAllOps, RequestingOps, FlipOps, CountLockOps, ListLockOps
<1>3. CASE FlipSuspendAll(t)
  BY SMTT(30), <1>3, ThreadsAssumption
  DEF FlipSuspendAll, EnterSuspendAllInternal, BothLocksFree, WordTypes,
      OpTypes, StateInv, OpInv, LockInv, SuspendAllOps, RequestingOps, FlipOps,
      CountLockOps, ListLockOps
<1>4. CASE FlipUnlockMutator(t)
  BY SMTT(30), <1>4, ThreadsAssumption
  DEF FlipUnlockMutator, WordTypes, OpTypes, StateInv, OpInv, LockInv,
      SuspendAllOps, RequestingOps, FlipOps, CountLockOps, ListLockOps
<1>5. CASE FlipResumeRunnable(t)
  BY SMTT(30), <1>5, ThreadsAssumption
  DEF FlipResumeRunnable, LowerSuspendCounts, BroadcastResumeCond,
      BothLocksFree, WordTypes, OpTypes, StateInv, OpInv, LockInv,
      SuspendAllOps, RequestingOps, FlipOps, CountLockOps, ListLockOps
<1>6. CASE ThreadFlipEnd(t)
  BY SMTT(30), <1>6, ThreadsAssumption
  DEF ThreadFlipEnd, WordTypes, OpTypes, StateInv, OpInv, LockInv,
      SuspendAllOps, RequestingOps, FlipOps, CountLockOps, ListLockOps
<1>7. CASE FlipLockShared(t)
  BY SMTT(30), <1>7, ThreadsAssumption
  DEF FlipLockShared, WordTypes, OpTypes, StateInv, OpInv, LockInv,
      SuspendAllOps, RequestingOps, FlipOps, CountLockOps, ListLockOps
<1>8. CASE FlipUnlockShared(t)
  BY SMTT(30), <1>8, ThreadsAssumption
  DEF FlipUnlockShared, WordTypes, OpTypes, StateInv, OpInv, LockInv,
      SuspendAllOps, RequestingOps, FlipOps, CountLockOps, ListLockOps
<1>9. CASE FlipResumeOthers(t)
  BY ZenonT(40), <1>9, ThreadsAssumption
  DEF FlipResumeOthers, LowerSuspendCounts, BroadcastResumeCond, WordTypes,
      OpTypes, StateInv, OpInv, LockInv, SuspendAllOps, RequestingOps, FlipOps,
      CountLockOps, ListLockOps
<1>10. ASSUME \E u \in Threads : FlipOther(t, u)
      PROVE  StateInv' /\ OpInv' /\ LockInv'
  <2>1. /\ state' = state /\ pc' = pc /\ list' = list
        /\ transitioning' = transitioning /\ resumeWaiters' = resumeWaiters
        /\ claimed' = claimed /\ op' = op /\ countLock' = countLock
        /\ listLock' = listLock /\ mutatorWriter' = mutatorWriter
    BY ZenonT(40), <1>10 DEF FlipOther
  <2> QED
    BY ZenonT(40), <2>1 DEF StateInv, OpInv, LockInv
<1> QED
  BY ZenonT(40), <1>1, <1>2, <1>3, <1>4, <1>5, <1>6, <1>7, <1>8, <1>9, <1>10
  DEF FlipSteps

-----------------------------------------------------------------------------

\* JNI critical sections: StateInv, OpInv and LockInv hold on.
LEMMA JniStepsStructure ==
  ASSUME WordTypes, FlipTypes, OpTypes, StateInv, OpInv, LockInv,
         NEW t \in Threads, JniSteps(t)
  PROVE  StateInv' /\ OpInv' /\ LockInv'
<1>1. CASE EnterCritical(t)
  BY SMTT(30), <1>1, ThreadsAssumption
  DEF EnterCritical, TransitionToSuspendedAndRunCheckpoints, WordTypes,
      OpTypes, StateInv, OpInv, LockInv, SuspendAllOps, RequestingOps, FlipOps,
      CountLockOps, ListLockOps
<1>2. CASE IncrementDisableThreadFlip(t)
  BY SMTT(30), <1>2, ThreadsAssumption
  DEF IncrementDisableThreadFlip, EnterTransitionToRunnable, WordTypes,
      OpTypes, StateInv, OpInv, LockInv, SuspendAllOps, RequestingOps, FlipOps,
      CountLockOps, ListLockOps
<1>3. ASSUME EnterNestedCritical(t) \/ DecrementDisableThreadFlip(t)
      PROVE  StateInv' /\ OpInv' /\ LockInv'
  <2>1. /\ state' = state /\ pc' = pc /\ list' = list
        /\ transitioning' = transitioning /\ resumeWaiters' = resumeWaiters
        /\ claimed' = claimed /\ op' = op /\ countLock' = countLock
        /\ listLock' = listLock /\ mutatorWriter' = mutatorWriter
    BY ZenonT(40), <1>3 DEF EnterNestedCritical, DecrementDisableThreadFlip
  <2> QED
    BY ZenonT(40), <2>1 DEF StateInv, OpInv, LockInv
<1> QED
  BY ZenonT(40), <1>1, <1>2, <1>3 DEF JniSteps

-----------------------------------------------------------------------------

\* Every step: StateInv, OpInv and LockInv hold on.
LEMMA StructurePreserved ==
  ASSUME WordTypes, FlipTypes, OpTypes, StateInv, OpInv, LockInv,
         NEW t \in Threads, AnyStep(t)
  PROVE  StateInv' /\ OpInv' /\ LockInv'
  BY ZenonT(40), TransitionStepsStructure, SuspendAllStepsStructure,
     ByIdStepsStructure, AttachStepsStructure, RunCheckpointStepsStructure,
     SyncStepsStructure, EmptyStepsStructure, FlipStepsStructure,
     JniStepsStructure DEF AnyStep

=============================================================================
