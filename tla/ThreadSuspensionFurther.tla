---------------------- MODULE ThreadSuspensionFurther ----------------------
(***************************************************************************)
(* The steps of thread suspension preserve FurtherInv: the lemmas for its  *)
(* conjuncts, one after the other, each with a case for every operation    *)
(* that can disturb it.                                                    *)
(***************************************************************************)
EXTENDS ThreadSuspensionInv, TLAPS

USE DEF transitionVars, wordVars, countVars, checkpointVars, flipVars,
        passVars, threadListVars, listVars, mutatorVars, localVars, jniVars,
        ThreadListUnchanged, CheckpointsAndFlipUnchanged, Goto, Begin

-----------------------------------------------------------------------------
(***************************************************************************)
(* What the steps of each operation leave alone, and that only the thread  *)
(* that takes a step moves.                                                *)
(***************************************************************************)

\* SuspendAll and ResumeAll: what its steps leave alone, and where they begin
\* and end.
LEMMA SuspendFrame ==
  ASSUME OpTypes, NEW t \in Threads, SuspendSteps(t)
  PROVE  /\ UNCHANGED <<checkpointVars, flipVars, unregisteringCount, state, pc,
                       list>>
         /\ op[t] \in SuspendAllOps \union {"none"}
         /\ op'[t] \in SuspendAllOps \union {"none"}
<1>1. UNCHANGED <<checkpointVars, flipVars, unregisteringCount, state, pc,
                   list>>
  BY ZenonT(40)
  DEF SuspendSteps, SuspendAll, EnterSuspendAllInternal, CheckSuspended,
      ClearSuspendBarrier, FinishRequests, SuspendBarrierPassed,
      LockMutatorExclusive, ResumeAll, LowerAllAndBroadcast,
      LowerSuspendCounts, BroadcastResumeCond, RequestSuspend,
      RaiseSuspendCount, RequestSuspendFails
<1>2. op[t] \in SuspendAllOps \union {"none"}
  BY ZenonT(40)
  DEF SuspendSteps, SuspendAll, EnterSuspendAllInternal, CheckSuspended,
      ClearSuspendBarrier, FinishRequests, SuspendBarrierPassed,
      LockMutatorExclusive, ResumeAll, LowerAllAndBroadcast,
      LowerSuspendCounts, BroadcastResumeCond, RequestSuspend,
      RaiseSuspendCount, RequestSuspendFails, SuspendAllOps, RequestingOps
<1>3. op'[t] \in SuspendAllOps \union {"none"}
  BY ZenonT(40)
  DEF SuspendSteps, OpTypes, SuspendAll, EnterSuspendAllInternal,
      CheckSuspended, ClearSuspendBarrier, FinishRequests,
      SuspendBarrierPassed, LockMutatorExclusive, ResumeAll,
      LowerAllAndBroadcast, LowerSuspendCounts, BroadcastResumeCond,
      RequestSuspend, RaiseSuspendCount, RequestSuspendFails, SuspendAllOps,
      RequestingOps
<1> QED
  BY ZenonT(40), <1>1, <1>2, <1>3

\* SuspendThreadByThreadId and Resume: what its steps leave alone, and where
\* they begin and end.
LEMMA ByIdFrame ==
  ASSUME OpTypes, NEW t \in Threads, ByIdSteps(t)
  PROVE  /\ UNCHANGED <<checkpointVars, flipVars, passVars, state, pc, listVars,
                       mutatorVars, caller, todo>>
         /\ op[t] \in ByIdOps \union {"none"}
         /\ op'[t] \in ByIdOps \union {"none"}
<1>1. UNCHANGED <<checkpointVars, flipVars, passVars, state, pc, listVars,
                   mutatorVars, caller, todo>>
  BY ZenonT(40)
  DEF ByIdSteps, ByIdGivesWay, ByIdRequest, RaiseSuspendCount, ByIdOutcome,
      ByIdRequestFails, ByIdPoll, ByIdTimeout, LowerSuspendCounts,
      ByIdRoundEnds, Resume, ResumeBroadcasts, BroadcastResumeCond,
      SuspendThreadByThreadId
<1>2. op[t] \in ByIdOps \union {"none"}
  BY ZenonT(40)
  DEF ByIdSteps, ByIdGivesWay, ByIdRequest, RaiseSuspendCount, ByIdOutcome,
      ByIdRequestFails, ByIdPoll, ByIdTimeout, LowerSuspendCounts,
      ByIdRoundEnds, Resume, ResumeBroadcasts, BroadcastResumeCond,
      SuspendThreadByThreadId, ByIdOps
<1>3. op'[t] \in ByIdOps \union {"none"}
  BY ZenonT(40)
  DEF ByIdSteps, OpTypes, ByIdGivesWay, ByIdRequest, RaiseSuspendCount,
      ByIdOutcome, ByIdRequestFails, ByIdPoll, ByIdTimeout, LowerSuspendCounts,
      ByIdRoundEnds, Resume, ResumeBroadcasts, BroadcastResumeCond,
      SuspendThreadByThreadId, ByIdOps
<1> QED
  BY ZenonT(40), <1>1, <1>2, <1>3

\* Register and Unregister: what its steps leave alone, and where they begin
\* and end.
LEMMA AttachFrame ==
  ASSUME OpTypes, NEW t \in Threads, AttachSteps(t)
  PROVE  /\ UNCHANGED <<checkpointVars, flipVars, passVars, mutatorVars,
                       resumeWaiters, caller, todo, raised, current>>
         /\ op[t] \in {"unregister", "detached"} \union {"none"}
         /\ op'[t] \in {"unregister", "detached"} \union {"none"}
<1>1. UNCHANGED <<checkpointVars, flipVars, passVars, mutatorVars,
                   resumeWaiters, caller, todo, raised,
                   current>>
  BY ZenonT(40)
  DEF AttachSteps, Register, Unregister, RemoveFromList, FinishUnregister
<1>2. op[t] \in {"unregister", "detached"} \union {"none"}
  BY ZenonT(40)
  DEF AttachSteps, Register, Unregister, RemoveFromList, FinishUnregister
<1>3. op'[t] \in {"unregister", "detached"} \union {"none"}
  BY ZenonT(40)
  DEF AttachSteps, OpTypes, Register, Unregister, RemoveFromList,
      FinishUnregister
<1> QED
  BY ZenonT(40), <1>1, <1>2, <1>3

\* RunCheckpoint: what its steps leave alone, and where they begin and end.
LEMMA RunCheckpointFrame ==
  ASSUME OpTypes, NEW t \in Threads, RunCheckpointSteps(t)
  PROVE  /\ UNCHANGED <<state, emptyBarrier, transitioning, passVars, pc,
                       listVars, mutatorVars, caller>>
         /\ op[t] \in CountingOps \union {"barrierWait"} \union {"none"}
         /\ op'[t] \in CountingOps \union {"barrierWait"} \union {"none"}
<1>1. UNCHANGED <<state, emptyBarrier, transitioning, passVars, pc,
                   listVars, mutatorVars, caller>>
  BY ZenonT(40)
  DEF RunCheckpointSteps, RunCheckpoint, NewClosure, CheckpointSelf,
      RunClosure, CheckpointLower, LowerSuspendCounts, CheckpointBroadcast,
      BroadcastResumeCond, BarrierIncrement, BarrierReachesZero,
      CheckpointRunnableThread, EnqueueCheckpoint, CheckpointSuspendedThread,
      RaiseSuspendCount, CheckpointTargetNotRunnable, CheckpointRequestFails,
      CheckpointOther
<1>2. op[t] \in CountingOps \union {"barrierWait"} \union {"none"}
  BY ZenonT(40)
  DEF RunCheckpointSteps, RunCheckpoint, NewClosure, CheckpointSelf,
      RunClosure, CheckpointLower, LowerSuspendCounts, CheckpointBroadcast,
      BroadcastResumeCond, BarrierIncrement, BarrierReachesZero,
      CheckpointRunnableThread, EnqueueCheckpoint, CheckpointSuspendedThread,
      RaiseSuspendCount, CheckpointTargetNotRunnable, CheckpointRequestFails,
      CheckpointOther, CountingOps
<1>3. op'[t] \in CountingOps \union {"barrierWait"} \union {"none"}
  BY ZenonT(40)
  DEF RunCheckpointSteps, OpTypes, RunCheckpoint, NewClosure, CheckpointSelf,
      RunClosure, CheckpointLower, LowerSuspendCounts, CheckpointBroadcast,
      BroadcastResumeCond, BarrierIncrement, BarrierReachesZero,
      CheckpointRunnableThread, EnqueueCheckpoint, CheckpointSuspendedThread,
      RaiseSuspendCount, CheckpointTargetNotRunnable, CheckpointRequestFails,
      CheckpointOther, CountingOps
<1> QED
  BY ZenonT(40), <1>1, <1>2, <1>3

\* RequestSynchronousCheckpoint: what its steps leave alone, and where they
\* begin and end.
LEMMA SyncFrame ==
  ASSUME OpTypes, NEW t \in Threads, SyncSteps(t)
  PROVE  /\ UNCHANGED <<state, emptyBarrier, transitioning, passVars, pc,
                       listVars, mutatorVars, caller, todo>>
         /\ op[t] \in (CheckpointOps \ EmptyOps) \union {"none"}
         /\ op'[t] \in (CheckpointOps \ EmptyOps) \union {"none"}
<1>1. UNCHANGED <<state, emptyBarrier, transitioning, passVars, pc,
                   listVars, mutatorVars, caller, todo>>
  BY ZenonT(40)
  DEF SyncSteps, SyncRaise, RaiseSuspendCount, SyncTargetSuspended, SyncRun,
      RunClosure, SyncLower, LowerSuspendCounts, SyncBroadcast,
      BroadcastResumeCond, RequestSynchronousCheckpoint, EnqueueCheckpoint,
      NewClosure, SyncTargetNotRunnable
<1>2. op[t] \in (CheckpointOps \ EmptyOps) \union {"none"}
  BY ZenonT(40)
  DEF SyncSteps, SyncRaise, RaiseSuspendCount, SyncTargetSuspended, SyncRun,
      RunClosure, SyncLower, LowerSuspendCounts, SyncBroadcast,
      BroadcastResumeCond, RequestSynchronousCheckpoint, EnqueueCheckpoint,
      NewClosure, SyncTargetNotRunnable, CheckpointOps, EmptyOps
<1>3. op'[t] \in (CheckpointOps \ EmptyOps) \union {"none"}
  BY ZenonT(40)
  DEF SyncSteps, OpTypes, SyncRaise, RaiseSuspendCount, SyncTargetSuspended,
      SyncRun, RunClosure, SyncLower, LowerSuspendCounts, SyncBroadcast,
      BroadcastResumeCond, RequestSynchronousCheckpoint, EnqueueCheckpoint,
      NewClosure, SyncTargetNotRunnable, CheckpointOps, EmptyOps
<1> QED
  BY ZenonT(40), <1>1, <1>2, <1>3

\* RunEmptyCheckpoint: what its steps leave alone, and where they begin and
\* end.
LEMMA EmptyFrame ==
  ASSUME OpTypes, NEW t \in Threads, EmptySteps(t)
  PROVE  /\ UNCHANGED <<state, countVars, checkpoints, closureBarrier, ranOn,
                       flipVars, passVars, pc, resumeWaiters, listVars,
                       mutatorVars, caller, raised, current>>
         /\ op[t] \in EmptyOps \union {"none"}
         /\ op'[t] \in EmptyOps \union {"none"}
<1>1. UNCHANGED <<state, countVars, checkpoints, closureBarrier, ranOn,
                   flipVars, passVars, pc, resumeWaiters, listVars,
                   mutatorVars, caller, raised, current>>
  BY ZenonT(40)
  DEF EmptySteps, ThreadListRunEmptyCheckpoint, RequestEmptyCheckpoint,
      EmptyTargetSuspended, EmptyRequestsDone, EmptyBarrierIncrement,
      EmptyBarrierReachesZero
<1>2. op[t] \in EmptyOps \union {"none"}
  BY ZenonT(40)
  DEF EmptySteps, ThreadListRunEmptyCheckpoint, RequestEmptyCheckpoint,
      EmptyTargetSuspended, EmptyRequestsDone, EmptyBarrierIncrement,
      EmptyBarrierReachesZero, EmptyOps
<1>3. op'[t] \in EmptyOps \union {"none"}
  BY ZenonT(40)
  DEF EmptySteps, OpTypes, ThreadListRunEmptyCheckpoint,
      RequestEmptyCheckpoint, EmptyTargetSuspended, EmptyRequestsDone,
      EmptyBarrierIncrement, EmptyBarrierReachesZero, EmptyOps
<1> QED
  BY ZenonT(40), <1>1, <1>2, <1>3

\* FlipThreadRoots: what its steps leave alone, and where they begin and end.
LEMMA FlipFrame ==
  ASSUME OpTypes, NEW t \in Threads, FlipSteps(t)
  PROVE  /\ UNCHANGED <<checkpointVars, transitioning, claimed, pc, list,
                       unregisteringCount, expected,
                       disableThreadFlipCount, critical>>
         /\ op[t] \in FlipOps \union SuspendAllOps \union {"none"}
         /\ op'[t] \in FlipOps \union SuspendAllOps \union {"none"}
<1>1. UNCHANGED <<checkpointVars, transitioning, claimed, pc, list,
                   unregisteringCount, expected,
                   disableThreadFlipCount, critical>>
  BY ZenonT(40)
  DEF FlipSteps, FlipThreadRoots, ThreadFlipBegun, FlipSuspendAll,
      EnterSuspendAllInternal, FlipUnlockMutator, FlipResumeRunnable,
      LowerSuspendCounts, BroadcastResumeCond, ThreadFlipEnd, FlipLockShared,
      FlipUnlockShared, FlipResumeOthers, FlipOther
<1>2. op[t] \in FlipOps \union SuspendAllOps \union {"none"}
  BY ZenonT(40)
  DEF FlipSteps, FlipThreadRoots, ThreadFlipBegun, FlipSuspendAll,
      EnterSuspendAllInternal, FlipUnlockMutator, FlipResumeRunnable,
      LowerSuspendCounts, BroadcastResumeCond, ThreadFlipEnd, FlipLockShared,
      FlipUnlockShared, FlipResumeOthers, FlipOther, FlipOps, SuspendAllOps,
      RequestingOps
<1>3. op'[t] \in FlipOps \union SuspendAllOps \union {"none"}
  BY ZenonT(40)
  DEF FlipSteps, OpTypes, FlipThreadRoots, ThreadFlipBegun, FlipSuspendAll,
      EnterSuspendAllInternal, FlipUnlockMutator, FlipResumeRunnable,
      LowerSuspendCounts, BroadcastResumeCond, ThreadFlipEnd, FlipLockShared,
      FlipUnlockShared, FlipResumeOthers, FlipOther, FlipOps, SuspendAllOps,
      RequestingOps
<1> QED
  BY ZenonT(40), <1>1, <1>2, <1>3

\* JNI critical sections: what its steps leave alone, and where they begin and
\* end.
LEMMA JniFrame ==
  ASSUME OpTypes, NEW t \in Threads, JniSteps(t)
  PROVE  /\ UNCHANGED <<flags, countVars, checkpointVars, flipVars, passVars,
                       countLock, resumeWaiters, listVars, listLock,
                       mutatorVars, caller, todo, raised, current,
                       expected>>
         /\ op[t] \in {"jniWait"} \union {"none"}
         /\ op'[t] \in {"jniWait"} \union {"none"}
<1>1. UNCHANGED <<flags, countVars, checkpointVars, flipVars, passVars,
                   countLock, resumeWaiters, listVars,
                   listLock, mutatorVars, caller, todo,
                   raised, current, expected>>
  BY ZenonT(40)
  DEF JniSteps, EnterCritical, TransitionToSuspendedAndRunCheckpoints,
      EnterNestedCritical, IncrementDisableThreadFlip,
      EnterTransitionToRunnable, DecrementDisableThreadFlip
<1>2. op[t] \in {"jniWait"} \union {"none"}
  BY ZenonT(40)
  DEF JniSteps, EnterCritical, TransitionToSuspendedAndRunCheckpoints,
      EnterNestedCritical, IncrementDisableThreadFlip,
      EnterTransitionToRunnable, DecrementDisableThreadFlip
<1>3. op'[t] \in {"jniWait"} \union {"none"}
  BY ZenonT(40)
  DEF JniSteps, OpTypes, EnterCritical, TransitionToSuspendedAndRunCheckpoints,
      EnterNestedCritical, IncrementDisableThreadFlip,
      EnterTransitionToRunnable, DecrementDisableThreadFlip
<1> QED
  BY ZenonT(40), <1>1, <1>2, <1>3

\* The state transitions of a thread: a step of one thread does not move the
\* others.
LEMMA TransitionAlone ==
  ASSUME WordTypes, OpTypes, RestTypes, NEW t \in Threads, TransitionSteps(t)
  PROVE  Alone(t)
<1>1. UNCHANGED <<op, caller, todo, raised, current, expected, critical>>
  BY ZenonT(40)
  DEF TransitionSteps, LeaveRunnable, ReturnFromNative, SpuriousWakeup,
      RunCheckpointFunction, RunClosure, RunEmptyCheckpoint, FullSuspendCheck,
      LeaveRunnableToWait, ReturnToRunnable, ClaimSuspendBarriers,
      FinishTransitionToSuspended, BecomeRunnable, WaitForResume,
      ResumeCondNotified, RunFlipFunction, PassSuspendBarrier,
      TransitionToSuspendedAndRunCheckpoints, EnterTransitionToRunnable
<1>2. \A s \in Threads \ {t} : state'[s] = state[s]
  BY ZenonT(40)
  DEF TransitionSteps, LeaveRunnable, ReturnFromNative, SpuriousWakeup,
      RunCheckpointFunction, RunClosure, RunEmptyCheckpoint, FullSuspendCheck,
      LeaveRunnableToWait, ReturnToRunnable, ClaimSuspendBarriers,
      FinishTransitionToSuspended, BecomeRunnable, WaitForResume,
      ResumeCondNotified, RunFlipFunction, PassSuspendBarrier,
      TransitionToSuspendedAndRunCheckpoints, EnterTransitionToRunnable,
      WordTypes
<1>3. \A s \in Threads \ {t} : pc'[s] = pc[s]
  BY ZenonT(40)
  DEF TransitionSteps, LeaveRunnable, ReturnFromNative, SpuriousWakeup,
      RunCheckpointFunction, RunClosure, RunEmptyCheckpoint, FullSuspendCheck,
      LeaveRunnableToWait, ReturnToRunnable, ClaimSuspendBarriers,
      FinishTransitionToSuspended, BecomeRunnable, WaitForResume,
      ResumeCondNotified, RunFlipFunction, PassSuspendBarrier,
      TransitionToSuspendedAndRunCheckpoints, EnterTransitionToRunnable,
      WordTypes
<1> QED
  BY ZenonT(40), <1>1, <1>2, <1>3 DEF Alone

\* SuspendAll and ResumeAll: a step of one thread does not move the others.
LEMMA SuspendAlone ==
  ASSUME WordTypes, OpTypes, RestTypes, NEW t \in Threads, SuspendSteps(t)
  PROVE  Alone(t)
<1>1. UNCHANGED <<state, pc, raised, expected, critical>>
  BY ZenonT(40)
  DEF SuspendSteps, SuspendAll, EnterSuspendAllInternal, CheckSuspended,
      ClearSuspendBarrier, FinishRequests, SuspendBarrierPassed,
      LockMutatorExclusive, ResumeAll, LowerAllAndBroadcast,
      LowerSuspendCounts, BroadcastResumeCond, RequestSuspend,
      RaiseSuspendCount, RequestSuspendFails
<1>2. \A s \in Threads \ {t} : op'[s] = op[s]
  BY ZenonT(40)
  DEF SuspendSteps, SuspendAll, EnterSuspendAllInternal, CheckSuspended,
      ClearSuspendBarrier, FinishRequests, SuspendBarrierPassed,
      LockMutatorExclusive, ResumeAll, LowerAllAndBroadcast,
      LowerSuspendCounts, BroadcastResumeCond, RequestSuspend,
      RaiseSuspendCount, RequestSuspendFails, OpTypes
<1>3. \A s \in Threads \ {t} : caller'[s] = caller[s]
  BY ZenonT(40)
  DEF SuspendSteps, SuspendAll, EnterSuspendAllInternal, CheckSuspended,
      ClearSuspendBarrier, FinishRequests, SuspendBarrierPassed,
      LockMutatorExclusive, ResumeAll, LowerAllAndBroadcast,
      LowerSuspendCounts, BroadcastResumeCond, RequestSuspend,
      RaiseSuspendCount, RequestSuspendFails, OpTypes
<1>4. \A s \in Threads \ {t} : todo'[s] = todo[s]
  BY ZenonT(40)
  DEF SuspendSteps, SuspendAll, EnterSuspendAllInternal, CheckSuspended,
      ClearSuspendBarrier, FinishRequests, SuspendBarrierPassed,
      LockMutatorExclusive, ResumeAll, LowerAllAndBroadcast,
      LowerSuspendCounts, BroadcastResumeCond, RequestSuspend,
      RaiseSuspendCount, RequestSuspendFails, OpTypes
<1>5. \A s \in Threads \ {t} : current'[s] = current[s]
  BY ZenonT(40)
  DEF SuspendSteps, SuspendAll, EnterSuspendAllInternal, CheckSuspended,
      ClearSuspendBarrier, FinishRequests, SuspendBarrierPassed,
      LockMutatorExclusive, ResumeAll, LowerAllAndBroadcast,
      LowerSuspendCounts, BroadcastResumeCond, RequestSuspend,
      RaiseSuspendCount, RequestSuspendFails, OpTypes
<1> QED
  BY ZenonT(40), <1>1, <1>2, <1>3, <1>4, <1>5 DEF Alone

\* SuspendThreadByThreadId and Resume: a step of one thread does not move the
\* others.
LEMMA ByIdAlone ==
  ASSUME WordTypes, OpTypes, RestTypes, NEW t \in Threads, ByIdSteps(t)
  PROVE  Alone(t)
<1>1. UNCHANGED <<state, pc, caller, todo, expected, critical>>
  BY ZenonT(40)
  DEF ByIdSteps, ByIdGivesWay, ByIdRequest, RaiseSuspendCount, ByIdOutcome,
      ByIdRequestFails, ByIdPoll, ByIdTimeout, LowerSuspendCounts,
      ByIdRoundEnds, Resume, ResumeBroadcasts, BroadcastResumeCond,
      SuspendThreadByThreadId
<1>2. \A s \in Threads \ {t} : op'[s] = op[s]
  BY ZenonT(40)
  DEF ByIdSteps, ByIdGivesWay, ByIdRequest, RaiseSuspendCount, ByIdOutcome,
      ByIdRequestFails, ByIdPoll, ByIdTimeout, LowerSuspendCounts,
      ByIdRoundEnds, Resume, ResumeBroadcasts, BroadcastResumeCond,
      SuspendThreadByThreadId, OpTypes
<1>3. \A s \in Threads \ {t} : raised'[s] = raised[s]
  BY ZenonT(40)
  DEF ByIdSteps, ByIdGivesWay, ByIdRequest, RaiseSuspendCount, ByIdOutcome,
      ByIdRequestFails, ByIdPoll, ByIdTimeout, LowerSuspendCounts,
      ByIdRoundEnds, Resume, ResumeBroadcasts, BroadcastResumeCond,
      SuspendThreadByThreadId, OpTypes
<1>4. \A s \in Threads \ {t} : current'[s] = current[s]
  BY ZenonT(40)
  DEF ByIdSteps, ByIdGivesWay, ByIdRequest, RaiseSuspendCount, ByIdOutcome,
      ByIdRequestFails, ByIdPoll, ByIdTimeout, LowerSuspendCounts,
      ByIdRoundEnds, Resume, ResumeBroadcasts, BroadcastResumeCond,
      SuspendThreadByThreadId, OpTypes
<1> QED
  BY ZenonT(40), <1>1, <1>2, <1>3, <1>4 DEF Alone

\* Register and Unregister: a step of one thread does not move the others.
LEMMA AttachAlone ==
  ASSUME WordTypes, OpTypes, RestTypes, NEW t \in Threads, AttachSteps(t)
  PROVE  Alone(t)
<1>1. UNCHANGED <<caller, todo, raised, current, expected, critical>>
  BY ZenonT(40)
  DEF AttachSteps, Register, Unregister, RemoveFromList, FinishUnregister
<1>2. \A s \in Threads \ {t} : state'[s] = state[s]
  BY ZenonT(40)
  DEF AttachSteps, Register, Unregister, RemoveFromList, FinishUnregister,
      WordTypes
<1>3. \A s \in Threads \ {t} : pc'[s] = pc[s]
  BY ZenonT(40)
  DEF AttachSteps, Register, Unregister, RemoveFromList, FinishUnregister,
      WordTypes
<1>4. \A s \in Threads \ {t} : op'[s] = op[s]
  BY ZenonT(40)
  DEF AttachSteps, Register, Unregister, RemoveFromList, FinishUnregister,
      OpTypes
<1> QED
  BY ZenonT(40), <1>1, <1>2, <1>3, <1>4 DEF Alone

\* RunCheckpoint: a step of one thread does not move the others.
LEMMA RunCheckpointAlone ==
  ASSUME WordTypes, OpTypes, RestTypes, NEW t \in Threads, RunCheckpointSteps(t)
  PROVE  Alone(t)
<1>1. UNCHANGED <<state, pc, caller, critical>>
  BY ZenonT(40)
  DEF RunCheckpointSteps, RunCheckpoint, NewClosure, CheckpointSelf,
      RunClosure, CheckpointLower, LowerSuspendCounts, CheckpointBroadcast,
      BroadcastResumeCond, BarrierIncrement, BarrierReachesZero,
      CheckpointRunnableThread, EnqueueCheckpoint, CheckpointSuspendedThread,
      RaiseSuspendCount, CheckpointTargetNotRunnable, CheckpointRequestFails,
      CheckpointOther
<1>2. \A s \in Threads \ {t} : op'[s] = op[s]
  BY ZenonT(40)
  DEF RunCheckpointSteps, RunCheckpoint, NewClosure, CheckpointSelf,
      RunClosure, CheckpointLower, LowerSuspendCounts, CheckpointBroadcast,
      BroadcastResumeCond, BarrierIncrement, BarrierReachesZero,
      CheckpointRunnableThread, EnqueueCheckpoint, CheckpointSuspendedThread,
      RaiseSuspendCount, CheckpointTargetNotRunnable, CheckpointRequestFails,
      CheckpointOther, OpTypes
<1>3. \A s \in Threads \ {t} : todo'[s] = todo[s]
  BY ZenonT(40)
  DEF RunCheckpointSteps, RunCheckpoint, NewClosure, CheckpointSelf,
      RunClosure, CheckpointLower, LowerSuspendCounts, CheckpointBroadcast,
      BroadcastResumeCond, BarrierIncrement, BarrierReachesZero,
      CheckpointRunnableThread, EnqueueCheckpoint, CheckpointSuspendedThread,
      RaiseSuspendCount, CheckpointTargetNotRunnable, CheckpointRequestFails,
      CheckpointOther, OpTypes
<1>4. \A s \in Threads \ {t} : raised'[s] = raised[s]
  BY ZenonT(40)
  DEF RunCheckpointSteps, RunCheckpoint, NewClosure, CheckpointSelf,
      RunClosure, CheckpointLower, LowerSuspendCounts, CheckpointBroadcast,
      BroadcastResumeCond, BarrierIncrement, BarrierReachesZero,
      CheckpointRunnableThread, EnqueueCheckpoint, CheckpointSuspendedThread,
      RaiseSuspendCount, CheckpointTargetNotRunnable, CheckpointRequestFails,
      CheckpointOther, OpTypes
<1>5. \A s \in Threads \ {t} : current'[s] = current[s]
  BY ZenonT(40)
  DEF RunCheckpointSteps, RunCheckpoint, NewClosure, CheckpointSelf,
      RunClosure, CheckpointLower, LowerSuspendCounts, CheckpointBroadcast,
      BroadcastResumeCond, BarrierIncrement, BarrierReachesZero,
      CheckpointRunnableThread, EnqueueCheckpoint, CheckpointSuspendedThread,
      RaiseSuspendCount, CheckpointTargetNotRunnable, CheckpointRequestFails,
      CheckpointOther, OpTypes
<1>6. \A s \in Threads \ {t} : expected'[s] = expected[s]
  BY ZenonT(40)
  DEF RunCheckpointSteps, RunCheckpoint, NewClosure, CheckpointSelf,
      RunClosure, CheckpointLower, LowerSuspendCounts, CheckpointBroadcast,
      BroadcastResumeCond, BarrierIncrement, BarrierReachesZero,
      CheckpointRunnableThread, EnqueueCheckpoint, CheckpointSuspendedThread,
      RaiseSuspendCount, CheckpointTargetNotRunnable, CheckpointRequestFails,
      CheckpointOther, RestTypes
<1> QED
  BY ZenonT(40), <1>1, <1>2, <1>3, <1>4, <1>5, <1>6 DEF Alone

\* RequestSynchronousCheckpoint: a step of one thread does not move the others.
LEMMA SyncAlone ==
  ASSUME WordTypes, OpTypes, RestTypes, NEW t \in Threads, SyncSteps(t)
  PROVE  Alone(t)
<1>1. UNCHANGED <<state, pc, caller, todo, critical>>
  BY ZenonT(40)
  DEF SyncSteps, SyncRaise, RaiseSuspendCount, SyncTargetSuspended, SyncRun,
      RunClosure, SyncLower, LowerSuspendCounts, SyncBroadcast,
      BroadcastResumeCond, RequestSynchronousCheckpoint, EnqueueCheckpoint,
      NewClosure, SyncTargetNotRunnable
<1>2. \A s \in Threads \ {t} : op'[s] = op[s]
  BY ZenonT(40)
  DEF SyncSteps, SyncRaise, RaiseSuspendCount, SyncTargetSuspended, SyncRun,
      RunClosure, SyncLower, LowerSuspendCounts, SyncBroadcast,
      BroadcastResumeCond, RequestSynchronousCheckpoint, EnqueueCheckpoint,
      NewClosure, SyncTargetNotRunnable, OpTypes
<1>3. \A s \in Threads \ {t} : raised'[s] = raised[s]
  BY ZenonT(40)
  DEF SyncSteps, SyncRaise, RaiseSuspendCount, SyncTargetSuspended, SyncRun,
      RunClosure, SyncLower, LowerSuspendCounts, SyncBroadcast,
      BroadcastResumeCond, RequestSynchronousCheckpoint, EnqueueCheckpoint,
      NewClosure, SyncTargetNotRunnable, OpTypes
<1>4. \A s \in Threads \ {t} : current'[s] = current[s]
  BY ZenonT(40)
  DEF SyncSteps, SyncRaise, RaiseSuspendCount, SyncTargetSuspended, SyncRun,
      RunClosure, SyncLower, LowerSuspendCounts, SyncBroadcast,
      BroadcastResumeCond, RequestSynchronousCheckpoint, EnqueueCheckpoint,
      NewClosure, SyncTargetNotRunnable, OpTypes
<1>5. \A s \in Threads \ {t} : expected'[s] = expected[s]
  BY ZenonT(40)
  DEF SyncSteps, SyncRaise, RaiseSuspendCount, SyncTargetSuspended, SyncRun,
      RunClosure, SyncLower, LowerSuspendCounts, SyncBroadcast,
      BroadcastResumeCond, RequestSynchronousCheckpoint, EnqueueCheckpoint,
      NewClosure, SyncTargetNotRunnable, RestTypes
<1> QED
  BY ZenonT(40), <1>1, <1>2, <1>3, <1>4, <1>5 DEF Alone

\* RunEmptyCheckpoint: a step of one thread does not move the others.
LEMMA EmptyAlone ==
  ASSUME WordTypes, OpTypes, RestTypes, NEW t \in Threads, EmptySteps(t)
  PROVE  Alone(t)
  BY ZenonT(40)
  DEF EmptySteps, ThreadListRunEmptyCheckpoint, RequestEmptyCheckpoint,
      EmptyTargetSuspended, EmptyRequestsDone, EmptyBarrierIncrement,
      EmptyBarrierReachesZero, WordTypes, OpTypes, RestTypes, Alone

\* FlipThreadRoots: a step of one thread does not move the others.
LEMMA FlipAlone ==
  ASSUME WordTypes, OpTypes, RestTypes, NEW t \in Threads, FlipSteps(t)
  PROVE  Alone(t)
<1>1. UNCHANGED <<pc, current, expected, critical>>
  BY ZenonT(40)
  DEF FlipSteps, FlipThreadRoots, ThreadFlipBegun, FlipSuspendAll,
      EnterSuspendAllInternal, FlipUnlockMutator, FlipResumeRunnable,
      LowerSuspendCounts, BroadcastResumeCond, ThreadFlipEnd, FlipLockShared,
      FlipUnlockShared, FlipResumeOthers, FlipOther
<1>2. \A s \in Threads \ {t} : state'[s] = state[s]
  BY ZenonT(40)
  DEF FlipSteps, FlipThreadRoots, ThreadFlipBegun, FlipSuspendAll,
      EnterSuspendAllInternal, FlipUnlockMutator, FlipResumeRunnable,
      LowerSuspendCounts, BroadcastResumeCond, ThreadFlipEnd, FlipLockShared,
      FlipUnlockShared, FlipResumeOthers, FlipOther, WordTypes
<1>3. \A s \in Threads \ {t} : op'[s] = op[s]
  BY ZenonT(40)
  DEF FlipSteps, FlipThreadRoots, ThreadFlipBegun, FlipSuspendAll,
      EnterSuspendAllInternal, FlipUnlockMutator, FlipResumeRunnable,
      LowerSuspendCounts, BroadcastResumeCond, ThreadFlipEnd, FlipLockShared,
      FlipUnlockShared, FlipResumeOthers, FlipOther, OpTypes
<1>4. \A s \in Threads \ {t} : caller'[s] = caller[s]
  BY ZenonT(40)
  DEF FlipSteps, FlipThreadRoots, ThreadFlipBegun, FlipSuspendAll,
      EnterSuspendAllInternal, FlipUnlockMutator, FlipResumeRunnable,
      LowerSuspendCounts, BroadcastResumeCond, ThreadFlipEnd, FlipLockShared,
      FlipUnlockShared, FlipResumeOthers, FlipOther, OpTypes
<1>5. \A s \in Threads \ {t} : todo'[s] = todo[s]
  BY ZenonT(40)
  DEF FlipSteps, FlipThreadRoots, ThreadFlipBegun, FlipSuspendAll,
      EnterSuspendAllInternal, FlipUnlockMutator, FlipResumeRunnable,
      LowerSuspendCounts, BroadcastResumeCond, ThreadFlipEnd, FlipLockShared,
      FlipUnlockShared, FlipResumeOthers, FlipOther, OpTypes
<1>6. \A s \in Threads \ {t} : raised'[s] = raised[s]
  BY ZenonT(40)
  DEF FlipSteps, FlipThreadRoots, ThreadFlipBegun, FlipSuspendAll,
      EnterSuspendAllInternal, FlipUnlockMutator, FlipResumeRunnable,
      LowerSuspendCounts, BroadcastResumeCond, ThreadFlipEnd, FlipLockShared,
      FlipUnlockShared, FlipResumeOthers, FlipOther, OpTypes
<1> QED
  BY ZenonT(40), <1>1, <1>2, <1>3, <1>4, <1>5, <1>6 DEF Alone

\* JNI critical sections: a step of one thread does not move the others.
LEMMA JniAlone ==
  ASSUME WordTypes, OpTypes, RestTypes, NEW t \in Threads, JniSteps(t)
  PROVE  Alone(t)
<1>1. UNCHANGED <<caller, todo, raised, current, expected>>
  BY ZenonT(40)
  DEF JniSteps, EnterCritical, TransitionToSuspendedAndRunCheckpoints,
      EnterNestedCritical, IncrementDisableThreadFlip,
      EnterTransitionToRunnable, DecrementDisableThreadFlip
<1>2. \A s \in Threads \ {t} : state'[s] = state[s]
  BY ZenonT(40)
  DEF JniSteps, EnterCritical, TransitionToSuspendedAndRunCheckpoints,
      EnterNestedCritical, IncrementDisableThreadFlip,
      EnterTransitionToRunnable, DecrementDisableThreadFlip, WordTypes
<1>3. \A s \in Threads \ {t} : pc'[s] = pc[s]
  BY ZenonT(40)
  DEF JniSteps, EnterCritical, TransitionToSuspendedAndRunCheckpoints,
      EnterNestedCritical, IncrementDisableThreadFlip,
      EnterTransitionToRunnable, DecrementDisableThreadFlip, WordTypes
<1>4. \A s \in Threads \ {t} : op'[s] = op[s]
  BY ZenonT(40)
  DEF JniSteps, EnterCritical, TransitionToSuspendedAndRunCheckpoints,
      EnterNestedCritical, IncrementDisableThreadFlip,
      EnterTransitionToRunnable, DecrementDisableThreadFlip, OpTypes
<1>5. \A s \in Threads \ {t} : critical'[s] = critical[s]
  BY ZenonT(40)
  DEF JniSteps, EnterCritical, TransitionToSuspendedAndRunCheckpoints,
      EnterNestedCritical, IncrementDisableThreadFlip,
      EnterTransitionToRunnable, DecrementDisableThreadFlip, RestTypes
<1> QED
  BY ZenonT(40), <1>1, <1>2, <1>3, <1>4, <1>5 DEF Alone

\* The steps of a thread change its own control point, state and local
\* variables only.
LEMMA AloneSteps ==
  ASSUME WordTypes, OpTypes, RestTypes, NEW t \in Threads, AnyStep(t)
  PROVE  Alone(t)
  BY ZenonT(40), TransitionAlone, SuspendAlone, ByIdAlone, AttachAlone,
     RunCheckpointAlone, SyncAlone, EmptyAlone, FlipAlone, JniAlone DEF AnyStep

-----------------------------------------------------------------------------
(***************************************************************************)
(* The types of the barriers of checkpoints and of the counters that       *)
(* belong to one thread.                                                   *)
(***************************************************************************)

\* The state transitions of a thread run checkpoints and flip functions, and
\* leave ThreadList alone.
LEMMA TransitionFrame ==
  ASSUME NEW t \in Threads, TransitionSteps(t)
  PROVE  /\ UNCHANGED <<threadListVars, expected, jniVars>>
         /\ RunCheckpointFunction(t)
              \/ UNCHANGED <<checkpoints, closureBarrier, ranOn>>
         /\ RunEmptyCheckpoint(t) \/ UNCHANGED emptyBarrier
         /\ RunCheckpointFunction(t) \/ RunFlipFunction(t)
              \/ UNCHANGED flipFunction
  BY ZenonT(40)
  DEF TransitionSteps, LeaveRunnable, ReturnFromNative, SpuriousWakeup,
      RunCheckpointFunction, RunEmptyCheckpoint, FullSuspendCheck,
      LeaveRunnableToWait, ReturnToRunnable, ClaimSuspendBarriers,
      FinishTransitionToSuspended, BecomeRunnable, WaitForResume,
      ResumeCondNotified, PassSuspendBarrier,
      TransitionToSuspendedAndRunCheckpoints, EnterTransitionToRunnable,
      RunFlipFunction

\* The closures in a queue are those of threads.
LEMMA HeadOfQueue ==
  ASSUME ClosureTypes, NEW t \in Threads, checkpoints[t] # << >>
  PROVE  Head(checkpoints[t]) \in Threads
  BY DEF ClosureTypes

\* The barriers of checkpoints stay integers.
LEMMA ClosureBarrierType ==
  ASSUME OpTypes, ClosureTypes, RestTypes, NEW t \in Threads, AnyStep(t)
  PROVE  closureBarrier' \in [Threads -> Int] /\ emptyBarrier' \in Int
<1>1. CASE RunCheckpointFunction(t)
  <2>1. PICK r \in Threads : closureBarrier' = [closureBarrier EXCEPT ![r] = @ - 1]
    BY ZenonT(40), <1>1, HeadOfQueue DEF RunCheckpointFunction, RunClosure
  <2>2. emptyBarrier' = emptyBarrier
    BY ZenonT(40), <1>1 DEF RunCheckpointFunction
  <2> QED
    BY <2>1, <2>2 DEF RestTypes
<1>2. CASE RunEmptyCheckpoint(t)
  BY <1>2 DEF RunEmptyCheckpoint, RestTypes
<1>3. CASE UNCHANGED <<closureBarrier, emptyBarrier>>
  BY ZenonT(40), <1>3 DEF RestTypes
<1>4. CASE RunCheckpointSteps(t)
  <2>1. emptyBarrier' = emptyBarrier
    BY ZenonT(40), <1>4, RunCheckpointFrame
  <2>2. \/ closureBarrier' = closureBarrier
        \/ \E u \in Threads : RunClosure(t, u)
        \/ NewClosure(t)
        \/ closureBarrier' = [closureBarrier EXCEPT ![t] = @ + expected[t]]
    BY ZenonT(40), <1>4
    DEF RunCheckpointSteps, RunCheckpoint, CheckpointSelf, CheckpointLower,
        LowerSuspendCounts, CheckpointBroadcast, BroadcastResumeCond,
        BarrierIncrement, BarrierReachesZero, CheckpointRunnableThread,
        EnqueueCheckpoint, CheckpointSuspendedThread, RaiseSuspendCount,
        CheckpointTargetNotRunnable, CheckpointRequestFails, CheckpointOther
  <2> QED
    BY <2>1, <2>2 DEF RunClosure, NewClosure, RestTypes
<1>5. CASE SyncSteps(t)
  <2>1. emptyBarrier' = emptyBarrier
    BY ZenonT(40), <1>5, SyncFrame
  <2>2. \/ closureBarrier' = closureBarrier
        \/ \E u : RunClosure(t, u)
        \/ NewClosure(t)
    BY ZenonT(40), <1>5
    DEF SyncSteps, SyncRaise, RaiseSuspendCount, SyncTargetSuspended, SyncRun,
        SyncLower, LowerSuspendCounts, SyncBroadcast, BroadcastResumeCond,
        RequestSynchronousCheckpoint, EnqueueCheckpoint, SyncTargetNotRunnable
  <2> QED
    BY <2>1, <2>2 DEF RunClosure, NewClosure, RestTypes
<1>6. CASE EmptySteps(t)
  <2>1. /\ closureBarrier' = closureBarrier
        /\ \/ emptyBarrier' = emptyBarrier
           \/ emptyBarrier' = 0
           \/ emptyBarrier' = emptyBarrier + expected[t]
    BY ZenonT(40), <1>6
    DEF EmptySteps, ThreadListRunEmptyCheckpoint, RequestEmptyCheckpoint,
        EmptyTargetSuspended, EmptyRequestsDone, EmptyBarrierIncrement,
        EmptyBarrierReachesZero
  <2> QED
    BY <2>1 DEF RestTypes
<1>7. CASE TransitionSteps(t)
  <2>1. \/ RunCheckpointFunction(t)
        \/ RunEmptyCheckpoint(t)
        \/ UNCHANGED <<closureBarrier, emptyBarrier>>
    BY ZenonT(40), <1>7, TransitionFrame
  <2> QED
    BY ZenonT(40), <2>1, <1>1, <1>2, <1>3
<1>8. CASE SuspendSteps(t) \/ ByIdSteps(t) \/ AttachSteps(t)
           \/ FlipSteps(t) \/ JniSteps(t)
  BY ZenonT(40), <1>3, <1>8, SuspendFrame, ByIdFrame, AttachFrame, FlipFrame,
     JniFrame
<1> QED
  BY ZenonT(40), <1>4, <1>5, <1>6, <1>7, <1>8 DEF AnyStep

\* The bound on operations counts down to zero.
LEMMA OpsLeftType ==
  ASSUME OpTypes, RestTypes, NEW t \in Threads, AnyStep(t)
  PROVE  opsLeft' \in [Threads -> Nat]
<1>1. \/ opsLeft' = opsLeft
      \/ opsLeft[t] > 0 /\ opsLeft' = [opsLeft EXCEPT ![t] = @ - 1]
  <2>1. CASE TransitionSteps(t)
    BY ZenonT(40), <2>1, TransitionFrame
  <2>2. CASE SuspendSteps(t)
    BY ZenonT(40), <2>2
    DEF SuspendSteps, SuspendAll, EnterSuspendAllInternal, CheckSuspended,
        ClearSuspendBarrier, FinishRequests, SuspendBarrierPassed,
        LockMutatorExclusive, ResumeAll, LowerAllAndBroadcast,
        LowerSuspendCounts, BroadcastResumeCond, RequestSuspend,
        RaiseSuspendCount, RequestSuspendFails
  <2>3. CASE ByIdSteps(t)
    BY ZenonT(40), <2>3
    DEF ByIdSteps, ByIdGivesWay, ByIdRequest, RaiseSuspendCount, ByIdOutcome,
        ByIdRequestFails, ByIdPoll, ByIdTimeout, LowerSuspendCounts,
        ByIdRoundEnds, Resume, ResumeBroadcasts, BroadcastResumeCond,
        SuspendThreadByThreadId
  <2>4. CASE AttachSteps(t)
    BY ZenonT(40), <2>4
    DEF AttachSteps, Register, Unregister, RemoveFromList, FinishUnregister
  <2>5. CASE RunCheckpointSteps(t)
    BY ZenonT(40), <2>5
    DEF RunCheckpointSteps, RunCheckpoint, NewClosure, CheckpointSelf,
        RunClosure, CheckpointLower, LowerSuspendCounts, CheckpointBroadcast,
        BroadcastResumeCond, BarrierIncrement, BarrierReachesZero,
        CheckpointRunnableThread, EnqueueCheckpoint,
        CheckpointSuspendedThread, RaiseSuspendCount,
        CheckpointTargetNotRunnable, CheckpointRequestFails, CheckpointOther
  <2>6. CASE SyncSteps(t)
    BY ZenonT(40), <2>6
    DEF SyncSteps, SyncRaise, RaiseSuspendCount, SyncTargetSuspended, SyncRun,
        RunClosure, SyncLower, LowerSuspendCounts, SyncBroadcast,
        BroadcastResumeCond, RequestSynchronousCheckpoint, EnqueueCheckpoint,
        NewClosure, SyncTargetNotRunnable
  <2>7. CASE EmptySteps(t)
    BY ZenonT(40), <2>7
    DEF EmptySteps, ThreadListRunEmptyCheckpoint, RequestEmptyCheckpoint,
        EmptyTargetSuspended, EmptyRequestsDone, EmptyBarrierIncrement,
        EmptyBarrierReachesZero
  <2>8. CASE FlipSteps(t)
    BY ZenonT(40), <2>8
    DEF FlipSteps, FlipThreadRoots, ThreadFlipBegun, FlipSuspendAll,
        EnterSuspendAllInternal, FlipUnlockMutator, FlipResumeRunnable,
        LowerSuspendCounts, BroadcastResumeCond, ThreadFlipEnd, FlipLockShared,
        FlipUnlockShared, FlipResumeOthers, FlipOther
  <2>9. CASE JniSteps(t)
    BY ZenonT(40), <2>9
    DEF JniSteps, EnterCritical, TransitionToSuspendedAndRunCheckpoints,
        EnterNestedCritical, IncrementDisableThreadFlip,
        EnterTransitionToRunnable, DecrementDisableThreadFlip
  <2> QED
    BY ZenonT(40), <2>1, <2>2, <2>3, <2>4, <2>5, <2>6, <2>7, <2>8, <2>9
    DEF AnyStep
<1> QED
  BY <1>1 DEF RestTypes

\* The counts that requesters add to their barriers are natural numbers.
LEMMA ExpectedType ==
  ASSUME CardinalityFacts, OpTypes, LockTypes, RestTypes,
         NEW t \in Threads, AnyStep(t)
  PROVE  expected' \in [Threads -> Nat]
<1>1. \/ expected' = expected
      \/ \E n \in Nat : expected' = [expected EXCEPT ![t] = n]
  <2>1. Cardinality(list) \in Nat
    BY ZenonT(40) DEF CardinalityFacts, LockTypes
  <2>2. 0 \in Nat /\ expected[t] + 1 \in Nat
    BY DEF RestTypes
  <2>3. CASE RunCheckpointSteps(t)
    BY ZenonT(40), <2>1, <2>3
    DEF RunCheckpointSteps, RunCheckpoint, NewClosure, CheckpointSelf,
        RunClosure, CheckpointLower, LowerSuspendCounts, CheckpointBroadcast,
        BroadcastResumeCond, BarrierIncrement, BarrierReachesZero,
        CheckpointRunnableThread, EnqueueCheckpoint,
        CheckpointSuspendedThread, RaiseSuspendCount,
        CheckpointTargetNotRunnable, CheckpointRequestFails, CheckpointOther
  <2>4. CASE SyncSteps(t)
    <3>1. 1 \in Nat
      BY SMT
    <3> QED
      BY ZenonT(40), <2>4, <3>1
      DEF SyncSteps, SyncRaise, RaiseSuspendCount, SyncTargetSuspended,
          SyncRun, RunClosure, SyncLower, LowerSuspendCounts, SyncBroadcast,
          BroadcastResumeCond, RequestSynchronousCheckpoint, EnqueueCheckpoint,
          NewClosure, SyncTargetNotRunnable
  <2>5. CASE EmptySteps(t)
    BY ZenonT(40), <2>2, <2>5
    DEF EmptySteps, ThreadListRunEmptyCheckpoint, RequestEmptyCheckpoint,
        EmptyTargetSuspended, EmptyRequestsDone, EmptyBarrierIncrement,
        EmptyBarrierReachesZero
  <2>6. CASE \/ SuspendSteps(t) \/ ByIdSteps(t) \/ AttachSteps(t)
             \/ TransitionSteps(t) \/ FlipSteps(t) \/ JniSteps(t)
    BY ZenonT(40), <2>6, TransitionFrame, FlipFrame, JniFrame
    DEF SuspendSteps, ByIdSteps, AttachSteps
  <2> QED
    BY ZenonT(40), <2>3, <2>4, <2>5, <2>6 DEF AnyStep
<1> QED
  BY ZenonT(40), <1>1 DEF RestTypes

\* So is the number of JNI critical sections a thread is in.
LEMMA CriticalType ==
  ASSUME OpTypes, RestTypes, NEW t \in Threads, AnyStep(t)
  PROVE  critical' \in [Threads -> Nat]
<1>1. CASE JniSteps(t)
  <2>1. \/ critical' = critical
        \/ critical' = [critical EXCEPT ![t] = 1]
        \/ critical' = [critical EXCEPT ![t] = @ + 1]
        \/ critical[t] > 0 /\ critical' = [critical EXCEPT ![t] = @ - 1]
    BY ZenonT(40), <1>1
    DEF JniSteps, EnterCritical, TransitionToSuspendedAndRunCheckpoints,
        EnterNestedCritical, IncrementDisableThreadFlip,
        EnterTransitionToRunnable, DecrementDisableThreadFlip
  <2> QED
    BY <2>1 DEF RestTypes
<1>2. CASE ~JniSteps(t)
  <2>1. critical' = critical
    BY ZenonT(40), <1>2, TransitionFrame, FlipFrame
    DEF AnyStep, SuspendSteps, ByIdSteps, AttachSteps, RunCheckpointSteps,
        SyncSteps, EmptySteps
  <2> QED
    BY ZenonT(40), <2>1 DEF RestTypes
<1> QED
  BY ZenonT(40), <1>1, <1>2

\* The types of the variables that IInv leaves out.
LEMMA RestTypesPreserved ==
  ASSUME CardinalityFacts, ClosureTypes, OpTypes, LockTypes, RestTypes,
         NEW t \in Threads, AnyStep(t)
  PROVE  RestTypes'
  BY ZenonT(40), ClosureBarrierType, OpsLeftType, ExpectedType, CriticalType
  DEF RestTypes

-----------------------------------------------------------------------------
(***************************************************************************)
(* pending_threads, the retry of SuspendThreadByThreadId,                  *)
(* unregistering_count_, and the threads that wait to enter a JNI critical *)
(* section.                                                                *)
(***************************************************************************)

\* SuspendAllInternal leaves pending_threads at zero.
LEMMA PendingInvPreserved ==
  ASSUME CounterTypes, OpTypes, BarrierInv, PendingInv,
         NEW t \in Threads, AnyStep(t), Alone(t)
  PROVE  PendingInv'
<1>1. CASE TransitionSteps(t)
  <2>1. op' = op
    BY ZenonT(40), <1>1, TransitionFrame
  <2>2. \/ pending' = pending
        \/ \E u \in Threads : PassSuspendBarrier(t, u)
    BY ZenonT(40), <1>1
    DEF TransitionSteps, LeaveRunnable, ReturnFromNative, SpuriousWakeup,
        RunCheckpointFunction, RunClosure, RunEmptyCheckpoint,
        FullSuspendCheck, LeaveRunnableToWait, ReturnToRunnable,
        ClaimSuspendBarriers, FinishTransitionToSuspended, BecomeRunnable,
        WaitForResume, ResumeCondNotified, RunFlipFunction,
        TransitionToSuspendedAndRunCheckpoints, EnterTransitionToRunnable
  <2>3. ASSUME NEW u \in Threads, PassSuspendBarrier(t, u)
        PROVE  PendingInv'
    <3>1. op[u] \in RequestingOps
      BY ZenonT(40), <2>3 DEF PassSuspendBarrier, BarrierInv
    <3> QED
      BY ZenonT(40), <2>1, <2>3, <3>1
      DEF PassSuspendBarrier, PendingInv, CounterTypes
  <2> QED
    BY ZenonT(40), <2>1, <2>2, <2>3 DEF PendingInv
<1>2. CASE SuspendSteps(t)
  <2>1. op'[t] \notin RequestingOps => pending'[t] = 0
    BY ZenonT(40), <1>2
    DEF SuspendSteps, SuspendAll, EnterSuspendAllInternal, CheckSuspended,
        ClearSuspendBarrier, FinishRequests, SuspendBarrierPassed,
        LockMutatorExclusive, ResumeAll, LowerAllAndBroadcast,
        LowerSuspendCounts, BroadcastResumeCond, RequestSuspend,
        RaiseSuspendCount, RequestSuspendFails, RequestingOps, OpTypes,
        PendingInv
  <2>2. \A s \in Threads \ {t} : pending'[s] = pending[s]
    BY ZenonT(40), <1>2
    DEF SuspendSteps, SuspendAll, EnterSuspendAllInternal, CheckSuspended,
        ClearSuspendBarrier, FinishRequests, SuspendBarrierPassed,
        LockMutatorExclusive, ResumeAll, LowerAllAndBroadcast,
        LowerSuspendCounts, BroadcastResumeCond, RequestSuspend,
        RaiseSuspendCount, RequestSuspendFails, CounterTypes
  <2> QED
    BY ZenonT(40), <2>1, <2>2 DEF PendingInv, Alone
<1>3. CASE FlipSteps(t)
  <2>1. op'[t] \notin RequestingOps => pending'[t] = 0
    BY ZenonT(40), <1>3
    DEF FlipSteps, FlipThreadRoots, ThreadFlipBegun, FlipSuspendAll,
        EnterSuspendAllInternal, FlipUnlockMutator, FlipResumeRunnable,
        LowerSuspendCounts, BroadcastResumeCond, ThreadFlipEnd, FlipLockShared,
        FlipUnlockShared, FlipResumeOthers, FlipOther, RequestingOps, OpTypes,
        PendingInv
  <2>2. \A s \in Threads \ {t} : pending'[s] = pending[s]
    BY ZenonT(40), <1>3
    DEF FlipSteps, FlipThreadRoots, ThreadFlipBegun, FlipSuspendAll,
        EnterSuspendAllInternal, FlipUnlockMutator, FlipResumeRunnable,
        LowerSuspendCounts, BroadcastResumeCond, ThreadFlipEnd, FlipLockShared,
        FlipUnlockShared, FlipResumeOthers, FlipOther, CounterTypes
  <2> QED
    BY ZenonT(40), <2>1, <2>2 DEF PendingInv, Alone
<1>4. CASE \/ ByIdSteps(t) \/ AttachSteps(t) \/ RunCheckpointSteps(t)
           \/ SyncSteps(t) \/ EmptySteps(t) \/ JniSteps(t)
  <2>1. pending' = pending
    BY ZenonT(40), <1>4, ByIdFrame, AttachFrame, RunCheckpointFrame, SyncFrame,
       EmptyFrame, JniFrame
  <2>2. op[t] \notin RequestingOps
    BY ZenonT(40), <1>4, ByIdFrame, AttachFrame, RunCheckpointFrame, SyncFrame,
       EmptyFrame, JniFrame
    DEF RequestingOps, ByIdOps, CountingOps, CheckpointOps, EmptyOps
  <2> QED
    BY ZenonT(40), <2>1, <2>2 DEF PendingInv, Alone
<1> QED
  BY ZenonT(40), <1>1, <1>2, <1>3, <1>4 DEF AnyStep

\* Nobody asks a thread to suspend while it retries in SuspendThreadByThreadId:
\* it holds thread_list_lock_, and whoever raises a suspend count needs that.
LEMMA RetryInvPreserved ==
  ASSUME LockTypes, OpTypes, CounterTypes, CounterTypes', LockInv, RequestInv',
         RetryInv, NEW t \in Threads, AnyStep(t), Alone(t),
         CountsUnchanged \/ CountsAffected(t)
  PROVE  RetryInv'
<1> SUFFICES ASSUME NEW s \in Threads, op'[s] = "byIdRetry"
             PROVE  suspendCount'[s] = 0
  BY ZenonT(40) DEF RetryInv
<1>1. CASE s = t
  <2>1. CASE TransitionSteps(t)
    <3>1. UNCHANGED <<op, suspendCount>>
      BY ZenonT(40), <2>1
      DEF TransitionSteps, LeaveRunnable, ReturnFromNative, SpuriousWakeup,
          RunCheckpointFunction, RunClosure, RunEmptyCheckpoint,
          FullSuspendCheck, LeaveRunnableToWait, ReturnToRunnable,
          ClaimSuspendBarriers, FinishTransitionToSuspended, BecomeRunnable,
          WaitForResume, ResumeCondNotified, RunFlipFunction,
          PassSuspendBarrier, TransitionToSuspendedAndRunCheckpoints,
          EnterTransitionToRunnable
    <3> QED
      BY ZenonT(40), <3>1 DEF RetryInv
  <2>2. CASE ByIdSteps(t)
    BY ZenonT(40), <1>1, <2>2
    DEF ByIdSteps, ByIdGivesWay, ByIdRequest, RaiseSuspendCount, ByIdOutcome,
        ByIdRequestFails, ByIdPoll, ByIdTimeout, LowerSuspendCounts,
        ByIdRoundEnds, Resume, ResumeBroadcasts, BroadcastResumeCond,
        SuspendThreadByThreadId, OpTypes
  <2>3. CASE ~TransitionSteps(t) /\ ~ByIdSteps(t)
    <3>1. op'[t] # "byIdRetry"
      BY ZenonT(40), <2>3, SuspendFrame, AttachFrame, RunCheckpointFrame,
         SyncFrame, EmptyFrame, FlipFrame, JniFrame
      DEF AnyStep, RequestingOps, SuspendAllOps, CountingOps, CheckpointOps,
          EmptyOps, FlipOps
    <3> QED
      BY ZenonT(40), <1>1, <3>1
  <2> QED
    BY ZenonT(40), <2>1, <2>2, <2>3
<1>2. CASE s # t
  <2>1. /\ op[s] = "byIdRetry" /\ listLock = s /\ listLock # NoThread
        /\ op[t] \notin ListLockOps
    BY ZenonT(40), <1>2, ThreadsAssumption DEF Alone, LockInv, ListLockOps
  <2>2. suspendCount[s] = 0
    BY ZenonT(40), <2>1 DEF RetryInv
  <2>3. \/ suspendCount'[s] = suspendCount[s]
        \/ suspendCount'[s] = suspendCount[s] - 1
    <3>1. CASE CountsUnchanged
      BY ZenonT(40), <3>1 DEF CountsUnchanged
    <3>2. CASE CountsAffected(t)
      BY ZenonT(40), <1>2, <2>1, <3>2
      DEF CountsAffected, SuspendAll, FlipSuspendAll, EnterSuspendAllInternal,
          Register, ByIdRequest, ByIdPoll, SyncRaise, LowerAllAndBroadcast,
          ByIdTimeout, Resume, CheckpointLower, SyncLower, FlipResumeRunnable,
          FlipResumeOthers, RequestSuspend, CheckpointSuspendedThread,
          RaiseSuspendCount, LowerSuspendCounts, ListLockOps, CountLockOps,
          BothLocksFree, CounterTypes
    <3> QED
      BY ZenonT(40), <3>1, <3>2
  <2>4. suspendCount'[s] >= 0
    BY ZenonT(40) DEF RequestInv
  <2> QED
    BY <2>2, <2>3, <2>4 DEF CounterTypes
<1> QED
  BY ZenonT(40), <1>1, <1>2

\* unregistering_count_ counts the threads inside Unregister.
LEMMA UnregisterInvPreserved ==
  ASSUME CardinalityFacts, OpTypes, UnregisterInv,
         NEW t \in Threads, AnyStep(t), Alone(t)
  PROVE  UnregisterInv'
<1> DEFINE In(o) == o \in {"unregister", "detached"}
           U == {s \in Threads : op[s] \in {"unregister", "detached"}}
<1>0. U \in SUBSET Threads /\ Cardinality(U) \in Nat
  BY ZenonT(40) DEF CardinalityFacts
<1>1. ASSUME unregisteringCount' = unregisteringCount, In(op'[t]) <=> In(op[t])
      PROVE  UnregisterInv'
  <2>1. U' = U
    BY ZenonT(40), <1>1 DEF Alone
  <2> QED
    BY ZenonT(40), <1>1, <2>1 DEF UnregisterInv
<1>2. CASE Register(t) \/ RemoveFromList(t)
  BY ZenonT(40), <1>1, <1>2 DEF Register, RemoveFromList, OpTypes
<1>3. CASE Unregister(t)
  <2>1. t \notin U /\ U' = U \union {t}
    BY ZenonT(40), <1>3 DEF Unregister, OpTypes
  <2>2. Cardinality(U') = Cardinality(U) + 1
    BY ZenonT(40), <1>0, <2>1 DEF CardinalityFacts
  <2> QED
    BY ZenonT(40), <1>3, <2>2 DEF Unregister, UnregisterInv
<1>4. CASE FinishUnregister(t)
  <2>1. t \in U /\ U' = U \ {t}
    BY ZenonT(40), <1>4 DEF FinishUnregister, OpTypes
  <2>2. Cardinality(U') = Cardinality(U) - 1
    BY ZenonT(40), <1>0, <2>1 DEF CardinalityFacts
  <2> QED
    BY ZenonT(40), <1>4, <2>2 DEF FinishUnregister, UnregisterInv
<1>5. CASE ~AttachSteps(t)
  <2>1. unregisteringCount' = unregisteringCount
    BY ZenonT(40), <1>5, TransitionFrame, SuspendFrame, ByIdFrame,
       RunCheckpointFrame, SyncFrame, EmptyFrame, FlipFrame, JniFrame
    DEF AnyStep
  <2>2. In(op'[t]) <=> In(op[t])
    BY ZenonT(40), <1>5, TransitionFrame, SuspendFrame, ByIdFrame,
       RunCheckpointFrame, SyncFrame, EmptyFrame, FlipFrame, JniFrame
    DEF AnyStep, RequestingOps, SuspendAllOps, ByIdOps, CountingOps,
        CheckpointOps, EmptyOps, FlipOps
  <2> QED
    BY ZenonT(40), <1>1, <2>1, <2>2
<1> QED
  BY ZenonT(40), <1>2, <1>3, <1>4, <1>5 DEF AttachSteps

\* Who waits to enter a JNI critical section is out of kRunnable.
LEMMA JniInvPreserved ==
  ASSUME WordTypes, OpTypes, JniInv, NEW t \in Threads, AnyStep(t), Alone(t)
  PROVE  JniInv'
<1> SUFFICES ASSUME op'[t] = "jniWait"
             PROVE  pc'[t] \in {"passBarriers", "suspended"}
  BY ZenonT(40) DEF JniInv, Alone
<1>1. CASE TransitionSteps(t)
  <2>1. op'[t] = op[t]
    BY ZenonT(40), <1>1, TransitionFrame
  <2>2. pc[t] \in {"passBarriers", "suspended"}
    BY ZenonT(40), <2>1 DEF JniInv
  <2> QED
    BY ZenonT(40), <1>1, <2>1, <2>2
    DEF TransitionSteps, LeaveRunnable, ReturnFromNative, SpuriousWakeup,
        RunCheckpointFunction, RunClosure, RunEmptyCheckpoint,
        FullSuspendCheck, LeaveRunnableToWait, ReturnToRunnable,
        ClaimSuspendBarriers, FinishTransitionToSuspended, BecomeRunnable,
        WaitForResume, ResumeCondNotified, RunFlipFunction, PassSuspendBarrier,
        TransitionToSuspendedAndRunCheckpoints, EnterTransitionToRunnable,
        OrdinaryOps, LeavingOps, ReturningOps, WordTypes
<1>2. CASE JniSteps(t)
  BY ZenonT(40), <1>2
  DEF JniSteps, EnterCritical, TransitionToSuspendedAndRunCheckpoints,
      EnterNestedCritical, IncrementDisableThreadFlip,
      EnterTransitionToRunnable, DecrementDisableThreadFlip, WordTypes, OpTypes
<1>3. CASE ~TransitionSteps(t) /\ ~JniSteps(t)
  <2>1. op'[t] # "jniWait"
    BY ZenonT(40), <1>3, SuspendFrame, ByIdFrame, AttachFrame,
       RunCheckpointFrame, SyncFrame, EmptyFrame, FlipFrame
    DEF AnyStep, RequestingOps, SuspendAllOps, ByIdOps, CountingOps,
        CheckpointOps, EmptyOps, FlipOps
  <2> QED
    BY ZenonT(40), <2>1
<1> QED
  BY ZenonT(40), <1>1, <1>2, <1>3

-----------------------------------------------------------------------------
(***************************************************************************)
(* Whom an operation keeps suspended.                                      *)
(***************************************************************************)

\* A thread becomes runnable by its own compare-and-set, from a word without
\* flags.
LEMMA NewlyRunnable ==
  ASSUME WordTypes, OpTypes, NEW t \in Threads, AnyStep(t), NEW u \in Threads,
         state'[u] = "Runnable", state[u] # "Runnable"
  PROVE  u = t /\ flags[u] = {} /\ UNCHANGED threadListVars
<1>1. CASE TransitionSteps(t)
  <2>1. UNCHANGED threadListVars
    BY ZenonT(40), <1>1, TransitionFrame
  <2>2. u = t /\ flags[u] = {}
    BY ZenonT(40), <1>1
    DEF TransitionSteps, LeaveRunnable, ReturnFromNative, SpuriousWakeup,
        RunCheckpointFunction, RunClosure, RunEmptyCheckpoint,
        FullSuspendCheck, LeaveRunnableToWait, ReturnToRunnable,
        ClaimSuspendBarriers, FinishTransitionToSuspended, BecomeRunnable,
        WaitForResume, ResumeCondNotified, RunFlipFunction, PassSuspendBarrier,
        TransitionToSuspendedAndRunCheckpoints, EnterTransitionToRunnable,
        WordTypes
  <2> QED
    BY ZenonT(40), <2>1, <2>2
<1>2. CASE \/ SuspendSteps(t) \/ ByIdSteps(t) \/ RunCheckpointSteps(t)
           \/ SyncSteps(t) \/ EmptySteps(t)
  BY ZenonT(40), <1>2, SuspendFrame, ByIdFrame, RunCheckpointFrame, SyncFrame,
     EmptyFrame
<1>3. CASE AttachSteps(t)
  BY ZenonT(40), <1>3
  DEF AttachSteps, Register, Unregister, RemoveFromList, FinishUnregister,
      WordTypes
<1>4. CASE FlipSteps(t)
  BY ZenonT(40), <1>4
  DEF FlipSteps, FlipThreadRoots, ThreadFlipBegun, FlipSuspendAll,
      EnterSuspendAllInternal, FlipUnlockMutator, FlipResumeRunnable,
      LowerSuspendCounts, BroadcastResumeCond, ThreadFlipEnd, FlipLockShared,
      FlipUnlockShared, FlipResumeOthers, FlipOther, WordTypes
<1>5. CASE JniSteps(t)
  BY ZenonT(40), <1>5
  DEF JniSteps, EnterCritical, TransitionToSuspendedAndRunCheckpoints,
      EnterNestedCritical, IncrementDisableThreadFlip,
      EnterTransitionToRunnable, DecrementDisableThreadFlip, WordTypes
<1> QED
  BY ZenonT(40), <1>1, <1>2, <1>3, <1>4, <1>5 DEF AnyStep

\* Whom an operation keeps suspended while it works on it does not become
\* runnable.
LEMMA HeldInvPreserved ==
  ASSUME WordTypes, LockTypes, OpTypes, TodoInv, RaisedInv, RequestInv, BarrierInv,
         AskedInv, HeldInv, NEW t \in Threads, AnyStep(t), Alone(t)
  PROVE  HeldInv'
<1> DEFINE HeldOps == {"byIdFound", "byIdHold", "checkpointLower", "syncRun",
                       "syncLower"}
<1>1. ASSUME NEW s \in Threads, NEW u \in Threads, u \in raised[s],
             state[u] # "Runnable"
      PROVE  state'[u] # "Runnable"
  <2>1. "SuspendRequest" \in flags[u]
    BY ZenonT(40), <1>1 DEF RequestInv, SuspendedBy
  <2> QED
    BY ZenonT(40), <1>1, <2>1, NewlyRunnable
<1>2. ASSUME NEW s \in Threads, op[s] \in HeldOps
      PROVE  state'[current[s]] # "Runnable"
  <2>1. current[s] \in raised[s] /\ raised[s] \subseteq Threads
    BY ZenonT(40), <1>2 DEF RaisedInv, OpTypes
  <2>2. state[current[s]] # "Runnable"
    BY ZenonT(40), <1>2 DEF HeldInv
  <2> QED
    BY ZenonT(40), <1>1, <2>1, <2>2
<1>3. ASSUME NEW s \in Threads, op[s] \in FlipOps, NEW u \in raised[s]
      PROVE  state'[u] # "Runnable"
  <2>1. u \in Threads
    BY ZenonT(40) DEF OpTypes
  <2>2. state[u] # "Runnable"
    BY ZenonT(40), <1>3 DEF HeldInv
  <2> QED
    BY ZenonT(40), <1>1, <2>1, <2>2
<1>4. ASSUME op'[t] \in HeldOps
      PROVE  state'[current'[t]] # "Runnable"
  <2>1. CASE TransitionSteps(t)
    BY ZenonT(40), <1>2, <1>4, <2>1, TransitionFrame
  <2>2. CASE ByIdSteps(t)
    <3>1. \/ op[t] \in HeldOps /\ current'[t] = current[t]
          \/ current'[t] = current[t] /\ state[current[t]] # "Runnable"
      BY ZenonT(40), <1>4, <2>2
      DEF ByIdSteps, ByIdGivesWay, ByIdRequest, RaiseSuspendCount, ByIdOutcome,
          ByIdRequestFails, ByIdPoll, ByIdTimeout, LowerSuspendCounts,
          ByIdRoundEnds, Resume, ResumeBroadcasts, BroadcastResumeCond,
          SuspendThreadByThreadId, OpTypes, IsSuspended
    <3>2. state' = state
      BY ZenonT(40), <2>2, ByIdFrame
    <3> QED
      BY ZenonT(40), <1>2, <3>1, <3>2
  <2>3. CASE RunCheckpointSteps(t)
    <3>1. PICK u \in Threads : CheckpointOther(t, u)
      BY ZenonT(40), <1>4, <2>3
      DEF RunCheckpointSteps, RunCheckpoint, CheckpointSelf, CheckpointLower,
          CheckpointBroadcast, BarrierIncrement, BarrierReachesZero,
          CheckpointRunnableThread, CheckpointSuspendedThread,
          CheckpointTargetNotRunnable, CheckpointRequestFails, OpTypes
    <3>2. state' = state
      BY ZenonT(40), <2>3, RunCheckpointFrame
    <3> QED
      BY ZenonT(40), <3>1, <3>2 DEF CheckpointOther, IsSuspended, OpTypes
  <2>4. CASE SyncSteps(t)
    <3>1. \/ op[t] \in HeldOps /\ current'[t] = current[t]
          \/ current'[t] = current[t] /\ state[current[t]] # "Runnable"
      BY ZenonT(40), <1>4, <2>4
      DEF SyncSteps, SyncRaise, RaiseSuspendCount, SyncTargetSuspended,
          SyncRun, RunClosure, SyncLower, LowerSuspendCounts, SyncBroadcast,
          BroadcastResumeCond, RequestSynchronousCheckpoint, EnqueueCheckpoint,
          NewClosure, SyncTargetNotRunnable, OpTypes, IsSuspended
    <3>2. state' = state
      BY ZenonT(40), <2>4, SyncFrame
    <3> QED
      BY ZenonT(40), <1>2, <3>1, <3>2
  <2>5. CASE \/ SuspendSteps(t) \/ AttachSteps(t) \/ EmptySteps(t)
             \/ FlipSteps(t) \/ JniSteps(t)
    <3>1. op'[t] \notin HeldOps
      BY ZenonT(40), <2>5, SuspendFrame, AttachFrame, EmptyFrame, FlipFrame,
         JniFrame
      DEF RequestingOps, SuspendAllOps, ByIdOps, CountingOps, CheckpointOps,
          EmptyOps, FlipOps
    <3> QED
      BY ZenonT(40), <1>4, <3>1
  <2> QED
    BY ZenonT(40), <2>1, <2>2, <2>3, <2>4, <2>5 DEF AnyStep
<1>5. ASSUME op'[t] \in FlipOps, NEW u \in raised'[t]
      PROVE  state'[u] # "Runnable"
  <2>1. CASE TransitionSteps(t)
    BY ZenonT(40), <1>3, <1>5, <2>1, TransitionFrame
  <2>2. CASE FlipResumeRunnable(t)
    <3>1. /\ u \in list \ {t} /\ state' = state
          /\ op[t] = "flipResume"
      BY ZenonT(40), <1>5, <2>2 DEF FlipResumeRunnable, OpTypes
    <3>2. todo[t] = {}
      BY ZenonT(40), <3>1 DEF TodoInv, LoopOps
    <3>3. u \in SuspendAllTargets(t)
      BY ZenonT(40), <3>1, <3>2 DEF SuspendAllTargets, SuspendAllOps
    <3>4. u \in Threads /\ t \notin barriers[u]
      BY ZenonT(40), <3>1 DEF LockTypes, BarrierInv, RequestingOps
    <3> QED
      BY ZenonT(40), <3>1, <3>3, <3>4 DEF AskedInv
  <2>3. CASE FlipSteps(t) /\ ~FlipResumeRunnable(t)
    <3>1. \/ op[t] \in FlipOps /\ raised'[t] \subseteq raised[t]
          \/ op[t] = "none" /\ raised'[t] = raised[t]
      BY ZenonT(40), <1>5, <2>3
      DEF FlipSteps, FlipThreadRoots, ThreadFlipBegun, FlipSuspendAll,
          EnterSuspendAllInternal, FlipUnlockMutator, LowerSuspendCounts,
          BroadcastResumeCond, ThreadFlipEnd, FlipLockShared, FlipUnlockShared,
          FlipResumeOthers, FlipOther, OpTypes, FlipOps
    <3>2. op[t] # "none" \/ raised[t] = {}
      BY ZenonT(40) DEF RaisedInv, RaisingOps
    <3> QED
      BY ZenonT(40), <1>3, <1>5, <3>1, <3>2
  <2>4. CASE ~TransitionSteps(t) /\ ~FlipSteps(t)
    <3>1. op'[t] \notin FlipOps
      BY ZenonT(40), <2>4, SuspendFrame, ByIdFrame, AttachFrame,
         RunCheckpointFrame, SyncFrame, EmptyFrame, JniFrame
      DEF AnyStep, RequestingOps, SuspendAllOps, ByIdOps, CountingOps,
          CheckpointOps, EmptyOps, FlipOps
    <3> QED
      BY ZenonT(40), <1>5, <3>1
  <2> QED
    BY ZenonT(40), <2>1, <2>2, <2>3, <2>4
<1> QED
  BY ZenonT(40), <1>2, <1>3, <1>4, <1>5 DEF HeldInv, Alone

-----------------------------------------------------------------------------
(***************************************************************************)
(* The thread flip.                                                        *)
(***************************************************************************)

\* A thread gets into the flip by FlipThreadRoots only.
LEMMA IntoFlip ==
  ASSUME OpTypes, FlipInv, NEW t \in Threads, AnyStep(t), Alone(t),
         NEW s \in Threads, InFlip(s)'
  PROVE  InFlip(s) \/ (s = t /\ FlipThreadRoots(t))
<1>1. CASE s # t
  BY ZenonT(40), <1>1 DEF InFlip, Alone
<1>2. CASE s = t /\ TransitionSteps(t)
  BY ZenonT(40), <1>2, TransitionFrame DEF InFlip
<1>3. CASE s = t /\ SuspendSteps(t)
  <2>1. op'[t] \notin FlipOps
    BY ZenonT(40), <1>3, SuspendFrame DEF SuspendAllOps, RequestingOps, FlipOps
  <2>2. op'[t] \in SuspendAllOps /\ caller'[t] = "FlipThreadRoots"
    BY ZenonT(40), <1>3, <2>1 DEF InFlip
  <2>3. op[t] \in SuspendAllOps /\ caller[t] = "FlipThreadRoots"
    BY ZenonT(40), <1>3, <2>2
    DEF SuspendSteps, SuspendAll, EnterSuspendAllInternal, CheckSuspended,
        FinishRequests, SuspendBarrierPassed, LockMutatorExclusive, ResumeAll,
        LowerAllAndBroadcast, RequestSuspend, RequestSuspendFails, OpTypes,
        SuspendAllOps, RequestingOps
  <2> QED
    BY ZenonT(40), <1>3, <2>3 DEF InFlip
<1>4. CASE s = t /\ FlipSteps(t)
  <2>1. \/ FlipThreadRoots(t)
        \/ op[t] \in FlipOps
        \/ op[t] = "allSuspended" /\ caller[t] = "FlipThreadRoots"
        \/ op[t] = "flipResume"
    BY ZenonT(40), <1>4
    DEF FlipSteps, ThreadFlipBegun, FlipSuspendAll, FlipUnlockMutator,
        FlipResumeRunnable, ThreadFlipEnd, FlipLockShared, FlipUnlockShared,
        FlipResumeOthers, FlipOther, FlipOps
  <2> QED
    BY ZenonT(40), <1>4, <2>1 DEF InFlip, FlipInv, SuspendAllOps
<1>5. CASE s = t /\ ~TransitionSteps(t) /\ ~SuspendSteps(t) /\ ~FlipSteps(t)
  <2>1. op'[t] \notin FlipOps \union SuspendAllOps
    BY ZenonT(40), <1>5, ByIdFrame, AttachFrame, RunCheckpointFrame, SyncFrame,
       EmptyFrame, JniFrame
    DEF AnyStep, RequestingOps, SuspendAllOps, ByIdOps, CountingOps,
        CheckpointOps, EmptyOps, FlipOps
  <2> QED
    BY ZenonT(40), <1>5, <2>1 DEF InFlip
<1> QED
  BY ZenonT(40), <1>1, <1>2, <1>3, <1>4, <1>5

\* Only FlipThreadRoots comes to the resumption of the threads it has given
\* flip functions.
LEMMA FlipResumeCaller ==
  ASSUME OpTypes, FlipInv, NEW t \in Threads, AnyStep(t), Alone(t)
  PROVE  \A s \in Threads : op'[s] = "flipResume" => caller'[s] = "FlipThreadRoots"
<1> SUFFICES ASSUME op'[t] = "flipResume" PROVE caller'[t] = "FlipThreadRoots"
  BY ZenonT(40) DEF Alone, FlipInv
<1>1. CASE TransitionSteps(t)
  BY ZenonT(40), <1>1, TransitionFrame DEF FlipInv
<1>2. CASE SuspendSteps(t)
  BY ZenonT(40), <1>2
  DEF SuspendSteps, SuspendAll, EnterSuspendAllInternal, CheckSuspended,
      FinishRequests, SuspendBarrierPassed, LockMutatorExclusive, ResumeAll,
      LowerAllAndBroadcast, RequestSuspend, RequestSuspendFails, OpTypes
<1>3. CASE FlipSteps(t)
  BY ZenonT(40), <1>3
  DEF FlipSteps, FlipThreadRoots, ThreadFlipBegun, FlipSuspendAll,
      EnterSuspendAllInternal, FlipUnlockMutator, FlipResumeRunnable,
      ThreadFlipEnd, FlipLockShared, FlipUnlockShared, FlipResumeOthers,
      FlipOther, OpTypes
<1>4. CASE ~TransitionSteps(t) /\ ~SuspendSteps(t) /\ ~FlipSteps(t)
  BY ZenonT(40), <1>4, ByIdFrame, AttachFrame, RunCheckpointFrame, SyncFrame,
     EmptyFrame, JniFrame
  DEF AnyStep, RequestingOps, SuspendAllOps, ByIdOps, CountingOps,
      CheckpointOps, EmptyOps, FlipOps
<1> QED
  BY ZenonT(40), <1>1, <1>2, <1>3, <1>4

\* A thread in kWaitingForGcThreadFlip waits for the end of a flip, begins one,
\* or is on its way to kRunnable.
LEMMA GcThreadFlipState ==
  ASSUME WordTypes, OpTypes, FlipInv, NEW t \in Threads, AnyStep(t), Alone(t)
  PROVE  \A u \in Threads :
           state'[u] = "WaitingForGcThreadFlip" =>
             \/ op'[u] \in {"jniWait", "threadFlipBegin"}
             \/ pc'[u] \in {"toRunnable", "waitResume"}
<1> SUFFICES ASSUME state'[t] = "WaitingForGcThreadFlip"
             PROVE  \/ op'[t] \in {"jniWait", "threadFlipBegin"}
                    \/ pc'[t] \in {"toRunnable", "waitResume"}
  BY ZenonT(40) DEF Alone, FlipInv
<1>1. CASE TransitionSteps(t)
  <2>1. op' = op
    BY ZenonT(40), <1>1, TransitionFrame
  <2>2. state[t] = "WaitingForGcThreadFlip"
    BY ZenonT(40), <1>1
    DEF TransitionSteps, LeaveRunnable, ReturnFromNative, SpuriousWakeup,
        RunCheckpointFunction, RunClosure, RunEmptyCheckpoint,
        FullSuspendCheck, LeaveRunnableToWait, ReturnToRunnable,
        ClaimSuspendBarriers, FinishTransitionToSuspended, BecomeRunnable,
        WaitForResume, ResumeCondNotified, RunFlipFunction, PassSuspendBarrier,
        TransitionToSuspendedAndRunCheckpoints, EnterTransitionToRunnable,
        WordTypes
  <2>3. pc[t] \in {"toRunnable", "waitResume"}
           => pc'[t] \in {"toRunnable", "waitResume"}
    BY ZenonT(40), <1>1
    DEF TransitionSteps, LeaveRunnable, ReturnFromNative, SpuriousWakeup,
        RunCheckpointFunction, RunClosure, RunEmptyCheckpoint,
        FullSuspendCheck, LeaveRunnableToWait, ReturnToRunnable,
        ClaimSuspendBarriers, FinishTransitionToSuspended, BecomeRunnable,
        WaitForResume, ResumeCondNotified, RunFlipFunction, PassSuspendBarrier,
        TransitionToSuspendedAndRunCheckpoints, EnterTransitionToRunnable,
        WordTypes
  <2> QED
    BY ZenonT(40), <2>1, <2>2, <2>3 DEF FlipInv
<1>2. CASE \/ SuspendSteps(t) \/ ByIdSteps(t) \/ RunCheckpointSteps(t)
           \/ SyncSteps(t) \/ EmptySteps(t)
  <2>1. UNCHANGED <<state, pc>>
    BY ZenonT(40), <1>2, SuspendFrame, ByIdFrame, RunCheckpointFrame,
       SyncFrame, EmptyFrame
  <2>2. op[t] \notin {"jniWait", "threadFlipBegin"}
    BY ZenonT(40), <1>2, SuspendFrame, ByIdFrame, RunCheckpointFrame,
       SyncFrame, EmptyFrame
    DEF RequestingOps, SuspendAllOps, ByIdOps, CountingOps, CheckpointOps,
        EmptyOps, FlipOps
  <2> QED
    BY ZenonT(40), <2>1, <2>2 DEF FlipInv
<1>3. CASE AttachSteps(t)
  BY ZenonT(40), <1>3
  DEF AttachSteps, Register, Unregister, RemoveFromList, FinishUnregister,
      WordTypes, FlipInv
<1>4. CASE FlipSteps(t)
  <2>1. pc' = pc
    BY ZenonT(40), <1>4, FlipFrame
  <2>2. \/ op'[t] = "threadFlipBegin"
        \/ state'[t] = "Native"
        \/ state' = state /\ op[t] \notin {"jniWait", "threadFlipBegin"}
    BY ZenonT(40), <1>4
    DEF FlipSteps, FlipThreadRoots, ThreadFlipBegun, FlipSuspendAll,
        EnterSuspendAllInternal, FlipUnlockMutator, FlipResumeRunnable,
        ThreadFlipEnd, FlipLockShared, FlipUnlockShared, FlipResumeOthers,
        FlipOther, WordTypes, OpTypes
  <2> QED
    BY ZenonT(40), <2>1, <2>2 DEF FlipInv
<1>5. CASE JniSteps(t)
  BY ZenonT(40), <1>5
  DEF JniSteps, EnterCritical, TransitionToSuspendedAndRunCheckpoints,
      EnterNestedCritical, IncrementDisableThreadFlip,
      EnterTransitionToRunnable, DecrementDisableThreadFlip, WordTypes,
      OpTypes, FlipInv
<1> QED
  BY ZenonT(40), <1>1, <1>2, <1>3, <1>4, <1>5 DEF AnyStep

\* Only FlipThreadRoots gives threads flip functions.
LEMMA FlipFunctionsGiven ==
  ASSUME FlipTypes, OpTypes, NEW t \in Threads, AnyStep(t), ~FlipResumeRunnable(t),
         NEW u \in Threads, flipFunction'[u]
  PROVE  flipFunction[u]
<1>1. CASE UNCHANGED flipFunction
  BY ZenonT(40), <1>1
<1>2. CASE \E v : flipFunction' = [flipFunction EXCEPT ![v] = FALSE]
  BY ZenonT(40), <1>2 DEF FlipTypes
<1>3. CASE TransitionSteps(t)
  <2>1. RunCheckpointFunction(t) \/ RunFlipFunction(t) \/ UNCHANGED flipFunction
    BY ZenonT(40), <1>3, TransitionFrame
  <2> QED
    BY ZenonT(40), <1>1, <1>2, <2>1
    DEF RunCheckpointFunction, RunClosure, RunFlipFunction
<1>4. CASE RunCheckpointSteps(t)
  <2>1. (\E v : RunClosure(t, v)) \/ UNCHANGED flipFunction
    BY ZenonT(40), <1>4
    DEF RunCheckpointSteps, RunCheckpoint, NewClosure, CheckpointSelf,
        CheckpointLower, CheckpointBroadcast, BarrierIncrement,
        BarrierReachesZero, CheckpointRunnableThread, EnqueueCheckpoint,
        CheckpointSuspendedThread, CheckpointTargetNotRunnable,
        CheckpointRequestFails, CheckpointOther
  <2> QED
    BY ZenonT(40), <1>1, <1>2, <2>1 DEF RunClosure
<1>5. CASE SyncSteps(t)
  <2>1. (\E v : RunClosure(t, v)) \/ UNCHANGED flipFunction
    BY ZenonT(40), <1>5
    DEF SyncSteps, SyncRaise, SyncTargetSuspended, SyncRun, SyncLower,
        SyncBroadcast, RequestSynchronousCheckpoint, EnqueueCheckpoint,
        NewClosure, SyncTargetNotRunnable
  <2> QED
    BY ZenonT(40), <1>1, <1>2, <2>1 DEF RunClosure
<1>6. CASE FlipSteps(t)
  BY ZenonT(40), <1>1, <1>2, <1>6
  DEF FlipSteps, FlipThreadRoots, ThreadFlipBegun, FlipSuspendAll,
      EnterSuspendAllInternal, FlipUnlockMutator, ThreadFlipEnd,
      FlipLockShared, FlipUnlockShared, FlipResumeOthers, FlipOther
<1>7. CASE \/ SuspendSteps(t) \/ ByIdSteps(t) \/ AttachSteps(t)
           \/ EmptySteps(t) \/ JniSteps(t)
  BY ZenonT(40), <1>1, <1>7, SuspendFrame, ByIdFrame, AttachFrame, EmptyFrame,
     JniFrame
<1> QED
  BY ZenonT(40), <1>3, <1>4, <1>5, <1>6, <1>7 DEF AnyStep

\* A pending flip function keeps somebody who will run it.
LEMMA WillBeFlippedPreserved ==
  ASSUME WordTypes, FlipTypes, OpTypes, NEW t \in Threads, AnyStep(t), Alone(t),
         ~FlipResumeRunnable(t), NEW u \in Threads, WillBeFlipped(u),
         flipFunction'[u]
  PROVE  WillBeFlipped(u)'
<1>1. CASE pc[u] \in {"toRunnable", "waitResume", "runFlip"}
  <2>1. CASE u # t
    BY ZenonT(40), <1>1, <2>1 DEF Alone, WillBeFlipped
  <2>2. CASE u = t /\ TransitionSteps(t)
    <3>1. pc'[t] \in {"toRunnable", "waitResume", "runFlip"} \/ RunFlipFunction(t)
      BY ZenonT(40), <1>1, <2>2
      DEF TransitionSteps, LeaveRunnable, ReturnFromNative, SpuriousWakeup,
          RunCheckpointFunction, RunClosure, RunEmptyCheckpoint,
          FullSuspendCheck, LeaveRunnableToWait, ReturnToRunnable,
          ClaimSuspendBarriers, FinishTransitionToSuspended, BecomeRunnable,
          WaitForResume, ResumeCondNotified, PassSuspendBarrier,
          TransitionToSuspendedAndRunCheckpoints, EnterTransitionToRunnable,
          WordTypes
    <3>2. CASE RunFlipFunction(t)
      BY ZenonT(40), <2>2, <3>2 DEF RunFlipFunction, FlipTypes
    <3> QED
      BY ZenonT(40), <2>2, <3>1, <3>2 DEF WillBeFlipped
  <2>3. CASE u = t /\ AttachSteps(t)
    BY ZenonT(40), <1>1, <2>3
    DEF AttachSteps, Register, Unregister, RemoveFromList, FinishUnregister,
        WillBeFlipped
  <2>4. CASE u = t /\ JniSteps(t)
    BY ZenonT(40), <1>1, <2>4
    DEF JniSteps, EnterCritical, TransitionToSuspendedAndRunCheckpoints,
        EnterNestedCritical, IncrementDisableThreadFlip,
        EnterTransitionToRunnable, DecrementDisableThreadFlip, WillBeFlipped
  <2>5. CASE /\ u = t
             /\ ~TransitionSteps(t) /\ ~AttachSteps(t) /\ ~JniSteps(t)
    <3>1. pc' = pc
      BY ZenonT(40), <2>5, SuspendFrame, ByIdFrame, RunCheckpointFrame,
         SyncFrame, EmptyFrame, FlipFrame DEF AnyStep
    <3> QED
      BY ZenonT(40), <1>1, <3>1 DEF WillBeFlipped
  <2> QED
    BY ZenonT(40), <2>1, <2>2, <2>3, <2>4, <2>5
<1>2. CASE op[u] = "jniWait"
  <2>1. CASE u # t
    BY ZenonT(40), <1>2, <2>1 DEF Alone, WillBeFlipped
  <2>2. CASE u = t /\ TransitionSteps(t)
    BY ZenonT(40), <1>2, <2>2, TransitionFrame DEF WillBeFlipped
  <2>3. CASE u = t /\ JniSteps(t)
    BY ZenonT(40), <1>2, <2>3
    DEF JniSteps, EnterCritical, TransitionToSuspendedAndRunCheckpoints,
        EnterNestedCritical, IncrementDisableThreadFlip,
        EnterTransitionToRunnable, DecrementDisableThreadFlip, WordTypes,
        WillBeFlipped
  <2>4. CASE u = t /\ ~TransitionSteps(t) /\ ~JniSteps(t)
    BY ZenonT(40), <1>2, <2>4, SuspendFrame, ByIdFrame, AttachFrame,
       RunCheckpointFrame, SyncFrame, EmptyFrame, FlipFrame
    DEF AnyStep, RequestingOps, SuspendAllOps, ByIdOps, CountingOps,
        CheckpointOps, EmptyOps, FlipOps
  <2> QED
    BY ZenonT(40), <2>1, <2>2, <2>3, <2>4
<1>3. ASSUME NEW s \in Threads, u \in raised[s] \union {s},
             \/ op[s] \in {"threadFlipEnd", "flipLockShared"}
             \/ op[s] = "flipOthers" /\ u \in todo[s]
      PROVE  WillBeFlipped(u)'
  <2>1. CASE s # t
    BY ZenonT(40), <1>3, <2>1 DEF Alone, WillBeFlipped
  <2>2. CASE s = t /\ TransitionSteps(t)
    BY ZenonT(40), <1>3, <2>2, TransitionFrame DEF WillBeFlipped
  <2>3. CASE s = t /\ ThreadFlipEnd(t)
    <3>1. op'[t] = "flipLockShared" /\ raised' = raised
      BY ZenonT(40), <2>3 DEF ThreadFlipEnd, OpTypes
    <3> QED
      BY ZenonT(40), <1>3, <2>3, <3>1 DEF WillBeFlipped
  <2>4. CASE s = t /\ FlipLockShared(t)
    <3>1. /\ op'[t] = "flipOthers" /\ raised' = raised
          /\ todo'[t] = raised[t] \union {t}
      BY ZenonT(40), <2>4 DEF FlipLockShared, OpTypes
    <3> QED
      BY ZenonT(40), <1>3, <2>4, <3>1 DEF WillBeFlipped
  <2>5. CASE s = t /\ \E v \in Threads : FlipOther(t, v)
    <3>1. PICK v \in Threads : FlipOther(t, v)
      BY ZenonT(40), <2>5
    <3>2. /\ op[t] = "flipOthers" /\ op' = op /\ raised' = raised
          /\ todo'[t] = todo[t] \ {v}
          /\ flipFunction' = [flipFunction EXCEPT ![v] = FALSE]
      BY ZenonT(40), <3>1 DEF FlipOther, OpTypes
    <3>3. u # v
      BY ZenonT(40), <3>2 DEF FlipTypes
    <3> QED
      BY ZenonT(40), <1>3, <2>5, <3>2, <3>3 DEF WillBeFlipped
  <2>6. CASE /\ s = t /\ FlipSteps(t) /\ ~ThreadFlipEnd(t) /\ ~FlipLockShared(t)
             /\ ~\E v \in Threads : FlipOther(t, v)
    BY ZenonT(40), <1>3, <2>6
    DEF FlipSteps, FlipThreadRoots, ThreadFlipBegun, FlipSuspendAll,
        FlipUnlockMutator, FlipResumeRunnable, FlipUnlockShared,
        FlipResumeOthers
  <2>7. CASE s = t /\ ~TransitionSteps(t) /\ ~FlipSteps(t)
    BY ZenonT(40), <1>3, <2>7, SuspendFrame, ByIdFrame, AttachFrame,
       RunCheckpointFrame, SyncFrame, EmptyFrame, JniFrame
    DEF AnyStep, RequestingOps, SuspendAllOps, ByIdOps, CountingOps,
        CheckpointOps, EmptyOps, FlipOps
  <2> QED
    BY ZenonT(40), <2>1, <2>2, <2>3, <2>4, <2>5, <2>6, <2>7
<1> QED
  BY ZenonT(40), <1>1, <1>2, <1>3 DEF WillBeFlipped

\* FlipThreadRoots gives every attached thread a flip function: it holds the
\* others suspended and runs theirs, and those it resumes run their own.
LEMMA GivenFlipFunctions ==
  ASSUME LockTypes, OpTypes, StateInv, FlipInv, FlipTypes,
         NEW t \in Threads, FlipResumeRunnable(t),
         Alone(t), NEW u \in Threads, flipFunction'[u]
  PROVE  WillBeFlipped(u)'
<1>1. /\ op[t] = "flipResume" /\ op' = [op EXCEPT ![t] = "threadFlipEnd"]
      /\ raised' = [raised EXCEPT ![t] = list \ ({t} \union ResumedEarly(t))]
      /\ UNCHANGED <<state, pc, transitioning, todo>>
  BY ZenonT(40) DEF FlipResumeRunnable
<1>2. u \in list \/ flipFunction[u]
  BY ZenonT(40) DEF FlipResumeRunnable
<1>3. op'[t] = "threadFlipEnd"
  BY ZenonT(40), <1>1 DEF OpTypes
<1>4. raised'[t] = list \ ({t} \union ResumedEarly(t))
  BY ZenonT(40), <1>1 DEF OpTypes
<1>5. CASE u = t \/ u \in raised'[t]
  BY ZenonT(40), <1>3, <1>5 DEF WillBeFlipped
<1>6. CASE u # t /\ u \in ResumedEarly(t)
  <2>1. state[u] = "WaitingForGcThreadFlip" \/ transitioning[u]
    BY ZenonT(40), <1>6 DEF ResumedEarly
  <2>2. op[u] # "threadFlipBegin"
    <3>1. InFlip(t)
      BY ZenonT(40), <1>1 DEF FlipInv, InFlip, SuspendAllOps
    <3> QED
      BY ZenonT(40), <1>6, <3>1, FlipRolesAssumption
      DEF FlipInv, InFlip, FlipOps
  <2>3. op[u] = "jniWait" \/ pc[u] \in {"toRunnable", "waitResume"}
    BY ZenonT(40), <2>1, <2>2 DEF FlipInv, StateInv
  <2> QED
    BY ZenonT(40), <1>1, <1>6, <2>3 DEF WillBeFlipped, Alone
<1>7. CASE u \notin list
  <2>1. WillBeFlipped(u)
    BY ZenonT(40), <1>2, <1>7 DEF FlipInv
  <2>2. pc[u] = "unborn"
    BY ZenonT(40), <1>7 DEF StateInv
  <2> QED
    BY ZenonT(40), <1>1, <1>5, <1>7, <2>1, <2>2
    DEF WillBeFlipped, Alone, FlipInv
<1> QED
  BY ZenonT(40), <1>2, <1>4, <1>5, <1>6, <1>7

\* The thread flip: every step preserves FlipInv.
LEMMA FlipInvPreserved ==
  ASSUME WordTypes, FlipTypes, LockTypes, OpTypes, StateInv, FlipInv,
         NEW t \in Threads, AnyStep(t), Alone(t)
  PROVE  FlipInv'
<1>1. ASSUME NEW u \in Threads, flipFunction'[u]
      PROVE  WillBeFlipped(u)'
  <2>1. CASE FlipResumeRunnable(t)
    BY ZenonT(40), <1>1, <2>1, GivenFlipFunctions
  <2>2. CASE ~FlipResumeRunnable(t)
    <3>1. WillBeFlipped(u)
      BY ZenonT(40), <1>1, <2>2, FlipFunctionsGiven DEF FlipInv
    <3> QED
      BY ZenonT(40), <1>1, <2>2, <3>1, WillBeFlippedPreserved
  <2> QED
    BY ZenonT(40), <2>1, <2>2
<1>2. ASSUME NEW s \in Threads, InFlip(s)'
      PROVE  s \in Flippers
  BY ZenonT(40), <1>2, IntoFlip DEF FlipInv, FlipThreadRoots
<1> QED
  BY ZenonT(40), <1>1, <1>2, FlipResumeCaller, GcThreadFlipState DEF FlipInv

-----------------------------------------------------------------------------
(***************************************************************************)
(* JNI critical sections.                                                  *)
(***************************************************************************)

\* thread_flip_running_ is set from ThreadFlipBegin to ThreadFlipEnd.
LEMMA FlipRunningPreserved ==
  ASSUME OpTypes, FlipInv, CriticalInv, NEW t \in Threads, AnyStep(t), Alone(t),
         NEW s \in Threads, InFlip(s)',
         op'[s] \notin {"flipLockShared", "flipOthers", "flipResumeOthers"}
  PROVE  threadFlipRunning'
<1> DEFINE Late == {"flipLockShared", "flipOthers", "flipResumeOthers"}
<1>1. CASE FlipThreadRoots(t)
  BY ZenonT(40), <1>1 DEF FlipThreadRoots
<1>2. CASE ThreadFlipEnd(t)
  <2>1. s # t
    BY ZenonT(40), <1>2 DEF ThreadFlipEnd, OpTypes
  <2>2. InFlip(s) /\ InFlip(t)
    BY ZenonT(40), <1>2, <2>1, IntoFlip DEF ThreadFlipEnd, InFlip, FlipOps
  <2> QED
    BY ZenonT(40), <2>1, <2>2, FlipRolesAssumption DEF FlipInv
<1>3. CASE ~FlipThreadRoots(t) /\ ~ThreadFlipEnd(t)
  <2>1. threadFlipRunning' = threadFlipRunning
    <3>1. CASE FlipSteps(t)
      BY ZenonT(40), <1>3, <3>1
      DEF FlipSteps, ThreadFlipBegun, FlipSuspendAll, FlipUnlockMutator,
          FlipResumeRunnable, FlipLockShared, FlipUnlockShared,
          FlipResumeOthers, FlipOther
    <3>2. CASE JniSteps(t)
      BY ZenonT(40), <3>2
      DEF JniSteps, EnterCritical, EnterNestedCritical,
          IncrementDisableThreadFlip, DecrementDisableThreadFlip
    <3>3. CASE ~FlipSteps(t) /\ ~JniSteps(t)
      BY ZenonT(40), <3>3, TransitionFrame
      DEF AnyStep, SuspendSteps, ByIdSteps, AttachSteps, RunCheckpointSteps,
          SyncSteps, EmptySteps
    <3> QED
      BY ZenonT(40), <3>1, <3>2, <3>3
  <2>2. InFlip(s)
    BY ZenonT(40), <1>3, IntoFlip
  <2>3. op[s] \notin Late
    <3>1. CASE s # t
      BY ZenonT(40), <3>1 DEF Alone
    <3>2. CASE s = t /\ TransitionSteps(t)
      BY ZenonT(40), <3>2, TransitionFrame
    <3>3. CASE s = t /\ FlipSteps(t)
      <4>1. op[t] \in Late => op'[t] \in Late \union {"none"}
        BY ZenonT(40), <3>3
        DEF FlipSteps, FlipThreadRoots, ThreadFlipBegun, FlipSuspendAll,
            FlipUnlockMutator, FlipResumeRunnable, ThreadFlipEnd,
            FlipLockShared, FlipUnlockShared, FlipResumeOthers, FlipOther,
            OpTypes
      <4>2. op'[t] # "none"
        BY ZenonT(40), <3>3 DEF InFlip, FlipOps, SuspendAllOps, RequestingOps
      <4> QED
        BY ZenonT(40), <3>3, <4>1, <4>2
    <3>4. CASE s = t /\ ~TransitionSteps(t) /\ ~FlipSteps(t)
      BY ZenonT(40), <3>4, SuspendFrame, ByIdFrame, AttachFrame,
         RunCheckpointFrame, SyncFrame, EmptyFrame, JniFrame
      DEF AnyStep, RequestingOps, SuspendAllOps, ByIdOps, CountingOps,
          CheckpointOps, EmptyOps, FlipOps
    <3> QED
      BY ZenonT(40), <3>1, <3>2, <3>3, <3>4
  <2> QED
    BY ZenonT(40), <2>1, <2>2, <2>3 DEF CriticalInv
<1> QED
  BY ZenonT(40), <1>1, <1>2, <1>3

\* The flipper, from the end of its wait for critical sections to the
\* resumption of the threads.
LEMMA FlipSuspends ==
  ASSUME OpTypes, FlipInv, NEW t \in Threads, AnyStep(t), Alone(t),
         NEW s \in Threads,
         (op[s] = "flipSuspendAll" \/ (op[s] \in SuspendAllOps /\ InFlip(s)))'
  PROVE  \/ op[s] = "flipSuspendAll" \/ (op[s] \in SuspendAllOps /\ InFlip(s))
         \/ s = t /\ ThreadFlipBegun(t)
<1>1. CASE s # t
  BY ZenonT(40), <1>1 DEF Alone, InFlip
<1>2. CASE s = t /\ TransitionSteps(t)
  BY ZenonT(40), <1>2, TransitionFrame DEF InFlip
<1>3. CASE s = t /\ SuspendSteps(t)
  <2>1. InFlip(s)' /\ ~FlipThreadRoots(t)
    <3>1. op'[t] # "flipSuspendAll" /\ op'[t] \notin FlipOps
      BY ZenonT(40), <1>3, SuspendFrame
      DEF SuspendAllOps, RequestingOps, FlipOps
    <3> QED
      BY ZenonT(40), <1>3, <3>1 DEF FlipThreadRoots, OpTypes, FlipOps
  <2>2. InFlip(t)
    BY ZenonT(40), <1>3, <2>1, IntoFlip
  <2>3. op[t] \notin FlipOps
    BY ZenonT(40), <1>3, SuspendFrame DEF SuspendAllOps, RequestingOps, FlipOps
  <2> QED
    BY ZenonT(40), <1>3, <2>2, <2>3 DEF InFlip
<1>4. CASE s = t /\ FlipSteps(t)
  <2>1. \/ ThreadFlipBegun(t)
        \/ op[t] = "flipSuspendAll"
        \/ op[t] = "allSuspended" /\ caller[t] = "FlipThreadRoots"
    BY ZenonT(40), <1>4
    DEF FlipSteps, FlipThreadRoots, FlipSuspendAll, EnterSuspendAllInternal,
        FlipUnlockMutator, FlipResumeRunnable, ThreadFlipEnd, FlipLockShared,
        FlipUnlockShared, FlipResumeOthers, FlipOther, OpTypes, SuspendAllOps,
        RequestingOps
  <2> QED
    BY ZenonT(40), <1>4, <2>1 DEF InFlip, SuspendAllOps
<1>5. CASE s = t /\ ~TransitionSteps(t) /\ ~SuspendSteps(t) /\ ~FlipSteps(t)
  BY ZenonT(40), <1>5, ByIdFrame, AttachFrame, RunCheckpointFrame, SyncFrame,
     EmptyFrame, JniFrame
  DEF AnyStep, RequestingOps, SuspendAllOps, ByIdOps, CountingOps,
      CheckpointOps, EmptyOps, FlipOps
<1> QED
  BY ZenonT(40), <1>1, <1>2, <1>3, <1>4, <1>5

\* disable_thread_flip_count_ counts the threads inside JNI critical sections,
\* and who waits to enter one has counted it for itself.
LEMMA DisableCountPreserved ==
  ASSUME CardinalityFacts, OpTypes, RestTypes, CriticalInv,
         NEW t \in Threads, AnyStep(t), Alone(t)
  PROVE  /\ \A u \in Threads : op'[u] = "jniWait" => critical'[u] > 0
         /\ disableThreadFlipCount' = Cardinality(
              {u \in Threads : critical'[u] > 0 /\ op'[u] # "jniWait"})
<1> DEFINE S == {u \in Threads : critical[u] > 0 /\ op[u] # "jniWait"}
           Goal == /\ \A u \in Threads : op'[u] = "jniWait" => critical'[u] > 0
                   /\ disableThreadFlipCount' = Cardinality(S')
<1>0. /\ S \in SUBSET Threads /\ disableThreadFlipCount = Cardinality(S)
      /\ \A u \in Threads : op[u] = "jniWait" => critical[u] > 0
  BY ZenonT(40) DEF CriticalInv
<1>1. CASE EnterNestedCritical(t)
  <2>1. critical[t] > 0 /\ critical'[t] > 0
    BY <1>1 DEF EnterNestedCritical, RestTypes
  <2>2. UNCHANGED <<op, disableThreadFlipCount>>
    BY ZenonT(40), <1>1 DEF EnterNestedCritical
  <2>3. S' = S
    BY ZenonT(40), <2>1, <2>2 DEF Alone
  <2> QED
    BY ZenonT(40), <1>0, <2>1, <2>2, <2>3 DEF Alone
<1>2. CASE EnterCritical(t)
  <2>1. ~(critical[t] > 0) /\ critical'[t] > 0
    BY <1>2 DEF EnterCritical, RestTypes
  <2>2. op'[t] = "jniWait" /\ UNCHANGED disableThreadFlipCount
    BY ZenonT(40), <1>2 DEF EnterCritical, OpTypes
  <2>3. S' = S
    BY ZenonT(40), <2>1, <2>2 DEF Alone
  <2> QED
    BY ZenonT(40), <1>0, <2>1, <2>2, <2>3 DEF Alone
<1>3. CASE IncrementDisableThreadFlip(t)
  <2>1. /\ op[t] = "jniWait" /\ op'[t] = "none" /\ critical' = critical
        /\ disableThreadFlipCount' = disableThreadFlipCount + 1
    BY ZenonT(40), <1>3 DEF IncrementDisableThreadFlip, OpTypes
  <2>2. t \notin S /\ S' = S \union {t}
    BY ZenonT(40), <1>0, <2>1 DEF Alone
  <2>3. Cardinality(S') = Cardinality(S) + 1
    BY ZenonT(40), <1>0, <2>2 DEF CardinalityFacts
  <2> QED
    BY ZenonT(40), <1>0, <2>1, <2>3 DEF Alone
<1>4. CASE DecrementDisableThreadFlip(t) /\ critical[t] = 1
  <2>1. critical[t] > 0 /\ ~(critical'[t] > 0)
    BY <1>4 DEF DecrementDisableThreadFlip, RestTypes
  <2>2. /\ op[t] = "none" /\ op' = op
        /\ disableThreadFlipCount' = disableThreadFlipCount - 1
    BY ZenonT(40), <1>4 DEF DecrementDisableThreadFlip
  <2>3. t \in S /\ S' = S \ {t}
    BY ZenonT(40), <2>1, <2>2 DEF Alone
  <2>4. Cardinality(S') = Cardinality(S) - 1
    BY ZenonT(40), <1>0, <2>3 DEF CardinalityFacts
  <2> QED
    BY ZenonT(40), <1>0, <2>2, <2>4 DEF Alone
<1>5. CASE DecrementDisableThreadFlip(t) /\ critical[t] # 1
  <2>1. critical[t] > 0 /\ critical'[t] > 0
    BY <1>5 DEF DecrementDisableThreadFlip, RestTypes
  <2>2. op[t] = "none" /\ UNCHANGED <<op, disableThreadFlipCount>>
    BY ZenonT(40), <1>5 DEF DecrementDisableThreadFlip
  <2>3. S' = S
    BY ZenonT(40), <2>1, <2>2 DEF Alone
  <2> QED
    BY ZenonT(40), <1>0, <2>1, <2>2, <2>3 DEF Alone
<1>6. CASE ~JniSteps(t)
  <2>1. UNCHANGED <<critical, disableThreadFlipCount>>
    BY ZenonT(40), <1>6, TransitionFrame, FlipFrame
    DEF AnyStep, SuspendSteps, ByIdSteps, AttachSteps, RunCheckpointSteps,
        SyncSteps, EmptySteps
  <2>2. op'[t] = "jniWait" <=> op[t] = "jniWait"
    BY ZenonT(40), <1>6, TransitionFrame, SuspendFrame, ByIdFrame, AttachFrame,
       RunCheckpointFrame, SyncFrame, EmptyFrame, FlipFrame
    DEF AnyStep, RequestingOps, SuspendAllOps, ByIdOps, CountingOps,
        CheckpointOps, EmptyOps, FlipOps
  <2>3. S' = S
    BY ZenonT(40), <2>1, <2>2 DEF Alone
  <2> QED
    BY ZenonT(40), <1>0, <2>1, <2>2, <2>3 DEF Alone
<1> QED
  BY ZenonT(40), <1>1, <1>2, <1>3, <1>4, <1>5, <1>6 DEF JniSteps

\* JNI critical sections: every step preserves CriticalInv.
LEMMA CriticalInvPreserved ==
  ASSUME CardinalityFacts, OpTypes, RestTypes, FlipInv, CriticalInv,
         NEW t \in Threads, AnyStep(t), Alone(t)
  PROVE  CriticalInv'
<1> DEFINE Suspending(s) ==
             op[s] = "flipSuspendAll" \/ (op[s] \in SuspendAllOps /\ InFlip(s))
           S == {u \in Threads : critical[u] > 0 /\ op[u] # "jniWait"}
<1>1. ASSUME NEW s \in Threads, Suspending(s)'
      PROVE  disableThreadFlipCount' = 0
  <2>1. CASE s = t /\ ThreadFlipBegun(t)
    BY ZenonT(40), <2>1 DEF ThreadFlipBegun
  <2>2. CASE Suspending(s)
    <3>1. disableThreadFlipCount = 0
      BY ZenonT(40), <2>2 DEF CriticalInv
    <3>2. CASE ~JniSteps(t)
      <4>1. disableThreadFlipCount' = disableThreadFlipCount
        BY ZenonT(40), <3>2, TransitionFrame, FlipFrame
        DEF AnyStep, SuspendSteps, ByIdSteps, AttachSteps, RunCheckpointSteps,
            SyncSteps, EmptySteps
      <4> QED
        BY ZenonT(40), <3>1, <4>1
    <3>3. CASE JniSteps(t)
      <4>1. threadFlipRunning
        <5>1. InFlip(s)
          BY ZenonT(40), <2>2 DEF InFlip, FlipOps
        <5>2. op[s] \notin {"flipLockShared", "flipOthers", "flipResumeOthers"}
          BY ZenonT(40), <2>2 DEF SuspendAllOps, RequestingOps
        <5> QED
          BY ZenonT(40), <5>1, <5>2 DEF CriticalInv
      <4>2. t \notin S
        <5>1. S \in SUBSET Threads /\ Cardinality(S) = 0
          BY ZenonT(40), <3>1 DEF CriticalInv
        <5> QED
          BY ZenonT(40), <5>1 DEF CardinalityFacts
      <4> QED
        BY ZenonT(40), <3>1, <3>3, <4>1, <4>2
        DEF JniSteps, EnterCritical, EnterNestedCritical,
            IncrementDisableThreadFlip, DecrementDisableThreadFlip
    <3> QED
      BY ZenonT(40), <3>2, <3>3
  <2> QED
    BY ZenonT(40), <1>1, <2>1, <2>2, FlipSuspends
<1>2. ASSUME NEW s \in Threads, InFlip(s)',
             op'[s] \notin {"flipLockShared", "flipOthers", "flipResumeOthers"}
      PROVE  threadFlipRunning'
  BY ZenonT(40), <1>2, FlipRunningPreserved
<1> QED
  BY ZenonT(40), <1>1, <1>2, DisableCountPreserved DEF CriticalInv

-----------------------------------------------------------------------------
(***************************************************************************)
(* RunEmptyCheckpoint.                                                     *)
(***************************************************************************)

\* The flag of an empty checkpoint is set by RequestEmptyCheckpoint and cleared
\* by RunEmptyCheckpoint of Thread only.
LEMMA EmptyFlagsKept ==
  ASSUME WordTypes, OpTypes, StateInv, EmptyInv, NEW t \in Threads, AnyStep(t),
         ~(RunEmptyCheckpoint(t) /\ TransitionSteps(t)),
         ~(\E u \in Threads : RequestEmptyCheckpoint(t, u))
  PROVE  Flagged' = Flagged
<1> DEFINE E == "EmptyCheckpointRequest"
           Kept == \A u \in Threads : E \in flags'[u] <=> E \in flags[u]
<1>1. ASSUME NEW v, NEW b, RaiseSuspendCount(v, b) PROVE Kept
  BY ZenonT(40), <1>1 DEF RaiseSuspendCount, WordTypes
<1>2. ASSUME NEW S, LowerSuspendCounts(S) PROVE Kept
  BY ZenonT(40), <1>2 DEF LowerSuspendCounts
<1>3. ASSUME NEW v, NEW b, ClearSuspendBarrier(v, b) PROVE Kept
  BY ZenonT(40), <1>3 DEF ClearSuspendBarrier, WordTypes
<1>4. ASSUME NEW v, EnqueueCheckpoint(t, v) PROVE Kept
  BY ZenonT(40), <1>4 DEF EnqueueCheckpoint, WordTypes
<1>5. CASE UNCHANGED flags
  BY ZenonT(40), <1>5 DEF Flagged
<1>6. CASE TransitionSteps(t)
  <2>1. RunCheckpointFunction(t) \/ ClaimSuspendBarriers(t) \/ UNCHANGED flags
    BY ZenonT(40), <1>6
    DEF TransitionSteps, LeaveRunnable, ReturnFromNative, SpuriousWakeup,
        FullSuspendCheck, LeaveRunnableToWait, ReturnToRunnable,
        FinishTransitionToSuspended, BecomeRunnable, WaitForResume,
        ResumeCondNotified, RunFlipFunction, PassSuspendBarrier,
        TransitionToSuspendedAndRunCheckpoints, EnterTransitionToRunnable
  <2>2. CASE RunCheckpointFunction(t)
    <3>1. Kept
      BY ZenonT(40), <2>2 DEF RunCheckpointFunction, WordTypes
    <3> QED
      BY ZenonT(40), <3>1 DEF Flagged
  <2>3. CASE ClaimSuspendBarriers(t)
    <3>1. Kept
      BY ZenonT(40), <2>3 DEF ClaimSuspendBarriers, WordTypes
    <3> QED
      BY ZenonT(40), <3>1 DEF Flagged
  <2> QED
    BY ZenonT(40), <1>5, <2>1, <2>2, <2>3
<1>7. CASE SuspendSteps(t)
  <2>1. Kept
    <3>1. \/ (\E v, b : RaiseSuspendCount(v, b)) \/ (\E S : LowerSuspendCounts(S))
          \/ (\E v, b : ClearSuspendBarrier(v, b)) \/ UNCHANGED flags
      BY ZenonT(40), <1>7
      DEF SuspendSteps, SuspendAll, EnterSuspendAllInternal, CheckSuspended,
          FinishRequests, SuspendBarrierPassed, LockMutatorExclusive,
          ResumeAll, LowerAllAndBroadcast, RequestSuspend, RequestSuspendFails
    <3> QED
      BY ZenonT(40), <3>1, <1>1, <1>2, <1>3, <1>4
  <2> QED
    BY ZenonT(40), <2>1 DEF Flagged
<1>8. CASE ByIdSteps(t)
  <2>1. Kept
    <3>1. \/ (\E v, b : RaiseSuspendCount(v, b)) \/ (\E S : LowerSuspendCounts(S))
          \/ UNCHANGED flags
      BY ZenonT(40), <1>8
      DEF ByIdSteps, ByIdGivesWay, ByIdRequest, ByIdOutcome, ByIdRequestFails,
          ByIdPoll, ByIdTimeout, ByIdRoundEnds, Resume, ResumeBroadcasts,
          SuspendThreadByThreadId
    <3> QED
      BY ZenonT(40), <3>1, <1>1, <1>2, <1>3, <1>4
  <2> QED
    BY ZenonT(40), <2>1 DEF Flagged
<1>9. CASE AttachSteps(t)
  <2>1. CASE Register(t)
    <3>1. E \notin flags[t]
      BY ZenonT(40), <2>1 DEF Register, StateInv, EmptyInv, Flagged
    <3>2. Kept
      BY ZenonT(40), <2>1, <3>1 DEF Register, WordTypes
    <3> QED
      BY ZenonT(40), <3>2 DEF Flagged
  <2>2. CASE ~Register(t)
    <3>1. UNCHANGED flags
      BY ZenonT(40), <1>9, <2>2
      DEF AttachSteps, Unregister, RemoveFromList, FinishUnregister
    <3> QED
      BY ZenonT(40), <1>5, <3>1
  <2> QED
    BY ZenonT(40), <2>1, <2>2
<1>10. CASE RunCheckpointSteps(t)
  <2>1. Kept
    <3>1. \/ (\E v, b : RaiseSuspendCount(v, b)) \/ (\E S : LowerSuspendCounts(S))
          \/ (\E v : EnqueueCheckpoint(t, v)) \/ UNCHANGED flags
      BY ZenonT(40), <1>10
      DEF RunCheckpointSteps, RunCheckpoint, CheckpointSelf, CheckpointLower,
          CheckpointBroadcast, BarrierIncrement, BarrierReachesZero,
          CheckpointRunnableThread, CheckpointSuspendedThread,
          CheckpointTargetNotRunnable, CheckpointRequestFails, CheckpointOther
    <3> QED
      BY ZenonT(40), <3>1, <1>1, <1>2, <1>3, <1>4
  <2> QED
    BY ZenonT(40), <2>1 DEF Flagged
<1>11. CASE SyncSteps(t)
  <2>1. Kept
    <3>1. \/ (\E v, b : RaiseSuspendCount(v, b)) \/ (\E S : LowerSuspendCounts(S))
          \/ (\E v : EnqueueCheckpoint(t, v)) \/ UNCHANGED flags
      BY ZenonT(40), <1>11
      DEF SyncSteps, SyncRaise, SyncTargetSuspended, SyncRun, SyncLower,
          SyncBroadcast, RequestSynchronousCheckpoint, SyncTargetNotRunnable
    <3> QED
      BY ZenonT(40), <3>1, <1>1, <1>2, <1>3, <1>4
  <2> QED
    BY ZenonT(40), <2>1 DEF Flagged
<1>12. CASE FlipSteps(t)
  <2>1. Kept
    <3>1. \/ (\E v, b : RaiseSuspendCount(v, b)) \/ (\E S : LowerSuspendCounts(S))
          \/ UNCHANGED flags
      BY ZenonT(40), <1>12
      DEF FlipSteps, FlipThreadRoots, ThreadFlipBegun, FlipSuspendAll,
          EnterSuspendAllInternal, FlipUnlockMutator, FlipResumeRunnable,
          ThreadFlipEnd, FlipLockShared, FlipUnlockShared, FlipResumeOthers,
          FlipOther
    <3> QED
      BY ZenonT(40), <3>1, <1>1, <1>2, <1>3, <1>4
  <2> QED
    BY ZenonT(40), <2>1 DEF Flagged
<1>13. CASE EmptySteps(t) \/ JniSteps(t)
  <2>1. UNCHANGED flags
    BY ZenonT(40), <1>13, JniFrame
    DEF EmptySteps, ThreadListRunEmptyCheckpoint, EmptyTargetSuspended,
        EmptyRequestsDone, EmptyBarrierIncrement, EmptyBarrierReachesZero
  <2> QED
    BY ZenonT(40), <1>5, <2>1
<1> QED
  BY ZenonT(40), <1>6, <1>7, <1>8, <1>9, <1>10, <1>11, <1>12, <1>13 DEF AnyStep

\* A thread that has yet to answer an empty checkpoint stays runnable.
LEMMA FlaggedStayRunnable ==
  ASSUME WordTypes, OpTypes, StateInv, OpInv, EmptyInv,
         NEW t \in Threads, AnyStep(t), Alone(t), NEW u \in Flagged
  PROVE  state'[u] = "Runnable"
<1>1. u \in Threads /\ state[u] = "Runnable" /\ "EmptyCheckpointRequest" \in flags[u]
  BY ZenonT(40) DEF EmptyInv, Flagged
<1>2. CASE u # t
  BY ZenonT(40), <1>1, <1>2 DEF Alone
<1>3. CASE u = t /\ TransitionSteps(t)
  BY ZenonT(40), <1>1, <1>3
  DEF TransitionSteps, LeaveRunnable, ReturnFromNative, SpuriousWakeup,
      RunCheckpointFunction, RunClosure, RunEmptyCheckpoint, FullSuspendCheck,
      LeaveRunnableToWait, ReturnToRunnable, ClaimSuspendBarriers,
      FinishTransitionToSuspended, BecomeRunnable, WaitForResume,
      ResumeCondNotified, RunFlipFunction, PassSuspendBarrier,
      TransitionToSuspendedAndRunCheckpoints, EnterTransitionToRunnable,
      WordTypes
<1>4. CASE u = t /\ AttachSteps(t)
  BY ZenonT(40), <1>1, <1>4
  DEF AttachSteps, Register, Unregister, RemoveFromList, FinishUnregister,
      StateInv
<1>5. CASE u = t /\ FlipSteps(t)
  <2>1. \/ state' = state
        \/ pc[t] = "suspended"
        \/ op[t] = "threadFlipBegin"
    BY ZenonT(40), <1>5
    DEF FlipSteps, FlipThreadRoots, ThreadFlipBegun, FlipSuspendAll,
        EnterSuspendAllInternal, FlipUnlockMutator, FlipResumeRunnable,
        ThreadFlipEnd, FlipLockShared, FlipUnlockShared, FlipResumeOthers,
        FlipOther
  <2>2. pc[t] # "suspended"
    BY ZenonT(40), <1>1, <1>5 DEF StateInv
  <2>3. op[t] # "threadFlipBegin"
    BY ZenonT(40), <2>2 DEF OpInv, FlipOps
  <2> QED
    BY ZenonT(40), <1>1, <2>1, <2>2, <2>3
<1>6. CASE u = t /\ JniSteps(t)
  BY ZenonT(40), <1>1, <1>6
  DEF JniSteps, EnterCritical, TransitionToSuspendedAndRunCheckpoints,
      EnterNestedCritical, IncrementDisableThreadFlip,
      EnterTransitionToRunnable, DecrementDisableThreadFlip, WordTypes
<1>7. CASE \/ SuspendSteps(t) \/ ByIdSteps(t) \/ RunCheckpointSteps(t)
           \/ SyncSteps(t) \/ EmptySteps(t)
  BY ZenonT(40), <1>1, <1>7, SuspendFrame, ByIdFrame, RunCheckpointFrame,
     SyncFrame, EmptyFrame
<1> QED
  BY ZenonT(40), <1>2, <1>3, <1>4, <1>5, <1>6, <1>7 DEF AnyStep

\* RunEmptyCheckpoint: every step preserves EmptyInv.
LEMMA EmptyInvPreserved ==
  ASSUME CardinalityFacts, WordTypes, LockTypes, OpTypes, RestTypes, StateInv,
         OpInv, EmptyInv, NEW t \in Threads, AnyStep(t), Alone(t)
  PROVE  EmptyInv'
<1>1. Flagged \in SUBSET Threads /\ Cardinality(Flagged) \in Nat
  BY ZenonT(40) DEF Flagged, CardinalityFacts
<1>2. CASE RunEmptyCheckpoint(t) /\ TransitionSteps(t)
  <2>1. UNCHANGED <<op, expected, state, todo>>
    BY ZenonT(40), <1>2, TransitionFrame DEF RunEmptyCheckpoint
  <2>2. t \in Flagged /\ Flagged' = Flagged \ {t}
    BY ZenonT(40), <1>2 DEF RunEmptyCheckpoint, Flagged, WordTypes
  <2>3. Cardinality(Flagged') = Cardinality(Flagged) - 1
    BY ZenonT(40), <1>1, <2>2 DEF CardinalityFacts
  <2>4. emptyBarrier' = emptyBarrier - 1
    BY ZenonT(40), <1>2 DEF RunEmptyCheckpoint
  <2>5. \A s \in Threads : op[s] \in {"emptyRequest", "emptyIncrement"}
          => emptyBarrier' + expected[s] = Cardinality(Flagged')
    BY <1>1, <2>3, <2>4 DEF EmptyInv, RestTypes
  <2>6. \A s \in Threads : op[s] = "emptyWait"
          => emptyBarrier' = Cardinality(Flagged')
    BY ZenonT(40), <2>3, <2>4 DEF EmptyInv
  <2>7. \A s \in Threads : op[s] = "emptyRequest"
          => todo[s] \intersect Flagged' = {}
    BY ZenonT(40), <2>2 DEF EmptyInv
  <2>8. /\ \A u \in Flagged' : state[u] = "Runnable"
        /\ (\A s \in Threads : op[s] \notin EmptyOps) => Flagged' = {}
    BY ZenonT(40), <2>2 DEF EmptyInv
  <2> QED
    BY ZenonT(40), <2>1, <2>5, <2>6, <2>7, <2>8 DEF EmptyInv
<1>3. ASSUME NEW u \in Threads, RequestEmptyCheckpoint(t, u) PROVE EmptyInv'
  <2>1. /\ op[t] = "emptyRequest" /\ u \in todo[t] /\ state[u] = "Runnable"
        /\ expected'[t] = expected[t] + 1 /\ todo'[t] = todo[t] \ {u}
        /\ UNCHANGED <<op, state, emptyBarrier>>
    BY ZenonT(40), <1>3 DEF RequestEmptyCheckpoint, OpTypes, RestTypes
  <2>2. u \notin Flagged
    BY ZenonT(40), <2>1 DEF EmptyInv
  <2>3. Flagged' = Flagged \union {u}
    BY ZenonT(40), <1>3 DEF RequestEmptyCheckpoint, Flagged, WordTypes
  <2>4. Cardinality(Flagged') = Cardinality(Flagged) + 1
    BY ZenonT(40), <1>1, <2>2, <2>3 DEF CardinalityFacts
  <2>5. emptyBarrier' + expected'[t] = Cardinality(Flagged')
    <3>1. emptyBarrier + expected[t] = Cardinality(Flagged)
      BY ZenonT(40), <2>1 DEF EmptyInv
    <3> QED
      BY <1>1, <2>1, <2>4, <3>1 DEF RestTypes
  <2>6. \A s \in Threads : op'[s] \in EmptyOps => s = t
    BY ZenonT(40), <2>1 DEF EmptyInv, EmptyOps
  <2>7. todo'[t] \intersect Flagged' = {}
    BY ZenonT(40), <2>1, <2>3 DEF EmptyInv
  <2>8. op'[t] = "emptyRequest" /\ op'[t] \in EmptyOps
    BY ZenonT(40), <2>1 DEF EmptyOps
  <2>9. \A v \in Flagged' : state'[v] = "Runnable"
    BY ZenonT(40), <2>1, <2>3 DEF EmptyInv
  <2> QED
    BY ZenonT(40), <2>5, <2>6, <2>7, <2>8, <2>9 DEF EmptyInv, EmptyOps
<1>4. ASSUME ~(RunEmptyCheckpoint(t) /\ TransitionSteps(t)),
             ~(\E u \in Threads : RequestEmptyCheckpoint(t, u))
      PROVE  EmptyInv'
  <2>1. Flagged' = Flagged
    BY ZenonT(40), <1>4, EmptyFlagsKept
  <2>2. \A u \in Flagged' : state'[u] = "Runnable"
    BY ZenonT(40), <2>1, FlaggedStayRunnable
  <2>6. CASE ThreadListRunEmptyCheckpoint(t)
    <3>1. Flagged = {} /\ \A s \in Threads : op[s] \notin EmptyOps
      BY ZenonT(40), <2>6 DEF ThreadListRunEmptyCheckpoint, EmptyInv
    <3>2. /\ op'[t] = "emptyRequest" /\ emptyBarrier' = 0 /\ expected'[t] = 0
      BY ZenonT(40), <2>6 DEF ThreadListRunEmptyCheckpoint, OpTypes, RestTypes
    <3>3. emptyBarrier' + expected'[t] = Cardinality(Flagged')
      <4>1. Cardinality(Flagged') = 0
        BY ZenonT(40), <1>1, <2>1, <3>1 DEF CardinalityFacts
      <4> QED
        BY <3>2, <4>1
    <3>4. \A s \in Threads : op'[s] \in EmptyOps => s = t
      BY ZenonT(40), <3>1 DEF Alone
    <3>5. op'[t] \in EmptyOps
      BY ZenonT(40), <3>2 DEF EmptyOps
    <3>6. todo'[t] \intersect Flagged' = {}
      BY ZenonT(40), <2>1, <3>1
    <3> QED
      BY ZenonT(40), <2>2, <3>2, <3>3, <3>4, <3>5, <3>6 DEF EmptyInv, EmptyOps
  <2>7. CASE \E u \in Threads : EmptyTargetSuspended(t, u)
    <3>1. /\ op[t] = "emptyRequest" /\ todo'[t] \subseteq todo[t]
          /\ UNCHANGED <<op, emptyBarrier, expected>>
      BY ZenonT(40), <2>7 DEF EmptyTargetSuspended, OpTypes
    <3>2. \A s \in Threads : op[s] = "emptyRequest"
             => todo'[s] \intersect Flagged' = {}
      BY ZenonT(40), <2>1, <3>1 DEF EmptyInv, Alone
    <3> QED
      BY ZenonT(40), <2>1, <2>2, <3>1, <3>2 DEF EmptyInv
  <2>8. CASE EmptyRequestsDone(t)
    <3>1. /\ op[t] = "emptyRequest" /\ op'[t] = "emptyIncrement"
          /\ UNCHANGED <<emptyBarrier, expected>>
      BY ZenonT(40), <2>8 DEF EmptyRequestsDone, OpTypes
    <3>2. \A s \in Threads \ {t} : op'[s] \notin EmptyOps
      BY ZenonT(40), <3>1 DEF EmptyInv, EmptyOps, Alone
    <3> QED
      BY ZenonT(40), <2>1, <2>2, <3>1, <3>2 DEF EmptyInv, EmptyOps
  <2>3. CASE EmptyBarrierIncrement(t)
    <3>1. /\ op[t] = "emptyIncrement" /\ op'[t] = "emptyWait"
          /\ emptyBarrier' = emptyBarrier + expected[t] /\ expected' = expected
      BY ZenonT(40), <2>3 DEF EmptyBarrierIncrement, OpTypes
    <3>2. \A s \in Threads \ {t} : op'[s] \notin EmptyOps
      BY ZenonT(40), <3>1 DEF EmptyInv, EmptyOps, Alone
    <3> QED
      BY ZenonT(40), <2>1, <2>2, <3>1, <3>2 DEF EmptyInv, EmptyOps
  <2>4. CASE EmptyBarrierReachesZero(t)
    <3>1. op[t] = "emptyWait" /\ op'[t] = "none" /\ emptyBarrier = 0
      BY ZenonT(40), <2>4 DEF EmptyBarrierReachesZero, OpTypes
    <3>2. \A s \in Threads : op'[s] \notin EmptyOps
      BY ZenonT(40), <3>1 DEF EmptyInv, EmptyOps, Alone
    <3>3. Flagged = {}
      BY ZenonT(40), <1>1, <3>1 DEF EmptyInv, CardinalityFacts
    <3> QED
      BY ZenonT(40), <2>1, <2>2, <3>2, <3>3 DEF EmptyInv, EmptyOps
  <2>5. CASE ~EmptySteps(t)
    <3>1. emptyBarrier' = emptyBarrier
      BY ZenonT(40), <1>4, <2>5, TransitionFrame, SuspendFrame, ByIdFrame,
         AttachFrame, RunCheckpointFrame, SyncFrame, FlipFrame, JniFrame
      DEF AnyStep
    <3>2. op[t] \in EmptyOps \/ op'[t] \in EmptyOps
             => /\ op'[t] = op[t] /\ expected'[t] = expected[t]
                /\ todo'[t] = todo[t]
      BY ZenonT(40), <2>5, TransitionFrame, SuspendFrame, ByIdFrame,
         AttachFrame, RunCheckpointFrame, SyncFrame, FlipFrame, JniFrame
      DEF AnyStep, RequestingOps, SuspendAllOps, ByIdOps, CountingOps,
          CheckpointOps, EmptyOps, FlipOps
    <3>3. \A s \in Threads :
            op[s] \in EmptyOps \/ op'[s] \in EmptyOps
              => /\ op'[s] = op[s] /\ expected'[s] = expected[s]
                 /\ todo'[s] = todo[s]
      BY ZenonT(40), <3>2 DEF Alone
    <3> QED
      BY ZenonT(40), <2>1, <2>2, <3>1, <3>3 DEF EmptyInv, EmptyOps
  <2> QED
    BY ZenonT(40), <1>4, <2>3, <2>4, <2>5, <2>6, <2>7, <2>8 DEF EmptySteps
<1> QED
  BY ZenonT(40), <1>2, <1>3, <1>4

-----------------------------------------------------------------------------
(***************************************************************************)
(* The queues of closures, and the barrier of one closure.                 *)
(***************************************************************************)

\* Taking the first closure out of a queue.
LEMMA QueueTail ==
  ASSUME NEW q \in Seq(Threads), q # << >>, Distinct(q)
  PROVE  /\ Distinct(Tail(q))
         /\ \E i \in DOMAIN q : q[i] = Head(q)
         /\ \A x : (\E i \in DOMAIN Tail(q) : Tail(q)[i] = x)
                     <=> x # Head(q) /\ \E i \in DOMAIN q : q[i] = x
<1>1. Len(q) \in Nat \ {0} /\ DOMAIN q = 1 .. Len(q) /\ Head(q) = q[1]
  OBVIOUS
<1>2. /\ DOMAIN Tail(q) = 1 .. Len(q) - 1
      /\ \A i \in 1 .. Len(q) - 1 : Tail(q)[i] = q[i + 1]
  OBVIOUS
<1>3. Distinct(Tail(q))
  BY <1>1, <1>2 DEF Distinct
<1>4. \E i \in DOMAIN q : q[i] = Head(q)
  BY <1>1
<1>5. ASSUME NEW x
      PROVE  (\E i \in DOMAIN Tail(q) : Tail(q)[i] = x)
               <=> x # Head(q) /\ \E i \in DOMAIN q : q[i] = x
  <2>1. ASSUME NEW i \in DOMAIN Tail(q), Tail(q)[i] = x
        PROVE  x # Head(q) /\ \E j \in DOMAIN q : q[j] = x
    <3>1. i + 1 \in DOMAIN q /\ 1 \in DOMAIN q /\ i + 1 # 1
      BY <1>1, <1>2, <2>1
    <3>2. q[i + 1] = x
      BY <1>2, <2>1
    <3> QED
      BY <1>1, <3>1, <3>2 DEF Distinct
  <2>2. ASSUME NEW i \in DOMAIN q, q[i] = x, x # Head(q)
        PROVE  \E j \in DOMAIN Tail(q) : Tail(q)[j] = x
    <3>1. i - 1 \in 1 .. Len(q) - 1
      BY <1>1, <2>2
    <3>2. Tail(q)[i - 1] = q[i]
      BY <1>1, <1>2, <3>1
    <3> QED
      BY <1>2, <2>2, <3>1, <3>2
  <2> QED
    BY <2>1, <2>2
<1> QED
  BY <1>3, <1>4, <1>5

\* Putting a closure at the end of a queue that it is not in.
LEMMA QueueAppend ==
  ASSUME NEW q \in Seq(Threads), Distinct(q), NEW s \in Threads,
         ~\E i \in DOMAIN q : q[i] = s
  PROVE  /\ Distinct(Append(q, s))
         /\ \A x : (\E i \in DOMAIN Append(q, s) : Append(q, s)[i] = x)
                     <=> x = s \/ \E i \in DOMAIN q : q[i] = x
<1>1. Len(q) \in Nat /\ DOMAIN q = 1 .. Len(q)
  OBVIOUS
<1>2. /\ DOMAIN Append(q, s) = 1 .. Len(q) + 1
      /\ Append(q, s)[Len(q) + 1] = s
      /\ \A i \in 1 .. Len(q) : Append(q, s)[i] = q[i]
  OBVIOUS
<1>3. \A i \in 1 .. Len(q) + 1 : i \in 1 .. Len(q) \/ i = Len(q) + 1
  BY <1>1
<1>4. Distinct(Append(q, s))
  BY <1>1, <1>2, <1>3 DEF Distinct
<1>5. ASSUME NEW x
      PROVE  (\E i \in DOMAIN Append(q, s) : Append(q, s)[i] = x)
               <=> x = s \/ \E i \in DOMAIN q : q[i] = x
  BY <1>1, <1>2, <1>3
<1> QED
  BY <1>4, <1>5

\* Thread::RunCheckpointFunction takes the closure of one requester out of one
\* queue.
LEMMA Dequeue ==
  ASSUME ClosureTypes, \A v \in Threads : Distinct(checkpoints[v]),
         NEW t \in Threads, RunCheckpointFunction(t),
         NEW r, r = Head(checkpoints[t])
  PROVE  /\ \A v \in Threads : Distinct(checkpoints'[v])
         /\ t \in Queued(r) /\ Queued(r)' = Queued(r) \ {t}
         /\ \A s \in Threads \ {r} : Queued(s)' = Queued(s)
<1>1. /\ checkpoints[t] \in Seq(Threads) /\ checkpoints[t] # << >>
      /\ checkpoints'[t] = Tail(checkpoints[t])
      /\ \A v \in Threads \ {t} : checkpoints'[v] = checkpoints[v]
  BY ZenonT(40) DEF RunCheckpointFunction, ClosureTypes
<1>2. /\ Distinct(checkpoints'[t])
      /\ \E i \in DOMAIN checkpoints[t] : checkpoints[t][i] = r
      /\ \A x : (\E i \in DOMAIN checkpoints'[t] : checkpoints'[t][i] = x)
                  <=> x # r /\ \E i \in DOMAIN checkpoints[t] :
                                 checkpoints[t][i] = x
  <2> DEFINE q == checkpoints[t]
  <2>1. q \in Seq(Threads) /\ q # << >> /\ Distinct(q)
    BY ZenonT(40), <1>1
  <2> HIDE DEF q
  <2>2. /\ Distinct(Tail(q)) /\ \E i \in DOMAIN q : q[i] = Head(q)
        /\ \A x : (\E i \in DOMAIN Tail(q) : Tail(q)[i] = x)
                    <=> x # Head(q) /\ \E i \in DOMAIN q : q[i] = x
    BY ZenonT(40), <2>1, QueueTail
  <2>3. checkpoints'[t] = Tail(q) /\ r = Head(q)
    BY ZenonT(40), <1>1 DEF q
  <2> QED
    BY ZenonT(40), <2>2, <2>3 DEF q
<1>3. \A v \in Threads : Distinct(checkpoints'[v])
  BY ZenonT(40), <1>1, <1>2
<1>4. t \in Queued(r) /\ t \notin Queued(r)'
  BY ZenonT(40), <1>2 DEF Queued
<1>5. \A s, v \in Threads : v # t => (v \in Queued(s)' <=> v \in Queued(s))
  BY ZenonT(40), <1>1 DEF Queued
<1>6. \A s \in Threads \ {r} : t \in Queued(s)' <=> t \in Queued(s)
  BY ZenonT(40), <1>2 DEF Queued
<1>7. r \in Threads
  BY ZenonT(40), <1>1, HeadOfQueue
<1>8. \A s \in Threads : Queued(s) \subseteq Threads /\ Queued(s)' \subseteq Threads
  BY ZenonT(40) DEF Queued
<1>9. Queued(r)' = Queued(r) \ {t}
  BY ZenonT(40), <1>4, <1>5, <1>7, <1>8
<1>10. ASSUME NEW s \in Threads \ {r} PROVE Queued(s)' = Queued(s)
  <2>1. \A v \in Threads : v \in Queued(s)' <=> v \in Queued(s)
    BY ZenonT(40), <1>5, <1>6
  <2> QED
    BY ZenonT(40), <1>8, <2>1
<1> QED
  BY ZenonT(40), <1>3, <1>4, <1>9, <1>10

\* Thread::RequestCheckpoint puts a closure in one queue.
LEMMA Enqueue ==
  ASSUME ClosureTypes, \A v \in Threads : Distinct(checkpoints[v]),
         NEW s \in Threads, NEW u \in Threads, EnqueueCheckpoint(s, u),
         u \notin Queued(s)
  PROVE  /\ \A v \in Threads : Distinct(checkpoints'[v])
         /\ Queued(s)' = Queued(s) \union {u}
         /\ \A r \in Threads \ {s} : Queued(r)' = Queued(r)
<1>1. /\ checkpoints[u] \in Seq(Threads)
      /\ checkpoints'[u] = Append(checkpoints[u], s)
      /\ \A v \in Threads \ {u} : checkpoints'[v] = checkpoints[v]
  BY ZenonT(40) DEF EnqueueCheckpoint, ClosureTypes
<1>2. ~\E i \in DOMAIN checkpoints[u] : checkpoints[u][i] = s
  BY ZenonT(40) DEF Queued
<1>3. /\ Distinct(checkpoints'[u])
      /\ \A x : (\E i \in DOMAIN checkpoints'[u] : checkpoints'[u][i] = x)
                  <=> x = s \/ \E i \in DOMAIN checkpoints[u] :
                                 checkpoints[u][i] = x
  <2> DEFINE q == checkpoints[u]
  <2>1. /\ q \in Seq(Threads) /\ Distinct(q)
        /\ ~\E i \in DOMAIN q : q[i] = s
    BY ZenonT(40), <1>1, <1>2
  <2> HIDE DEF q
  <2>2. /\ Distinct(Append(q, s))
        /\ \A x : (\E i \in DOMAIN Append(q, s) : Append(q, s)[i] = x)
                    <=> x = s \/ \E i \in DOMAIN q : q[i] = x
    BY ZenonT(40), <2>1, QueueAppend
  <2>3. checkpoints'[u] = Append(q, s)
    BY ZenonT(40), <1>1 DEF q
  <2> QED
    BY ZenonT(40), <2>2, <2>3 DEF q
<1>4. \A v \in Threads : Distinct(checkpoints'[v])
  BY ZenonT(40), <1>1, <1>3
<1>5. u \in Queued(s)'
  BY ZenonT(40), <1>3 DEF Queued
<1>6. \A r, v \in Threads : v # u => (v \in Queued(r)' <=> v \in Queued(r))
  BY ZenonT(40), <1>1 DEF Queued
<1>7. \A r \in Threads \ {s} : u \in Queued(r)' <=> u \in Queued(r)
  BY ZenonT(40), <1>3 DEF Queued
<1>8. \A r \in Threads : Queued(r) \subseteq Threads /\ Queued(r)' \subseteq Threads
  BY ZenonT(40) DEF Queued
<1>9. Queued(s)' = Queued(s) \union {u}
  BY ZenonT(40), <1>5, <1>6, <1>8
<1>10. ASSUME NEW r \in Threads \ {s} PROVE Queued(r)' = Queued(r)
  <2>1. \A v \in Threads : v \in Queued(r)' <=> v \in Queued(r)
    BY ZenonT(40), <1>6, <1>7
  <2> QED
    BY ZenonT(40), <1>8, <2>1
<1> QED
  BY ZenonT(40), <1>4, <1>9, <1>10

\* The other steps leave the queues alone.
LEMMA SameQueues ==
  ASSUME UNCHANGED checkpoints, \A v \in Threads : Distinct(checkpoints[v])
  PROVE  /\ \A v \in Threads : Distinct(checkpoints'[v])
         /\ \A s \in Threads : Queued(s)' = Queued(s)
  BY ZenonT(40) DEF Queued

\* Unserved, control point by control point.
LEMMA UnservedCases ==
  ASSUME NEW s \in Threads
  PROVE  /\ op[s] \in {"requestCheckpoint", "raiseCheckpoint", "retryCheckpoint"}
              => Unserved(s) = todo[s] \union raised[s] \union {s}
         /\ op[s] = "checkpointOthers" => Unserved(s) = raised[s]
         /\ op[s] = "checkpointLower" => Unserved(s) = raised[s] \ {current[s]}
         /\ op[s] \notin CountingOps \ {"barrierIncrement"} => Unserved(s) = {}
  BY ZenonT(40) DEF Unserved, CountingOps

\* A thread whose closure nobody touches.
LEMMA SameClosure ==
  ASSUME NEW s \in Threads, ClosureExact(s), Queued(s)' = Queued(s),
         Unserved(s)' = Unserved(s), ranOn'[s] = ranOn[s],
         closureBarrier'[s] = closureBarrier[s], expected'[s] = expected[s],
         op'[s] \in CountingOps <=> op[s] \in CountingOps,
         op'[s] = "barrierWait" <=> op[s] = "barrierWait"
  PROVE  ClosureExact(s)'
  BY ZenonT(40) DEF ClosureExact

\* The threads that do not move keep their closures if their queues and
\* barriers stay.
LEMMA OtherClosures ==
  ASSUME NEW t \in Threads, Alone(t), NEW s \in Threads \ {t}, ClosureExact(s),
         Queued(s)' = Queued(s), ranOn'[s] = ranOn[s],
         closureBarrier'[s] = closureBarrier[s]
  PROVE  ClosureExact(s)'
<1>1. Unserved(s)' = Unserved(s)
  BY ZenonT(40) DEF Unserved, Alone
<1> QED
  BY ZenonT(40), <1>1, SameClosure DEF Alone

\* A thread outside of checkpoint operations that nobody owes an answer.
LEMMA QuietClosure ==
  ASSUME NEW s \in Threads, Queued(s)' = {},
         op'[s] \notin CountingOps \union {"barrierWait"}
  PROVE  ClosureExact(s)'
<1>1. Unserved(s)' = {}
  BY ZenonT(40) DEF Unserved, CountingOps
<1> QED
  BY ZenonT(40), <1>1 DEF ClosureExact

\* A requester runs its closure on u itself.
LEMMA ServedClosure ==
  ASSUME CardinalityFacts, RestTypes, NEW s \in Threads, NEW u \in Threads,
         ClosureExact(s), op[s] \in CountingOps, op'[s] \in CountingOps,
         u \in Unserved(s), Unserved(s) \subseteq Threads,
         Unserved(s)' = Unserved(s) \ {u}, Queued(s)' = Queued(s),
         ranOn'[s] = ranOn[s] \union {u}, expected'[s] = expected[s],
         closureBarrier'[s] = closureBarrier[s] - 1
  PROVE  ClosureExact(s)'
<1> DEFINE A == Queued(s) \union Unserved(s)
<1>1. u \notin Queued(s)
  BY ZenonT(40) DEF ClosureExact
<1>2. A \in SUBSET Threads /\ u \in A /\ A' = A \ {u}
  BY ZenonT(40), <1>1 DEF Queued
<1>3. Cardinality(A') = Cardinality(A) - 1 /\ Cardinality(A) \in Nat
  BY ZenonT(40), <1>2 DEF CardinalityFacts
<1>4. closureBarrier[s] + expected[s] = Cardinality(A)
  BY ZenonT(40) DEF ClosureExact
<1>5. closureBarrier[s] \in Int /\ expected[s] \in Nat
  BY ZenonT(40) DEF RestTypes
<1>6. closureBarrier'[s] + expected'[s] = Cardinality(A')
  <2> HIDE DEF A
  <2> QED
    BY <1>3, <1>4, <1>5
<1>7. op'[s] # "barrierWait"
  BY ZenonT(40) DEF CountingOps
<1>8. /\ Queued(s)' \intersect ranOn'[s] = {}
      /\ Queued(s)' \intersect Unserved(s)' = {}
      /\ Unserved(s)' \intersect ranOn'[s] = {}
  BY ZenonT(40), <1>1 DEF ClosureExact
<1> QED
  BY ZenonT(40), <1>6, <1>7, <1>8 DEF ClosureExact

\* A thread runs the closure of r from its queue.
LEMMA AnsweredClosure ==
  ASSUME CardinalityFacts, RestTypes, NEW r \in Threads, NEW t \in Threads,
         ClosureExact(r), t \in Queued(r), Unserved(r) \subseteq Threads,
         op'[r] = op[r], expected'[r] = expected[r],
         Unserved(r)' = Unserved(r), Queued(r)' = Queued(r) \ {t},
         ranOn'[r] = ranOn[r] \union {t},
         closureBarrier'[r] = closureBarrier[r] - 1
  PROVE  ClosureExact(r)'
<1> DEFINE Q == Queued(r)
           A == Queued(r) \union Unserved(r)
<1>1. t \notin Unserved(r)
  BY ZenonT(40) DEF ClosureExact
<1>2. /\ A \in SUBSET Threads /\ t \in A /\ A' = A \ {t}
      /\ Q \in SUBSET Threads /\ t \in Q /\ Q' = Q \ {t}
  BY ZenonT(40), <1>1 DEF Queued
<1>3. /\ Cardinality(A') = Cardinality(A) - 1 /\ Cardinality(A) \in Nat
      /\ Cardinality(Q') = Cardinality(Q) - 1
  BY ZenonT(40), <1>2 DEF CardinalityFacts
<1>4. op[r] \in CountingOps => closureBarrier[r] + expected[r] = Cardinality(A)
  BY ZenonT(40) DEF ClosureExact
<1>5. closureBarrier[r] \in Int /\ expected[r] \in Nat
  BY ZenonT(40) DEF RestTypes
<1>6. op'[r] \in CountingOps
        => closureBarrier'[r] + expected'[r] = Cardinality(A')
  <2> HIDE DEF A
  <2>1. closureBarrier[r] + expected[r] = Cardinality(A)
          => closureBarrier'[r] + expected'[r] = Cardinality(A')
    BY <1>3, <1>5
  <2> QED
    BY ZenonT(40), <1>4, <2>1
<1>7. op'[r] = "barrierWait" => closureBarrier'[r] = Cardinality(Q')
  BY ZenonT(40), <1>3 DEF ClosureExact
<1>8. /\ Queued(r)' \intersect ranOn'[r] = {}
      /\ Queued(r)' \intersect Unserved(r)' = {}
      /\ Unserved(r)' \intersect ranOn'[r] = {}
  BY ZenonT(40), <1>1 DEF ClosureExact
<1>9. op'[r] \in CountingOps \union {"barrierWait"}
  BY ZenonT(40) DEF ClosureExact
<1> QED
  BY ZenonT(40), <1>6, <1>7, <1>8, <1>9 DEF ClosureExact

-----------------------------------------------------------------------------
(***************************************************************************)
(* RunCheckpoint and RequestSynchronousCheckpoint.                         *)
(***************************************************************************)

\* Only threads have a closure to run.
LEMMA UnservedType ==
  ASSUME OpTypes, NEW s \in Threads
  PROVE  Unserved(s) \subseteq Threads
  BY ZenonT(40) DEF Unserved, OpTypes

\* The requester whose queue entries, barrier and set of threads alone a step
\* changes: the closures of the others stay exact.
LEMMA OnlyOwnClosure ==
  ASSUME ClosureTypes, RestTypes, ClosureInv, NEW t \in Threads, Alone(t),
         \A s \in Threads \ {t} :
           /\ Queued(s)' = Queued(s) /\ ranOn'[s] = ranOn[s]
           /\ closureBarrier'[s] = closureBarrier[s]
  PROVE  \A s \in Threads \ {t} : ClosureExact(s)'
  BY ZenonT(40), OtherClosures DEF ClosureInv

\* RunCheckpointFunction: the closures stay exact when a thread runs one from
\* its queue, and in the other state transitions.
LEMMA TransitionClosures ==
  ASSUME CardinalityFacts, ClosureTypes, OpTypes, RestTypes, ClosureInv,
         NEW t \in Threads, TransitionSteps(t)
  PROVE  ClosureInv'
<1>1. /\ UNCHANGED <<op, todo, raised, current, expected>>
      /\ \A s \in Threads : Unserved(s)' = Unserved(s)
  BY ZenonT(40), TransitionFrame DEF Unserved
<1>2. CASE RunCheckpointFunction(t)
  <2>1. PICK r \in Threads : r = Head(checkpoints[t])
    BY ZenonT(40), <1>2, HeadOfQueue DEF RunCheckpointFunction
  <2>2. /\ \A v \in Threads : Distinct(checkpoints'[v])
        /\ t \in Queued(r) /\ Queued(r)' = Queued(r) \ {t}
        /\ \A s \in Threads \ {r} : Queued(s)' = Queued(s)
    BY ZenonT(40), <1>2, <2>1, Dequeue DEF ClosureInv
  <2>3. /\ ranOn'[r] = ranOn[r] \union {t}
        /\ closureBarrier'[r] = closureBarrier[r] - 1
        /\ \A s \in Threads \ {r} : /\ ranOn'[s] = ranOn[s]
                                    /\ closureBarrier'[s] = closureBarrier[s]
    BY ZenonT(40), <1>2, <2>1
    DEF RunCheckpointFunction, RunClosure, ClosureTypes, RestTypes
  <2>4. ClosureExact(r)'
    BY ZenonT(40), <1>1, <2>1, <2>2, <2>3, AnsweredClosure, UnservedType
    DEF ClosureInv
  <2>5. ASSUME NEW s \in Threads \ {r} PROVE ClosureExact(s)'
    BY ZenonT(40), <1>1, <2>2, <2>3, SameClosure DEF ClosureInv
  <2> QED
    BY ZenonT(40), <2>2, <2>4, <2>5 DEF ClosureInv
<1>3. CASE UNCHANGED <<checkpoints, closureBarrier, ranOn>>
  <2>1. /\ \A v \in Threads : Distinct(checkpoints'[v])
        /\ \A s \in Threads : Queued(s)' = Queued(s)
    BY ZenonT(40), <1>3, SameQueues DEF ClosureInv
  <2>2. ASSUME NEW s \in Threads PROVE ClosureExact(s)'
    BY ZenonT(40), <1>1, <1>3, <2>1, SameClosure DEF ClosureInv
  <2> QED
    BY ZenonT(40), <2>1, <2>2 DEF ClosureInv
<1> QED
  BY ZenonT(40), <1>2, <1>3, TransitionFrame

\* The steps of the operations without closures.
LEMMA UnconcernedClosures ==
  ASSUME OpTypes, ClosureTypes, RestTypes, ClosureInv, NEW t \in Threads, Alone(t),
         \/ SuspendSteps(t) \/ ByIdSteps(t) \/ AttachSteps(t) \/ EmptySteps(t)
         \/ FlipSteps(t) \/ JniSteps(t)
  PROVE  ClosureInv'
<1>1. UNCHANGED <<checkpoints, closureBarrier, ranOn>>
  BY ZenonT(40), SuspendFrame, ByIdFrame, AttachFrame, EmptyFrame, FlipFrame,
     JniFrame
<1>2. /\ op[t] \notin CountingOps \union {"barrierWait"}
      /\ op'[t] \notin CountingOps \union {"barrierWait"}
  BY ZenonT(40), SuspendFrame, ByIdFrame, AttachFrame, EmptyFrame, FlipFrame,
     JniFrame
  DEF RequestingOps, SuspendAllOps, ByIdOps, CountingOps, CheckpointOps,
      EmptyOps, FlipOps
<1>3. /\ \A v \in Threads : Distinct(checkpoints'[v])
      /\ \A s \in Threads : Queued(s)' = Queued(s)
  BY ZenonT(40), <1>1, SameQueues DEF ClosureInv
<1>4. ClosureExact(t)'
  <2>1. Queued(t)' = {}
    BY ZenonT(40), <1>2, <1>3 DEF ClosureInv, ClosureExact
  <2> QED
    BY ZenonT(40), <1>2, <2>1, QuietClosure
<1>5. \A s \in Threads \ {t} : ClosureExact(s)'
  BY ZenonT(40), <1>1, <1>3, OnlyOwnClosure
<1> QED
  BY ZenonT(40), <1>3, <1>4, <1>5 DEF ClosureInv

\* RunCheckpoint: the count that the caller adds to its barrier stands for the
\* threads that have yet to run the closure, at every step.
LEMMA RunCheckpointClosures ==
  ASSUME CardinalityFacts, ClosureTypes, LockTypes, OpTypes, RestTypes, TodoInv,
         RaisedInv, ClosureInv, NEW t \in Threads, RunCheckpointSteps(t), Alone(t)
  PROVE  ClosureInv'
<1>1. \A v \in Threads : Distinct(checkpoints[v]) /\ ClosureExact(t)
  BY ZenonT(40) DEF ClosureInv
<1>2. \A s \in Threads \ {t} : /\ ranOn'[s] = ranOn[s]
                               /\ closureBarrier'[s] = closureBarrier[s]
  BY ZenonT(40)
  DEF RunCheckpointSteps, RunCheckpoint, NewClosure, CheckpointSelf,
      RunClosure, CheckpointLower, LowerSuspendCounts, CheckpointBroadcast,
      BroadcastResumeCond, BarrierIncrement, BarrierReachesZero,
      CheckpointRunnableThread, EnqueueCheckpoint, CheckpointSuspendedThread,
      RaiseSuspendCount, CheckpointTargetNotRunnable, CheckpointRequestFails,
      CheckpointOther, ClosureTypes, RestTypes
<1>3. ASSUME ClosureExact(t)', UNCHANGED checkpoints PROVE ClosureInv'
  <2>1. /\ \A v \in Threads : Distinct(checkpoints'[v])
        /\ \A s \in Threads : Queued(s)' = Queued(s)
    BY ZenonT(40), <1>1, <1>3, SameQueues
  <2>2. \A s \in Threads \ {t} : ClosureExact(s)'
    BY ZenonT(40), <1>2, <2>1, OnlyOwnClosure
  <2> QED
    BY ZenonT(40), <1>3, <2>1, <2>2 DEF ClosureInv
<1>4. UNCHANGED checkpoints => Queued(t)' = Queued(t)
  BY ZenonT(40), <1>1, SameQueues
<1>5. t \notin raised[t] /\ (op[t] = "none" => raised[t] = {})
  BY ZenonT(40) DEF RaisedInv, RaisingOps
<1>6. CASE RunCheckpoint(t)
  <2>1. /\ op[t] = "none" /\ op'[t] = "requestCheckpoint" /\ t \in list
        /\ UNCHANGED <<checkpoints, raised>>
        /\ todo'[t] = list \ {t} /\ expected'[t] = Cardinality(list)
        /\ closureBarrier'[t] = 0 /\ ranOn'[t] = {}
    BY ZenonT(40), <1>6
    DEF RunCheckpoint, NewClosure, OpTypes, RestTypes, ClosureTypes
  <2>2. Unserved(t)' = list
    <3>1. Unserved(t)' = todo'[t] \union raised'[t] \union {t}
      BY ZenonT(40), <2>1 DEF Unserved
    <3> QED
      BY ZenonT(40), <1>5, <2>1, <3>1
  <2>3. Queued(t)' = {}
    BY ZenonT(40), <1>1, <1>4, <2>1 DEF ClosureExact, CountingOps
  <2>4. closureBarrier'[t] + expected'[t] = Cardinality(list)
    <3>1. Cardinality(list) \in Nat
      BY ZenonT(40) DEF CardinalityFacts, LockTypes
    <3> QED
      BY <2>1, <3>1
  <2>5. op'[t] \in CountingOps /\ op'[t] # "barrierWait"
    BY ZenonT(40), <2>1 DEF CountingOps
  <2>6. Cardinality(Queued(t)' \union Unserved(t)') = Cardinality(list)
    BY ZenonT(40), <2>2, <2>3
  <2>7. ClosureExact(t)'
    BY ZenonT(40), <2>1, <2>2, <2>3, <2>4, <2>5, <2>6 DEF ClosureExact
  <2> QED
    BY ZenonT(40), <1>3, <2>1, <2>7
<1>7. CASE CheckpointSelf(t)
  <2>1. /\ op[t] = "requestCheckpoint" /\ op'[t] = "checkpointOthers"
        /\ todo[t] = {} /\ UNCHANGED <<checkpoints, raised, expected>>
        /\ ranOn'[t] = ranOn[t] \union {t}
        /\ closureBarrier'[t] = closureBarrier[t] - 1
    BY ZenonT(40), <1>7
    DEF CheckpointSelf, RunClosure, OpTypes, RestTypes, ClosureTypes
  <2>2. Unserved(t) = raised[t] \union {t}
    <3>1. Unserved(t) = todo[t] \union raised[t] \union {t}
      BY ZenonT(40), <2>1, UnservedCases
    <3> QED
      BY ZenonT(40), <2>1, <3>1
  <2>3. Unserved(t)' = raised[t]
    BY ZenonT(40), <2>1 DEF Unserved
  <2>4. t \in Unserved(t) /\ Unserved(t)' = Unserved(t) \ {t}
    BY ZenonT(40), <1>5, <2>2, <2>3
  <2>5. op[t] \in CountingOps /\ op'[t] \in CountingOps
    BY ZenonT(40), <2>1 DEF CountingOps
  <2>6. ClosureExact(t)'
    BY ZenonT(40), <1>1, <1>4, <2>1, <2>4, <2>5, UnservedType, ServedClosure
  <2> QED
    BY ZenonT(40), <1>3, <2>1, <2>6
<1>8. ASSUME NEW u \in Threads, CheckpointOther(t, u) PROVE ClosureInv'
  <2>1. /\ op[t] = "checkpointOthers" /\ op'[t] = "checkpointLower"
        /\ u \in raised[t] /\ current'[t] = u
        /\ UNCHANGED <<checkpoints, raised, expected>>
        /\ ranOn'[t] = ranOn[t] \union {u}
        /\ closureBarrier'[t] = closureBarrier[t] - 1
    BY ZenonT(40), <1>8
    DEF CheckpointOther, RunClosure, OpTypes, RestTypes, ClosureTypes
  <2>2. Unserved(t) = raised[t]
    BY ZenonT(40), <2>1, UnservedCases
  <2>3. Unserved(t)' = raised[t] \ {u}
    BY ZenonT(40), <2>1 DEF Unserved
  <2>4. u \in Unserved(t) /\ Unserved(t)' = Unserved(t) \ {u}
    BY ZenonT(40), <2>1, <2>2, <2>3
  <2>5. op[t] \in CountingOps /\ op'[t] \in CountingOps
    BY ZenonT(40), <2>1 DEF CountingOps
  <2>6. ClosureExact(t)'
    BY ZenonT(40), <1>1, <1>4, <2>1, <2>4, <2>5, UnservedType, ServedClosure
  <2> QED
    BY ZenonT(40), <1>3, <2>1, <2>6
<1>9. ASSUME NEW u \in Threads, CheckpointRunnableThread(t, u) PROVE ClosureInv'
  <2>1. /\ op[t] = "requestCheckpoint" /\ u \in todo[t]
        /\ todo'[t] = todo[t] \ {u}
        /\ UNCHANGED <<op, raised, expected, ranOn, closureBarrier>>
    BY ZenonT(40), <1>9 DEF CheckpointRunnableThread, OpTypes
  <2>2. Unserved(t) = todo[t] \union raised[t] \union {t}
    BY ZenonT(40), <2>1, UnservedCases
  <2>3. Unserved(t)' = (todo[t] \ {u}) \union raised[t] \union {t}
    BY ZenonT(40), <2>1 DEF Unserved
  <2>4. u # t /\ u \notin raised[t]
    BY ZenonT(40), <2>1 DEF TodoInv, LoopOps
  <2>5. u \in Unserved(t) /\ Unserved(t)' = Unserved(t) \ {u}
    BY ZenonT(40), <2>1, <2>2, <2>3, <2>4
  <2>6. u \notin Queued(t) /\ u \notin ranOn[t]
    BY ZenonT(40), <1>1, <2>5 DEF ClosureExact
  <2>7. /\ \A v \in Threads : Distinct(checkpoints'[v])
        /\ Queued(t)' = Queued(t) \union {u}
        /\ \A s \in Threads \ {t} : Queued(s)' = Queued(s)
    BY ZenonT(40), <1>1, <1>9, <2>6, Enqueue DEF CheckpointRunnableThread
  <2>8. (Queued(t) \union Unserved(t))' = Queued(t) \union Unserved(t)
    BY ZenonT(40), <2>5, <2>7
  <2>9. op[t] \in CountingOps /\ op[t] # "barrierWait"
    BY ZenonT(40), <2>1 DEF CountingOps
  <2>10. /\ Queued(t)' \intersect ranOn[t] = {}
         /\ Queued(t)' \intersect Unserved(t)' = {}
         /\ Unserved(t)' \intersect ranOn[t] = {}
    BY ZenonT(40), <1>1, <2>5, <2>6, <2>7 DEF ClosureExact
  <2>11. ClosureExact(t)'
    BY ZenonT(40), <1>1, <2>1, <2>8, <2>9, <2>10 DEF ClosureExact
  <2>12. \A s \in Threads \ {t} : ClosureExact(s)'
    BY ZenonT(40), <1>2, <2>7, OnlyOwnClosure
  <2> QED
    BY ZenonT(40), <2>7, <2>11, <2>12 DEF ClosureInv
<1>10. ASSUME NEW u \in Threads, CheckpointSuspendedThread(t, u) PROVE ClosureInv'
  <2>1. /\ op[t] \in {"raiseCheckpoint", "retryCheckpoint"}
        /\ op'[t] = "requestCheckpoint" /\ todo'[t] = todo[t] \ {u}
        /\ raised'[t] = raised[t] \union {u}
        /\ UNCHANGED <<checkpoints, expected, ranOn, closureBarrier>>
    BY ZenonT(40), <1>10 DEF CheckpointSuspendedThread, OpTypes
  <2>2. u \in todo[t]
    <3>1. u = current[t]
      BY ZenonT(40), <1>10 DEF CheckpointSuspendedThread
    <3>2. current[t] \in todo[t]
      BY ZenonT(40), <2>1 DEF TodoInv
    <3> QED
      BY ZenonT(40), <3>1, <3>2
  <2>3. Unserved(t) = todo[t] \union raised[t] \union {t}
    BY ZenonT(40), <2>1, UnservedCases
  <2>4. Unserved(t)' = (todo[t] \ {u}) \union (raised[t] \union {u}) \union {t}
    BY ZenonT(40), <2>1 DEF Unserved
  <2>5. Unserved(t)' = Unserved(t)
    BY ZenonT(40), <2>2, <2>3, <2>4
  <2>6. /\ op[t] \in CountingOps /\ op'[t] \in CountingOps
        /\ op[t] # "barrierWait" /\ op'[t] # "barrierWait"
    BY ZenonT(40), <2>1 DEF CountingOps
  <2>7. ClosureExact(t)'
    BY ZenonT(40), <1>1, <1>4, <2>1, <2>5, <2>6, SameClosure
  <2> QED
    BY ZenonT(40), <1>3, <2>1, <2>7
<1>11. ASSUME NEW u \in Threads, CheckpointRequestFails(t, u) PROVE ClosureInv'
  <2>1. /\ op[t] = "raiseCheckpoint" /\ op'[t] = "retryCheckpoint"
        /\ UNCHANGED <<todo, raised>>
        /\ UNCHANGED <<checkpoints, expected, ranOn, closureBarrier>>
    BY ZenonT(40), <1>11 DEF CheckpointRequestFails, OpTypes
  <2>2. Unserved(t)' = Unserved(t)
    BY ZenonT(40), <2>1 DEF Unserved
  <2>3. /\ op[t] \in CountingOps /\ op'[t] \in CountingOps
        /\ op[t] # "barrierWait" /\ op'[t] # "barrierWait"
    BY ZenonT(40), <2>1 DEF CountingOps
  <2>4. ClosureExact(t)'
    BY ZenonT(40), <1>1, <1>4, <2>1, <2>2, <2>3, SameClosure
  <2> QED
    BY ZenonT(40), <1>3, <2>1, <2>4
<1>12. CASE CheckpointLower(t)
  <2>1. /\ op[t] = "checkpointLower" /\ op'[t] = "checkpointOthers"
        /\ raised'[t] = raised[t] \ {current[t]}
        /\ UNCHANGED <<checkpoints, expected, ranOn, closureBarrier>>
    BY ZenonT(40), <1>12 DEF CheckpointLower, OpTypes
  <2>2. Unserved(t)' = Unserved(t)
    BY ZenonT(40), <2>1 DEF Unserved
  <2>3. /\ op[t] \in CountingOps /\ op'[t] \in CountingOps
        /\ op[t] # "barrierWait" /\ op'[t] # "barrierWait"
    BY ZenonT(40), <2>1 DEF CountingOps
  <2>4. ClosureExact(t)'
    BY ZenonT(40), <1>1, <1>4, <2>1, <2>2, <2>3, SameClosure
  <2> QED
    BY ZenonT(40), <1>3, <2>1, <2>4
<1>13. CASE CheckpointBroadcast(t)
  <2>1. /\ op[t] = "checkpointOthers" /\ op'[t] = "barrierIncrement"
        /\ raised[t] = {}
        /\ UNCHANGED <<checkpoints, expected, ranOn, closureBarrier>>
    BY ZenonT(40), <1>13 DEF CheckpointBroadcast, OpTypes
  <2>2. Unserved(t)' = Unserved(t)
    BY ZenonT(40), <2>1 DEF Unserved
  <2>3. /\ op[t] \in CountingOps /\ op'[t] \in CountingOps
        /\ op[t] # "barrierWait" /\ op'[t] # "barrierWait"
    BY ZenonT(40), <2>1 DEF CountingOps
  <2>4. ClosureExact(t)'
    BY ZenonT(40), <1>1, <1>4, <2>1, <2>2, <2>3, SameClosure
  <2> QED
    BY ZenonT(40), <1>3, <2>1, <2>4
<1>14. CASE BarrierIncrement(t)
  <2>1. /\ op[t] = "barrierIncrement" /\ op'[t] = "barrierWait"
        /\ UNCHANGED <<checkpoints, ranOn>>
        /\ closureBarrier'[t] = closureBarrier[t] + expected[t]
    BY ZenonT(40), <1>14 DEF BarrierIncrement, OpTypes, RestTypes
  <2>2. Unserved(t) = {} /\ Unserved(t)' = {}
    BY ZenonT(40), <2>1 DEF Unserved
  <2>3. closureBarrier[t] + expected[t] = Cardinality(Queued(t))
    <3>1. closureBarrier[t] + expected[t]
            = Cardinality(Queued(t) \union Unserved(t))
      BY ZenonT(40), <1>1, <2>1 DEF ClosureExact, CountingOps
    <3> QED
      BY ZenonT(40), <2>2, <3>1
  <2>4. op'[t] \notin CountingOps
    BY ZenonT(40), <2>1 DEF CountingOps
  <2>5. ClosureExact(t)'
    BY ZenonT(40), <1>1, <1>4, <2>1, <2>2, <2>3, <2>4 DEF ClosureExact
  <2> QED
    BY ZenonT(40), <1>3, <2>1, <2>5
<1>15. CASE BarrierReachesZero(t)
  <2>1. /\ op[t] = "barrierWait" /\ op'[t] = "none" /\ closureBarrier[t] = 0
        /\ UNCHANGED checkpoints
    BY ZenonT(40), <1>15 DEF BarrierReachesZero, OpTypes
  <2>2. Queued(t) \in SUBSET Threads /\ Cardinality(Queued(t)) = 0
    BY ZenonT(40), <1>1, <2>1 DEF ClosureExact, Queued
  <2>3. Queued(t)' = {}
    BY ZenonT(40), <1>4, <2>1, <2>2 DEF CardinalityFacts
  <2>4. op'[t] \notin CountingOps \union {"barrierWait"}
    BY ZenonT(40), <2>1 DEF CountingOps
  <2>5. ClosureExact(t)'
    BY ZenonT(40), <2>3, <2>4, QuietClosure
  <2> QED
    BY ZenonT(40), <1>3, <2>1, <2>5
<1>16. ASSUME NEW u \in Threads, CheckpointTargetNotRunnable(t, u) PROVE ClosureInv'
  <2>1. /\ op[t] = "requestCheckpoint" /\ op'[t] = "raiseCheckpoint"
        /\ UNCHANGED <<todo, raised>>
        /\ UNCHANGED <<checkpoints, expected, ranOn, closureBarrier>>
    BY ZenonT(40), <1>16 DEF CheckpointTargetNotRunnable, OpTypes
  <2>2. Unserved(t)' = Unserved(t)
    BY ZenonT(40), <2>1 DEF Unserved
  <2>3. /\ op[t] \in CountingOps /\ op'[t] \in CountingOps
        /\ op[t] # "barrierWait" /\ op'[t] # "barrierWait"
    BY ZenonT(40), <2>1 DEF CountingOps
  <2>4. ClosureExact(t)'
    BY ZenonT(40), <1>1, <1>4, <2>1, <2>2, <2>3, SameClosure
  <2> QED
    BY ZenonT(40), <1>3, <2>1, <2>4
<1> QED
  BY ZenonT(40), <1>6, <1>7, <1>8, <1>9, <1>10, <1>11, <1>12, <1>13, <1>14,
     <1>15, <1>16 DEF RunCheckpointSteps

\* RequestSynchronousCheckpoint: on a runnable thread the closure is queued
\* once, on a suspended one the requester runs it.
LEMMA SyncClosures ==
  ASSUME CardinalityFacts, ClosureTypes, OpTypes, RestTypes, ClosureInv,
         NEW t \in Threads, SyncSteps(t), Alone(t)
  PROVE  ClosureInv'
<1>1. \A v \in Threads : Distinct(checkpoints[v]) /\ ClosureExact(t)
  BY ZenonT(40) DEF ClosureInv
<1>2. \A s \in Threads \ {t} : /\ ranOn'[s] = ranOn[s]
                               /\ closureBarrier'[s] = closureBarrier[s]
  BY ZenonT(40)
  DEF SyncSteps, SyncRaise, RaiseSuspendCount, SyncTargetSuspended, SyncRun,
      RunClosure, SyncLower, LowerSuspendCounts, SyncBroadcast,
      BroadcastResumeCond, RequestSynchronousCheckpoint, EnqueueCheckpoint,
      NewClosure, SyncTargetNotRunnable, ClosureTypes, RestTypes
<1>3. ASSUME NEW u \in Threads, RequestSynchronousCheckpoint(t, u) PROVE ClosureInv'
  <2>1. /\ op[t] = "none" /\ op'[t] = "barrierIncrement" /\ expected'[t] = 1
        /\ closureBarrier'[t] = 0 /\ ranOn'[t] = {} /\ EnqueueCheckpoint(t, u)
    BY ZenonT(40), <1>3
    DEF RequestSynchronousCheckpoint, NewClosure, OpTypes, RestTypes,
        ClosureTypes
  <2>2. Queued(t) = {}
    BY ZenonT(40), <1>1, <2>1 DEF ClosureExact, CountingOps
  <2>3. /\ \A v \in Threads : Distinct(checkpoints'[v])
        /\ Queued(t)' = Queued(t) \union {u}
        /\ \A s \in Threads \ {t} : Queued(s)' = Queued(s)
    BY ZenonT(40), <1>1, <2>1, <2>2, Enqueue
  <2>4. Unserved(t)' = {}
    BY ZenonT(40), <2>1 DEF Unserved
  <2>5. Cardinality({u}) = 1
    <3>1. {} \in SUBSET Threads /\ u \in Threads \ {} /\ {} \union {u} = {u}
      BY ZenonT(40)
    <3>2. Cardinality({}) = 0 /\ Cardinality({} \union {u}) = Cardinality({}) + 1
      BY ZenonT(40), <3>1 DEF CardinalityFacts
    <3> QED
      BY <3>1, <3>2
  <2>6. Queued(t)' \union Unserved(t)' = {u}
    BY ZenonT(40), <2>2, <2>3, <2>4
  <2>7. closureBarrier'[t] + expected'[t] = 1
    BY <2>1
  <2>8. op'[t] # "barrierWait" /\ op'[t] \in CountingOps
    BY ZenonT(40), <2>1 DEF CountingOps
  <2>9. ClosureExact(t)'
    BY ZenonT(40), <2>1, <2>4, <2>5, <2>6, <2>7, <2>8 DEF ClosureExact
  <2>10. \A s \in Threads \ {t} : ClosureExact(s)'
    BY ZenonT(40), <1>2, <2>3, OnlyOwnClosure
  <2> QED
    BY ZenonT(40), <2>3, <2>9, <2>10 DEF ClosureInv
<1>4. CASE ~\E u \in Threads : RequestSynchronousCheckpoint(t, u)
  <2>1. /\ UNCHANGED checkpoints
        /\ op[t] \notin CountingOps \union {"barrierWait"}
        /\ op'[t] \notin CountingOps \union {"barrierWait"}
    BY ZenonT(40), <1>4
    DEF SyncSteps, SyncRaise, SyncTargetSuspended, SyncRun, SyncLower,
        SyncBroadcast, SyncTargetNotRunnable, OpTypes, CountingOps
  <2>2. /\ \A v \in Threads : Distinct(checkpoints'[v])
        /\ \A s \in Threads : Queued(s)' = Queued(s)
    BY ZenonT(40), <1>1, <2>1, SameQueues
  <2>3. Queued(t)' = {}
    BY ZenonT(40), <1>1, <2>1, <2>2 DEF ClosureExact
  <2>4. ClosureExact(t)'
    BY ZenonT(40), <2>1, <2>3, QuietClosure
  <2>5. \A s \in Threads \ {t} : ClosureExact(s)'
    BY ZenonT(40), <1>2, <2>2, OnlyOwnClosure
  <2> QED
    BY ZenonT(40), <2>2, <2>4, <2>5 DEF ClosureInv
<1> QED
  BY ZenonT(40), <1>3, <1>4

\* Checkpoints: every step preserves ClosureInv.
LEMMA ClosureInvPreserved ==
  ASSUME CardinalityFacts, ClosureTypes, LockTypes, OpTypes, RestTypes, TodoInv,
         RaisedInv, ClosureInv, NEW t \in Threads, AnyStep(t), Alone(t)
  PROVE  ClosureInv'
  BY ZenonT(40), TransitionClosures, UnconcernedClosures,
     RunCheckpointClosures, SyncClosures DEF AnyStep

-----------------------------------------------------------------------------
(***************************************************************************)
(* SuspendThreadByThreadId, and the threads asleep on resume_cond_.        *)
(***************************************************************************)

\* SuspendThreadByThreadId: a thread comes to keep another one suspended in
\* ByIdRequest only, at a moment when nobody keeps it suspended itself.
LEMMA NoByIdCyclePreserved ==
  ASSUME LockTypes, OpTypes, CounterTypes, RaisedInv, RequestInv, RetryInv,
         NoByIdCycle, NEW t \in Threads, AnyStep(t), Alone(t)
  PROVE  NoByIdCycle'
<1> DEFINE Holds(s) == HoldsForItself(s, ByIdOps)
<1>1. \A s \in Threads \ {t} : Holds(s)' = Holds(s)
  BY ZenonT(40) DEF HoldsForItself, Alone
<1>2. CASE ByIdRequest(t) /\ ByIdSteps(t)
  <2>1. suspendCount[t] = 0
    BY ZenonT(40), <1>2 DEF ByIdRequest, RetryInv
  <2>2. \A s \in Threads : t \notin raised[s]
    <3>1. ~(suspendCount[t] > 0)
      BY <2>1
    <3> QED
      BY ZenonT(40), <3>1 DEF RequestInv, SuspendedBy
  <2>3. t \notin raised'[t]
    <3>1. raised'[t] = {current[t]}
      BY ZenonT(40), <1>2 DEF ByIdRequest, ByIdOutcome, OpTypes
    <3>2. current[t] # t
      BY ZenonT(40), <1>2 DEF ByIdRequest, RaisedInv
    <3> QED
      BY ZenonT(40), <3>1, <3>2
  <2>4. \A s \in Threads : t \notin Holds(s)'
    BY ZenonT(40), <1>1, <2>2, <2>3 DEF HoldsForItself
  <2>5. ASSUME NEW C \in (SUBSET Threads) \ {{}}
        PROVE  \E u \in C : \A s \in C : u \notin Holds(s)'
    <3>1. CASE t \in C
      BY ZenonT(40), <2>4, <3>1
    <3>2. CASE t \notin C
      <4>1. \E u \in C : \A s \in C : u \notin Holds(s)
        BY ZenonT(40) DEF NoByIdCycle
      <4>2. \A s \in C : Holds(s)' = Holds(s)
        BY ZenonT(40), <1>1, <3>2
      <4> QED
        BY ZenonT(40), <4>1, <4>2
    <3> QED
      BY ZenonT(40), <3>1, <3>2
  <2> QED
    BY ZenonT(40), <2>5 DEF NoByIdCycle
<1>3. CASE ~(ByIdRequest(t) /\ ByIdSteps(t))
  <2>1. Holds(t)' \subseteq Holds(t)
    <3>1. CASE ByIdSteps(t)
      <4>1. CASE ByIdPoll(t)
        <5>1. /\ op[t] = "byIdEnter" /\ raised[t] # {}
              /\ raised'[t] = {current[t]}
          BY ZenonT(40), <4>1 DEF ByIdPoll, ByIdOutcome, OpTypes
        <5>2. raised[t] = {current[t]}
          <6>1. raised[t] \subseteq {current[t]}
            BY ZenonT(40), <5>1 DEF RaisedInv
          <6> QED
            BY ZenonT(40), <5>1, <6>1
        <5>3. op[t] \in ByIdOps
          BY ZenonT(40), <5>1 DEF ByIdOps
        <5> QED
          BY ZenonT(40), <5>1, <5>2, <5>3 DEF HoldsForItself
      <4>2. ASSUME NEW u \in Threads, SuspendThreadByThreadId(t, u)
            PROVE  Holds(t)' \subseteq Holds(t)
        <5>1. op[t] = "none" /\ raised' = raised
          BY ZenonT(40), <4>2 DEF SuspendThreadByThreadId
        <5>2. raised[t] = {}
          BY ZenonT(40), <5>1 DEF RaisedInv, RaisingOps
        <5> QED
          BY ZenonT(40), <5>1, <5>2 DEF HoldsForItself
      <4>3. ASSUME ~ByIdPoll(t),
                   ~\E u \in Threads : SuspendThreadByThreadId(t, u)
            PROVE  Holds(t)' \subseteq Holds(t)
        <5>1. raised'[t] = {} \/ raised'[t] = raised[t]
          BY ZenonT(40), <1>3, <3>1, <4>3
          DEF ByIdSteps, ByIdGivesWay, ByIdRequestFails, ByIdTimeout,
              ByIdRoundEnds, Resume, ResumeBroadcasts, OpTypes
        <5>2. op[t] \in ByIdOps
          BY ZenonT(40), <1>3, <3>1, <4>3
          DEF ByIdSteps, ByIdGivesWay, ByIdRequestFails, ByIdTimeout,
              ByIdRoundEnds, Resume, ResumeBroadcasts, ByIdOps
        <5> QED
          BY ZenonT(40), <5>1, <5>2 DEF HoldsForItself
      <4> QED
        BY ZenonT(40), <4>1, <4>2, <4>3
    <3>2. CASE TransitionSteps(t)
      BY ZenonT(40), <3>2, TransitionFrame DEF HoldsForItself
    <3>3. CASE ~ByIdSteps(t) /\ ~TransitionSteps(t)
      <4>1. op'[t] \notin ByIdOps
        BY ZenonT(40), <3>3, SuspendFrame, AttachFrame, RunCheckpointFrame,
           SyncFrame, EmptyFrame, FlipFrame, JniFrame
        DEF AnyStep, RequestingOps, SuspendAllOps, ByIdOps, CountingOps,
            CheckpointOps, EmptyOps, FlipOps
      <4> QED
        BY ZenonT(40), <4>1 DEF HoldsForItself
    <3> QED
      BY ZenonT(40), <3>1, <3>2, <3>3
  <2>2. \A s \in Threads : Holds(s)' \subseteq Holds(s)
    BY ZenonT(40), <1>1, <2>1
  <2>3. ASSUME NEW C \in (SUBSET Threads) \ {{}}
        PROVE  \E u \in C : \A s \in C : u \notin Holds(s)'
    <3>1. \E u \in C : \A s \in C : u \notin Holds(s)
      BY ZenonT(40) DEF NoByIdCycle
    <3> QED
      BY ZenonT(40), <2>2, <3>1
  <2> QED
    BY ZenonT(40), <2>3 DEF NoByIdCycle
<1> QED
  BY ZenonT(40), <1>2, <1>3

\* An operation that has yet to broadcast goes on to do it.
LEMMA BroadcastsComing ==
  ASSUME OpTypes, NEW t \in Threads, AnyStep(t), Alone(t), NEW s \in Threads,
         op[s] \in Broadcasting
  PROVE  op'[s] \in Broadcasting \/ resumeWaiters' = {}
<1>1. CASE s # t
  BY ZenonT(40), <1>1 DEF Alone
<1>2. CASE s = t /\ TransitionSteps(t)
  BY ZenonT(40), <1>2, TransitionFrame
<1>3. CASE s = t /\ ByIdSteps(t)
  BY ZenonT(40), <1>3
  DEF ByIdSteps, ByIdGivesWay, ByIdRequest, ByIdRequestFails, ByIdPoll,
      ByIdTimeout, ByIdRoundEnds, Resume, ResumeBroadcasts,
      BroadcastResumeCond, SuspendThreadByThreadId, Broadcasting
<1>4. CASE s = t /\ RunCheckpointSteps(t)
  BY ZenonT(40), <1>4
  DEF RunCheckpointSteps, RunCheckpoint, CheckpointSelf, CheckpointLower,
      CheckpointBroadcast, BroadcastResumeCond, BarrierIncrement,
      BarrierReachesZero, CheckpointRunnableThread, CheckpointSuspendedThread,
      CheckpointTargetNotRunnable, CheckpointRequestFails, CheckpointOther,
      OpTypes, Broadcasting
<1>5. CASE s = t /\ SyncSteps(t)
  BY ZenonT(40), <1>5
  DEF SyncSteps, SyncRaise, SyncTargetSuspended, SyncRun, SyncLower,
      SyncBroadcast, BroadcastResumeCond, RequestSynchronousCheckpoint,
      SyncTargetNotRunnable, Broadcasting
<1>6. CASE \/ SuspendSteps(t) \/ AttachSteps(t) \/ EmptySteps(t)
           \/ FlipSteps(t) \/ JniSteps(t)
  <2>1. op[t] \notin Broadcasting
    BY ZenonT(40), <1>6, SuspendFrame, AttachFrame, EmptyFrame, FlipFrame,
       JniFrame
    DEF RequestingOps, SuspendAllOps, ByIdOps, CountingOps, CheckpointOps,
        EmptyOps, FlipOps, Broadcasting
  <2> QED
    BY ZenonT(40), <1>1, <2>1
<1> QED
  BY ZenonT(40), <1>1, <1>2, <1>3, <1>4, <1>5, <1>6 DEF AnyStep

\* A thread that sleeps on resume_cond_ after a step without a suspend request
\* did so before the step, or the step has lowered its suspend count on the way
\* to a broadcast.
LEMMA SleepersWithoutRequest ==
  ASSUME WordTypes, OpTypes, StateInv, RaisedInv,
         NEW t \in Threads, AnyStep(t), NEW u \in Threads,
         u \in resumeWaiters', "SuspendRequest" \notin flags'[u]
  PROVE  \/ u \in resumeWaiters /\ "SuspendRequest" \notin flags[u]
         \/ op'[t] \in Broadcasting
<1> DEFINE R == "SuspendRequest"
           Kept == R \in flags[u] => R \in flags'[u]
<1>1. ASSUME NEW v, NEW b, RaiseSuspendCount(v, b) PROVE Kept
  BY ZenonT(40), <1>1 DEF RaiseSuspendCount, WordTypes
<1>2. CASE TransitionSteps(t)
  <2>1. Kept
    BY ZenonT(40), <1>2
    DEF TransitionSteps, LeaveRunnable, ReturnFromNative, SpuriousWakeup,
        RunCheckpointFunction, RunEmptyCheckpoint, FullSuspendCheck,
        LeaveRunnableToWait, ReturnToRunnable, ClaimSuspendBarriers,
        FinishTransitionToSuspended, BecomeRunnable, WaitForResume,
        ResumeCondNotified, RunFlipFunction, PassSuspendBarrier,
        TransitionToSuspendedAndRunCheckpoints, EnterTransitionToRunnable,
        WordTypes
  <2>2. u \in resumeWaiters \/ R \in flags'[u]
    BY ZenonT(40), <1>2
    DEF TransitionSteps, LeaveRunnable, ReturnFromNative, SpuriousWakeup,
        RunCheckpointFunction, RunEmptyCheckpoint, FullSuspendCheck,
        LeaveRunnableToWait, ReturnToRunnable, ClaimSuspendBarriers,
        FinishTransitionToSuspended, BecomeRunnable, WaitForResume,
        ResumeCondNotified, RunFlipFunction, PassSuspendBarrier,
        TransitionToSuspendedAndRunCheckpoints, EnterTransitionToRunnable
  <2> QED
    BY ZenonT(40), <2>1, <2>2
<1>3. CASE SuspendSteps(t)
  <2>1. \/ (\E v, b : RaiseSuspendCount(v, b)) /\ UNCHANGED resumeWaiters
        \/ (\E v, b : ClearSuspendBarrier(v, b)) /\ UNCHANGED resumeWaiters
        \/ UNCHANGED <<flags, resumeWaiters>> \/ resumeWaiters' = {}
    BY ZenonT(40), <1>3
    DEF SuspendSteps, SuspendAll, EnterSuspendAllInternal, CheckSuspended,
        FinishRequests, SuspendBarrierPassed, LockMutatorExclusive, ResumeAll,
        LowerAllAndBroadcast, BroadcastResumeCond, RequestSuspend,
        RequestSuspendFails
  <2>2. ASSUME NEW v, NEW b, ClearSuspendBarrier(v, b) PROVE Kept
    BY ZenonT(40), <2>2 DEF ClearSuspendBarrier, WordTypes
  <2> QED
    BY ZenonT(40), <1>1, <2>1, <2>2
<1>4. CASE ByIdSteps(t)
  <2>1. CASE ByIdTimeout(t)
    <3>1. u \in resumeWaiters
      BY ZenonT(40), <2>1 DEF ByIdTimeout
    <3>2. R \in flags[u] => IsSuspended(u)
      BY ZenonT(40), <3>1 DEF StateInv, IsSuspended
    <3>3. R \in flags[u] => u \in raised[t]
      BY ZenonT(40), <2>1 DEF ByIdTimeout, LowerSuspendCounts
    <3>4. u \in raised[t] => u = current[t] /\ ~IsSuspended(current[t])
      <4>1. raised[t] \subseteq {current[t]}
        BY ZenonT(40), <2>1 DEF ByIdTimeout, RaisedInv
      <4> QED
        BY ZenonT(40), <2>1, <4>1 DEF ByIdTimeout
    <3> QED
      BY ZenonT(40), <3>1, <3>2, <3>3, <3>4
  <2>2. CASE ~ByIdTimeout(t)
    <3>1. \/ (\E v, b : RaiseSuspendCount(v, b)) /\ UNCHANGED resumeWaiters
          \/ op'[t] = "broadcast"
          \/ UNCHANGED <<flags, resumeWaiters>> \/ resumeWaiters' = {}
      BY ZenonT(40), <1>4, <2>2
      DEF ByIdSteps, ByIdGivesWay, ByIdRequest, ByIdRequestFails, ByIdPoll,
          ByIdRoundEnds, Resume, ResumeBroadcasts, BroadcastResumeCond,
          SuspendThreadByThreadId, OpTypes
    <3> QED
      BY ZenonT(40), <1>1, <3>1 DEF Broadcasting
  <2> QED
    BY ZenonT(40), <2>1, <2>2
<1>5. CASE AttachSteps(t)
  <2>1. (u \in resumeWaiters /\ u # t) \/ UNCHANGED <<flags, resumeWaiters>>
    BY ZenonT(40), <1>5
    DEF AttachSteps, Register, Unregister, RemoveFromList, FinishUnregister,
        StateInv
  <2>2. u # t => flags'[u] = flags[u]
    BY ZenonT(40), <1>5
    DEF AttachSteps, Register, Unregister, RemoveFromList, FinishUnregister,
        WordTypes
  <2> QED
    BY ZenonT(40), <2>1, <2>2
<1>6. CASE RunCheckpointSteps(t)
  <2>1. \/ (\E v, b : RaiseSuspendCount(v, b)) /\ UNCHANGED resumeWaiters
        \/ (\E v : EnqueueCheckpoint(t, v)) /\ UNCHANGED resumeWaiters
        \/ op'[t] = "checkpointOthers"
        \/ UNCHANGED <<flags, resumeWaiters>> \/ resumeWaiters' = {}
    BY ZenonT(40), <1>6
    DEF RunCheckpointSteps, RunCheckpoint, CheckpointSelf, CheckpointLower,
        CheckpointBroadcast, BroadcastResumeCond, BarrierIncrement,
        BarrierReachesZero, CheckpointRunnableThread,
        CheckpointSuspendedThread, CheckpointTargetNotRunnable,
        CheckpointRequestFails, CheckpointOther, OpTypes
  <2>2. ASSUME NEW v, EnqueueCheckpoint(t, v) PROVE Kept
    BY ZenonT(40), <2>2 DEF EnqueueCheckpoint, WordTypes
  <2> QED
    BY ZenonT(40), <1>1, <2>1, <2>2 DEF Broadcasting
<1>7. CASE SyncSteps(t)
  <2>1. \/ (\E v, b : RaiseSuspendCount(v, b)) /\ UNCHANGED resumeWaiters
        \/ (\E v : EnqueueCheckpoint(t, v)) /\ UNCHANGED resumeWaiters
        \/ op'[t] = "syncBroadcast"
        \/ UNCHANGED <<flags, resumeWaiters>> \/ resumeWaiters' = {}
    BY ZenonT(40), <1>7
    DEF SyncSteps, SyncRaise, SyncTargetSuspended, SyncRun, SyncLower,
        SyncBroadcast, BroadcastResumeCond, RequestSynchronousCheckpoint,
        SyncTargetNotRunnable, OpTypes
  <2>2. ASSUME NEW v, EnqueueCheckpoint(t, v) PROVE Kept
    BY ZenonT(40), <2>2 DEF EnqueueCheckpoint, WordTypes
  <2> QED
    BY ZenonT(40), <1>1, <2>1, <2>2 DEF Broadcasting
<1>8. CASE EmptySteps(t)
  <2>1. Kept
    <3>1. ASSUME NEW v \in Threads, RequestEmptyCheckpoint(t, v) PROVE Kept
      BY ZenonT(40), <3>1 DEF RequestEmptyCheckpoint, WordTypes
    <3>2. CASE ~(\E v \in Threads : RequestEmptyCheckpoint(t, v))
      <4>1. flags' = flags
        BY ZenonT(40), <1>8, <3>2
        DEF EmptySteps, ThreadListRunEmptyCheckpoint, EmptyTargetSuspended,
            EmptyRequestsDone, EmptyBarrierIncrement, EmptyBarrierReachesZero
      <4> QED
        BY ZenonT(40), <4>1
    <3> QED
      BY ZenonT(40), <3>1, <3>2
  <2>2. UNCHANGED resumeWaiters
    BY ZenonT(40), <1>8, EmptyFrame
  <2> QED
    BY ZenonT(40), <2>1, <2>2
<1>9. CASE FlipSteps(t)
  <2>1. UNCHANGED <<flags, resumeWaiters>> \/ resumeWaiters' = {}
    BY ZenonT(40), <1>9
    DEF FlipSteps, FlipThreadRoots, ThreadFlipBegun, FlipSuspendAll,
        EnterSuspendAllInternal, FlipUnlockMutator, FlipResumeRunnable,
        BroadcastResumeCond, ThreadFlipEnd, FlipLockShared, FlipUnlockShared,
        FlipResumeOthers, FlipOther
  <2> QED
    BY ZenonT(40), <2>1
<1>10. CASE JniSteps(t)
  BY ZenonT(40), <1>10, JniFrame
<1> QED
  BY ZenonT(40), <1>2, <1>3, <1>4, <1>5, <1>6, <1>7, <1>8, <1>9, <1>10
  DEF AnyStep

\* resume_cond_: every step preserves NoLostResume.
LEMMA NoLostResumePreserved ==
  ASSUME WordTypes, WordTypes', OpTypes, StateInv, RaisedInv, NoLostResume,
         NEW t \in Threads, AnyStep(t), Alone(t)
  PROVE  NoLostResume'
<1> SUFFICES ASSUME NEW u \in resumeWaiters', "SuspendRequest" \notin flags'[u]
             PROVE  \E s \in Threads : op'[s] \in Broadcasting
  BY ZenonT(40) DEF NoLostResume, Broadcasting
<1>1. u \in Threads
  BY ZenonT(40) DEF WordTypes
<1>2. CASE op'[t] \in Broadcasting
  BY ZenonT(40), <1>2
<1>3. CASE u \in resumeWaiters /\ "SuspendRequest" \notin flags[u]
  <2>1. PICK s \in Threads : op[s] \in Broadcasting
    BY ZenonT(40), <1>3 DEF NoLostResume, Broadcasting
  <2> QED
    BY ZenonT(40), <2>1, BroadcastsComing
<1> QED
  BY ZenonT(40), <1>1, <1>2, <1>3, SleepersWithoutRequest

-----------------------------------------------------------------------------
(***************************************************************************)
(* FurtherInv, and what follows from it.                                   *)
(***************************************************************************)

\* FurtherInv holds when the runtime starts.
LEMMA InitFurther ==
  ASSUME CardinalityFacts, Init
  PROVE  FurtherInv
<1>1. Cardinality({}) = 0
  BY ZenonT(40) DEF CardinalityFacts
<1>2. RestTypes
  BY RolesAssumption DEF Init, RestTypes
<1>3. \A t \in Threads :
        /\ op[t] = "none" /\ raised[t] = {} /\ todo[t] = {} /\ flags[t] = {}
        /\ suspendCount[t] = 0 /\ pending[t] = 0 /\ critical[t] = 0
        /\ flipFunction[t] = FALSE /\ state[t] = "Native"
        /\ checkpoints[t] = << >> /\ ranOn[t] = {}
  BY ZenonT(40) DEF Init
<1>4. unregisteringCount = 0 /\ disableThreadFlipCount = 0 /\ resumeWaiters = {}
  BY ZenonT(40) DEF Init
<1>5. PendingInv /\ RetryInv /\ HeldInv /\ JniInv
  BY ZenonT(40), <1>3 DEF PendingInv, RetryInv, HeldInv, JniInv, FlipOps
<1>6. UnregisterInv
  <2>1. {t \in Threads : op[t] \in {"unregister", "detached"}} = {}
    BY ZenonT(40), <1>3
  <2> QED
    BY ZenonT(40), <1>1, <1>4, <2>1 DEF UnregisterInv
<1>7. \A s \in Threads : ~InFlip(s)
  BY ZenonT(40), <1>3 DEF InFlip, FlipOps, SuspendAllOps, RequestingOps
<1>8. FlipInv
  BY ZenonT(40), <1>3, <1>7 DEF FlipInv
<1>9. CriticalInv
  <2>1. \A t \in Threads : ~(critical[t] > 0)
    BY <1>3
  <2>2. {t \in Threads : critical[t] > 0 /\ op[t] # "jniWait"} = {}
    BY ZenonT(40), <2>1
  <2>3. \A s \in Threads : op[s] # "flipSuspendAll" /\ op[s] # "jniWait"
    BY ZenonT(40), <1>3
  <2> QED
    BY ZenonT(40), <1>1, <1>4, <1>7, <2>2, <2>3 DEF CriticalInv
<1>10. EmptyInv
  <2>1. Flagged = {} /\ \A s \in Threads : op[s] \notin EmptyOps
    BY ZenonT(40), <1>3 DEF Flagged, EmptyOps
  <2> QED
    BY ZenonT(40), <2>1 DEF EmptyInv, EmptyOps
<1>11. ClosureInv
  <2>1. DOMAIN << >> = {}
    OBVIOUS
  <2>2. ASSUME NEW t \in Threads
        PROVE  Distinct(checkpoints[t]) /\ Queued(t) = {} /\ Unserved(t) = {}
    BY ZenonT(40), <1>3, <2>1 DEF Distinct, Queued, Unserved
  <2>3. \A t \in Threads : op[t] \notin CountingOps /\ op[t] # "barrierWait"
    BY ZenonT(40), <1>3 DEF CountingOps
  <2> QED
    BY ZenonT(40), <2>2, <2>3 DEF ClosureInv, ClosureExact
<1>12. NoByIdCycle /\ NoLostResume
  BY ZenonT(40), <1>3, <1>4 DEF NoByIdCycle, HoldsForItself, NoLostResume
<1> QED
  BY ZenonT(40), <1>2, <1>5, <1>6, <1>8, <1>9, <1>10, <1>11, <1>12
  DEF FurtherInv

\* A step of a thread preserves FurtherInv.
LEMMA StepFurther ==
  ASSUME CardinalityFacts, IInv, IInv', RequestInv, RequestInv', FurtherInv,
         NEW t \in Threads, AnyStep(t), CountsUnchanged \/ CountsAffected(t)
  PROVE  FurtherInv'
<1>1. /\ WordTypes /\ ClosureTypes /\ FlipTypes /\ LockTypes /\ OpTypes
      /\ CurrentTypes /\ CounterTypes /\ WordTypes' /\ CounterTypes'
  BY ZenonT(40) DEF IInv, TypeInv
<1>2. /\ StateInv /\ OpInv /\ LockInv /\ TodoInv /\ RaisedInv /\ BarrierInv
      /\ AskedInv
  BY ZenonT(40) DEF IInv, SuspensionInv
<1>3. /\ RestTypes /\ PendingInv /\ RetryInv /\ UnregisterInv /\ HeldInv
      /\ JniInv /\ FlipInv /\ CriticalInv /\ EmptyInv /\ ClosureInv
      /\ NoByIdCycle /\ NoLostResume
  BY ZenonT(40) DEF FurtherInv
<1>4. Alone(t)
  BY ZenonT(40), <1>1, <1>3, AloneSteps
<1>5. RestTypes' /\ PendingInv' /\ RetryInv' /\ UnregisterInv'
  BY ZenonT(40), <1>1, <1>2, <1>3, <1>4, RestTypesPreserved,
     PendingInvPreserved, RetryInvPreserved, UnregisterInvPreserved
<1>6. HeldInv' /\ JniInv'
  BY ZenonT(40), <1>1, <1>2, <1>3, <1>4, HeldInvPreserved, JniInvPreserved
<1>7. FlipInv' /\ CriticalInv'
  BY ZenonT(40), <1>1, <1>2, <1>3, <1>4, FlipInvPreserved, CriticalInvPreserved
<1>8. EmptyInv' /\ ClosureInv'
  BY ZenonT(40), <1>1, <1>2, <1>3, <1>4, EmptyInvPreserved, ClosureInvPreserved
<1>9. NoByIdCycle' /\ NoLostResume'
  BY ZenonT(40), <1>1, <1>2, <1>3, <1>4, NoByIdCyclePreserved,
     NoLostResumePreserved
<1> QED
  BY ZenonT(40), <1>5, <1>6, <1>7, <1>8, <1>9 DEF FurtherInv

\* So does a stuttering step.
LEMMA StutterFurther ==
  ASSUME FurtherInv, UNCHANGED vars
  PROVE  FurtherInv'
<1> USE DEF vars, FurtherInv
<1>1. RestTypes' /\ PendingInv' /\ RetryInv' /\ UnregisterInv' /\ HeldInv' /\ JniInv'
  BY ZenonT(40)
  DEF RestTypes, PendingInv, RetryInv, UnregisterInv, HeldInv, JniInv
<1>2. FlipInv' /\ CriticalInv'
  BY ZenonT(40) DEF FlipInv, CriticalInv, InFlip, WillBeFlipped
<1>3. EmptyInv' /\ ClosureInv'
  <2>1. EmptyInv'
    BY ZenonT(40) DEF EmptyInv, Flagged
  <2>2. \A s \in Threads : Queued(s)' = Queued(s) /\ Unserved(s)' = Unserved(s)
    BY ZenonT(40) DEF Queued, Unserved
  <2>3. ClosureInv'
    BY ZenonT(40), <2>2 DEF ClosureInv, ClosureExact, Distinct
  <2> QED
    BY ZenonT(40), <2>1, <2>3
<1>4. NoByIdCycle' /\ NoLostResume'
  BY ZenonT(40) DEF NoByIdCycle, HoldsForItself, NoLostResume
<1> QED
  BY ZenonT(40), <1>1, <1>2, <1>3, <1>4

\* TypeOK: the counters are cardinalities, so they are not negative.
LEMMA TypeOKHolds ==
  ASSUME CardinalityFacts, IInv, RequestInv, FurtherInv
  PROVE  TypeOK
<1>1. /\ WordTypes /\ ClosureTypes /\ FlipTypes /\ LockTypes /\ OpTypes
      /\ CounterTypes /\ RestTypes
  BY ZenonT(40) DEF IInv, TypeInv, FurtherInv
<1>2. suspendCount \in [Threads -> Nat]
  BY <1>1 DEF CounterTypes, RequestInv
<1>3. ASSUME NEW s \in Threads PROVE pending[s] \in Nat
  <2>1. CASE op[s] \in RequestingOps
    <3>1. todo[s] \union Owing(s) \in SUBSET Threads
      BY ZenonT(40), <1>1 DEF OpTypes, Owing
    <3>2. pending[s] = Cardinality(todo[s] \union Owing(s))
      BY ZenonT(40), <2>1 DEF IInv, SuspensionInv, SuspendBarrierExact
    <3> QED
      BY ZenonT(40), <3>1, <3>2 DEF CardinalityFacts
  <2>2. CASE op[s] \notin RequestingOps
    <3>1. pending[s] = 0
      BY ZenonT(40), <2>2 DEF FurtherInv, PendingInv
    <3> QED
      BY <3>1
  <2> QED
    BY ZenonT(40), <2>1, <2>2
<1>4. pending \in [Threads -> Nat]
  BY <1>1, <1>3 DEF CounterTypes
<1>5. suspendAllCount \in Nat
  <2>1. AllSuspenders \in SUBSET Threads
    BY ZenonT(40) DEF AllSuspenders
  <2> QED
    BY ZenonT(40), <2>1 DEF IInv, SuspendCountExact, CardinalityFacts
<1>6. unregisteringCount \in Nat
  <2> DEFINE S == {t \in Threads : op[t] \in {"unregister", "detached"}}
  <2>1. S \in SUBSET Threads
    BY ZenonT(40)
  <2>2. unregisteringCount = Cardinality(S)
    BY ZenonT(40) DEF FurtherInv, UnregisterInv
  <2> QED
    BY ZenonT(40), <2>1, <2>2 DEF CardinalityFacts
<1>7. disableThreadFlipCount \in Nat
  <2> DEFINE S == {t \in Threads : critical[t] > 0 /\ op[t] # "jniWait"}
  <2>1. S \in SUBSET Threads
    BY ZenonT(40)
  <2>2. disableThreadFlipCount = Cardinality(S)
    BY ZenonT(40) DEF FurtherInv, CriticalInv
  <2> QED
    BY ZenonT(40), <2>1, <2>2 DEF CardinalityFacts
<1> QED
  BY ZenonT(40), <1>1, <1>2, <1>4, <1>5, <1>6, <1>7
  DEF TypeOK, WordTypes, ClosureTypes, FlipTypes, LockTypes, OpTypes, RestTypes

\* AssertThreadsAreSuspended: who is kept suspended is attached, has a request
\* and is not runnable.
LEMMA HeldThreadsStaySuspendedHolds ==
  ASSUME IInv, RequestInv, FurtherInv
  PROVE  HeldThreadsStaySuspended
<1>1. /\ LockTypes /\ TodoInv /\ RaisedInv /\ BarrierInv /\ AskedInv /\ HeldInv
  BY ZenonT(40) DEF IInv, TypeInv, SuspensionInv, FurtherInv
<1>2. \A s, t \in Threads : t \in raised[s] => "SuspendRequest" \in flags[t]
  BY ZenonT(40) DEF RequestInv, SuspendedBy
<1>3. ASSUME NEW s \in Threads PROVE raised[s] \subseteq list /\ list \subseteq Threads
  BY ZenonT(40), <1>1 DEF RaisedInv, LockTypes
<1>4. ASSUME NEW s \in Threads, op[s] = "allSuspended", NEW t \in list \ {s}
      PROVE  IsSuspended(t)
  <2>1. t \in SuspendAllTargets(s)
    BY ZenonT(40), <1>1, <1>4
    DEF TodoInv, LoopOps, SuspendAllTargets, SuspendAllOps
  <2>2. t \in Threads /\ "SuspendRequest" \in flags[t]
    BY ZenonT(40), <1>1, <2>1 DEF LockTypes, RequestInv, SuspendedBy
  <2>3. s \notin barriers[t]
    BY ZenonT(40), <1>1, <1>4, <2>2 DEF BarrierInv, RequestingOps
  <2> QED
    BY ZenonT(40), <1>1, <2>1, <2>2, <2>3 DEF AskedInv, IsSuspended
<1>5. ASSUME NEW s \in Threads,
             op[s] \in {"byIdFound", "byIdHold", "checkpointLower", "syncRun",
                        "syncLower"}
      PROVE  current[s] \in list /\ IsSuspended(current[s])
  <2>1. current[s] \in raised[s]
    BY ZenonT(40), <1>1, <1>5 DEF RaisedInv
  <2>2. state[current[s]] # "Runnable"
    BY ZenonT(40), <1>1, <1>5 DEF HeldInv
  <2> QED
    BY ZenonT(40), <1>2, <1>3, <2>1, <2>2 DEF IsSuspended
<1>6. ASSUME NEW s \in Threads, op[s] \in FlipOps, NEW t \in raised[s]
      PROVE  t \in list /\ IsSuspended(t)
  BY ZenonT(40), <1>1, <1>2, <1>3, <1>6 DEF HeldInv, IsSuspended
<1> QED
  BY ZenonT(40), <1>4, <1>5, <1>6 DEF HeldThreadsStaySuspended

\* FlipThreadRoots: a running thread is in nobody's hands and past its own flip
\* function.
LEMMA FlippedBeforeRunningHolds ==
  ASSUME IInv, FurtherInv
  PROVE  FlippedBeforeRunning
<1> SUFFICES ASSUME NEW t \in Threads, pc[t] \in {"running", "unborn"},
                    flipFunction[t]
             PROVE  FALSE
  BY ZenonT(40) DEF FlippedBeforeRunning
<1>1. StateInv /\ OpInv /\ RaisedInv /\ HeldInv /\ JniInv /\ FlipInv
  BY ZenonT(40) DEF IInv, FurtherInv
<1>2. op[t] # "jniWait"
  BY ZenonT(40), <1>1 DEF JniInv
<1>3. PICK s \in Threads : /\ t \in raised[s] \union {s}
                           /\ op[s] \in {"threadFlipEnd", "flipLockShared",
                                         "flipOthers"}
  BY ZenonT(40), <1>1, <1>2 DEF FlipInv, WillBeFlipped
<1>4. op[s] \in FlipOps
  BY ZenonT(40), <1>3 DEF FlipOps
<1>5. s # t
  BY ZenonT(40), <1>1, <1>4 DEF OpInv
<1>6. t \in list /\ state[t] # "Runnable"
  BY ZenonT(40), <1>1, <1>3, <1>4, <1>5 DEF RaisedInv, HeldInv
<1> QED
  BY ZenonT(40), <1>1, <1>6 DEF StateInv

\* ThreadFlipBegin: the count is zero while the flip suspends the threads.
LEMMA NoFlipInCriticalHolds ==
  ASSUME CardinalityFacts, FurtherInv
  PROVE  NoFlipInCritical
<1> SUFFICES ASSUME NEW s \in Threads, NEW t \in Threads,
                    op[s] \in SuspendAllOps, caller[s] = "FlipThreadRoots",
                    critical[t] > 0, op[t] # "jniWait"
             PROVE  FALSE
  BY ZenonT(40) DEF NoFlipInCritical
<1> DEFINE S == {u \in Threads : critical[u] > 0 /\ op[u] # "jniWait"}
<1>1. disableThreadFlipCount = 0
  BY ZenonT(40) DEF FurtherInv, CriticalInv, InFlip
<1>2. S \in SUBSET Threads /\ Cardinality(S) = 0
  BY ZenonT(40), <1>1 DEF FurtherInv, CriticalInv
<1>3. S = {}
  BY ZenonT(40), <1>2 DEF CardinalityFacts
<1> QED
  BY ZenonT(40), <1>3

\* RunCheckpoint and RunEmptyCheckpoint: what their callers rely on.
LEMMA CheckpointsHold ==
  ASSUME FurtherInv
  PROVE  CheckpointRunsOnce /\ EmptyCheckpointAnswered
<1>1. EmptyCheckpointAnswered
  BY ZenonT(40) DEF FurtherInv, EmptyInv, Flagged, EmptyCheckpointAnswered
<1>2. CountingOps \union {"barrierWait"} \subseteq CheckpointOps
  BY ZenonT(40) DEF CountingOps, CheckpointOps
<1>3. CheckpointRunsOnce
  BY ZenonT(40), <1>2
  DEF FurtherInv, ClosureInv, ClosureExact, Queued, CheckpointRunsOnce
<1> QED
  BY ZenonT(40), <1>1, <1>3

=============================================================================
