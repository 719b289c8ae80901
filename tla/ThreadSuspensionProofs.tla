----------------------- MODULE ThreadSuspensionProofs -----------------------
(***************************************************************************)
(* The theorems about thread suspension.                                   *)
(***************************************************************************)
EXTENDS ThreadSuspensionTypes, ThreadSuspensionLocals,
        ThreadSuspensionCounts, ThreadSuspensionFurther, FiniteSetTheorems

USE DEF transitionVars, wordVars, countVars, checkpointVars, flipVars,
        passVars, threadListVars, listVars, mutatorVars, localVars, jniVars,
        ThreadListUnchanged, CheckpointsAndFlipUnchanged, Goto, Begin

-----------------------------------------------------------------------------
(***************************************************************************)
(* The invariant IInv, and the theorems.                                   *)
(***************************************************************************)

\* There are finitely many threads.
LEMMA ThreadsCardinality == CardinalityFacts
<1> SUFFICES ASSUME NEW S \in SUBSET Threads
             PROVE  /\ Cardinality(S) \in Nat
                    /\ Cardinality(S) = 0 <=> S = {}
                    /\ \A x \in Threads \ S :
                         Cardinality(S \union {x}) = Cardinality(S) + 1
                    /\ \A x \in S : Cardinality(S \ {x}) = Cardinality(S) - 1
  BY ZenonT(40) DEF CardinalityFacts
<1>1. IsFiniteSet(S)
  BY ZenonT(40), ThreadsAssumption, FS_Subset
<1> QED
  BY ZenonT(40), <1>1, FS_CardinalityType, FS_EmptySet, FS_AddElement,
     FS_RemoveElement

\* The suspend counts agree with what threads have suspended: nobody anybody.
LEMMA InitCounts == Init => SuspendCountExact
<1> SUFFICES ASSUME Init PROVE SuspendCountExact
  OBVIOUS
<1>1. \A t \in Threads : Suspenders(t) = {}
  BY ZenonT(40)
  DEF Init, Suspenders, SuspendedBy, SuspendAllTargets, SuspendAllOps,
      RequestingOps
<1>2. AllSuspenders = {}
  BY ZenonT(40) DEF Init, AllSuspenders, SuspendAllOps, RequestingOps
<1>3. Cardinality({}) = 0
  BY ZenonT(40), FS_EmptySet
<1> QED
  BY ZenonT(40), <1>1, <1>2, <1>3 DEF Init, SuspendCountExact

\* No SuspendAll has begun.
LEMMA InitSuspension == Init => SuspensionInv
<1> SUFFICES ASSUME Init PROVE SuspensionInv
  OBVIOUS
<1>1. \A s \in Threads : op[s] \notin SuspendAllOps /\ op[s] \notin RequestingOps
  BY ZenonT(40) DEF Init, SuspendAllOps, RequestingOps
<1>2. \A s \in Threads : SuspendAllTargets(s) = {} /\ Owing(s) = {}
  BY ZenonT(40), <1>1 DEF Init, SuspendAllTargets, Owing
<1>3. BarrierInv /\ AskedInv
  BY ZenonT(40), <1>2 DEF Init, BarrierInv, AskedInv
<1>4. SuspendBarrierExact
  BY ZenonT(30), <1>1, <1>2 DEF SuspendBarrierExact
<1> QED
  BY ZenonT(40), <1>3, <1>4 DEF SuspensionInv

\* The runtime starts with all attached threads in native code, no request
\* and no lock taken.
LEMMA InitIInv == Init => IInv
<1> SUFFICES ASSUME Init PROVE IInv
  OBVIOUS
<1>1. WordTypes
  BY ZenonT(40) DEF Init, WordTypes, ThreadState, Pc
<1>2. FlipTypes
  BY Zenon DEF Init, FlipTypes
<1>3. CounterTypes
  BY DEF Init, CounterTypes
<1>4. ClosureTypes
  BY DEF Init, ClosureTypes
<1>5. LockTypes /\ OpTypes /\ CurrentTypes
  BY ZenonT(40), RolesAssumption
  DEF Init, LockTypes, OpTypes, CurrentTypes, NamingOps, Ops
<1>6. StateInv /\ FlagInv
  BY RolesAssumption DEF Init, StateInv, FlagInv
<1>7. OpInv /\ LockInv
  BY ZenonT(40), ThreadsAssumption
  DEF Init, OpInv, LockInv, SuspendAllOps, RequestingOps, FlipOps,
      CountLockOps, ListLockOps
<1>8. TodoInv /\ RaisedInv
  BY ZenonT(40) DEF Init, TodoInv, RaisedInv, LoopOps
<1> QED
  BY ZenonT(40), <1>1, <1>4, <1>5, <1>6, <1>7, <1>8, <1>2, <1>3, InitCounts,
     InitSuspension
  DEF IInv, TypeInv

\* AnyStep only sorts the disjuncts of Next.
LEMMA NextIsAnyStep == Next => \E t \in Threads : AnyStep(t)
<1> SUFFICES ASSUME NEW t \in Threads, Choice(t) \/ Progress(t)
             PROVE  AnyStep(t)
  BY ZenonT(40) DEF Next
<1>1. CASE Choice(t)
  BY ZenonT(40), <1>1
  DEF Choice, AnyStep, TransitionSteps, SuspendSteps, ByIdSteps, AttachSteps,
      RunCheckpointSteps, SyncSteps, EmptySteps, FlipSteps, JniSteps
<1>2. CASE Progress(t)
  BY ZenonT(40), <1>2
  DEF Progress, RunRequestedCheckpoint, TransitionStep, SuspendStep, ByIdStep,
      DetachStep, CheckpointStep, FlipStep, AnyStep, TransitionSteps,
      SuspendSteps, ByIdSteps, AttachSteps, RunCheckpointSteps, SyncSteps,
      EmptySteps, FlipSteps, JniSteps
<1> QED
  BY ZenonT(40), <1>1, <1>2

\* A step of a thread preserves the invariant.
LEMMA StepIInv ==
  ASSUME IInv, NEW t \in Threads, AnyStep(t)
  PROVE  IInv'
<1> USE ThreadsCardinality
<1>1. /\ WordTypes /\ ClosureTypes /\ FlipTypes /\ LockTypes /\ OpTypes
      /\ CurrentTypes /\ CounterTypes
  BY ZenonT(40) DEF IInv, TypeInv
<1>2. /\ StateInv /\ OpInv /\ LockInv /\ TodoInv /\ RaisedInv /\ FlagInv
      /\ SuspendCountExact /\ SuspensionInv
  BY ZenonT(40) DEF IInv
<1>3. RequestInv
  BY ZenonT(40), <1>2, RequestInvHolds
<1>4. BarrierInv
  BY ZenonT(40), <1>2 DEF SuspensionInv
<1>5. /\ WordTypes' /\ ClosureTypes' /\ LockTypes' /\ OpTypes'
      /\ CurrentTypes'
  BY ZenonT(40), <1>1, SetTypesPreserved
<1>6. FlipTypes'
  BY ZenonT(40), <1>1, FlipTypesPreserved
<1>7. /\ CounterTypes'
      /\ CountsUnchanged \/ CountsAffected(t)
  BY ZenonT(40), <1>1, CounterTypesPreserved
<1>8. StateInv' /\ OpInv' /\ LockInv'
  BY ZenonT(40), <1>1, <1>2, StructurePreserved
<1>9. /\ TodoInv' /\ RaisedInv'
      /\ SuspendAllsUnaffected \/ SuspendAllAffected(t)
  BY ZenonT(40), <1>1, <1>2, <1>3, LocalsPreserved
<1>10. FlagInv'
  BY ZenonT(40), <1>1, <1>2, <1>3, <1>4, FlagInvPreserved
<1>11. SuspendCountExact'
  BY ZenonT(40), <1>1, <1>2, <1>7, <1>9, SuspendCountExactPreserved
<1>12. BarriersUnaffected \/ BarriersAffected(t)
  BY ZenonT(40), <1>1, BarriersSteps
<1>13. SuspensionInv'
  BY ZenonT(40), <1>1, <1>2, <1>3, <1>9, <1>12, SuspensionPreserved
<1> QED
  BY ZenonT(40), <1>5, <1>6, <1>7, <1>8, <1>9, <1>10, <1>11, <1>13
  DEF IInv, TypeInv

\* So does a stuttering step.
LEMMA StutterIInv == IInv /\ UNCHANGED vars => IInv'
<1> SUFFICES ASSUME IInv, UNCHANGED vars PROVE IInv'
  OBVIOUS
<1> USE DEF vars, IInv, TypeInv
<1>1. TypeInv'
  BY ZenonT(40)
  DEF WordTypes, ClosureTypes, FlipTypes, LockTypes, OpTypes, CurrentTypes,
      CounterTypes
<1>2. StateInv' /\ OpInv' /\ LockInv'
  BY ZenonT(40) DEF StateInv, OpInv, LockInv
<1>3. TodoInv' /\ RaisedInv' /\ FlagInv'
  BY ZenonT(40) DEF TodoInv, RaisedInv, FlagInv
<1>4. SuspendCountExact'
  BY ZenonT(40)
  DEF SuspendCountExact, Suspenders, AllSuspenders, SuspendedBy,
      SuspendAllTargets
<1>5. SuspensionInv'
  BY ZenonT(40)
  DEF SuspensionInv, BarrierInv, SuspendBarrierExact, AskedInv, Owing,
      SuspendAllTargets
<1> QED
  BY ZenonT(40), <1>1, <1>2, <1>3, <1>4, <1>5

\* Thread suspension keeps IInv, for any number of threads, any assignment of
\* roles to them and any kMaxSuspendBarriers.
THEOREM Invariance == Spec => []IInv
<1>1. IInv /\ [Next]_vars => IInv'
  BY ZenonT(40), NextIsAnyStep, StepIInv, StutterIInv
<1> QED
  BY InitIInv, <1>1, PTL DEF Spec

\* ModifySuspendCount: every suspend count, and suspend_all_count_, is the
\* number of operations that have raised it and have yet to lower it.
THEOREM SuspendCountsAreExact == Spec => []SuspendCountExact
<1>1. IInv => SuspendCountExact
  BY ZenonT(40) DEF IInv
<1> QED
  BY <1>1, Invariance, PTL

\* SuspendAllInternal waits for exactly the threads that still hold a pointer
\* to its pending_threads counter or have yet to be asked, and when it has
\* returned no thread holds a pointer into its stack frame.
THEOREM SuspendBarriersAreExact == Spec => []SuspendBarrierExact
<1>1. IInv => SuspendBarrierExact
  BY ZenonT(40) DEF IInv, SuspensionInv
<1> QED
  BY <1>1, Invariance, PTL

\* While a thread holds mutator_lock_ exclusively after SuspendAll or in
\* FlipThreadRoots, no other thread is runnable.
THEOREM SuspendAllStopsTheWorld == Spec => []MutatorExclusion
<1>1. IInv => MutatorExclusion
  BY ZenonT(40), MutatorExclusionHolds DEF IInv, TypeInv
<1> QED
  BY <1>1, Invariance, PTL

\* The suspend counts and the flags, in IInv, make a request visible to the
\* thread it is for.
LEMMA IInvRequests == IInv => RequestInv
  BY ZenonT(40), ThreadsCardinality, RequestInvHolds DEF IInv

\* Thread suspension keeps FurtherInv: on top of IInv, what is known of held
\* threads, of the flip, of JNI critical sections and of the barriers of
\* checkpoints.
THEOREM FurtherInvariance == Spec => []FurtherInv
<1>1. Init => FurtherInv
  BY ZenonT(40), ThreadsCardinality, InitFurther
<1>2. ASSUME IInv, FurtherInv, IInv', NEW t \in Threads, AnyStep(t)
      PROVE  FurtherInv'
  <2>1. RequestInv /\ RequestInv'
    BY <1>2, IInvRequests, PTL
  <2>2. CountsUnchanged \/ CountsAffected(t)
    <3>1. LockTypes /\ OpTypes /\ CurrentTypes /\ CounterTypes
      BY ZenonT(40), <1>2 DEF IInv, TypeInv
    <3> QED
      BY ZenonT(40), <1>2, <3>1, ThreadsCardinality, CounterTypesPreserved
  <2> QED
    BY ZenonT(40), <1>2, <2>1, <2>2, ThreadsCardinality, StepFurther
<1>3. IInv /\ FurtherInv /\ IInv' /\ [Next]_vars => FurtherInv'
  BY ZenonT(40), <1>2, NextIsAnyStep, StutterFurther
<1> QED
  BY <1>1, <1>3, Invariance, PTL DEF Spec

\* Every variable keeps its type, and the CHECKs of ModifySuspendCountInternal,
\* PassActiveSuspendBarriers and DecrementDisableThreadFlip hold: no suspend
\* count, pending_threads counter, unregistering_count_ or disable count
\* becomes negative.
THEOREM TypesAreKept == Spec => []TypeOK
<1>1. IInv /\ FurtherInv => TypeOK
  BY ZenonT(40), ThreadsCardinality, IInvRequests, TypeOKHolds
<1> QED
  BY <1>1, Invariance, FurtherInvariance, PTL

\* AssertThreadsAreSuspended: whoever works on threads that it keeps suspended
\* (after SuspendAll, SuspendThreadByThreadId, in RunCheckpoint,
\* RequestSynchronousCheckpoint and FlipThreadRoots) finds them attached and
\* suspended until it resumes them.
THEOREM HeldThreadsAreSuspended == Spec => []HeldThreadsStaySuspended
<1>1. IInv /\ FurtherInv => HeldThreadsStaySuspended
  BY ZenonT(40), ThreadsCardinality, IInvRequests, HeldThreadsStaySuspendedHolds
<1> QED
  BY <1>1, Invariance, FurtherInvariance, PTL

\* SuspendThreadByThreadId: threads that suspend each other by id never do so
\* in a cycle, because a thread that has been asked to suspend gives way before
\* it asks.
THEOREM SuspensionsByIdAreAcyclic == Spec => []NoByIdCycle
<1>1. FurtherInv => NoByIdCycle
  BY ZenonT(40) DEF FurtherInv
<1> QED
  BY <1>1, FurtherInvariance, PTL

\* resume_cond_: a thread asleep without a suspend request has a broadcast
\* coming, so no resumption is lost.
THEOREM ResumptionsAreNotLost == Spec => []NoLostResume
<1>1. FurtherInv => NoLostResume
  BY ZenonT(40) DEF FurtherInv
<1> QED
  BY <1>1, FurtherInvariance, PTL

\* FlipThreadRoots: no thread runs managed code, or is destroyed, with a flip
\* function that has not run.
THEOREM ThreadsAreFlippedBeforeTheyRun == Spec => []FlippedBeforeRunning
<1>1. IInv /\ FurtherInv => FlippedBeforeRunning
  BY ZenonT(40), FlippedBeforeRunningHolds
<1> QED
  BY <1>1, Invariance, FurtherInvariance, PTL

\* ThreadFlipBegin: while FlipThreadRoots suspends and flips, no thread is
\* inside a JNI critical section.
THEOREM NoCriticalSectionDuringAFlip == Spec => []NoFlipInCritical
<1>1. IInv /\ FurtherInv => NoFlipInCritical
  BY ZenonT(40), ThreadsCardinality, NoFlipInCriticalHolds
<1> QED
  BY <1>1, Invariance, FurtherInvariance, PTL

\* RunCheckpoint and RequestSynchronousCheckpoint: the closure runs at most
\* once on each thread, the barrier counts exactly those that have yet to run
\* it, and none can run it after the wait.
THEOREM CheckpointsRunOnce == Spec => []CheckpointRunsOnce
<1>1. IInv /\ FurtherInv => CheckpointRunsOnce
  BY ZenonT(40), CheckpointsHold
<1> QED
  BY <1>1, Invariance, FurtherInvariance, PTL

\* RunEmptyCheckpoint: when it returns every thread that was runnable has
\* answered, and no answer is left for the next one.
THEOREM EmptyCheckpointsAreAnswered == Spec => []EmptyCheckpointAnswered
<1>1. IInv /\ FurtherInv => EmptyCheckpointAnswered
  BY ZenonT(40), CheckpointsHold
<1> QED
  BY <1>1, Invariance, FurtherInvariance, PTL

=============================================================================
