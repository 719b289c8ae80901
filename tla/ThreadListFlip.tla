--------------------------- MODULE ThreadListFlip ---------------------------
(***************************************************************************)
(* ThreadList::FlipThreadRoots, the "checkpoint/suspend-all hybrid" that   *)
(* the concurrent copying collector uses, and the JNI critical sections    *)
(* that hold it off (Heap::IncrementDisableThreadFlip, ThreadFlipBegin     *)
(* and their counterparts in runtime/gc/heap.cc).                          *)
(***************************************************************************)
EXTENDS ThreadListCheckpoint

CONSTANTS
  Flippers,      \* threads that call FlipThreadRoots
  JniCriticals   \* threads that enter JNI critical sections

\* Collections are serialised by the heap, so there is one flip at a time.
ASSUME FlipRolesAssumption ==
  /\ Flippers \subseteq Threads
  /\ \A a, b \in Flippers : a = b
  /\ JniCriticals \subseteq Threads

VARIABLES
  threadFlipRunning,       \* Heap::thread_flip_running_
  disableThreadFlipCount,  \* Heap::disable_thread_flip_count_
  critical                 \* Thread::tls32_.disable_thread_flip_count

jniVars == <<threadFlipRunning, disableThreadFlipCount, critical>>

-----------------------------------------------------------------------------
(***************************************************************************)
(* FlipThreadRoots.                                                        *)
(***************************************************************************)

\* ThreadFlipBegin: announce the flip, then wait for the critical sections.
\* The previous collection waited on gc_barrier_ for every flip function.
FlipThreadRoots(s) ==
  /\ Begin(s, Flippers, {"suspended"})
  /\ \A t \in Threads : ~flipFunction[t]
  /\ threadFlipRunning' = TRUE
  /\ state' = [state EXCEPT ![s] = "WaitingForGcThreadFlip"]
  /\ Goto(s, "threadFlipBegin")
  /\ UNCHANGED <<flags, countVars, checkpointVars, flipVars, passVars, pc,
                 countLock, resumeWaiters, listVars, listLock, mutatorVars,
                 caller, todo, raised, current, expected,
                 disableThreadFlipCount, critical>>

\* Variant with a defect: there is no wait for critical sections.
ThreadFlipBegunEarly(s) ==
  /\ op[s] = "threadFlipBegin"
  /\ state' = [state EXCEPT ![s] = "Native"]
  /\ Goto(s, "flipSuspendAll")
  /\ UNCHANGED <<flags, countVars, checkpointVars, flipVars, passVars, pc,
                 countLock, resumeWaiters, listVars, listLock, mutatorVars,
                 localVars, expected, jniVars>>

ThreadFlipBegun(s) ==
  /\ op[s] = "threadFlipBegin"
  /\ disableThreadFlipCount = 0
  /\ state' = [state EXCEPT ![s] = "Native"]
  /\ Goto(s, "flipSuspendAll")
  /\ UNCHANGED <<flags, countVars, checkpointVars, flipVars, passVars, pc,
                 countLock, resumeWaiters, listVars, listLock, mutatorVars,
                 localVars, expected, jniVars>>

FlipSuspendAll(s) ==
  /\ op[s] = "flipSuspendAll"
  /\ EnterSuspendAllInternal(s, "FlipThreadRoots")
  /\ UNCHANGED <<opsLeft, expected, jniVars>>

\* The flip callback has run; the mutator lock is released.
FlipUnlockMutator(s) ==
  /\ op[s] = "allSuspended"
  /\ caller[s] = "FlipThreadRoots"
  /\ mutatorWriter' = NoThread
  /\ Goto(s, "flipResume")
  /\ UNCHANGED <<transitionVars, listVars, listLock, mutatorReaders, localVars,
                 expected, jniVars>>

\* Threads that wait to become runnable and are suspended for this flip only.
ResumedEarly(s) ==
  {t \in list \ {s} : /\ state[t] = "WaitingForGcThreadFlip" \/ transitioning[t]
                      /\ suspendCount[t] = 1}

\* Variant with a defect: the threads resumed here are resumed again with the
\* others.
FlipResumeRunnableTwice(s) ==
  /\ op[s] = "flipResume"
  /\ BothLocksFree
  /\ suspendAllCount' = suspendAllCount - 1
  /\ flipFunction' = [t \in Threads |-> t \in list \/ flipFunction[t]]
  /\ LowerSuspendCounts(ResumedEarly(s))
  /\ raised' = [raised EXCEPT ![s] = list \ {s}]
  /\ BroadcastResumeCond
  /\ Goto(s, "threadFlipEnd")
  /\ UNCHANGED <<state, checkpointVars, transitioning, passVars, pc, countLock,
                 list, unregisteringCount, listLock, mutatorVars, caller, todo,
                 current, opsLeft, expected, jniVars>>

\* Every thread gets the flip function; those that can run are resumed and
\* the others, other_threads, stay suspended.
FlipResumeRunnable(s) ==
  /\ op[s] = "flipResume"
  /\ BothLocksFree
  /\ suspendAllCount' = suspendAllCount - 1
  /\ flipFunction' = [t \in Threads |-> t \in list \/ flipFunction[t]]
  /\ LowerSuspendCounts(ResumedEarly(s))
  /\ raised' = [raised EXCEPT ![s] = list \ ({s} \union ResumedEarly(s))]
  /\ BroadcastResumeCond
  /\ Goto(s, "threadFlipEnd")
  /\ UNCHANGED <<state, checkpointVars, transitioning, passVars, pc, countLock,
                 list, unregisteringCount, listLock, mutatorVars, caller, todo,
                 current, opsLeft, expected, jniVars>>

ThreadFlipEnd(s) ==
  /\ op[s] = "threadFlipEnd"
  /\ threadFlipRunning' = FALSE
  /\ Goto(s, "flipLockShared")
  /\ UNCHANGED <<transitionVars, listVars, listLock, mutatorVars, localVars,
                 expected, disableThreadFlipCount, critical>>

\* The ReaderMutexLock on mutator_lock_ for FlipOtherThreads.
FlipLockShared(s) ==
  /\ op[s] = "flipLockShared"
  /\ mutatorWriter = NoThread
  /\ mutatorReaders' = mutatorReaders \union {s}
  /\ todo' = [todo EXCEPT ![s] = raised[s] \union {s}]
  /\ Goto(s, "flipOthers")
  /\ UNCHANGED <<transitionVars, listVars, listLock, mutatorWriter, caller,
                 raised, current, opsLeft, expected, jniVars>>

\* Run the flip function of one of other_threads or of the caller itself.
FlipOther(s, t) ==
  /\ op[s] = "flipOthers"
  /\ t \in todo[s]
  /\ flipFunction' = [flipFunction EXCEPT ![t] = FALSE]
  /\ todo' = [todo EXCEPT ![s] = @ \ {t}]
  /\ UNCHANGED <<wordVars, countVars, checkpointVars, transitioning, passVars,
                 pc, countLock, resumeWaiters, listVars, listLock, mutatorVars,
                 op, caller, raised, current, opsLeft, expected, jniVars>>

FlipUnlockShared(s) ==
  /\ op[s] = "flipOthers"
  /\ todo[s] = {}
  /\ mutatorReaders' = mutatorReaders \ {s}
  /\ Goto(s, "flipResumeOthers")
  /\ UNCHANGED <<transitionVars, listVars, listLock, mutatorWriter, localVars,
                 expected, jniVars>>

FlipResumeOthers(s) ==
  /\ op[s] = "flipResumeOthers"
  /\ countLock = NoThread
  /\ LowerSuspendCounts(raised[s])
  /\ raised' = [raised EXCEPT ![s] = {}]
  /\ BroadcastResumeCond
  /\ Goto(s, "none")
  /\ UNCHANGED <<state, checkpointVars, flipVars, passVars, pc, countLock,
                 listVars, listLock, mutatorVars, caller, todo, current, opsLeft,
                 expected, jniVars>>

-----------------------------------------------------------------------------
(***************************************************************************)
(* JNI critical sections.                                                  *)
(***************************************************************************)

\* IncrementDisableThreadFlip: a nested enter only counts; an outermost one
\* first leaves kRunnable.
EnterNestedCritical(t) ==
  /\ Begin(t, JniCriticals, {"running"})
  /\ critical[t] > 0
  /\ critical' = [critical EXCEPT ![t] = @ + 1]
  /\ UNCHANGED <<transitionVars, listVars, listLock, mutatorVars, op, caller,
                 todo, raised, current, expected, threadFlipRunning,
                 disableThreadFlipCount>>

EnterCritical(t) ==
  /\ Begin(t, JniCriticals, {"running"})
  /\ critical[t] = 0
  /\ critical' = [critical EXCEPT ![t] = 1]
  /\ TransitionToSuspendedAndRunCheckpoints(t, "WaitingForGcThreadFlip")
  /\ Goto(t, "jniWait")
  /\ UNCHANGED <<listVars, listLock, mutatorVars, caller, todo, raised, current,
                 expected, threadFlipRunning, disableThreadFlipCount>>

\* No flip is running: count the critical section and become runnable.
IncrementDisableThreadFlip(t) ==
  /\ op[t] = "jniWait"
  /\ pc[t] = "suspended"
  /\ ~threadFlipRunning
  /\ disableThreadFlipCount' = disableThreadFlipCount + 1
  /\ EnterTransitionToRunnable(t)
  /\ Goto(t, "none")
  /\ UNCHANGED <<listVars, listLock, mutatorVars, localVars, expected,
                 threadFlipRunning, critical>>

\* Variant with a defect: nested exits count too.
DecrementAtEveryExit(t) ==
  /\ op[t] = "none"
  /\ pc[t] = "running"
  /\ critical[t] > 0
  /\ critical' = [critical EXCEPT ![t] = @ - 1]
  /\ disableThreadFlipCount' = disableThreadFlipCount - 1
  /\ UNCHANGED <<transitionVars, threadListVars, expected, threadFlipRunning>>

DecrementDisableThreadFlip(t) ==
  /\ op[t] = "none"
  /\ pc[t] = "running"
  /\ critical[t] > 0
  /\ critical' = [critical EXCEPT ![t] = @ - 1]
  /\ disableThreadFlipCount' = IF critical[t] = 1
                                 THEN disableThreadFlipCount - 1
                                 ELSE disableThreadFlipCount
  /\ UNCHANGED <<transitionVars, threadListVars, expected, threadFlipRunning>>

=============================================================================
