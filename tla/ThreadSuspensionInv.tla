------------------------ MODULE ThreadSuspensionInv ------------------------
(***************************************************************************)
(* The inductive invariant of thread suspension.  The properties of        *)
(* ThreadSuspension relate suspend counts, barriers and thread states; for *)
(* them to be inductive one has to know who may be where: which control    *)
(* points hold which lock, which threads a loop has still to visit, whose  *)
(* suspend count an operation has raised.                                  *)
(***************************************************************************)
EXTENDS ThreadSuspension

\* TypeOK in parts, but for the signs of the counters, which follow from
\* their exact values below.
WordTypes ==
  /\ state \in [Threads -> ThreadState]
  /\ flags \in [Threads -> SUBSET ThreadFlag]
  /\ barriers \in [Threads -> SUBSET Threads]
  /\ claimed \in [Threads -> SUBSET Threads]
  /\ pc \in [Threads -> Pc]
  /\ resumeWaiters \in SUBSET Threads

ClosureTypes ==
  /\ checkpoints \in [Threads -> Seq(Threads)]
  /\ ranOn \in [Threads -> SUBSET Threads]

FlipTypes ==
  /\ flipFunction \in [Threads -> BOOLEAN]
  /\ transitioning \in [Threads -> BOOLEAN]
  /\ threadFlipRunning \in BOOLEAN

LockTypes ==
  /\ list \in SUBSET Threads
  /\ countLock \in Threads \union {NoThread}
  /\ listLock \in Threads \union {NoThread}
  /\ mutatorWriter \in Threads \union {NoThread}
  /\ mutatorReaders \in SUBSET Threads

OpTypes ==
  /\ op \in [Threads -> Ops]
  /\ caller \in [Threads -> {"none", "SuspendAll", "FlipThreadRoots"}]
  /\ todo \in [Threads -> SUBSET Threads]
  /\ raised \in [Threads -> SUBSET Threads]
  /\ current \in [Threads -> Threads \union {NoThread}]

CounterTypes ==
  /\ suspendCount \in [Threads -> Int]
  /\ pending \in [Threads -> Int]
  /\ suspendAllCount \in Int

\* The control points at which current names a thread.
NamingOps == {"retrySuspend", "checkSuspended", "raiseCheckpoint",
              "retryCheckpoint", "checkpointLower", "byIdEnter", "byIdRetry",
              "byIdSleep", "byIdFound", "byIdHold", "syncRaise", "syncWait",
              "syncRun", "syncLower"}

CurrentTypes ==
  \A s \in Threads : op[s] \in NamingOps => current[s] \in Threads

TypeInv ==
  /\ WordTypes
  /\ ClosureTypes
  /\ FlipTypes
  /\ LockTypes
  /\ OpTypes
  /\ CurrentTypes
  /\ CounterTypes

\* What TypeOK says of the variables that only the further properties use.
RestTypes ==
  /\ closureBarrier \in [Threads -> Int]
  /\ emptyBarrier \in Int
  /\ opsLeft \in [Threads -> Nat]
  /\ expected \in [Threads -> Nat]
  /\ critical \in [Threads -> Nat]

-----------------------------------------------------------------------------
(***************************************************************************)
(* Where a thread is, and what its word says.                              *)
(***************************************************************************)

StateInv ==
  \A t \in Threads :
    /\ state[t] = "Runnable" <=> pc[t] \in {"running", "runFlip"}
    /\ t \in list <=> pc[t] # "unborn"
    /\ transitioning[t] => pc[t] = "waitResume"
    /\ t \in resumeWaiters => pc[t] = "waitResume"
    /\ claimed[t] # {} => pc[t] \in {"passBarriers", "toRunnable"}

FlagInv ==
  \A t \in Threads :
    /\ "SuspendRequest" \in flags[t] <=> suspendCount[t] > 0
    /\ "ActiveSuspendBarrier" \in flags[t] <=> barriers[t] # {}

-----------------------------------------------------------------------------
(***************************************************************************)
(* Where an operation is, and what its local variables hold.               *)
(***************************************************************************)

OpInv ==
  \A s \in Threads :
    /\ op[s] \in SuspendAllOps \union FlipOps => pc[s] = "suspended"
    /\ op[s] = "detached" => pc[s] = "unborn"
    /\ pc[s] = "unborn" => op[s] \in {"none", "detached"}

CountLockOps == {"requestSuspend", "checkSuspended", "requestCheckpoint",
                 "raiseCheckpoint", "emptyRequest"}

ListLockOps == CountLockOps \union {"retrySuspend", "retryCheckpoint",
                                    "byIdRetry", "syncRaise", "syncBroadcast"}

LockInv ==
  \A s \in Threads :
    /\ countLock = s <=> op[s] \in CountLockOps
    /\ listLock = s <=> op[s] \in ListLockOps
    /\ mutatorWriter = s <=> op[s] = "allSuspended"

LoopOps == {"requestSuspend", "retrySuspend", "checkSuspended",
            "requestCheckpoint", "raiseCheckpoint", "retryCheckpoint",
            "emptyRequest"}

\* The loops over list_ run under thread_list_lock_: the threads to come stay
\* attached.
TodoInv ==
  \A s \in Threads :
    /\ op[s] \in LoopOps => todo[s] \subseteq list \ {s}
    /\ op[s] \notin LoopOps \union {"flipOthers"} => todo[s] = {}
    /\ op[s] \in {"retrySuspend", "raiseCheckpoint", "retryCheckpoint"}
         => current[s] \in todo[s]
    /\ op[s] \in {"requestCheckpoint", "raiseCheckpoint", "retryCheckpoint"}
         => todo[s] \intersect raised[s] = {}
    /\ op[s] = "checkSuspended" => /\ current[s] \in list \ {s}
                                   /\ current[s] \notin todo[s]
                                   /\ s \in barriers[current[s]]

RaisingOps == {"byIdEnter", "byIdSleep", "byIdFound", "byIdHold",
               "requestCheckpoint", "raiseCheckpoint", "retryCheckpoint",
               "checkpointOthers", "checkpointLower", "syncWait", "syncRun",
               "syncLower", "threadFlipEnd", "flipLockShared", "flipOthers",
               "flipResumeOthers"}

RaisedInv ==
  \A s \in Threads :
    /\ raised[s] \subseteq list \ {s}
    /\ raised[s] # {} => op[s] \in RaisingOps
    /\ op[s] \in {"byIdFound", "byIdHold", "checkpointLower", "syncWait",
                  "syncRun", "syncLower"} => current[s] \in raised[s]
    /\ op[s] \in {"byIdEnter", "byIdSleep", "byIdFound", "byIdHold", "syncWait",
                  "syncRun", "syncLower"} => raised[s] \subseteq {current[s]}
    /\ op[s] \in {"byIdEnter", "byIdRetry", "byIdSleep"}
         => current[s] \in Threads \ {s}
    /\ op[s] = "syncRaise" => current[s] \in list \ {s}

\* Nobody asks a thread to suspend while it retries with thread_list_lock_.
RetryInv ==
  \A s \in Threads : op[s] = "byIdRetry" => suspendCount[s] = 0

\* A suspend count is never negative, and one that somebody has raised is seen
\* in the flags.
RequestInv ==
  \A t \in Threads :
    /\ suspendCount[t] >= 0
    /\ \A s \in Threads : t \in SuspendedBy(s) =>
         suspendCount[t] > 0 /\ "SuspendRequest" \in flags[t]

-----------------------------------------------------------------------------
(***************************************************************************)
(* Suspension itself.                                                      *)
(***************************************************************************)

\* Whoever holds a pointer to the counter of s was asked by s, and s is still
\* in SuspendAllInternal.
BarrierInv ==
  \A s, t \in Threads :
    /\ s \in barriers[t] \union claimed[t]
         => op[s] \in RequestingOps /\ t \in SuspendAllTargets(s)
    /\ ~(s \in barriers[t] /\ s \in claimed[t])

\* A thread that SuspendAll has asked and that is runnable has yet to pass the
\* barrier.
AskedInv ==
  \A s, t \in Threads :
    t \in SuspendAllTargets(s) => state[t] # "Runnable" \/ s \in barriers[t]

\* What makes SuspendAll wait for the right threads.
SuspensionInv == BarrierInv /\ SuspendBarrierExact /\ AskedInv

\* SuspendAllInternal leaves its counter at zero.
PendingInv ==
  \A s \in Threads : op[s] \notin RequestingOps => pending[s] = 0

\* Whom the operation of s keeps suspended while it works on it.
HeldInv ==
  \A s \in Threads :
    /\ op[s] \in {"byIdFound", "byIdHold", "checkpointLower", "syncRun",
                  "syncLower"} => state[current[s]] # "Runnable"
    /\ op[s] \in FlipOps => \A t \in raised[s] : state[t] # "Runnable"

\* unregistering_count_ counts the threads inside Unregister.
UnregisterInv ==
  unregisteringCount =
    Cardinality({t \in Threads : op[t] \in {"unregister", "detached"}})

-----------------------------------------------------------------------------
(***************************************************************************)
(* The thread flip.                                                        *)
(***************************************************************************)

InFlip(s) ==
  \/ op[s] \in FlipOps
  \/ op[s] \in SuspendAllOps /\ caller[s] = "FlipThreadRoots"

\* A thread with a pending flip function is held by the flipper, which will
\* run it, or is about to run it itself on its way to kRunnable.
WillBeFlipped(t) ==
  \/ pc[t] \in {"toRunnable", "waitResume", "runFlip"}
  \/ op[t] = "jniWait"
  \/ \E s \in Threads :
       /\ t \in raised[s] \union {s}
       /\ \/ op[s] \in {"threadFlipEnd", "flipLockShared"}
          \/ op[s] = "flipOthers" /\ t \in todo[s]

\* A thread that enters a JNI critical section waits outside of kRunnable.
JniInv ==
  \A t \in Threads :
    op[t] = "jniWait" => pc[t] \in {"passBarriers", "suspended"}

FlipInv ==
  /\ \A t \in Threads : flipFunction[t] => WillBeFlipped(t)
  /\ \A s \in Threads : InFlip(s) => s \in Flippers
  /\ \A s \in Threads : op[s] = "flipResume" => caller[s] = "FlipThreadRoots"
  /\ \A t \in Threads :
       state[t] = "WaitingForGcThreadFlip" =>
         \/ op[t] \in {"jniWait", "threadFlipBegin"}
         \/ pc[t] \in {"toRunnable", "waitResume"}

CriticalInv ==
  /\ \A s \in Threads :
       /\ InFlip(s) /\ op[s] \notin {"flipLockShared", "flipOthers",
                                     "flipResumeOthers"} => threadFlipRunning
       /\ op[s] = "flipSuspendAll" \/ (op[s] \in SuspendAllOps /\ InFlip(s))
            => disableThreadFlipCount = 0
  /\ \A t \in Threads : op[t] = "jniWait" => critical[t] > 0
  /\ disableThreadFlipCount =
       Cardinality({t \in Threads : critical[t] > 0 /\ op[t] # "jniWait"})

-----------------------------------------------------------------------------
(***************************************************************************)
(* Checkpoints.                                                            *)
(***************************************************************************)

Flagged == {t \in Threads : "EmptyCheckpointRequest" \in flags[t]}

\* Only runnable threads are asked for an empty checkpoint; the barrier and
\* what the requester has yet to add to it make up those who have yet to answer.
EmptyInv ==
  /\ \A t \in Flagged : state[t] = "Runnable"
  /\ (\A s \in Threads : op[s] \notin EmptyOps) => Flagged = {}
  /\ \A r, s \in Threads : op[r] \in EmptyOps /\ op[s] \in EmptyOps => r = s
  /\ \A s \in Threads :
       /\ op[s] = "emptyRequest" => todo[s] \intersect Flagged = {}
       /\ op[s] \in {"emptyRequest", "emptyIncrement"}
            => emptyBarrier + expected[s] = Cardinality(Flagged)
       /\ op[s] = "emptyWait" => emptyBarrier = Cardinality(Flagged)

\* The threads in whose checkpoint queue the closure of s is.
Queued(s) == {t \in Threads : \E i \in DOMAIN checkpoints[t] :
                                checkpoints[t][i] = s}

\* The threads on which RunCheckpoint has still to have the closure run: those
\* its loop has not reached, those it keeps suspended, and the caller itself.
Unserved(s) ==
  CASE op[s] \in {"requestCheckpoint", "raiseCheckpoint", "retryCheckpoint"}
         -> todo[s] \union raised[s] \union {s}
    [] op[s] = "checkpointOthers" -> raised[s]
    [] op[s] = "checkpointLower" -> raised[s] \ {current[s]}
    [] OTHER -> {}

\* The places of RunCheckpoint, and of RequestSynchronousCheckpoint on a
\* runnable thread, up to Barrier::Increment.
CountingOps == {"requestCheckpoint", "raiseCheckpoint", "retryCheckpoint",
                "checkpointOthers", "checkpointLower", "barrierIncrement"}

\* The barrier and what the requester has yet to add to it make up the threads
\* that have yet to run the closure; none of them has run it already.
ClosureExact(s) ==
  /\ Queued(s) \intersect ranOn[s] = {}
  /\ Queued(s) \intersect Unserved(s) = {}
  /\ Unserved(s) \intersect ranOn[s] = {}
  /\ op[s] \in CountingOps
       => closureBarrier[s] + expected[s]
            = Cardinality(Queued(s) \union Unserved(s))
  /\ op[s] = "barrierWait" => closureBarrier[s] = Cardinality(Queued(s))
  /\ op[s] \notin CountingOps \union {"barrierWait"} => Queued(s) = {}

\* A queue holds a closure once.
Distinct(q) == \A i, j \in DOMAIN q : q[i] = q[j] => i = j

ClosureInv == \A t \in Threads : Distinct(checkpoints[t]) /\ ClosureExact(t)

-----------------------------------------------------------------------------

\* The inductive invariant of the proofs: a thread is where its word says it is,
\* the two locks are held exactly at the places of ThreadList's operations that
\* hold them, the threads a loop over list_ has yet to visit stay attached, the
\* flags mirror the suspend count and the barriers (ModifySuspendCount), and
\* every runnable thread that SuspendAllInternal has asked still owes it a pass.
IInv ==
  /\ TypeInv
  /\ StateInv /\ OpInv /\ LockInv
  /\ TodoInv /\ RaisedInv
  /\ FlagInv /\ SuspendCountExact
  /\ SuspensionInv

\* What the further safety properties need besides: a thread retrying in
\* SuspendThreadByThreadId is not suspended, held threads are not runnable, a
\* pending flip function has somebody who will run it, disable_thread_flip_count_
\* counts the threads inside JNI critical sections, the barriers of the
\* checkpoints count those who have yet to pass them, and two of the properties
\* themselves.
FurtherInv ==
  /\ RestTypes /\ PendingInv /\ RetryInv /\ UnregisterInv
  /\ HeldInv /\ JniInv /\ FlipInv /\ CriticalInv
  /\ EmptyInv /\ ClosureInv
  /\ NoByIdCycle /\ NoLostResume

-----------------------------------------------------------------------------
(***************************************************************************)
(* The steps of Next, by the operation they belong to: the proofs that     *)
(* they preserve the invariant go through them in this order.              *)
(***************************************************************************)

\* The state transitions of a thread.
TransitionSteps(t) ==
  /\ \/ LeaveRunnable(t) \/ ReturnFromNative(t) \/ SpuriousWakeup(t)
     \/ RunCheckpointFunction(t) \/ RunEmptyCheckpoint(t)
     \/ FullSuspendCheck(t) \/ LeaveRunnableToWait(t) \/ ReturnToRunnable(t)
     \/ ClaimSuspendBarriers(t) \/ FinishTransitionToSuspended(t)
     \/ BecomeRunnable(t) \/ WaitForResume(t) \/ ResumeCondNotified(t)
     \/ RunFlipFunction(t)
     \/ \E u \in Threads : PassSuspendBarrier(t, u)
  /\ ThreadListUnchanged

\* SuspendAll and ResumeAll.
SuspendSteps(t) ==
  /\ \/ SuspendAll(t) \/ CheckSuspended(t) \/ FinishRequests(t)
     \/ SuspendBarrierPassed(t) \/ LockMutatorExclusive(t) \/ ResumeAll(t)
     \/ LowerAllAndBroadcast(t)
     \/ \E u \in Threads :
          \/ RequestSuspend(t, u)
          \/ RequestSuspendFails(t, u)
  /\ CheckpointsAndFlipUnchanged

\* SuspendThreadByThreadId and Resume.
ByIdSteps(t) ==
  /\ \/ ByIdGivesWay(t) \/ ByIdRequest(t) \/ ByIdRequestFails(t)
     \/ ByIdPoll(t) \/ ByIdTimeout(t) \/ ByIdRoundEnds(t) \/ Resume(t)
     \/ ResumeBroadcasts(t)
     \/ \E u \in Threads : SuspendThreadByThreadId(t, u)
  /\ CheckpointsAndFlipUnchanged

\* Register and Unregister.
AttachSteps(t) ==
  /\ \/ Register(t) \/ Unregister(t) \/ RemoveFromList(t)
     \/ FinishUnregister(t)
  /\ CheckpointsAndFlipUnchanged

\* RunCheckpoint.
RunCheckpointSteps(t) ==
  /\ \/ RunCheckpoint(t) \/ CheckpointSelf(t) \/ CheckpointLower(t)
     \/ CheckpointBroadcast(t) \/ BarrierIncrement(t) \/ BarrierReachesZero(t)
     \/ \E u \in Threads :
          \/ CheckpointRunnableThread(t, u)
          \/ CheckpointTargetNotRunnable(t, u)
          \/ CheckpointSuspendedThread(t, u)
          \/ CheckpointRequestFails(t, u)
          \/ CheckpointOther(t, u)
  /\ UNCHANGED jniVars

\* RequestSynchronousCheckpoint.
SyncSteps(t) ==
  /\ \/ SyncRaise(t) \/ SyncTargetSuspended(t) \/ SyncRun(t) \/ SyncLower(t)
     \/ SyncBroadcast(t)
     \/ \E u \in Threads :
          \/ RequestSynchronousCheckpoint(t, u)
          \/ SyncTargetNotRunnable(t, u)
  /\ UNCHANGED jniVars

\* RunEmptyCheckpoint.
EmptySteps(t) ==
  /\ \/ ThreadListRunEmptyCheckpoint(t) \/ EmptyRequestsDone(t)
     \/ EmptyBarrierIncrement(t) \/ EmptyBarrierReachesZero(t)
     \/ \E u \in Threads :
          \/ RequestEmptyCheckpoint(t, u)
          \/ EmptyTargetSuspended(t, u)
  /\ UNCHANGED jniVars

\* FlipThreadRoots.
FlipSteps(t) ==
  \/ FlipThreadRoots(t) \/ ThreadFlipBegun(t) \/ FlipSuspendAll(t)
  \/ FlipUnlockMutator(t) \/ FlipResumeRunnable(t) \/ ThreadFlipEnd(t)
  \/ FlipLockShared(t) \/ FlipUnlockShared(t) \/ FlipResumeOthers(t)
  \/ \E u \in Threads : FlipOther(t, u)

\* JNI critical sections.
JniSteps(t) ==
  \/ EnterCritical(t) \/ EnterNestedCritical(t)
  \/ IncrementDisableThreadFlip(t) \/ DecrementDisableThreadFlip(t)

AnyStep(t) ==
  \/ TransitionSteps(t) \/ SuspendSteps(t) \/ ByIdSteps(t) \/ AttachSteps(t)
  \/ RunCheckpointSteps(t) \/ SyncSteps(t) \/ EmptySteps(t)
  \/ FlipSteps(t) \/ JniSteps(t)

\* Only t moves.
Alone(t) ==
  \A s \in Threads \ {t} :
    /\ state'[s] = state[s] /\ pc'[s] = pc[s]
    /\ op'[s] = op[s] /\ caller'[s] = caller[s] /\ todo'[s] = todo[s]
    /\ raised'[s] = raised[s] /\ current'[s] = current[s]
    /\ expected'[s] = expected[s] /\ critical'[s] = critical[s]

\* The control points after suspend counts have been lowered and before the
\* broadcast on resume_cond_.
Broadcasting == {"broadcast", "checkpointOthers", "checkpointLower",
                 "syncBroadcast"}

\* The step is of no concern to any SuspendAll in progress.
SuspendAllsUnaffected ==
  \A s \in Threads :
    /\ op'[s] \in SuspendAllOps <=> op[s] \in SuspendAllOps
    /\ op'[s] \in RequestingOps <=> op[s] \in RequestingOps
    /\ SuspendAllTargets(s)' = SuspendAllTargets(s)
    /\ op[s] \in RequestingOps => todo'[s] = todo[s]

\* The steps that are: they begin or end it, move a thread from those to be
\* asked to those that have been asked, or change the list.
SuspendAllAffected(t) ==
  \/ SuspendAll(t) \/ SuspendBarrierPassed(t) \/ LowerAllAndBroadcast(t)
  \/ FlipSuspendAll(t) \/ FlipResumeRunnable(t)
  \/ Register(t) \/ RemoveFromList(t)
  \/ \E u \in Threads : RequestSuspend(t, u)

\* In the step s suspends u, resumes the threads of S, or nobody suspends or
\* resumes anybody.
Suspends(s, u) ==
  /\ u \notin SuspendedBy(s)
  /\ \A r, v \in Threads :
       v \in SuspendedBy(r)' <=> v \in SuspendedBy(r) \/ (r = s /\ v = u)

Resumes(s, S) ==
  /\ S \subseteq SuspendedBy(s)
  /\ \A r, v \in Threads :
       v \in SuspendedBy(r)' <=> v \in SuspendedBy(r) /\ ~(r = s /\ v \in S)

SuspensionsUnchanged ==
  \A r, v \in Threads : v \in SuspendedBy(r)' <=> v \in SuspendedBy(r)

CountsUnchanged ==
  /\ raised' = raised
  /\ suspendCount' = suspendCount
  /\ suspendAllCount' = suspendAllCount

\* The steps that raise or lower suspend counts, or count a SuspendAll.
CountsAffected(t) ==
  \/ SuspendAll(t) \/ FlipSuspendAll(t) \/ Register(t)
  \/ ByIdRequest(t) \/ ByIdPoll(t) \/ SyncRaise(t)
  \/ LowerAllAndBroadcast(t) \/ ByIdTimeout(t) \/ Resume(t)
  \/ CheckpointLower(t) \/ SyncLower(t)
  \/ FlipResumeRunnable(t) \/ FlipResumeOthers(t)
  \/ \E u \in Threads : RequestSuspend(t, u) \/ CheckpointSuspendedThread(t, u)

\* The step changes nothing about the suspend barriers and makes nobody
\* runnable; and the steps that do.
BarriersUnaffected ==
  /\ barriers' = barriers
  /\ claimed' = claimed
  /\ pending' = pending
  /\ \A u \in Threads : state'[u] = "Runnable" => state[u] = "Runnable"

BarriersAffected(t) ==
  \/ ClaimSuspendBarriers(t) \/ BecomeRunnable(t)
  \/ SuspendAll(t) \/ FlipSuspendAll(t) \/ CheckSuspended(t)
  \/ \E u \in Threads : PassSuspendBarrier(t, u) \/ RequestSuspend(t, u)

\* What the proofs use of the cardinalities of sets of threads.
CardinalityFacts ==
  \A S \in SUBSET Threads :
    /\ Cardinality(S) \in Nat
    /\ Cardinality(S) = 0 <=> S = {}
    /\ \A x \in Threads \ S : Cardinality(S \union {x}) = Cardinality(S) + 1
    /\ \A x \in S : Cardinality(S \ {x}) = Cardinality(S) - 1

=============================================================================
