----------------------------- MODULE FutexMutex -----------------------------
(***************************************************************************)
(* Mutex and ConditionVariable of runtime/base/mutex.cc, built on futexes  *)
(* (ART_USE_FUTEXES): one mutex, one condition variable that it guards,    *)
(* the threads that use them, and the collector among them that runs empty *)
(* checkpoints and wakes the threads blocked in kRunnable so that they     *)
(* answer.  They block there for two kinds of mutexes:                     *)
(*  - one that guards weak references (the reference processor's lock,     *)
(*    those of Runtime::BroadcastForNewSystemWeaks), on whose condition    *)
(*    variable a thread waits for access: the checkpoint broadcasts on it; *)
(*  - one that a thread may hold while it waits for such access            *)
(*    (Locks::expected_mutexes_on_weak_ref_access_; none of them guards a  *)
(*    condition variable): the checkpoint wakes its contenders.            *)
(*                                                                         *)
(* One action is one access to the shared words or one system call.  A     *)
(* weak compare-and-set that fails spuriously goes back to a load that     *)
(* changes nothing, so it is a stuttering step.                            *)
(***************************************************************************)
EXTENDS Integers, FiniteSets

CONSTANTS
  Threads,
  NoThread,
  Collector,    \* the thread that runs empty checkpoints
  Recursive,    \* recursive_ of the mutex
  ReorderLoads, \* the unlock's load of num_contenders_ may overtake its CAS
  MaxOps,       \* bound: calls of all threads
  MaxRequests   \* bound: empty checkpoints

ASSUME FutexAssumption ==
  /\ IsFiniteSet(Threads) /\ NoThread \notin Threads /\ Collector \in Threads
  /\ Recursive \in BOOLEAN /\ ReorderLoads \in BOOLEAN
  /\ MaxOps \in Nat /\ MaxRequests \in Nat

VARIABLES
  state,        \* state_: 0 is unheld, 1 is held
  owner,        \* exclusive_owner_
  contenders,   \* num_contenders_
  recursion,    \* recursion_count_
  sequence,     \* sequence_ of the condition variable
  waiters,      \* num_waiters_ of the condition variable
  mutexQueue,   \* the threads the kernel keeps asleep on state_
  condQueue,    \* the threads the kernel keeps asleep on sequence_
  pc,           \* what each thread does next
  waiting,      \* is the thread inside WaitHoldingLocks or TimedWait?
  curSequence,  \* cur_sequence of that call
  oldRecursion, \* old_recursion_count of that call
  depth,        \* how often the thread's caller holds the mutex
  opsLeft,      \* calls left to the threads
  requests,     \* the threads with kEmptyCheckpointRequest
  requester,    \* what ThreadList::RunEmptyCheckpoint does next
  requestsLeft, \* empty checkpoints left
  responds      \* should_respond_to_empty_checkpoint_request_: the second kind

mutexVars == <<state, owner, contenders, recursion, mutexQueue>>
condVars == <<sequence, waiters, condQueue>>
callVars == <<waiting, curSequence, oldRecursion, depth, opsLeft>>
requestVars == <<requests, requester, requestsLeft, responds>>
vars == <<mutexVars, condVars, pc, callVars, requestVars>>

Pc == {"idle", "lock", "contend", "check", "futexWait", "asleep", "uncount",
       "locked", "critical", "wait", "unlock", "unlockCas", "casQuiet",
       "casWake", "unlockLoad", "unlockWake", "condWait", "condAsleep",
       "waitEnd", "signal", "signalWake", "broadcast", "broadcastRequeue"}

Requester == {"idle", "lock", "unlock", "wake", "barrier"}

Goto(t, l) == pc' = [pc EXCEPT ![t] = l]

\* A call of a client, one of MaxOps; the collector is none while it runs an
\* empty checkpoint.
Call(t) ==
  /\ t = Collector => requester = "idle"
  /\ opsLeft > 0
  /\ opsLeft' = opsLeft - 1

\* The threads that hold the mutex.
HoldingPcs == {"locked", "critical", "wait", "unlock", "unlockCas", "casQuiet",
               "casWake", "waitEnd", "signal", "signalWake", "broadcast",
               "broadcastRequeue"}
Holders == {t \in Threads : pc[t] \in HoldingPcs}

\* The threads that ExclusiveLock counts in num_contenders_.
CountedPcs == {"check", "futexWait", "asleep", "uncount"}

\* Where a thread goes on when its futex wait returns.
AfterWait(t) == IF pc[t] = "asleep" THEN "uncount" ELSE "lock"

Init ==
  /\ state = 0 /\ owner = NoThread /\ contenders = 0 /\ recursion = 0
  /\ sequence = 0 /\ waiters = 0 /\ mutexQueue = {} /\ condQueue = {}
  /\ pc = [t \in Threads |-> "idle"]
  /\ waiting = [t \in Threads |-> FALSE]
  /\ curSequence = [t \in Threads |-> 0]
  /\ oldRecursion = [t \in Threads |-> 0]
  /\ depth = [t \in Threads |-> 0]
  /\ opsLeft = MaxOps
  /\ requests = {} /\ requester = "idle" /\ requestsLeft = MaxRequests
  /\ responds \in BOOLEAN

-----------------------------------------------------------------------------
(***************************************************************************)
(* Mutex::ExclusiveLock and ExclusiveTryLock.                              *)
(***************************************************************************)

\* A call by a thread that does not hold the mutex.
ExclusiveLock(t) ==
  /\ pc[t] = "idle"
  /\ Call(t)
  /\ Goto(t, "lock")
  /\ UNCHANGED <<mutexVars, condVars, waiting, curSequence, oldRecursion, depth,
                 requestVars>>

\* A call by the holder of a recursive mutex, of ExclusiveTryLock too.
ExclusiveLockAgain(t) ==
  /\ pc[t] = "critical"
  /\ Recursive /\ owner = t
  /\ Call(t)
  /\ recursion' = recursion + 1
  /\ depth' = [depth EXCEPT ![t] = @ + 1]
  /\ UNCHANGED <<state, owner, contenders, mutexQueue, condVars, pc, waiting,
                 curSequence, oldRecursion, requestVars>>

\* A call of ExclusiveTryLock that finds the mutex free; one that does not
\* returns false and changes nothing.
ExclusiveTryLock(t) ==
  /\ pc[t] = "idle"
  /\ Call(t)
  /\ state = 0
  /\ state' = 1
  /\ Goto(t, "locked")
  /\ UNCHANGED <<owner, contenders, recursion, mutexQueue, condVars, waiting,
                 curSequence, oldRecursion, depth, requestVars>>

\* The compare-and-set from 0 to 1.
LockCas(t) ==
  /\ pc[t] = "lock"
  /\ state = 0
  /\ state' = 1
  /\ Goto(t, "locked")
  /\ UNCHANGED <<owner, contenders, recursion, mutexQueue, condVars, callVars,
                 requestVars>>

\* The load finds the mutex held.
LockSeesHeld(t) ==
  /\ pc[t] = "lock"
  /\ state # 0
  /\ Goto(t, "contend")
  /\ UNCHANGED <<mutexVars, condVars, callVars, requestVars>>

CountContender(t) ==
  /\ pc[t] = "contend"
  /\ contenders' = contenders + 1
  /\ Goto(t, "check")
  /\ UNCHANGED <<state, owner, recursion, mutexQueue, condVars, callVars,
                 requestVars>>

\* Thread::CheckEmptyCheckpointFromMutex, if the mutex is of the second kind.
CheckEmptyCheckpointFromMutex(t) ==
  /\ pc[t] = "check"
  /\ requests' = IF responds THEN requests \ {t} ELSE requests
  /\ Goto(t, "futexWait")
  /\ UNCHANGED <<mutexVars, condVars, callVars, requester, requestsLeft,
                 responds>>

\* Variant with a defect: a wait that does not compare state_ with 1.
FutexWaitUnconditional(t) ==
  /\ pc[t] = "futexWait"
  /\ mutexQueue' = mutexQueue \union {t}
  /\ Goto(t, "asleep")
  /\ UNCHANGED <<state, owner, contenders, recursion, condVars, callVars,
                 requestVars>>

\* FUTEX_WAIT on state_ with the expected value 1: EAGAIN if it is not.
FutexWait(t) ==
  /\ pc[t] = "futexWait"
  /\ \/ state = 1 /\ mutexQueue' = mutexQueue \union {t} /\ Goto(t, "asleep")
     \/ state # 1 /\ mutexQueue' = mutexQueue /\ Goto(t, "uncount")
  /\ UNCHANGED <<state, owner, contenders, recursion, condVars, callVars,
                 requestVars>>

UncountContender(t) ==
  /\ pc[t] = "uncount"
  /\ contenders' = contenders - 1
  /\ Goto(t, "lock")
  /\ UNCHANGED <<state, owner, recursion, mutexQueue, condVars, callVars,
                 requestVars>>

\* The new holder writes exclusive_owner_ and recursion_count_, and returns to
\* its caller or to the wait that has called ExclusiveLock.
LockTaken(t) ==
  /\ pc[t] = "locked"
  /\ owner' = t
  /\ recursion' = recursion + 1
  /\ Goto(t, IF waiting[t] THEN "waitEnd" ELSE "critical")
  /\ depth' = IF waiting[t] THEN depth ELSE [depth EXCEPT ![t] = 1]
  /\ UNCHANGED <<state, contenders, mutexQueue, condVars, waiting, curSequence,
                 oldRecursion, opsLeft, requestVars>>

-----------------------------------------------------------------------------
(***************************************************************************)
(* Mutex::ExclusiveUnlock.                                                 *)
(***************************************************************************)

ExclusiveUnlock(t) ==
  /\ pc[t] = "critical"
  /\ t = Collector => requester \in {"idle", "unlock"}
  /\ recursion' = recursion - 1
  /\ depth' = [depth EXCEPT ![t] = @ - 1]
  /\ IF Recursive /\ recursion' # 0 THEN pc' = pc ELSE Goto(t, "unlock")
  /\ UNCHANGED <<state, owner, contenders, mutexQueue, condVars, waiting,
                 curSequence, oldRecursion, opsLeft, requestVars>>

ClearOwner(t) ==
  /\ pc[t] = "unlock"
  /\ owner' = NoThread
  /\ Goto(t, "unlockCas")
  /\ UNCHANGED <<state, contenders, recursion, mutexQueue, condVars, callVars,
                 requestVars>>

\* What follows the unlock: the caller, or the wait that has called it.
AfterUnlock(t) == IF waiting[t] THEN "condWait" ELSE "idle"

UnlockCas(t) ==
  /\ pc[t] = "unlockCas"
  /\ state' = 0
  /\ Goto(t, "unlockLoad")
  /\ UNCHANGED <<owner, contenders, recursion, mutexQueue, condVars, callVars,
                 requestVars>>

UnlockLoad(t) ==
  /\ pc[t] = "unlockLoad"
  /\ Goto(t, IF contenders > 0 THEN "unlockWake" ELSE AfterUnlock(t))
  /\ UNCHANGED <<mutexVars, condVars, callVars, requestVars>>

\* The load of num_contenders_ is relaxed: on a processor that lets it pass
\* the store of the compare-and-set it is performed first.
UnlockLoadEarly(t) ==
  /\ ReorderLoads
  /\ pc[t] = "unlockCas"
  /\ Goto(t, IF contenders > 0 THEN "casWake" ELSE "casQuiet")
  /\ UNCHANGED <<mutexVars, condVars, callVars, requestVars>>

UnlockCasAfterLoad(t) ==
  /\ pc[t] \in {"casWake", "casQuiet"}
  /\ state' = 0
  /\ Goto(t, IF pc[t] = "casWake" THEN "unlockWake" ELSE AfterUnlock(t))
  /\ UNCHANGED <<owner, contenders, recursion, mutexQueue, condVars, callVars,
                 requestVars>>

\* FUTEX_WAKE of one thread.
UnlockWake(t) ==
  /\ pc[t] = "unlockWake"
  /\ \/ /\ mutexQueue = {}
        /\ mutexQueue' = mutexQueue
        /\ Goto(t, AfterUnlock(t))
     \/ \E u \in mutexQueue :
          /\ mutexQueue' = mutexQueue \ {u}
          /\ pc' = [pc EXCEPT ![t] = AfterUnlock(t), ![u] = AfterWait(u)]
  /\ UNCHANGED <<state, owner, contenders, recursion, condVars, callVars,
                 requestVars>>

-----------------------------------------------------------------------------
(***************************************************************************)
(* ConditionVariable::WaitHoldingLocks and TimedWait.                      *)
(***************************************************************************)

\* A caller that finds no weak reference access looks for a request
\* (Thread::CheckEmptyCheckpointFromWeakRefAccess) and then waits, in kRunnable.
\* Other callers answer when they leave kRunnable, and wait in the same way.
CheckEmptyCheckpointFromWeakRefAccess(t) ==
  /\ pc[t] = "critical"
  /\ ~responds
  /\ Call(t)
  /\ requests' = requests \ {t}
  /\ Goto(t, "wait")
  /\ UNCHANGED <<mutexVars, condVars, waiting, curSequence, oldRecursion, depth,
                 requester, requestsLeft, responds>>

\* Variant with a defect: a wait that does not keep num_contenders_ high.
WaitHoldingLocksUncounted(t) ==
  /\ pc[t] = "wait"
  /\ waiters' = waiters + 1
  /\ oldRecursion' = [oldRecursion EXCEPT ![t] = recursion]
  /\ recursion' = 0
  /\ curSequence' = [curSequence EXCEPT ![t] = sequence]
  /\ waiting' = [waiting EXCEPT ![t] = TRUE]
  /\ Goto(t, "unlock")
  /\ UNCHANGED <<state, owner, contenders, mutexQueue, sequence, condQueue,
                 depth, opsLeft, requestVars>>

\* Everything up to the call of ExclusiveUnlock is done under the mutex.
WaitHoldingLocks(t) ==
  /\ pc[t] = "wait"
  /\ waiters' = waiters + 1
  /\ contenders' = contenders + 1
  /\ oldRecursion' = [oldRecursion EXCEPT ![t] = recursion]
  /\ recursion' = 0
  /\ curSequence' = [curSequence EXCEPT ![t] = sequence]
  /\ waiting' = [waiting EXCEPT ![t] = TRUE]
  /\ Goto(t, "unlock")
  /\ UNCHANGED <<state, owner, mutexQueue, sequence, condQueue, depth, opsLeft,
                 requestVars>>

\* Variant with a defect: a wait that does not compare sequence_ with cur_sequence.
CondFutexWaitUnconditional(t) ==
  /\ pc[t] = "condWait"
  /\ condQueue' = condQueue \union {t}
  /\ Goto(t, "condAsleep")
  /\ UNCHANGED <<mutexVars, sequence, waiters, callVars, requestVars>>

\* FUTEX_WAIT on sequence_: EAGAIN if a signal has come in.
CondFutexWait(t) ==
  /\ pc[t] = "condWait"
  /\ \/ /\ sequence = curSequence[t]
        /\ condQueue' = condQueue \union {t}
        /\ Goto(t, "condAsleep")
     \/ /\ sequence # curSequence[t]
        /\ condQueue' = condQueue
        /\ Goto(t, "lock")
  /\ UNCHANGED <<mutexVars, sequence, waiters, callVars, requestVars>>

\* Variant with a defect: the recursion count is not restored.
WaitEndsRecursionLost(t) ==
  /\ pc[t] = "waitEnd"
  /\ waiters' = waiters - 1
  /\ contenders' = contenders - 1
  /\ waiting' = [waiting EXCEPT ![t] = FALSE]
  /\ curSequence' = [curSequence EXCEPT ![t] = 0]
  /\ oldRecursion' = [oldRecursion EXCEPT ![t] = 0]
  /\ Goto(t, "critical")
  /\ UNCHANGED <<state, owner, recursion, mutexQueue, sequence, condQueue,
                 depth, opsLeft, requestVars>>

\* Variant with a defect: the mutex stays contended after the wait.
WaitEndsStillCounted(t) ==
  /\ pc[t] = "waitEnd"
  /\ waiters' = waiters - 1
  /\ recursion' = oldRecursion[t]
  /\ waiting' = [waiting EXCEPT ![t] = FALSE]
  /\ curSequence' = [curSequence EXCEPT ![t] = 0]
  /\ oldRecursion' = [oldRecursion EXCEPT ![t] = 0]
  /\ Goto(t, "critical")
  /\ UNCHANGED <<state, owner, contenders, mutexQueue, sequence, condQueue,
                 depth, opsLeft, requestVars>>

\* The end of the wait, with the mutex held again.  Its local variables go.
WaitEnds(t) ==
  /\ pc[t] = "waitEnd"
  /\ waiters' = waiters - 1
  /\ contenders' = contenders - 1
  /\ recursion' = oldRecursion[t]
  /\ waiting' = [waiting EXCEPT ![t] = FALSE]
  /\ curSequence' = [curSequence EXCEPT ![t] = 0]
  /\ oldRecursion' = [oldRecursion EXCEPT ![t] = 0]
  /\ Goto(t, "critical")
  /\ UNCHANGED <<state, owner, mutexQueue, sequence, condQueue, depth, opsLeft,
                 requestVars>>

\* A futex wait returns with EINTR, or ETIMEDOUT in TimedWait.
FutexWaitInterrupted(t) ==
  /\ pc[t] \in {"asleep", "condAsleep"}
  /\ mutexQueue' = mutexQueue \ {t}
  /\ condQueue' = condQueue \ {t}
  /\ Goto(t, AfterWait(t))
  /\ UNCHANGED <<state, owner, contenders, recursion, sequence, waiters,
                 callVars, requestVars>>

-----------------------------------------------------------------------------
(***************************************************************************)
(* ConditionVariable::Signal and Broadcast, called with the mutex held.    *)
(***************************************************************************)

CallSignal(t) ==
  /\ pc[t] = "critical"
  /\ Call(t)
  /\ Goto(t, "signal")
  /\ UNCHANGED <<mutexVars, condVars, waiting, curSequence, oldRecursion, depth,
                 requestVars>>

\* Variant with a defect: a Signal that does not raise sequence_.
SignalUnnumbered(t) ==
  /\ pc[t] = "signal"
  /\ \/ waiters > 0 /\ Goto(t, "signalWake")
     \/ waiters <= 0 /\ Goto(t, "critical")
  /\ UNCHANGED <<mutexVars, condVars, callVars, requestVars>>

Signal(t) ==
  /\ pc[t] = "signal"
  /\ \/ waiters > 0 /\ sequence' = sequence + 1 /\ Goto(t, "signalWake")
     \/ waiters <= 0 /\ sequence' = sequence /\ Goto(t, "critical")
  /\ UNCHANGED <<mutexVars, waiters, condQueue, callVars, requestVars>>

\* FUTEX_WAKE of one thread.
SignalWake(t) ==
  /\ pc[t] = "signalWake"
  /\ \/ condQueue = {} /\ condQueue' = condQueue /\ Goto(t, "critical")
     \/ \E u \in condQueue :
          /\ condQueue' = condQueue \ {u}
          /\ pc' = [pc EXCEPT ![t] = "critical", ![u] = AfterWait(u)]
  /\ UNCHANGED <<mutexVars, sequence, waiters, callVars, requestVars>>

CallBroadcast(t) ==
  /\ pc[t] = "critical"
  /\ Call(t)
  /\ Goto(t, "broadcast")
  /\ UNCHANGED <<mutexVars, condVars, waiting, curSequence, oldRecursion, depth,
                 requestVars>>

Broadcast(t) ==
  /\ pc[t] = "broadcast"
  /\ \/ waiters > 0 /\ sequence' = sequence + 1 /\ Goto(t, "broadcastRequeue")
     \/ waiters <= 0 /\ sequence' = sequence /\ Goto(t, "critical")
  /\ UNCHANGED <<mutexVars, waiters, condQueue, callVars, requestVars>>

\* FUTEX_CMP_REQUEUE of all threads onto the mutex.  sequence_ changes only
\* under the mutex, so the comparison succeeds.
BroadcastRequeue(t) ==
  /\ pc[t] = "broadcastRequeue"
  /\ mutexQueue' = mutexQueue \union condQueue
  /\ condQueue' = {}
  /\ Goto(t, "critical")
  /\ UNCHANGED <<state, owner, contenders, recursion, sequence, waiters,
                 callVars, requestVars>>

-----------------------------------------------------------------------------
(***************************************************************************)
(* ThreadList::RunEmptyCheckpoint.  The threads it asks are those that are *)
(* in kRunnable (ThreadListCheckpoint models that side): here any of them, *)
(* also a thread inside the code of the mutex or in a wait.  Those that    *)
(* answer before its loop is over need nothing from it; requests has the   *)
(* others.                                                                 *)
(***************************************************************************)

\* Variant with a defect: no broadcast to the threads that wait for weak
\* reference access.
RunEmptyCheckpointQuiet ==
  /\ requester = "idle" /\ pc[Collector] = "idle"
  /\ requestsLeft > 0
  /\ requestsLeft' = requestsLeft - 1
  /\ requests' \in SUBSET (Threads \ {Collector})
  /\ requester' = "wake"
  /\ UNCHANGED <<mutexVars, condVars, pc, callVars, responds>>

\* The threads are asked; a mutex that guards weak references is then locked
\* for the broadcast.
RunEmptyCheckpoint ==
  /\ requester = "idle" /\ pc[Collector] = "idle"
  /\ requestsLeft > 0
  /\ requestsLeft' = requestsLeft - 1
  /\ requests' \in SUBSET (Threads \ {Collector})
  /\ \/ responds /\ requester' = "wake" /\ pc' = pc
     \/ ~responds /\ requester' = "lock" /\ Goto(Collector, "lock")
  /\ UNCHANGED <<mutexVars, condVars, callVars, responds>>

\* BroadcastForSlowPath, BroadcastForNewSystemWeaks: the lock is taken.
BroadcastForNewSystemWeaks ==
  /\ requester = "lock" /\ pc[Collector] = "critical"
  /\ requester' = "unlock"
  /\ Goto(Collector, "broadcast")
  /\ UNCHANGED <<mutexVars, condVars, callVars, requests, requestsLeft,
                 responds>>

\* The lock is released.
BroadcastDone ==
  /\ requester = "unlock" /\ pc[Collector] = "idle"
  /\ requester' = "wake"
  /\ UNCHANGED <<mutexVars, condVars, pc, callVars, requests, requestsLeft,
                 responds>>

\* Mutex::WakeupToRespondToEmptyCheckpoint, on the mutexes of the second kind:
\* FUTEX_WAKE of all threads.
WakeupToRespondToEmptyCheckpoint ==
  /\ requester = "wake"
  /\ requester' = "barrier"
  /\ \/ /\ responds /\ contenders > 0
        /\ mutexQueue' = {}
        /\ pc' = [t \in Threads |-> IF t \in mutexQueue THEN AfterWait(t)
                                                       ELSE pc[t]]
     \/ ~(responds /\ contenders > 0) /\ UNCHANGED <<mutexQueue, pc>>
  /\ UNCHANGED <<state, owner, contenders, recursion, condVars, callVars,
                 requests, requestsLeft, responds>>

\* Barrier::Increment times out (kEmptyCheckpointPeriodicTimeoutMs): wake again.
BarrierTimesOut ==
  /\ requester = "barrier" /\ requests # {}
  /\ requester' = "wake"
  /\ UNCHANGED <<mutexVars, condVars, pc, callVars, requests, requestsLeft,
                 responds>>

\* Every thread that was asked has passed the barrier.
EmptyCheckpointDone ==
  /\ requester = "barrier" /\ requests = {}
  /\ requester' = "idle"
  /\ UNCHANGED <<mutexVars, condVars, pc, callVars, requests, requestsLeft,
                 responds>>

\* A thread answers outside the mutex code: at a suspend check, or, holding a
\* mutex of the second kind, where it blocks for weak reference access (on a
\* mutex of the first kind, whose broadcast lets it answer).
AnswerEmptyCheckpoint(t) ==
  /\ pc[t] = "idle" \/ (responds /\ pc[t] = "critical")
  /\ t \in requests
  /\ requests' = requests \ {t}
  /\ UNCHANGED <<mutexVars, condVars, pc, callVars, requester, requestsLeft,
                 responds>>

-----------------------------------------------------------------------------

\* The steps of the code, which it takes without waiting for its caller.
MutexStep(t) ==
  \/ LockCas(t) \/ LockSeesHeld(t) \/ CountContender(t)
  \/ CheckEmptyCheckpointFromMutex(t) \/ FutexWait(t) \/ UncountContender(t)
  \/ LockTaken(t) \/ ClearOwner(t) \/ UnlockCas(t) \/ UnlockLoad(t)
  \/ UnlockLoadEarly(t) \/ UnlockCasAfterLoad(t) \/ UnlockWake(t)

CondStep(t) ==
  \/ WaitHoldingLocks(t) \/ CondFutexWait(t) \/ WaitEnds(t) \/ Signal(t)
  \/ SignalWake(t) \/ Broadcast(t) \/ BroadcastRequeue(t)

\* The calls of a thread.
ClientStep(t) ==
  \/ ExclusiveLock(t) \/ ExclusiveLockAgain(t) \/ ExclusiveTryLock(t)
  \/ ExclusiveUnlock(t) \/ CheckEmptyCheckpointFromWeakRefAccess(t)
  \/ CallSignal(t) \/ CallBroadcast(t)

RequesterStep ==
  \/ BroadcastForNewSystemWeaks \/ BroadcastDone
  \/ WakeupToRespondToEmptyCheckpoint \/ BarrierTimesOut \/ EmptyCheckpointDone

Next ==
  \/ RunEmptyCheckpoint \/ RequesterStep
  \/ \E t \in Threads : \/ MutexStep(t) \/ CondStep(t) \/ ClientStep(t)
                        \/ FutexWaitInterrupted(t) \/ AnswerEmptyCheckpoint(t)

Spec == Init /\ [][Next]_vars

\* What a thread does in the end.  A holder unlocks, but the holder of a mutex
\* of the second kind may be blocked for weak reference access as long as an
\* empty checkpoint is going on.
ThreadRuns(t) ==
  \/ MutexStep(t) \/ CondStep(t) \/ AnswerEmptyCheckpoint(t)
  \/ (responds => requester = "idle") /\ ExclusiveUnlock(t)

\* The scheduler runs every thread that is not asleep, and Barrier::Increment
\* returns, answered or not.
Fairness == WF_vars(RequesterStep) /\ \A t \in Threads : WF_vars(ThreadRuns(t))

FairSpec == Spec /\ Fairness

-----------------------------------------------------------------------------
(***************************************************************************)
(* What the mutex and the condition variable guarantee.                    *)
(***************************************************************************)

\* The variables keep the types of their C++ members; no counter goes below
\* zero (the CHECK_GE of WaitHoldingLocks and TimedWait).
TypeInv ==
  /\ state \in {0, 1}
  /\ owner \in Threads \union {NoThread}
  /\ contenders \in Nat /\ recursion \in Nat /\ sequence \in Nat
  /\ waiters \in Nat
  /\ mutexQueue \in SUBSET Threads /\ condQueue \in SUBSET Threads
  /\ pc \in [Threads -> Pc]
  /\ waiting \in [Threads -> BOOLEAN]
  /\ curSequence \in [Threads -> Nat] /\ oldRecursion \in [Threads -> Nat]
  /\ depth \in [Threads -> Nat] /\ opsLeft \in Nat
  /\ requests \in SUBSET Threads
  /\ requester \in Requester /\ requestsLeft \in Nat /\ responds \in BOOLEAN

\* At most one thread holds the mutex, and while its caller has it
\* exclusive_owner_ names that thread and recursion_count_ counts its calls of
\* ExclusiveLock, across the waits in between, in which other threads change
\* both fields.
OwnerExact ==
  /\ \A t, u \in Holders : t = u
  /\ \A t \in Threads :
       pc[t] = "critical" =>
         /\ state = 1 /\ owner = t
         /\ recursion = depth[t] /\ recursion > 0

\* A thread asleep on a free mutex will be woken: some thread is on its way to
\* lock the mutex, whose unlock will see num_contenders_ raised, or has
\* unlocked and has yet to look at num_contenders_ or to wake a thread.
NoLostContender ==
  mutexQueue # {} /\ state = 0 =>
    \E t \in Threads : pc[t] \in {"lock", "contend", "check", "futexWait",
                                  "uncount", "unlockLoad", "unlockWake"}

\* num_contenders_ counts the contenders in ExclusiveLock and the threads in a
\* wait, num_waiters_ the threads in a wait: an unlock never skips a wakeup
\* and the destructors find both at zero when nobody uses the mutex.
CountsExact ==
  /\ waiters = Cardinality({t \in Threads : waiting[t]})
  /\ contenders = waiters + Cardinality({t \in Threads : pc[t] \in CountedPcs})

\* The waits that no Signal, Broadcast or interruption has ended.
Waitset ==
  {t \in Threads :
     /\ waiting[t]
     /\ \/ /\ pc[t] \in {"unlockLoad", "unlockWake", "condWait"}
           /\ curSequence[t] = sequence
        \/ pc[t] = "condAsleep" /\ t \in condQueue}

Returning == {t \in Threads : waiting[t] /\ t \notin Holders \union Waitset}

Calling ==
  [t \in Threads |->
     CASE pc[t] \in {"signal", "signalWake"} -> "Signal"
       [] pc[t] \in {"broadcast", "broadcastRequeue"} -> "Broadcast"
       [] OTHER -> "none"]

Condition == INSTANCE GuardedCondition
  WITH holders <- Holders, waitset <- Waitset, returning <- Returning,
       calling <- Calling

\* The futex code implements GuardedCondition: mutual exclusion, a wait that
\* releases the mutex and starts to wait in one step, a Signal that ends a
\* wait if there is one, a Broadcast that ends all of them.
ImplementsCondition == Condition!Spec

\* The threads that have called ExclusiveLock, or whose wait has ended, and
\* that do not have the mutex yet.
Asking ==
  {t \in Threads : pc[t] \in CountedPcs \union {"lock", "contend", "locked"}}
    \union Returning

\* No thread is left asleep: a thread that has called ExclusiveLock, or whose
\* wait a Signal, a Broadcast or a timeout has ended, gets the mutex.  Callers
\* make finitely many calls and unlock in the end, so that there comes a time
\* when nobody asks for the mutex any more.
NoThreadLeftAsleep == []<>(Asking = {})

\* An empty checkpoint ends, although threads block in kRunnable: those asleep
\* on the condition variable, whom the broadcast wakes, also when the request
\* reaches them between their check and their wait; and those that contend for
\* a mutex whose holder waits for the end of the checkpoint, whom
\* WakeupToRespondToEmptyCheckpoint wakes until it finds each of them asleep.
EmptyCheckpointEnds == []<>(requester = "idle")

-----------------------------------------------------------------------------
(***************************************************************************)
(* The inductive invariant.                                                *)
(***************************************************************************)

\* One thread has the mutex and state_ says so.
HolderInv ==
  /\ \A t, u \in Threads : pc[t] \in HoldingPcs /\ pc[u] \in HoldingPcs => t = u
  /\ \A t \in Threads : pc[t] \in HoldingPcs => state = 1

\* Where a thread may be during a wait.
WaitInv ==
  /\ \A t \in Threads :
       waiting[t] => pc[t] \notin {"idle", "critical", "wait", "signal",
                                   "signalWake", "broadcast",
                                   "broadcastRequeue"}
  /\ \A t \in Threads :
       pc[t] \in {"condWait", "condAsleep", "waitEnd"} => waiting[t]

CriticalPcs == {"critical", "wait", "signal", "signalWake", "broadcast",
                "broadcastRequeue"}

\* exclusive_owner_ and recursion_count_ belong to the holder's caller, also
\* to one that is in a wait.
RecursionInv ==
  /\ \A t \in Threads : pc[t] \in CriticalPcs => owner = t /\ recursion = depth[t]
  /\ \A t \in Threads : pc[t] = "waitEnd" => owner = t
  /\ \A t \in Threads :
       pc[t] \in HoldingPcs \ (CriticalPcs \union {"waitEnd"}) => recursion = 0
  /\ state = 0 => recursion = 0
  /\ \A t \in Threads :
       pc[t] \in CriticalPcs \/ waiting[t] =>
         depth[t] > 0 /\ (Recursive \/ depth[t] = 1)
  /\ \A t \in Threads : waiting[t] => oldRecursion[t] = depth[t]

\* Only threads in a futex wait are in the kernel's queues.
QueueInv ==
  /\ \A t \in mutexQueue : pc[t] \in {"asleep", "condAsleep"}
  /\ \A t \in condQueue : pc[t] = "condAsleep"
  /\ mutexQueue \intersect condQueue = {}

\* A waiter has seen sequence_, which changes under the mutex only; once a
\* Signal or Broadcast has raised it no waiter about to sleep agrees with it.
SequenceInv ==
  /\ \A t \in Threads : waiting[t] => curSequence[t] <= sequence
  /\ \A t \in Threads :
       waiting[t] /\ pc[t] \in {"unlock", "unlockCas", "casQuiet", "casWake"} =>
         curSequence[t] = sequence
  /\ \A t, u \in Threads :
       /\ pc[t] \in {"signalWake", "broadcastRequeue"}
       /\ waiting[u]
       /\ pc[u] \in {"unlockLoad", "unlockWake", "condWait"}
       => curSequence[u] # sequence

\* With the loads in program order.
OrderedInv ==
  ~ReorderLoads =>
    /\ \A t \in Threads : pc[t] \notin {"casQuiet", "casWake"}
    /\ NoLostContender

\* The inductive invariant of the mutex and the condition variable: the holder,
\* the counts, the kernel's queues and the sequence number agree at every step.
IInv ==
  /\ TypeInv /\ CountsExact /\ HolderInv /\ WaitInv /\ RecursionInv /\ QueueInv
  /\ SequenceInv /\ OrderedInv
=============================================================================
