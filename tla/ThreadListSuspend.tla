-------------------------- MODULE ThreadListSuspend --------------------------
(***************************************************************************)
(* ThreadList (runtime/thread_list.cc): the list of attached threads, the  *)
(* suspension of all of them (SuspendAll, ResumeAll) and of one of them    *)
(* (SuspendThreadByThreadId, Resume), and attaching and detaching.         *)
(*                                                                         *)
(* op[s] is the place in the ThreadList operation that s is executing;     *)
(* todo, raised and current are its local variables.  A loop over list_    *)
(* takes the threads in any order.                                         *)
(***************************************************************************)
EXTENDS ThreadTransitions

CONSTANTS
  SuspendAllers,   \* threads that call SuspendAll .. ResumeAll
  IdSuspenders,    \* threads that call SuspendThreadByThreadId .. Resume
  Attachers,       \* threads that attach and detach
  InitialList,     \* threads attached at the start
  MaxOps           \* bound: operations begun by one thread

ASSUME RolesAssumption ==
  /\ SuspendAllers \subseteq Threads
  /\ IdSuspenders \subseteq Threads
  /\ Attachers \subseteq Threads
  /\ InitialList \subseteq Threads
  /\ MaxOps \in Nat

VARIABLES
  list,                \* ThreadList::list_
  suspendAllCount,     \* ThreadList::suspend_all_count_
  unregisteringCount,  \* ThreadList::unregistering_count_
  listLock,            \* owner of Locks::thread_list_lock_
  mutatorWriter,       \* exclusive owner of Locks::mutator_lock_
  mutatorReaders,      \* explicit shared owners (ReaderMutexLock) of it
  op,                  \* control point of the operation in progress
  caller,              \* who called SuspendAllInternal
  todo,                \* list elements a loop has not reached yet
  raised,              \* threads whose suspend count the operation raised
  current,             \* the loop variable, or the thread asked for
  opsLeft

listVars    == <<list, suspendAllCount, unregisteringCount>>
mutatorVars == <<mutatorWriter, mutatorReaders>>
localVars   == <<caller, todo, raised, current, opsLeft>>
threadListVars == <<listVars, listLock, mutatorVars, op, localVars>>

BothLocksFree == listLock = NoThread /\ countLock = NoThread

\* A thread starts an operation of its own from ordinary code: managed code,
\* or native code (not from inside FullSuspendCheck).
Begin(s, role, pcs) ==
  /\ s \in role
  /\ s \in list
  /\ op[s] = "none"
  /\ pc[s] \in pcs
  /\ state[s] \in {"Runnable", "Native"}
  /\ opsLeft[s] > 0
  /\ opsLeft' = [opsLeft EXCEPT ![s] = @ - 1]

Goto(s, label) == op' = [op EXCEPT ![s] = label]

-----------------------------------------------------------------------------
(***************************************************************************)
(* SuspendAllInternal.                                                     *)
(***************************************************************************)

\* Take both locks, count this request for threads that attach later, and
\* set pending_threads to the number of threads to wait for.
EnterSuspendAllInternal(s, who) ==
  /\ BothLocksFree
  /\ listLock' = s
  /\ countLock' = s
  /\ suspendAllCount' = suspendAllCount + 1
  /\ pending' = [pending EXCEPT ![s] = Cardinality(list) - 1]
  /\ todo' = [todo EXCEPT ![s] = list \ {s}]
  /\ caller' = [caller EXCEPT ![s] = who]
  /\ Goto(s, "requestSuspend")
  /\ UNCHANGED <<wordVars, countVars, checkpointVars, flipVars, claimed, pc,
                 resumeWaiters, list, unregisteringCount, mutatorVars, raised,
                 current>>

SuspendAll(s) ==
  /\ Begin(s, SuspendAllers, {"suspended"})
  /\ EnterSuspendAllInternal(s, "SuspendAll")

\* The body of the loop up to the call of IsSuspended: install the counter.
\* When the request fails the lock is dropped and the request is repeated.
RequestSuspend(s, t) ==
  /\ \/ /\ op[s] = "requestSuspend"
        /\ t \in todo[s]
     \/ /\ op[s] = "retrySuspend"
        /\ t = current[s]
        /\ countLock = NoThread
  /\ CanSuspend(s, t, s)
  /\ RaiseSuspendCount(t, s)
  /\ countLock' = s
  /\ todo' = [todo EXCEPT ![s] = @ \ {t}]
  /\ current' = [current EXCEPT ![s] = t]
  /\ Goto(s, "checkSuspended")
  /\ UNCHANGED <<state, checkpointVars, flipVars, passVars, pc, resumeWaiters,
                 listVars, listLock, mutatorVars, caller, raised, opsLeft>>

RequestSuspendFails(s, t) ==
  /\ op[s] = "requestSuspend"
  /\ t \in todo[s]
  /\ ~CanSuspend(s, t, s)
  /\ countLock' = NoThread
  /\ current' = [current EXCEPT ![s] = t]
  /\ Goto(s, "retrySuspend")
  /\ UNCHANGED <<wordVars, countVars, checkpointVars, flipVars, passVars, pc,
                 resumeWaiters, listVars, listLock, mutatorVars, caller, todo,
                 raised, opsLeft>>

\* "Must install the pending_threads counter first, then check".
CheckSuspended(s) ==
  /\ op[s] = "checkSuspended"
  /\ IF IsSuspended(current[s])
       THEN /\ ClearSuspendBarrier(current[s], s)
            /\ pending' = [pending EXCEPT ![s] = @ - 1]
       ELSE UNCHANGED <<barriers, flags, pending>>
  /\ current' = [current EXCEPT ![s] = NoThread]
  /\ Goto(s, "requestSuspend")
  /\ UNCHANGED <<state, suspendCount, checkpointVars, flipVars, claimed, pc,
                 countLock, resumeWaiters, listVars, listLock, mutatorVars,
                 caller, todo, raised, opsLeft>>

FinishRequests(s) ==
  /\ op[s] = "requestSuspend"
  /\ todo[s] = {}
  /\ listLock' = NoThread
  /\ countLock' = NoThread
  /\ Goto(s, "waitForBarrier")
  /\ UNCHANGED <<wordVars, countVars, checkpointVars, flipVars, passVars, pc,
                 resumeWaiters, listVars, mutatorVars, localVars>>

\* The futex wait on pending_threads ends when the counter is zero.
SuspendBarrierPassed(s) ==
  /\ op[s] = "waitForBarrier"
  /\ pending[s] = 0
  /\ Goto(s, "lockMutator")
  /\ UNCHANGED <<transitionVars, listVars, listLock, mutatorVars, localVars>>

\* mutator_lock_->ExclusiveLock.  Runnable threads are no owners of the
\* underlying reader-writer lock: only explicit readers and a writer are.
LockMutatorExclusive(s) ==
  /\ op[s] = "lockMutator"
  /\ mutatorWriter = NoThread
  /\ mutatorReaders = {}
  /\ mutatorWriter' = s
  /\ Goto(s, "allSuspended")
  /\ UNCHANGED <<transitionVars, listVars, listLock, mutatorReaders, localVars>>

-----------------------------------------------------------------------------
(***************************************************************************)
(* ResumeAll.                                                              *)
(***************************************************************************)

ResumeAll(s) ==
  /\ op[s] = "allSuspended"
  /\ caller[s] = "SuspendAll"
  /\ mutatorWriter' = NoThread
  /\ Goto(s, "resumeAll")
  /\ UNCHANGED <<transitionVars, listVars, listLock, mutatorReaders, localVars>>

LowerAllAndBroadcast(s) ==
  /\ op[s] = "resumeAll"
  /\ BothLocksFree
  /\ suspendAllCount' = suspendAllCount - 1
  /\ LowerSuspendCounts(list \ {s})
  /\ BroadcastResumeCond
  /\ Goto(s, "none")
  /\ UNCHANGED <<state, checkpointVars, flipVars, passVars, pc, countLock, list,
                 unregisteringCount, listLock, mutatorVars, localVars>>

-----------------------------------------------------------------------------
(***************************************************************************)
(* SuspendThreadByThreadId and Resume.                                     *)
(***************************************************************************)

\* The caller is not runnable; the loop starts by becoming runnable.
SuspendThreadByThreadId(s, t) ==
  /\ Begin(s, IdSuspenders, {"suspended"})
  /\ t # s
  /\ current' = [current EXCEPT ![s] = t]
  /\ Goto(s, "byIdEnter")
  /\ UNCHANGED <<transitionVars, listVars, listLock, mutatorVars, caller, todo,
                 raised>>

\* What a round finds under both locks once the count of t has been raised:
\* t is suspended, or the caller leaves kRunnable and tries another round.
ByIdOutcome(s, t, isSuspended) ==
  \/ /\ isSuspended
     /\ raised' = [raised EXCEPT ![s] = {t}]
     /\ Goto(s, "byIdFound")
  \/ /\ ~isSuspended
     /\ raised' = [raised EXCEPT ![s] = {t}]
     /\ Goto(s, "byIdSleep")

\* No such thread, or this thread has to suspend first.
ByIdGivesWay(s) ==
  /\ pc[s] = "running"
  /\ op[s] = "byIdEnter"
  /\ BothLocksFree
  /\ raised[s] = {}
  /\ \/ current[s] \notin list /\ Goto(s, "byIdFail")
     \/ current[s] \in list /\ suspendCount[s] > 0 /\ Goto(s, "byIdSleep")
  /\ UNCHANGED <<transitionVars, listVars, listLock, mutatorVars, localVars>>

\* Variant with a defect: a thread asked to suspend asks another one.
ByIdRequestUnguarded(s) ==
  /\ pc[s] = "running"
  /\ \/ op[s] = "byIdEnter" /\ BothLocksFree
     \/ op[s] = "byIdRetry" /\ countLock = NoThread
  /\ raised[s] = {}
  /\ current[s] \in list
  /\ CanSuspend(s, current[s], NoThread)
  /\ RaiseSuspendCount(current[s], NoThread)
  /\ listLock' = NoThread
  /\ ByIdOutcome(s, current[s], state[current[s]] # "Runnable")
  /\ UNCHANGED <<state, checkpointVars, flipVars, passVars, pc, countLock,
                 resumeWaiters, listVars, mutatorVars, caller, todo, current,
                 opsLeft>>

ByIdRequest(s) ==
  /\ pc[s] = "running"
  /\ \/ op[s] = "byIdEnter" /\ BothLocksFree /\ suspendCount[s] = 0
     \/ op[s] = "byIdRetry" /\ countLock = NoThread
  /\ raised[s] = {}
  /\ current[s] \in list
  /\ CanSuspend(s, current[s], NoThread)
  /\ RaiseSuspendCount(current[s], NoThread)
  /\ listLock' = NoThread
  /\ ByIdOutcome(s, current[s], state[current[s]] # "Runnable")
  /\ UNCHANGED <<state, checkpointVars, flipVars, passVars, pc, countLock,
                 resumeWaiters, listVars, mutatorVars, caller, todo, current,
                 opsLeft>>

\* The retry of ModifySuspendCount keeps thread_list_lock_.
ByIdRequestFails(s) ==
  /\ pc[s] = "running"
  /\ op[s] = "byIdEnter"
  /\ BothLocksFree
  /\ suspendCount[s] = 0
  /\ raised[s] = {}
  /\ current[s] \in list
  /\ ~CanSuspend(s, current[s], NoThread)
  /\ listLock' = s
  /\ Goto(s, "byIdRetry")
  /\ UNCHANGED <<transitionVars, listVars, mutatorVars, localVars>>

\* A later round: the count is raised already.
ByIdPoll(s) ==
  /\ pc[s] = "running"
  /\ op[s] = "byIdEnter"
  /\ BothLocksFree
  /\ raised[s] # {}
  /\ ByIdOutcome(s, current[s], IsSuspended(current[s]))
  /\ UNCHANGED <<transitionVars, listVars, listLock, mutatorVars, caller, todo,
                 current, opsLeft>>

\* Variant with a defect: the request is not withdrawn.
ByIdTimeoutKeepsCount(s) ==
  /\ pc[s] = "running"
  /\ op[s] = "byIdEnter"
  /\ BothLocksFree
  /\ \/ raised[s] # {} /\ ~IsSuspended(current[s])
     \/ /\ raised[s] = {} /\ suspendCount[s] = 0 /\ current[s] \in list
        /\ CanSuspend(s, current[s], NoThread)
        /\ state[current[s]] = "Runnable"
  /\ UNCHANGED <<countVars, flags>>
  /\ raised' = [raised EXCEPT ![s] = {}]
  /\ Goto(s, "byIdFail")
  /\ UNCHANGED <<state, checkpointVars, flipVars, passVars, pc, countLock,
                 resumeWaiters, listVars, listLock, mutatorVars, caller, todo,
                 current, opsLeft>>

\* total_delay reached thread_suspend_timeout_ns_: the request is withdrawn,
\* in a later round or (raised and lowered at once) in the first one.
ByIdTimeout(s) ==
  /\ pc[s] = "running"
  /\ op[s] = "byIdEnter"
  /\ BothLocksFree
  /\ \/ raised[s] # {} /\ ~IsSuspended(current[s])
     \/ /\ raised[s] = {} /\ suspendCount[s] = 0 /\ current[s] \in list
        /\ CanSuspend(s, current[s], NoThread)
        /\ state[current[s]] = "Runnable"
  /\ LowerSuspendCounts(raised[s])
  /\ raised' = [raised EXCEPT ![s] = {}]
  /\ Goto(s, "byIdFail")
  /\ UNCHANGED <<state, checkpointVars, flipVars, passVars, pc, countLock,
                 resumeWaiters, listVars, listLock, mutatorVars, caller, todo,
                 current, opsLeft>>

\* The ScopedObjectAccess of a round has ended.
ByIdRoundEnds(s) ==
  /\ pc[s] = "suspended"
  /\ \/ op[s] = "byIdSleep" /\ Goto(s, "byIdEnter") /\ UNCHANGED current
     \/ op[s] = "byIdFound" /\ Goto(s, "byIdHold") /\ UNCHANGED current
     \/ /\ op[s] = "byIdFail"
        /\ Goto(s, "none")
        /\ current' = [current EXCEPT ![s] = NoThread]
  /\ UNCHANGED <<transitionVars, listVars, listLock, mutatorVars, caller, todo,
                 raised, opsLeft>>

\* The caller keeps the thread suspended for a while, then resumes it.
Resume(s) ==
  /\ op[s] = "byIdHold"
  /\ pc[s] \in {"running", "suspended"}
  /\ BothLocksFree
  /\ IsSuspended(current[s])
  /\ current[s] \in list
  /\ LowerSuspendCounts({current[s]})
  /\ raised' = [raised EXCEPT ![s] = {}]
  /\ current' = [current EXCEPT ![s] = NoThread]
  /\ Goto(s, "broadcast")
  /\ UNCHANGED <<state, checkpointVars, flipVars, passVars, pc, countLock,
                 resumeWaiters, listVars, listLock, mutatorVars, caller, todo,
                 opsLeft>>

\* The second critical section of Resume.
ResumeBroadcasts(s) ==
  /\ op[s] = "broadcast"
  /\ countLock = NoThread
  /\ BroadcastResumeCond
  /\ Goto(s, "none")
  /\ UNCHANGED <<wordVars, countVars, checkpointVars, flipVars, passVars, pc,
                 countLock, listVars, listLock, mutatorVars, localVars>>

-----------------------------------------------------------------------------
(***************************************************************************)
(* Register and Unregister.                                                *)
(***************************************************************************)

\* Variant with a defect: the SuspendAlls in progress are not counted.
RegisterUncounted(t) ==
  /\ t \in Attachers
  /\ pc[t] = "unborn"
  /\ op[t] = "none"
  /\ opsLeft[t] > 0
  /\ opsLeft' = [opsLeft EXCEPT ![t] = @ - 1]
  /\ BothLocksFree
  /\ state' = [state EXCEPT ![t] = "Native"]
  /\ suspendCount' = [suspendCount EXCEPT ![t] = 0]
  /\ flags' = [flags EXCEPT ![t] = IF suspendAllCount > 0
                                     THEN {"SuspendRequest"} ELSE {}]
  /\ list' = list \union {t}
  /\ pc' = [pc EXCEPT ![t] = "suspended"]
  /\ UNCHANGED <<barriers, checkpointVars, flipVars, passVars, countLock,
                 resumeWaiters, suspendAllCount, unregisteringCount, listLock,
                 mutatorVars, op, caller, todo, raised, current>>

\* The thread is added with one suspend request for each SuspendAll that is
\* in progress.
Register(t) ==
  /\ t \in Attachers
  /\ pc[t] = "unborn"
  /\ op[t] = "none"
  /\ opsLeft[t] > 0
  /\ opsLeft' = [opsLeft EXCEPT ![t] = @ - 1]
  /\ BothLocksFree
  /\ state' = [state EXCEPT ![t] = "Native"]
  /\ suspendCount' = [suspendCount EXCEPT ![t] = suspendAllCount]
  /\ flags' = [flags EXCEPT ![t] = IF suspendAllCount > 0
                                     THEN {"SuspendRequest"} ELSE {}]
  /\ list' = list \union {t}
  /\ pc' = [pc EXCEPT ![t] = "suspended"]
  /\ UNCHANGED <<barriers, checkpointVars, flipVars, passVars, countLock,
                 resumeWaiters, suspendAllCount, unregisteringCount, listLock,
                 mutatorVars, op, caller, todo, raised, current>>

\* ++unregistering_count_; Destroy, which may run managed code, follows.
Unregister(t) ==
  /\ t \in Attachers
  /\ t \in list
  /\ pc[t] = "suspended"
  /\ state[t] = "Native"
  /\ op[t] = "none"
  /\ listLock = NoThread
  /\ unregisteringCount' = unregisteringCount + 1
  /\ Goto(t, "unregister")
  /\ UNCHANGED <<transitionVars, list, suspendAllCount, listLock, mutatorVars,
                 localVars>>

\* Variant with a defect: the thread may be suspended.
RemoveFromListSuspended(t) ==
  /\ op[t] = "unregister"
  /\ pc[t] = "suspended"
  /\ BothLocksFree
  /\ list' = list \ {t}
  /\ pc' = [pc EXCEPT ![t] = "unborn"]
  /\ Goto(t, "detached")
  /\ UNCHANGED <<wordVars, countVars, checkpointVars, flipVars, passVars,
                 countLock, resumeWaiters, suspendAllCount, unregisteringCount,
                 listLock, mutatorVars, localVars>>

\* The loop removes the thread at a moment when it has no suspend request.
RemoveFromList(t) ==
  /\ op[t] = "unregister"
  /\ pc[t] = "suspended"
  /\ BothLocksFree
  /\ ~IsSuspended(t)
  /\ list' = list \ {t}
  /\ pc' = [pc EXCEPT ![t] = "unborn"]
  /\ Goto(t, "detached")
  /\ UNCHANGED <<wordVars, countVars, checkpointVars, flipVars, passVars,
                 countLock, resumeWaiters, suspendAllCount, unregisteringCount,
                 listLock, mutatorVars, localVars>>

\* --unregistering_count_; the thread id may be used again.
FinishUnregister(t) ==
  /\ op[t] = "detached"
  /\ listLock = NoThread
  /\ unregisteringCount' = unregisteringCount - 1
  /\ Goto(t, "none")
  /\ UNCHANGED <<transitionVars, list, suspendAllCount, listLock, mutatorVars,
                 localVars>>

=============================================================================
