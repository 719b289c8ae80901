-------------------------- MODULE ReaderWriterMutex --------------------------
(***************************************************************************)
(* ReaderWriterMutex of runtime/base/mutex.cc and mutex-inl.h, built on a  *)
(* futex (ART_USE_FUTEXES), for a mutex that does not respond to empty     *)
(* checkpoints (should_respond_to_empty_checkpoint_request_ is false).     *)
(*                                                                         *)
(* One action is one access to the shared words or one system call.  A     *)
(* compare-and-set that fails goes back to a load that changes nothing, so *)
(* it is a stuttering step.  curState and timed are reset where the local  *)
(* variables they stand for are dead.                                      *)
(***************************************************************************)
EXTENDS Integers, FiniteSets

CONSTANTS
  Threads,
  NoThread,
  MaxOps      \* bound: calls of all threads

ASSUME MutexAssumption ==
  IsFiniteSet(Threads) /\ NoThread \notin Threads /\ MaxOps \in Nat

VARIABLES
  state,          \* state_: 0 free, -1 exclusive, n > 0 shared by n threads
  owner,          \* exclusive_owner_
  pendingReaders, \* num_pending_readers_
  pendingWriters, \* num_pending_writers_
  queue,          \* the threads the kernel keeps asleep on state_
  pc,             \* what each thread does next
  curState,       \* cur_state, the value a thread's FUTEX_WAIT expects
  timed,          \* is the thread in ExclusiveLockWithTimeout?
  opsLeft         \* calls left to the threads

mutexVars == <<state, owner, pendingReaders, pendingWriters, queue>>
vars == <<mutexVars, pc, curState, timed, opsLeft>>

ReaderPcs == {"sharedLock", "sharedContend", "sharedFutexWait", "sharedAsleep",
              "sharedUncount", "reading"}
WriterPcs == {"lock", "contend", "futexWait", "asleep", "uncount", "locked",
              "writing", "unlock", "unlockCas"}
\* The threads that num_pending_readers_ and num_pending_writers_ count.
PendingReaderPcs == {"sharedFutexWait", "sharedAsleep", "sharedUncount"}
PendingWriterPcs == {"futexWait", "asleep", "uncount", "timedOut"}
\* After an unlock: the loads of the pending counts, and the wakeup.
UnlockedPcs == {"sharedLoad", "sharedLoad2", "load", "load2", "wake"}
Pc == ReaderPcs \union WriterPcs \union UnlockedPcs \union {"idle", "timedOut"}

Goto(t, l) == pc' = [pc EXCEPT ![t] = l]

Call(t, l) ==
  /\ pc[t] = "idle" /\ opsLeft > 0
  /\ opsLeft' = opsLeft - 1
  /\ Goto(t, l)

Init ==
  /\ state = 0 /\ owner = NoThread /\ pendingReaders = 0 /\ pendingWriters = 0
  /\ queue = {}
  /\ pc = [t \in Threads |-> "idle"]
  /\ curState = [t \in Threads |-> 0]
  /\ timed = [t \in Threads |-> FALSE]
  /\ opsLeft = MaxOps

-----------------------------------------------------------------------------
(***************************************************************************)
(* SharedLock, SharedTryLock and HandleSharedLockContention.               *)
(***************************************************************************)

SharedLock(t) ==
  /\ Call(t, "sharedLock")
  /\ UNCHANGED <<mutexVars, curState, timed>>

\* Variant with a defect: a try that takes -1 for a count of readers.
SharedTryLockOffByOne(t) ==
  /\ state >= -1
  /\ state' = state + 1
  /\ Call(t, "reading")
  /\ UNCHANGED <<owner, pendingReaders, pendingWriters, queue, curState, timed>>

\* SharedTryLock that succeeds; it returns false and changes nothing if the
\* mutex is held exclusively.
SharedTryLock(t) ==
  /\ state >= 0
  /\ state' = state + 1
  /\ Call(t, "reading")
  /\ UNCHANGED <<owner, pendingReaders, pendingWriters, queue, curState, timed>>

SharedCas(t) ==
  /\ pc[t] = "sharedLock"
  /\ state >= 0
  /\ state' = state + 1
  /\ Goto(t, "reading")
  /\ UNCHANGED <<owner, pendingReaders, pendingWriters, queue, curState, timed,
                 opsLeft>>

SharedSeesWriter(t) ==
  /\ pc[t] = "sharedLock"
  /\ state < 0
  /\ curState' = [curState EXCEPT ![t] = state]
  /\ Goto(t, "sharedContend")
  /\ UNCHANGED <<mutexVars, timed, opsLeft>>

CountReader(t) ==
  /\ pc[t] = "sharedContend"
  /\ pendingReaders' = pendingReaders + 1
  /\ Goto(t, "sharedFutexWait")
  /\ UNCHANGED <<state, owner, pendingWriters, queue, curState, timed, opsLeft>>

UncountReader(t) ==
  /\ pc[t] = "sharedUncount"
  /\ pendingReaders' = pendingReaders - 1
  /\ Goto(t, "sharedLock")
  /\ UNCHANGED <<state, owner, pendingWriters, queue, curState, timed, opsLeft>>

\* SharedUnlock: the last reader looks for threads to wake.
SharedUnlock(t) ==
  /\ pc[t] = "reading"
  /\ state > 0
  /\ state' = state - 1
  /\ Goto(t, IF state' = 0 THEN "sharedLoad" ELSE "idle")
  /\ UNCHANGED <<owner, pendingReaders, pendingWriters, queue, curState, timed,
                 opsLeft>>

-----------------------------------------------------------------------------
(***************************************************************************)
(* ExclusiveLock and ExclusiveLockWithTimeout.                             *)
(***************************************************************************)

ExclusiveLock(t) ==
  /\ Call(t, "lock")
  /\ UNCHANGED <<mutexVars, curState, timed>>

ExclusiveLockWithTimeout(t) ==
  /\ Call(t, "lock")
  /\ timed' = [timed EXCEPT ![t] = TRUE]
  /\ UNCHANGED <<mutexVars, curState>>

\* Variant with a defect: a writer that takes the mutex from one last reader.
LockCasOffByOne(t) ==
  /\ pc[t] = "lock"
  /\ state \in {0, 1}
  /\ state' = -1
  /\ Goto(t, "locked")
  /\ UNCHANGED <<owner, pendingReaders, pendingWriters, queue, curState, timed,
                 opsLeft>>

LockCas(t) ==
  /\ pc[t] = "lock"
  /\ state = 0
  /\ state' = -1
  /\ Goto(t, "locked")
  /\ UNCHANGED <<owner, pendingReaders, pendingWriters, queue, curState, timed,
                 opsLeft>>

LockSeesHeld(t) ==
  /\ pc[t] = "lock"
  /\ state # 0
  /\ curState' = [curState EXCEPT ![t] = state]
  /\ Goto(t, "contend")
  /\ UNCHANGED <<mutexVars, timed, opsLeft>>

\* Variant with a defect: a call that was not counted takes itself off the count.
TimedOutBeforeWaitUncounts(t) ==
  /\ pc[t] = "contend"
  /\ timed[t]
  /\ pendingWriters' = pendingWriters - 1
  /\ timed' = [timed EXCEPT ![t] = FALSE]
  /\ curState' = [curState EXCEPT ![t] = 0]
  /\ Goto(t, "idle")
  /\ UNCHANGED <<state, owner, pendingReaders, queue, opsLeft>>

\* The time is up before the wait.
TimedOutBeforeWait(t) ==
  /\ pc[t] = "contend"
  /\ timed[t]
  /\ timed' = [timed EXCEPT ![t] = FALSE]
  /\ curState' = [curState EXCEPT ![t] = 0]
  /\ Goto(t, "idle")
  /\ UNCHANGED <<mutexVars, opsLeft>>

CountWriter(t) ==
  /\ pc[t] = "contend"
  /\ pendingWriters' = pendingWriters + 1
  /\ Goto(t, "futexWait")
  /\ UNCHANGED <<state, owner, pendingReaders, queue, curState, timed, opsLeft>>

\* The futex wait has ended; after ETIMEDOUT the call returns false.
UncountWriter(t) ==
  /\ pc[t] \in {"uncount", "timedOut"}
  /\ pendingWriters' = pendingWriters - 1
  /\ Goto(t, IF pc[t] = "timedOut" THEN "idle" ELSE "lock")
  /\ timed' = [timed EXCEPT ![t] = @ /\ pc[t] # "timedOut"]
  /\ UNCHANGED <<state, owner, pendingReaders, queue, curState, opsLeft>>

LockTaken(t) ==
  /\ pc[t] = "locked"
  /\ owner' = t
  /\ timed' = [timed EXCEPT ![t] = FALSE]
  /\ Goto(t, "writing")
  /\ UNCHANGED <<state, pendingReaders, pendingWriters, queue, curState, opsLeft>>

ExclusiveUnlock(t) ==
  /\ pc[t] = "writing"
  /\ Goto(t, "unlock")
  /\ UNCHANGED <<mutexVars, curState, timed, opsLeft>>

ClearOwner(t) ==
  /\ pc[t] = "unlock"
  /\ owner' = NoThread
  /\ Goto(t, "unlockCas")
  /\ UNCHANGED <<state, pendingReaders, pendingWriters, queue, curState, timed,
                 opsLeft>>

UnlockCas(t) ==
  /\ pc[t] = "unlockCas"
  /\ state = -1
  /\ state' = 0
  /\ Goto(t, "load")
  /\ UNCHANGED <<owner, pendingReaders, pendingWriters, queue, curState, timed,
                 opsLeft>>

-----------------------------------------------------------------------------
(***************************************************************************)
(* Sleeping on state_ and waking all that sleep.                           *)
(***************************************************************************)

\* Where a thread goes on when its futex wait returns.
AfterWait(t) ==
  IF pc[t] \in {"sharedFutexWait", "sharedAsleep"} THEN "sharedUncount"
                                                   ELSE "uncount"

\* Variant with a defect: a wait that does not compare state_ with cur_state.
FutexWaitUnconditional(t) ==
  /\ pc[t] \in {"sharedFutexWait", "futexWait"}
  /\ queue' = queue \union {t}
  /\ Goto(t, IF pc[t] = "futexWait" THEN "asleep" ELSE "sharedAsleep")
  /\ curState' = [curState EXCEPT ![t] = 0]
  /\ UNCHANGED <<state, owner, pendingReaders, pendingWriters, timed, opsLeft>>

\* FUTEX_WAIT with the expected value cur_state: EAGAIN if it is another.
FutexWait(t) ==
  /\ pc[t] \in {"sharedFutexWait", "futexWait"}
  /\ \/ /\ state = curState[t]
        /\ queue' = queue \union {t}
        /\ Goto(t, IF pc[t] = "futexWait" THEN "asleep" ELSE "sharedAsleep")
     \/ /\ state # curState[t]
        /\ queue' = queue
        /\ Goto(t, AfterWait(t))
  /\ curState' = [curState EXCEPT ![t] = 0]
  /\ UNCHANGED <<state, owner, pendingReaders, pendingWriters, timed, opsLeft>>

\* EINTR.
FutexWaitInterrupted(t) ==
  /\ t \in queue
  /\ queue' = queue \ {t}
  /\ Goto(t, AfterWait(t))
  /\ UNCHANGED <<state, owner, pendingReaders, pendingWriters, curState, timed,
                 opsLeft>>

\* ETIMEDOUT.
FutexWaitTimesOut(t) ==
  /\ pc[t] = "asleep" /\ timed[t]
  /\ queue' = queue \ {t}
  /\ Goto(t, "timedOut")
  /\ UNCHANGED <<state, owner, pendingReaders, pendingWriters, curState, timed,
                 opsLeft>>

\* Variant with a defect: the unlock looks at the first of the two counts only.
LoadPendingFirst(t) ==
  /\ pc[t] \in {"sharedLoad", "sharedLoad2", "load", "load2"}
  /\ LET pending == IF pc[t] = "load" THEN pendingReaders ELSE pendingWriters
     IN  Goto(t, IF pending > 0 THEN "wake" ELSE "idle")
  /\ UNCHANGED <<mutexVars, curState, timed, opsLeft>>

\* The unlock loads one pending count and, if it is zero, the other:
\* SharedUnlock the writers first, ExclusiveUnlock the readers first.
LoadPending(t) ==
  /\ pc[t] \in {"sharedLoad", "sharedLoad2", "load", "load2"}
  /\ LET pending == IF pc[t] \in {"load", "sharedLoad2"} THEN pendingReaders
                                                         ELSE pendingWriters
     IN  Goto(t, CASE pending > 0 -> "wake"
                   [] pending = 0 /\ pc[t] = "load" -> "load2"
                   [] pending = 0 /\ pc[t] = "sharedLoad" -> "sharedLoad2"
                   [] OTHER -> "idle")
  /\ UNCHANGED <<mutexVars, curState, timed, opsLeft>>

\* FUTEX_WAKE of all threads.
FutexWakeAll(t) ==
  /\ pc[t] = "wake"
  /\ queue' = {}
  /\ pc' = [u \in Threads |-> CASE u = t -> "idle"
                                [] u # t /\ u \in queue -> AfterWait(u)
                                [] OTHER -> pc[u]]
  /\ UNCHANGED <<state, owner, pendingReaders, pendingWriters, curState, timed,
                 opsLeft>>

-----------------------------------------------------------------------------

\* The steps of the code, and the unlock its caller makes in the end.
MutexStep(t) ==
  \/ SharedCas(t) \/ SharedSeesWriter(t) \/ CountReader(t) \/ UncountReader(t)
  \/ LockCas(t) \/ LockSeesHeld(t) \/ CountWriter(t) \/ UncountWriter(t)
  \/ LockTaken(t) \/ ClearOwner(t) \/ UnlockCas(t) \/ FutexWait(t)
  \/ LoadPending(t) \/ FutexWakeAll(t)
  \/ SharedUnlock(t) \/ ExclusiveUnlock(t)

Next ==
  \E t \in Threads :
    \/ MutexStep(t)
    \/ SharedLock(t) \/ SharedTryLock(t)
    \/ ExclusiveLock(t) \/ ExclusiveLockWithTimeout(t)
    \/ FutexWaitInterrupted(t) \/ FutexWaitTimesOut(t) \/ TimedOutBeforeWait(t)

\* The scheduler runs every thread that is not asleep.
Spec == Init /\ [][Next]_vars /\ \A t \in Threads : WF_vars(MutexStep(t))

-----------------------------------------------------------------------------

Readers == {t \in Threads : pc[t] = "reading"}
Writers == {t \in Threads : pc[t] \in {"locked", "writing", "unlock",
                                       "unlockCas"}}

\* The variables keep the types of their C++ members; no counter goes below
\* zero (the CHECK_EQs of the destructor).
TypeInv ==
  /\ state \in {-1} \union Nat
  /\ owner \in Threads \union {NoThread}
  /\ pendingReaders \in Nat /\ pendingWriters \in Nat
  /\ queue \in SUBSET Threads
  /\ pc \in [Threads -> Pc]
  /\ curState \in [Threads -> {-1} \union Nat]
  /\ timed \in [Threads -> BOOLEAN]
  /\ opsLeft \in Nat

\* state_ says who holds the mutex: -1 one writer, n readers and no writer;
\* GetExclusiveOwnerTid names the writer as soon as the lock call returns.
StateExact ==
  /\ state = IF Writers = {} THEN Cardinality(Readers) ELSE -1
  /\ Writers # {} => Readers = {} /\ Cardinality(Writers) = 1
  /\ \A t \in Threads : pc[t] = "writing" => owner = t

\* num_pending_readers_ and num_pending_writers_ count the threads between the
\* increment and the decrement around their futex wait, on every way out of it:
\* an unlock never skips a wakeup.
PendingExact ==
  /\ pendingReaders = Cardinality({t \in Threads : pc[t] \in PendingReaderPcs})
  /\ pendingWriters = Cardinality({t \in Threads : pc[t] \in PendingWriterPcs})

\* No sleeper is forgotten: a thread asleep on a mutex it could have, a reader
\* also while other readers hold it, will be woken by a thread that has
\* unlocked and has not yet looked at the pending counts or woken all.
NoLostSleeper ==
  \A t \in queue :
    state = 0 \/ (pc[t] = "sharedAsleep" /\ state > 0) =>
      \E u \in Threads : pc[u] \in UnlockedPcs

Lock == INSTANCE SharedLock WITH readers <- Readers, writers <- Writers

\* The futex code implements a lock that is shared or exclusive.
ImplementsSharedLock == Lock!Spec

\* Every call returns: a thread that asks for the mutex gets it, or times out.
\* Callers make finitely many calls and unlock in the end (a writer starves
\* behind readers that never stop coming), so that there comes a time when
\* every call has returned.
EveryCallReturns ==
  []<>(\A t \in Threads : pc[t] \in {"idle", "reading", "writing"})

-----------------------------------------------------------------------------
(***************************************************************************)
(* The inductive invariant.                                                *)
(***************************************************************************)

\* The kernel's queue holds exactly the threads that sleep.
QueueInv ==
  \A t \in Threads : t \in queue <=> pc[t] \in {"asleep", "sharedAsleep"}

\* A thread about to sleep has seen the mutex taken.
SeenInv ==
  \A t \in Threads :
    /\ pc[t] \in {"sharedContend", "sharedFutexWait"} => curState[t] = -1
    /\ pc[t] \in {"contend", "futexWait"} => curState[t] # 0

\* The unlocking threads that will still wake a sleeping reader, or writer: they
\* have not yet found the count of its kind to be zero.
WakesReaders(u) == pc[u] \in UnlockedPcs \ {"load2"}
WakesWriters(u) == pc[u] \in UnlockedPcs \ {"sharedLoad2"}

WakerInv ==
  \A t \in Threads :
    /\ pc[t] = "sharedAsleep" /\ state >= 0 => \E u \in Threads : WakesReaders(u)
    /\ pc[t] = "asleep" /\ state = 0 => \E u \in Threads : WakesWriters(u)

\* The inductive invariant of the reader-writer mutex: the state word, the two
\* pending counts and the kernel's queue agree at every step, and a sleeper on a
\* mutex it could have has a thread that will wake it.
IInv ==
  /\ TypeInv /\ StateExact /\ PendingExact
  /\ QueueInv /\ SeenInv /\ WakerInv
=============================================================================
