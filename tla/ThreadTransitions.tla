-------------------------- MODULE ThreadTransitions --------------------------
(***************************************************************************)
(* The per-thread half of thread suspension (runtime/thread.cc,            *)
(* runtime/thread-inl.h): the state_and_flags word, the suspend count, the *)
(* suspend barriers, the checkpoint queue, the flip function, and the      *)
(* steps by which a thread leaves and re-enters kRunnable.                 *)
(*                                                                         *)
(* Every word that the code reads and writes with one atomic instruction   *)
(* is read and written in one step here.  A critical section of            *)
(* thread_suspend_count_lock_ that no lock-free step of another thread can *)
(* observe half-way is one step too; countLock is held from one step to    *)
(* the next where such a step exists.                                      *)
(***************************************************************************)
EXTENDS Integers, FiniteSets, Sequences

CONSTANTS
  Threads,              \* the Thread objects (identified with their thread ids)
  NoThread,             \* null
  kMaxSuspendBarriers   \* Thread::kMaxSuspendBarriers

ASSUME ThreadsAssumption ==
  /\ IsFiniteSet(Threads)
  /\ NoThread \notin Threads

ASSUME BarriersAssumption == kMaxSuspendBarriers \in Nat \ {0}

VARIABLES
  state,          \* tls32_.state_and_flags.as_struct.state
  flags,          \* tls32_.state_and_flags.as_struct.flags
  suspendCount,   \* tls32_.suspend_count
  barriers,       \* tlsPtr_.active_suspend_barriers: the suspenders waiting
  checkpoints,    \* tlsPtr_.checkpoint_function, then checkpoint_overflow_
  flipFunction,   \* tlsPtr_.flip_function # nullptr
  transitioning,  \* tls32_.is_transitioning_to_runnable
  pc,             \* where the thread is in its own state transitions
  claimed,        \* pass_barriers: barriers taken but not yet decremented
  pending,        \* pending_threads of the suspender's SuspendAllInternal
  closureBarrier, \* count_ of the Barrier a requester's closure passes
  ranOn,          \* the threads a requester's closure has run on
  emptyBarrier,   \* count_ of ThreadList::empty_checkpoint_barrier_
  countLock,      \* owner of Locks::thread_suspend_count_lock_
  resumeWaiters   \* threads asleep in Thread::resume_cond_->Wait

wordVars       == <<state, flags>>
countVars      == <<suspendCount, barriers>>
checkpointVars == <<checkpoints, closureBarrier, ranOn, emptyBarrier>>
flipVars       == <<flipFunction, transitioning>>
passVars       == <<claimed, pending>>
transitionVars == <<wordVars, countVars, checkpointVars, flipVars, passVars,
                    pc, countLock, resumeWaiters>>

ThreadFlag == {"SuspendRequest", "CheckpointRequest", "EmptyCheckpointRequest",
               "ActiveSuspendBarrier"}

\* Of the ThreadState values, those the suspension code tells apart: kRunnable,
\* kSuspended (a thread in FullSuspendCheck, which comes straight back),
\* kWaitingForGcThreadFlip, and one name for every other suspended state.
ThreadState == {"Runnable", "Suspended", "WaitingForGcThreadFlip", "Native"}

\* "running" and "suspended" are the resting places; the others are the
\* insides of TransitionFromRunnableToSuspended and
\* TransitionFromSuspendedToRunnable.
Pc == {"unborn", "running", "passBarriers", "suspended", "toRunnable",
       "waitResume", "runFlip"}

\* Variant with a defect: a thread still runnable counts as suspended.
IsSuspendedByFlag(t) == "SuspendRequest" \in flags[t]

IsSuspended(t) == state[t] # "Runnable" /\ "SuspendRequest" \in flags[t]

-----------------------------------------------------------------------------
(***************************************************************************)
(* ModifySuspendCountInternal.                                             *)
(***************************************************************************)

\* The two ways a request to suspend t fails and has to be retried: t has yet
\* to run its flip function, or t has no room for one more suspend barrier.
CanSuspend(self, t, barrier) ==
  /\ t # self => ~flipFunction[t]
  /\ barrier # NoThread => Cardinality(barriers[t]) < kMaxSuspendBarriers

\* delta = +1, from a requester that may pass its pending_threads counter.
RaiseSuspendCount(t, barrier) ==
  /\ suspendCount' = [suspendCount EXCEPT ![t] = @ + 1]
  /\ barriers' = [barriers EXCEPT ![t] = @ \union ({barrier} \ {NoThread})]
  /\ flags' = [flags EXCEPT ![t] = @ \union {"SuspendRequest"} \union
                 (IF barrier = NoThread THEN {} ELSE {"ActiveSuspendBarrier"})]

\* delta = -1 on each of the threads of a set, in one critical section.
LowerSuspendCounts(S) ==
  /\ suspendCount' = [t \in Threads |-> IF t \in S THEN suspendCount[t] - 1
                                                   ELSE suspendCount[t]]
  /\ flags' = [t \in Threads |-> IF t \in S /\ suspendCount[t] = 1
                                   THEN flags[t] \ {"SuspendRequest"}
                                   ELSE flags[t]]
  /\ UNCHANGED barriers

\* Variant with a defect: only the flag is cleared.
ClearSuspendBarrierFlag(t, barrier) ==
  /\ UNCHANGED barriers
  /\ flags' = [flags EXCEPT ![t] = IF barriers[t] \ {barrier} = {}
                                     THEN @ \ {"ActiveSuspendBarrier"} ELSE @]

ClearSuspendBarrier(t, barrier) ==
  /\ barriers' = [barriers EXCEPT ![t] = @ \ {barrier}]
  /\ flags' = [flags EXCEPT ![t] = IF barriers[t] \ {barrier} = {}
                                     THEN @ \ {"ActiveSuspendBarrier"} ELSE @]

-----------------------------------------------------------------------------
(***************************************************************************)
(* Checkpoints.  A closure is identified with the thread that requested    *)
(* it; running it passes that requester's barrier.  A thread dump is a     *)
(* closure that also runs a pending flip function (Thread::DumpState).     *)
(***************************************************************************)

RunClosure(requester, t) ==
  /\ ranOn' = [ranOn EXCEPT ![requester] = @ \union {t}]
  /\ closureBarrier' = [closureBarrier EXCEPT ![requester] = @ - 1]
  /\ UNCHANGED flipFunction \/ flipFunction' = [flipFunction EXCEPT ![t] = FALSE]

\* Variant with a defect: the closure stays in the queue.
RunCheckpointFunctionAgain(t) ==
  /\ pc[t] = "running"
  /\ "CheckpointRequest" \in flags[t]
  /\ countLock = NoThread
  /\ checkpoints[t] # << >>
  /\ UNCHANGED checkpoints
  /\ flags' = [flags EXCEPT ![t] = IF Len(checkpoints[t]) = 1
                                     THEN @ \ {"CheckpointRequest"} ELSE @]
  /\ RunClosure(Head(checkpoints[t]), t)
  /\ UNCHANGED <<state, countVars, emptyBarrier, transitioning, passVars, pc,
                 countLock, resumeWaiters>>

RunCheckpointFunction(t) ==
  /\ pc[t] = "running"
  /\ "CheckpointRequest" \in flags[t]
  /\ countLock = NoThread
  /\ checkpoints[t] # << >>
  /\ checkpoints' = [checkpoints EXCEPT ![t] = Tail(@)]
  /\ flags' = [flags EXCEPT ![t] = IF Len(checkpoints[t]) = 1
                                     THEN @ \ {"CheckpointRequest"} ELSE @]
  /\ RunClosure(Head(checkpoints[t]), t)
  /\ UNCHANGED <<state, countVars, emptyBarrier, transitioning, passVars, pc,
                 countLock, resumeWaiters>>

\* Variant with a defect: the barrier is not passed.
RunEmptyCheckpointSilently(t) ==
  /\ pc[t] = "running"
  /\ "EmptyCheckpointRequest" \in flags[t]
  /\ flags' = [flags EXCEPT ![t] = @ \ {"EmptyCheckpointRequest"}]
  /\ UNCHANGED emptyBarrier
  /\ UNCHANGED <<state, countVars, checkpoints, closureBarrier, ranOn, flipVars,
                 passVars, pc, countLock, resumeWaiters>>

\* Clears the flag, then passes the barrier that RunEmptyCheckpoint waits for.
RunEmptyCheckpoint(t) ==
  /\ pc[t] = "running"
  /\ "EmptyCheckpointRequest" \in flags[t]
  /\ flags' = [flags EXCEPT ![t] = @ \ {"EmptyCheckpointRequest"}]
  /\ emptyBarrier' = emptyBarrier - 1
  /\ UNCHANGED <<state, countVars, checkpoints, closureBarrier, ranOn, flipVars,
                 passVars, pc, countLock, resumeWaiters>>

-----------------------------------------------------------------------------
(***************************************************************************)
(* kRunnable -> suspended.                                                 *)
(***************************************************************************)

\* The compare-and-set of TransitionToSuspendedAndRunCheckpoints: it succeeds
\* only from a word with neither checkpoint flag.
TransitionToSuspendedAndRunCheckpoints(t, newState) ==
  /\ pc[t] = "running"
  /\ flags[t] \intersect {"CheckpointRequest", "EmptyCheckpointRequest"} = {}
  /\ state' = [state EXCEPT ![t] = newState]
  /\ pc' = [pc EXCEPT ![t] = "passBarriers"]
  /\ UNCHANGED <<flags, countVars, checkpointVars, flipVars, passVars,
                 countLock, resumeWaiters>>

\* PassActiveSuspendBarriers(self), under thread_suspend_count_lock_.
ClaimSuspendBarriers(t) ==
  /\ pc[t] \in {"passBarriers", "toRunnable"}
  /\ claimed[t] = {}
  /\ "ActiveSuspendBarrier" \in flags[t]
  /\ countLock = NoThread
  /\ claimed' = [claimed EXCEPT ![t] = barriers[t]]
  /\ barriers' = [barriers EXCEPT ![t] = {}]
  /\ flags' = [flags EXCEPT ![t] = @ \ {"ActiveSuspendBarrier"}]
  /\ UNCHANGED <<state, suspendCount, checkpointVars, flipVars, pending, pc,
                 countLock, resumeWaiters>>

\* PassActiveSuspendBarriers(self), after the lock: one counter at a time.
PassSuspendBarrier(t, b) ==
  /\ b \in claimed[t]
  /\ claimed' = [claimed EXCEPT ![t] = @ \ {b}]
  /\ pending' = [pending EXCEPT ![b] = @ - 1]
  /\ UNCHANGED <<wordVars, countVars, checkpointVars, flipVars, pc, countLock,
                 resumeWaiters>>

\* Variant with a defect: a barrier that arrives late is left.
FinishTransitionUnchecked(t) ==
  /\ pc[t] = "passBarriers"
  /\ claimed[t] = {}
  /\ pc' = [pc EXCEPT ![t] = "suspended"]
  /\ UNCHANGED <<wordVars, countVars, checkpointVars, flipVars, passVars,
                 countLock, resumeWaiters>>

\* The exit of the loop in PassActiveSuspendBarriers().
FinishTransitionToSuspended(t) ==
  /\ pc[t] = "passBarriers"
  /\ claimed[t] = {}
  /\ "ActiveSuspendBarrier" \notin flags[t]
  /\ pc' = [pc EXCEPT ![t] = "suspended"]
  /\ UNCHANGED <<wordVars, countVars, checkpointVars, flipVars, passVars,
                 countLock, resumeWaiters>>

-----------------------------------------------------------------------------
(***************************************************************************)
(* Suspended -> kRunnable: the loop of TransitionFromSuspendedToRunnable.  *)
(***************************************************************************)

EnterTransitionToRunnable(t) ==
  /\ pc[t] = "suspended"
  /\ pc' = [pc EXCEPT ![t] = "toRunnable"]
  /\ UNCHANGED <<wordVars, countVars, checkpointVars, flipVars, passVars,
                 countLock, resumeWaiters>>

\* Variant with a defect: the flip function is not looked for.
BecomeRunnableUnflipped(t) ==
  /\ pc[t] = "toRunnable"
  /\ claimed[t] = {}
  /\ flags[t] = {}
  /\ state' = [state EXCEPT ![t] = "Runnable"]
  /\ pc' = [pc EXCEPT ![t] = "running"]
  /\ UNCHANGED <<flags, countVars, checkpointVars, flipVars, passVars,
                 countLock, resumeWaiters>>

\* The fast path: compare-and-set from a word with no flag.
BecomeRunnable(t) ==
  /\ pc[t] = "toRunnable"
  /\ claimed[t] = {}
  /\ flags[t] = {}
  /\ state' = [state EXCEPT ![t] = "Runnable"]
  /\ pc' = [pc EXCEPT ![t] = "runFlip"]
  /\ UNCHANGED <<flags, countVars, checkpointVars, flipVars, passVars,
                 countLock, resumeWaiters>>

\* kSuspendRequest: take the lock, announce the transition, sleep.
WaitForResume(t) ==
  /\ pc[t] = "toRunnable"
  /\ claimed[t] = {}
  /\ "SuspendRequest" \in flags[t]
  /\ "ActiveSuspendBarrier" \notin flags[t]
  /\ countLock = NoThread
  /\ transitioning' = [transitioning EXCEPT ![t] = TRUE]
  /\ resumeWaiters' = resumeWaiters \union {t}
  /\ pc' = [pc EXCEPT ![t] = "waitResume"]
  /\ UNCHANGED <<wordVars, countVars, checkpointVars, flipFunction, passVars,
                 countLock>>

\* The futex wait of resume_cond_ may return without a broadcast.
SpuriousWakeup(t) ==
  /\ t \in resumeWaiters
  /\ resumeWaiters' = resumeWaiters \ {t}
  /\ UNCHANGED <<wordVars, countVars, checkpointVars, flipVars, passVars, pc,
                 countLock>>

\* resume_cond_->Wait returns (t is no longer in resumeWaiters) and the flags
\* are read again: sleep on, or leave the lock.
ResumeCondNotified(t) ==
  /\ pc[t] = "waitResume"
  /\ t \notin resumeWaiters
  /\ countLock = NoThread
  /\ IF "SuspendRequest" \in flags[t]
       THEN /\ resumeWaiters' = resumeWaiters \union {t}
            /\ UNCHANGED <<transitioning, pc>>
       ELSE /\ transitioning' = [transitioning EXCEPT ![t] = FALSE]
            /\ pc' = [pc EXCEPT ![t] = "toRunnable"]
            /\ UNCHANGED resumeWaiters
  /\ UNCHANGED <<wordVars, countVars, checkpointVars, flipFunction, passVars,
                 countLock>>

\* GetFlipFunction and the run of what it returns, by the thread itself.
RunFlipFunction(t) ==
  /\ pc[t] = "runFlip"
  /\ flipFunction' = [flipFunction EXCEPT ![t] = FALSE]
  /\ pc' = [pc EXCEPT ![t] = "running"]
  /\ UNCHANGED <<wordVars, countVars, checkpointVars, transitioning, passVars,
                 countLock, resumeWaiters>>

\* Variant with a defect: nobody is woken.
BroadcastToNobody == UNCHANGED resumeWaiters

\* Thread::resume_cond_->Broadcast, under thread_suspend_count_lock_.
BroadcastResumeCond == resumeWaiters' = {}

=============================================================================
