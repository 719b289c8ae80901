# Specifications of the Android Runtime

TLA+ specifications of the concurrent core of ART, the TLC configurations that
check them on small instances, and machine-checked proofs of their safety
properties for instances of every size.  All paths below are relative to `src/`.

## The system

The runtime executes managed code on many threads.  A garbage collector, a
debugger, a monitor being inflated, a stack dump or a class redefinition needs
some or all of these threads to stand still, or to do something at a safe point.
The parts are:

| part | source | state | operations | interacts with |
|---|---|---|---|---|
| thread states | `runtime/thread.{h,cc}`, `thread-inl.h` | `state_and_flags`, suspend count, suspend barriers, checkpoint queue, flip function | leave and enter kRunnable, suspend check, run checkpoints | everything |
| thread list | `runtime/thread_list.cc` | `list_`, `suspend_all_count_`, `unregistering_count_` | suspend and resume all or one, attach, detach | thread states, mutator lock |
| checkpoints | `thread_list.cc`, `thread.cc`, `barrier.cc` | closures queued on threads, barriers, the empty-checkpoint barrier | run a closure on all threads, on one thread, or just make all runnable threads pass | thread states, thread list |
| thread flip | `thread_list.cc`, `gc/heap.cc`, `gc/collector/concurrent_copying.cc` | flip functions, `thread_flip_running_`, `disable_thread_flip_count_` | flip thread roots, enter and leave JNI critical sections | suspension of all threads, checkpoints |
| mutex and condition variable | `base/mutex.{h,cc}` | `state_`, `num_contenders_`, `exclusive_owner_`, `recursion_count_`, `sequence_`, `num_waiters_`, the kernel's futex queues | lock, try lock, unlock, wait, timed wait, signal, broadcast, wakeup for empty checkpoints | everything that locks; empty checkpoints |
| reader-writer mutex | `base/mutex.{h,cc}`, `mutex-inl.h` | `state_`, the two pending counts, the futex queue | shared and exclusive lock, try lock, lock with timeout, unlock | the mutator lock is one |
| thread pool | `thread_pool.cc`, `barrier.cc` | task queue, `waiting_count_`, `max_active_workers_`, `started_`, `shutting_down_` | add and remove tasks, start, stop, limit, wait, destroy | built on mutex and condition variable |

What makes it hard: a thread changes its state with a compare-and-set while
others, holding locks it does not take, change the flags in the same word;
requests are counted, and every one must be answered exactly once although a
thread may answer for itself or be answered for; a thread may attach or detach
in the middle of any of this; requests that cannot be honoured are retried with
some locks held; waits end by futexes and condition variables that can wake up
spuriously or be signalled too early; suspensions of single threads can form
cycles.  The list of hazards with their lines is in `PROJECT.json`.

## Thread suspension

### Modules

* `ThreadTransitions` – one thread: the word of state and flags, `suspendCount`,
  `barriers` (the `pending_threads` counters the thread has to decrement),
  `checkpoints`, `flipFunction`; the steps of TransitionFromRunnableToSuspended
  and TransitionFromSuspendedToRunnable, PassActiveSuspendBarriers,
  RunCheckpointFunction, RunEmptyCheckpoint; ModifySuspendCount as operators.
* `ThreadListSuspend` – SuspendAll/ResumeAll, SuspendThreadByThreadId/Resume,
  Register, Unregister.
* `ThreadListCheckpoint` – RunCheckpoint, RequestSynchronousCheckpoint,
  RunEmptyCheckpoint, and the barrier their caller waits on.
* `ThreadListFlip` – FlipThreadRoots and the JNI critical counters.
* `ThreadSuspension` – the composition: which thread may do what, Next, the
  fairness, the properties.
* `ThreadSuspensionInv` – the inductive invariant and the grouping of the steps
  of Next that the proofs follow.
* `MCThreadSuspension` – the instances.

`pc[t]` is the position of thread t in its own transitions, `op[s]` the position
of s in an operation of ThreadList, with `todo`, `raised` and `current` as the
local variables of that operation.  One step is one atomic access to the state
word, one critical section that nobody can observe half-way, or one iteration of
a loop whose body other threads can interleave with; where a lock is held across
steps (`countLock`, `listLock`, `mutatorWriter`) it is a variable.  The mutator
lock is not owned by runnable threads, as in the code.

RunCheckpoint and RunEmptyCheckpoint hold both locks over their loops, but neither
lock keeps a thread without a suspend request from changing its state, so each
iteration is a step.  The iteration of RunCheckpoint for a suspended thread is two:
the test of the state (CheckpointTargetNotRunnable) and the raise of the count
(CheckpointSuspendedThread).  The thread may be runnable again in between; that
is why the code waits for IsSuspended before it runs the closure (CheckpointOther).
RequestSynchronousCheckpoint has the same two steps (SyncTargetNotRunnable,
SyncRaise); it is modelled for a target other than the caller that is still
attached.

States of a thread that the code treats alike are one state (`Native` stands for
kNative, kWaiting, kWaitingForCheckPointsToRun, kBlocked …).  A closure is
identified with the thread that requested it, a barrier with the thread that
waits for it.  Sleeps, timeouts and polls are nondeterministic.  Memory is
sequentially consistent.

The definitions headed "Variant with a defect" are not part of the model: they
are what the definition after them would be if the code had a plausible bug, and
each property is known to fail with one of them.

### Runs

| run | instance | what it shows |
|---|---|---|
| suspend | threads a, b, s1; a and s1 suspend all, a and b suspend by id, b detaches and attaches again | MutatorExclusion, exact suspend counts and barriers, a held thread stays attached and suspended, no cycles among suspensions by id, no lost resume |
| checkpoint | a RunCheckpoint, a synchronous checkpoint, an empty checkpoint or a SuspendAll | a closure runs once per counted thread, and a thread it is run for by another one is suspended then (HeldThreadsStaySuspended); empty checkpoints are answered before they return; both inductive invariants hold |
| flip | two flips, suspensions by id, nested JNI critical sections | nobody runs unflipped; no flip inside a critical section; a thread that is also suspended by id stays suspended when the flip lets it go; requests against threads with a pending flip function are retried safely |
| suspend_live | two threads suspending each other and a third by id | every call returns, every suspended thread runs again |
| checkpoint_live | two flips against two of: RunCheckpoint, empty checkpoint, synchronous checkpoint, SuspendAll | checkpoints and SuspendAlls complete |
| sync_cycle | two threads requesting synchronous checkpoints of each other | a violation: see Findings |
| full_barriers | two suspenders, one barrier slot, one suspension by id | a violation: see Findings |

Bounds.  `MaxOps` bounds the operations a thread begins; state changes between
managed and native code are unbounded.  Three threads give every pair of operations a
third party that is the target of both; the liveness runs are smaller.
`kMaxSuspendBarriers` is 3 in the code and at least the number of simultaneous
suspenders in the runs that pass; `full_barriers` sets it to 1 so that two
suspenders are enough to fill the array.  The proofs cover every value.

Fairness.  `WF(Progress(t))`: a thread that is inside a transition or an
operation is scheduled again, and managed code reaches suspend points (compiled
code and the interpreter poll the flags).  Leaving kRunnable for native code,
coming back, and beginning an operation are choices and not fair.  `SF` on
Resume: between SuspendThreadByThreadId and Resume the caller may pass through
suspended states any number of times, but its code comes to the call of Resume.

### Proofs

For every finite set of threads, every `kMaxSuspendBarriers` >= 1, every `MaxOps`
and every assignment of roles with at most one flipper (the ASSUMEs of the
modules; the heap serialises collections):

| theorem of `ThreadSuspensionProofs` | property |
|---|---|
| `Invariance`, `FurtherInvariance` | the inductive invariants `IInv` and `FurtherInv` |
| `TypesAreKept` | TypeOK: no count goes below zero |
| `SuspendCountsAreExact`, `SuspendBarriersAreExact` | counts and `pending_threads` are exact |
| `SuspendAllStopsTheWorld` | MutatorExclusion |
| `HeldThreadsAreSuspended` | a held thread stays attached and suspended |
| `SuspensionsByIdAreAcyclic` | NoByIdCycle |
| `ResumptionsAreNotLost` | NoLostResume |
| `ThreadsAreFlippedBeforeTheyRun`, `NoCriticalSectionDuringAFlip` | FlippedBeforeRunning, NoFlipInCritical |
| `CheckpointsRunOnce`, `EmptyCheckpointsAreAnswered` | the barriers of checkpoints and empty checkpoints are exact |

MutatorExclusion is not inductive.  That no thread is runnable when
`pending_threads` is zero follows from SuspendBarrierExact (the counter counts
threads still to be asked and threads that hold a pointer to it) together with
AskedInv (a thread that was asked and is runnable holds such a pointer).  That
an asked thread cannot become runnable again follows from FlagInv and
SuspendCountExact (its count is positive as long as the suspender has not
lowered it, so its flag is set and the compare-and-set of the fast path fails).
These need LockInv (who may change counts and the list now), TodoInv and
RaisedInv (which threads an operation has raised and has yet to visit) and
StateInv (where a thread is when its word says what it says).  Their conjunction
is `IInv`.

`FurtherInv` is inductive relative to `IInv`, and the other properties follow
from the two:

* HeldInv: the threads an operation has raised and seen suspended are not
  runnable.  They cannot become so because their count is positive
  (RequestInv, a consequence of SuspendCountExact and FlagInv), and they stay
  attached because Unregister waits for a zero count.
* NoByIdCycle is itself inductive once the only step that adds an edge is seen
  to start from a thread with a zero suspend count (ByIdRequest's test of its own
  count; RetryInv for the retries under `thread_list_lock_`): the new edge starts
  at a thread that no edge reaches.
* NoLostResume: a thread goes to sleep only with its flag raised, and a flag is
  lowered only by a step after which its operation is about to broadcast.
* FlipInv: a thread with a pending flip function is held by the flipper, which
  has it in its list, or is on its way to kRunnable and will run the function
  itself.  CriticalInv: `disable_thread_flip_count_` is the number of threads
  inside critical sections, and is zero from ThreadFlipBegin on.
* EmptyInv and ClosureInv: Barrier::Increment may come after answers, so that the
  barrier goes below zero first; what is invariant is that the barrier plus what
  the requester has yet to add is the number of threads that have yet to run the
  closure.  For RunCheckpoint these are the threads with the closure in their
  queue and the threads its loop has not reached or has raised, which are
  disjoint from each other and from the threads that have run it.  A thread
  between the test of its state and the raise of its count is still among those
  the loop has not reached, whatever its state has become.

The proofs go step by step through the groups of actions in
`ThreadSuspensionInv`: `ThreadSuspensionTypes` (types, counters, states, positions
and locks), `ThreadSuspensionLocals` (the local variables of the operations),
`ThreadSuspensionCounts` (suspend counts, barriers and flags) and
`ThreadSuspensionFurther` (FurtherInv), each assuming the other parts in the old
state; `ThreadSuspensionProofs` puts them together.

Only model-checked: liveness (SuspensionsByIdComplete, SuspendedThreadsResume,
CheckpointsComplete, SuspendAllCompletes), because fairness and ENABLED are out of
the prover's reach.  NoSuspendCycle and RetriesSucceed do not hold (Findings).

## Locks

### Modules

* `FutexMutex` – Mutex and ConditionVariable on futexes: one mutex, the condition
  variable it guards, the threads that use both, and RunEmptyCheckpoint, called by
  `Collector`.  `pc[t]` is a thread's
  position; `mutexQueue` and `condQueue` are the kernel's queues (external:
  FUTEX_WAIT sleeps only if the word has the expected value, FUTEX_WAKE wakes one
  sleeper or all, FUTEX_CMP_REQUEUE moves them).  With `ReorderLoads` the load of
  `num_contenders_` in ExclusiveUnlock may be performed before the store of the
  compare-and-set in front of it.
* `GuardedCondition` – what the comments of `mutex.h` promise: one holder, a wait
  that releases and starts to wait in one step, a Signal that ends at least one
  wait if there is one, a Broadcast that ends all.
* `ReaderWriterMutex` – the same kind of model of ReaderWriterMutex, with
  ExclusiveLockWithTimeout; `SharedLock` is its abstract specification.

One action is one access to a shared word or one system call.  A compare-and-set
that fails is a stuttering step.

Empty checkpoints know two kinds of mutexes, told apart by `responds`
(`should_respond_to_empty_checkpoint_request_`, fixed at the start):

* A mutex that guards weak references, whose condition variable threads wait on in
  kRunnable until the collector allows access again.  Before each wait such a
  thread looks for the request (CheckEmptyCheckpointFromWeakRefAccess); a thread
  that already waits does not.  RunEmptyCheckpoint therefore locks the mutex,
  broadcasts and unlocks (`requester` "lock", BroadcastForNewSystemWeaks,
  BroadcastDone), with the steps that every other caller of these operations takes.
* A mutex that a thread may hold while it waits for access to weak references
  (`expected_mutexes_on_weak_ref_access_`).  Its contenders answer from inside
  ExclusiveLock (CheckEmptyCheckpointFromMutex), after
  WakeupToRespondToEmptyCheckpoint, which is repeated when the barrier times out.

Any set of threads but the collector may be asked, wherever in the lock or in a
wait they are.

### Runs

| run | instance | what it shows |
|---|---|---|
| mutex | three threads, a recursive mutex, six calls, loads reordered | exact owner and recursion count, exact contender and waiter counts, the inductive invariant, FutexMutex implements GuardedCondition |
| mutex_live | three threads, five calls, one empty checkpoint by one of them, a mutex of either kind, loads in program order | no contender is lost, every thread that asks gets the mutex, the empty checkpoint ends |
| mutex_reorder | two threads, loads reordered | a violation: see Findings |
| rw_mutex | three threads, six calls | `state_`, owner and pending counts are exact, no sleeper is forgotten, the inductive invariant, ReaderWriterMutex implements SharedLock, every call returns |

Bounds.  `MaxOps` bounds the calls of all threads together.  Five or six calls of
three threads give each lost-wakeup scenario its parts: a holder that unlocks, a
sleeper, and a third thread that takes the lock in between or waits as well.
Deadlock is not checked, since the threads stop when their calls are used up; that
nobody stops too early is what the liveness properties say.

Fairness.  The scheduler runs every thread that is not asleep in the kernel, and a
holder unlocks in the end, except that a holder of a mutex of the second kind may
wait for the end of an empty checkpoint first.  Barrier::Increment of
RunEmptyCheckpoint returns, on a timeout if need be, and is tried again.  Calling
again, spurious wakeups and timeouts of waits are not fair.  EmptyCheckpointEnds
fails without the broadcast, which leaves a waiter asleep with the request, and
without the repeated wakeup, which a contender can miss between its check and the
futex wait.

### Proofs

`FutexMutexProofs`, for every finite set of threads, recursive or not, with loads
in order or not, any number of calls and empty checkpoints: `Invariance`,
`TypeCorrect`, `OwnerIsExact`, `CountsAreExact`, `NoContenderIsLost` (for loads in
program order) and `Refinement` (`Spec => Condition!Spec`).  The inductive
invariant adds to the properties: HolderInv and RecursionInv (what the fields hold
at every position inside a lock, an unlock or a wait), WaitInv and QueueInv (who
can be asleep where), and SequenceInv – `sequence_` changes under the mutex only,
so that a waiter that has released the mutex and still agrees with `sequence_` has
not been signalled, and once a Signal has raised it no thread about to sleep does.
That is what makes release-and-wait atomic: in the refinement a thread is in the
wait set from the compare-and-set of its unlock on, as long as its `cur_sequence`
is the current one.

NoLostContender is in the invariant as it stands: a contender counts
itself before it sleeps, so that the unlock after it sees the count, and FUTEX_WAIT
does not sleep on a word that has changed.

`ReaderWriterMutexProofs`, for every finite set of threads and any number of
calls: `Invariance`, `TypeCorrect`, `StateIsExact`, `PendingCountsAreExact`,
`NoSleeperIsLost` and `Refinement` (`Spec => Lock!Spec`).  NoLostSleeper is not
inductive, because a thread that has unlocked looks at two counts one after the
other and may have found the first to be zero before the sleeper counted itself.
WakerInv says which unlocking threads will still wake a reader and which a writer;
PendingExact then gives the step from a load that sees a count to the wakeup, and
SeenInv (what the value a sleeper expects can be) covers the futex wait.

Liveness (NoThreadLeftAsleep, EmptyCheckpointEnds, EveryCallReturns) is
model-checked only.

## Thread pool

`ThreadPool` models the constructor with its creation barrier, the workers'
loop (GetTask, Run), AddTask, which tasks may call too, RemoveAllTasks,
StartWorkers, StopWorkers, SetMaxActiveWorkers, Wait with `do_work` and the
destructor.  `task_queue_lock_` guards all members, so one action is one critical
section; the condition variables behave as in GuardedCondition, spurious wakeups
included.

The run `thread_pool` has three workers, two clients, two tasks and three calls of
clients besides AddTask.  Three workers are the least for which one sleeps, one
runs and one is on its way; two clients let a Wait of one meet a Stop, a Remove,
another Wait or the destructor of the other.  It checks that no task of a started
pool is stranded, MaxActiveRespected and WaitWaits (action properties), that Wait
and the destructor return and that tasks are run in the end.  Fairness: threads
run, tasks end, and a thread woken gets the lock (NoThreadLeftAsleep of
FutexMutex); calls are not fair.

`ThreadPoolProofs`, for every finite set of workers, any clients and any number of
tasks and calls: `Invariance`, `TypeCorrect`, `NoTaskIsStranded`,
`MaxActiveIsRespected` and `WaitDoesWait`.  The set of workers may be empty: the
compiler driver makes such pools, and its caller of Wait runs the tasks itself.
Only NoStrandedTask speaks of pools with workers, since without any a queued task
stays until somebody waits.  SetMaxActiveWorkers is called with at least 1, as all
its callers do, and never on a pool without workers.  The inductive invariant is
NoStrandedTask with WaitingExact (`waiting_count_` is the number of workers in the
wait of GetTask, the woken ones included), BarrierExact (the creation barrier) and
WaitedForExists (a task somebody waits for is queued or run).  NoStrandedTask is
preserved by GetTaskWaits because a worker that goes to sleep with a task in the
queue does so only for `max_active_workers_` >= 1 other workers that do not sleep;
this is where WaitingExact is needed.  WaitWaits follows because Wait returns when
`waiting_count_` is the number of workers, so that none runs a task.  WaitEnds,
TasksAreRun and DestructorReturns are model-checked only.


## Findings

* `sync_cycle`: two RequestSynchronousCheckpoint calls can leave two threads
  suspended by each other.  `Thread::RequestSynchronousCheckpoint` looks at the
  target's state and raises its suspend count in two critical sections and never
  looks at its own count, unlike SuspendThreadByThreadId.
* `full_barriers`: the retry of a suspend request on a thread with no free
  barrier slot keeps `thread_list_lock_`, which the thread may be waiting for.
  It needs `kMaxSuspendBarriers + 1` simultaneous suspenders.
* `mutex_reorder`: a comment in Mutex::ExclusiveUnlock says that the relaxed load
  of `num_contenders_` must not be reordered before the compare-and-set, and
  nothing in the code orders the load after the store part of the
  compare-and-set.  If it is performed earlier, a contender can fall asleep on a
  free mutex with nobody left to wake it.  All other safety properties of the
  mutex hold with and without the reordering (the run `mutex` and the proofs).

The comments of SuspendThreadByThreadId and SuspendThreadByPeer ask for a lock
(`thread_list_suspend_thread_lock_`) that the repository does not have; the runs
`suspend` and `suspend_live` show that the protocol is free of cycles and
completes without it, and SuspensionsByIdAreAcyclic proves the first for any
number of threads.

## Not modelled

* Debugger suspension (SuspendAllForDebugger and its relatives), shutdown of
  daemon threads, SuspendThreadByPeer (the same control as by id),
  RunCheckpointOnRunnableThreads (RunCheckpoint without its second half),
  VisitRootsForSuspendedThreads.
* Memory orderings weaker than sequential consistency, other than the one load of
  Mutex::ExclusiveUnlock; ReaderWriterMutex has the same pattern, which its model
  keeps in program order.
* Of the locks: the pthread variant, lock levels and the record of held mutexes,
  contention logging, what TimedWait returns, SleepForever once the runtime is
  gone, and the response of ReaderWriterMutex to empty checkpoints (the code is
  that of Mutex, where it is modelled).  The overflow of `sequence_` and of the
  counts.
* The compiler, the interpreter, the verifier, dex, oat and image files, JDWP,
  JVMTI and the tools: transformations of data and I/O, without small instances
  that would tell anything, or outside what TLC can enumerate.
