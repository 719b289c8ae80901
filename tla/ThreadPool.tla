----------------------------- MODULE ThreadPool -----------------------------
(***************************************************************************)
(* ThreadPool and ThreadPoolWorker of runtime/thread_pool.cc, with the     *)
(* Barrier (runtime/barrier.cc) that its constructor waits on.             *)
(*                                                                         *)
(* The members are guarded by task_queue_lock_, so that one action is one  *)
(* critical section.  task_queue_condition_ and completion_condition_ do   *)
(* what GuardedCondition says: a wait ends at a signal, or for no reason,  *)
(* and then waits for the lock.                                            *)
(***************************************************************************)
EXTENDS Integers, Sequences, FiniteSets

CONSTANTS
  Workers,      \* threads_; there may be none, if clients run the tasks in Wait
  Clients,      \* the threads that use the pool
  Creator,      \* the client that constructs it
  CreatePeers,  \* create_peers_
  NoTask,
  MaxTasks,     \* bound: tasks ever added
  MaxOps        \* bound: calls of the clients, AddTask not counted

ASSUME PoolAssumption ==
  /\ IsFiniteSet(Workers) /\ Workers \intersect Clients = {}
  /\ Creator \in Clients /\ CreatePeers \in BOOLEAN
  /\ MaxTasks \in Nat /\ MaxOps \in Nat /\ NoTask \notin 1..MaxTasks

VARIABLES
  creationBarrier, \* count_ of creation_barier_
  started,         \* started_
  shuttingDown,    \* shutting_down_
  waitingCount,    \* waiting_count_
  maxActive,       \* max_active_workers_
  tasks,           \* tasks_
  pc,              \* what each thread does next
  running,         \* the task a thread runs
  added,           \* how many tasks have been added
  waitFor,         \* the unfinished tasks when a client called Wait
  opsLeft          \* calls left to the clients

poolVars == <<started, shuttingDown, waitingCount, maxActive, tasks>>
vars == <<creationBarrier, poolVars, pc, running, added, waitFor, opsLeft>>

Threads == Workers \union Clients
GetThreadCount == Cardinality(Workers)
HasOutstandingTasks == started /\ tasks # <<>>

WorkerPc == {"attach", "barrier", "getTask", "parked", "woken", "running",
             "exited"}
ClientPc == {"attach", "barrier", "idle", "tryGetTask", "running", "check",
             "completion", "join", "destroyed"}

Goto(p, l) == pc' = [pc EXCEPT ![p] = l]

Queued == {tasks[i] : i \in DOMAIN tasks}
RunByWorkers == {running[w] : w \in Workers} \ {NoTask}
RunByClients == {running[c] : c \in Clients} \ {NoTask}

Init ==
  /\ creationBarrier = GetThreadCount + 1
  /\ started = FALSE /\ shuttingDown = FALSE /\ waitingCount = 0
  /\ maxActive = GetThreadCount /\ tasks = <<>>
  /\ pc = [p \in Threads |->
             IF p \in Workers \union {Creator} THEN "attach" ELSE "idle"]
  /\ running = [p \in Threads |-> NoTask]
  /\ added = 0 /\ waitFor = [c \in Clients |-> {}] /\ opsLeft = MaxOps

-----------------------------------------------------------------------------
(***************************************************************************)
(* The condition variables, as changes of the program positions.           *)
(***************************************************************************)

\* pcs after task_queue_condition_.Broadcast.
TaskQueueBroadcast ==
  [p \in Threads |-> IF pc[p] = "parked" THEN "woken" ELSE pc[p]]

\* What pc' may be after task_queue_condition_.Signal.
TaskQueueSignal ==
  IF \E w \in Workers : pc[w] = "parked"
  THEN {[pc EXCEPT ![w] = "woken"] : w \in {v \in Workers : pc[v] = "parked"}}
  ELSE {pc}

\* completion_condition_.Broadcast, in a step that also takes p to l.
CompletionBroadcast(p, l) ==
  pc' = [q \in Threads |-> CASE q = p -> l
                             [] q # p /\ pc[q] = "completion" -> "check"
                             [] OTHER -> pc[q]]

SpuriousWakeup(p) ==
  /\ pc[p] \in {"parked", "completion"}
  /\ Goto(p, IF pc[p] = "parked" THEN "woken" ELSE "check")
  /\ UNCHANGED <<creationBarrier, poolVars, running, added, waitFor, opsLeft>>

-----------------------------------------------------------------------------
(***************************************************************************)
(* The constructor: every worker and the creator wait on creation_barier_. *)
(***************************************************************************)

BarrierWait(p) ==
  /\ pc[p] = "attach"
  /\ creationBarrier' = creationBarrier - 1
  /\ Goto(p, "barrier")
  /\ UNCHANGED <<poolVars, running, added, waitFor, opsLeft>>

BarrierPassed(p) ==
  /\ pc[p] = "barrier"
  /\ creationBarrier = 0
  /\ Goto(p, IF p \in Workers THEN "getTask" ELSE "idle")
  /\ UNCHANGED <<creationBarrier, poolVars, running, added, waitFor, opsLeft>>

-----------------------------------------------------------------------------
(***************************************************************************)
(* The calls of the clients.                                               *)
(***************************************************************************)

\* The pool is there: its constructor has returned, its destructor has not
\* been called.
PoolExists == pc[Creator] \notin {"attach", "barrier"} /\ ~shuttingDown

Call(c) ==
  /\ pc[c] = "idle" /\ PoolExists
  /\ opsLeft > 0
  /\ opsLeft' = opsLeft - 1

\* Variant with a defect: AddTask does not signal.
AddTaskQuiet(p) ==
  /\ pc[p] = "running" \/ (pc[p] = "idle" /\ PoolExists)
  /\ added < MaxTasks
  /\ added' = added + 1
  /\ tasks' = Append(tasks, added')
  /\ UNCHANGED <<creationBarrier, started, shuttingDown, waitingCount,
                 maxActive, pc, running, waitFor, opsLeft>>

\* A client adds a task, or a task adds another one.
AddTask(p) ==
  /\ pc[p] = "running" \/ (pc[p] = "idle" /\ PoolExists)
  /\ added < MaxTasks
  /\ added' = added + 1
  /\ tasks' = Append(tasks, added')
  /\ pc' \in IF started /\ waitingCount # 0 THEN TaskQueueSignal ELSE {pc}
  /\ UNCHANGED <<creationBarrier, started, shuttingDown, waitingCount,
                 maxActive, running, waitFor, opsLeft>>

RemoveAllTasks(c) ==
  /\ Call(c)
  /\ tasks' = <<>>
  /\ waitFor' = [d \in Clients |-> waitFor[d] \ Queued]
  /\ UNCHANGED <<creationBarrier, started, shuttingDown, waitingCount,
                 maxActive, pc, running, added>>

\* The callers, the garbage collectors, leave at least one worker.
SetMaxActiveWorkers(c) ==
  /\ Call(c)
  /\ maxActive' \in 1..GetThreadCount
  /\ UNCHANGED <<creationBarrier, started, shuttingDown, waitingCount, tasks,
                 pc, running, added, waitFor>>

\* Variant with a defect: StartWorkers does not broadcast.
StartWorkersQuiet(c) ==
  /\ Call(c)
  /\ started' = TRUE
  /\ UNCHANGED <<creationBarrier, shuttingDown, waitingCount, maxActive, tasks,
                 pc, running, added, waitFor>>

StartWorkers(c) ==
  /\ Call(c)
  /\ started' = TRUE
  /\ pc' = TaskQueueBroadcast
  /\ UNCHANGED <<creationBarrier, shuttingDown, waitingCount, maxActive, tasks,
                 running, added, waitFor>>

StopWorkers(c) ==
  /\ Call(c)
  /\ started' = FALSE
  /\ UNCHANGED <<creationBarrier, shuttingDown, waitingCount, maxActive, tasks,
                 pc, running, added, waitFor>>

-----------------------------------------------------------------------------
(***************************************************************************)
(* ThreadPool::Wait.                                                       *)
(***************************************************************************)

\* With do_work, which a pool with peers does not allow, or without.
Wait(c) ==
  /\ Call(c)
  /\ \/ ~CreatePeers /\ Goto(c, "tryGetTask")
     \/ Goto(c, "check")
  /\ waitFor' = [waitFor EXCEPT ![c] = Queued \union RunByWorkers]
  /\ UNCHANGED <<creationBarrier, poolVars, running, added>>

TryGetTask(c) ==
  /\ pc[c] = "tryGetTask"
  /\ \/ /\ HasOutstandingTasks
        /\ running' = [running EXCEPT ![c] = Head(tasks)]
        /\ tasks' = Tail(tasks)
        /\ Goto(c, "running")
     \/ /\ ~HasOutstandingTasks
        /\ UNCHANGED <<running, tasks>>
        /\ Goto(c, "check")
  /\ UNCHANGED <<creationBarrier, started, shuttingDown, waitingCount,
                 maxActive, added, waitFor, opsLeft>>

\* Variant with a defect: Wait looks at the queue only.
WaitMayReturnEmptyQueue == shuttingDown \/ ~HasOutstandingTasks

WaitMayReturn ==
  shuttingDown \/ (waitingCount = GetThreadCount /\ ~HasOutstandingTasks)

WaitReturns(c) ==
  /\ pc[c] = "check"
  /\ WaitMayReturn
  /\ waitFor' = [waitFor EXCEPT ![c] = {}]
  /\ Goto(c, "idle")
  /\ UNCHANGED <<creationBarrier, poolVars, running, added, opsLeft>>

WaitForCompletion(c) ==
  /\ pc[c] = "check"
  /\ ~WaitMayReturn
  /\ Goto(c, "completion")
  /\ UNCHANGED <<creationBarrier, poolVars, running, added, waitFor, opsLeft>>

-----------------------------------------------------------------------------
(***************************************************************************)
(* The destructor.  It may find clients in Wait, and wakes them; that they *)
(* return before the memory goes is left to the callers.                   *)
(***************************************************************************)

\* Variant with a defect: the workers are not woken.
DestroyQuiet(c) ==
  /\ pc[c] = "idle" /\ PoolExists
  /\ \A d \in Clients \ {c} : pc[d] \in {"idle", "check", "completion"}
  /\ shuttingDown' = TRUE
  /\ CompletionBroadcast(c, "join")
  /\ UNCHANGED <<creationBarrier, started, waitingCount, maxActive, tasks,
                 running, added, waitFor, opsLeft>>

Destroy(c) ==
  /\ pc[c] = "idle" /\ PoolExists
  /\ \A d \in Clients \ {c} : pc[d] \in {"idle", "check", "completion"}
  /\ shuttingDown' = TRUE
  /\ pc' = [p \in Threads |-> CASE p = c -> "join"
                                [] p # c /\ pc[p] = "completion" -> "check"
                                [] OTHER -> TaskQueueBroadcast[p]]
  /\ UNCHANGED <<creationBarrier, started, waitingCount, maxActive, tasks,
                 running, added, waitFor, opsLeft>>

\* STLDeleteElements: the destructor of each worker joins its thread.
Join(c) ==
  /\ pc[c] = "join"
  /\ \A w \in Workers : pc[w] = "exited"
  /\ Goto(c, "destroyed")
  /\ UNCHANGED <<creationBarrier, poolVars, running, added, waitFor, opsLeft>>

-----------------------------------------------------------------------------
(***************************************************************************)
(* ThreadPoolWorker::Run and ThreadPool::GetTask.                          *)
(***************************************************************************)

\* waiting_count_ once a worker that comes back from its wait has lowered it.
OthersWaiting(w) == waitingCount - (IF pc[w] = "woken" THEN 1 ELSE 0)

\* Variant with a defect: the worker does not count itself as active.
MayTakeTaskOffByOne(w) ==
  /\ GetThreadCount - OthersWaiting(w) - 1 <= maxActive
  /\ HasOutstandingTasks

\* At most maxActive workers are active, this one included.
MayTakeTask(w) ==
  /\ GetThreadCount - OthersWaiting(w) <= maxActive
  /\ HasOutstandingTasks

GetTaskTakes(w) ==
  /\ pc[w] \in {"getTask", "woken"}
  /\ ~shuttingDown
  /\ MayTakeTask(w)
  /\ running' = [running EXCEPT ![w] = Head(tasks)]
  /\ tasks' = Tail(tasks)
  /\ waitingCount' = OthersWaiting(w)
  /\ Goto(w, "running")
  /\ UNCHANGED <<creationBarrier, started, shuttingDown, maxActive, added,
                 waitFor, opsLeft>>

\* Variant with a defect: a worker that goes back to its wait is counted twice.
GetTaskWaitsCountedTwice(w) ==
  /\ pc[w] \in {"getTask", "woken"}
  /\ ~shuttingDown
  /\ ~MayTakeTask(w)
  /\ waitingCount' = waitingCount + 1
  /\ IF waitingCount' = GetThreadCount /\ ~HasOutstandingTasks
     THEN CompletionBroadcast(w, "parked")
     ELSE Goto(w, "parked")
  /\ UNCHANGED <<creationBarrier, started, shuttingDown, maxActive, tasks,
                 running, added, waitFor, opsLeft>>

\* Variant with a defect: the last worker does not say that the tasks are done.
GetTaskWaitsQuiet(w) ==
  /\ pc[w] \in {"getTask", "woken"}
  /\ ~shuttingDown
  /\ ~MayTakeTask(w)
  /\ waitingCount' = OthersWaiting(w) + 1
  /\ Goto(w, "parked")
  /\ UNCHANGED <<creationBarrier, started, shuttingDown, maxActive, tasks,
                 running, added, waitFor, opsLeft>>

GetTaskWaits(w) ==
  /\ pc[w] \in {"getTask", "woken"}
  /\ ~shuttingDown
  /\ ~MayTakeTask(w)
  /\ waitingCount' = OthersWaiting(w) + 1
  /\ IF waitingCount' = GetThreadCount /\ ~HasOutstandingTasks
     THEN CompletionBroadcast(w, "parked")
     ELSE Goto(w, "parked")
  /\ UNCHANGED <<creationBarrier, started, shuttingDown, maxActive, tasks,
                 running, added, waitFor, opsLeft>>

GetTaskShutsDown(w) ==
  /\ pc[w] \in {"getTask", "woken"}
  /\ shuttingDown
  /\ waitingCount' = OthersWaiting(w)
  /\ Goto(w, "exited")
  /\ UNCHANGED <<creationBarrier, started, shuttingDown, maxActive, tasks,
                 running, added, waitFor, opsLeft>>

\* Run and Finalize of the task have returned, in a worker or in Wait.
TaskFinishes(p) ==
  /\ pc[p] = "running"
  /\ running' = [running EXCEPT ![p] = NoTask]
  /\ waitFor' = [c \in Clients |-> waitFor[c] \ {running[p]}]
  /\ Goto(p, IF p \in Workers THEN "getTask" ELSE "tryGetTask")
  /\ UNCHANGED <<creationBarrier, poolVars, added, opsLeft>>

-----------------------------------------------------------------------------

ThreadStep(p) == BarrierWait(p) \/ BarrierPassed(p) \/ TaskFinishes(p)

WorkerStep(w) == GetTaskTakes(w) \/ GetTaskWaits(w) \/ GetTaskShutsDown(w)

ClientStep(c) ==
  TryGetTask(c) \/ WaitReturns(c) \/ WaitForCompletion(c) \/ Join(c)

ClientCall(c) ==
  \/ RemoveAllTasks(c) \/ SetMaxActiveWorkers(c) \/ StartWorkers(c)
  \/ StopWorkers(c) \/ Wait(c) \/ Destroy(c)

Next ==
  \/ \E p \in Threads : ThreadStep(p) \/ AddTask(p) \/ SpuriousWakeup(p)
  \/ \E w \in Workers : WorkerStep(w)
  \/ \E c \in Clients : ClientStep(c) \/ ClientCall(c)

\* The scheduler runs the threads, tasks end, and the mutex is fair enough
\* (FutexMutex).
Fairness ==
  /\ \A w \in Workers : WF_vars(ThreadStep(w) \/ WorkerStep(w))
  /\ \A c \in Clients : WF_vars(ThreadStep(c) \/ ClientStep(c))

Spec == Init /\ [][Next]_vars /\ Fairness

-----------------------------------------------------------------------------

\* The variables keep their types; waiting_count_ stays between zero and the
\* number of workers, so that the unsigned thread_count - waiting_count_ of
\* GetTask does not wrap.
TypeInv ==
  /\ creationBarrier \in 0..(GetThreadCount + 1)
  /\ started \in BOOLEAN /\ shuttingDown \in BOOLEAN
  /\ waitingCount \in 0..GetThreadCount /\ maxActive \in 0..GetThreadCount
  /\ maxActive = 0 => Workers = {}
  /\ tasks \in Seq(1..MaxTasks)
  /\ pc \in [Threads -> WorkerPc \union ClientPc]
  /\ \A w \in Workers : pc[w] \in WorkerPc
  /\ \A c \in Clients : pc[c] \in ClientPc
  /\ running \in [Threads -> 1..MaxTasks \union {NoTask}]
  /\ \A p \in Threads : running[p] # NoTask <=> pc[p] = "running"
  /\ waitFor \in [Clients -> SUBSET (1..MaxTasks)]
  /\ added \in 0..MaxTasks /\ opsLeft \in Nat

\* The tasks of a started pool with workers are looked after: as long as there
\* is one in the queue some worker is not asleep in GetTask, although AddTask signals one
\* worker only, and that one may go back to sleep for max_active_workers_.
NoStrandedTask ==
  HasOutstandingTasks /\ ~shuttingDown /\ Workers # {} =>
    \E w \in Workers : pc[w] # "parked"

\* waiting_count_ is the number of workers in the wait of GetTask, those that
\* have been woken and do not have the lock yet included.
WaitingExact ==
  waitingCount = Cardinality({w \in Workers : pc[w] \in {"parked", "woken"}})

\* count_ of the barrier is the number of threads that have not arrived; the
\* creator is the only client among them.
BarrierExact ==
  LET Attaching == {p \in Workers \union {Creator} : pc[p] = "attach"}
  IN  /\ creationBarrier = Cardinality(Attaching)
      /\ \A c \in Clients \ {Creator} : pc[c] # "attach"

\* No task gets lost: what a client waits for is queued or is being run.
WaitedForExists ==
  \A c \in Clients :
    waitFor[c] \subseteq Queued \union RunByWorkers \union RunByClients

\* The inductive invariant of the pool, from which NoStrandedTask,
\* MaxActiveRespected and WaitWaits follow.
IInv ==
  TypeInv /\ NoStrandedTask /\ WaitingExact /\ BarrierExact /\ WaitedForExists

\* SetMaxActiveWorkers bounds the workers that run tasks: when a worker takes
\* one, those that run tasks are at most max_active_workers_.
MaxActiveStep ==
  \A w \in Workers :
    pc[w] # "running" /\ pc'[w] = "running" =>
      Cardinality({v \in Workers : pc'[v] = "running"}) <= maxActive
MaxActiveRespected == [][MaxActiveStep]_vars

\* "Wait for all tasks currently on queue to get completed": when Wait returns,
\* each task that was queued or run by a worker when it was called has ended or
\* has been removed, or is being run by another client in its own Wait.  If the
\* pool has been stopped, tasks may still be queued, but no worker runs one.
WaitStep ==
  \A c \in Clients :
    pc[c] = "check" /\ pc'[c] = "idle" /\ ~shuttingDown =>
      /\ RunByWorkers = {}
      /\ waitFor[c] \subseteq RunByClients \union Queued
      /\ started => waitFor[c] \subseteq RunByClients
WaitWaits == [][WaitStep]_vars

\* Wait returns, if clients make finitely many calls: when the tasks are done,
\* or the pool is stopped, or the destructor runs.  (In a pool without workers a
\* Wait that does no work itself needs another one that does.)
WaitEnds ==
  []<>(\A c \in Clients :
         pc[c] \notin {"tryGetTask", "running", "check", "completion"})

\* The tasks of a pool that has workers and stays started are run in the end.
TasksAreRun == []<>(~HasOutstandingTasks \/ shuttingDown)

\* The destructor returns: every worker sees shutting_down_ and exits.
DestructorReturns == []<>(\A c \in Clients : pc[c] # "join")
=============================================================================
