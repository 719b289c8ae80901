-------------------------- MODULE ThreadPoolProofs --------------------------
(***************************************************************************)
(* Proofs about ThreadPool for any number of workers, none included, and   *)
(* any number of clients and tasks:                                        *)
(* the inductive invariant, that no task is stranded, that                 *)
(* max_active_workers_ is respected and that Wait waits.                   *)
(***************************************************************************)
EXTENDS ThreadPool, FiniteSetTheorems, TLAPS

USE DEF poolVars, Goto, Threads

\* The workers counted in waiting_count_, and the threads that the barrier of
\* the constructor waits for.
Waiting == {w \in Workers : pc[w] \in {"parked", "woken"}}
Attaching == {p \in Workers \union {Creator} : pc[p] = "attach"}

\* The number of workers is a number, and a set of workers has at most that
\* many; only the set of all has as many.
LEMMA WorkerSets ==
  ASSUME NEW S \in SUBSET Workers
  PROVE  /\ IsFiniteSet(S)
         /\ Cardinality(S) \in Nat /\ GetThreadCount \in Nat
         /\ Cardinality(S) <= GetThreadCount
         /\ Cardinality(S) = GetThreadCount => S = Workers
         /\ Cardinality(S) = 0 <=> S = {}
<1>1. IsFiniteSet(Workers)
  BY ZenonT(40), PoolAssumption
<1>2. IsFiniteSet(S) /\ Cardinality(S) <= GetThreadCount
      /\ (Cardinality(S) = GetThreadCount => S = Workers)
  BY ZenonT(40), <1>1, FS_Subset DEF GetThreadCount
<1> QED
  BY ZenonT(40), <1>1, <1>2, FS_CardinalityType, FS_EmptySet DEF GetThreadCount

\* One worker more or less changes the number by one.
LEMMA OneMore ==
  ASSUME NEW S \in SUBSET Workers, NEW w \in Workers \ S
  PROVE  Cardinality(S \union {w}) = Cardinality(S) + 1
  BY ZenonT(40), WorkerSets, FS_AddElement

\* And the other way round.
LEMMA OneLess ==
  ASSUME NEW S \in SUBSET Workers, NEW w \in S
  PROVE  Cardinality(S \ {w}) = Cardinality(S) - 1
  BY ZenonT(40), WorkerSets, FS_RemoveElement

\* The threads that the barrier counts are finitely many: the workers and the
\* creator.
LEMMA AttachingSets ==
  ASSUME NEW S \in SUBSET (Workers \union {Creator})
  PROVE  /\ Cardinality(S) \in 0..(GetThreadCount + 1)
         /\ Cardinality(Workers \union {Creator}) = GetThreadCount + 1
         /\ \A p \in S : Cardinality(S \ {p}) = Cardinality(S) - 1
<1>1. IsFiniteSet(Workers) /\ Creator \notin Workers
  BY ZenonT(40), PoolAssumption
<1>2. /\ IsFiniteSet(Workers \union {Creator})
      /\ Cardinality(Workers \union {Creator}) = GetThreadCount + 1
  BY ZenonT(40), <1>1, FS_AddElement DEF GetThreadCount
<1>3. IsFiniteSet(S) /\ Cardinality(S) <= GetThreadCount + 1
  BY ZenonT(40), <1>2, FS_Subset
<1>4. Cardinality(S) \in Nat /\ GetThreadCount \in Nat
  BY ZenonT(40), <1>1, <1>3, FS_CardinalityType DEF GetThreadCount
<1>5. Cardinality(S) \in 0..(GetThreadCount + 1)
  BY <1>3, <1>4
<1> QED
  BY ZenonT(40), <1>2, <1>3, <1>5, FS_RemoveElement

\* What is in a sequence, and what its first element and the rest are.
LEMMA SeqFacts ==
  ASSUME NEW S, NEW q \in Seq(S)
  PROVE  /\ \A i \in DOMAIN q : q[i] \in S
         /\ q # <<>> => Head(q) \in S /\ Tail(q) \in Seq(S)
<1>1. \A i \in DOMAIN q : q[i] \in S
  OBVIOUS
<1>2. q # <<>> => Head(q) \in S /\ Tail(q) \in Seq(S)
  OBVIOUS
<1> QED
  BY ZenonT(40), <1>1, <1>2

\* What the queue holds: AddTask puts a task behind the others, TryGetTaskLocked
\* takes the first one and leaves the rest.
LEMMA QueueFacts ==
  ASSUME tasks \in Seq(1..MaxTasks)
  PROVE  /\ \A x \in 1..MaxTasks :
              tasks' = Append(tasks, x) =>
                /\ tasks' \in Seq(1..MaxTasks)
                /\ \A y \in Queued : y \in Queued'
         /\ tasks # <<>> /\ tasks' = Tail(tasks) =>
              /\ Head(tasks) \in 1..MaxTasks
              /\ tasks' \in Seq(1..MaxTasks)
              /\ \A y \in Queued : y \in Queued' \/ y = Head(tasks)
         /\ \A y \in Queued : y \in 1..MaxTasks
<1>1. ASSUME NEW x \in 1..MaxTasks, tasks' = Append(tasks, x)
      PROVE  /\ tasks' \in Seq(1..MaxTasks)
             /\ \A i \in DOMAIN tasks : i \in DOMAIN tasks' /\ tasks'[i] = tasks[i]
  BY <1>1
<1>2. ASSUME tasks # <<>>, tasks' = Tail(tasks)
      PROVE  /\ Head(tasks) \in 1..MaxTasks
             /\ tasks' \in Seq(1..MaxTasks)
  BY ZenonT(40), <1>2, SeqFacts
<1>3. ASSUME tasks # <<>>, tasks' = Tail(tasks), NEW i \in DOMAIN tasks,
             tasks[i] # Head(tasks)
      PROVE  i - 1 \in DOMAIN tasks' /\ tasks'[i - 1] = tasks[i]
  BY <1>3
<1>4. \A y \in Queued : y \in 1..MaxTasks
  BY ZenonT(40), SeqFacts DEF Queued
<1>5. ASSUME tasks # <<>>, tasks' = Tail(tasks)
      PROVE  \A y \in Queued : y \in Queued' \/ y = Head(tasks)
  BY ZenonT(40), <1>3, <1>5 DEF Queued
<1>6. ASSUME NEW x \in 1..MaxTasks, tasks' = Append(tasks, x)
      PROVE  \A y \in Queued : y \in Queued'
  BY ZenonT(40), <1>1, <1>6 DEF Queued
<1> QED
  BY ZenonT(40), <1>1, <1>2, <1>4, <1>5, <1>6

\* waiting_count_ without the worker that calls GetTask or comes back from its
\* wait.
LEMMA OthersWaitingIsExact ==
  ASSUME WaitingExact, NEW w \in Workers, pc[w] \in {"getTask", "woken"}
  PROVE  OthersWaiting(w) = Cardinality(Waiting \ {w})
<1>1. Waiting \in SUBSET Workers /\ waitingCount = Cardinality(Waiting)
  BY ZenonT(40) DEF Waiting, WaitingExact
<1>2. Cardinality(Waiting) \in Nat
  BY ZenonT(40), <1>1, WorkerSets
<1>3. CASE pc[w] = "woken"
  <2>1. w \in Waiting
    BY ZenonT(40), <1>3 DEF Waiting
  <2>2. Cardinality(Waiting \ {w}) = Cardinality(Waiting) - 1
    BY ZenonT(40), <1>1, <2>1, OneLess
  <2> QED
    BY ZenonT(40), <1>1, <1>3, <2>2 DEF OthersWaiting
<1>4. CASE pc[w] = "getTask"
  <2>1. Waiting \ {w} = Waiting
    BY ZenonT(40), <1>4 DEF Waiting
  <2> QED
    BY <1>1, <1>2, <1>4, <2>1 DEF OthersWaiting
<1> QED
  BY ZenonT(40), <1>3, <1>4

\* TypeInv without the two counts: where the threads are, and the rest.
PcTypes ==
  /\ pc \in [Threads -> WorkerPc \union ClientPc]
  /\ \A w \in Workers : pc[w] \in WorkerPc
  /\ \A c \in Clients : pc[c] \in ClientPc
DataTypes ==
  /\ started \in BOOLEAN /\ shuttingDown \in BOOLEAN
  /\ maxActive \in 0..GetThreadCount /\ (maxActive = 0 => Workers = {})
  /\ tasks \in Seq(1..MaxTasks)
  /\ running \in [Threads -> 1..MaxTasks \union {NoTask}]
  /\ waitFor \in [Clients -> SUBSET (1..MaxTasks)]
  /\ added \in 0..MaxTasks /\ opsLeft \in Nat
RunningTypes ==
  \A p \in Threads : running[p] # NoTask <=> pc[p] = "running"

\* An exact waiting_count_ stays between zero and the number of workers, an
\* exact barrier between zero and the number of threads that use it.
LEMMA Bounds ==
  /\ WaitingExact => waitingCount \in 0..GetThreadCount
  /\ BarrierExact => creationBarrier \in 0..(GetThreadCount + 1)
<1>1. Cardinality(Waiting) \in 0..GetThreadCount
  <2>1. Cardinality(Waiting) \in Nat /\ GetThreadCount \in Nat
        /\ Cardinality(Waiting) <= GetThreadCount
    BY ZenonT(40), WorkerSets DEF Waiting
  <2> QED
    BY <2>1
<1>2. Cardinality(Attaching) \in 0..(GetThreadCount + 1)
  BY ZenonT(40), AttachingSets DEF Attaching
<1> QED
  BY ZenonT(40), <1>1, <1>2 DEF WaitingExact, BarrierExact, Waiting, Attaching

\* The same of the next state.
LEMMA BoundsNext ==
  /\ WaitingExact' => waitingCount' \in 0..GetThreadCount
  /\ BarrierExact' => creationBarrier' \in 0..(GetThreadCount + 1)
<1>1. /\ (WaitingExact => waitingCount \in 0..GetThreadCount)'
      /\ (BarrierExact => creationBarrier \in 0..(GetThreadCount + 1))'
  BY Bounds, PTL
<1> QED
  BY ZenonT(40), <1>1 DEF GetThreadCount


\* A worker counts itself before it waits, and uncounts itself when it comes back.
LEMMA WaitingStep ==
  ASSUME TypeInv, WaitingExact, [Next]_vars
  PROVE  WaitingExact'
<1>0. ASSUME UNCHANGED <<Waiting, waitingCount>> PROVE WaitingExact'
  BY ZenonT(40), <1>0 DEF WaitingExact, Waiting
<1>1. ASSUME UNCHANGED vars PROVE UNCHANGED <<Waiting, waitingCount>>
  BY ZenonT(40), <1>1 DEF vars, Waiting, TypeInv, WorkerPc, ClientPc
<1>2. ASSUME NEW p \in Threads, BarrierWait(p) PROVE UNCHANGED <<Waiting, waitingCount>>
  BY ZenonT(40), <1>2 DEF BarrierWait, Waiting, TypeInv, WorkerPc, ClientPc
<1>3. ASSUME NEW p \in Threads, BarrierPassed(p) PROVE UNCHANGED <<Waiting, waitingCount>>
  BY ZenonT(40), <1>3 DEF BarrierPassed, Waiting, TypeInv, WorkerPc, ClientPc
<1>4. ASSUME NEW p \in Threads, TaskFinishes(p) PROVE UNCHANGED <<Waiting, waitingCount>>
  BY ZenonT(40), <1>4 DEF TaskFinishes, Waiting, TypeInv, WorkerPc, ClientPc
<1>5. ASSUME NEW p \in Threads, AddTask(p) PROVE UNCHANGED <<Waiting, waitingCount>>
  BY <1>5
  DEF AddTask, PoolExists, TaskQueueSignal, Waiting, TypeInv, WorkerPc,
      ClientPc
<1>6. ASSUME NEW p \in Threads, SpuriousWakeup(p) PROVE UNCHANGED <<Waiting, waitingCount>>
  BY ZenonT(40), <1>6 DEF SpuriousWakeup, Waiting, TypeInv, WorkerPc, ClientPc
<1>7. ASSUME NEW w \in Workers, GetTaskTakes(w) PROVE WaitingExact'
  <2>1. Waiting' = Waiting \ {w}
    BY ZenonT(40), <1>7 DEF GetTaskTakes, Waiting, TypeInv, WorkerPc
  <2>2. OthersWaiting(w) = Cardinality(Waiting \ {w})
    BY ZenonT(40), <1>7, OthersWaitingIsExact DEF GetTaskTakes
  <2>3. waitingCount' = OthersWaiting(w)
    BY ZenonT(40), <1>7 DEF GetTaskTakes
  <2> QED
    BY ZenonT(40), <2>1, <2>2, <2>3 DEF WaitingExact, Waiting
<1>8. ASSUME NEW w \in Workers, GetTaskWaits(w) PROVE WaitingExact'
  <2>1. Waiting' = (Waiting \ {w}) \union {w}
    BY ZenonT(40), <1>8
    DEF GetTaskWaits, CompletionBroadcast, Waiting, TypeInv, WorkerPc
  <2>2. OthersWaiting(w) = Cardinality(Waiting \ {w})
    BY ZenonT(40), <1>8, OthersWaitingIsExact DEF GetTaskWaits
  <2>3. waitingCount' = OthersWaiting(w) + 1
    BY ZenonT(40), <1>8 DEF GetTaskWaits
  <2>4. Waiting \ {w} \in SUBSET Workers /\ w \in Workers \ (Waiting \ {w})
    BY ZenonT(40) DEF Waiting
  <2>5. Cardinality((Waiting \ {w}) \union {w}) = Cardinality(Waiting \ {w}) + 1
    BY ZenonT(40), <2>4, OneMore
  <2> QED
    BY ZenonT(40), <2>1, <2>2, <2>3, <2>5 DEF WaitingExact, Waiting
<1>9. ASSUME NEW w \in Workers, GetTaskShutsDown(w) PROVE WaitingExact'
  <2>1. Waiting' = Waiting \ {w}
    BY ZenonT(40), <1>9 DEF GetTaskShutsDown, Waiting, TypeInv, WorkerPc
  <2>2. OthersWaiting(w) = Cardinality(Waiting \ {w})
    BY ZenonT(40), <1>9, OthersWaitingIsExact DEF GetTaskShutsDown
  <2>3. waitingCount' = OthersWaiting(w)
    BY ZenonT(40), <1>9 DEF GetTaskShutsDown
  <2> QED
    BY ZenonT(40), <2>1, <2>2, <2>3 DEF WaitingExact, Waiting
<1>10. ASSUME NEW c \in Clients, TryGetTask(c) PROVE UNCHANGED <<Waiting, waitingCount>>
  BY ZenonT(40), <1>10 DEF TryGetTask, Waiting, TypeInv, WorkerPc, ClientPc
<1>11. ASSUME NEW c \in Clients, WaitReturns(c) PROVE UNCHANGED <<Waiting, waitingCount>>
  BY ZenonT(40), <1>11 DEF WaitReturns, Waiting, TypeInv, WorkerPc, ClientPc
<1>12. ASSUME NEW c \in Clients, WaitForCompletion(c) PROVE UNCHANGED <<Waiting, waitingCount>>
  BY ZenonT(40), <1>12
  DEF WaitForCompletion, Waiting, TypeInv, WorkerPc, ClientPc
<1>13. ASSUME NEW c \in Clients, Join(c) PROVE UNCHANGED <<Waiting, waitingCount>>
  BY ZenonT(40), <1>13 DEF Join, Waiting, TypeInv, WorkerPc, ClientPc
<1>14. ASSUME NEW c \in Clients, RemoveAllTasks(c) PROVE UNCHANGED <<Waiting, waitingCount>>
  BY ZenonT(40), <1>14
  DEF RemoveAllTasks, Call, Waiting, TypeInv, WorkerPc, ClientPc
<1>15. ASSUME NEW c \in Clients, SetMaxActiveWorkers(c) PROVE UNCHANGED <<Waiting, waitingCount>>
  BY ZenonT(40), <1>15
  DEF SetMaxActiveWorkers, Call, Waiting, TypeInv, WorkerPc, ClientPc
<1>16. ASSUME NEW c \in Clients, StartWorkers(c) PROVE UNCHANGED <<Waiting, waitingCount>>
  BY ZenonT(40), <1>16
  DEF StartWorkers, Call, TaskQueueBroadcast, Waiting, TypeInv, WorkerPc,
      ClientPc
<1>17. ASSUME NEW c \in Clients, StopWorkers(c) PROVE UNCHANGED <<Waiting, waitingCount>>
  BY ZenonT(40), <1>17
  DEF StopWorkers, Call, Waiting, TypeInv, WorkerPc, ClientPc
<1>18. ASSUME NEW c \in Clients, Wait(c) PROVE UNCHANGED <<Waiting, waitingCount>>
  BY ZenonT(40), <1>18 DEF Wait, Call, Waiting, TypeInv, WorkerPc, ClientPc
<1>19. ASSUME NEW c \in Clients, Destroy(c) PROVE UNCHANGED <<Waiting, waitingCount>>
  BY ZenonT(40), <1>19
  DEF Destroy, TaskQueueBroadcast, Waiting, TypeInv, WorkerPc, ClientPc
<1> QED
  BY ZenonT(40), <1>0, <1>1, <1>2, <1>3, <1>4, <1>5, <1>6, <1>7, <1>8, <1>9,
     <1>10, <1>11, <1>12, <1>13, <1>14, <1>15, <1>16, <1>17, <1>18, <1>19
  DEF Next, ThreadStep, WorkerStep, ClientStep, ClientCall

\* A thread that arrives at the barrier of the constructor takes itself off the count.
LEMMA BarrierStep ==
  ASSUME TypeInv, BarrierExact, [Next]_vars
  PROVE  BarrierExact'
<1> DEFINE NobodyArrives == /\ creationBarrier' = creationBarrier
                            /\ \A q \in Threads : pc'[q] = "attach" <=> pc[q] = "attach"
<1>0. ASSUME NobodyArrives PROVE BarrierExact'
  BY ZenonT(40), <1>0, PoolAssumption DEF BarrierExact
<1>1. ASSUME UNCHANGED vars PROVE NobodyArrives
  BY ZenonT(40), <1>1 DEF vars, TypeInv, WorkerPc, ClientPc
<1>2. ASSUME NEW p \in Threads, BarrierWait(p) PROVE BarrierExact'
  <2>1. p \in Attaching /\ Attaching' = Attaching \ {p}
    BY <1>2 DEF BarrierWait, Attaching, BarrierExact, TypeInv
  <2>2. Cardinality(Attaching') = Cardinality(Attaching) - 1
    BY ZenonT(40), <2>1, AttachingSets DEF Attaching
  <2>3. creationBarrier' = Cardinality(Attaching')
    BY ZenonT(40), <1>2, <2>2 DEF BarrierWait, BarrierExact, Attaching
  <2>4. \A c \in Clients \ {Creator} : pc'[c] # "attach"
    BY ZenonT(40), <1>2 DEF BarrierWait, BarrierExact, TypeInv
  <2> QED
    BY ZenonT(40), <2>3, <2>4 DEF BarrierExact, Attaching
<1>3. ASSUME NEW p \in Threads, BarrierPassed(p) PROVE NobodyArrives
  BY ZenonT(40), <1>3 DEF BarrierPassed, TypeInv, WorkerPc, ClientPc
<1>4. ASSUME NEW p \in Threads, TaskFinishes(p) PROVE NobodyArrives
  BY ZenonT(40), <1>4 DEF TaskFinishes, TypeInv, WorkerPc, ClientPc
<1>5. ASSUME NEW p \in Threads, AddTask(p) PROVE NobodyArrives
  BY ZenonT(40), <1>5
  DEF AddTask, PoolExists, TaskQueueSignal, TypeInv, WorkerPc, ClientPc
<1>6. ASSUME NEW p \in Threads, SpuriousWakeup(p) PROVE NobodyArrives
  BY ZenonT(40), <1>6 DEF SpuriousWakeup, TypeInv, WorkerPc, ClientPc
<1>7. ASSUME NEW w \in Workers, GetTaskTakes(w) PROVE NobodyArrives
  BY ZenonT(40), <1>7
  DEF GetTaskTakes, OthersWaiting, TypeInv, WorkerPc, ClientPc
<1>8. ASSUME NEW w \in Workers, GetTaskWaits(w) PROVE NobodyArrives
  BY ZenonT(40), <1>8
  DEF GetTaskWaits, OthersWaiting, CompletionBroadcast, TypeInv, WorkerPc,
      ClientPc
<1>9. ASSUME NEW w \in Workers, GetTaskShutsDown(w) PROVE NobodyArrives
  BY ZenonT(40), <1>9
  DEF GetTaskShutsDown, OthersWaiting, TypeInv, WorkerPc, ClientPc
<1>10. ASSUME NEW c \in Clients, TryGetTask(c) PROVE NobodyArrives
  BY ZenonT(40), <1>10 DEF TryGetTask, TypeInv, WorkerPc, ClientPc
<1>11. ASSUME NEW c \in Clients, WaitReturns(c) PROVE NobodyArrives
  BY ZenonT(40), <1>11 DEF WaitReturns, TypeInv, WorkerPc, ClientPc
<1>12. ASSUME NEW c \in Clients, WaitForCompletion(c) PROVE NobodyArrives
  BY ZenonT(40), <1>12 DEF WaitForCompletion, TypeInv, WorkerPc, ClientPc
<1>13. ASSUME NEW c \in Clients, Join(c) PROVE NobodyArrives
  BY ZenonT(40), <1>13 DEF Join, TypeInv, WorkerPc, ClientPc
<1>14. ASSUME NEW c \in Clients, RemoveAllTasks(c) PROVE NobodyArrives
  BY ZenonT(40), <1>14 DEF RemoveAllTasks, Call, TypeInv, WorkerPc, ClientPc
<1>15. ASSUME NEW c \in Clients, SetMaxActiveWorkers(c) PROVE NobodyArrives
  BY ZenonT(40), <1>15
  DEF SetMaxActiveWorkers, Call, TypeInv, WorkerPc, ClientPc
<1>16. ASSUME NEW c \in Clients, StartWorkers(c) PROVE NobodyArrives
  BY ZenonT(40), <1>16
  DEF StartWorkers, Call, TaskQueueBroadcast, TypeInv, WorkerPc, ClientPc
<1>17. ASSUME NEW c \in Clients, StopWorkers(c) PROVE NobodyArrives
  BY ZenonT(40), <1>17 DEF StopWorkers, Call, TypeInv, WorkerPc, ClientPc
<1>18. ASSUME NEW c \in Clients, Wait(c) PROVE NobodyArrives
  BY ZenonT(40), <1>18 DEF Wait, Call, TypeInv, WorkerPc, ClientPc
<1>19. ASSUME NEW c \in Clients, Destroy(c) PROVE NobodyArrives
  BY ZenonT(40), <1>19
  DEF Destroy, TaskQueueBroadcast, TypeInv, WorkerPc, ClientPc
<1> QED
  BY ZenonT(40), <1>0, <1>1, <1>2, <1>3, <1>4, <1>5, <1>6, <1>7, <1>8, <1>9,
     <1>10, <1>11, <1>12, <1>13, <1>14, <1>15, <1>16, <1>17, <1>18, <1>19
  DEF Next, ThreadStep, WorkerStep, ClientStep, ClientCall

\* Workers stay at the places of a worker, clients at those of a client.
LEMMA PcStep ==
  ASSUME TypeInv, [Next]_vars
  PROVE  PcTypes'
<1>1. ASSUME UNCHANGED vars PROVE PcTypes'
  BY ZenonT(40), PoolAssumption, <1>1
  DEF vars, PcTypes, TypeInv, WorkerPc, ClientPc
<1>2. ASSUME NEW p \in Threads, BarrierWait(p) PROVE PcTypes'
  BY ZenonT(40), PoolAssumption, <1>2
  DEF BarrierWait, PcTypes, TypeInv, WorkerPc, ClientPc
<1>3. ASSUME NEW p \in Threads, BarrierPassed(p) PROVE PcTypes'
  BY ZenonT(40), PoolAssumption, <1>3
  DEF BarrierPassed, PcTypes, TypeInv, WorkerPc, ClientPc
<1>4. ASSUME NEW p \in Threads, TaskFinishes(p) PROVE PcTypes'
  BY ZenonT(40), PoolAssumption, <1>4
  DEF TaskFinishes, PcTypes, TypeInv, WorkerPc, ClientPc
<1>5. ASSUME NEW p \in Threads, AddTask(p) PROVE PcTypes'
  <2>1. CASE pc' = pc
    BY ZenonT(40), <2>1 DEF PcTypes, TypeInv
  <2>2. ASSUME NEW w \in Workers, pc' = [pc EXCEPT ![w] = "woken"] PROVE PcTypes'
    BY ZenonT(40), <2>2, PoolAssumption
    DEF PcTypes, TypeInv, WorkerPc, ClientPc
  <2> QED
    BY ZenonT(40), <1>5, <2>1, <2>2 DEF AddTask, TaskQueueSignal
<1>6. ASSUME NEW p \in Threads, SpuriousWakeup(p) PROVE PcTypes'
  BY ZenonT(40), PoolAssumption, <1>6
  DEF SpuriousWakeup, PcTypes, TypeInv, WorkerPc, ClientPc
<1>7. ASSUME NEW w \in Workers, GetTaskTakes(w) PROVE PcTypes'
  BY ZenonT(40), PoolAssumption, <1>7
  DEF GetTaskTakes, OthersWaiting, PcTypes, TypeInv, WorkerPc, ClientPc
<1>8. ASSUME NEW w \in Workers, GetTaskWaits(w) PROVE PcTypes'
  <2>1. CASE Goto(w, "parked")
    BY ZenonT(40), <2>1, PoolAssumption
    DEF PcTypes, TypeInv, WorkerPc, ClientPc
  <2>2. CASE CompletionBroadcast(w, "parked")
    BY ZenonT(40), <2>2, PoolAssumption
    DEF CompletionBroadcast, PcTypes, TypeInv, WorkerPc, ClientPc
  <2> QED
    BY ZenonT(40), <1>8, <2>1, <2>2 DEF GetTaskWaits
<1>9. ASSUME NEW w \in Workers, GetTaskShutsDown(w) PROVE PcTypes'
  BY ZenonT(40), PoolAssumption, <1>9
  DEF GetTaskShutsDown, OthersWaiting, PcTypes, TypeInv, WorkerPc, ClientPc
<1>10. ASSUME NEW c \in Clients, TryGetTask(c) PROVE PcTypes'
  BY ZenonT(40), PoolAssumption, <1>10
  DEF TryGetTask, PcTypes, TypeInv, WorkerPc, ClientPc
<1>11. ASSUME NEW c \in Clients, WaitReturns(c) PROVE PcTypes'
  BY ZenonT(40), PoolAssumption, <1>11
  DEF WaitReturns, PcTypes, TypeInv, WorkerPc, ClientPc
<1>12. ASSUME NEW c \in Clients, WaitForCompletion(c) PROVE PcTypes'
  BY ZenonT(40), PoolAssumption, <1>12
  DEF WaitForCompletion, PcTypes, TypeInv, WorkerPc, ClientPc
<1>13. ASSUME NEW c \in Clients, Join(c) PROVE PcTypes'
  BY ZenonT(40), PoolAssumption, <1>13
  DEF Join, PcTypes, TypeInv, WorkerPc, ClientPc
<1>14. ASSUME NEW c \in Clients, RemoveAllTasks(c) PROVE PcTypes'
  BY ZenonT(40), PoolAssumption, <1>14
  DEF RemoveAllTasks, Call, PcTypes, TypeInv, WorkerPc, ClientPc
<1>15. ASSUME NEW c \in Clients, SetMaxActiveWorkers(c) PROVE PcTypes'
  BY ZenonT(40), PoolAssumption, <1>15
  DEF SetMaxActiveWorkers, Call, PcTypes, TypeInv, WorkerPc, ClientPc
<1>16. ASSUME NEW c \in Clients, StartWorkers(c) PROVE PcTypes'
  BY ZenonT(40), PoolAssumption, <1>16
  DEF StartWorkers, Call, TaskQueueBroadcast, PcTypes, TypeInv, WorkerPc,
      ClientPc
<1>17. ASSUME NEW c \in Clients, StopWorkers(c) PROVE PcTypes'
  BY ZenonT(40), PoolAssumption, <1>17
  DEF StopWorkers, Call, PcTypes, TypeInv, WorkerPc, ClientPc
<1>18. ASSUME NEW c \in Clients, Wait(c) PROVE PcTypes'
  BY ZenonT(40), PoolAssumption, <1>18
  DEF Wait, Call, PcTypes, TypeInv, WorkerPc, ClientPc
<1>19. ASSUME NEW c \in Clients, Destroy(c) PROVE PcTypes'
  BY ZenonT(40), PoolAssumption, <1>19
  DEF Destroy, TaskQueueBroadcast, PcTypes, TypeInv, WorkerPc, ClientPc
<1> QED
  BY ZenonT(40), <1>1, <1>2, <1>3, <1>4, <1>5, <1>6, <1>7, <1>8, <1>9, <1>10,
     <1>11, <1>12, <1>13, <1>14, <1>15, <1>16, <1>17, <1>18, <1>19
  DEF Next, ThreadStep, WorkerStep, ClientStep, ClientCall

\* The threads that run a task are those that are in Task::Run.
LEMMA RunningStep ==
  ASSUME TypeInv, [Next]_vars
  PROVE  RunningTypes'
<1>1. ASSUME UNCHANGED vars PROVE RunningTypes'
  BY ZenonT(40), <1>1 DEF vars, RunningTypes, TypeInv, WorkerPc, ClientPc
<1>2. ASSUME NEW p \in Threads, BarrierWait(p) PROVE RunningTypes'
  BY ZenonT(40), <1>2
  DEF BarrierWait, RunningTypes, TypeInv, WorkerPc, ClientPc
<1>3. ASSUME NEW p \in Threads, BarrierPassed(p) PROVE RunningTypes'
  BY ZenonT(40), <1>3
  DEF BarrierPassed, RunningTypes, TypeInv, WorkerPc, ClientPc
<1>4. ASSUME NEW p \in Threads, TaskFinishes(p) PROVE RunningTypes'
  BY ZenonT(40), <1>4
  DEF TaskFinishes, RunningTypes, TypeInv, WorkerPc, ClientPc
<1>5. ASSUME NEW p \in Threads, AddTask(p) PROVE RunningTypes'
  BY <1>5
  DEF AddTask, PoolExists, TaskQueueSignal, RunningTypes, TypeInv, WorkerPc,
      ClientPc
<1>6. ASSUME NEW p \in Threads, SpuriousWakeup(p) PROVE RunningTypes'
  BY ZenonT(40), <1>6
  DEF SpuriousWakeup, RunningTypes, TypeInv, WorkerPc, ClientPc
<1>7. ASSUME NEW w \in Workers, GetTaskTakes(w) PROVE RunningTypes'
  <2>1. tasks # <<>> /\ tasks' = Tail(tasks) => Head(tasks) \in 1..MaxTasks
    BY ZenonT(40), QueueFacts DEF TypeInv
  <2> QED
    BY ZenonT(40), <1>7, <2>1, PoolAssumption
    DEF GetTaskTakes, MayTakeTask, HasOutstandingTasks, RunningTypes, TypeInv
<1>8. ASSUME NEW w \in Workers, GetTaskWaits(w) PROVE RunningTypes'
  BY ZenonT(40), <1>8
  DEF GetTaskWaits, OthersWaiting, CompletionBroadcast, RunningTypes, TypeInv,
      WorkerPc, ClientPc
<1>9. ASSUME NEW w \in Workers, GetTaskShutsDown(w) PROVE RunningTypes'
  BY ZenonT(40), <1>9
  DEF GetTaskShutsDown, OthersWaiting, RunningTypes, TypeInv, WorkerPc,
      ClientPc
<1>10. ASSUME NEW c \in Clients, TryGetTask(c) PROVE RunningTypes'
  <2>1. tasks # <<>> /\ tasks' = Tail(tasks) => Head(tasks) \in 1..MaxTasks
    BY ZenonT(40), QueueFacts DEF TypeInv
  <2> QED
    BY ZenonT(40), <1>10, <2>1, PoolAssumption
    DEF TryGetTask, MayTakeTask, HasOutstandingTasks, RunningTypes, TypeInv
<1>11. ASSUME NEW c \in Clients, WaitReturns(c) PROVE RunningTypes'
  BY ZenonT(40), <1>11
  DEF WaitReturns, RunningTypes, TypeInv, WorkerPc, ClientPc
<1>12. ASSUME NEW c \in Clients, WaitForCompletion(c) PROVE RunningTypes'
  BY ZenonT(40), <1>12
  DEF WaitForCompletion, RunningTypes, TypeInv, WorkerPc, ClientPc
<1>13. ASSUME NEW c \in Clients, Join(c) PROVE RunningTypes'
  BY ZenonT(40), <1>13 DEF Join, RunningTypes, TypeInv, WorkerPc, ClientPc
<1>14. ASSUME NEW c \in Clients, RemoveAllTasks(c) PROVE RunningTypes'
  BY ZenonT(40), <1>14
  DEF RemoveAllTasks, Call, RunningTypes, TypeInv, WorkerPc, ClientPc
<1>15. ASSUME NEW c \in Clients, SetMaxActiveWorkers(c) PROVE RunningTypes'
  BY ZenonT(40), <1>15
  DEF SetMaxActiveWorkers, Call, RunningTypes, TypeInv, WorkerPc, ClientPc
<1>16. ASSUME NEW c \in Clients, StartWorkers(c) PROVE RunningTypes'
  BY ZenonT(40), <1>16
  DEF StartWorkers, Call, TaskQueueBroadcast, RunningTypes, TypeInv, WorkerPc,
      ClientPc
<1>17. ASSUME NEW c \in Clients, StopWorkers(c) PROVE RunningTypes'
  BY ZenonT(40), <1>17
  DEF StopWorkers, Call, RunningTypes, TypeInv, WorkerPc, ClientPc
<1>18. ASSUME NEW c \in Clients, Wait(c) PROVE RunningTypes'
  BY ZenonT(40), <1>18
  DEF Wait, Call, RunningTypes, TypeInv, WorkerPc, ClientPc
<1>19. ASSUME NEW c \in Clients, Destroy(c) PROVE RunningTypes'
  BY ZenonT(40), <1>19
  DEF Destroy, TaskQueueBroadcast, RunningTypes, TypeInv, WorkerPc, ClientPc
<1> QED
  BY ZenonT(40), <1>1, <1>2, <1>3, <1>4, <1>5, <1>6, <1>7, <1>8, <1>9, <1>10,
     <1>11, <1>12, <1>13, <1>14, <1>15, <1>16, <1>17, <1>18, <1>19
  DEF Next, ThreadStep, WorkerStep, ClientStep, ClientCall

\* The members, the tasks and the bookkeeping keep their types.
LEMMA DataStep ==
  ASSUME TypeInv, [Next]_vars
  PROVE  DataTypes'
<1>1. ASSUME UNCHANGED vars PROVE DataTypes'
  BY ZenonT(40), <1>1 DEF vars, DataTypes, TypeInv
<1>2. ASSUME NEW p \in Threads, BarrierWait(p) PROVE DataTypes'
  BY ZenonT(40), <1>2 DEF BarrierWait, DataTypes, TypeInv
<1>3. ASSUME NEW p \in Threads, BarrierPassed(p) PROVE DataTypes'
  BY ZenonT(40), <1>3 DEF BarrierPassed, DataTypes, TypeInv
<1>4. ASSUME NEW p \in Threads, TaskFinishes(p) PROVE DataTypes'
  BY ZenonT(40), <1>4 DEF TaskFinishes, DataTypes, TypeInv
<1>5. ASSUME NEW p \in Threads, AddTask(p) PROVE DataTypes'
  <2>1. added' \in 1..MaxTasks /\ added' \in 0..MaxTasks
    BY <1>5, PoolAssumption DEF AddTask, TypeInv
  <2>2. tasks' \in Seq(1..MaxTasks)
    BY ZenonT(40), <1>5, <2>1, QueueFacts DEF AddTask, TypeInv
  <2> QED
    BY ZenonT(40), <1>5, <2>1, <2>2 DEF AddTask, DataTypes, TypeInv
<1>6. ASSUME NEW p \in Threads, SpuriousWakeup(p) PROVE DataTypes'
  BY ZenonT(40), <1>6 DEF SpuriousWakeup, DataTypes, TypeInv
<1>7. ASSUME NEW w \in Workers, GetTaskTakes(w) PROVE DataTypes'
  <2>1. tasks # <<>> /\ tasks' = Tail(tasks) =>
          Head(tasks) \in 1..MaxTasks /\ tasks' \in Seq(1..MaxTasks)
    BY ZenonT(40), QueueFacts DEF TypeInv
  <2> QED
    BY ZenonT(40), <1>7, <2>1
    DEF GetTaskTakes, MayTakeTask, HasOutstandingTasks, DataTypes, TypeInv
<1>8. ASSUME NEW w \in Workers, GetTaskWaits(w) PROVE DataTypes'
  BY ZenonT(40), <1>8
  DEF GetTaskWaits, OthersWaiting, CompletionBroadcast, DataTypes, TypeInv
<1>9. ASSUME NEW w \in Workers, GetTaskShutsDown(w) PROVE DataTypes'
  BY ZenonT(40), <1>9 DEF GetTaskShutsDown, OthersWaiting, DataTypes, TypeInv
<1>10. ASSUME NEW c \in Clients, TryGetTask(c) PROVE DataTypes'
  <2>1. tasks # <<>> /\ tasks' = Tail(tasks) =>
          Head(tasks) \in 1..MaxTasks /\ tasks' \in Seq(1..MaxTasks)
    BY ZenonT(40), QueueFacts DEF TypeInv
  <2> QED
    BY ZenonT(40), <1>10, <2>1
    DEF TryGetTask, MayTakeTask, HasOutstandingTasks, DataTypes, TypeInv
<1>11. ASSUME NEW c \in Clients, WaitReturns(c) PROVE DataTypes'
  BY ZenonT(40), <1>11 DEF WaitReturns, DataTypes, TypeInv
<1>12. ASSUME NEW c \in Clients, WaitForCompletion(c) PROVE DataTypes'
  BY ZenonT(40), <1>12 DEF WaitForCompletion, DataTypes, TypeInv
<1>13. ASSUME NEW c \in Clients, Join(c) PROVE DataTypes'
  BY ZenonT(40), <1>13 DEF Join, DataTypes, TypeInv
<1>14. ASSUME NEW c \in Clients, RemoveAllTasks(c) PROVE DataTypes'
  BY <1>14 DEF RemoveAllTasks, Call, DataTypes, TypeInv
<1>15. ASSUME NEW c \in Clients, SetMaxActiveWorkers(c) PROVE DataTypes'
  BY <1>15 DEF SetMaxActiveWorkers, Call, DataTypes, TypeInv
<1>16. ASSUME NEW c \in Clients, StartWorkers(c) PROVE DataTypes'
  <2>1. opsLeft' \in Nat
    BY <1>16 DEF StartWorkers, Call, TypeInv
  <2> QED
    BY ZenonT(40), <1>16, <2>1 DEF StartWorkers, DataTypes, TypeInv
<1>17. ASSUME NEW c \in Clients, StopWorkers(c) PROVE DataTypes'
  <2>1. opsLeft' \in Nat
    BY <1>17 DEF StopWorkers, Call, TypeInv
  <2> QED
    BY ZenonT(40), <1>17, <2>1 DEF StopWorkers, DataTypes, TypeInv
<1>18. ASSUME NEW c \in Clients, Wait(c) PROVE DataTypes'
  <2>1. \A x \in RunByWorkers : x \in 1..MaxTasks
    BY ZenonT(40) DEF RunByWorkers, TypeInv
  <2>2. Queued \union RunByWorkers \in SUBSET (1..MaxTasks)
    BY ZenonT(40), <2>1, QueueFacts DEF TypeInv
  <2> QED
    BY <1>18, <2>2 DEF Wait, Call, DataTypes, TypeInv
<1>19. ASSUME NEW c \in Clients, Destroy(c) PROVE DataTypes'
  BY ZenonT(40), <1>19 DEF Destroy, TaskQueueBroadcast, DataTypes, TypeInv
<1> QED
  BY ZenonT(40), <1>1, <1>2, <1>3, <1>4, <1>5, <1>6, <1>7, <1>8, <1>9, <1>10,
     <1>11, <1>12, <1>13, <1>14, <1>15, <1>16, <1>17, <1>18, <1>19
  DEF Next, ThreadStep, WorkerStep, ClientStep, ClientCall

\* The steps that queue a task, start the pool or park a worker leave one worker
\* awake for the queue.
LEMMA StrandedStep ==
  ASSUME TypeInv, WaitingExact, NoStrandedTask, [Next]_vars
  PROVE  NoStrandedTask'
<1>1. ASSUME UNCHANGED vars PROVE NoStrandedTask'
  BY ZenonT(40), <1>1
  DEF vars, NoStrandedTask, HasOutstandingTasks, TypeInv, WorkerPc, ClientPc
<1>2. ASSUME NEW p \in Threads, BarrierWait(p) PROVE NoStrandedTask'
  BY ZenonT(40), <1>2
  DEF BarrierWait, NoStrandedTask, HasOutstandingTasks, TypeInv, WorkerPc,
      ClientPc
<1>3. ASSUME NEW p \in Threads, BarrierPassed(p) PROVE NoStrandedTask'
  BY ZenonT(40), <1>3
  DEF BarrierPassed, NoStrandedTask, HasOutstandingTasks, TypeInv, WorkerPc,
      ClientPc
<1>4. ASSUME NEW p \in Threads, TaskFinishes(p) PROVE NoStrandedTask'
  BY ZenonT(40), <1>4
  DEF TaskFinishes, NoStrandedTask, HasOutstandingTasks, TypeInv, WorkerPc,
      ClientPc
<1>5. ASSUME NEW p \in Threads, AddTask(p) PROVE NoStrandedTask'
  <2>1. CASE \E w \in Workers : pc[w] # "parked"
    BY ZenonT(40), <1>5, <2>1
    DEF AddTask, TaskQueueSignal, NoStrandedTask, TypeInv
  <2>2. CASE \A w \in Workers : pc[w] = "parked"
    <3> SUFFICES ASSUME Workers # {} PROVE NoStrandedTask'
      BY ZenonT(40) DEF NoStrandedTask
    <3>1. Waiting = Workers
      BY ZenonT(40), <2>2 DEF Waiting
    <3>2. waitingCount # 0
      BY ZenonT(40), <3>1, WorkerSets DEF WaitingExact, Waiting
    <3>3. started' => \E w \in Workers : pc'[w] = "woken"
      BY ZenonT(40), <1>5, <2>2, <3>1, <3>2
      DEF AddTask, TaskQueueSignal, TypeInv
    <3> QED
      BY ZenonT(40), <3>3 DEF NoStrandedTask, HasOutstandingTasks
  <2> QED
    BY ZenonT(40), <2>1, <2>2
<1>6. ASSUME NEW p \in Threads, SpuriousWakeup(p) PROVE NoStrandedTask'
  BY ZenonT(40), <1>6
  DEF SpuriousWakeup, NoStrandedTask, HasOutstandingTasks, TypeInv, WorkerPc,
      ClientPc
<1>7. ASSUME NEW w \in Workers, GetTaskTakes(w) PROVE NoStrandedTask'
  BY ZenonT(40), <1>7
  DEF GetTaskTakes, OthersWaiting, NoStrandedTask, HasOutstandingTasks,
      TypeInv, WorkerPc, ClientPc
<1>8. ASSUME NEW w \in Workers, GetTaskWaits(w) PROVE NoStrandedTask'
  <2> SUFFICES ASSUME HasOutstandingTasks',
                      \A v \in Workers : pc'[v] = "parked"
               PROVE  FALSE
    BY ZenonT(40) DEF NoStrandedTask
  <2>1. \A v \in Workers \ {w} : pc[v] = "parked"
    BY ZenonT(40), <1>8
    DEF GetTaskWaits, CompletionBroadcast, TypeInv, WorkerPc
  <2>2. Waiting \ {w} = Workers \ {w}
    BY ZenonT(40), <2>1 DEF Waiting
  <2>3. Cardinality(Workers \ {w}) = GetThreadCount - 1 /\ GetThreadCount \in Nat
    BY ZenonT(40), WorkerSets, OneLess DEF GetThreadCount
  <2>4. OthersWaiting(w) = GetThreadCount - 1
    BY ZenonT(40), <1>8, <2>2, <2>3, OthersWaitingIsExact DEF GetTaskWaits
  <2>5. GetThreadCount - OthersWaiting(w) <= maxActive
    <3>1. maxActive # 0 /\ maxActive \in 0..GetThreadCount
      BY ZenonT(40) DEF TypeInv
    <3> QED
      BY <2>3, <2>4, <3>1
  <2> QED
    BY ZenonT(40), <1>8, <2>5
    DEF GetTaskWaits, MayTakeTask, HasOutstandingTasks
<1>9. ASSUME NEW w \in Workers, GetTaskShutsDown(w) PROVE NoStrandedTask'
  BY ZenonT(40), <1>9
  DEF GetTaskShutsDown, OthersWaiting, NoStrandedTask, HasOutstandingTasks,
      TypeInv, WorkerPc, ClientPc
<1>10. ASSUME NEW c \in Clients, TryGetTask(c) PROVE NoStrandedTask'
  BY ZenonT(40), <1>10
  DEF TryGetTask, NoStrandedTask, HasOutstandingTasks, TypeInv, WorkerPc,
      ClientPc
<1>11. ASSUME NEW c \in Clients, WaitReturns(c) PROVE NoStrandedTask'
  BY ZenonT(40), <1>11
  DEF WaitReturns, NoStrandedTask, HasOutstandingTasks, TypeInv, WorkerPc,
      ClientPc
<1>12. ASSUME NEW c \in Clients, WaitForCompletion(c) PROVE NoStrandedTask'
  BY ZenonT(40), <1>12
  DEF WaitForCompletion, NoStrandedTask, HasOutstandingTasks, TypeInv,
      WorkerPc, ClientPc
<1>13. ASSUME NEW c \in Clients, Join(c) PROVE NoStrandedTask'
  BY ZenonT(40), <1>13
  DEF Join, NoStrandedTask, HasOutstandingTasks, TypeInv, WorkerPc, ClientPc
<1>14. ASSUME NEW c \in Clients, RemoveAllTasks(c) PROVE NoStrandedTask'
  BY ZenonT(40), <1>14
  DEF RemoveAllTasks, Call, NoStrandedTask, HasOutstandingTasks, TypeInv,
      WorkerPc, ClientPc
<1>15. ASSUME NEW c \in Clients, SetMaxActiveWorkers(c) PROVE NoStrandedTask'
  BY ZenonT(40), <1>15
  DEF SetMaxActiveWorkers, Call, NoStrandedTask, HasOutstandingTasks, TypeInv,
      WorkerPc, ClientPc
<1>16. ASSUME NEW c \in Clients, StartWorkers(c) PROVE NoStrandedTask'
  <2>1. \A w \in Workers : pc'[w] # "parked"
    BY ZenonT(40), <1>16 DEF StartWorkers, TaskQueueBroadcast, TypeInv
  <2> QED
    BY ZenonT(40), <2>1 DEF NoStrandedTask
<1>17. ASSUME NEW c \in Clients, StopWorkers(c) PROVE NoStrandedTask'
  BY ZenonT(40), <1>17
  DEF StopWorkers, Call, NoStrandedTask, HasOutstandingTasks, TypeInv,
      WorkerPc, ClientPc
<1>18. ASSUME NEW c \in Clients, Wait(c) PROVE NoStrandedTask'
  BY ZenonT(40), <1>18
  DEF Wait, Call, NoStrandedTask, HasOutstandingTasks, TypeInv, WorkerPc,
      ClientPc
<1>19. ASSUME NEW c \in Clients, Destroy(c) PROVE NoStrandedTask'
  BY ZenonT(40), <1>19
  DEF Destroy, TaskQueueBroadcast, NoStrandedTask, HasOutstandingTasks,
      TypeInv, WorkerPc, ClientPc
<1> QED
  BY ZenonT(40), <1>1, <1>2, <1>3, <1>4, <1>5, <1>6, <1>7, <1>8, <1>9, <1>10,
     <1>11, <1>12, <1>13, <1>14, <1>15, <1>16, <1>17, <1>18, <1>19
  DEF Next, ThreadStep, WorkerStep, ClientStep, ClientCall

\* A task that somebody waits for goes from the queue to the thread that runs it,
\* and is waited for no longer when it has been run or removed.
LEMMA WaitedStep ==
  ASSUME TypeInv, WaitedForExists, [Next]_vars
  PROVE  WaitedForExists'
<1> DEFINE Run == RunByWorkers \union RunByClients
<1>0. ASSUME UNCHANGED <<tasks, running, waitFor>> PROVE WaitedForExists'
  BY ZenonT(40), <1>0 DEF WaitedForExists, Queued, RunByWorkers, RunByClients
<1>1. ASSUME UNCHANGED vars PROVE UNCHANGED <<tasks, running, waitFor>>
  BY ZenonT(40), <1>1 DEF vars, TypeInv
<1>2. ASSUME NEW p \in Threads, BarrierWait(p) PROVE UNCHANGED <<tasks, running, waitFor>>
  BY ZenonT(40), <1>2 DEF BarrierWait, TypeInv
<1>3. ASSUME NEW p \in Threads, BarrierPassed(p) PROVE UNCHANGED <<tasks, running, waitFor>>
  BY ZenonT(40), <1>3 DEF BarrierPassed, TypeInv
<1>4. ASSUME NEW p \in Threads, TaskFinishes(p) PROVE WaitedForExists'
  <2>1. Queued' = Queued
    BY ZenonT(40), <1>4 DEF TaskFinishes, Queued
  <2>2. \A x \in Run : x \in Run' \/ x = running[p]
    BY ZenonT(40), <1>4 DEF TaskFinishes, RunByWorkers, RunByClients, TypeInv
  <2>3. \A d \in Clients : waitFor'[d] = waitFor[d] \ {running[p]}
    BY ZenonT(40), <1>4 DEF TaskFinishes
  <2> QED
    BY ZenonT(40), <2>1, <2>2, <2>3 DEF WaitedForExists
<1>5. ASSUME NEW p \in Threads, AddTask(p) PROVE WaitedForExists'
  <2>1. added' \in 1..MaxTasks
    BY <1>5, PoolAssumption DEF AddTask, TypeInv
  <2>2. \A x \in Queued : x \in Queued'
    BY ZenonT(40), <1>5, <2>1, QueueFacts DEF AddTask, TypeInv
  <2>3. Run' = Run /\ waitFor' = waitFor
    BY ZenonT(40), <1>5 DEF AddTask, RunByWorkers, RunByClients
  <2> QED
    BY ZenonT(40), <2>2, <2>3 DEF WaitedForExists
<1>6. ASSUME NEW p \in Threads, SpuriousWakeup(p) PROVE UNCHANGED <<tasks, running, waitFor>>
  BY ZenonT(40), <1>6 DEF SpuriousWakeup, TypeInv
<1>7. ASSUME NEW w \in Workers, GetTaskTakes(w) PROVE WaitedForExists'
  <2>1. CASE UNCHANGED <<tasks, running>>
    BY ZenonT(40), <1>7, <2>1, <1>0 DEF GetTaskTakes
  <2>2. CASE tasks # <<>> /\ tasks' = Tail(tasks)
             /\ running' = [running EXCEPT ![w] = Head(tasks)]
    <3>1. running[w] = NoTask
      BY ZenonT(40), <1>7, <2>2 DEF GetTaskTakes, TypeInv
    <3>2. /\ Head(tasks) \in 1..MaxTasks
          /\ \A x \in Queued : x \in Queued' \/ x = Head(tasks)
      BY ZenonT(40), <2>2, QueueFacts DEF TypeInv
    <3>3. \A x \in Run : x \in Run'
      BY ZenonT(40), <2>2, <3>1 DEF RunByWorkers, RunByClients, TypeInv
    <3>4. Head(tasks) \in Run'
      BY ZenonT(40), <2>2, <3>2, PoolAssumption
      DEF RunByWorkers, RunByClients, TypeInv
    <3> QED
      BY ZenonT(40), <1>7, <3>2, <3>3, <3>4 DEF GetTaskTakes, WaitedForExists
  <2> QED
    BY ZenonT(40), <1>7, <2>1, <2>2
    DEF GetTaskTakes, MayTakeTask, HasOutstandingTasks
<1>8. ASSUME NEW w \in Workers, GetTaskWaits(w) PROVE UNCHANGED <<tasks, running, waitFor>>
  BY ZenonT(40), <1>8
  DEF GetTaskWaits, OthersWaiting, CompletionBroadcast, TypeInv
<1>9. ASSUME NEW w \in Workers, GetTaskShutsDown(w) PROVE UNCHANGED <<tasks, running, waitFor>>
  BY ZenonT(40), <1>9 DEF GetTaskShutsDown, OthersWaiting, TypeInv
<1>10. ASSUME NEW c \in Clients, TryGetTask(c) PROVE WaitedForExists'
  <2>1. CASE UNCHANGED <<tasks, running>>
    BY ZenonT(40), <1>10, <2>1, <1>0 DEF TryGetTask
  <2>2. CASE tasks # <<>> /\ tasks' = Tail(tasks)
             /\ running' = [running EXCEPT ![c] = Head(tasks)]
    <3>1. running[c] = NoTask
      BY ZenonT(40), <1>10, <2>2 DEF TryGetTask, TypeInv
    <3>2. /\ Head(tasks) \in 1..MaxTasks
          /\ \A x \in Queued : x \in Queued' \/ x = Head(tasks)
      BY ZenonT(40), <2>2, QueueFacts DEF TypeInv
    <3>3. \A x \in Run : x \in Run'
      BY ZenonT(40), <2>2, <3>1 DEF RunByWorkers, RunByClients, TypeInv
    <3>4. Head(tasks) \in Run'
      BY ZenonT(40), <2>2, <3>2, PoolAssumption
      DEF RunByWorkers, RunByClients, TypeInv
    <3> QED
      BY ZenonT(40), <1>10, <3>2, <3>3, <3>4 DEF TryGetTask, WaitedForExists
  <2> QED
    BY ZenonT(40), <1>10, <2>1, <2>2
    DEF TryGetTask, MayTakeTask, HasOutstandingTasks
<1>11. ASSUME NEW c \in Clients, WaitReturns(c) PROVE WaitedForExists'
  <2>1. Run' = Run /\ Queued' = Queued
    BY ZenonT(40), <1>11 DEF WaitReturns, RunByWorkers, RunByClients, Queued
  <2>2. \A d \in Clients : waitFor'[d] = waitFor[d] \/ waitFor'[d] = {}
    BY ZenonT(40), <1>11 DEF WaitReturns, TypeInv
  <2> QED
    BY ZenonT(40), <2>1, <2>2 DEF WaitedForExists
<1>12. ASSUME NEW c \in Clients, WaitForCompletion(c) PROVE UNCHANGED <<tasks, running, waitFor>>
  BY ZenonT(40), <1>12 DEF WaitForCompletion, TypeInv
<1>13. ASSUME NEW c \in Clients, Join(c) PROVE UNCHANGED <<tasks, running, waitFor>>
  BY ZenonT(40), <1>13 DEF Join, TypeInv
<1>14. ASSUME NEW c \in Clients, RemoveAllTasks(c) PROVE WaitedForExists'
  <2>1. Run' = Run
    BY ZenonT(40), <1>14 DEF RemoveAllTasks, RunByWorkers, RunByClients
  <2>2. \A d \in Clients : waitFor'[d] = waitFor[d] \ Queued
    BY ZenonT(40), <1>14 DEF RemoveAllTasks
  <2> QED
    BY ZenonT(40), <2>1, <2>2 DEF WaitedForExists
<1>15. ASSUME NEW c \in Clients, SetMaxActiveWorkers(c) PROVE UNCHANGED <<tasks, running, waitFor>>
  BY ZenonT(40), <1>15 DEF SetMaxActiveWorkers, Call, TypeInv
<1>16. ASSUME NEW c \in Clients, StartWorkers(c) PROVE UNCHANGED <<tasks, running, waitFor>>
  BY ZenonT(40), <1>16 DEF StartWorkers, Call, TaskQueueBroadcast, TypeInv
<1>17. ASSUME NEW c \in Clients, StopWorkers(c) PROVE UNCHANGED <<tasks, running, waitFor>>
  BY ZenonT(40), <1>17 DEF StopWorkers, Call, TypeInv
<1>18. ASSUME NEW c \in Clients, Wait(c) PROVE WaitedForExists'
  <2>1. Run' = Run /\ Queued' = Queued
    BY ZenonT(40), <1>18 DEF Wait, RunByWorkers, RunByClients, Queued
  <2>2. \A d \in Clients : waitFor'[d] = waitFor[d] \/ waitFor'[d] = Queued \union RunByWorkers
    BY ZenonT(40), <1>18 DEF Wait, TypeInv
  <2> QED
    BY ZenonT(40), <2>1, <2>2 DEF WaitedForExists
<1>19. ASSUME NEW c \in Clients, Destroy(c) PROVE UNCHANGED <<tasks, running, waitFor>>
  BY ZenonT(40), <1>19 DEF Destroy, TaskQueueBroadcast, TypeInv
<1> QED
  BY ZenonT(40), <1>0, <1>1, <1>2, <1>3, <1>4, <1>5, <1>6, <1>7, <1>8, <1>9,
     <1>10, <1>11, <1>12, <1>13, <1>14, <1>15, <1>16, <1>17, <1>18, <1>19
  DEF Next, ThreadStep, WorkerStep, ClientStep, ClientCall

\* A worker takes a task only if it and the workers that do not wait are at most
\* max_active_workers_.
LEMMA MaxActiveHolds ==
  ASSUME TypeInv, WaitingExact, [Next]_vars
  PROVE  MaxActiveStep
<1>0. ASSUME \A v \in Workers : pc'[v] = "running" => pc[v] = "running" PROVE MaxActiveStep
  BY ZenonT(40), <1>0 DEF MaxActiveStep
<1>1. ASSUME UNCHANGED vars PROVE \A v \in Workers : pc'[v] = "running" => pc[v] = "running"
  BY ZenonT(40), <1>1 DEF vars, TypeInv, WorkerPc, ClientPc
<1>2. ASSUME NEW p \in Threads, BarrierWait(p) PROVE \A v \in Workers : pc'[v] = "running" => pc[v] = "running"
  BY ZenonT(40), <1>2 DEF BarrierWait, TypeInv, WorkerPc, ClientPc
<1>3. ASSUME NEW p \in Threads, BarrierPassed(p) PROVE \A v \in Workers : pc'[v] = "running" => pc[v] = "running"
  BY ZenonT(40), <1>3 DEF BarrierPassed, TypeInv, WorkerPc, ClientPc
<1>4. ASSUME NEW p \in Threads, TaskFinishes(p) PROVE \A v \in Workers : pc'[v] = "running" => pc[v] = "running"
  BY ZenonT(40), <1>4 DEF TaskFinishes, TypeInv, WorkerPc, ClientPc
<1>5. ASSUME NEW p \in Threads, AddTask(p) PROVE \A v \in Workers : pc'[v] = "running" => pc[v] = "running"
  BY ZenonT(40), <1>5
  DEF AddTask, PoolExists, TaskQueueSignal, TypeInv, WorkerPc, ClientPc
<1>6. ASSUME NEW p \in Threads, SpuriousWakeup(p) PROVE \A v \in Workers : pc'[v] = "running" => pc[v] = "running"
  BY ZenonT(40), <1>6 DEF SpuriousWakeup, TypeInv, WorkerPc, ClientPc
<1>7. ASSUME NEW w \in Workers, GetTaskTakes(w) PROVE MaxActiveStep
  <2> DEFINE Active == {v \in Workers : pc'[v] = "running"}
             Rest == Waiting \ {w}
  <2>1. Active \in SUBSET Workers /\ Rest \in SUBSET Workers /\ Active \intersect Rest = {}
    BY ZenonT(40), <1>7 DEF GetTaskTakes, Waiting, TypeInv
  <2>2. /\ IsFiniteSet(Active) /\ IsFiniteSet(Rest)
        /\ Cardinality(Active) \in Nat /\ Cardinality(Rest) \in Nat
        /\ Cardinality(Active \union Rest) <= GetThreadCount /\ GetThreadCount \in Nat
    BY ZenonT(40), <2>1, WorkerSets
  <2>3. Cardinality(Active \union Rest)
          = Cardinality(Active) + Cardinality(Rest) - Cardinality(Active \intersect Rest)
    BY ZenonT(40), <2>2, FS_Union
  <2>4. Cardinality(Active \intersect Rest) = 0
    BY ZenonT(40), <2>1, FS_EmptySet
  <2>5. OthersWaiting(w) = Cardinality(Rest)
    BY ZenonT(40), <1>7, OthersWaitingIsExact DEF GetTaskTakes
  <2>6. GetThreadCount - OthersWaiting(w) <= maxActive
    BY ZenonT(40), <1>7 DEF GetTaskTakes, MayTakeTask
  <2>7. Cardinality(Active) <= maxActive
    <3> HIDE DEF Active, Rest
    <3> QED
      BY <2>2, <2>3, <2>4, <2>5, <2>6 DEF TypeInv
  <2> QED
    BY ZenonT(40), <2>7 DEF MaxActiveStep
<1>8. ASSUME NEW w \in Workers, GetTaskWaits(w) PROVE \A v \in Workers : pc'[v] = "running" => pc[v] = "running"
  BY ZenonT(40), <1>8
  DEF GetTaskWaits, OthersWaiting, CompletionBroadcast, TypeInv, WorkerPc,
      ClientPc
<1>9. ASSUME NEW w \in Workers, GetTaskShutsDown(w) PROVE \A v \in Workers : pc'[v] = "running" => pc[v] = "running"
  BY ZenonT(40), <1>9
  DEF GetTaskShutsDown, OthersWaiting, TypeInv, WorkerPc, ClientPc
<1>10. ASSUME NEW c \in Clients, TryGetTask(c) PROVE \A v \in Workers : pc'[v] = "running" => pc[v] = "running"
  BY ZenonT(40), <1>10 DEF TryGetTask, TypeInv, WorkerPc, ClientPc
<1>11. ASSUME NEW c \in Clients, WaitReturns(c) PROVE \A v \in Workers : pc'[v] = "running" => pc[v] = "running"
  BY ZenonT(40), <1>11 DEF WaitReturns, TypeInv, WorkerPc, ClientPc
<1>12. ASSUME NEW c \in Clients, WaitForCompletion(c) PROVE \A v \in Workers : pc'[v] = "running" => pc[v] = "running"
  BY ZenonT(40), <1>12 DEF WaitForCompletion, TypeInv, WorkerPc, ClientPc
<1>13. ASSUME NEW c \in Clients, Join(c) PROVE \A v \in Workers : pc'[v] = "running" => pc[v] = "running"
  BY ZenonT(40), <1>13 DEF Join, TypeInv, WorkerPc, ClientPc
<1>14. ASSUME NEW c \in Clients, RemoveAllTasks(c) PROVE \A v \in Workers : pc'[v] = "running" => pc[v] = "running"
  BY ZenonT(40), <1>14 DEF RemoveAllTasks, Call, TypeInv, WorkerPc, ClientPc
<1>15. ASSUME NEW c \in Clients, SetMaxActiveWorkers(c) PROVE \A v \in Workers : pc'[v] = "running" => pc[v] = "running"
  BY ZenonT(40), <1>15
  DEF SetMaxActiveWorkers, Call, TypeInv, WorkerPc, ClientPc
<1>16. ASSUME NEW c \in Clients, StartWorkers(c) PROVE \A v \in Workers : pc'[v] = "running" => pc[v] = "running"
  BY ZenonT(40), <1>16
  DEF StartWorkers, Call, TaskQueueBroadcast, TypeInv, WorkerPc, ClientPc
<1>17. ASSUME NEW c \in Clients, StopWorkers(c) PROVE \A v \in Workers : pc'[v] = "running" => pc[v] = "running"
  BY ZenonT(40), <1>17 DEF StopWorkers, Call, TypeInv, WorkerPc, ClientPc
<1>18. ASSUME NEW c \in Clients, Wait(c) PROVE \A v \in Workers : pc'[v] = "running" => pc[v] = "running"
  BY ZenonT(40), <1>18 DEF Wait, Call, TypeInv, WorkerPc, ClientPc
<1>19. ASSUME NEW c \in Clients, Destroy(c) PROVE \A v \in Workers : pc'[v] = "running" => pc[v] = "running"
  BY ZenonT(40), <1>19
  DEF Destroy, TaskQueueBroadcast, TypeInv, WorkerPc, ClientPc
<1> QED
  BY ZenonT(40), <1>0, <1>1, <1>2, <1>3, <1>4, <1>5, <1>6, <1>7, <1>8, <1>9,
     <1>10, <1>11, <1>12, <1>13, <1>14, <1>15, <1>16, <1>17, <1>18, <1>19
  DEF Next, ThreadStep, WorkerStep, ClientStep, ClientCall

\* Wait returns when all workers wait for tasks: none runs one.
LEMMA WaitHolds ==
  ASSUME TypeInv, WaitingExact, WaitedForExists, [Next]_vars
  PROVE  WaitStep
<1>0. ASSUME \A d \in Clients : ~(pc[d] = "check" /\ pc'[d] = "idle") PROVE WaitStep
  BY ZenonT(40), <1>0 DEF WaitStep
<1>1. ASSUME UNCHANGED vars PROVE \A d \in Clients : ~(pc[d] = "check" /\ pc'[d] = "idle")
  BY ZenonT(40), <1>1 DEF vars, TypeInv, WorkerPc, ClientPc
<1>2. ASSUME NEW p \in Threads, BarrierWait(p) PROVE \A d \in Clients : ~(pc[d] = "check" /\ pc'[d] = "idle")
  BY ZenonT(40), <1>2 DEF BarrierWait, TypeInv, WorkerPc, ClientPc
<1>3. ASSUME NEW p \in Threads, BarrierPassed(p) PROVE \A d \in Clients : ~(pc[d] = "check" /\ pc'[d] = "idle")
  BY ZenonT(40), <1>3 DEF BarrierPassed, TypeInv, WorkerPc, ClientPc
<1>4. ASSUME NEW p \in Threads, TaskFinishes(p) PROVE \A d \in Clients : ~(pc[d] = "check" /\ pc'[d] = "idle")
  BY ZenonT(40), <1>4 DEF TaskFinishes, TypeInv, WorkerPc, ClientPc
<1>5. ASSUME NEW p \in Threads, AddTask(p) PROVE \A d \in Clients : ~(pc[d] = "check" /\ pc'[d] = "idle")
  BY ZenonT(40), <1>5
  DEF AddTask, PoolExists, TaskQueueSignal, TypeInv, WorkerPc, ClientPc
<1>6. ASSUME NEW p \in Threads, SpuriousWakeup(p) PROVE \A d \in Clients : ~(pc[d] = "check" /\ pc'[d] = "idle")
  BY ZenonT(40), <1>6 DEF SpuriousWakeup, TypeInv, WorkerPc, ClientPc
<1>7. ASSUME NEW w \in Workers, GetTaskTakes(w) PROVE \A d \in Clients : ~(pc[d] = "check" /\ pc'[d] = "idle")
  BY ZenonT(40), <1>7
  DEF GetTaskTakes, OthersWaiting, TypeInv, WorkerPc, ClientPc
<1>8. ASSUME NEW w \in Workers, GetTaskWaits(w) PROVE \A d \in Clients : ~(pc[d] = "check" /\ pc'[d] = "idle")
  BY ZenonT(40), <1>8
  DEF GetTaskWaits, OthersWaiting, CompletionBroadcast, TypeInv, WorkerPc,
      ClientPc
<1>9. ASSUME NEW w \in Workers, GetTaskShutsDown(w) PROVE \A d \in Clients : ~(pc[d] = "check" /\ pc'[d] = "idle")
  BY ZenonT(40), <1>9
  DEF GetTaskShutsDown, OthersWaiting, TypeInv, WorkerPc, ClientPc
<1>10. ASSUME NEW c \in Clients, TryGetTask(c) PROVE \A d \in Clients : ~(pc[d] = "check" /\ pc'[d] = "idle")
  BY ZenonT(40), <1>10 DEF TryGetTask, TypeInv, WorkerPc, ClientPc
<1>11. ASSUME NEW c \in Clients, WaitReturns(c) PROVE WaitStep
  <2> SUFFICES ASSUME ~shuttingDown
               PROVE  /\ RunByWorkers = {}
                      /\ waitFor[c] \subseteq RunByClients \union Queued
                      /\ started => waitFor[c] \subseteq RunByClients
    <3>1. \A d \in Clients \ {c} : pc'[d] = pc[d]
      BY ZenonT(40), <1>11 DEF WaitReturns, TypeInv
    <3> QED
      BY ZenonT(40), <3>1 DEF WaitStep
  <2>1. Waiting \in SUBSET Workers /\ Cardinality(Waiting) = GetThreadCount
    BY ZenonT(40), <1>11 DEF WaitReturns, WaitMayReturn, WaitingExact, Waiting
  <2>2. Waiting = Workers
    BY ZenonT(40), <2>1, WorkerSets
  <2>3. \A v \in Workers : running[v] = NoTask
    BY ZenonT(40), <2>2 DEF Waiting, TypeInv
  <2>4. RunByWorkers = {}
    BY ZenonT(40), <2>3 DEF RunByWorkers
  <2>5. started => tasks = <<>>
    BY ZenonT(40), <1>11 DEF WaitReturns, WaitMayReturn, HasOutstandingTasks
  <2>6. started => Queued = {}
    BY <2>5 DEF Queued
  <2> QED
    BY ZenonT(40), <2>4, <2>6 DEF WaitedForExists
<1>12. ASSUME NEW c \in Clients, WaitForCompletion(c) PROVE \A d \in Clients : ~(pc[d] = "check" /\ pc'[d] = "idle")
  BY ZenonT(40), <1>12 DEF WaitForCompletion, TypeInv, WorkerPc, ClientPc
<1>13. ASSUME NEW c \in Clients, Join(c) PROVE \A d \in Clients : ~(pc[d] = "check" /\ pc'[d] = "idle")
  BY ZenonT(40), <1>13 DEF Join, TypeInv, WorkerPc, ClientPc
<1>14. ASSUME NEW c \in Clients, RemoveAllTasks(c) PROVE \A d \in Clients : ~(pc[d] = "check" /\ pc'[d] = "idle")
  BY ZenonT(40), <1>14 DEF RemoveAllTasks, Call, TypeInv, WorkerPc, ClientPc
<1>15. ASSUME NEW c \in Clients, SetMaxActiveWorkers(c) PROVE \A d \in Clients : ~(pc[d] = "check" /\ pc'[d] = "idle")
  BY ZenonT(40), <1>15
  DEF SetMaxActiveWorkers, Call, TypeInv, WorkerPc, ClientPc
<1>16. ASSUME NEW c \in Clients, StartWorkers(c) PROVE \A d \in Clients : ~(pc[d] = "check" /\ pc'[d] = "idle")
  BY ZenonT(40), <1>16
  DEF StartWorkers, Call, TaskQueueBroadcast, TypeInv, WorkerPc, ClientPc
<1>17. ASSUME NEW c \in Clients, StopWorkers(c) PROVE \A d \in Clients : ~(pc[d] = "check" /\ pc'[d] = "idle")
  BY ZenonT(40), <1>17 DEF StopWorkers, Call, TypeInv, WorkerPc, ClientPc
<1>18. ASSUME NEW c \in Clients, Wait(c) PROVE \A d \in Clients : ~(pc[d] = "check" /\ pc'[d] = "idle")
  BY ZenonT(40), <1>18 DEF Wait, Call, TypeInv, WorkerPc, ClientPc
<1>19. ASSUME NEW c \in Clients, Destroy(c) PROVE \A d \in Clients : ~(pc[d] = "check" /\ pc'[d] = "idle")
  BY ZenonT(40), <1>19
  DEF Destroy, TaskQueueBroadcast, TypeInv, WorkerPc, ClientPc
<1> QED
  BY ZenonT(40), <1>0, <1>1, <1>2, <1>3, <1>4, <1>5, <1>6, <1>7, <1>8, <1>9,
     <1>10, <1>11, <1>12, <1>13, <1>14, <1>15, <1>16, <1>17, <1>18, <1>19
  DEF Next, ThreadStep, WorkerStep, ClientStep, ClientCall

\* The invariant holds when the constructor has set the members.
LEMMA InitInv == Init => IInv
<1> SUFFICES ASSUME Init PROVE IInv
  OBVIOUS
<1>1. WaitingExact
  <2>1. Waiting = {}
    BY ZenonT(40), PoolAssumption DEF Init, Waiting
  <2> QED
    BY ZenonT(40), <2>1, FS_EmptySet DEF Init, WaitingExact, Waiting
<1>2. BarrierExact
  <2>1. Attaching = Workers \union {Creator}
    BY ZenonT(40), PoolAssumption DEF Init, Attaching
  <2>2. \A c \in Clients \ {Creator} : pc[c] # "attach"
    BY ZenonT(40), PoolAssumption DEF Init
  <2> QED
    BY ZenonT(40), <2>1, <2>2, AttachingSets DEF Init, BarrierExact, Attaching
<1>3. TypeInv
  <2>1. /\ GetThreadCount \in 0..GetThreadCount
        /\ GetThreadCount = 0 => Workers = {}
    <3>1. GetThreadCount \in Nat /\ (GetThreadCount = 0 => Workers = {})
      BY ZenonT(40), WorkerSets DEF GetThreadCount
    <3> QED
      BY <3>1
  <2>2. DataTypes
    <3>1. 0 \in 0..MaxTasks /\ <<>> \in Seq(1..MaxTasks) /\ MaxOps \in Nat
      BY PoolAssumption
    <3> QED
      BY ZenonT(40), <2>1, <3>1 DEF Init, DataTypes
  <2>3. PcTypes /\ RunningTypes
    BY ZenonT(40), PoolAssumption
    DEF Init, PcTypes, RunningTypes, WorkerPc, ClientPc
  <2> QED
    BY ZenonT(40), <1>1, <1>2, <2>2, <2>3, Bounds
    DEF TypeInv, PcTypes, DataTypes, RunningTypes
<1>4. NoStrandedTask /\ WaitedForExists
  BY ZenonT(40) DEF Init, NoStrandedTask, HasOutstandingTasks, WaitedForExists
<1> QED
  BY ZenonT(40), <1>1, <1>2, <1>3, <1>4 DEF IInv

\* Every step keeps the invariant.
LEMMA StepInv == IInv /\ [Next]_vars => IInv'
<1> SUFFICES ASSUME IInv, [Next]_vars PROVE IInv'
  OBVIOUS
<1>1. WaitingExact' /\ BarrierExact'
  BY ZenonT(40), WaitingStep, BarrierStep DEF IInv
<1>2. TypeInv'
  BY ZenonT(40), <1>1, BoundsNext, PcStep, RunningStep, DataStep
  DEF IInv, TypeInv, PcTypes, RunningTypes, DataTypes
<1> QED
  BY ZenonT(40), <1>1, <1>2, StrandedStep, WaitedStep DEF IInv

\* Every reachable state of the pool satisfies the inductive invariant IInv.
THEOREM Invariance == Spec => []IInv
  BY InitInv, StepInv, PTL DEF Spec

\* Every variable keeps its type: waiting_count_ stays between zero and the
\* number of workers, so that the subtraction in GetTask does not wrap.
THEOREM TypeCorrect == Spec => []TypeInv
<1>1. IInv => TypeInv
  BY ZenonT(40) DEF IInv
<1> QED
  BY <1>1, Invariance, PTL

\* As long as a started pool with workers has a task in its queue some worker is
\* not asleep (AddTask, StartWorkers, GetTask).
THEOREM NoTaskIsStranded == Spec => []NoStrandedTask
<1>1. IInv => NoStrandedTask
  BY ZenonT(40) DEF IInv
<1> QED
  BY <1>1, Invariance, PTL

\* When a worker takes a task, at most max_active_workers_ workers run tasks
\* (GetTask).
THEOREM MaxActiveIsRespected == Spec => MaxActiveRespected
<1>1. IInv /\ [Next]_vars => [MaxActiveStep]_vars
  BY ZenonT(40), MaxActiveHolds DEF IInv
<1> QED
  BY <1>1, Invariance, PTL DEF Spec, MaxActiveRespected

\* When Wait returns no worker runs a task, and the tasks it was called for are
\* done, or removed, or run by another client (Wait).
THEOREM WaitDoesWait == Spec => WaitWaits
<1>1. IInv /\ [Next]_vars => [WaitStep]_vars
  BY ZenonT(40), WaitHolds DEF IInv
<1> QED
  BY <1>1, Invariance, PTL DEF Spec, WaitWaits
=============================================================================
