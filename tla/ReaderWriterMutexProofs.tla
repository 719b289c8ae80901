----------------------- MODULE ReaderWriterMutexProofs -----------------------
(***************************************************************************)
(* Proofs about ReaderWriterMutex for every finite set of threads: the     *)
(* inductive invariant, that state_ says who holds the mutex, that the     *)
(* pending counts are exact, that no sleeper is forgotten, and that the    *)
(* futex code implements SharedLock.                                       *)
(***************************************************************************)
EXTENDS ReaderWriterMutex, FiniteSetTheorems, TLAPS

USE DEF mutexVars, Goto, Call

\* The threads counted in num_pending_readers_ and num_pending_writers_.
PendingReaders == {t \in Threads : pc[t] \in PendingReaderPcs}
PendingWriters == {t \in Threads : pc[t] \in PendingWriterPcs}

\* The writers whose lock call has returned.
Writing == {t \in Threads : pc[t] = "writing"}

\* Sets of threads are finite: adding or removing one changes their number by
\* one.
LEMMA ThreadSets ==
  ASSUME NEW S \in SUBSET Threads
  PROVE  /\ Cardinality(S) \in Nat
         /\ Cardinality(S) = 0 <=> S = {}
         /\ \A t \in Threads \ S : Cardinality(S \union {t}) = Cardinality(S) + 1
         /\ \A t \in S : Cardinality(S \ {t}) = Cardinality(S) - 1
<1>1. IsFiniteSet(S)
  BY ZenonT(40), MutexAssumption, FS_Subset
<1> QED
  BY ZenonT(40), <1>1, FS_CardinalityType, FS_EmptySet, FS_AddElement,
     FS_RemoveElement

\* If a writer holds the mutex it is the only writer.
LEMMA OneWriter ==
  ASSUME StateExact, NEW t \in Writers
  PROVE  Writers = {t} /\ Readers = {} /\ state = -1
<1>1. Writers \in SUBSET Threads /\ Cardinality(Writers) = 1
  BY ZenonT(40) DEF Writers, StateExact
<1>2. Cardinality(Writers \ {t}) = Cardinality(Writers) - 1
  BY ZenonT(40), <1>1, ThreadSets
<1>3. Cardinality(Writers \ {t}) = 0
  BY <1>1, <1>2
<1>4. Writers \ {t} = {}
  BY ZenonT(40), <1>1, <1>3, ThreadSets
<1> QED
  BY ZenonT(40), <1>4 DEF StateExact

\* A mutex that is not held exclusively has no writer, and its state_ is the
\* number of its readers.
LEMMA NoWriter ==
  ASSUME StateExact, state >= 0
  PROVE  /\ Writers = {} /\ state = Cardinality(Readers)
         /\ state = 0 => Readers = {}
<1>1. Readers \in SUBSET Threads
  BY ZenonT(40) DEF Readers
<1>2. Writers = {}
  BY DEF StateExact
<1> QED
  BY ZenonT(40), <1>1, <1>2, ThreadSets DEF StateExact

\* A thread enters the kernel's queue when it goes to sleep, and leaves it when it
\* is woken, interrupted or timed out.
LEMMA QueueStep ==
  ASSUME TypeInv, QueueInv, [Next]_vars
  PROVE  QueueInv'
<1>1. ASSUME UNCHANGED vars PROVE QueueInv'
  BY ZenonT(40), <1>1 DEF vars, TypeInv, QueueInv
<1>2. ASSUME NEW t \in Threads, SharedCas(t) PROVE QueueInv'
  BY ZenonT(40), <1>2 DEF SharedCas, TypeInv, QueueInv
<1>3. ASSUME NEW t \in Threads, SharedSeesWriter(t) PROVE QueueInv'
  BY ZenonT(40), <1>3 DEF SharedSeesWriter, TypeInv, QueueInv
<1>4. ASSUME NEW t \in Threads, CountReader(t) PROVE QueueInv'
  BY ZenonT(40), <1>4 DEF CountReader, TypeInv, QueueInv
<1>5. ASSUME NEW t \in Threads, UncountReader(t) PROVE QueueInv'
  BY ZenonT(40), <1>5 DEF UncountReader, TypeInv, QueueInv
<1>6. ASSUME NEW t \in Threads, LockCas(t) PROVE QueueInv'
  BY ZenonT(40), <1>6 DEF LockCas, TypeInv, QueueInv
<1>7. ASSUME NEW t \in Threads, LockSeesHeld(t) PROVE QueueInv'
  BY ZenonT(40), <1>7 DEF LockSeesHeld, TypeInv, QueueInv
<1>8. ASSUME NEW t \in Threads, CountWriter(t) PROVE QueueInv'
  BY ZenonT(40), <1>8 DEF CountWriter, TypeInv, QueueInv
<1>9. ASSUME NEW t \in Threads, UncountWriter(t) PROVE QueueInv'
  BY ZenonT(40), <1>9 DEF UncountWriter, TypeInv, QueueInv
<1>10. ASSUME NEW t \in Threads, LockTaken(t) PROVE QueueInv'
  BY ZenonT(40), <1>10 DEF LockTaken, TypeInv, QueueInv
<1>11. ASSUME NEW t \in Threads, ClearOwner(t) PROVE QueueInv'
  BY ZenonT(40), <1>11 DEF ClearOwner, TypeInv, QueueInv
<1>12. ASSUME NEW t \in Threads, UnlockCas(t) PROVE QueueInv'
  BY ZenonT(40), <1>12 DEF UnlockCas, TypeInv, QueueInv
<1>13. ASSUME NEW t \in Threads, FutexWait(t) PROVE QueueInv'
  BY <1>13 DEF FutexWait, AfterWait, TypeInv, QueueInv
<1>14. ASSUME NEW t \in Threads, LoadPending(t) PROVE QueueInv'
  BY ZenonT(40), <1>14 DEF LoadPending, TypeInv, QueueInv
<1>15. ASSUME NEW t \in Threads, FutexWakeAll(t) PROVE QueueInv'
  BY ZenonT(40), <1>15 DEF FutexWakeAll, AfterWait, TypeInv, QueueInv
<1>16. ASSUME NEW t \in Threads, SharedUnlock(t) PROVE QueueInv'
  BY ZenonT(40), <1>16 DEF SharedUnlock, TypeInv, QueueInv
<1>17. ASSUME NEW t \in Threads, ExclusiveUnlock(t) PROVE QueueInv'
  BY ZenonT(40), <1>17 DEF ExclusiveUnlock, TypeInv, QueueInv
<1>18. ASSUME NEW t \in Threads, SharedLock(t) PROVE QueueInv'
  BY ZenonT(40), <1>18 DEF SharedLock, TypeInv, QueueInv
<1>19. ASSUME NEW t \in Threads, SharedTryLock(t) PROVE QueueInv'
  BY ZenonT(40), <1>19 DEF SharedTryLock, TypeInv, QueueInv
<1>20. ASSUME NEW t \in Threads, ExclusiveLock(t) PROVE QueueInv'
  BY ZenonT(40), <1>20 DEF ExclusiveLock, TypeInv, QueueInv
<1>21. ASSUME NEW t \in Threads, ExclusiveLockWithTimeout(t) PROVE QueueInv'
  BY ZenonT(40), <1>21 DEF ExclusiveLockWithTimeout, TypeInv, QueueInv
<1>22. ASSUME NEW t \in Threads, FutexWaitInterrupted(t) PROVE QueueInv'
  BY ZenonT(40), <1>22 DEF FutexWaitInterrupted, AfterWait, TypeInv, QueueInv
<1>23. ASSUME NEW t \in Threads, FutexWaitTimesOut(t) PROVE QueueInv'
  BY ZenonT(40), <1>23 DEF FutexWaitTimesOut, TypeInv, QueueInv
<1>24. ASSUME NEW t \in Threads, TimedOutBeforeWait(t) PROVE QueueInv'
  BY ZenonT(40), <1>24 DEF TimedOutBeforeWait, TypeInv, QueueInv
<1> QED
  BY ZenonT(40), <1>1, <1>2, <1>3, <1>4, <1>5, <1>6, <1>7, <1>8, <1>9, <1>10,
     <1>11, <1>12, <1>13, <1>14, <1>15, <1>16, <1>17, <1>18, <1>19, <1>20,
     <1>21, <1>22, <1>23, <1>24 DEF Next, MutexStep

\* The expected value of a futex wait is a value of state_ with which the lock
\* call could not go on.
LEMMA SeenStep ==
  ASSUME TypeInv, QueueInv, SeenInv, [Next]_vars
  PROVE  SeenInv'
<1>1. ASSUME UNCHANGED vars PROVE SeenInv'
  BY ZenonT(40), <1>1 DEF vars, TypeInv, QueueInv, SeenInv
<1>2. ASSUME NEW t \in Threads, SharedCas(t) PROVE SeenInv'
  BY ZenonT(40), <1>2 DEF SharedCas, TypeInv, QueueInv, SeenInv
<1>3. ASSUME NEW t \in Threads, SharedSeesWriter(t) PROVE SeenInv'
  BY <1>3 DEF SharedSeesWriter, TypeInv, QueueInv, SeenInv
<1>4. ASSUME NEW t \in Threads, CountReader(t) PROVE SeenInv'
  BY ZenonT(40), <1>4 DEF CountReader, TypeInv, QueueInv, SeenInv
<1>5. ASSUME NEW t \in Threads, UncountReader(t) PROVE SeenInv'
  BY ZenonT(40), <1>5 DEF UncountReader, TypeInv, QueueInv, SeenInv
<1>6. ASSUME NEW t \in Threads, LockCas(t) PROVE SeenInv'
  BY ZenonT(40), <1>6 DEF LockCas, TypeInv, QueueInv, SeenInv
<1>7. ASSUME NEW t \in Threads, LockSeesHeld(t) PROVE SeenInv'
  BY ZenonT(40), <1>7 DEF LockSeesHeld, TypeInv, QueueInv, SeenInv
<1>8. ASSUME NEW t \in Threads, CountWriter(t) PROVE SeenInv'
  BY ZenonT(40), <1>8 DEF CountWriter, TypeInv, QueueInv, SeenInv
<1>9. ASSUME NEW t \in Threads, UncountWriter(t) PROVE SeenInv'
  BY ZenonT(40), <1>9 DEF UncountWriter, TypeInv, QueueInv, SeenInv
<1>10. ASSUME NEW t \in Threads, LockTaken(t) PROVE SeenInv'
  BY ZenonT(40), <1>10 DEF LockTaken, TypeInv, QueueInv, SeenInv
<1>11. ASSUME NEW t \in Threads, ClearOwner(t) PROVE SeenInv'
  BY ZenonT(40), <1>11 DEF ClearOwner, TypeInv, QueueInv, SeenInv
<1>12. ASSUME NEW t \in Threads, UnlockCas(t) PROVE SeenInv'
  BY ZenonT(40), <1>12 DEF UnlockCas, TypeInv, QueueInv, SeenInv
<1>13. ASSUME NEW t \in Threads, FutexWait(t) PROVE SeenInv'
  BY ZenonT(40), <1>13 DEF FutexWait, AfterWait, TypeInv, QueueInv, SeenInv
<1>14. ASSUME NEW t \in Threads, LoadPending(t) PROVE SeenInv'
  BY ZenonT(40), <1>14 DEF LoadPending, TypeInv, QueueInv, SeenInv
<1>15. ASSUME NEW t \in Threads, FutexWakeAll(t) PROVE SeenInv'
  BY ZenonT(40), <1>15 DEF FutexWakeAll, AfterWait, TypeInv, QueueInv, SeenInv
<1>16. ASSUME NEW t \in Threads, SharedUnlock(t) PROVE SeenInv'
  BY ZenonT(40), <1>16 DEF SharedUnlock, TypeInv, QueueInv, SeenInv
<1>17. ASSUME NEW t \in Threads, ExclusiveUnlock(t) PROVE SeenInv'
  BY ZenonT(40), <1>17 DEF ExclusiveUnlock, TypeInv, QueueInv, SeenInv
<1>18. ASSUME NEW t \in Threads, SharedLock(t) PROVE SeenInv'
  BY ZenonT(40), <1>18 DEF SharedLock, TypeInv, QueueInv, SeenInv
<1>19. ASSUME NEW t \in Threads, SharedTryLock(t) PROVE SeenInv'
  BY ZenonT(40), <1>19 DEF SharedTryLock, TypeInv, QueueInv, SeenInv
<1>20. ASSUME NEW t \in Threads, ExclusiveLock(t) PROVE SeenInv'
  BY ZenonT(40), <1>20 DEF ExclusiveLock, TypeInv, QueueInv, SeenInv
<1>21. ASSUME NEW t \in Threads, ExclusiveLockWithTimeout(t) PROVE SeenInv'
  BY ZenonT(40), <1>21 DEF ExclusiveLockWithTimeout, TypeInv, QueueInv, SeenInv
<1>22. ASSUME NEW t \in Threads, FutexWaitInterrupted(t) PROVE SeenInv'
  BY ZenonT(40), <1>22
  DEF FutexWaitInterrupted, AfterWait, TypeInv, QueueInv, SeenInv
<1>23. ASSUME NEW t \in Threads, FutexWaitTimesOut(t) PROVE SeenInv'
  BY ZenonT(40), <1>23 DEF FutexWaitTimesOut, TypeInv, QueueInv, SeenInv
<1>24. ASSUME NEW t \in Threads, TimedOutBeforeWait(t) PROVE SeenInv'
  BY ZenonT(40), <1>24 DEF TimedOutBeforeWait, TypeInv, QueueInv, SeenInv
<1> QED
  BY ZenonT(40), <1>1, <1>2, <1>3, <1>4, <1>5, <1>6, <1>7, <1>8, <1>9, <1>10,
     <1>11, <1>12, <1>13, <1>14, <1>15, <1>16, <1>17, <1>18, <1>19, <1>20,
     <1>21, <1>22, <1>23, <1>24 DEF Next, MutexStep

\* A thread that is counted makes the count positive.
LEMMA Counted ==
  ASSUME TypeInv, PendingExact, NEW t \in Threads
  PROVE  /\ pc[t] \in PendingReaderPcs => pendingReaders > 0
         /\ pc[t] \in PendingWriterPcs => pendingWriters > 0
<1>1. Cardinality(PendingReaders) \in Nat /\ Cardinality(PendingWriters) \in Nat
  BY ZenonT(40), ThreadSets DEF PendingReaders, PendingWriters
<1>2. pc[t] \in PendingReaderPcs => Cardinality(PendingReaders) # 0
  BY ZenonT(40), ThreadSets DEF PendingReaders
<1>3. pc[t] \in PendingWriterPcs => Cardinality(PendingWriters) # 0
  BY ZenonT(40), ThreadSets DEF PendingWriters
<1> QED
  BY <1>1, <1>2, <1>3 DEF PendingExact, PendingReaders, PendingWriters

\* A pending count changes with the threads it counts.
LEMMA PendingStep ==
  ASSUME TypeInv, QueueInv, PendingExact, [Next]_vars
  PROVE  PendingExact'
<1>0. ASSUME UNCHANGED <<PendingReaders, PendingWriters, pendingReaders, pendingWriters>> PROVE PendingExact'
  BY ZenonT(40), <1>0 DEF PendingExact, PendingReaders, PendingWriters
<1>1. ASSUME UNCHANGED vars PROVE UNCHANGED <<PendingReaders, PendingWriters, pendingReaders, pendingWriters>>
  BY ZenonT(40), <1>1
  DEF vars, PendingReaders, PendingWriters, PendingReaderPcs,
      PendingWriterPcs, TypeInv, QueueInv
<1>2. ASSUME NEW t \in Threads, SharedCas(t) PROVE UNCHANGED <<PendingReaders, PendingWriters, pendingReaders, pendingWriters>>
  BY ZenonT(40), <1>2
  DEF SharedCas, PendingReaders, PendingWriters, PendingReaderPcs,
      PendingWriterPcs, TypeInv, QueueInv
<1>3. ASSUME NEW t \in Threads, SharedSeesWriter(t) PROVE UNCHANGED <<PendingReaders, PendingWriters, pendingReaders, pendingWriters>>
  BY ZenonT(40), <1>3
  DEF SharedSeesWriter, PendingReaders, PendingWriters, PendingReaderPcs,
      PendingWriterPcs, TypeInv, QueueInv
<1>4. ASSUME NEW t \in Threads, CountReader(t) PROVE PendingExact'
  <2>1. PendingWriters' = PendingWriters /\ pendingWriters' = pendingWriters
    BY ZenonT(40), <1>4
    DEF CountReader, PendingReaders, PendingWriters, PendingReaderPcs,
        PendingWriterPcs, TypeInv
  <2>2. t \notin PendingReaders /\ PendingReaders' = PendingReaders \union {t}
    BY ZenonT(40), <1>4
    DEF CountReader, PendingReaders, PendingWriters, PendingReaderPcs,
        PendingWriterPcs, TypeInv
  <2>3. pendingReaders' = pendingReaders + 1
    BY ZenonT(40), <1>4 DEF CountReader
  <2>4. Cardinality(PendingReaders') = Cardinality(PendingReaders) + 1
    BY ZenonT(40), <2>2, ThreadSets DEF PendingReaders
  <2> QED
    BY ZenonT(40), <2>1, <2>3, <2>4
    DEF PendingExact, PendingReaders, PendingWriters
<1>5. ASSUME NEW t \in Threads, UncountReader(t) PROVE PendingExact'
  <2>1. PendingWriters' = PendingWriters /\ pendingWriters' = pendingWriters
    BY ZenonT(40), <1>5
    DEF UncountReader, PendingReaders, PendingWriters, PendingReaderPcs,
        PendingWriterPcs, TypeInv
  <2>2. t \in PendingReaders /\ PendingReaders' = PendingReaders \ {t}
    BY ZenonT(40), <1>5
    DEF UncountReader, PendingReaders, PendingWriters, PendingReaderPcs,
        PendingWriterPcs, TypeInv
  <2>3. pendingReaders' = pendingReaders - 1
    BY ZenonT(40), <1>5 DEF UncountReader
  <2>4. Cardinality(PendingReaders') = Cardinality(PendingReaders) - 1
    BY ZenonT(40), <2>2, ThreadSets DEF PendingReaders
  <2> QED
    BY ZenonT(40), <2>1, <2>3, <2>4
    DEF PendingExact, PendingReaders, PendingWriters
<1>6. ASSUME NEW t \in Threads, LockCas(t) PROVE UNCHANGED <<PendingReaders, PendingWriters, pendingReaders, pendingWriters>>
  BY ZenonT(40), <1>6
  DEF LockCas, PendingReaders, PendingWriters, PendingReaderPcs,
      PendingWriterPcs, TypeInv, QueueInv
<1>7. ASSUME NEW t \in Threads, LockSeesHeld(t) PROVE UNCHANGED <<PendingReaders, PendingWriters, pendingReaders, pendingWriters>>
  BY ZenonT(40), <1>7
  DEF LockSeesHeld, PendingReaders, PendingWriters, PendingReaderPcs,
      PendingWriterPcs, TypeInv, QueueInv
<1>8. ASSUME NEW t \in Threads, CountWriter(t) PROVE PendingExact'
  <2>1. PendingReaders' = PendingReaders /\ pendingReaders' = pendingReaders
    BY ZenonT(40), <1>8
    DEF CountWriter, PendingReaders, PendingWriters, PendingReaderPcs,
        PendingWriterPcs, TypeInv
  <2>2. t \notin PendingWriters /\ PendingWriters' = PendingWriters \union {t}
    BY ZenonT(40), <1>8
    DEF CountWriter, PendingReaders, PendingWriters, PendingReaderPcs,
        PendingWriterPcs, TypeInv
  <2>3. pendingWriters' = pendingWriters + 1
    BY ZenonT(40), <1>8 DEF CountWriter
  <2>4. Cardinality(PendingWriters') = Cardinality(PendingWriters) + 1
    BY ZenonT(40), <2>2, ThreadSets DEF PendingWriters
  <2> QED
    BY ZenonT(40), <2>1, <2>3, <2>4
    DEF PendingExact, PendingReaders, PendingWriters
<1>9. ASSUME NEW t \in Threads, UncountWriter(t) PROVE PendingExact'
  <2>1. PendingReaders' = PendingReaders /\ pendingReaders' = pendingReaders
    BY ZenonT(40), <1>9
    DEF UncountWriter, PendingReaders, PendingWriters, PendingReaderPcs,
        PendingWriterPcs, TypeInv
  <2>2. t \in PendingWriters /\ PendingWriters' = PendingWriters \ {t}
    BY ZenonT(40), <1>9
    DEF UncountWriter, PendingReaders, PendingWriters, PendingReaderPcs,
        PendingWriterPcs, TypeInv
  <2>3. pendingWriters' = pendingWriters - 1
    BY ZenonT(40), <1>9 DEF UncountWriter
  <2>4. Cardinality(PendingWriters') = Cardinality(PendingWriters) - 1
    BY ZenonT(40), <2>2, ThreadSets DEF PendingWriters
  <2> QED
    BY ZenonT(40), <2>1, <2>3, <2>4
    DEF PendingExact, PendingReaders, PendingWriters
<1>10. ASSUME NEW t \in Threads, LockTaken(t) PROVE UNCHANGED <<PendingReaders, PendingWriters, pendingReaders, pendingWriters>>
  BY ZenonT(40), <1>10
  DEF LockTaken, PendingReaders, PendingWriters, PendingReaderPcs,
      PendingWriterPcs, TypeInv, QueueInv
<1>11. ASSUME NEW t \in Threads, ClearOwner(t) PROVE UNCHANGED <<PendingReaders, PendingWriters, pendingReaders, pendingWriters>>
  BY ZenonT(40), <1>11
  DEF ClearOwner, PendingReaders, PendingWriters, PendingReaderPcs,
      PendingWriterPcs, TypeInv, QueueInv
<1>12. ASSUME NEW t \in Threads, UnlockCas(t) PROVE UNCHANGED <<PendingReaders, PendingWriters, pendingReaders, pendingWriters>>
  BY ZenonT(40), <1>12
  DEF UnlockCas, PendingReaders, PendingWriters, PendingReaderPcs,
      PendingWriterPcs, TypeInv, QueueInv
<1>13. ASSUME NEW t \in Threads, FutexWait(t) PROVE UNCHANGED <<PendingReaders, PendingWriters, pendingReaders, pendingWriters>>
  BY ZenonT(40), <1>13
  DEF FutexWait, AfterWait, PendingReaders, PendingWriters, PendingReaderPcs,
      PendingWriterPcs, TypeInv, QueueInv
<1>14. ASSUME NEW t \in Threads, LoadPending(t) PROVE UNCHANGED <<PendingReaders, PendingWriters, pendingReaders, pendingWriters>>
  BY ZenonT(40), <1>14
  DEF LoadPending, PendingReaders, PendingWriters, PendingReaderPcs,
      PendingWriterPcs, TypeInv, QueueInv
<1>15. ASSUME NEW t \in Threads, FutexWakeAll(t) PROVE UNCHANGED <<PendingReaders, PendingWriters, pendingReaders, pendingWriters>>
  BY ZenonT(40), <1>15
  DEF FutexWakeAll, AfterWait, PendingReaders, PendingWriters,
      PendingReaderPcs, PendingWriterPcs, TypeInv, QueueInv
<1>16. ASSUME NEW t \in Threads, SharedUnlock(t) PROVE UNCHANGED <<PendingReaders, PendingWriters, pendingReaders, pendingWriters>>
  BY ZenonT(40), <1>16
  DEF SharedUnlock, PendingReaders, PendingWriters, PendingReaderPcs,
      PendingWriterPcs, TypeInv, QueueInv
<1>17. ASSUME NEW t \in Threads, ExclusiveUnlock(t) PROVE UNCHANGED <<PendingReaders, PendingWriters, pendingReaders, pendingWriters>>
  BY ZenonT(40), <1>17
  DEF ExclusiveUnlock, PendingReaders, PendingWriters, PendingReaderPcs,
      PendingWriterPcs, TypeInv, QueueInv
<1>18. ASSUME NEW t \in Threads, SharedLock(t) PROVE UNCHANGED <<PendingReaders, PendingWriters, pendingReaders, pendingWriters>>
  BY ZenonT(40), <1>18
  DEF SharedLock, PendingReaders, PendingWriters, PendingReaderPcs,
      PendingWriterPcs, TypeInv, QueueInv
<1>19. ASSUME NEW t \in Threads, SharedTryLock(t) PROVE UNCHANGED <<PendingReaders, PendingWriters, pendingReaders, pendingWriters>>
  BY ZenonT(40), <1>19
  DEF SharedTryLock, PendingReaders, PendingWriters, PendingReaderPcs,
      PendingWriterPcs, TypeInv, QueueInv
<1>20. ASSUME NEW t \in Threads, ExclusiveLock(t) PROVE UNCHANGED <<PendingReaders, PendingWriters, pendingReaders, pendingWriters>>
  BY ZenonT(40), <1>20
  DEF ExclusiveLock, PendingReaders, PendingWriters, PendingReaderPcs,
      PendingWriterPcs, TypeInv, QueueInv
<1>21. ASSUME NEW t \in Threads, ExclusiveLockWithTimeout(t) PROVE UNCHANGED <<PendingReaders, PendingWriters, pendingReaders, pendingWriters>>
  BY ZenonT(40), <1>21
  DEF ExclusiveLockWithTimeout, PendingReaders, PendingWriters,
      PendingReaderPcs, PendingWriterPcs, TypeInv, QueueInv
<1>22. ASSUME NEW t \in Threads, FutexWaitInterrupted(t) PROVE UNCHANGED <<PendingReaders, PendingWriters, pendingReaders, pendingWriters>>
  BY ZenonT(40), <1>22
  DEF FutexWaitInterrupted, AfterWait, PendingReaders, PendingWriters,
      PendingReaderPcs, PendingWriterPcs, TypeInv, QueueInv
<1>23. ASSUME NEW t \in Threads, FutexWaitTimesOut(t) PROVE UNCHANGED <<PendingReaders, PendingWriters, pendingReaders, pendingWriters>>
  BY ZenonT(40), <1>23
  DEF FutexWaitTimesOut, PendingReaders, PendingWriters, PendingReaderPcs,
      PendingWriterPcs, TypeInv, QueueInv
<1>24. ASSUME NEW t \in Threads, TimedOutBeforeWait(t) PROVE UNCHANGED <<PendingReaders, PendingWriters, pendingReaders, pendingWriters>>
  BY ZenonT(40), <1>24
  DEF TimedOutBeforeWait, PendingReaders, PendingWriters, PendingReaderPcs,
      PendingWriterPcs, TypeInv, QueueInv
<1> QED
  BY ZenonT(40), <1>0, <1>1, <1>2, <1>3, <1>4, <1>5, <1>6, <1>7, <1>8, <1>9,
     <1>10, <1>11, <1>12, <1>13, <1>14, <1>15, <1>16, <1>17, <1>18, <1>19,
     <1>20, <1>21, <1>22, <1>23, <1>24 DEF Next, MutexStep

\* A thread that has unlocked wakes the sleepers: it cannot find their count to be
\* zero while they sleep.
LEMMA WakerStep ==
  ASSUME TypeInv, QueueInv, SeenInv, PendingExact, WakerInv, [Next]_vars
  PROVE  WakerInv'
<1>1. ASSUME UNCHANGED vars PROVE WakerInv'
  BY ZenonT(40), <1>1
  DEF vars, TypeInv, QueueInv, SeenInv, WakerInv, WakesReaders, WakesWriters,
      UnlockedPcs
<1>2. ASSUME NEW t \in Threads, SharedCas(t) PROVE WakerInv'
  BY <1>2
  DEF SharedCas, TypeInv, QueueInv, SeenInv, WakerInv, WakesReaders,
      WakesWriters, UnlockedPcs
<1>3. ASSUME NEW t \in Threads, SharedSeesWriter(t) PROVE WakerInv'
  BY ZenonT(40), <1>3
  DEF SharedSeesWriter, TypeInv, QueueInv, SeenInv, WakerInv, WakesReaders,
      WakesWriters, UnlockedPcs
<1>4. ASSUME NEW t \in Threads, CountReader(t) PROVE WakerInv'
  BY ZenonT(40), <1>4
  DEF CountReader, TypeInv, QueueInv, SeenInv, WakerInv, WakesReaders,
      WakesWriters, UnlockedPcs
<1>5. ASSUME NEW t \in Threads, UncountReader(t) PROVE WakerInv'
  BY ZenonT(40), <1>5
  DEF UncountReader, TypeInv, QueueInv, SeenInv, WakerInv, WakesReaders,
      WakesWriters, UnlockedPcs
<1>6. ASSUME NEW t \in Threads, LockCas(t) PROVE WakerInv'
  BY <1>6
  DEF LockCas, TypeInv, QueueInv, SeenInv, WakerInv, WakesReaders,
      WakesWriters, UnlockedPcs
<1>7. ASSUME NEW t \in Threads, LockSeesHeld(t) PROVE WakerInv'
  BY ZenonT(40), <1>7
  DEF LockSeesHeld, TypeInv, QueueInv, SeenInv, WakerInv, WakesReaders,
      WakesWriters, UnlockedPcs
<1>8. ASSUME NEW t \in Threads, CountWriter(t) PROVE WakerInv'
  BY ZenonT(40), <1>8
  DEF CountWriter, TypeInv, QueueInv, SeenInv, WakerInv, WakesReaders,
      WakesWriters, UnlockedPcs
<1>9. ASSUME NEW t \in Threads, UncountWriter(t) PROVE WakerInv'
  BY ZenonT(40), <1>9
  DEF UncountWriter, TypeInv, QueueInv, SeenInv, WakerInv, WakesReaders,
      WakesWriters, UnlockedPcs
<1>10. ASSUME NEW t \in Threads, LockTaken(t) PROVE WakerInv'
  BY ZenonT(40), <1>10
  DEF LockTaken, TypeInv, QueueInv, SeenInv, WakerInv, WakesReaders,
      WakesWriters, UnlockedPcs
<1>11. ASSUME NEW t \in Threads, ClearOwner(t) PROVE WakerInv'
  BY ZenonT(40), <1>11
  DEF ClearOwner, TypeInv, QueueInv, SeenInv, WakerInv, WakesReaders,
      WakesWriters, UnlockedPcs
<1>12. ASSUME NEW t \in Threads, UnlockCas(t) PROVE WakerInv'
  BY ZenonT(40), <1>12
  DEF UnlockCas, TypeInv, QueueInv, SeenInv, WakerInv, WakesReaders,
      WakesWriters, UnlockedPcs
<1>13. ASSUME NEW t \in Threads, FutexWait(t) PROVE WakerInv'
  BY <1>13
  DEF FutexWait, AfterWait, TypeInv, QueueInv, SeenInv, WakerInv,
      WakesReaders, WakesWriters, UnlockedPcs
<1>14. ASSUME NEW t \in Threads, LoadPending(t) PROVE WakerInv'
  <2>1. ASSUME NEW r \in Threads, pc[r] = "sharedAsleep" PROVE pendingReaders > 0
    BY ZenonT(40), <2>1, Counted DEF PendingReaderPcs
  <2>2. ASSUME NEW w \in Threads, pc[w] = "asleep" PROVE pendingWriters > 0
    BY ZenonT(40), <2>2, Counted DEF PendingWriterPcs
  <2>3. ASSUME NEW r \in Threads, pc'[r] = "sharedAsleep", state' >= 0
        PROVE  \E u \in Threads : WakesReaders(u)'
    BY <1>14, <2>1, <2>3
    DEF LoadPending, TypeInv, WakerInv, WakesReaders, UnlockedPcs
  <2>4. ASSUME NEW w \in Threads, pc'[w] = "asleep", state' = 0
        PROVE  \E u \in Threads : WakesWriters(u)'
    BY <1>14, <2>2, <2>4
    DEF LoadPending, TypeInv, WakerInv, WakesWriters, UnlockedPcs
  <2> QED
    BY ZenonT(40), <2>3, <2>4 DEF WakerInv
<1>15. ASSUME NEW t \in Threads, FutexWakeAll(t) PROVE WakerInv'
  BY ZenonT(40), <1>15
  DEF FutexWakeAll, AfterWait, TypeInv, QueueInv, SeenInv, WakerInv,
      WakesReaders, WakesWriters, UnlockedPcs
<1>16. ASSUME NEW t \in Threads, SharedUnlock(t) PROVE WakerInv'
  BY <1>16
  DEF SharedUnlock, TypeInv, QueueInv, SeenInv, WakerInv, WakesReaders,
      WakesWriters, UnlockedPcs
<1>17. ASSUME NEW t \in Threads, ExclusiveUnlock(t) PROVE WakerInv'
  BY ZenonT(40), <1>17
  DEF ExclusiveUnlock, TypeInv, QueueInv, SeenInv, WakerInv, WakesReaders,
      WakesWriters, UnlockedPcs
<1>18. ASSUME NEW t \in Threads, SharedLock(t) PROVE WakerInv'
  BY ZenonT(40), <1>18
  DEF SharedLock, TypeInv, QueueInv, SeenInv, WakerInv, WakesReaders,
      WakesWriters, UnlockedPcs
<1>19. ASSUME NEW t \in Threads, SharedTryLock(t) PROVE WakerInv'
  BY <1>19
  DEF SharedTryLock, TypeInv, QueueInv, SeenInv, WakerInv, WakesReaders,
      WakesWriters, UnlockedPcs
<1>20. ASSUME NEW t \in Threads, ExclusiveLock(t) PROVE WakerInv'
  BY ZenonT(40), <1>20
  DEF ExclusiveLock, TypeInv, QueueInv, SeenInv, WakerInv, WakesReaders,
      WakesWriters, UnlockedPcs
<1>21. ASSUME NEW t \in Threads, ExclusiveLockWithTimeout(t) PROVE WakerInv'
  BY ZenonT(40), <1>21
  DEF ExclusiveLockWithTimeout, TypeInv, QueueInv, SeenInv, WakerInv,
      WakesReaders, WakesWriters, UnlockedPcs
<1>22. ASSUME NEW t \in Threads, FutexWaitInterrupted(t) PROVE WakerInv'
  BY <1>22
  DEF FutexWaitInterrupted, AfterWait, TypeInv, QueueInv, SeenInv, WakerInv,
      WakesReaders, WakesWriters, UnlockedPcs
<1>23. ASSUME NEW t \in Threads, FutexWaitTimesOut(t) PROVE WakerInv'
  BY <1>23
  DEF FutexWaitTimesOut, TypeInv, QueueInv, SeenInv, WakerInv, WakesReaders,
      WakesWriters, UnlockedPcs
<1>24. ASSUME NEW t \in Threads, TimedOutBeforeWait(t) PROVE WakerInv'
  BY <1>24
  DEF TimedOutBeforeWait, TypeInv, QueueInv, SeenInv, WakerInv, WakesReaders,
      WakesWriters, UnlockedPcs
<1> QED
  BY ZenonT(40), <1>1, <1>2, <1>3, <1>4, <1>5, <1>6, <1>7, <1>8, <1>9, <1>10,
     <1>11, <1>12, <1>13, <1>14, <1>15, <1>16, <1>17, <1>18, <1>19, <1>20,
     <1>21, <1>22, <1>23, <1>24 DEF Next, MutexStep

\* The compare-and-sets on state_ hand the mutex over.
LEMMA StateStep ==
  ASSUME TypeInv, QueueInv, StateExact, [Next]_vars
  PROVE  StateExact'
<1>0. ASSUME Writing' \subseteq Writing /\ UNCHANGED <<Readers, Writers, state, owner>> PROVE StateExact'
  BY ZenonT(40), <1>0 DEF StateExact, Writing
<1>1. ASSUME UNCHANGED vars PROVE Writing' \subseteq Writing /\ UNCHANGED <<Readers, Writers, state, owner>>
  BY ZenonT(40), <1>1 DEF vars, Readers, Writers, Writing, TypeInv, QueueInv
<1>2. ASSUME NEW t \in Threads, SharedCas(t) PROVE StateExact'
  <2>1. Writers = {} /\ state = Cardinality(Readers)
    BY ZenonT(40), <1>2, NoWriter DEF SharedCas
  <2>2. t \notin Readers /\ Readers' = Readers \union {t} /\ Writers' = Writers
    BY ZenonT(40), <1>2 DEF SharedCas, Readers, Writers, TypeInv
  <2>3. Cardinality(Readers') = Cardinality(Readers) + 1
    BY ZenonT(40), <2>2, ThreadSets DEF Readers
  <2>4. state' = state + 1
    BY ZenonT(40), <1>2 DEF SharedCas
  <2>5. \A u \in Threads : pc'[u] # "writing"
    BY ZenonT(40), <2>1, <2>2 DEF Writers
  <2> QED
    BY ZenonT(40), <2>1, <2>2, <2>3, <2>4, <2>5 DEF StateExact
<1>3. ASSUME NEW t \in Threads, SharedSeesWriter(t) PROVE Writing' \subseteq Writing /\ UNCHANGED <<Readers, Writers, state, owner>>
  BY ZenonT(40), <1>3
  DEF SharedSeesWriter, Readers, Writers, Writing, TypeInv, QueueInv
<1>4. ASSUME NEW t \in Threads, CountReader(t) PROVE Writing' \subseteq Writing /\ UNCHANGED <<Readers, Writers, state, owner>>
  BY ZenonT(40), <1>4
  DEF CountReader, Readers, Writers, Writing, TypeInv, QueueInv
<1>5. ASSUME NEW t \in Threads, UncountReader(t) PROVE Writing' \subseteq Writing /\ UNCHANGED <<Readers, Writers, state, owner>>
  BY ZenonT(40), <1>5
  DEF UncountReader, Readers, Writers, Writing, TypeInv, QueueInv
<1>6. ASSUME NEW t \in Threads, LockCas(t) PROVE StateExact'
  <2>1. Writers = {} /\ Readers = {}
    BY <1>6, NoWriter DEF LockCas
  <2>2. Readers' = {} /\ Writers' = {t}
    BY ZenonT(40), <1>6, <2>1 DEF LockCas, Readers, Writers, TypeInv
  <2>3. Cardinality(Writers') = 1
    BY ZenonT(40), <2>2, FS_Singleton
  <2>4. state' = -1
    BY ZenonT(40), <1>6 DEF LockCas
  <2>5. \A u \in Threads : pc'[u] # "writing"
    BY ZenonT(40), <1>6, <2>1 DEF LockCas, Writers, TypeInv
  <2> QED
    BY ZenonT(40), <2>2, <2>3, <2>4, <2>5 DEF StateExact
<1>7. ASSUME NEW t \in Threads, LockSeesHeld(t) PROVE Writing' \subseteq Writing /\ UNCHANGED <<Readers, Writers, state, owner>>
  BY ZenonT(40), <1>7
  DEF LockSeesHeld, Readers, Writers, Writing, TypeInv, QueueInv
<1>8. ASSUME NEW t \in Threads, CountWriter(t) PROVE Writing' \subseteq Writing /\ UNCHANGED <<Readers, Writers, state, owner>>
  BY ZenonT(40), <1>8
  DEF CountWriter, Readers, Writers, Writing, TypeInv, QueueInv
<1>9. ASSUME NEW t \in Threads, UncountWriter(t) PROVE Writing' \subseteq Writing /\ UNCHANGED <<Readers, Writers, state, owner>>
  BY ZenonT(40), <1>9
  DEF UncountWriter, Readers, Writers, Writing, TypeInv, QueueInv
<1>10. ASSUME NEW t \in Threads, LockTaken(t) PROVE StateExact'
  <2>1. Writers = {t}
    BY ZenonT(40), <1>10, OneWriter DEF LockTaken, Writers
  <2>2. Readers' = Readers /\ Writers' = Writers /\ state' = state
    BY ZenonT(40), <1>10 DEF LockTaken, Readers, Writers, TypeInv
  <2>3. \A u \in Threads : pc'[u] = "writing" => owner' = u
    BY ZenonT(40), <1>10, <2>1 DEF LockTaken, Writers, TypeInv
  <2> QED
    BY ZenonT(40), <2>2, <2>3 DEF StateExact
<1>11. ASSUME NEW t \in Threads, ClearOwner(t) PROVE StateExact'
  <2>1. Writers = {t}
    BY ZenonT(40), <1>11, OneWriter DEF ClearOwner, Writers
  <2>2. Readers' = Readers /\ Writers' = Writers /\ state' = state
    BY ZenonT(40), <1>11 DEF ClearOwner, Readers, Writers, TypeInv
  <2>3. \A u \in Threads : pc'[u] = "writing" => owner' = u
    BY ZenonT(40), <1>11, <2>1 DEF ClearOwner, Writers, TypeInv
  <2> QED
    BY ZenonT(40), <2>2, <2>3 DEF StateExact
<1>12. ASSUME NEW t \in Threads, UnlockCas(t) PROVE StateExact'
  <2>1. Writers = {t} /\ Readers = {}
    BY ZenonT(40), <1>12, OneWriter DEF UnlockCas, Writers
  <2>2. Readers' = {} /\ Writers' = {}
    BY ZenonT(40), <1>12, <2>1 DEF UnlockCas, Readers, Writers, TypeInv
  <2>3. Cardinality(Readers') = 0
    BY ZenonT(40), <2>2, FS_EmptySet
  <2>4. state' = 0
    BY ZenonT(40), <1>12 DEF UnlockCas
  <2>5. \A u \in Threads : pc'[u] # "writing"
    BY ZenonT(40), <2>2 DEF Writers
  <2> QED
    BY ZenonT(40), <2>2, <2>3, <2>4, <2>5 DEF StateExact
<1>13. ASSUME NEW t \in Threads, FutexWait(t) PROVE Writing' \subseteq Writing /\ UNCHANGED <<Readers, Writers, state, owner>>
  BY ZenonT(40), <1>13
  DEF FutexWait, AfterWait, Readers, Writers, Writing, TypeInv, QueueInv
<1>14. ASSUME NEW t \in Threads, LoadPending(t) PROVE Writing' \subseteq Writing /\ UNCHANGED <<Readers, Writers, state, owner>>
  BY ZenonT(40), <1>14
  DEF LoadPending, Readers, Writers, Writing, TypeInv, QueueInv
<1>15. ASSUME NEW t \in Threads, FutexWakeAll(t) PROVE Writing' \subseteq Writing /\ UNCHANGED <<Readers, Writers, state, owner>>
  BY ZenonT(40), <1>15
  DEF FutexWakeAll, AfterWait, Readers, Writers, Writing, TypeInv, QueueInv
<1>16. ASSUME NEW t \in Threads, SharedUnlock(t) PROVE StateExact'
  <2> state >= 0
    BY <1>16 DEF SharedUnlock, TypeInv
  <2>1. Writers = {} /\ state = Cardinality(Readers)
    BY ZenonT(40), NoWriter
  <2>2. t \in Readers /\ Readers' = Readers \ {t} /\ Writers' = Writers
    BY ZenonT(40), <1>16 DEF SharedUnlock, Readers, Writers, TypeInv
  <2>3. Cardinality(Readers') = Cardinality(Readers) - 1
    BY ZenonT(40), <2>2, ThreadSets DEF Readers
  <2>4. state' = state - 1
    BY ZenonT(40), <1>16 DEF SharedUnlock
  <2>5. \A u \in Threads : pc'[u] # "writing"
    BY ZenonT(40), <2>1, <2>2 DEF Writers
  <2> QED
    BY ZenonT(40), <2>1, <2>2, <2>3, <2>4, <2>5 DEF StateExact
<1>17. ASSUME NEW t \in Threads, ExclusiveUnlock(t) PROVE Writing' \subseteq Writing /\ UNCHANGED <<Readers, Writers, state, owner>>
  BY ZenonT(40), <1>17
  DEF ExclusiveUnlock, Readers, Writers, Writing, TypeInv, QueueInv
<1>18. ASSUME NEW t \in Threads, SharedLock(t) PROVE Writing' \subseteq Writing /\ UNCHANGED <<Readers, Writers, state, owner>>
  BY ZenonT(40), <1>18
  DEF SharedLock, Readers, Writers, Writing, TypeInv, QueueInv
<1>19. ASSUME NEW t \in Threads, SharedTryLock(t) PROVE StateExact'
  <2>1. Writers = {} /\ state = Cardinality(Readers)
    BY ZenonT(40), <1>19, NoWriter DEF SharedTryLock
  <2>2. t \notin Readers /\ Readers' = Readers \union {t} /\ Writers' = Writers
    BY ZenonT(40), <1>19 DEF SharedTryLock, Readers, Writers, TypeInv
  <2>3. Cardinality(Readers') = Cardinality(Readers) + 1
    BY ZenonT(40), <2>2, ThreadSets DEF Readers
  <2>4. state' = state + 1
    BY ZenonT(40), <1>19 DEF SharedTryLock
  <2>5. \A u \in Threads : pc'[u] # "writing"
    BY ZenonT(40), <2>1, <2>2 DEF Writers
  <2> QED
    BY ZenonT(40), <2>1, <2>2, <2>3, <2>4, <2>5 DEF StateExact
<1>20. ASSUME NEW t \in Threads, ExclusiveLock(t) PROVE Writing' \subseteq Writing /\ UNCHANGED <<Readers, Writers, state, owner>>
  BY ZenonT(40), <1>20
  DEF ExclusiveLock, Readers, Writers, Writing, TypeInv, QueueInv
<1>21. ASSUME NEW t \in Threads, ExclusiveLockWithTimeout(t) PROVE Writing' \subseteq Writing /\ UNCHANGED <<Readers, Writers, state, owner>>
  BY ZenonT(40), <1>21
  DEF ExclusiveLockWithTimeout, Readers, Writers, Writing, TypeInv, QueueInv
<1>22. ASSUME NEW t \in Threads, FutexWaitInterrupted(t) PROVE Writing' \subseteq Writing /\ UNCHANGED <<Readers, Writers, state, owner>>
  BY ZenonT(40), <1>22
  DEF FutexWaitInterrupted, AfterWait, Readers, Writers, Writing, TypeInv,
      QueueInv
<1>23. ASSUME NEW t \in Threads, FutexWaitTimesOut(t) PROVE Writing' \subseteq Writing /\ UNCHANGED <<Readers, Writers, state, owner>>
  BY ZenonT(40), <1>23
  DEF FutexWaitTimesOut, Readers, Writers, Writing, TypeInv, QueueInv
<1>24. ASSUME NEW t \in Threads, TimedOutBeforeWait(t) PROVE Writing' \subseteq Writing /\ UNCHANGED <<Readers, Writers, state, owner>>
  BY ZenonT(40), <1>24
  DEF TimedOutBeforeWait, Readers, Writers, Writing, TypeInv, QueueInv
<1> QED
  BY ZenonT(40), <1>0, <1>1, <1>2, <1>3, <1>4, <1>5, <1>6, <1>7, <1>8, <1>9,
     <1>10, <1>11, <1>12, <1>13, <1>14, <1>15, <1>16, <1>17, <1>18, <1>19,
     <1>20, <1>21, <1>22, <1>23, <1>24 DEF Next, MutexStep

\* The variables keep their types; no count goes below zero.
LEMMA TypeStep ==
  ASSUME TypeInv, QueueInv, PendingExact, [Next]_vars
  PROVE  TypeInv'
<1>1. ASSUME UNCHANGED vars PROVE TypeInv'
  BY ZenonT(40), <1>1 DEF vars, TypeInv, Pc, ReaderPcs, WriterPcs, UnlockedPcs
<1>2. ASSUME NEW t \in Threads, SharedCas(t) PROVE TypeInv'
  BY <1>2 DEF SharedCas, TypeInv, Pc, ReaderPcs, WriterPcs, UnlockedPcs
<1>3. ASSUME NEW t \in Threads, SharedSeesWriter(t) PROVE TypeInv'
  BY ZenonT(40), <1>3
  DEF SharedSeesWriter, TypeInv, Pc, ReaderPcs, WriterPcs, UnlockedPcs
<1>4. ASSUME NEW t \in Threads, CountReader(t) PROVE TypeInv'
  BY <1>4 DEF CountReader, TypeInv, Pc, ReaderPcs, WriterPcs, UnlockedPcs
<1>5. ASSUME NEW t \in Threads, UncountReader(t) PROVE TypeInv'
  <2>1. pendingReaders > 0
    BY ZenonT(40), <1>5, Counted DEF UncountReader, PendingReaderPcs
  <2> QED
    BY <1>5, <2>1 DEF UncountReader, TypeInv, Pc, ReaderPcs
<1>6. ASSUME NEW t \in Threads, LockCas(t) PROVE TypeInv'
  BY ZenonT(40), <1>6
  DEF LockCas, TypeInv, Pc, ReaderPcs, WriterPcs, UnlockedPcs
<1>7. ASSUME NEW t \in Threads, LockSeesHeld(t) PROVE TypeInv'
  BY ZenonT(40), <1>7
  DEF LockSeesHeld, TypeInv, Pc, ReaderPcs, WriterPcs, UnlockedPcs
<1>8. ASSUME NEW t \in Threads, CountWriter(t) PROVE TypeInv'
  BY <1>8 DEF CountWriter, TypeInv, Pc, ReaderPcs, WriterPcs, UnlockedPcs
<1>9. ASSUME NEW t \in Threads, UncountWriter(t) PROVE TypeInv'
  <2>1. pendingWriters > 0
    BY ZenonT(40), <1>9, Counted DEF UncountWriter, PendingWriterPcs
  <2> QED
    BY <1>9, <2>1 DEF UncountWriter, TypeInv, Pc, WriterPcs
<1>10. ASSUME NEW t \in Threads, LockTaken(t) PROVE TypeInv'
  BY ZenonT(40), <1>10
  DEF LockTaken, TypeInv, Pc, ReaderPcs, WriterPcs, UnlockedPcs
<1>11. ASSUME NEW t \in Threads, ClearOwner(t) PROVE TypeInv'
  BY ZenonT(40), <1>11
  DEF ClearOwner, TypeInv, Pc, ReaderPcs, WriterPcs, UnlockedPcs
<1>12. ASSUME NEW t \in Threads, UnlockCas(t) PROVE TypeInv'
  BY ZenonT(40), <1>12
  DEF UnlockCas, TypeInv, Pc, ReaderPcs, WriterPcs, UnlockedPcs
<1>13. ASSUME NEW t \in Threads, FutexWait(t) PROVE TypeInv'
  BY ZenonT(40), <1>13
  DEF FutexWait, AfterWait, TypeInv, Pc, ReaderPcs, WriterPcs, UnlockedPcs
<1>14. ASSUME NEW t \in Threads, LoadPending(t) PROVE TypeInv'
  BY ZenonT(40), <1>14
  DEF LoadPending, TypeInv, Pc, ReaderPcs, WriterPcs, UnlockedPcs
<1>15. ASSUME NEW t \in Threads, FutexWakeAll(t) PROVE TypeInv'
  BY ZenonT(40), <1>15
  DEF FutexWakeAll, AfterWait, TypeInv, Pc, ReaderPcs, WriterPcs, UnlockedPcs
<1>16. ASSUME NEW t \in Threads, SharedUnlock(t) PROVE TypeInv'
  BY <1>16 DEF SharedUnlock, TypeInv, Pc, ReaderPcs, WriterPcs, UnlockedPcs
<1>17. ASSUME NEW t \in Threads, ExclusiveUnlock(t) PROVE TypeInv'
  BY ZenonT(40), <1>17
  DEF ExclusiveUnlock, TypeInv, Pc, ReaderPcs, WriterPcs, UnlockedPcs
<1>18. ASSUME NEW t \in Threads, SharedLock(t) PROVE TypeInv'
  BY <1>18 DEF SharedLock, TypeInv, Pc, ReaderPcs, WriterPcs, UnlockedPcs
<1>19. ASSUME NEW t \in Threads, SharedTryLock(t) PROVE TypeInv'
  BY <1>19 DEF SharedTryLock, TypeInv, Pc, ReaderPcs, WriterPcs, UnlockedPcs
<1>20. ASSUME NEW t \in Threads, ExclusiveLock(t) PROVE TypeInv'
  BY <1>20 DEF ExclusiveLock, TypeInv, Pc, ReaderPcs, WriterPcs, UnlockedPcs
<1>21. ASSUME NEW t \in Threads, ExclusiveLockWithTimeout(t) PROVE TypeInv'
  BY <1>21
  DEF ExclusiveLockWithTimeout, TypeInv, Pc, ReaderPcs, WriterPcs, UnlockedPcs
<1>22. ASSUME NEW t \in Threads, FutexWaitInterrupted(t) PROVE TypeInv'
  BY ZenonT(40), <1>22
  DEF FutexWaitInterrupted, AfterWait, TypeInv, Pc, ReaderPcs, WriterPcs,
      UnlockedPcs
<1>23. ASSUME NEW t \in Threads, FutexWaitTimesOut(t) PROVE TypeInv'
  BY ZenonT(40), <1>23
  DEF FutexWaitTimesOut, TypeInv, Pc, ReaderPcs, WriterPcs, UnlockedPcs
<1>24. ASSUME NEW t \in Threads, TimedOutBeforeWait(t) PROVE TypeInv'
  BY ZenonT(40), <1>24
  DEF TimedOutBeforeWait, TypeInv, Pc, ReaderPcs, WriterPcs, UnlockedPcs
<1> QED
  BY ZenonT(40), <1>1, <1>2, <1>3, <1>4, <1>5, <1>6, <1>7, <1>8, <1>9, <1>10,
     <1>11, <1>12, <1>13, <1>14, <1>15, <1>16, <1>17, <1>18, <1>19, <1>20,
     <1>21, <1>22, <1>23, <1>24 DEF Next, MutexStep

\* Every step is a step of SharedLock or changes nothing there.
LEMMA RefinementStep ==
  ASSUME TypeInv, QueueInv, StateExact, [Next]_vars
  PROVE  [Lock!Next]_<<Readers, Writers>>
<1>1. ASSUME UNCHANGED vars PROVE UNCHANGED <<Readers, Writers>>
  BY ZenonT(40), <1>1 DEF vars, Readers, Writers, TypeInv, QueueInv
<1>2. ASSUME NEW t \in Threads, SharedCas(t) PROVE Lock!SharedLock(t)
  <2>1. Writers = {}
    BY ZenonT(40), <1>2, NoWriter DEF SharedCas
  <2>2. t \notin Readers /\ Readers' = Readers \union {t} /\ Writers' = Writers
    BY ZenonT(40), <1>2 DEF SharedCas, Readers, Writers, TypeInv
  <2> QED
    BY ZenonT(40), <2>1, <2>2 DEF Lock!SharedLock
<1>3. ASSUME NEW t \in Threads, SharedSeesWriter(t) PROVE UNCHANGED <<Readers, Writers>>
  BY ZenonT(40), <1>3 DEF SharedSeesWriter, Readers, Writers, TypeInv, QueueInv
<1>4. ASSUME NEW t \in Threads, CountReader(t) PROVE UNCHANGED <<Readers, Writers>>
  BY ZenonT(40), <1>4 DEF CountReader, Readers, Writers, TypeInv, QueueInv
<1>5. ASSUME NEW t \in Threads, UncountReader(t) PROVE UNCHANGED <<Readers, Writers>>
  BY ZenonT(40), <1>5 DEF UncountReader, Readers, Writers, TypeInv, QueueInv
<1>6. ASSUME NEW t \in Threads, LockCas(t) PROVE Lock!ExclusiveLock(t)
  <2>1. Writers = {} /\ Readers = {}
    BY <1>6, NoWriter DEF LockCas
  <2>2. Readers' = Readers /\ Writers' = {t}
    BY ZenonT(40), <1>6, <2>1 DEF LockCas, Readers, Writers, TypeInv
  <2> QED
    BY ZenonT(40), <2>1, <2>2 DEF Lock!ExclusiveLock
<1>7. ASSUME NEW t \in Threads, LockSeesHeld(t) PROVE UNCHANGED <<Readers, Writers>>
  BY ZenonT(40), <1>7 DEF LockSeesHeld, Readers, Writers, TypeInv, QueueInv
<1>8. ASSUME NEW t \in Threads, CountWriter(t) PROVE UNCHANGED <<Readers, Writers>>
  BY ZenonT(40), <1>8 DEF CountWriter, Readers, Writers, TypeInv, QueueInv
<1>9. ASSUME NEW t \in Threads, UncountWriter(t) PROVE UNCHANGED <<Readers, Writers>>
  BY ZenonT(40), <1>9 DEF UncountWriter, Readers, Writers, TypeInv, QueueInv
<1>10. ASSUME NEW t \in Threads, LockTaken(t) PROVE UNCHANGED <<Readers, Writers>>
  BY ZenonT(40), <1>10 DEF LockTaken, Readers, Writers, TypeInv, QueueInv
<1>11. ASSUME NEW t \in Threads, ClearOwner(t) PROVE UNCHANGED <<Readers, Writers>>
  BY ZenonT(40), <1>11 DEF ClearOwner, Readers, Writers, TypeInv, QueueInv
<1>12. ASSUME NEW t \in Threads, UnlockCas(t) PROVE Lock!ExclusiveUnlock(t)
  <2>1. Writers = {t}
    BY ZenonT(40), <1>12, OneWriter DEF UnlockCas, Writers
  <2>2. Readers' = Readers /\ Writers' = {}
    BY ZenonT(40), <1>12, <2>1 DEF UnlockCas, Readers, Writers, TypeInv
  <2> QED
    BY ZenonT(40), <2>1, <2>2 DEF Lock!ExclusiveUnlock
<1>13. ASSUME NEW t \in Threads, FutexWait(t) PROVE UNCHANGED <<Readers, Writers>>
  BY ZenonT(40), <1>13
  DEF FutexWait, AfterWait, Readers, Writers, TypeInv, QueueInv
<1>14. ASSUME NEW t \in Threads, LoadPending(t) PROVE UNCHANGED <<Readers, Writers>>
  BY ZenonT(40), <1>14 DEF LoadPending, Readers, Writers, TypeInv, QueueInv
<1>15. ASSUME NEW t \in Threads, FutexWakeAll(t) PROVE UNCHANGED <<Readers, Writers>>
  BY ZenonT(40), <1>15
  DEF FutexWakeAll, AfterWait, Readers, Writers, TypeInv, QueueInv
<1>16. ASSUME NEW t \in Threads, SharedUnlock(t) PROVE Lock!SharedUnlock(t)
  BY ZenonT(40), <1>16
  DEF SharedUnlock, Lock!SharedUnlock, Readers, Writers, TypeInv
<1>17. ASSUME NEW t \in Threads, ExclusiveUnlock(t) PROVE UNCHANGED <<Readers, Writers>>
  BY ZenonT(40), <1>17 DEF ExclusiveUnlock, Readers, Writers, TypeInv, QueueInv
<1>18. ASSUME NEW t \in Threads, SharedLock(t) PROVE UNCHANGED <<Readers, Writers>>
  BY ZenonT(40), <1>18 DEF SharedLock, Readers, Writers, TypeInv, QueueInv
<1>19. ASSUME NEW t \in Threads, SharedTryLock(t) PROVE Lock!SharedLock(t)
  <2>1. Writers = {}
    BY ZenonT(40), <1>19, NoWriter DEF SharedTryLock
  <2>2. t \notin Readers /\ Readers' = Readers \union {t} /\ Writers' = Writers
    BY ZenonT(40), <1>19 DEF SharedTryLock, Readers, Writers, TypeInv
  <2> QED
    BY ZenonT(40), <2>1, <2>2 DEF Lock!SharedLock
<1>20. ASSUME NEW t \in Threads, ExclusiveLock(t) PROVE UNCHANGED <<Readers, Writers>>
  BY ZenonT(40), <1>20 DEF ExclusiveLock, Readers, Writers, TypeInv, QueueInv
<1>21. ASSUME NEW t \in Threads, ExclusiveLockWithTimeout(t) PROVE UNCHANGED <<Readers, Writers>>
  BY ZenonT(40), <1>21
  DEF ExclusiveLockWithTimeout, Readers, Writers, TypeInv, QueueInv
<1>22. ASSUME NEW t \in Threads, FutexWaitInterrupted(t) PROVE UNCHANGED <<Readers, Writers>>
  BY ZenonT(40), <1>22
  DEF FutexWaitInterrupted, AfterWait, Readers, Writers, TypeInv, QueueInv
<1>23. ASSUME NEW t \in Threads, FutexWaitTimesOut(t) PROVE UNCHANGED <<Readers, Writers>>
  BY ZenonT(40), <1>23
  DEF FutexWaitTimesOut, Readers, Writers, TypeInv, QueueInv
<1>24. ASSUME NEW t \in Threads, TimedOutBeforeWait(t) PROVE UNCHANGED <<Readers, Writers>>
  BY ZenonT(40), <1>24
  DEF TimedOutBeforeWait, Readers, Writers, TypeInv, QueueInv
<1> QED
  BY ZenonT(40), <1>1, <1>2, <1>3, <1>4, <1>5, <1>6, <1>7, <1>8, <1>9, <1>10,
     <1>11, <1>12, <1>13, <1>14, <1>15, <1>16, <1>17, <1>18, <1>19, <1>20,
     <1>21, <1>22, <1>23, <1>24 DEF Next, MutexStep, Lock!Next

\* The invariant holds at the start.
LEMMA InitInv == Init => IInv
<1> SUFFICES ASSUME Init PROVE IInv
  OBVIOUS
<1>1. TypeInv
  BY ZenonT(40), MutexAssumption DEF Init, TypeInv, Pc
<1>2. Readers = {} /\ Writers = {} /\ PendingReaders = {} /\ PendingWriters = {}
  BY ZenonT(40)
  DEF Init, Readers, Writers, PendingReaders, PendingWriters, PendingReaderPcs,
      PendingWriterPcs
<1>3. StateExact
  BY ZenonT(40), <1>2, FS_EmptySet DEF Init, StateExact
<1>4. PendingExact
  BY ZenonT(40), <1>2, FS_EmptySet
  DEF Init, PendingExact, PendingReaders, PendingWriters
<1>5. QueueInv /\ SeenInv /\ WakerInv
  BY ZenonT(40) DEF Init, QueueInv, SeenInv, WakerInv
<1> QED
  BY ZenonT(40), <1>1, <1>3, <1>4, <1>5 DEF IInv

\* Every step keeps the invariant.
LEMMA StepInv == IInv /\ [Next]_vars => IInv'
<1> SUFFICES ASSUME IInv, [Next]_vars PROVE IInv'
  OBVIOUS
<1> QED
  BY ZenonT(40), TypeStep, StateStep, PendingStep, QueueStep, SeenStep,
     WakerStep DEF IInv

\* Every reachable state of the reader-writer mutex satisfies the inductive
\* invariant IInv.
THEOREM Invariance == Spec => []IInv
  BY InitInv, StepInv, PTL DEF Spec

\* Every variable keeps its type: in particular state_ is never below -1 and no
\* count is negative.
THEOREM TypeCorrect == Spec => []TypeInv
<1>1. IInv => TypeInv
  BY ZenonT(40) DEF IInv
<1> QED
  BY <1>1, Invariance, PTL

\* state_ says who holds the mutex: one writer and no reader, or as many readers
\* as its value; exclusive_owner_ is the writer.
THEOREM StateIsExact == Spec => []StateExact
<1>1. IInv => StateExact
  BY ZenonT(40) DEF IInv
<1> QED
  BY <1>1, Invariance, PTL

\* num_pending_readers_ and num_pending_writers_ are exact, also when calls time
\* out (HandleSharedLockContention, ExclusiveLockWithTimeout).
THEOREM PendingCountsAreExact == Spec => []PendingExact
<1>1. IInv => PendingExact
  BY ZenonT(40) DEF IInv
<1> QED
  BY <1>1, Invariance, PTL

\* A thread asleep on a mutex that it could have will be woken by a thread that
\* has unlocked (SharedUnlock, ExclusiveUnlock).
THEOREM NoSleeperIsLost == Spec => []NoLostSleeper
<1>1. IInv => NoLostSleeper
  BY DEF IInv, TypeInv, QueueInv, WakerInv, NoLostSleeper, WakesReaders,
         WakesWriters
<1> QED
  BY <1>1, Invariance, PTL

\* The futex code implements SharedLock: the mutex is free, held by one writer,
\* or shared by readers.
THEOREM Refinement == Spec => ImplementsSharedLock
<1>1. Init => Lock!Init
  BY ZenonT(40) DEF Init, Lock!Init, Readers, Writers
<1>2. IInv /\ [Next]_vars => [Lock!Next]_<<Readers, Writers>>
  BY ZenonT(40), RefinementStep DEF IInv
<1> QED
  BY <1>1, <1>2, Invariance, PTL DEF Spec, ImplementsSharedLock, Lock!Spec
=============================================================================
