-------------------------- MODULE FutexMutexProofs --------------------------
(***************************************************************************)
(* Proofs about FutexMutex for every finite set of threads and every value *)
(* of its other constants: the inductive invariant, mutual exclusion and   *)
(* the recursion count, the contender counts, that no wakeup is lost if    *)
(* the loads stay in program order, and that the futex code implements     *)
(* GuardedCondition.                                                       *)
(***************************************************************************)
EXTENDS FutexMutex, FiniteSetTheorems, TLAPS

USE DEF mutexVars, condVars, callVars, requestVars, Goto, Call

\* The threads in a wait, and the contenders that ExclusiveLock has counted.
Waiting == {t \in Threads : waiting[t]}
Counted == {t \in Threads : pc[t] \in CountedPcs}

\* Sets of threads are finite: adding or removing one changes their number by
\* one.
LEMMA ThreadSets ==
  ASSUME NEW S \in SUBSET Threads
  PROVE  /\ Cardinality(S) \in Nat
         /\ Cardinality(S) = 0 <=> S = {}
         /\ \A t \in Threads \ S : Cardinality(S \union {t}) = Cardinality(S) + 1
         /\ \A t \in S : Cardinality(S \ {t}) = Cardinality(S) - 1
<1>1. IsFiniteSet(S)
  BY ZenonT(40), FutexAssumption, FS_Subset
<1> QED
  BY ZenonT(40), <1>1, FS_CardinalityType, FS_EmptySet, FS_AddElement,
     FS_RemoveElement

\* A thread that is counted makes num_contenders_ positive.
LEMMA CountedContends ==
  ASSUME TypeInv, CountsExact, NEW t \in Threads,
         waiting[t] \/ pc[t] \in CountedPcs
  PROVE  contenders > 0 /\ (waiting[t] => waiters > 0)
<1>1. Cardinality(Waiting) \in Nat /\ Cardinality(Counted) \in Nat
  BY ZenonT(40), ThreadSets DEF Waiting, Counted
<1>2. waiting[t] => Cardinality(Waiting) # 0
  BY ZenonT(40), ThreadSets DEF Waiting
<1>3. pc[t] \in CountedPcs => Cardinality(Counted) # 0
  BY ZenonT(40), ThreadSets DEF Counted
<1> QED
  BY <1>1, <1>2, <1>3 DEF CountsExact, Waiting, Counted

\* The mutex changes hands by the compare-and-sets on state_ only.
LEMMA HolderStep ==
  ASSUME TypeInv, HolderInv, QueueInv, [Next]_vars
  PROVE  HolderInv'
<1>1. CASE UNCHANGED vars
  BY ZenonT(40), <1>1 DEF vars, TypeInv, HolderInv, QueueInv, HoldingPcs
<1>2. CASE RunEmptyCheckpoint
  BY ZenonT(40), <1>2, FutexAssumption
  DEF RunEmptyCheckpoint, TypeInv, HolderInv, QueueInv, HoldingPcs
<1>3. CASE WakeupToRespondToEmptyCheckpoint
  BY <1>3
  DEF WakeupToRespondToEmptyCheckpoint, AfterWait, TypeInv, HolderInv,
      QueueInv, HoldingPcs
<1>4. CASE BarrierTimesOut
  BY ZenonT(40), <1>4
  DEF BarrierTimesOut, TypeInv, HolderInv, QueueInv, HoldingPcs
<1>5. CASE EmptyCheckpointDone
  BY ZenonT(40), <1>5
  DEF EmptyCheckpointDone, TypeInv, HolderInv, QueueInv, HoldingPcs
<1>6. ASSUME NEW t \in Threads, LockCas(t) PROVE HolderInv'
  BY <1>6 DEF LockCas, TypeInv, HolderInv, QueueInv, HoldingPcs
<1>7. ASSUME NEW t \in Threads, LockSeesHeld(t) PROVE HolderInv'
  BY ZenonT(40), <1>7
  DEF LockSeesHeld, TypeInv, HolderInv, QueueInv, HoldingPcs
<1>8. ASSUME NEW t \in Threads, CountContender(t) PROVE HolderInv'
  BY ZenonT(40), <1>8
  DEF CountContender, TypeInv, HolderInv, QueueInv, HoldingPcs
<1>9. ASSUME NEW t \in Threads, CheckEmptyCheckpointFromMutex(t) PROVE HolderInv'
  BY ZenonT(40), <1>9
  DEF CheckEmptyCheckpointFromMutex, TypeInv, HolderInv, QueueInv, HoldingPcs
<1>10. ASSUME NEW t \in Threads, FutexWait(t) PROVE HolderInv'
  BY <1>10 DEF FutexWait, TypeInv, HolderInv, QueueInv, HoldingPcs
<1>11. ASSUME NEW t \in Threads, UncountContender(t) PROVE HolderInv'
  BY ZenonT(40), <1>11
  DEF UncountContender, TypeInv, HolderInv, QueueInv, HoldingPcs
<1>12. ASSUME NEW t \in Threads, LockTaken(t) PROVE HolderInv'
  BY <1>12 DEF LockTaken, TypeInv, HolderInv, QueueInv, HoldingPcs
<1>13. ASSUME NEW t \in Threads, ClearOwner(t) PROVE HolderInv'
  BY <1>13 DEF ClearOwner, TypeInv, HolderInv, QueueInv, HoldingPcs
<1>14. ASSUME NEW t \in Threads, UnlockCas(t) PROVE HolderInv'
  BY ZenonT(40), <1>14 DEF UnlockCas, TypeInv, HolderInv, QueueInv, HoldingPcs
<1>15. ASSUME NEW t \in Threads, UnlockLoad(t) PROVE HolderInv'
  BY <1>15
  DEF UnlockLoad, AfterUnlock, TypeInv, HolderInv, QueueInv, HoldingPcs
<1>16. ASSUME NEW t \in Threads, UnlockLoadEarly(t) PROVE HolderInv'
  BY <1>16 DEF UnlockLoadEarly, TypeInv, HolderInv, QueueInv, HoldingPcs
<1>17. ASSUME NEW t \in Threads, UnlockCasAfterLoad(t) PROVE HolderInv'
  BY <1>17
  DEF UnlockCasAfterLoad, AfterUnlock, TypeInv, HolderInv, QueueInv,
      HoldingPcs
<1>18. ASSUME NEW t \in Threads, UnlockWake(t) PROVE HolderInv'
  BY <1>18
  DEF UnlockWake, AfterWait, AfterUnlock, TypeInv, HolderInv, QueueInv,
      HoldingPcs
<1>19. ASSUME NEW t \in Threads, CondFutexWait(t) PROVE HolderInv'
  BY <1>19 DEF CondFutexWait, TypeInv, HolderInv, QueueInv, HoldingPcs
<1>20. ASSUME NEW t \in Threads, WaitEnds(t) PROVE HolderInv'
  BY <1>20 DEF WaitEnds, TypeInv, HolderInv, QueueInv, HoldingPcs
<1>21. ASSUME NEW t \in Threads, Signal(t) PROVE HolderInv'
  BY <1>21 DEF Signal, TypeInv, HolderInv, QueueInv, HoldingPcs
<1>22. ASSUME NEW t \in Threads, SignalWake(t) PROVE HolderInv'
  BY <1>22 DEF SignalWake, AfterWait, TypeInv, HolderInv, QueueInv, HoldingPcs
<1>23. ASSUME NEW t \in Threads, Broadcast(t) PROVE HolderInv'
  BY <1>23 DEF Broadcast, TypeInv, HolderInv, QueueInv, HoldingPcs
<1>24. ASSUME NEW t \in Threads, BroadcastRequeue(t) PROVE HolderInv'
  BY <1>24 DEF BroadcastRequeue, TypeInv, HolderInv, QueueInv, HoldingPcs
<1>25. ASSUME NEW t \in Threads, ExclusiveLock(t) PROVE HolderInv'
  BY ZenonT(40), <1>25
  DEF ExclusiveLock, TypeInv, HolderInv, QueueInv, HoldingPcs
<1>26. ASSUME NEW t \in Threads, ExclusiveLockAgain(t) PROVE HolderInv'
  BY ZenonT(40), <1>26
  DEF ExclusiveLockAgain, TypeInv, HolderInv, QueueInv, HoldingPcs
<1>27. ASSUME NEW t \in Threads, ExclusiveTryLock(t) PROVE HolderInv'
  BY <1>27 DEF ExclusiveTryLock, TypeInv, HolderInv, QueueInv, HoldingPcs
<1>28. ASSUME NEW t \in Threads, ExclusiveUnlock(t) PROVE HolderInv'
  BY <1>28 DEF ExclusiveUnlock, TypeInv, HolderInv, QueueInv, HoldingPcs
<1>29. ASSUME NEW t \in Threads, WaitHoldingLocks(t) PROVE HolderInv'
  BY <1>29 DEF WaitHoldingLocks, TypeInv, HolderInv, QueueInv, HoldingPcs
<1>30. ASSUME NEW t \in Threads, CallSignal(t) PROVE HolderInv'
  BY <1>30 DEF CallSignal, TypeInv, HolderInv, QueueInv, HoldingPcs
<1>31. ASSUME NEW t \in Threads, CallBroadcast(t) PROVE HolderInv'
  BY ZenonT(40), <1>31
  DEF CallBroadcast, TypeInv, HolderInv, QueueInv, HoldingPcs
<1>32. ASSUME NEW t \in Threads, FutexWaitInterrupted(t) PROVE HolderInv'
  BY <1>32
  DEF FutexWaitInterrupted, AfterWait, TypeInv, HolderInv, QueueInv,
      HoldingPcs
<1>33. ASSUME NEW t \in Threads, AnswerEmptyCheckpoint(t) PROVE HolderInv'
  BY ZenonT(40), <1>33
  DEF AnswerEmptyCheckpoint, TypeInv, HolderInv, QueueInv, HoldingPcs
<1>34. ASSUME NEW t \in Threads, CheckEmptyCheckpointFromWeakRefAccess(t) PROVE HolderInv'
  BY ZenonT(40), <1>34
  DEF CheckEmptyCheckpointFromWeakRefAccess, TypeInv, HolderInv, QueueInv,
      HoldingPcs
<1>35. CASE BroadcastForNewSystemWeaks
  BY ZenonT(40), <1>35, FutexAssumption
  DEF BroadcastForNewSystemWeaks, TypeInv, HolderInv, QueueInv, HoldingPcs
<1>36. CASE BroadcastDone
  BY ZenonT(40), <1>36
  DEF BroadcastDone, TypeInv, HolderInv, QueueInv, HoldingPcs
<1> QED
  BY ZenonT(40), <1>1, <1>2, <1>3, <1>4, <1>5, <1>6, <1>7, <1>8, <1>9, <1>10,
     <1>11, <1>12, <1>13, <1>14, <1>15, <1>16, <1>17, <1>18, <1>19, <1>20,
     <1>21, <1>22, <1>23, <1>24, <1>25, <1>26, <1>27, <1>28, <1>29, <1>30,
     <1>31, <1>32, <1>33, <1>34, <1>35, <1>36
  DEF Next, MutexStep, CondStep, ClientStep, RequesterStep

\* A thread is in a wait from WaitHoldingLocks to WaitEnds.
LEMMA WaitStep ==
  ASSUME TypeInv, WaitInv, QueueInv, [Next]_vars
  PROVE  WaitInv'
<1>1. CASE UNCHANGED vars
  BY ZenonT(40), <1>1 DEF vars, TypeInv, WaitInv, QueueInv
<1>2. CASE RunEmptyCheckpoint
  BY ZenonT(40), <1>2, FutexAssumption
  DEF RunEmptyCheckpoint, TypeInv, WaitInv, QueueInv
<1>3. CASE WakeupToRespondToEmptyCheckpoint
  BY <1>3
  DEF WakeupToRespondToEmptyCheckpoint, AfterWait, TypeInv, WaitInv, QueueInv
<1>4. CASE BarrierTimesOut
  BY ZenonT(40), <1>4 DEF BarrierTimesOut, TypeInv, WaitInv, QueueInv
<1>5. CASE EmptyCheckpointDone
  BY ZenonT(40), <1>5 DEF EmptyCheckpointDone, TypeInv, WaitInv, QueueInv
<1>6. ASSUME NEW t \in Threads, LockCas(t) PROVE WaitInv'
  BY ZenonT(40), <1>6 DEF LockCas, TypeInv, WaitInv, QueueInv
<1>7. ASSUME NEW t \in Threads, LockSeesHeld(t) PROVE WaitInv'
  BY ZenonT(40), <1>7 DEF LockSeesHeld, TypeInv, WaitInv, QueueInv
<1>8. ASSUME NEW t \in Threads, CountContender(t) PROVE WaitInv'
  BY ZenonT(40), <1>8 DEF CountContender, TypeInv, WaitInv, QueueInv
<1>9. ASSUME NEW t \in Threads, CheckEmptyCheckpointFromMutex(t) PROVE WaitInv'
  BY ZenonT(40), <1>9
  DEF CheckEmptyCheckpointFromMutex, TypeInv, WaitInv, QueueInv
<1>10. ASSUME NEW t \in Threads, FutexWait(t) PROVE WaitInv'
  BY <1>10 DEF FutexWait, TypeInv, WaitInv, QueueInv
<1>11. ASSUME NEW t \in Threads, UncountContender(t) PROVE WaitInv'
  BY ZenonT(40), <1>11 DEF UncountContender, TypeInv, WaitInv, QueueInv
<1>12. ASSUME NEW t \in Threads, LockTaken(t) PROVE WaitInv'
  BY ZenonT(40), <1>12 DEF LockTaken, TypeInv, WaitInv, QueueInv
<1>13. ASSUME NEW t \in Threads, ClearOwner(t) PROVE WaitInv'
  BY ZenonT(40), <1>13 DEF ClearOwner, TypeInv, WaitInv, QueueInv
<1>14. ASSUME NEW t \in Threads, UnlockCas(t) PROVE WaitInv'
  BY ZenonT(40), <1>14 DEF UnlockCas, TypeInv, WaitInv, QueueInv
<1>15. ASSUME NEW t \in Threads, UnlockLoad(t) PROVE WaitInv'
  BY ZenonT(40), <1>15 DEF UnlockLoad, AfterUnlock, TypeInv, WaitInv, QueueInv
<1>16. ASSUME NEW t \in Threads, UnlockLoadEarly(t) PROVE WaitInv'
  BY ZenonT(40), <1>16 DEF UnlockLoadEarly, TypeInv, WaitInv, QueueInv
<1>17. ASSUME NEW t \in Threads, UnlockCasAfterLoad(t) PROVE WaitInv'
  BY ZenonT(40), <1>17
  DEF UnlockCasAfterLoad, AfterUnlock, TypeInv, WaitInv, QueueInv
<1>18. ASSUME NEW t \in Threads, UnlockWake(t) PROVE WaitInv'
  BY <1>18 DEF UnlockWake, AfterWait, AfterUnlock, TypeInv, WaitInv, QueueInv
<1>19. ASSUME NEW t \in Threads, CondFutexWait(t) PROVE WaitInv'
  BY ZenonT(40), <1>19 DEF CondFutexWait, TypeInv, WaitInv, QueueInv
<1>20. ASSUME NEW t \in Threads, WaitEnds(t) PROVE WaitInv'
  BY ZenonT(40), <1>20 DEF WaitEnds, TypeInv, WaitInv, QueueInv
<1>21. ASSUME NEW t \in Threads, Signal(t) PROVE WaitInv'
  BY ZenonT(40), <1>21 DEF Signal, TypeInv, WaitInv, QueueInv
<1>22. ASSUME NEW t \in Threads, SignalWake(t) PROVE WaitInv'
  BY <1>22 DEF SignalWake, AfterWait, TypeInv, WaitInv, QueueInv
<1>23. ASSUME NEW t \in Threads, Broadcast(t) PROVE WaitInv'
  BY ZenonT(40), <1>23 DEF Broadcast, TypeInv, WaitInv, QueueInv
<1>24. ASSUME NEW t \in Threads, BroadcastRequeue(t) PROVE WaitInv'
  BY ZenonT(40), <1>24 DEF BroadcastRequeue, TypeInv, WaitInv, QueueInv
<1>25. ASSUME NEW t \in Threads, ExclusiveLock(t) PROVE WaitInv'
  BY ZenonT(40), <1>25 DEF ExclusiveLock, TypeInv, WaitInv, QueueInv
<1>26. ASSUME NEW t \in Threads, ExclusiveLockAgain(t) PROVE WaitInv'
  BY ZenonT(40), <1>26 DEF ExclusiveLockAgain, TypeInv, WaitInv, QueueInv
<1>27. ASSUME NEW t \in Threads, ExclusiveTryLock(t) PROVE WaitInv'
  BY ZenonT(40), <1>27 DEF ExclusiveTryLock, TypeInv, WaitInv, QueueInv
<1>28. ASSUME NEW t \in Threads, ExclusiveUnlock(t) PROVE WaitInv'
  BY ZenonT(40), <1>28 DEF ExclusiveUnlock, TypeInv, WaitInv, QueueInv
<1>29. ASSUME NEW t \in Threads, WaitHoldingLocks(t) PROVE WaitInv'
  BY ZenonT(40), <1>29 DEF WaitHoldingLocks, TypeInv, WaitInv, QueueInv
<1>30. ASSUME NEW t \in Threads, CallSignal(t) PROVE WaitInv'
  BY ZenonT(40), <1>30 DEF CallSignal, TypeInv, WaitInv, QueueInv
<1>31. ASSUME NEW t \in Threads, CallBroadcast(t) PROVE WaitInv'
  BY ZenonT(40), <1>31 DEF CallBroadcast, TypeInv, WaitInv, QueueInv
<1>32. ASSUME NEW t \in Threads, FutexWaitInterrupted(t) PROVE WaitInv'
  BY ZenonT(40), <1>32
  DEF FutexWaitInterrupted, AfterWait, TypeInv, WaitInv, QueueInv
<1>33. ASSUME NEW t \in Threads, AnswerEmptyCheckpoint(t) PROVE WaitInv'
  BY ZenonT(40), <1>33 DEF AnswerEmptyCheckpoint, TypeInv, WaitInv, QueueInv
<1>34. ASSUME NEW t \in Threads, CheckEmptyCheckpointFromWeakRefAccess(t) PROVE WaitInv'
  BY ZenonT(40), <1>34
  DEF CheckEmptyCheckpointFromWeakRefAccess, TypeInv, WaitInv, QueueInv
<1>35. CASE BroadcastForNewSystemWeaks
  BY ZenonT(40), <1>35, FutexAssumption
  DEF BroadcastForNewSystemWeaks, TypeInv, WaitInv, QueueInv
<1>36. CASE BroadcastDone
  BY ZenonT(40), <1>36 DEF BroadcastDone, TypeInv, WaitInv, QueueInv
<1> QED
  BY ZenonT(40), <1>1, <1>2, <1>3, <1>4, <1>5, <1>6, <1>7, <1>8, <1>9, <1>10,
     <1>11, <1>12, <1>13, <1>14, <1>15, <1>16, <1>17, <1>18, <1>19, <1>20,
     <1>21, <1>22, <1>23, <1>24, <1>25, <1>26, <1>27, <1>28, <1>29, <1>30,
     <1>31, <1>32, <1>33, <1>34, <1>35, <1>36
  DEF Next, MutexStep, CondStep, ClientStep, RequesterStep

\* A thread is in a queue of the kernel while it sleeps, and in one only.
LEMMA QueueStep ==
  ASSUME TypeInv, QueueInv, [Next]_vars
  PROVE  QueueInv'
<1>1. CASE UNCHANGED vars
  BY ZenonT(40), <1>1 DEF vars, TypeInv, QueueInv
<1>2. CASE RunEmptyCheckpoint
  BY ZenonT(40), <1>2, FutexAssumption
  DEF RunEmptyCheckpoint, TypeInv, QueueInv
<1>3. CASE WakeupToRespondToEmptyCheckpoint
  BY ZenonT(40), <1>3
  DEF WakeupToRespondToEmptyCheckpoint, AfterWait, TypeInv, QueueInv
<1>4. CASE BarrierTimesOut
  BY ZenonT(40), <1>4 DEF BarrierTimesOut, TypeInv, QueueInv
<1>5. CASE EmptyCheckpointDone
  BY ZenonT(40), <1>5 DEF EmptyCheckpointDone, TypeInv, QueueInv
<1>6. ASSUME NEW t \in Threads, LockCas(t) PROVE QueueInv'
  BY ZenonT(40), <1>6 DEF LockCas, TypeInv, QueueInv
<1>7. ASSUME NEW t \in Threads, LockSeesHeld(t) PROVE QueueInv'
  BY ZenonT(40), <1>7 DEF LockSeesHeld, TypeInv, QueueInv
<1>8. ASSUME NEW t \in Threads, CountContender(t) PROVE QueueInv'
  BY ZenonT(40), <1>8 DEF CountContender, TypeInv, QueueInv
<1>9. ASSUME NEW t \in Threads, CheckEmptyCheckpointFromMutex(t) PROVE QueueInv'
  BY ZenonT(40), <1>9 DEF CheckEmptyCheckpointFromMutex, TypeInv, QueueInv
<1>10. ASSUME NEW t \in Threads, FutexWait(t) PROVE QueueInv'
  BY ZenonT(40), <1>10 DEF FutexWait, TypeInv, QueueInv
<1>11. ASSUME NEW t \in Threads, UncountContender(t) PROVE QueueInv'
  BY ZenonT(40), <1>11 DEF UncountContender, TypeInv, QueueInv
<1>12. ASSUME NEW t \in Threads, LockTaken(t) PROVE QueueInv'
  BY ZenonT(40), <1>12 DEF LockTaken, TypeInv, QueueInv
<1>13. ASSUME NEW t \in Threads, ClearOwner(t) PROVE QueueInv'
  BY ZenonT(40), <1>13 DEF ClearOwner, TypeInv, QueueInv
<1>14. ASSUME NEW t \in Threads, UnlockCas(t) PROVE QueueInv'
  BY ZenonT(40), <1>14 DEF UnlockCas, TypeInv, QueueInv
<1>15. ASSUME NEW t \in Threads, UnlockLoad(t) PROVE QueueInv'
  BY ZenonT(40), <1>15 DEF UnlockLoad, AfterUnlock, TypeInv, QueueInv
<1>16. ASSUME NEW t \in Threads, UnlockLoadEarly(t) PROVE QueueInv'
  BY ZenonT(40), <1>16 DEF UnlockLoadEarly, TypeInv, QueueInv
<1>17. ASSUME NEW t \in Threads, UnlockCasAfterLoad(t) PROVE QueueInv'
  BY ZenonT(40), <1>17 DEF UnlockCasAfterLoad, AfterUnlock, TypeInv, QueueInv
<1>18. ASSUME NEW t \in Threads, UnlockWake(t) PROVE QueueInv'
  BY ZenonT(40), <1>18
  DEF UnlockWake, AfterWait, AfterUnlock, TypeInv, QueueInv
<1>19. ASSUME NEW t \in Threads, CondFutexWait(t) PROVE QueueInv'
  BY ZenonT(40), <1>19 DEF CondFutexWait, TypeInv, QueueInv
<1>20. ASSUME NEW t \in Threads, WaitEnds(t) PROVE QueueInv'
  BY ZenonT(40), <1>20 DEF WaitEnds, TypeInv, QueueInv
<1>21. ASSUME NEW t \in Threads, Signal(t) PROVE QueueInv'
  BY ZenonT(40), <1>21 DEF Signal, TypeInv, QueueInv
<1>22. ASSUME NEW t \in Threads, SignalWake(t) PROVE QueueInv'
  BY ZenonT(40), <1>22 DEF SignalWake, AfterWait, TypeInv, QueueInv
<1>23. ASSUME NEW t \in Threads, Broadcast(t) PROVE QueueInv'
  BY ZenonT(40), <1>23 DEF Broadcast, TypeInv, QueueInv
<1>24. ASSUME NEW t \in Threads, BroadcastRequeue(t) PROVE QueueInv'
  BY ZenonT(40), <1>24 DEF BroadcastRequeue, TypeInv, QueueInv
<1>25. ASSUME NEW t \in Threads, ExclusiveLock(t) PROVE QueueInv'
  BY ZenonT(40), <1>25 DEF ExclusiveLock, TypeInv, QueueInv
<1>26. ASSUME NEW t \in Threads, ExclusiveLockAgain(t) PROVE QueueInv'
  BY ZenonT(40), <1>26 DEF ExclusiveLockAgain, TypeInv, QueueInv
<1>27. ASSUME NEW t \in Threads, ExclusiveTryLock(t) PROVE QueueInv'
  BY ZenonT(40), <1>27 DEF ExclusiveTryLock, TypeInv, QueueInv
<1>28. ASSUME NEW t \in Threads, ExclusiveUnlock(t) PROVE QueueInv'
  BY ZenonT(40), <1>28 DEF ExclusiveUnlock, TypeInv, QueueInv
<1>29. ASSUME NEW t \in Threads, WaitHoldingLocks(t) PROVE QueueInv'
  BY ZenonT(40), <1>29 DEF WaitHoldingLocks, TypeInv, QueueInv
<1>30. ASSUME NEW t \in Threads, CallSignal(t) PROVE QueueInv'
  BY ZenonT(40), <1>30 DEF CallSignal, TypeInv, QueueInv
<1>31. ASSUME NEW t \in Threads, CallBroadcast(t) PROVE QueueInv'
  BY ZenonT(40), <1>31 DEF CallBroadcast, TypeInv, QueueInv
<1>32. ASSUME NEW t \in Threads, FutexWaitInterrupted(t) PROVE QueueInv'
  BY ZenonT(40), <1>32 DEF FutexWaitInterrupted, AfterWait, TypeInv, QueueInv
<1>33. ASSUME NEW t \in Threads, AnswerEmptyCheckpoint(t) PROVE QueueInv'
  BY ZenonT(40), <1>33 DEF AnswerEmptyCheckpoint, TypeInv, QueueInv
<1>34. ASSUME NEW t \in Threads, CheckEmptyCheckpointFromWeakRefAccess(t) PROVE QueueInv'
  BY ZenonT(40), <1>34
  DEF CheckEmptyCheckpointFromWeakRefAccess, TypeInv, QueueInv
<1>35. CASE BroadcastForNewSystemWeaks
  BY ZenonT(40), <1>35, FutexAssumption
  DEF BroadcastForNewSystemWeaks, TypeInv, QueueInv
<1>36. CASE BroadcastDone
  BY ZenonT(40), <1>36 DEF BroadcastDone, TypeInv, QueueInv
<1> QED
  BY ZenonT(40), <1>1, <1>2, <1>3, <1>4, <1>5, <1>6, <1>7, <1>8, <1>9, <1>10,
     <1>11, <1>12, <1>13, <1>14, <1>15, <1>16, <1>17, <1>18, <1>19, <1>20,
     <1>21, <1>22, <1>23, <1>24, <1>25, <1>26, <1>27, <1>28, <1>29, <1>30,
     <1>31, <1>32, <1>33, <1>34, <1>35, <1>36
  DEF Next, MutexStep, CondStep, ClientStep, RequesterStep

\* The owner and the recursion count are those of the thread that has the mutex,
\* or that gives it up in a wait.
LEMMA RecursionStep ==
  ASSUME TypeInv, HolderInv, WaitInv, QueueInv, RecursionInv, [Next]_vars
  PROVE  RecursionInv'
<1>1. CASE UNCHANGED vars
  BY ZenonT(40), <1>1
  DEF vars, TypeInv, HolderInv, WaitInv, QueueInv, RecursionInv, HoldingPcs,
      CriticalPcs
<1>2. CASE RunEmptyCheckpoint
  BY <1>2, FutexAssumption
  DEF RunEmptyCheckpoint, TypeInv, HolderInv, WaitInv, QueueInv, RecursionInv,
      HoldingPcs, CriticalPcs
<1>3. CASE WakeupToRespondToEmptyCheckpoint
  BY <1>3
  DEF WakeupToRespondToEmptyCheckpoint, AfterWait, TypeInv, HolderInv,
      WaitInv, QueueInv, RecursionInv, HoldingPcs, CriticalPcs
<1>4. CASE BarrierTimesOut
  BY ZenonT(40), <1>4
  DEF BarrierTimesOut, TypeInv, HolderInv, WaitInv, QueueInv, RecursionInv,
      HoldingPcs, CriticalPcs
<1>5. CASE EmptyCheckpointDone
  BY ZenonT(40), <1>5
  DEF EmptyCheckpointDone, TypeInv, HolderInv, WaitInv, QueueInv,
      RecursionInv, HoldingPcs, CriticalPcs
<1>6. ASSUME NEW t \in Threads, LockCas(t) PROVE RecursionInv'
  BY ZenonT(40), <1>6
  DEF LockCas, TypeInv, HolderInv, WaitInv, QueueInv, RecursionInv,
      HoldingPcs, CriticalPcs
<1>7. ASSUME NEW t \in Threads, LockSeesHeld(t) PROVE RecursionInv'
  BY <1>7
  DEF LockSeesHeld, TypeInv, HolderInv, WaitInv, QueueInv, RecursionInv,
      HoldingPcs, CriticalPcs
<1>8. ASSUME NEW t \in Threads, CountContender(t) PROVE RecursionInv'
  BY <1>8
  DEF CountContender, TypeInv, HolderInv, WaitInv, QueueInv, RecursionInv,
      HoldingPcs, CriticalPcs
<1>9. ASSUME NEW t \in Threads, CheckEmptyCheckpointFromMutex(t) PROVE RecursionInv'
  BY <1>9
  DEF CheckEmptyCheckpointFromMutex, TypeInv, HolderInv, WaitInv, QueueInv,
      RecursionInv, HoldingPcs, CriticalPcs
<1>10. ASSUME NEW t \in Threads, FutexWait(t) PROVE RecursionInv'
  BY <1>10
  DEF FutexWait, TypeInv, HolderInv, WaitInv, QueueInv, RecursionInv,
      HoldingPcs, CriticalPcs
<1>11. ASSUME NEW t \in Threads, UncountContender(t) PROVE RecursionInv'
  BY <1>11
  DEF UncountContender, TypeInv, HolderInv, WaitInv, QueueInv, RecursionInv,
      HoldingPcs, CriticalPcs
<1>12. ASSUME NEW t \in Threads, LockTaken(t) PROVE RecursionInv'
  BY <1>12
  DEF LockTaken, TypeInv, HolderInv, WaitInv, QueueInv, RecursionInv,
      HoldingPcs, CriticalPcs
<1>13. ASSUME NEW t \in Threads, ClearOwner(t) PROVE RecursionInv'
  BY <1>13
  DEF ClearOwner, TypeInv, HolderInv, WaitInv, QueueInv, RecursionInv,
      HoldingPcs, CriticalPcs
<1>14. ASSUME NEW t \in Threads, UnlockCas(t) PROVE RecursionInv'
  BY ZenonT(40), <1>14
  DEF UnlockCas, TypeInv, HolderInv, WaitInv, QueueInv, RecursionInv,
      HoldingPcs, CriticalPcs
<1>15. ASSUME NEW t \in Threads, UnlockLoad(t) PROVE RecursionInv'
  BY <1>15
  DEF UnlockLoad, AfterUnlock, TypeInv, HolderInv, WaitInv, QueueInv,
      RecursionInv, HoldingPcs, CriticalPcs
<1>16. ASSUME NEW t \in Threads, UnlockLoadEarly(t) PROVE RecursionInv'
  BY ZenonT(40), <1>16
  DEF UnlockLoadEarly, TypeInv, HolderInv, WaitInv, QueueInv, RecursionInv,
      HoldingPcs, CriticalPcs
<1>17. ASSUME NEW t \in Threads, UnlockCasAfterLoad(t) PROVE RecursionInv'
  BY <1>17
  DEF UnlockCasAfterLoad, AfterUnlock, TypeInv, HolderInv, WaitInv, QueueInv,
      RecursionInv, HoldingPcs, CriticalPcs
<1>18. ASSUME NEW t \in Threads, UnlockWake(t) PROVE RecursionInv'
  BY <1>18
  DEF UnlockWake, AfterWait, AfterUnlock, TypeInv, HolderInv, WaitInv,
      QueueInv, RecursionInv, HoldingPcs, CriticalPcs
<1>19. ASSUME NEW t \in Threads, CondFutexWait(t) PROVE RecursionInv'
  BY <1>19
  DEF CondFutexWait, TypeInv, HolderInv, WaitInv, QueueInv, RecursionInv,
      HoldingPcs, CriticalPcs
<1>20. ASSUME NEW t \in Threads, WaitEnds(t) PROVE RecursionInv'
  BY <1>20
  DEF WaitEnds, TypeInv, HolderInv, WaitInv, QueueInv, RecursionInv,
      HoldingPcs, CriticalPcs
<1>21. ASSUME NEW t \in Threads, Signal(t) PROVE RecursionInv'
  BY <1>21
  DEF Signal, TypeInv, HolderInv, WaitInv, QueueInv, RecursionInv, HoldingPcs,
      CriticalPcs
<1>22. ASSUME NEW t \in Threads, SignalWake(t) PROVE RecursionInv'
  BY <1>22
  DEF SignalWake, AfterWait, TypeInv, HolderInv, WaitInv, QueueInv,
      RecursionInv, HoldingPcs, CriticalPcs
<1>23. ASSUME NEW t \in Threads, Broadcast(t) PROVE RecursionInv'
  BY <1>23
  DEF Broadcast, TypeInv, HolderInv, WaitInv, QueueInv, RecursionInv,
      HoldingPcs, CriticalPcs
<1>24. ASSUME NEW t \in Threads, BroadcastRequeue(t) PROVE RecursionInv'
  BY <1>24
  DEF BroadcastRequeue, TypeInv, HolderInv, WaitInv, QueueInv, RecursionInv,
      HoldingPcs, CriticalPcs
<1>25. ASSUME NEW t \in Threads, ExclusiveLock(t) PROVE RecursionInv'
  BY <1>25
  DEF ExclusiveLock, TypeInv, HolderInv, WaitInv, QueueInv, RecursionInv,
      HoldingPcs, CriticalPcs
<1>26. ASSUME NEW t \in Threads, ExclusiveLockAgain(t) PROVE RecursionInv'
  BY <1>26
  DEF ExclusiveLockAgain, TypeInv, HolderInv, WaitInv, QueueInv, RecursionInv,
      HoldingPcs, CriticalPcs
<1>27. ASSUME NEW t \in Threads, ExclusiveTryLock(t) PROVE RecursionInv'
  BY ZenonT(40), <1>27
  DEF ExclusiveTryLock, TypeInv, HolderInv, WaitInv, QueueInv, RecursionInv,
      HoldingPcs, CriticalPcs
<1>28. ASSUME NEW t \in Threads, ExclusiveUnlock(t) PROVE RecursionInv'
  BY <1>28
  DEF ExclusiveUnlock, TypeInv, HolderInv, WaitInv, QueueInv, RecursionInv,
      HoldingPcs, CriticalPcs
<1>29. ASSUME NEW t \in Threads, WaitHoldingLocks(t) PROVE RecursionInv'
  BY <1>29
  DEF WaitHoldingLocks, TypeInv, HolderInv, WaitInv, QueueInv, RecursionInv,
      HoldingPcs, CriticalPcs
<1>30. ASSUME NEW t \in Threads, CallSignal(t) PROVE RecursionInv'
  BY <1>30
  DEF CallSignal, TypeInv, HolderInv, WaitInv, QueueInv, RecursionInv,
      HoldingPcs, CriticalPcs
<1>31. ASSUME NEW t \in Threads, CallBroadcast(t) PROVE RecursionInv'
  BY <1>31
  DEF CallBroadcast, TypeInv, HolderInv, WaitInv, QueueInv, RecursionInv,
      HoldingPcs, CriticalPcs
<1>32. ASSUME NEW t \in Threads, FutexWaitInterrupted(t) PROVE RecursionInv'
  BY <1>32
  DEF FutexWaitInterrupted, AfterWait, TypeInv, HolderInv, WaitInv, QueueInv,
      RecursionInv, HoldingPcs, CriticalPcs
<1>33. ASSUME NEW t \in Threads, AnswerEmptyCheckpoint(t) PROVE RecursionInv'
  BY ZenonT(40), <1>33
  DEF AnswerEmptyCheckpoint, TypeInv, HolderInv, WaitInv, QueueInv,
      RecursionInv, HoldingPcs, CriticalPcs
<1>34. ASSUME NEW t \in Threads, CheckEmptyCheckpointFromWeakRefAccess(t) PROVE RecursionInv'
  BY ZenonT(40), <1>34
  DEF CheckEmptyCheckpointFromWeakRefAccess, TypeInv, HolderInv, WaitInv,
      QueueInv, RecursionInv, HoldingPcs, CriticalPcs
<1>35. CASE BroadcastForNewSystemWeaks
  BY ZenonT(40), <1>35, FutexAssumption
  DEF BroadcastForNewSystemWeaks, TypeInv, HolderInv, WaitInv, QueueInv,
      RecursionInv, HoldingPcs, CriticalPcs
<1>36. CASE BroadcastDone
  BY ZenonT(40), <1>36
  DEF BroadcastDone, TypeInv, HolderInv, WaitInv, QueueInv, RecursionInv,
      HoldingPcs, CriticalPcs
<1> QED
  BY ZenonT(40), <1>1, <1>2, <1>3, <1>4, <1>5, <1>6, <1>7, <1>8, <1>9, <1>10,
     <1>11, <1>12, <1>13, <1>14, <1>15, <1>16, <1>17, <1>18, <1>19, <1>20,
     <1>21, <1>22, <1>23, <1>24, <1>25, <1>26, <1>27, <1>28, <1>29, <1>30,
     <1>31, <1>32, <1>33, <1>34, <1>35, <1>36
  DEF Next, MutexStep, CondStep, ClientStep, RequesterStep

\* sequence_ changes under the mutex; a waiter reads it before it unlocks.
LEMMA SequenceStep ==
  ASSUME TypeInv, HolderInv, WaitInv, QueueInv, SequenceInv, [Next]_vars
  PROVE  SequenceInv'
<1>1. CASE UNCHANGED vars
  BY ZenonT(40), <1>1
  DEF vars, TypeInv, HolderInv, WaitInv, QueueInv, SequenceInv, HoldingPcs
<1>2. CASE RunEmptyCheckpoint
  BY ZenonT(40), <1>2, FutexAssumption
  DEF RunEmptyCheckpoint, TypeInv, HolderInv, WaitInv, QueueInv, SequenceInv,
      HoldingPcs
<1>3. CASE WakeupToRespondToEmptyCheckpoint
  BY <1>3
  DEF WakeupToRespondToEmptyCheckpoint, AfterWait, TypeInv, HolderInv,
      WaitInv, QueueInv, SequenceInv, HoldingPcs
<1>4. CASE BarrierTimesOut
  BY ZenonT(40), <1>4
  DEF BarrierTimesOut, TypeInv, HolderInv, WaitInv, QueueInv, SequenceInv,
      HoldingPcs
<1>5. CASE EmptyCheckpointDone
  BY ZenonT(40), <1>5
  DEF EmptyCheckpointDone, TypeInv, HolderInv, WaitInv, QueueInv, SequenceInv,
      HoldingPcs
<1>6. ASSUME NEW t \in Threads, LockCas(t) PROVE SequenceInv'
  BY <1>6
  DEF LockCas, TypeInv, HolderInv, WaitInv, QueueInv, SequenceInv, HoldingPcs
<1>7. ASSUME NEW t \in Threads, LockSeesHeld(t) PROVE SequenceInv'
  BY <1>7
  DEF LockSeesHeld, TypeInv, HolderInv, WaitInv, QueueInv, SequenceInv,
      HoldingPcs
<1>8. ASSUME NEW t \in Threads, CountContender(t) PROVE SequenceInv'
  BY <1>8
  DEF CountContender, TypeInv, HolderInv, WaitInv, QueueInv, SequenceInv,
      HoldingPcs
<1>9. ASSUME NEW t \in Threads, CheckEmptyCheckpointFromMutex(t) PROVE SequenceInv'
  BY <1>9
  DEF CheckEmptyCheckpointFromMutex, TypeInv, HolderInv, WaitInv, QueueInv,
      SequenceInv, HoldingPcs
<1>10. ASSUME NEW t \in Threads, FutexWait(t) PROVE SequenceInv'
  BY <1>10
  DEF FutexWait, TypeInv, HolderInv, WaitInv, QueueInv, SequenceInv,
      HoldingPcs
<1>11. ASSUME NEW t \in Threads, UncountContender(t) PROVE SequenceInv'
  BY <1>11
  DEF UncountContender, TypeInv, HolderInv, WaitInv, QueueInv, SequenceInv,
      HoldingPcs
<1>12. ASSUME NEW t \in Threads, LockTaken(t) PROVE SequenceInv'
  BY <1>12
  DEF LockTaken, TypeInv, HolderInv, WaitInv, QueueInv, SequenceInv,
      HoldingPcs
<1>13. ASSUME NEW t \in Threads, ClearOwner(t) PROVE SequenceInv'
  BY <1>13
  DEF ClearOwner, TypeInv, HolderInv, WaitInv, QueueInv, SequenceInv,
      HoldingPcs
<1>14. ASSUME NEW t \in Threads, UnlockCas(t) PROVE SequenceInv'
  BY <1>14
  DEF UnlockCas, TypeInv, HolderInv, WaitInv, QueueInv, SequenceInv,
      HoldingPcs
<1>15. ASSUME NEW t \in Threads, UnlockLoad(t) PROVE SequenceInv'
  BY <1>15
  DEF UnlockLoad, AfterUnlock, TypeInv, HolderInv, WaitInv, QueueInv,
      SequenceInv, HoldingPcs
<1>16. ASSUME NEW t \in Threads, UnlockLoadEarly(t) PROVE SequenceInv'
  BY <1>16
  DEF UnlockLoadEarly, TypeInv, HolderInv, WaitInv, QueueInv, SequenceInv,
      HoldingPcs
<1>17. ASSUME NEW t \in Threads, UnlockCasAfterLoad(t) PROVE SequenceInv'
  BY <1>17
  DEF UnlockCasAfterLoad, AfterUnlock, TypeInv, HolderInv, WaitInv, QueueInv,
      SequenceInv, HoldingPcs
<1>18. ASSUME NEW t \in Threads, UnlockWake(t) PROVE SequenceInv'
  BY <1>18
  DEF UnlockWake, AfterWait, AfterUnlock, TypeInv, HolderInv, WaitInv,
      QueueInv, SequenceInv, HoldingPcs
<1>19. ASSUME NEW t \in Threads, CondFutexWait(t) PROVE SequenceInv'
  BY <1>19
  DEF CondFutexWait, TypeInv, HolderInv, WaitInv, QueueInv, SequenceInv,
      HoldingPcs
<1>20. ASSUME NEW t \in Threads, WaitEnds(t) PROVE SequenceInv'
  BY <1>20
  DEF WaitEnds, TypeInv, HolderInv, WaitInv, QueueInv, SequenceInv, HoldingPcs
<1>21. ASSUME NEW t \in Threads, Signal(t) PROVE SequenceInv'
  BY <1>21
  DEF Signal, TypeInv, HolderInv, WaitInv, QueueInv, SequenceInv, HoldingPcs
<1>22. ASSUME NEW t \in Threads, SignalWake(t) PROVE SequenceInv'
  BY <1>22
  DEF SignalWake, AfterWait, TypeInv, HolderInv, WaitInv, QueueInv,
      SequenceInv, HoldingPcs
<1>23. ASSUME NEW t \in Threads, Broadcast(t) PROVE SequenceInv'
  BY <1>23
  DEF Broadcast, TypeInv, HolderInv, WaitInv, QueueInv, SequenceInv,
      HoldingPcs
<1>24. ASSUME NEW t \in Threads, BroadcastRequeue(t) PROVE SequenceInv'
  BY ZenonT(40), <1>24
  DEF BroadcastRequeue, TypeInv, HolderInv, WaitInv, QueueInv, SequenceInv,
      HoldingPcs
<1>25. ASSUME NEW t \in Threads, ExclusiveLock(t) PROVE SequenceInv'
  BY <1>25
  DEF ExclusiveLock, TypeInv, HolderInv, WaitInv, QueueInv, SequenceInv,
      HoldingPcs
<1>26. ASSUME NEW t \in Threads, ExclusiveLockAgain(t) PROVE SequenceInv'
  BY ZenonT(40), <1>26
  DEF ExclusiveLockAgain, TypeInv, HolderInv, WaitInv, QueueInv, SequenceInv,
      HoldingPcs
<1>27. ASSUME NEW t \in Threads, ExclusiveTryLock(t) PROVE SequenceInv'
  BY <1>27
  DEF ExclusiveTryLock, TypeInv, HolderInv, WaitInv, QueueInv, SequenceInv,
      HoldingPcs
<1>28. ASSUME NEW t \in Threads, ExclusiveUnlock(t) PROVE SequenceInv'
  BY <1>28
  DEF ExclusiveUnlock, TypeInv, HolderInv, WaitInv, QueueInv, SequenceInv,
      HoldingPcs
<1>29. ASSUME NEW t \in Threads, WaitHoldingLocks(t) PROVE SequenceInv'
  BY <1>29
  DEF WaitHoldingLocks, TypeInv, HolderInv, WaitInv, QueueInv, SequenceInv,
      HoldingPcs
<1>30. ASSUME NEW t \in Threads, CallSignal(t) PROVE SequenceInv'
  BY <1>30
  DEF CallSignal, TypeInv, HolderInv, WaitInv, QueueInv, SequenceInv,
      HoldingPcs
<1>31. ASSUME NEW t \in Threads, CallBroadcast(t) PROVE SequenceInv'
  BY <1>31
  DEF CallBroadcast, TypeInv, HolderInv, WaitInv, QueueInv, SequenceInv,
      HoldingPcs
<1>32. ASSUME NEW t \in Threads, FutexWaitInterrupted(t) PROVE SequenceInv'
  BY <1>32
  DEF FutexWaitInterrupted, AfterWait, TypeInv, HolderInv, WaitInv, QueueInv,
      SequenceInv, HoldingPcs
<1>33. ASSUME NEW t \in Threads, AnswerEmptyCheckpoint(t) PROVE SequenceInv'
  BY ZenonT(40), <1>33
  DEF AnswerEmptyCheckpoint, TypeInv, HolderInv, WaitInv, QueueInv,
      SequenceInv, HoldingPcs
<1>34. ASSUME NEW t \in Threads, CheckEmptyCheckpointFromWeakRefAccess(t) PROVE SequenceInv'
  BY ZenonT(40), <1>34
  DEF CheckEmptyCheckpointFromWeakRefAccess, TypeInv, HolderInv, WaitInv,
      QueueInv, SequenceInv, HoldingPcs
<1>35. CASE BroadcastForNewSystemWeaks
  BY ZenonT(40), <1>35, FutexAssumption
  DEF BroadcastForNewSystemWeaks, TypeInv, HolderInv, WaitInv, QueueInv,
      SequenceInv, HoldingPcs
<1>36. CASE BroadcastDone
  BY ZenonT(40), <1>36
  DEF BroadcastDone, TypeInv, HolderInv, WaitInv, QueueInv, SequenceInv,
      HoldingPcs
<1> QED
  BY ZenonT(40), <1>1, <1>2, <1>3, <1>4, <1>5, <1>6, <1>7, <1>8, <1>9, <1>10,
     <1>11, <1>12, <1>13, <1>14, <1>15, <1>16, <1>17, <1>18, <1>19, <1>20,
     <1>21, <1>22, <1>23, <1>24, <1>25, <1>26, <1>27, <1>28, <1>29, <1>30,
     <1>31, <1>32, <1>33, <1>34, <1>35, <1>36
  DEF Next, MutexStep, CondStep, ClientStep, RequesterStep

\* Neither the counts nor who is counted changes.
CountsKept == UNCHANGED <<Waiting, Counted, waiters, contenders>>

\* num_contenders_ and num_waiters_ count: ExclusiveLock adds and removes
\* itself, WaitHoldingLocks adds the thread to both and WaitEnds removes it.
LEMMA CountsStep ==
  ASSUME TypeInv, WaitInv, QueueInv, CountsExact, [Next]_vars
  PROVE  CountsExact'
<1>0. CountsKept => CountsExact'
  BY ZenonT(40) DEF CountsKept, CountsExact, Waiting, Counted
<1>1. ASSUME UNCHANGED vars PROVE CountsKept
  BY ZenonT(40), <1>1
  DEF vars, TypeInv, QueueInv, CountsKept, Waiting, Counted, CountedPcs
<1>2. ASSUME RunEmptyCheckpoint PROVE CountsKept
  BY ZenonT(40), <1>2, FutexAssumption
  DEF RunEmptyCheckpoint, TypeInv, QueueInv, CountsKept, Waiting, Counted,
      CountedPcs
<1>3. ASSUME WakeupToRespondToEmptyCheckpoint PROVE CountsKept
  BY ZenonT(40), <1>3
  DEF WakeupToRespondToEmptyCheckpoint, AfterWait, TypeInv, QueueInv,
      CountsKept, Waiting, Counted, CountedPcs
<1>4. ASSUME BarrierTimesOut PROVE CountsKept
  BY ZenonT(40), <1>4
  DEF BarrierTimesOut, TypeInv, QueueInv, CountsKept, Waiting, Counted,
      CountedPcs
<1>5. ASSUME EmptyCheckpointDone PROVE CountsKept
  BY ZenonT(40), <1>5
  DEF EmptyCheckpointDone, TypeInv, QueueInv, CountsKept, Waiting, Counted,
      CountedPcs
<1>6. ASSUME NEW t \in Threads, LockCas(t) PROVE CountsKept
  BY ZenonT(40), <1>6
  DEF LockCas, TypeInv, QueueInv, CountsKept, Waiting, Counted, CountedPcs
<1>7. ASSUME NEW t \in Threads, LockSeesHeld(t) PROVE CountsKept
  BY ZenonT(40), <1>7
  DEF LockSeesHeld, TypeInv, QueueInv, CountsKept, Waiting, Counted,
      CountedPcs
<1>8. ASSUME NEW t \in Threads, CountContender(t) PROVE CountsExact'
  <2>1. Counted' = Counted \union {t} /\ t \notin Counted /\ Waiting' = Waiting
    BY ZenonT(40), <1>8
    DEF CountContender, TypeInv, WaitInv, Waiting, Counted, CountedPcs
  <2>2. Counted \in SUBSET Threads
    BY ZenonT(40) DEF Waiting, Counted
  <2>3. Cardinality(Counted') = Cardinality(Counted) + 1
    BY ZenonT(40), <2>1, <2>2, ThreadSets
  <2>4. Cardinality(Waiting) \in Nat /\ Cardinality(Counted) \in Nat
    BY ZenonT(40), ThreadSets DEF Waiting, Counted
  <2>5. waiters = Cardinality(Waiting) /\ contenders = waiters + Cardinality(Counted)
    BY ZenonT(40) DEF CountsExact, Waiting, Counted
  <2>6. waiters' = Cardinality(Waiting') /\ contenders' = waiters' + Cardinality(Counted')
    BY <1>8, <2>1, <2>3, <2>4, <2>5 DEF CountContender
  <2> QED
    BY ZenonT(40), <2>6 DEF CountsExact, Waiting, Counted
<1>9. ASSUME NEW t \in Threads, CheckEmptyCheckpointFromMutex(t) PROVE CountsKept
  BY ZenonT(40), <1>9
  DEF CheckEmptyCheckpointFromMutex, TypeInv, QueueInv, CountsKept, Waiting,
      Counted, CountedPcs
<1>10. ASSUME NEW t \in Threads, FutexWait(t) PROVE CountsKept
  BY ZenonT(40), <1>10
  DEF FutexWait, TypeInv, QueueInv, CountsKept, Waiting, Counted, CountedPcs
<1>11. ASSUME NEW t \in Threads, UncountContender(t) PROVE CountsExact'
  <2>1. Counted' = Counted \ {t} /\ t \in Counted /\ Waiting' = Waiting
    BY ZenonT(40), <1>11
    DEF UncountContender, TypeInv, WaitInv, Waiting, Counted, CountedPcs
  <2>2. Counted \in SUBSET Threads
    BY ZenonT(40) DEF Waiting, Counted
  <2>3. Cardinality(Counted') = Cardinality(Counted) - 1
    BY ZenonT(40), <2>1, <2>2, ThreadSets
  <2>4. Cardinality(Waiting) \in Nat /\ Cardinality(Counted) \in Nat
    BY ZenonT(40), ThreadSets DEF Waiting, Counted
  <2>5. waiters = Cardinality(Waiting) /\ contenders = waiters + Cardinality(Counted)
    BY ZenonT(40) DEF CountsExact, Waiting, Counted
  <2>6. waiters' = Cardinality(Waiting') /\ contenders' = waiters' + Cardinality(Counted')
    BY <1>11, <2>1, <2>3, <2>4, <2>5 DEF UncountContender
  <2> QED
    BY ZenonT(40), <2>6 DEF CountsExact, Waiting, Counted
<1>12. ASSUME NEW t \in Threads, LockTaken(t) PROVE CountsKept
  BY ZenonT(40), <1>12
  DEF LockTaken, TypeInv, QueueInv, CountsKept, Waiting, Counted, CountedPcs
<1>13. ASSUME NEW t \in Threads, ClearOwner(t) PROVE CountsKept
  BY ZenonT(40), <1>13
  DEF ClearOwner, TypeInv, QueueInv, CountsKept, Waiting, Counted, CountedPcs
<1>14. ASSUME NEW t \in Threads, UnlockCas(t) PROVE CountsKept
  BY ZenonT(40), <1>14
  DEF UnlockCas, TypeInv, QueueInv, CountsKept, Waiting, Counted, CountedPcs
<1>15. ASSUME NEW t \in Threads, UnlockLoad(t) PROVE CountsKept
  BY ZenonT(40), <1>15
  DEF UnlockLoad, AfterUnlock, TypeInv, QueueInv, CountsKept, Waiting,
      Counted, CountedPcs
<1>16. ASSUME NEW t \in Threads, UnlockLoadEarly(t) PROVE CountsKept
  BY ZenonT(40), <1>16
  DEF UnlockLoadEarly, TypeInv, QueueInv, CountsKept, Waiting, Counted,
      CountedPcs
<1>17. ASSUME NEW t \in Threads, UnlockCasAfterLoad(t) PROVE CountsKept
  BY ZenonT(40), <1>17
  DEF UnlockCasAfterLoad, AfterUnlock, TypeInv, QueueInv, CountsKept, Waiting,
      Counted, CountedPcs
<1>18. ASSUME NEW t \in Threads, UnlockWake(t) PROVE CountsKept
  BY ZenonT(40), <1>18
  DEF UnlockWake, AfterWait, AfterUnlock, TypeInv, QueueInv, CountsKept,
      Waiting, Counted, CountedPcs
<1>19. ASSUME NEW t \in Threads, CondFutexWait(t) PROVE CountsKept
  BY ZenonT(40), <1>19
  DEF CondFutexWait, TypeInv, QueueInv, CountsKept, Waiting, Counted,
      CountedPcs
<1>20. ASSUME NEW t \in Threads, WaitEnds(t) PROVE CountsExact'
  <2>1. Waiting' = Waiting \ {t} /\ t \in Waiting /\ Counted' = Counted
    BY ZenonT(40), <1>20
    DEF WaitEnds, TypeInv, WaitInv, Waiting, Counted, CountedPcs
  <2>2. Waiting \in SUBSET Threads
    BY ZenonT(40) DEF Waiting, Counted
  <2>3. Cardinality(Waiting') = Cardinality(Waiting) - 1
    BY ZenonT(40), <2>1, <2>2, ThreadSets
  <2>4. Cardinality(Waiting) \in Nat /\ Cardinality(Counted) \in Nat
    BY ZenonT(40), ThreadSets DEF Waiting, Counted
  <2>5. waiters = Cardinality(Waiting) /\ contenders = waiters + Cardinality(Counted)
    BY ZenonT(40) DEF CountsExact, Waiting, Counted
  <2>6. waiters' = Cardinality(Waiting') /\ contenders' = waiters' + Cardinality(Counted')
    BY <1>20, <2>1, <2>3, <2>4, <2>5 DEF WaitEnds
  <2> QED
    BY ZenonT(40), <2>6 DEF CountsExact, Waiting, Counted
<1>21. ASSUME NEW t \in Threads, Signal(t) PROVE CountsKept
  BY ZenonT(40), <1>21
  DEF Signal, TypeInv, QueueInv, CountsKept, Waiting, Counted, CountedPcs
<1>22. ASSUME NEW t \in Threads, SignalWake(t) PROVE CountsKept
  BY ZenonT(40), <1>22
  DEF SignalWake, AfterWait, TypeInv, QueueInv, CountsKept, Waiting, Counted,
      CountedPcs
<1>23. ASSUME NEW t \in Threads, Broadcast(t) PROVE CountsKept
  BY ZenonT(40), <1>23
  DEF Broadcast, TypeInv, QueueInv, CountsKept, Waiting, Counted, CountedPcs
<1>24. ASSUME NEW t \in Threads, BroadcastRequeue(t) PROVE CountsKept
  BY ZenonT(40), <1>24
  DEF BroadcastRequeue, TypeInv, QueueInv, CountsKept, Waiting, Counted,
      CountedPcs
<1>25. ASSUME NEW t \in Threads, ExclusiveLock(t) PROVE CountsKept
  BY ZenonT(40), <1>25
  DEF ExclusiveLock, TypeInv, QueueInv, CountsKept, Waiting, Counted,
      CountedPcs
<1>26. ASSUME NEW t \in Threads, ExclusiveLockAgain(t) PROVE CountsKept
  BY ZenonT(40), <1>26
  DEF ExclusiveLockAgain, TypeInv, QueueInv, CountsKept, Waiting, Counted,
      CountedPcs
<1>27. ASSUME NEW t \in Threads, ExclusiveTryLock(t) PROVE CountsKept
  BY ZenonT(40), <1>27
  DEF ExclusiveTryLock, TypeInv, QueueInv, CountsKept, Waiting, Counted,
      CountedPcs
<1>28. ASSUME NEW t \in Threads, ExclusiveUnlock(t) PROVE CountsKept
  BY ZenonT(40), <1>28
  DEF ExclusiveUnlock, TypeInv, QueueInv, CountsKept, Waiting, Counted,
      CountedPcs
<1>29. ASSUME NEW t \in Threads, WaitHoldingLocks(t) PROVE CountsExact'
  <2>1. Waiting' = Waiting \union {t} /\ t \notin Waiting /\ Counted' = Counted
    BY ZenonT(40), <1>29
    DEF WaitHoldingLocks, TypeInv, WaitInv, Waiting, Counted, CountedPcs
  <2>2. Waiting \in SUBSET Threads
    BY ZenonT(40) DEF Waiting, Counted
  <2>3. Cardinality(Waiting') = Cardinality(Waiting) + 1
    BY ZenonT(40), <2>1, <2>2, ThreadSets
  <2>4. Cardinality(Waiting) \in Nat /\ Cardinality(Counted) \in Nat
    BY ZenonT(40), ThreadSets DEF Waiting, Counted
  <2>5. waiters = Cardinality(Waiting) /\ contenders = waiters + Cardinality(Counted)
    BY ZenonT(40) DEF CountsExact, Waiting, Counted
  <2>6. waiters' = Cardinality(Waiting') /\ contenders' = waiters' + Cardinality(Counted')
    BY <1>29, <2>1, <2>3, <2>4, <2>5 DEF WaitHoldingLocks
  <2> QED
    BY ZenonT(40), <2>6 DEF CountsExact, Waiting, Counted
<1>30. ASSUME NEW t \in Threads, CallSignal(t) PROVE CountsKept
  BY ZenonT(40), <1>30
  DEF CallSignal, TypeInv, QueueInv, CountsKept, Waiting, Counted, CountedPcs
<1>31. ASSUME NEW t \in Threads, CallBroadcast(t) PROVE CountsKept
  BY ZenonT(40), <1>31
  DEF CallBroadcast, TypeInv, QueueInv, CountsKept, Waiting, Counted,
      CountedPcs
<1>32. ASSUME NEW t \in Threads, FutexWaitInterrupted(t) PROVE CountsKept
  BY ZenonT(40), <1>32
  DEF FutexWaitInterrupted, AfterWait, TypeInv, QueueInv, CountsKept, Waiting,
      Counted, CountedPcs
<1>33. ASSUME NEW t \in Threads, AnswerEmptyCheckpoint(t) PROVE CountsKept
  BY ZenonT(40), <1>33
  DEF AnswerEmptyCheckpoint, TypeInv, QueueInv, CountsKept, Waiting, Counted,
      CountedPcs
<1>34. ASSUME NEW t \in Threads, CheckEmptyCheckpointFromWeakRefAccess(t) PROVE CountsKept
  BY ZenonT(40), <1>34
  DEF CheckEmptyCheckpointFromWeakRefAccess, TypeInv, QueueInv, CountsKept,
      Waiting, Counted, CountedPcs
<1>35. ASSUME BroadcastForNewSystemWeaks PROVE CountsKept
  BY ZenonT(40), <1>35, FutexAssumption
  DEF BroadcastForNewSystemWeaks, TypeInv, QueueInv, CountsKept, Waiting,
      Counted, CountedPcs
<1>36. ASSUME BroadcastDone PROVE CountsKept
  BY ZenonT(40), <1>36
  DEF BroadcastDone, TypeInv, QueueInv, CountsKept, Waiting, Counted,
      CountedPcs
<1> QED
  BY ZenonT(40), <1>0, <1>1, <1>2, <1>3, <1>4, <1>5, <1>6, <1>7, <1>8, <1>9,
     <1>10, <1>11, <1>12, <1>13, <1>14, <1>15, <1>16, <1>17, <1>18, <1>19,
     <1>20, <1>21, <1>22, <1>23, <1>24, <1>25, <1>26, <1>27, <1>28, <1>29,
     <1>30, <1>31, <1>32, <1>33, <1>34, <1>35, <1>36
  DEF Next, MutexStep, CondStep, ClientStep, RequesterStep

\* No counter goes below zero: who lowers one is counted in it.
LEMMA TypeStep ==
  ASSUME TypeInv, CountsExact, WaitInv, RecursionInv, [Next]_vars
  PROVE  TypeInv'
<1>1. CASE UNCHANGED vars
  BY ZenonT(40), <1>1 DEF vars, TypeInv, Pc, Requester
<1>2. CASE RunEmptyCheckpoint
  BY <1>2, FutexAssumption DEF RunEmptyCheckpoint, TypeInv, Pc, Requester
<1>3. CASE WakeupToRespondToEmptyCheckpoint
  BY ZenonT(40), <1>3
  DEF WakeupToRespondToEmptyCheckpoint, AfterWait, TypeInv, Pc, Requester
<1>4. CASE BarrierTimesOut
  BY ZenonT(40), <1>4 DEF BarrierTimesOut, TypeInv, Pc, Requester
<1>5. CASE EmptyCheckpointDone
  BY ZenonT(40), <1>5 DEF EmptyCheckpointDone, TypeInv, Pc, Requester
<1>6. ASSUME NEW t \in Threads, LockCas(t) PROVE TypeInv'
  BY ZenonT(40), <1>6 DEF LockCas, TypeInv, Pc, Requester
<1>7. ASSUME NEW t \in Threads, LockSeesHeld(t) PROVE TypeInv'
  BY ZenonT(40), <1>7 DEF LockSeesHeld, TypeInv, Pc, Requester
<1>8. ASSUME NEW t \in Threads, CountContender(t) PROVE TypeInv'
  BY <1>8 DEF CountContender, TypeInv, Pc, Requester
<1>9. ASSUME NEW t \in Threads, CheckEmptyCheckpointFromMutex(t) PROVE TypeInv'
  BY ZenonT(40), <1>9 DEF CheckEmptyCheckpointFromMutex, TypeInv, Pc, Requester
<1>10. ASSUME NEW t \in Threads, FutexWait(t) PROVE TypeInv'
  BY ZenonT(40), <1>10 DEF FutexWait, TypeInv, Pc, Requester
<1>11. ASSUME NEW t \in Threads, UncountContender(t) PROVE TypeInv'
  <2>1. contenders > 0
    BY ZenonT(40), <1>11, CountedContends DEF UncountContender, CountedPcs
  <2> QED
    BY <1>11, <2>1 DEF UncountContender, TypeInv, Pc, Requester
<1>12. ASSUME NEW t \in Threads, LockTaken(t) PROVE TypeInv'
  BY <1>12 DEF LockTaken, TypeInv, Pc, Requester
<1>13. ASSUME NEW t \in Threads, ClearOwner(t) PROVE TypeInv'
  BY ZenonT(40), <1>13 DEF ClearOwner, TypeInv, Pc, Requester
<1>14. ASSUME NEW t \in Threads, UnlockCas(t) PROVE TypeInv'
  BY ZenonT(40), <1>14 DEF UnlockCas, TypeInv, Pc, Requester
<1>15. ASSUME NEW t \in Threads, UnlockLoad(t) PROVE TypeInv'
  BY ZenonT(40), <1>15 DEF UnlockLoad, AfterUnlock, TypeInv, Pc, Requester
<1>16. ASSUME NEW t \in Threads, UnlockLoadEarly(t) PROVE TypeInv'
  BY ZenonT(40), <1>16 DEF UnlockLoadEarly, TypeInv, Pc, Requester
<1>17. ASSUME NEW t \in Threads, UnlockCasAfterLoad(t) PROVE TypeInv'
  BY ZenonT(40), <1>17
  DEF UnlockCasAfterLoad, AfterUnlock, TypeInv, Pc, Requester
<1>18. ASSUME NEW t \in Threads, UnlockWake(t) PROVE TypeInv'
  BY ZenonT(40), <1>18
  DEF UnlockWake, AfterWait, AfterUnlock, TypeInv, Pc, Requester
<1>19. ASSUME NEW t \in Threads, CondFutexWait(t) PROVE TypeInv'
  BY ZenonT(40), <1>19 DEF CondFutexWait, TypeInv, Pc, Requester
<1>20. ASSUME NEW t \in Threads, WaitEnds(t) PROVE TypeInv'
  <2>1. contenders > 0 /\ waiters > 0
    BY ZenonT(40), <1>20, CountedContends DEF WaitEnds, WaitInv
  <2> QED
    BY <1>20, <2>1 DEF WaitEnds, TypeInv, Pc, Requester
<1>21. ASSUME NEW t \in Threads, Signal(t) PROVE TypeInv'
  BY <1>21 DEF Signal, TypeInv, Pc, Requester
<1>22. ASSUME NEW t \in Threads, SignalWake(t) PROVE TypeInv'
  BY ZenonT(40), <1>22 DEF SignalWake, AfterWait, TypeInv, Pc, Requester
<1>23. ASSUME NEW t \in Threads, Broadcast(t) PROVE TypeInv'
  BY <1>23 DEF Broadcast, TypeInv, Pc, Requester
<1>24. ASSUME NEW t \in Threads, BroadcastRequeue(t) PROVE TypeInv'
  BY ZenonT(40), <1>24 DEF BroadcastRequeue, TypeInv, Pc, Requester
<1>25. ASSUME NEW t \in Threads, ExclusiveLock(t) PROVE TypeInv'
  BY <1>25 DEF ExclusiveLock, TypeInv, Pc, Requester
<1>26. ASSUME NEW t \in Threads, ExclusiveLockAgain(t) PROVE TypeInv'
  BY <1>26 DEF ExclusiveLockAgain, TypeInv, Pc, Requester
<1>27. ASSUME NEW t \in Threads, ExclusiveTryLock(t) PROVE TypeInv'
  BY <1>27 DEF ExclusiveTryLock, TypeInv, Pc, Requester
<1>28. ASSUME NEW t \in Threads, ExclusiveUnlock(t) PROVE TypeInv'
  BY <1>28
  DEF ExclusiveUnlock, TypeInv, Pc, Requester, RecursionInv, CriticalPcs
<1>29. ASSUME NEW t \in Threads, WaitHoldingLocks(t) PROVE TypeInv'
  BY <1>29 DEF WaitHoldingLocks, TypeInv, Pc, Requester
<1>30. ASSUME NEW t \in Threads, CallSignal(t) PROVE TypeInv'
  BY <1>30 DEF CallSignal, TypeInv, Pc, Requester
<1>31. ASSUME NEW t \in Threads, CallBroadcast(t) PROVE TypeInv'
  BY <1>31 DEF CallBroadcast, TypeInv, Pc, Requester
<1>32. ASSUME NEW t \in Threads, FutexWaitInterrupted(t) PROVE TypeInv'
  BY ZenonT(40), <1>32
  DEF FutexWaitInterrupted, AfterWait, TypeInv, Pc, Requester
<1>33. ASSUME NEW t \in Threads, AnswerEmptyCheckpoint(t) PROVE TypeInv'
  BY ZenonT(40), <1>33 DEF AnswerEmptyCheckpoint, TypeInv, Pc, Requester
<1>34. ASSUME NEW t \in Threads, CheckEmptyCheckpointFromWeakRefAccess(t) PROVE TypeInv'
  BY <1>34 DEF CheckEmptyCheckpointFromWeakRefAccess, TypeInv, Pc, Requester
<1>35. CASE BroadcastForNewSystemWeaks
  BY <1>35 DEF BroadcastForNewSystemWeaks, TypeInv, Pc, Requester
<1>36. CASE BroadcastDone
  BY <1>36 DEF BroadcastDone, TypeInv, Pc, Requester
<1> QED
  BY ZenonT(40), <1>1, <1>2, <1>3, <1>4, <1>5, <1>6, <1>7, <1>8, <1>9, <1>10,
     <1>11, <1>12, <1>13, <1>14, <1>15, <1>16, <1>17, <1>18, <1>19, <1>20,
     <1>21, <1>22, <1>23, <1>24, <1>25, <1>26, <1>27, <1>28, <1>29, <1>30,
     <1>31, <1>32, <1>33, <1>34, <1>35, <1>36
  DEF Next, MutexStep, CondStep, ClientStep, RequesterStep

\* A thread that unlocks looks at num_contenders_ when the mutex is free, and
\* every thread asleep is counted there.
LEMMA OrderedStep ==
  ASSUME TypeInv, CountsExact, HolderInv, WaitInv, QueueInv, OrderedInv, [Next]_vars
  PROVE  OrderedInv'
<1>1. CASE UNCHANGED vars
  BY ZenonT(40), <1>1
  DEF vars, TypeInv, HolderInv, HoldingPcs, QueueInv, OrderedInv,
      NoLostContender
<1>2. CASE RunEmptyCheckpoint
  BY ZenonT(40), <1>2, FutexAssumption
  DEF RunEmptyCheckpoint, TypeInv, HolderInv, HoldingPcs, QueueInv,
      OrderedInv, NoLostContender
<1>3. CASE WakeupToRespondToEmptyCheckpoint
  BY ZenonT(40), <1>3
  DEF WakeupToRespondToEmptyCheckpoint, AfterWait, TypeInv, HolderInv,
      HoldingPcs, QueueInv, OrderedInv, NoLostContender
<1>4. CASE BarrierTimesOut
  BY ZenonT(40), <1>4
  DEF BarrierTimesOut, TypeInv, HolderInv, HoldingPcs, QueueInv, OrderedInv,
      NoLostContender
<1>5. CASE EmptyCheckpointDone
  BY ZenonT(40), <1>5
  DEF EmptyCheckpointDone, TypeInv, HolderInv, HoldingPcs, QueueInv,
      OrderedInv, NoLostContender
<1>6. ASSUME NEW t \in Threads, LockCas(t) PROVE OrderedInv'
  BY <1>6
  DEF LockCas, TypeInv, HolderInv, HoldingPcs, QueueInv, OrderedInv,
      NoLostContender
<1>7. ASSUME NEW t \in Threads, LockSeesHeld(t) PROVE OrderedInv'
  BY ZenonT(40), <1>7
  DEF LockSeesHeld, TypeInv, HolderInv, HoldingPcs, QueueInv, OrderedInv,
      NoLostContender
<1>8. ASSUME NEW t \in Threads, CountContender(t) PROVE OrderedInv'
  BY ZenonT(40), <1>8
  DEF CountContender, TypeInv, HolderInv, HoldingPcs, QueueInv, OrderedInv,
      NoLostContender
<1>9. ASSUME NEW t \in Threads, CheckEmptyCheckpointFromMutex(t) PROVE OrderedInv'
  BY ZenonT(40), <1>9
  DEF CheckEmptyCheckpointFromMutex, TypeInv, HolderInv, HoldingPcs, QueueInv,
      OrderedInv, NoLostContender
<1>10. ASSUME NEW t \in Threads, FutexWait(t) PROVE OrderedInv'
  BY <1>10
  DEF FutexWait, TypeInv, HolderInv, HoldingPcs, QueueInv, OrderedInv,
      NoLostContender
<1>11. ASSUME NEW t \in Threads, UncountContender(t) PROVE OrderedInv'
  BY ZenonT(40), <1>11
  DEF UncountContender, TypeInv, HolderInv, HoldingPcs, QueueInv, OrderedInv,
      NoLostContender
<1>12. ASSUME NEW t \in Threads, LockTaken(t) PROVE OrderedInv'
  BY ZenonT(40), <1>12
  DEF LockTaken, TypeInv, HolderInv, HoldingPcs, QueueInv, OrderedInv,
      NoLostContender
<1>13. ASSUME NEW t \in Threads, ClearOwner(t) PROVE OrderedInv'
  BY ZenonT(40), <1>13
  DEF ClearOwner, TypeInv, HolderInv, HoldingPcs, QueueInv, OrderedInv,
      NoLostContender
<1>14. ASSUME NEW t \in Threads, UnlockCas(t) PROVE OrderedInv'
  BY ZenonT(40), <1>14
  DEF UnlockCas, TypeInv, HolderInv, HoldingPcs, QueueInv, OrderedInv,
      NoLostContender
<1>15. ASSUME NEW t \in Threads, UnlockLoad(t) PROVE OrderedInv'
  <2>1. mutexQueue # {} => contenders > 0
    <3>1. \A u \in mutexQueue : waiting[u] \/ pc[u] \in CountedPcs
      BY ZenonT(40) DEF QueueInv, WaitInv, CountedPcs, TypeInv
    <3> QED
      BY ZenonT(40), <3>1, CountedContends DEF TypeInv
  <2> QED
    BY ZenonT(40), <1>15, <2>1
    DEF UnlockLoad, AfterUnlock, TypeInv, OrderedInv, NoLostContender
<1>16. ASSUME NEW t \in Threads, UnlockLoadEarly(t) PROVE OrderedInv'
  BY ZenonT(40), <1>16
  DEF UnlockLoadEarly, TypeInv, HolderInv, HoldingPcs, QueueInv, OrderedInv,
      NoLostContender
<1>17. ASSUME NEW t \in Threads, UnlockCasAfterLoad(t) PROVE OrderedInv'
  BY ZenonT(40), <1>17
  DEF UnlockCasAfterLoad, AfterUnlock, TypeInv, HolderInv, HoldingPcs,
      QueueInv, OrderedInv, NoLostContender
<1>18. ASSUME NEW t \in Threads, UnlockWake(t) PROVE OrderedInv'
  BY <1>18
  DEF UnlockWake, AfterWait, AfterUnlock, TypeInv, HolderInv, HoldingPcs,
      QueueInv, OrderedInv, NoLostContender
<1>19. ASSUME NEW t \in Threads, CondFutexWait(t) PROVE OrderedInv'
  BY ZenonT(40), <1>19
  DEF CondFutexWait, TypeInv, HolderInv, HoldingPcs, QueueInv, OrderedInv,
      NoLostContender
<1>20. ASSUME NEW t \in Threads, WaitEnds(t) PROVE OrderedInv'
  BY ZenonT(40), <1>20
  DEF WaitEnds, TypeInv, HolderInv, HoldingPcs, QueueInv, OrderedInv,
      NoLostContender
<1>21. ASSUME NEW t \in Threads, Signal(t) PROVE OrderedInv'
  BY ZenonT(40), <1>21
  DEF Signal, TypeInv, HolderInv, HoldingPcs, QueueInv, OrderedInv,
      NoLostContender
<1>22. ASSUME NEW t \in Threads, SignalWake(t) PROVE OrderedInv'
  BY ZenonT(40), <1>22
  DEF SignalWake, AfterWait, TypeInv, HolderInv, HoldingPcs, QueueInv,
      OrderedInv, NoLostContender
<1>23. ASSUME NEW t \in Threads, Broadcast(t) PROVE OrderedInv'
  BY ZenonT(40), <1>23
  DEF Broadcast, TypeInv, HolderInv, HoldingPcs, QueueInv, OrderedInv,
      NoLostContender
<1>24. ASSUME NEW t \in Threads, BroadcastRequeue(t) PROVE OrderedInv'
  BY <1>24
  DEF BroadcastRequeue, TypeInv, HolderInv, HoldingPcs, QueueInv, OrderedInv,
      NoLostContender
<1>25. ASSUME NEW t \in Threads, ExclusiveLock(t) PROVE OrderedInv'
  BY ZenonT(40), <1>25
  DEF ExclusiveLock, TypeInv, HolderInv, HoldingPcs, QueueInv, OrderedInv,
      NoLostContender
<1>26. ASSUME NEW t \in Threads, ExclusiveLockAgain(t) PROVE OrderedInv'
  BY ZenonT(40), <1>26
  DEF ExclusiveLockAgain, TypeInv, HolderInv, HoldingPcs, QueueInv,
      OrderedInv, NoLostContender
<1>27. ASSUME NEW t \in Threads, ExclusiveTryLock(t) PROVE OrderedInv'
  BY ZenonT(40), <1>27
  DEF ExclusiveTryLock, TypeInv, HolderInv, HoldingPcs, QueueInv, OrderedInv,
      NoLostContender
<1>28. ASSUME NEW t \in Threads, ExclusiveUnlock(t) PROVE OrderedInv'
  BY ZenonT(40), <1>28
  DEF ExclusiveUnlock, TypeInv, HolderInv, HoldingPcs, QueueInv, OrderedInv,
      NoLostContender
<1>29. ASSUME NEW t \in Threads, WaitHoldingLocks(t) PROVE OrderedInv'
  BY ZenonT(40), <1>29
  DEF WaitHoldingLocks, TypeInv, HolderInv, HoldingPcs, QueueInv, OrderedInv,
      NoLostContender
<1>30. ASSUME NEW t \in Threads, CallSignal(t) PROVE OrderedInv'
  BY ZenonT(40), <1>30
  DEF CallSignal, TypeInv, HolderInv, HoldingPcs, QueueInv, OrderedInv,
      NoLostContender
<1>31. ASSUME NEW t \in Threads, CallBroadcast(t) PROVE OrderedInv'
  BY ZenonT(40), <1>31
  DEF CallBroadcast, TypeInv, HolderInv, HoldingPcs, QueueInv, OrderedInv,
      NoLostContender
<1>32. ASSUME NEW t \in Threads, FutexWaitInterrupted(t) PROVE OrderedInv'
  BY ZenonT(40), <1>32
  DEF FutexWaitInterrupted, AfterWait, TypeInv, HolderInv, HoldingPcs,
      QueueInv, OrderedInv, NoLostContender
<1>33. ASSUME NEW t \in Threads, AnswerEmptyCheckpoint(t) PROVE OrderedInv'
  BY ZenonT(40), <1>33
  DEF AnswerEmptyCheckpoint, TypeInv, HolderInv, HoldingPcs, QueueInv,
      OrderedInv, NoLostContender
<1>34. ASSUME NEW t \in Threads, CheckEmptyCheckpointFromWeakRefAccess(t) PROVE OrderedInv'
  BY ZenonT(40), <1>34
  DEF CheckEmptyCheckpointFromWeakRefAccess, TypeInv, HolderInv, HoldingPcs,
      QueueInv, OrderedInv, NoLostContender
<1>35. CASE BroadcastForNewSystemWeaks
  BY ZenonT(40), <1>35, FutexAssumption
  DEF BroadcastForNewSystemWeaks, TypeInv, HolderInv, HoldingPcs, QueueInv,
      OrderedInv, NoLostContender
<1>36. CASE BroadcastDone
  BY ZenonT(40), <1>36
  DEF BroadcastDone, TypeInv, HolderInv, HoldingPcs, QueueInv,
      OrderedInv, NoLostContender
<1> QED
  BY ZenonT(40), <1>1, <1>2, <1>3, <1>4, <1>5, <1>6, <1>7, <1>8, <1>9, <1>10,
     <1>11, <1>12, <1>13, <1>14, <1>15, <1>16, <1>17, <1>18, <1>19, <1>20,
     <1>21, <1>22, <1>23, <1>24, <1>25, <1>26, <1>27, <1>28, <1>29, <1>30,
     <1>31, <1>32, <1>33, <1>34, <1>35, <1>36
  DEF Next, MutexStep, CondStep, ClientStep, RequesterStep

\* A step that only ends waits moves threads from Waitset to Returning.
LEMMA EndedWaits ==
  ASSUME waiting' = waiting, Holders' = Holders, Waitset' \subseteq Waitset
  PROVE  /\ Returning' = Returning \union (Waitset \ Waitset')
         /\ Waitset' = Waitset \ (Waitset \ Waitset')
<1>1. \A t \in Waitset : t \in Threads /\ waiting[t] /\ t \notin Holders
  BY ZenonT(40) DEF Waitset, Holders, HoldingPcs
<1> QED
  BY ZenonT(40), <1>1 DEF Returning

\* The abstract step of an interruption, and of a Signal or Broadcast that has
\* raised sequence_ and has yet to wake the threads asleep.
LEMMA EndsForNoReason ==
  ASSUME waiting' = waiting, Holders' = Holders, Waitset' \subseteq Waitset,
         Calling' = Calling
  PROVE  Condition!EndForNoReason
  BY ZenonT(40), EndedWaits DEF Condition!EndForNoReason, Condition!EndWaits

\* The abstract step of a Signal that returns.
LEMMA SignalEnds ==
  ASSUME waiting' = waiting, Holders' = Holders, Waitset' \subseteq Waitset,
         Waitset = {} \/ Waitset' # Waitset, NEW t \in Threads,
         Calling[t] = "Signal", Calling' = [Calling EXCEPT ![t] = "none"]
  PROVE  Condition!SignalReturns(t)
  BY ZenonT(40), EndedWaits DEF Condition!SignalReturns, Condition!EndWaits

\* The abstract step of a Broadcast that returns.
LEMMA BroadcastEnds ==
  ASSUME waiting' = waiting, Holders' = Holders, Waitset' = {},
         NEW t \in Threads,
         Calling[t] = "Broadcast", Calling' = [Calling EXCEPT ![t] = "none"]
  PROVE  Condition!BroadcastReturns(t)
  BY ZenonT(40), EndedWaits DEF Condition!BroadcastReturns, Condition!EndWaits

\* No thread waits if num_waiters_ is zero.
LEMMA NobodyWaits ==
  ASSUME TypeInv, CountsExact, waiters <= 0
  PROVE  Waitset = {}
<1>1. \A t \in Threads : ~waiting[t]
  BY CountedContends DEF TypeInv
<1> QED
  BY ZenonT(40), <1>1 DEF Waitset

\* A step that the abstract specification does not see.
AbstractStutter == UNCHANGED <<Holders, Waitset, Returning, Calling>>

\* Every step of the futex code is a step of GuardedCondition, or none.
LEMMA RefinementStep ==
  ASSUME TypeInv, CountsExact, HolderInv, WaitInv, QueueInv, SequenceInv, [Next]_vars
  PROVE  [Condition!Next]_(Condition!condVars)
<1>1. ASSUME UNCHANGED vars PROVE AbstractStutter
  BY ZenonT(40), <1>1
  DEF vars, AbstractStutter, Holders, HoldingPcs, Waitset, Returning, Calling
<1>2. ASSUME RunEmptyCheckpoint
      PROVE  AbstractStutter
  BY <1>2, FutexAssumption
  DEF RunEmptyCheckpoint, AbstractStutter, Holders, HoldingPcs, Waitset,
      Returning, Calling, TypeInv, HolderInv, WaitInv, QueueInv, SequenceInv
<1>3. ASSUME WakeupToRespondToEmptyCheckpoint
      PROVE  AbstractStutter
  BY <1>3
  DEF WakeupToRespondToEmptyCheckpoint, AfterWait, AbstractStutter, Holders,
      HoldingPcs, Waitset, Returning, Calling, TypeInv, HolderInv, WaitInv,
      QueueInv, SequenceInv
<1>4. ASSUME BarrierTimesOut
      PROVE  AbstractStutter
  BY <1>4
  DEF BarrierTimesOut, AbstractStutter, Holders, HoldingPcs, Waitset,
      Returning, Calling, TypeInv, HolderInv, WaitInv, QueueInv, SequenceInv
<1>5. ASSUME EmptyCheckpointDone
      PROVE  AbstractStutter
  BY ZenonT(40), <1>5
  DEF EmptyCheckpointDone, AbstractStutter, Holders, HoldingPcs, Waitset,
      Returning, Calling, TypeInv, HolderInv, WaitInv, QueueInv, SequenceInv
<1>6. ASSUME NEW t \in Threads, LockCas(t)
      PROVE  Condition!Lock(t) \/ Condition!ReturnFromWait(t)
  BY <1>6
  DEF LockCas, Condition!Lock, Condition!ReturnFromWait, Holders, HoldingPcs,
      Waitset, Returning, Calling, TypeInv, HolderInv, WaitInv, QueueInv,
      SequenceInv
<1>7. ASSUME NEW t \in Threads, LockSeesHeld(t)
      PROVE  AbstractStutter
  BY ZenonT(40), <1>7
  DEF LockSeesHeld, AbstractStutter, Holders, HoldingPcs, Waitset, Returning,
      Calling, TypeInv, HolderInv, WaitInv, QueueInv, SequenceInv
<1>8. ASSUME NEW t \in Threads, CountContender(t)
      PROVE  AbstractStutter
  BY <1>8
  DEF CountContender, AbstractStutter, Holders, HoldingPcs, Waitset,
      Returning, Calling, TypeInv, HolderInv, WaitInv, QueueInv, SequenceInv
<1>9. ASSUME NEW t \in Threads, CheckEmptyCheckpointFromMutex(t)
      PROVE  AbstractStutter
  BY ZenonT(40), <1>9
  DEF CheckEmptyCheckpointFromMutex, AbstractStutter, Holders, HoldingPcs,
      Waitset, Returning, Calling, TypeInv, HolderInv, WaitInv, QueueInv,
      SequenceInv
<1>10. ASSUME NEW t \in Threads, FutexWait(t)
      PROVE  AbstractStutter
  BY <1>10
  DEF FutexWait, AbstractStutter, Holders, HoldingPcs, Waitset, Returning,
      Calling, TypeInv, HolderInv, WaitInv, QueueInv, SequenceInv
<1>11. ASSUME NEW t \in Threads, UncountContender(t)
      PROVE  AbstractStutter
  BY ZenonT(40), <1>11
  DEF UncountContender, AbstractStutter, Holders, HoldingPcs, Waitset,
      Returning, Calling, TypeInv, HolderInv, WaitInv, QueueInv, SequenceInv
<1>12. ASSUME NEW t \in Threads, LockTaken(t)
      PROVE  AbstractStutter
  BY <1>12
  DEF LockTaken, AbstractStutter, Holders, HoldingPcs, Waitset, Returning,
      Calling, TypeInv, HolderInv, WaitInv, QueueInv, SequenceInv
<1>13. ASSUME NEW t \in Threads, ClearOwner(t)
      PROVE  AbstractStutter
  BY <1>13
  DEF ClearOwner, AbstractStutter, Holders, HoldingPcs, Waitset, Returning,
      Calling, TypeInv, HolderInv, WaitInv, QueueInv, SequenceInv
<1>14. ASSUME NEW t \in Threads, UnlockCas(t)
      PROVE  Condition!Unlock(t) \/ Condition!Wait(t)
  BY <1>14
  DEF UnlockCas, Condition!Unlock, Condition!Wait, Holders, HoldingPcs,
      Waitset, Returning, Calling, TypeInv, HolderInv, WaitInv, QueueInv,
      SequenceInv
<1>15. ASSUME NEW t \in Threads, UnlockLoad(t)
      PROVE  AbstractStutter
  BY <1>15
  DEF UnlockLoad, AfterUnlock, AbstractStutter, Holders, HoldingPcs, Waitset,
      Returning, Calling, TypeInv, HolderInv, WaitInv, QueueInv, SequenceInv
<1>16. ASSUME NEW t \in Threads, UnlockLoadEarly(t)
      PROVE  AbstractStutter
  BY <1>16
  DEF UnlockLoadEarly, AbstractStutter, Holders, HoldingPcs, Waitset,
      Returning, Calling, TypeInv, HolderInv, WaitInv, QueueInv, SequenceInv
<1>17. ASSUME NEW t \in Threads, UnlockCasAfterLoad(t)
      PROVE  Condition!Unlock(t) \/ Condition!Wait(t)
  BY <1>17
  DEF UnlockCasAfterLoad, AfterUnlock, Condition!Unlock, Condition!Wait,
      Holders, HoldingPcs, Waitset, Returning, Calling, TypeInv, HolderInv,
      WaitInv, QueueInv, SequenceInv
<1>18. ASSUME NEW t \in Threads, UnlockWake(t)
      PROVE  AbstractStutter
  BY <1>18
  DEF UnlockWake, AfterWait, AfterUnlock, AbstractStutter, Holders,
      HoldingPcs, Waitset, Returning, Calling, TypeInv, HolderInv, WaitInv,
      QueueInv, SequenceInv
<1>19. ASSUME NEW t \in Threads, CondFutexWait(t)
      PROVE  AbstractStutter
  BY <1>19
  DEF CondFutexWait, AbstractStutter, Holders, HoldingPcs, Waitset, Returning,
      Calling, TypeInv, HolderInv, WaitInv, QueueInv, SequenceInv
<1>20. ASSUME NEW t \in Threads, WaitEnds(t)
      PROVE  AbstractStutter
  BY <1>20
  DEF WaitEnds, AbstractStutter, Holders, HoldingPcs, Waitset, Returning,
      Calling, TypeInv, HolderInv, WaitInv, QueueInv, SequenceInv
<1>21. ASSUME NEW t \in Threads, Signal(t)
      PROVE  Condition!EndForNoReason \/ Condition!SignalReturns(t)
  <2>1. waiting' = waiting /\ Holders' = Holders /\ Waitset' \subseteq Waitset
    BY <1>21 DEF Signal, Holders, HoldingPcs, Waitset, SequenceInv, TypeInv
  <2>2. CASE waiters > 0
    <3>1. Calling' = Calling
      BY <1>21, <2>2 DEF Signal, Calling, TypeInv
    <3> QED
      BY ZenonT(40), <2>1, <3>1, EndsForNoReason
  <2>3. CASE waiters <= 0
    <3>1. pc[t] = "signal" /\ pc' = [pc EXCEPT ![t] = "critical"]
      BY <1>21, <2>3 DEF Signal, TypeInv
    <3>2. Calling[t] = "Signal" /\ Calling' = [Calling EXCEPT ![t] = "none"]
      BY ZenonT(40), <3>1 DEF Calling, TypeInv
    <3> QED
      BY ZenonT(40), <2>1, <2>3, <3>2, NobodyWaits, SignalEnds
  <2> QED
    BY ZenonT(40), <1>21, <2>2, <2>3 DEF Signal
<1>22. ASSUME NEW t \in Threads, SignalWake(t)
      PROVE  Condition!SignalReturns(t)
  <2>1. waiting' = waiting /\ Holders' = Holders /\ Waitset' \subseteq Waitset
    BY ZenonT(40), <1>22
    DEF SignalWake, AfterWait, Holders, HoldingPcs, Waitset, QueueInv, TypeInv
  <2>2. Waitset = condQueue
    BY ZenonT(40), <1>22
    DEF SignalWake, Waitset, SequenceInv, QueueInv, WaitInv, TypeInv
  <2>3. Waitset = {} \/ Waitset' # Waitset
    <3>1. CASE condQueue = {}
      BY ZenonT(40), <2>2, <3>1
    <3>2. ASSUME NEW u \in condQueue,
                 pc' = [pc EXCEPT ![t] = "critical", ![u] = AfterWait(u)]
          PROVE  u \in Waitset /\ u \notin Waitset'
      BY ZenonT(40), <1>22, <2>2, <3>2
      DEF SignalWake, AfterWait, Waitset, QueueInv, TypeInv
    <3> QED
      BY ZenonT(40), <1>22, <3>1, <3>2 DEF SignalWake
  <2>4. Calling[t] = "Signal" /\ Calling' = [Calling EXCEPT ![t] = "none"]
    BY ZenonT(40), <1>22 DEF SignalWake, AfterWait, Calling, QueueInv, TypeInv
  <2> QED
    BY ZenonT(40), <2>1, <2>3, <2>4, SignalEnds
<1>23. ASSUME NEW t \in Threads, Broadcast(t)
      PROVE  Condition!EndForNoReason \/ Condition!BroadcastReturns(t)
  <2>1. waiting' = waiting /\ Holders' = Holders /\ Waitset' \subseteq Waitset
    BY <1>23 DEF Broadcast, Holders, HoldingPcs, Waitset, SequenceInv, TypeInv
  <2>2. CASE waiters > 0
    <3>1. Calling' = Calling
      BY <1>23, <2>2 DEF Broadcast, Calling, TypeInv
    <3> QED
      BY ZenonT(40), <2>1, <3>1, EndsForNoReason
  <2>3. CASE waiters <= 0
    <3>1. pc[t] = "broadcast" /\ pc' = [pc EXCEPT ![t] = "critical"]
      BY <1>23, <2>3 DEF Broadcast, TypeInv
    <3>2. Calling[t] = "Broadcast" /\ Calling' = [Calling EXCEPT ![t] = "none"]
      BY ZenonT(40), <3>1 DEF Calling, TypeInv
    <3> QED
      BY ZenonT(40), <2>1, <2>3, <3>2, NobodyWaits, BroadcastEnds
  <2> QED
    BY ZenonT(40), <1>23, <2>2, <2>3 DEF Broadcast
<1>24. ASSUME NEW t \in Threads, BroadcastRequeue(t)
      PROVE  Condition!BroadcastReturns(t)
  <2>1. waiting' = waiting /\ Holders' = Holders
    BY ZenonT(40), <1>24 DEF BroadcastRequeue, Holders, HoldingPcs, TypeInv
  <2>2. Waitset' = {}
    BY ZenonT(40), <1>24 DEF BroadcastRequeue, Waitset, SequenceInv, TypeInv
  <2>3. Calling[t] = "Broadcast" /\ Calling' = [Calling EXCEPT ![t] = "none"]
    BY ZenonT(40), <1>24 DEF BroadcastRequeue, Calling, TypeInv
  <2> QED
    BY ZenonT(40), <2>1, <2>2, <2>3, BroadcastEnds
<1>25. ASSUME NEW t \in Threads, ExclusiveLock(t)
      PROVE  AbstractStutter
  BY ZenonT(40), <1>25
  DEF ExclusiveLock, AbstractStutter, Holders, HoldingPcs, Waitset, Returning,
      Calling, TypeInv, HolderInv, WaitInv, QueueInv, SequenceInv
<1>26. ASSUME NEW t \in Threads, ExclusiveLockAgain(t)
      PROVE  AbstractStutter
  BY <1>26
  DEF ExclusiveLockAgain, AbstractStutter, Holders, HoldingPcs, Waitset,
      Returning, Calling, TypeInv, HolderInv, WaitInv, QueueInv, SequenceInv
<1>27. ASSUME NEW t \in Threads, ExclusiveTryLock(t)
      PROVE  Condition!Lock(t)
  BY <1>27
  DEF ExclusiveTryLock, Condition!Lock, Holders, HoldingPcs, Waitset,
      Returning, Calling, TypeInv, HolderInv, WaitInv, QueueInv, SequenceInv
<1>28. ASSUME NEW t \in Threads, ExclusiveUnlock(t)
      PROVE  AbstractStutter
  BY <1>28
  DEF ExclusiveUnlock, AbstractStutter, Holders, HoldingPcs, Waitset,
      Returning, Calling, TypeInv, HolderInv, WaitInv, QueueInv, SequenceInv
<1>29. ASSUME NEW t \in Threads, WaitHoldingLocks(t)
      PROVE  AbstractStutter
  BY <1>29
  DEF WaitHoldingLocks, AbstractStutter, Holders, HoldingPcs, Waitset,
      Returning, Calling, TypeInv, HolderInv, WaitInv, QueueInv, SequenceInv
<1>30. ASSUME NEW t \in Threads, CallSignal(t)
      PROVE  Condition!Call(t, "Signal")
  <2>1. Holders = {t} /\ Calling[t] = "none"
    BY ZenonT(40), <1>30
    DEF CallSignal, Holders, HoldingPcs, Calling, HolderInv, TypeInv
  <2>2. UNCHANGED <<Holders, Waitset, Returning>>
    BY ZenonT(40), <1>30
    DEF CallSignal, Holders, HoldingPcs, Waitset, Returning, TypeInv, WaitInv
  <2>3. Calling' = [Calling EXCEPT ![t] = "Signal"]
    BY ZenonT(40), <1>30 DEF CallSignal, Calling, TypeInv
  <2> QED
    BY ZenonT(40), <2>1, <2>2, <2>3 DEF Condition!Call
<1>31. ASSUME NEW t \in Threads, CallBroadcast(t)
      PROVE  Condition!Call(t, "Broadcast")
  <2>1. Holders = {t} /\ Calling[t] = "none"
    BY ZenonT(40), <1>31
    DEF CallBroadcast, Holders, HoldingPcs, Calling, HolderInv, TypeInv
  <2>2. UNCHANGED <<Holders, Waitset, Returning>>
    BY ZenonT(40), <1>31
    DEF CallBroadcast, Holders, HoldingPcs, Waitset, Returning, TypeInv,
        WaitInv
  <2>3. Calling' = [Calling EXCEPT ![t] = "Broadcast"]
    BY ZenonT(40), <1>31 DEF CallBroadcast, Calling, TypeInv
  <2> QED
    BY ZenonT(40), <2>1, <2>2, <2>3 DEF Condition!Call
<1>32. ASSUME NEW t \in Threads, FutexWaitInterrupted(t)
      PROVE  Condition!EndForNoReason
  <2>1. waiting' = waiting /\ Holders' = Holders /\ Waitset' \subseteq Waitset
    BY ZenonT(40), <1>32
    DEF FutexWaitInterrupted, AfterWait, Holders, HoldingPcs, Waitset, TypeInv
  <2>2. Calling' = Calling
    BY ZenonT(40), <1>32 DEF FutexWaitInterrupted, AfterWait, Calling, TypeInv
  <2> QED
    BY ZenonT(40), <2>1, <2>2, EndsForNoReason
<1>33. ASSUME NEW t \in Threads, AnswerEmptyCheckpoint(t)
      PROVE  AbstractStutter
  BY ZenonT(40), <1>33
  DEF AnswerEmptyCheckpoint, AbstractStutter, Holders, HoldingPcs, Waitset,
      Returning, Calling, TypeInv, HolderInv, WaitInv, QueueInv, SequenceInv
<1>34. ASSUME NEW t \in Threads, CheckEmptyCheckpointFromWeakRefAccess(t)
      PROVE  AbstractStutter
  BY ZenonT(40), <1>34
  DEF CheckEmptyCheckpointFromWeakRefAccess, AbstractStutter, Holders,
      HoldingPcs, Waitset, Returning, Calling, TypeInv, HolderInv, WaitInv,
      QueueInv, SequenceInv
<1>35. ASSUME BroadcastForNewSystemWeaks
      PROVE  Condition!Call(Collector, "Broadcast")
  <2>1. Holders = {Collector} /\ Calling[Collector] = "none"
    BY ZenonT(40), <1>35, FutexAssumption
    DEF BroadcastForNewSystemWeaks, Holders, HoldingPcs, Calling, HolderInv,
        TypeInv
  <2>2. UNCHANGED <<Holders, Waitset, Returning>>
    BY ZenonT(40), <1>35, FutexAssumption
    DEF BroadcastForNewSystemWeaks, Holders, HoldingPcs, Waitset, Returning,
        TypeInv, WaitInv
  <2>3. Calling' = [Calling EXCEPT ![Collector] = "Broadcast"]
    BY ZenonT(40), <1>35, FutexAssumption
    DEF BroadcastForNewSystemWeaks, Calling, TypeInv
  <2> QED
    BY ZenonT(40), <2>1, <2>2, <2>3 DEF Condition!Call
<1>36. ASSUME BroadcastDone
      PROVE  AbstractStutter
  BY ZenonT(40), <1>36
  DEF BroadcastDone, AbstractStutter, Holders, HoldingPcs, Waitset,
      Returning, Calling, TypeInv, HolderInv, WaitInv, QueueInv, SequenceInv
<1> QED
  BY ZenonT(40), <1>1, <1>2, <1>3, <1>4, <1>5, <1>6, <1>7, <1>8, <1>9, <1>10,
     <1>11, <1>12, <1>13, <1>14, <1>15, <1>16, <1>17, <1>18, <1>19, <1>20,
     <1>21, <1>22, <1>23, <1>24, <1>25, <1>26, <1>27, <1>28, <1>29, <1>30,
     <1>31, <1>32, <1>33, <1>34, <1>35, <1>36,
     FutexAssumption
  DEF Next, MutexStep, CondStep, ClientStep, RequesterStep, AbstractStutter,
      Condition!Next, Condition!condVars

\* The invariant holds at the start.
LEMMA InitInv == Init => IInv
<1> SUFFICES ASSUME Init PROVE IInv
  OBVIOUS
<1>1. TypeInv
  BY ZenonT(40), FutexAssumption DEF Init, TypeInv, Pc, Requester
<1>2. CountsExact
  <2>1. Waiting = {} /\ Counted = {}
    BY ZenonT(40) DEF Init, Waiting, Counted, CountedPcs
  <2> QED
    BY <2>1, FS_EmptySet DEF Init, CountsExact, Waiting, Counted
<1>3. HolderInv /\ WaitInv /\ RecursionInv /\ QueueInv /\ SequenceInv /\ OrderedInv
  BY ZenonT(40)
  DEF Init, HolderInv, HoldingPcs, WaitInv, RecursionInv, CriticalPcs,
      QueueInv, SequenceInv, OrderedInv, NoLostContender
<1> QED
  BY ZenonT(40), <1>1, <1>2, <1>3 DEF IInv

\* Every step keeps the invariant.
LEMMA StepInv == IInv /\ [Next]_vars => IInv'
<1> SUFFICES ASSUME IInv, [Next]_vars PROVE IInv'
  OBVIOUS
<1> QED
  BY ZenonT(40), TypeStep, CountsStep, HolderStep, WaitStep, RecursionStep,
     QueueStep, SequenceStep, OrderedStep DEF IInv

\* Every reachable state of the mutex and the condition variable satisfies the
\* inductive invariant IInv.
THEOREM Invariance == Spec => []IInv
  BY InitInv, StepInv, PTL DEF Spec

\* The variables keep the types of their C++ members; num_contenders_,
\* num_waiters_ and recursion_count_ never go below zero (the CHECK_GE of
\* WaitHoldingLocks and TimedWait).
THEOREM TypeCorrect == Spec => []TypeInv
<1>1. IInv => TypeInv
  BY ZenonT(40) DEF IInv
<1> QED
  BY <1>1, Invariance, PTL

\* At most one thread holds the mutex, and exclusive_owner_ and
\* recursion_count_ are those of its caller, across waits (Mutex::ExclusiveLock,
\* ExclusiveUnlock, ConditionVariable::WaitHoldingLocks).
THEOREM OwnerIsExact == Spec => []OwnerExact
<1>1. IInv => OwnerExact
  BY ZenonT(40)
  DEF IInv, OwnerExact, HolderInv, Holders, HoldingPcs, RecursionInv,
      CriticalPcs, TypeInv
<1> QED
  BY <1>1, Invariance, PTL

\* num_contenders_ and num_waiters_ count exactly the contenders and the
\* threads in a wait.
THEOREM CountsAreExact == Spec => []CountsExact
<1>1. IInv => CountsExact
  BY ZenonT(40) DEF IInv
<1> QED
  BY <1>1, Invariance, PTL

\* If ExclusiveUnlock loads num_contenders_ after its compare-and-set, a thread
\* asleep on a free mutex will be woken.
THEOREM NoContenderIsLost ==
  ASSUME ~ReorderLoads
  PROVE  Spec => []NoLostContender
<1>1. IInv => NoLostContender
  BY ZenonT(40) DEF IInv, OrderedInv
<1> QED
  BY <1>1, Invariance, PTL

\* Mutex and ConditionVariable implement the abstract mutex and condition
\* variable: a wait releases the mutex and starts to wait in one step, Signal ends
\* a wait if there is one, Broadcast ends all.
THEOREM Refinement == Spec => ImplementsCondition
<1>1. Init => Condition!Init
  BY ZenonT(40)
  DEF Init, Condition!Init, Holders, HoldingPcs, Waitset, Returning, Calling
<1>2. IInv /\ [Next]_vars => [Condition!Next]_(Condition!condVars)
  BY ZenonT(40), RefinementStep DEF IInv
<1> QED
  BY <1>1, <1>2, Invariance, PTL DEF Spec, ImplementsCondition, Condition!Spec
=============================================================================
