----------------------- MODULE ThreadSuspensionCounts -----------------------
(***************************************************************************)
(* Every step of thread suspension preserves SuspendCountExact,            *)
(* SuspensionInv, FlagInv and FlipTypes.                                   *)
(***************************************************************************)
EXTENDS ThreadSuspensionInv, TLAPS

USE DEF transitionVars, wordVars, countVars, checkpointVars, flipVars,
        passVars, threadListVars, listVars, mutatorVars, localVars, jniVars,
        ThreadListUnchanged, CheckpointsAndFlipUnchanged, Goto, Begin

-----------------------------------------------------------------------------
(***************************************************************************)
(* The suspend counts are the numbers of those who have raised them.       *)
(***************************************************************************)

\* The suspenders of a thread are finitely many.
LEMMA SuspendersFinite ==
  ASSUME CardinalityFacts, NEW t
  PROVE  /\ Cardinality(Suspenders(t)) \in Nat
         /\ Cardinality(Suspenders(t)) = 0 <=> Suspenders(t) = {}
<1>1. Suspenders(t) \subseteq Threads
  BY ZenonT(40) DEF Suspenders
<1> QED
  BY ZenonT(40), <1>1 DEF CardinalityFacts

\* A suspend count is not negative, and a thread that somebody has suspended
\* has a positive one.
LEMMA CountsPositive ==
  ASSUME CardinalityFacts, SuspendCountExact, NEW t \in Threads
  PROVE  /\ suspendCount[t] >= 0
         /\ \A s \in Threads : t \in SuspendedBy(s) => suspendCount[t] > 0
<1>1. suspendCount[t] = Cardinality(Suspenders(t))
  BY ZenonT(40) DEF SuspendCountExact
<1>2. ASSUME NEW s \in Threads, t \in SuspendedBy(s)
      PROVE  Cardinality(Suspenders(t)) # 0
  <2>1. Suspenders(t) # {}
    BY ZenonT(40), <1>2 DEF Suspenders
  <2> QED
    BY ZenonT(40), <2>1, SuspendersFinite
<1> QED
  BY <1>1, <1>2, SuspendersFinite

\* ModifySuspendCountInternal keeps kSuspendRequest set while the suspend
\* count is positive: what somebody has suspended shows it.
LEMMA RequestInvHolds ==
  ASSUME CardinalityFacts, SuspendCountExact, FlagInv
  PROVE  RequestInv
  BY ZenonT(40), CountsPositive DEF RequestInv, FlagInv

\* The count of u goes up as s suspends it.
LEMMA RaiseExact ==
  ASSUME CardinalityFacts, suspendCount \in [Threads -> Int],
         SuspendCountExact,
         NEW s \in Threads, NEW u \in Threads, NEW b,
         RaiseSuspendCount(u, b), Suspends(s, u)
  PROVE  \A v \in Threads : suspendCount'[v] = Cardinality(Suspenders(v)')
<1> SUFFICES ASSUME NEW v \in Threads
             PROVE  suspendCount'[v] = Cardinality(Suspenders(v)')
  OBVIOUS
<1>0. suspendCount[v] = Cardinality(Suspenders(v))
  BY ZenonT(40) DEF SuspendCountExact
<1>1. CASE v = u
  <2>1. Suspenders(v)' = Suspenders(v) \union {s} /\ s \notin Suspenders(v)
    BY ZenonT(40), <1>1 DEF Suspenders, Suspends
  <2>2. suspendCount'[v] = suspendCount[v] + 1
    BY ZenonT(40), <1>1 DEF RaiseSuspendCount
  <2>3. Cardinality(Suspenders(v) \union {s}) = Cardinality(Suspenders(v)) + 1
    BY ZenonT(40), <2>1 DEF CardinalityFacts, Suspenders
  <2> QED
    BY ZenonT(40), <1>0, <2>1, <2>2, <2>3
<1>2. CASE v # u
  <2>1. Suspenders(v)' = Suspenders(v)
    BY ZenonT(40), <1>2 DEF Suspenders, Suspends
  <2> QED
    BY ZenonT(40), <1>0, <1>2, <2>1 DEF RaiseSuspendCount
<1> QED
  BY ZenonT(40), <1>1, <1>2

\* The counts of S go down as s resumes them.
LEMMA LowerExact ==
  ASSUME CardinalityFacts, suspendCount \in [Threads -> Int],
         SuspendCountExact,
         NEW s \in Threads, NEW S, LowerSuspendCounts(S), Resumes(s, S)
  PROVE  \A v \in Threads : suspendCount'[v] = Cardinality(Suspenders(v)')
<1> SUFFICES ASSUME NEW v \in Threads
             PROVE  suspendCount'[v] = Cardinality(Suspenders(v)')
  OBVIOUS
<1>0. suspendCount[v] = Cardinality(Suspenders(v))
  BY ZenonT(40) DEF SuspendCountExact
<1>1. CASE v \in S
  <2>1. Suspenders(v)' = Suspenders(v) \ {s} /\ s \in Suspenders(v)
    BY ZenonT(40), <1>1 DEF Suspenders, Resumes
  <2>2. suspendCount'[v] = suspendCount[v] - 1
    BY ZenonT(40), <1>1 DEF LowerSuspendCounts
  <2>3. Cardinality(Suspenders(v) \ {s}) = Cardinality(Suspenders(v)) - 1
    BY ZenonT(40), <2>1 DEF CardinalityFacts, Suspenders
  <2> QED
    BY ZenonT(40), <1>0, <2>1, <2>2, <2>3
<1>2. CASE v \notin S
  <2>1. Suspenders(v)' = Suspenders(v)
    BY ZenonT(40), <1>2 DEF Suspenders, Resumes
  <2> QED
    BY ZenonT(40), <1>0, <1>2, <2>1 DEF LowerSuspendCounts
<1> QED
  BY ZenonT(40), <1>1, <1>2

\* Nobody suspends or resumes anybody.
LEMMA SameExact ==
  ASSUME SuspendCountExact, suspendCount' = suspendCount, SuspensionsUnchanged
  PROVE  \A v \in Threads : suspendCount'[v] = Cardinality(Suspenders(v)')
<1> SUFFICES ASSUME NEW v \in Threads
             PROVE  suspendCount'[v] = Cardinality(Suspenders(v)')
  OBVIOUS
<1>1. Suspenders(v)' = Suspenders(v)
  BY ZenonT(40) DEF Suspenders, SuspensionsUnchanged
<1> QED
  BY ZenonT(40), <1>1 DEF SuspendCountExact

\* suspend_all_count_ as a SuspendAll begins.
LEMMA SuspendAllBegins ==
  ASSUME CardinalityFacts, SuspendCountExact, NEW t \in Threads, t \notin AllSuspenders,
         AllSuspenders' = AllSuspenders \union {t},
         suspendAllCount' = suspendAllCount + 1
  PROVE  suspendAllCount' = Cardinality(AllSuspenders')
<1>1. AllSuspenders \subseteq Threads
  BY ZenonT(40) DEF AllSuspenders
<1>2. Cardinality(AllSuspenders \union {t}) = Cardinality(AllSuspenders) + 1
  BY ZenonT(40), <1>1 DEF CardinalityFacts
<1> QED
  BY ZenonT(40), <1>2 DEF SuspendCountExact

\* suspend_all_count_ as a SuspendAll ends.
LEMMA SuspendAllEnds ==
  ASSUME CardinalityFacts, SuspendCountExact, NEW t \in Threads, t \in AllSuspenders,
         AllSuspenders' = AllSuspenders \ {t},
         suspendAllCount' = suspendAllCount - 1
  PROVE  suspendAllCount' = Cardinality(AllSuspenders')
<1>1. AllSuspenders \subseteq Threads
  BY ZenonT(40) DEF AllSuspenders
<1>2. Cardinality(AllSuspenders \ {t}) = Cardinality(AllSuspenders) - 1
  BY ZenonT(40), <1>1 DEF CardinalityFacts
<1> QED
  BY ZenonT(40), <1>2 DEF SuspendCountExact

\* SuspendAllInternal raises the count of one thread.
LEMMA RequestSuspendSuspends ==
  ASSUME OpTypes, TodoInv, RaisedInv, NEW t \in Threads, NEW u \in Threads,
         RequestSuspend(t, u)
  PROVE  Suspends(t, u)
  BY DEF RequestSuspend, OpTypes, TodoInv, LoopOps, RaisedInv, RaisingOps,
         Suspends, SuspendedBy, SuspendAllTargets, SuspendAllOps, RequestingOps

\* SuspendThreadByThreadId raises the count.
LEMMA ByIdRequestSuspends ==
  ASSUME OpTypes, LockTypes, NEW t \in Threads, ByIdRequest(t)
  PROVE  current[t] \in Threads /\ Suspends(t, current[t])
  BY DEF ByIdRequest, ByIdOutcome, OpTypes, LockTypes, Suspends, SuspendedBy,
         SuspendAllTargets, SuspendAllOps, RequestingOps

\* RunCheckpoint raises the count of a suspended thread.
LEMMA CheckpointSuspendedThreadSuspends ==
  ASSUME OpTypes, TodoInv, NEW t \in Threads, NEW u \in Threads,
         CheckpointSuspendedThread(t, u)
  PROVE  Suspends(t, u)
  BY DEF CheckpointSuspendedThread, OpTypes, TodoInv, LoopOps, Suspends,
         SuspendedBy, SuspendAllTargets, SuspendAllOps, RequestingOps

\* RequestSynchronousCheckpoint raises the count.
LEMMA SyncRaiseSuspends ==
  ASSUME OpTypes, LockTypes, RaisedInv, NEW t \in Threads, SyncRaise(t)
  PROVE  current[t] \in Threads /\ Suspends(t, current[t])
  BY DEF SyncRaise, OpTypes, LockTypes, RaisedInv, RaisingOps, Suspends,
         SuspendedBy, SuspendAllTargets, SuspendAllOps, RequestingOps

\* ResumeAll lowers the counts and broadcasts.
LEMMA LowerAllAndBroadcastResumes ==
  ASSUME OpTypes, TodoInv, RaisedInv, NEW t \in Threads,
         LowerAllAndBroadcast(t)
  PROVE  Resumes(t, list \ {t})
  BY DEF LowerAllAndBroadcast, OpTypes, TodoInv, LoopOps, RaisedInv,
         RaisingOps, Resumes, SuspendedBy, SuspendAllTargets, SuspendAllOps,
         RequestingOps

\* SuspendThreadByThreadId times out.
LEMMA ByIdTimeoutResumes ==
  ASSUME OpTypes, NEW t \in Threads, ByIdTimeout(t)
  PROVE  Resumes(t, raised[t])
  BY ZenonT(40)
  DEF ByIdTimeout, OpTypes, Resumes, SuspendedBy, SuspendAllTargets,
      SuspendAllOps, RequestingOps

\* Resume lowers the count.
LEMMA ResumeResumes ==
  ASSUME OpTypes, RaisedInv, NEW t \in Threads, Resume(t)
  PROVE  Resumes(t, {current[t]})
  BY DEF Resume, OpTypes, RaisedInv, RaisingOps, Resumes, SuspendedBy,
         SuspendAllTargets, SuspendAllOps, RequestingOps

\* RunCheckpoint lowers the count of a suspended thread.
LEMMA CheckpointLowerResumes ==
  ASSUME OpTypes, RaisedInv, NEW t \in Threads, CheckpointLower(t)
  PROVE  Resumes(t, {current[t]})
  BY DEF CheckpointLower, OpTypes, RaisedInv, RaisingOps, Resumes, SuspendedBy,
         SuspendAllTargets, SuspendAllOps, RequestingOps

\* RequestSynchronousCheckpoint lowers the count.
LEMMA SyncLowerResumes ==
  ASSUME OpTypes, RaisedInv, NEW t \in Threads, SyncLower(t)
  PROVE  Resumes(t, {current[t]})
  BY DEF SyncLower, OpTypes, RaisedInv, RaisingOps, Resumes, SuspendedBy,
         SuspendAllTargets, SuspendAllOps, RequestingOps

\* FlipThreadRoots hands out the flip function and resumes.
LEMMA FlipResumeRunnableResumes ==
  ASSUME OpTypes, TodoInv, RaisedInv, NEW t \in Threads,
         FlipResumeRunnable(t)
  PROVE  Resumes(t, ResumedEarly(t))
  BY DEF FlipResumeRunnable, OpTypes, TodoInv, LoopOps, RaisedInv, RaisingOps,
         Resumes, SuspendedBy, SuspendAllTargets, SuspendAllOps, RequestingOps,
         ResumedEarly

\* FlipThreadRoots resumes the other threads.
LEMMA FlipResumeOthersResumes ==
  ASSUME OpTypes, NEW t \in Threads, FlipResumeOthers(t)
  PROVE  Resumes(t, raised[t])
  BY ZenonT(40)
  DEF FlipResumeOthers, OpTypes, Resumes, SuspendedBy, SuspendAllTargets,
      SuspendAllOps, RequestingOps

\* ThreadList::Register: the new thread starts with suspend_all_count_ requests,
\* one for each SuspendAll that will lower its count.
LEMMA RegisterCounts ==
  ASSUME OpTypes, CounterTypes, LockTypes, StateInv, TodoInv, RaisedInv,
         SuspendCountExact, NEW t \in Threads, Register(t)
  PROVE  SuspendCountExact'
<1>1. AllSuspenders' = AllSuspenders /\ suspendAllCount' = suspendAllCount
  BY ZenonT(40) DEF Register, AllSuspenders
<1>2. \A r, v \in Threads : v # t => (v \in SuspendedBy(r)' <=> v \in SuspendedBy(r))
  BY ZenonT(40) DEF Register, SuspendedBy, SuspendAllTargets
<1>3. \A r \in Threads : t \in SuspendedBy(r)' <=> op[r] \in SuspendAllOps
  BY ZenonT(40)
  DEF Register, SuspendedBy, SuspendAllTargets, StateInv, TodoInv, LoopOps,
      RaisedInv, SuspendAllOps, RequestingOps
<1>4. ASSUME NEW v \in Threads
      PROVE  suspendCount'[v] = Cardinality(Suspenders(v)')
  <2>1. CASE v = t
    <3>1. Suspenders(v)' = AllSuspenders
      BY ZenonT(40), <1>3, <2>1 DEF Suspenders, AllSuspenders
    <3> QED
      BY ZenonT(40), <2>1, <3>1 DEF Register, SuspendCountExact, CounterTypes
  <2>2. CASE v # t
    <3>1. Suspenders(v)' = Suspenders(v)
      BY ZenonT(40), <1>2, <2>2 DEF Suspenders
    <3> QED
      BY ZenonT(40), <2>2, <3>1 DEF Register, SuspendCountExact, CounterTypes
  <2> QED
    BY ZenonT(40), <2>1, <2>2
<1> QED
  BY ZenonT(40), <1>1, <1>4 DEF SuspendCountExact

\* Unregister removes a thread that nobody has suspended.
LEMMA NobodySuspends ==
  ASSUME CardinalityFacts, StateInv, FlagInv, SuspendCountExact,
         NEW t \in Threads, RemoveFromList(t)
  PROVE  \A s \in Threads : t \notin SuspendedBy(s)
<1>1. RequestInv
  BY ZenonT(40), RequestInvHolds
<1> QED
  BY ZenonT(40), <1>1 DEF RequestInv, RemoveFromList, IsSuspended, StateInv

\* So the counts of the others stay exact.
LEMMA RemoveFromListCounts ==
  ASSUME CardinalityFacts, OpTypes, StateInv, FlagInv, SuspendCountExact,
         NEW t \in Threads, RemoveFromList(t)
  PROVE  SuspendCountExact'
<1>1. SuspensionsUnchanged
  BY ZenonT(40), NobodySuspends
  DEF RemoveFromList, OpTypes, SuspensionsUnchanged, SuspendedBy,
      SuspendAllTargets, SuspendAllOps, RequestingOps
<1>2. \A v \in Threads : suspendCount'[v] = Cardinality(Suspenders(v)')
  BY ZenonT(40), <1>1, SameExact DEF RemoveFromList
<1>3. AllSuspenders' = AllSuspenders /\ suspendAllCount' = suspendAllCount
  BY ZenonT(40)
  DEF RemoveFromList, OpTypes, AllSuspenders, SuspendAllOps, RequestingOps
<1> QED
  BY ZenonT(40), <1>2, <1>3 DEF SuspendCountExact

\* A later round of SuspendThreadByThreadId has raised the count already.
LEMMA ByIdPollCounts ==
  ASSUME OpTypes, RaisedInv, SuspendCountExact, NEW t \in Threads, ByIdPoll(t)
  PROVE  SuspendCountExact'
<1>a. raised[t] \subseteq {current[t]} /\ raised[t] # {}
  BY ZenonT(40) DEF ByIdPoll, RaisedInv
<1>b. raised[t] = {current[t]}
  BY ZenonT(40), <1>a
<1>0. raised' = [raised EXCEPT ![t] = {current[t]}]
  BY ZenonT(40) DEF ByIdPoll, ByIdOutcome
<1>1. raised' = raised
  BY ZenonT(40), <1>b, <1>0 DEF OpTypes
<1>2. SuspensionsUnchanged
  BY <1>1
  DEF ByIdPoll, ByIdOutcome, OpTypes, SuspensionsUnchanged, SuspendedBy,
      SuspendAllTargets, SuspendAllOps, RequestingOps
<1>3. \A v \in Threads : suspendCount'[v] = Cardinality(Suspenders(v)')
  BY ZenonT(40), <1>2, SameExact DEF ByIdPoll
<1>4. AllSuspenders' = AllSuspenders /\ suspendAllCount' = suspendAllCount
  BY ZenonT(40)
  DEF ByIdPoll, ByIdOutcome, OpTypes, AllSuspenders, SuspendAllOps,
      RequestingOps
<1> QED
  BY ZenonT(40), <1>3, <1>4 DEF SuspendCountExact

\* pending_threads has reached zero.
LEMMA SuspendBarrierPassedCounts ==
  ASSUME OpTypes, SuspendCountExact, NEW t \in Threads, SuspendBarrierPassed(t)
  PROVE  SuspendCountExact'
<1>1. SuspensionsUnchanged
  BY ZenonT(40)
  DEF SuspendBarrierPassed, OpTypes, SuspensionsUnchanged, SuspendedBy,
      SuspendAllTargets, SuspendAllOps, RequestingOps
<1>2. \A v \in Threads : suspendCount'[v] = Cardinality(Suspenders(v)')
  BY ZenonT(40), <1>1, SameExact DEF SuspendBarrierPassed
<1>3. AllSuspenders' = AllSuspenders /\ suspendAllCount' = suspendAllCount
  BY ZenonT(40)
  DEF SuspendBarrierPassed, OpTypes, AllSuspenders, SuspendAllOps,
      RequestingOps
<1> QED
  BY ZenonT(40), <1>2, <1>3 DEF SuspendCountExact

\* Steps that are of no concern to a SuspendAll and change no count.
LEMMA OtherStepsCounts ==
  ASSUME SuspendAllsUnaffected, SuspendCountExact, CountsUnchanged
  PROVE  SuspendCountExact'
<1>1. SuspensionsUnchanged
  BY ZenonT(40)
  DEF SuspendAllsUnaffected, CountsUnchanged, SuspensionsUnchanged,
      SuspendedBy
<1>2. \A v \in Threads : suspendCount'[v] = Cardinality(Suspenders(v)')
  BY ZenonT(40), <1>1, SameExact DEF CountsUnchanged
<1>3. AllSuspenders' = AllSuspenders
  BY ZenonT(40) DEF SuspendAllsUnaffected, AllSuspenders
<1> QED
  BY ZenonT(40), <1>2, <1>3 DEF SuspendCountExact, CountsUnchanged

\* Every step that raises or lowers counts.
LEMMA CountedSteps ==
  ASSUME CardinalityFacts, LockTypes, OpTypes, CounterTypes, StateInv,
         TodoInv, RaisedInv, SuspendCountExact, NEW t \in Threads,
         CountsAffected(t)
  PROVE  SuspendCountExact'
<1>0. suspendCount \in [Threads -> Int]
  BY ZenonT(40) DEF CounterTypes
<1>1. CASE SuspendAll(t)
  <2>1. SuspensionsUnchanged
    BY ZenonT(40), <1>1
    DEF SuspendAll, EnterSuspendAllInternal, OpTypes, SuspensionsUnchanged,
        SuspendedBy, SuspendAllTargets, SuspendAllOps, RequestingOps
  <2>2. \A v \in Threads : suspendCount'[v] = Cardinality(Suspenders(v)')
    BY ZenonT(40), <1>1, <2>1, SameExact
    DEF SuspendAll, EnterSuspendAllInternal
  <2>3. AllSuspenders' = AllSuspenders \union {t} /\ t \notin AllSuspenders
    BY ZenonT(40), <1>1
    DEF SuspendAll, EnterSuspendAllInternal, OpTypes, AllSuspenders,
        SuspendAllOps, RequestingOps
  <2>4. suspendAllCount' = Cardinality(AllSuspenders')
    BY ZenonT(40), <1>1, <2>3, SuspendAllBegins
    DEF SuspendAll, EnterSuspendAllInternal
  <2> QED
    BY ZenonT(40), <2>2, <2>4 DEF SuspendCountExact
<1>2. CASE FlipSuspendAll(t)
  <2>1. SuspensionsUnchanged
    BY ZenonT(40), <1>2
    DEF FlipSuspendAll, EnterSuspendAllInternal, OpTypes, SuspensionsUnchanged,
        SuspendedBy, SuspendAllTargets, SuspendAllOps, RequestingOps
  <2>2. \A v \in Threads : suspendCount'[v] = Cardinality(Suspenders(v)')
    BY ZenonT(40), <1>2, <2>1, SameExact
    DEF FlipSuspendAll, EnterSuspendAllInternal
  <2>3. AllSuspenders' = AllSuspenders \union {t} /\ t \notin AllSuspenders
    BY ZenonT(40), <1>2
    DEF FlipSuspendAll, EnterSuspendAllInternal, OpTypes, AllSuspenders,
        SuspendAllOps, RequestingOps
  <2>4. suspendAllCount' = Cardinality(AllSuspenders')
    BY ZenonT(40), <1>2, <2>3, SuspendAllBegins
    DEF FlipSuspendAll, EnterSuspendAllInternal
  <2> QED
    BY ZenonT(40), <2>2, <2>4 DEF SuspendCountExact
<1>3. CASE Register(t)
  BY ZenonT(40), <1>3, RegisterCounts
<1>4. CASE ByIdRequest(t)
  <2>a. RaiseSuspendCount(current[t], NoThread)
    BY ZenonT(40), <1>4 DEF ByIdRequest
  <2>b. current[t] \in Threads /\ Suspends(t, current[t])
    BY ZenonT(40), <1>4, ByIdRequestSuspends
  <2>1. \A v \in Threads : suspendCount'[v] = Cardinality(Suspenders(v)')
    BY ZenonT(30), <1>0, <2>a, <2>b, RaiseExact
  <2>2. AllSuspenders' = AllSuspenders /\ suspendAllCount' = suspendAllCount
    BY ZenonT(40), <1>4
    DEF ByIdRequest, ByIdOutcome, OpTypes, AllSuspenders, SuspendAllOps,
        RequestingOps
  <2> QED
    BY ZenonT(40), <2>1, <2>2 DEF SuspendCountExact
<1>5. CASE ByIdPoll(t)
  BY ZenonT(40), <1>5, ByIdPollCounts
<1>6. CASE SyncRaise(t)
  <2>a. RaiseSuspendCount(current[t], NoThread)
    BY ZenonT(40), <1>6 DEF SyncRaise
  <2>b. current[t] \in Threads /\ Suspends(t, current[t])
    BY ZenonT(40), <1>6, SyncRaiseSuspends
  <2>1. \A v \in Threads : suspendCount'[v] = Cardinality(Suspenders(v)')
    BY ZenonT(30), <1>0, <2>a, <2>b, RaiseExact
  <2>2. AllSuspenders' = AllSuspenders /\ suspendAllCount' = suspendAllCount
    BY ZenonT(40), <1>6
    DEF SyncRaise, OpTypes, AllSuspenders, SuspendAllOps, RequestingOps
  <2> QED
    BY ZenonT(40), <2>1, <2>2 DEF SuspendCountExact
<1>7. CASE LowerAllAndBroadcast(t)
  <2>a. LowerSuspendCounts(list \ {t})
    BY ZenonT(40), <1>7 DEF LowerAllAndBroadcast
  <2>b. Resumes(t, list \ {t})
    BY ZenonT(40), <1>7, LowerAllAndBroadcastResumes
  <2>1. \A v \in Threads : suspendCount'[v] = Cardinality(Suspenders(v)')
    BY ZenonT(30), <1>0, <2>a, <2>b, LowerExact
  <2>2. AllSuspenders' = AllSuspenders \ {t} /\ t \in AllSuspenders
    BY ZenonT(40), <1>7
    DEF LowerAllAndBroadcast, LowerSuspendCounts, OpTypes, AllSuspenders,
        SuspendAllOps, RequestingOps
  <2>3. suspendAllCount' = Cardinality(AllSuspenders')
    BY ZenonT(40), <1>7, <2>2, SuspendAllEnds DEF LowerAllAndBroadcast
  <2> QED
    BY ZenonT(40), <2>1, <2>3 DEF SuspendCountExact
<1>8. CASE ByIdTimeout(t)
  <2>a. LowerSuspendCounts(raised[t])
    BY ZenonT(40), <1>8 DEF ByIdTimeout
  <2>b. Resumes(t, raised[t])
    BY ZenonT(40), <1>8, ByIdTimeoutResumes
  <2>1. \A v \in Threads : suspendCount'[v] = Cardinality(Suspenders(v)')
    BY ZenonT(30), <1>0, <2>a, <2>b, LowerExact
  <2>2. AllSuspenders' = AllSuspenders /\ suspendAllCount' = suspendAllCount
    BY ZenonT(40), <1>8
    DEF ByIdTimeout, LowerSuspendCounts, OpTypes, AllSuspenders, SuspendAllOps,
        RequestingOps
  <2> QED
    BY ZenonT(40), <2>1, <2>2 DEF SuspendCountExact
<1>9. CASE Resume(t)
  <2>a. LowerSuspendCounts({current[t]})
    BY ZenonT(40), <1>9 DEF Resume
  <2>b. Resumes(t, {current[t]})
    BY ZenonT(40), <1>9, ResumeResumes
  <2>1. \A v \in Threads : suspendCount'[v] = Cardinality(Suspenders(v)')
    BY ZenonT(30), <1>0, <2>a, <2>b, LowerExact
  <2>2. AllSuspenders' = AllSuspenders /\ suspendAllCount' = suspendAllCount
    BY ZenonT(40), <1>9
    DEF Resume, LowerSuspendCounts, OpTypes, AllSuspenders, SuspendAllOps,
        RequestingOps
  <2> QED
    BY ZenonT(40), <2>1, <2>2 DEF SuspendCountExact
<1>10. CASE CheckpointLower(t)
  <2>a. LowerSuspendCounts({current[t]})
    BY ZenonT(40), <1>10 DEF CheckpointLower
  <2>b. Resumes(t, {current[t]})
    BY ZenonT(40), <1>10, CheckpointLowerResumes
  <2>1. \A v \in Threads : suspendCount'[v] = Cardinality(Suspenders(v)')
    BY ZenonT(30), <1>0, <2>a, <2>b, LowerExact
  <2>2. AllSuspenders' = AllSuspenders /\ suspendAllCount' = suspendAllCount
    BY ZenonT(40), <1>10
    DEF CheckpointLower, LowerSuspendCounts, OpTypes, AllSuspenders,
        SuspendAllOps, RequestingOps
  <2> QED
    BY ZenonT(40), <2>1, <2>2 DEF SuspendCountExact
<1>11. CASE SyncLower(t)
  <2>a. LowerSuspendCounts({current[t]})
    BY ZenonT(40), <1>11 DEF SyncLower
  <2>b. Resumes(t, {current[t]})
    BY ZenonT(40), <1>11, SyncLowerResumes
  <2>1. \A v \in Threads : suspendCount'[v] = Cardinality(Suspenders(v)')
    BY ZenonT(30), <1>0, <2>a, <2>b, LowerExact
  <2>2. AllSuspenders' = AllSuspenders /\ suspendAllCount' = suspendAllCount
    BY ZenonT(40), <1>11
    DEF SyncLower, LowerSuspendCounts, OpTypes, AllSuspenders, SuspendAllOps,
        RequestingOps
  <2> QED
    BY ZenonT(40), <2>1, <2>2 DEF SuspendCountExact
<1>12. CASE FlipResumeRunnable(t)
  <2>a. LowerSuspendCounts(ResumedEarly(t))
    BY ZenonT(40), <1>12 DEF FlipResumeRunnable
  <2>b. Resumes(t, ResumedEarly(t))
    BY ZenonT(40), <1>12, FlipResumeRunnableResumes
  <2>1. \A v \in Threads : suspendCount'[v] = Cardinality(Suspenders(v)')
    BY ZenonT(30), <1>0, <2>a, <2>b, LowerExact
  <2>2. AllSuspenders' = AllSuspenders \ {t} /\ t \in AllSuspenders
    BY ZenonT(40), <1>12
    DEF FlipResumeRunnable, LowerSuspendCounts, OpTypes, AllSuspenders,
        SuspendAllOps, RequestingOps
  <2>3. suspendAllCount' = Cardinality(AllSuspenders')
    BY ZenonT(40), <1>12, <2>2, SuspendAllEnds DEF FlipResumeRunnable
  <2> QED
    BY ZenonT(40), <2>1, <2>3 DEF SuspendCountExact
<1>13. CASE FlipResumeOthers(t)
  <2>a. LowerSuspendCounts(raised[t])
    BY ZenonT(40), <1>13 DEF FlipResumeOthers
  <2>b. Resumes(t, raised[t])
    BY ZenonT(40), <1>13, FlipResumeOthersResumes
  <2>1. \A v \in Threads : suspendCount'[v] = Cardinality(Suspenders(v)')
    BY ZenonT(30), <1>0, <2>a, <2>b, LowerExact
  <2>2. AllSuspenders' = AllSuspenders /\ suspendAllCount' = suspendAllCount
    BY ZenonT(40), <1>13
    DEF FlipResumeOthers, LowerSuspendCounts, OpTypes, AllSuspenders,
        SuspendAllOps, RequestingOps
  <2> QED
    BY ZenonT(40), <2>1, <2>2 DEF SuspendCountExact
<1>14. ASSUME NEW u \in Threads, RequestSuspend(t, u) PROVE SuspendCountExact'
  <2>a. RaiseSuspendCount(u, t)
    BY ZenonT(40), <1>14 DEF RequestSuspend
  <2>b. Suspends(t, u)
    BY ZenonT(40), <1>14, RequestSuspendSuspends
  <2>1. \A v \in Threads : suspendCount'[v] = Cardinality(Suspenders(v)')
    BY ZenonT(30), <1>0, <2>a, <2>b, RaiseExact
  <2>2. AllSuspenders' = AllSuspenders /\ suspendAllCount' = suspendAllCount
    BY ZenonT(40), <1>14
    DEF RequestSuspend, OpTypes, AllSuspenders, SuspendAllOps, RequestingOps
  <2> QED
    BY ZenonT(40), <2>1, <2>2 DEF SuspendCountExact
<1>15. ASSUME NEW u \in Threads, CheckpointSuspendedThread(t, u) PROVE SuspendCountExact'
  <2>a. RaiseSuspendCount(u, NoThread)
    BY ZenonT(40), <1>15 DEF CheckpointSuspendedThread
  <2>b. Suspends(t, u)
    BY ZenonT(40), <1>15, CheckpointSuspendedThreadSuspends
  <2>1. \A v \in Threads : suspendCount'[v] = Cardinality(Suspenders(v)')
    BY ZenonT(30), <1>0, <2>a, <2>b, RaiseExact
  <2>2. AllSuspenders' = AllSuspenders /\ suspendAllCount' = suspendAllCount
    BY ZenonT(40), <1>15
    DEF CheckpointSuspendedThread, OpTypes, AllSuspenders, SuspendAllOps,
        RequestingOps
  <2> QED
    BY ZenonT(40), <2>1, <2>2 DEF SuspendCountExact
<1> QED
  BY ZenonT(40), <1>1, <1>2, <1>3, <1>4, <1>5, <1>6, <1>7, <1>8, <1>9, <1>10,
     <1>11, <1>12, <1>13, <1>14, <1>15 DEF CountsAffected

\* Every step, given how it affects the SuspendAlls and the counts.
LEMMA SuspendCountExactPreserved ==
  ASSUME CardinalityFacts, LockTypes, OpTypes, CounterTypes, StateInv, TodoInv,
         RaisedInv, FlagInv, SuspendCountExact, NEW t \in Threads,
         SuspendAllsUnaffected \/ SuspendAllAffected(t),
         CountsUnchanged \/ CountsAffected(t)
  PROVE  SuspendCountExact'
<1>1. CASE CountsAffected(t)
  BY ZenonT(40), <1>1, CountedSteps
<1>2. CASE CountsUnchanged /\ SuspendAllsUnaffected
  BY ZenonT(40), <1>2, OtherStepsCounts
<1>3. CASE SuspendAllAffected(t) /\ ~CountsAffected(t)
  BY ZenonT(40), <1>3, SuspendBarrierPassedCounts, RemoveFromListCounts
  DEF SuspendAllAffected, CountsAffected
<1> QED
  BY ZenonT(40), <1>1, <1>2, <1>3

-----------------------------------------------------------------------------
(***************************************************************************)
(* The suspend barriers are where they have to be, pending_threads counts  *)
(* those who owe it, and whoever has been asked is not runnable or owes    *)
(* it.                                                                     *)
(***************************************************************************)

\* A step that touches no barrier, makes nobody runnable and leaves the
\* SuspendAlls alone.
LEMMA UnaffectedSuspension ==
  ASSUME SuspensionInv, SuspendAllsUnaffected, BarriersUnaffected
  PROVE  SuspensionInv'
<1>1. BarrierInv'
  BY ZenonT(40)
  DEF SuspensionInv, BarrierInv, SuspendAllsUnaffected, BarriersUnaffected
<1>2. SuspendBarrierExact'
  <2>1. \A s \in Threads : Owing(s)' = Owing(s)
    BY ZenonT(40) DEF Owing, BarriersUnaffected
  <2> QED
    BY ZenonT(40), <2>1
    DEF SuspensionInv, SuspendBarrierExact, SuspendAllsUnaffected,
        BarriersUnaffected
<1>3. AskedInv'
  BY ZenonT(40)
  DEF SuspensionInv, AskedInv, SuspendAllsUnaffected, BarriersUnaffected
<1> QED
  BY ZenonT(40), <1>1, <1>2, <1>3 DEF SuspensionInv

\* SuspendAllInternal begins: pending_threads is the number of the others.
LEMMA EnterSuspension ==
  ASSUME CardinalityFacts, LockTypes, OpTypes, CounterTypes, SuspensionInv,
         NEW t \in Threads, t \in list, op[t] \notin SuspendAllOps, NEW who,
         EnterSuspendAllInternal(t, who)
  PROVE  SuspensionInv'
<1>0. /\ BarrierInv /\ SuspendBarrierExact /\ AskedInv
      /\ barriers' = barriers /\ claimed' = claimed /\ state' = state
      /\ list' = list
      /\ op[t] \notin RequestingOps
  BY ZenonT(40) DEF SuspensionInv, EnterSuspendAllInternal, SuspendAllOps
<1>1. \A s \in Threads : s # t => /\ op'[s] = op[s]
                                  /\ todo'[s] = todo[s]
                                  /\ pending'[s] = pending[s]
                                  /\ SuspendAllTargets(s)' = SuspendAllTargets(s)
  BY ZenonT(40)
  DEF EnterSuspendAllInternal, OpTypes, CounterTypes, SuspendAllTargets
<1>2. /\ op'[t] \in RequestingOps
      /\ todo'[t] = list \ {t}
      /\ pending'[t] = Cardinality(list) - 1
  BY ZenonT(40)
  DEF EnterSuspendAllInternal, OpTypes, CounterTypes, RequestingOps
<1>3. SuspendAllTargets(t)' = {}
  BY ZenonT(40), <1>0, <1>2 DEF SuspendAllTargets, LockTypes
<1>4. BarrierInv'
  BY ZenonT(40), <1>0, <1>1 DEF BarrierInv
<1>5. AskedInv'
  BY ZenonT(40), <1>0, <1>1, <1>3 DEF AskedInv
<1>6. \A s \in Threads : Owing(s)' = Owing(s)
  BY ZenonT(40), <1>0 DEF Owing
<1>7. pending'[t] = Cardinality(todo'[t] \union Owing(t)')
  <2>1. Owing(t)' = {}
    BY ZenonT(40), <1>0, <1>6 DEF SuspendBarrierExact
  <2>2. Cardinality(list \ {t}) = Cardinality(list) - 1
    BY ZenonT(40) DEF CardinalityFacts, LockTypes
  <2>3. todo'[t] \union Owing(t)' = list \ {t}
    BY ZenonT(40), <1>2, <2>1
  <2> QED
    BY ZenonT(40), <1>2, <2>2, <2>3
<1>8. SuspendBarrierExact'
  BY ZenonT(40), <1>0, <1>1, <1>2, <1>6, <1>7 DEF SuspendBarrierExact
<1> QED
  BY ZenonT(40), <1>4, <1>5, <1>8 DEF SuspensionInv

\* SuspendAllInternal asks u: u moves from those to come to those who owe.
LEMMA RequestSuspension ==
  ASSUME WordTypes, LockTypes, OpTypes, TodoInv, SuspensionInv,
         NEW t \in Threads, NEW u \in Threads, RequestSuspend(t, u)
  PROVE  SuspensionInv'
<1>0. BarrierInv /\ SuspendBarrierExact /\ AskedInv
  BY ZenonT(40) DEF SuspensionInv
<1>1. /\ u \in todo[t] /\ u \in list \ {t}
      /\ op[t] \in RequestingOps /\ op[t] \in SuspendAllOps
  BY DEF RequestSuspend, TodoInv, LoopOps, RequestingOps, SuspendAllOps
<1>2. /\ op' = [op EXCEPT ![t] = "checkSuspended"]
      /\ todo' = [todo EXCEPT ![t] = todo[t] \ {u}]
      /\ claimed' = claimed /\ pending' = pending /\ state' = state
      /\ list' = list
  BY ZenonT(40) DEF RequestSuspend
<1>3. barriers' = [barriers EXCEPT ![u] = barriers[u] \union {t}]
  BY ZenonT(40), ThreadsAssumption DEF RequestSuspend, RaiseSuspendCount
<1>4. \A s \in Threads : /\ op'[s] \in RequestingOps <=> op[s] \in RequestingOps
                         /\ op'[s] \in SuspendAllOps <=> op[s] \in SuspendAllOps
  BY ZenonT(40), <1>1, <1>2 DEF OpTypes, RequestingOps, SuspendAllOps
<1>5. \A s, v \in Threads :
        v \in SuspendAllTargets(s)' <=>
          v \in SuspendAllTargets(s) \/ (s = t /\ v = u)
  BY ZenonT(40), <1>1, <1>2, <1>4 DEF SuspendAllTargets, OpTypes
<1>6. u \notin SuspendAllTargets(t) /\ t \notin claimed[u]
  BY ZenonT(40), <1>0, <1>1 DEF SuspendAllTargets, BarrierInv
<1>7. BarrierInv'
  BY ZenonT(40), <1>0, <1>1, <1>2, <1>3, <1>4, <1>5, <1>6
  DEF BarrierInv, WordTypes
<1>8. AskedInv'
  BY ZenonT(40), <1>0, <1>2, <1>3, <1>5 DEF AskedInv, WordTypes
<1>9. SuspendBarrierExact'
  <2>1. \A s \in Threads : s # t => /\ Owing(s)' = Owing(s)
                                    /\ todo'[s] = todo[s]
    BY ZenonT(40), <1>2, <1>3 DEF Owing, WordTypes, OpTypes
  <2>2. Owing(t)' = Owing(t) \union {u}
    BY ZenonT(40), <1>2, <1>3 DEF Owing, WordTypes
  <2>3. todo'[t] \union Owing(t)' = todo[t] \union Owing(t)
    BY ZenonT(40), <1>1, <1>2, <2>2 DEF OpTypes
  <2> QED
    BY ZenonT(40), <1>0, <1>1, <1>2, <1>4, <2>1, <2>3 DEF SuspendBarrierExact
<1> QED
  BY ZenonT(40), <1>7, <1>8, <1>9 DEF SuspensionInv

\* A thread leaves those who owe s, and pending_threads goes down by one: by
\* ClearSuspendBarrier in SuspendAllInternal or by PassActiveSuspendBarriers.
LEMMA OneLessOwing ==
  ASSUME CardinalityFacts, OpTypes, CounterTypes, SuspendBarrierExact,
         SuspendAllsUnaffected, NEW s \in Threads, NEW u \in Threads,
         op[s] \in RequestingOps, u \in Owing(s), u \notin todo[s],
         pending' = [pending EXCEPT ![s] = pending[s] - 1],
         \A r \in Threads : Owing(r)' = IF r = s THEN Owing(r) \ {u} ELSE Owing(r)
  PROVE  SuspendBarrierExact'
<1>1. pending[s] = Cardinality(todo[s] \union Owing(s))
  BY ZenonT(40) DEF SuspendBarrierExact
<1>2. todo'[s] \union Owing(s)' = (todo[s] \union Owing(s)) \ {u}
  BY ZenonT(40) DEF SuspendAllsUnaffected
<1>3. todo[s] \union Owing(s) \in SUBSET Threads
  BY ZenonT(40) DEF OpTypes, Owing
<1>4. Cardinality((todo[s] \union Owing(s)) \ {u}) =
        Cardinality(todo[s] \union Owing(s)) - 1
  BY ZenonT(40), <1>3 DEF CardinalityFacts
<1>5. pending'[s] = pending[s] - 1 /\ \A r \in Threads : r # s => pending'[r] = pending[r]
  BY ZenonT(40) DEF CounterTypes
<1>6. pending'[s] = Cardinality(todo'[s] \union Owing(s)')
  BY ZenonT(40), <1>1, <1>2, <1>4, <1>5
<1> QED
  BY ZenonT(40), <1>5, <1>6 DEF SuspendBarrierExact, SuspendAllsUnaffected

\* SuspendAllInternal finds the thread it has asked suspended already, or leaves
\* the barrier with it.
LEMMA CheckSuspendedSuspension ==
  ASSUME CardinalityFacts, WordTypes, OpTypes, CurrentTypes, CounterTypes,
         TodoInv, SuspensionInv, SuspendAllsUnaffected, NEW t \in Threads,
         CheckSuspended(t)
  PROVE  SuspensionInv'
<1> DEFINE c == current[t]
<1>0. /\ BarrierInv /\ SuspendBarrierExact /\ AskedInv
      /\ claimed' = claimed /\ state' = state
  BY ZenonT(40) DEF SuspensionInv, CheckSuspended
<1>1. /\ c \in Threads /\ op[t] = "checkSuspended"
      /\ c \notin todo[t] /\ t \in barriers[c]
  BY ZenonT(40) DEF CheckSuspended, CurrentTypes, NamingOps, TodoInv
<1>2. CASE ~IsSuspended(c)
  <2>1. BarriersUnaffected
    BY ZenonT(40), <1>0, <1>2 DEF CheckSuspended, BarriersUnaffected
  <2> QED
    BY ZenonT(40), <2>1, UnaffectedSuspension
<1>3. CASE IsSuspended(c)
  <2>1. /\ barriers' = [barriers EXCEPT ![c] = barriers[c] \ {t}]
        /\ pending' = [pending EXCEPT ![t] = pending[t] - 1]
    BY ZenonT(40), <1>3 DEF CheckSuspended, ClearSuspendBarrier
  <2>2. \A r, v \in Threads :
          r \in barriers'[v] <=> r \in barriers[v] /\ ~(r = t /\ v = c)
    BY ZenonT(40), <1>1, <2>1 DEF WordTypes
  <2>3. BarrierInv'
    BY ZenonT(40), <1>0, <2>2 DEF BarrierInv, SuspendAllsUnaffected
  <2>4. AskedInv'
    BY ZenonT(40), <1>0, <1>3, <2>2
    DEF AskedInv, SuspendAllsUnaffected, IsSuspended
  <2>5. t \notin claimed[c] /\ c \in Owing(t) /\ op[t] \in RequestingOps
    BY ZenonT(40), <1>0, <1>1 DEF BarrierInv, Owing, RequestingOps
  <2>6. \A r \in Threads :
          Owing(r)' = IF r = t THEN Owing(r) \ {c} ELSE Owing(r)
    BY ZenonT(40), <1>0, <2>2, <2>5 DEF Owing
  <2>7. SuspendBarrierExact'
    BY ZenonT(30), <1>0, <1>1, <2>1, <2>5, <2>6, OneLessOwing
  <2> QED
    BY ZenonT(40), <2>3, <2>4, <2>7 DEF SuspensionInv
<1> QED
  BY ZenonT(40), <1>2, <1>3

\* PassActiveSuspendBarriers takes the barriers of a thread that is not
\* runnable: the thread still owes them.
LEMMA ClaimSuspension ==
  ASSUME WordTypes, StateInv, SuspensionInv, SuspendAllsUnaffected,
         NEW t \in Threads, ClaimSuspendBarriers(t)
  PROVE  SuspensionInv'
<1>0. /\ BarrierInv /\ SuspendBarrierExact /\ AskedInv
      /\ pending' = pending /\ state' = state
      /\ state[t] # "Runnable" /\ claimed[t] = {}
  BY ZenonT(40) DEF SuspensionInv, ClaimSuspendBarriers, StateInv
<1>1. /\ claimed'[t] = barriers[t] /\ barriers'[t] = {}
      /\ \A v \in Threads : v # t => /\ claimed'[v] = claimed[v]
                                     /\ barriers'[v] = barriers[v]
  BY ZenonT(40) DEF ClaimSuspendBarriers, WordTypes
<1>2. BarrierInv'
  BY ZenonT(40), <1>0, <1>1 DEF BarrierInv, SuspendAllsUnaffected
<1>3. AskedInv'
  BY ZenonT(40), <1>0, <1>1 DEF AskedInv, SuspendAllsUnaffected
<1>4. \A s \in Threads : Owing(s)' = Owing(s)
  BY ZenonT(40), <1>0, <1>1 DEF Owing
<1>5. SuspendBarrierExact'
  BY ZenonT(40), <1>0, <1>4 DEF SuspendBarrierExact, SuspendAllsUnaffected
<1> QED
  BY ZenonT(40), <1>2, <1>3, <1>5 DEF SuspensionInv

\* PassActiveSuspendBarriers decrements one counter.
LEMMA PassSuspension ==
  ASSUME CardinalityFacts, WordTypes, OpTypes, CounterTypes, SuspensionInv,
         SuspendAllsUnaffected, NEW t \in Threads, NEW b \in Threads,
         PassSuspendBarrier(t, b)
  PROVE  SuspensionInv'
<1>0. /\ BarrierInv /\ SuspendBarrierExact /\ AskedInv
      /\ barriers' = barriers /\ state' = state
      /\ pending' = [pending EXCEPT ![b] = pending[b] - 1]
  BY ZenonT(40) DEF SuspensionInv, PassSuspendBarrier
<1>1. /\ op[b] \in RequestingOps /\ b \notin barriers[t]
      /\ t \in Owing(b) /\ t \notin todo[b]
  BY ZenonT(40), <1>0
  DEF PassSuspendBarrier, BarrierInv, Owing, SuspendAllTargets
<1>2. \A r, v \in Threads :
        r \in claimed'[v] <=> r \in claimed[v] /\ ~(r = b /\ v = t)
  BY ZenonT(40) DEF PassSuspendBarrier, WordTypes
<1>3. BarrierInv'
  BY <1>0, <1>2 DEF BarrierInv, SuspendAllsUnaffected
<1>4. AskedInv'
  BY ZenonT(40), <1>0 DEF AskedInv, SuspendAllsUnaffected
<1>5. \A r \in Threads :
        Owing(r)' = IF r = b THEN Owing(r) \ {t} ELSE Owing(r)
  BY ZenonT(40), <1>0, <1>1, <1>2 DEF Owing
<1>6. SuspendBarrierExact'
  BY ZenonT(30), <1>0, <1>1, <1>5, OneLessOwing
<1> QED
  BY ZenonT(40), <1>3, <1>4, <1>6 DEF SuspensionInv

\* TransitionFromSuspendedToRunnable: nobody who has been asked gets through.
LEMMA BecomeRunnableSuspension ==
  ASSUME WordTypes, RequestInv, SuspensionInv, SuspendAllsUnaffected,
         NEW t \in Threads, BecomeRunnable(t)
  PROVE  SuspensionInv'
<1>0. /\ BarrierInv /\ SuspendBarrierExact /\ AskedInv
      /\ barriers' = barriers /\ claimed' = claimed /\ pending' = pending
  BY ZenonT(40) DEF SuspensionInv, BecomeRunnable
<1>1. \A s \in Threads : t \notin SuspendAllTargets(s)
  BY ZenonT(40) DEF BecomeRunnable, RequestInv, SuspendedBy
<1>2. BarrierInv'
  BY ZenonT(40), <1>0 DEF BarrierInv, SuspendAllsUnaffected
<1>3. AskedInv'
  BY ZenonT(40), <1>0, <1>1
  DEF BecomeRunnable, WordTypes, AskedInv, SuspendAllsUnaffected
<1>4. \A s \in Threads : Owing(s)' = Owing(s)
  BY ZenonT(40), <1>0 DEF Owing
<1>5. SuspendBarrierExact'
  BY ZenonT(40), <1>0, <1>4 DEF SuspendBarrierExact, SuspendAllsUnaffected
<1> QED
  BY ZenonT(40), <1>2, <1>3, <1>5 DEF SuspensionInv

\* The steps that change who has been asked but no barrier: a SuspendAll whose
\* counter is zero goes on or ends, a thread attaches or detaches.
LEMMA TargetsSuspension ==
  ASSUME SuspensionInv, NEW t \in Threads, BarriersUnaffected,
         todo' = todo, Owing(t) = {}, op'[t] \notin RequestingOps,
         \A s \in Threads : s # t =>
           /\ op'[s] = op[s]
           /\ \A v \in Threads : v \in SuspendAllTargets(s) => v \in SuspendAllTargets(s)',
         \A s, v \in Threads : v \in SuspendAllTargets(s)' =>
           v \in SuspendAllTargets(s) \/ state'[v] # "Runnable"
  PROVE  SuspensionInv'
<1>0. BarrierInv /\ SuspendBarrierExact /\ AskedInv
  BY ZenonT(40) DEF SuspensionInv
<1>1. \A s \in Threads : Owing(s)' = Owing(s)
  BY ZenonT(40) DEF Owing, BarriersUnaffected
<1>2. BarrierInv'
  BY ZenonT(40), <1>0 DEF BarrierInv, BarriersUnaffected, Owing
<1>3. AskedInv'
  BY ZenonT(40), <1>0 DEF AskedInv, BarriersUnaffected
<1>4. SuspendBarrierExact'
  BY ZenonT(40), <1>0, <1>1 DEF SuspendBarrierExact, BarriersUnaffected
<1> QED
  BY ZenonT(40), <1>2, <1>3, <1>4 DEF SuspensionInv

\* SuspendAllInternal stops waiting: nobody owes it anything.
LEMMA PassedSuspension ==
  ASSUME CardinalityFacts, OpTypes, SuspensionInv, NEW t \in Threads,
         SuspendBarrierPassed(t)
  PROVE  SuspensionInv'
<1>1. Owing(t) = {}
  <2>1. Cardinality(todo[t] \union Owing(t)) = 0
    BY ZenonT(40)
    DEF SuspensionInv, SuspendBarrierExact, SuspendBarrierPassed, RequestingOps
  <2>2. todo[t] \union Owing(t) \in SUBSET Threads
    BY ZenonT(40) DEF OpTypes, Owing
  <2> QED
    BY ZenonT(40), <2>1, <2>2 DEF CardinalityFacts
<1>2. BarriersUnaffected /\ todo' = todo
  BY ZenonT(40) DEF SuspendBarrierPassed, BarriersUnaffected
<1>3. /\ op'[t] \notin RequestingOps
      /\ \A s \in Threads : s # t => op'[s] = op[s]
      /\ \A s \in Threads : SuspendAllTargets(s)' = SuspendAllTargets(s)
  BY ZenonT(40)
  DEF SuspendBarrierPassed, OpTypes, RequestingOps, SuspendAllTargets,
      SuspendAllOps
<1> QED
  BY ZenonT(30), <1>1, <1>2, <1>3, TargetsSuspension

\* ResumeAll and the end of FlipThreadRoots.
LEMMA EndedSuspension ==
  ASSUME OpTypes, SuspensionInv, NEW t \in Threads,
         LowerAllAndBroadcast(t) \/ FlipResumeRunnable(t)
  PROVE  SuspensionInv'
<1>1. op[t] \notin RequestingOps
  BY ZenonT(40) DEF LowerAllAndBroadcast, FlipResumeRunnable, RequestingOps
<1>2. Owing(t) = {}
  BY ZenonT(30), <1>1 DEF SuspensionInv, SuspendBarrierExact
<1>3. BarriersUnaffected /\ todo' = todo /\ list' = list
  BY ZenonT(40)
  DEF LowerAllAndBroadcast, FlipResumeRunnable, LowerSuspendCounts,
      BarriersUnaffected
<1>4. /\ op'[t] \notin RequestingOps /\ op'[t] \notin SuspendAllOps
      /\ \A s \in Threads : s # t => op'[s] = op[s]
  BY ZenonT(40)
  DEF LowerAllAndBroadcast, FlipResumeRunnable, OpTypes, RequestingOps,
      SuspendAllOps
<1>5. /\ SuspendAllTargets(t)' = {}
      /\ \A s \in Threads : s # t => SuspendAllTargets(s)' = SuspendAllTargets(s)
  BY ZenonT(40), <1>3, <1>4 DEF SuspendAllTargets
<1> QED
  BY ZenonT(30), <1>2, <1>3, <1>4, <1>5, TargetsSuspension

\* Register puts a thread on the list that is not runnable.
LEMMA RegisterSuspension ==
  ASSUME WordTypes, OpTypes, StateInv, OpInv, SuspensionInv, NEW t \in Threads,
         Register(t)
  PROVE  SuspensionInv'
<1>1. op[t] \notin RequestingOps /\ op[t] \notin SuspendAllOps
  BY ZenonT(40) DEF Register, OpInv, RequestingOps, SuspendAllOps
<1>2. Owing(t) = {}
  BY ZenonT(30), <1>1 DEF SuspensionInv, SuspendBarrierExact
<1>3. BarriersUnaffected /\ todo' = todo /\ op' = op /\ list' = list \union {t}
  BY ZenonT(40) DEF Register, BarriersUnaffected, WordTypes
<1>4. state'[t] # "Runnable"
  BY ZenonT(40) DEF Register, WordTypes
<1>5. \A s, v \in Threads :
        /\ v \in SuspendAllTargets(s) => v \in SuspendAllTargets(s)'
        /\ v \in SuspendAllTargets(s)' => v \in SuspendAllTargets(s) \/ v = t
  BY ZenonT(40), <1>3 DEF SuspendAllTargets
<1> QED
  BY ZenonT(30), <1>1, <1>2, <1>3, <1>4, <1>5, TargetsSuspension

\* Unregister takes a thread off the list that nobody has asked.
LEMMA RemoveSuspension ==
  ASSUME OpTypes, StateInv, OpInv, RequestInv, SuspensionInv, NEW t \in Threads,
         RemoveFromList(t)
  PROVE  SuspensionInv'
<1>1. op[t] = "unregister" /\ op' = [op EXCEPT ![t] = "detached"]
  BY ZenonT(40) DEF RemoveFromList
<1>2. op[t] \notin RequestingOps
  BY ZenonT(40), <1>1 DEF RequestingOps
<1>3. Owing(t) = {}
  BY ZenonT(30), <1>2 DEF SuspensionInv, SuspendBarrierExact
<1>4. BarriersUnaffected /\ todo' = todo /\ list' = list \ {t}
  BY ZenonT(40) DEF RemoveFromList, BarriersUnaffected
<1>5. /\ op'[t] \notin RequestingOps
      /\ \A s \in Threads : s # t => op'[s] = op[s]
      /\ \A s \in Threads : op'[s] \in SuspendAllOps <=> op[s] \in SuspendAllOps
  BY ZenonT(40), <1>1 DEF OpTypes, RequestingOps, SuspendAllOps
<1>6. \A s \in Threads : t \notin SuspendAllTargets(s)
  BY ZenonT(40), <1>1
  DEF RemoveFromList, IsSuspended, RequestInv, SuspendedBy, StateInv, OpInv
<1>7. \A s \in Threads : SuspendAllTargets(s)' = SuspendAllTargets(s)
  BY ZenonT(40), <1>4, <1>5, <1>6 DEF SuspendAllTargets
<1> QED
  BY ZenonT(30), <1>3, <1>4, <1>5, <1>7, TargetsSuspension

\* The steps that change what the SuspendAlls have suspended.
LEMMA AffectedSuspension ==
  ASSUME CardinalityFacts, WordTypes, LockTypes, OpTypes, CounterTypes, StateInv,
         OpInv, TodoInv, RequestInv, SuspensionInv, NEW t \in Threads,
         SuspendAllAffected(t)
  PROVE  SuspensionInv'
<1>1. CASE SuspendAll(t)
  <2>1. /\ t \in list /\ op[t] \notin SuspendAllOps
        /\ EnterSuspendAllInternal(t, "SuspendAll")
    BY ZenonT(40), <1>1 DEF SuspendAll, SuspendAllOps, RequestingOps
  <2> QED
    BY ZenonT(30), <2>1, EnterSuspension
<1>2. CASE FlipSuspendAll(t)
  <2>1. /\ t \in list /\ op[t] \notin SuspendAllOps
        /\ EnterSuspendAllInternal(t, "FlipThreadRoots")
    BY ZenonT(40), <1>2
    DEF FlipSuspendAll, SuspendAllOps, RequestingOps, OpInv, StateInv, FlipOps
  <2> QED
    BY ZenonT(30), <2>1, EnterSuspension
<1>3. ASSUME NEW u \in Threads, RequestSuspend(t, u) PROVE SuspensionInv'
  BY ZenonT(40), <1>3, RequestSuspension
<1>4. CASE SuspendBarrierPassed(t)
  BY ZenonT(40), <1>4, PassedSuspension
<1>5. CASE LowerAllAndBroadcast(t) \/ FlipResumeRunnable(t)
  BY ZenonT(40), <1>5, EndedSuspension
<1>6. CASE Register(t)
  BY ZenonT(40), <1>6, RegisterSuspension
<1>7. CASE RemoveFromList(t)
  BY ZenonT(40), <1>7, RemoveSuspension
<1> QED
  BY ZenonT(40), <1>1, <1>2, <1>3, <1>4, <1>5, <1>6, <1>7
  DEF SuspendAllAffected

\* Every step preserves SuspensionInv.
LEMMA SuspensionPreserved ==
  ASSUME CardinalityFacts, WordTypes, LockTypes, OpTypes, CurrentTypes,
         CounterTypes, StateInv, OpInv, TodoInv, RequestInv, SuspensionInv,
         NEW t \in Threads,
         SuspendAllsUnaffected \/ SuspendAllAffected(t),
         BarriersUnaffected \/ BarriersAffected(t)
  PROVE  SuspensionInv'
<1>1. CASE SuspendAllAffected(t)
  BY ZenonT(40), <1>1, AffectedSuspension
<1>2. CASE SuspendAllsUnaffected /\ BarriersUnaffected
  BY ZenonT(40), <1>2, UnaffectedSuspension
<1>3. CASE SuspendAllsUnaffected /\ BarriersAffected(t) /\ ~SuspendAllAffected(t)
  <2>1. CASE ClaimSuspendBarriers(t)
    BY ZenonT(40), <1>3, <2>1, ClaimSuspension
  <2>2. CASE BecomeRunnable(t)
    BY ZenonT(40), <1>3, <2>2, BecomeRunnableSuspension
  <2>3. CASE CheckSuspended(t)
    BY ZenonT(40), <1>3, <2>3, CheckSuspendedSuspension
  <2>4. ASSUME NEW u \in Threads, PassSuspendBarrier(t, u) PROVE SuspensionInv'
    BY ZenonT(40), <1>3, <2>4, PassSuspension
  <2> QED
    BY ZenonT(40), <1>3, <2>1, <2>2, <2>3, <2>4
    DEF BarriersAffected, SuspendAllAffected
<1> QED
  BY ZenonT(40), <1>1, <1>2, <1>3

\* With SuspensionInv, a SuspendAll that has finished has the world stopped.
LEMMA MutatorExclusionHolds ==
  ASSUME LockTypes, StateInv, LockInv, TodoInv, SuspensionInv
  PROVE  MutatorExclusion
<1> SUFFICES ASSUME NEW s \in Threads, mutatorWriter = s,
                    NEW t \in Threads \ {s}
             PROVE  state[t] # "Runnable"
  BY ZenonT(40) DEF MutatorExclusion
<1>1. op[s] = "allSuspended" /\ todo[s] = {}
  BY ZenonT(40) DEF LockInv, TodoInv, LoopOps
<1>2. SuspendAllTargets(s) = list \ {s} /\ op[s] \notin RequestingOps
  BY ZenonT(40), <1>1 DEF SuspendAllTargets, SuspendAllOps, RequestingOps
<1>3. s \notin barriers[t]
  BY ZenonT(40), <1>2 DEF SuspensionInv, BarrierInv
<1>4. CASE t \in list
  BY ZenonT(40), <1>2, <1>3, <1>4 DEF SuspensionInv, AskedInv
<1>5. CASE t \notin list
  BY ZenonT(40), <1>5 DEF StateInv
<1> QED
  BY ZenonT(40), <1>4, <1>5

-----------------------------------------------------------------------------
(***************************************************************************)
(* The flags.                                                              *)
(***************************************************************************)

\* ModifySuspendCountInternal with delta = +1 sets the flags that go with the
\* count and the barrier.
LEMMA RaiseFlags ==
  ASSUME WordTypes, suspendCount \in [Threads -> Int], FlagInv,
         NEW u \in Threads, NEW b, suspendCount[u] >= 0, RaiseSuspendCount(u, b)
  PROVE  FlagInv'
<1>1. \A v \in Threads : "SuspendRequest" \in flags'[v] <=> suspendCount'[v] > 0
  BY DEF WordTypes, RaiseSuspendCount, FlagInv
<1>2. \A v \in Threads : "ActiveSuspendBarrier" \in flags'[v] <=> barriers'[v] # {}
  BY ZenonT(40) DEF WordTypes, RaiseSuspendCount, FlagInv
<1> QED
  BY ZenonT(40), <1>1, <1>2 DEF FlagInv

\* With delta = -1 it clears kSuspendRequest when the count becomes zero.
LEMMA LowerFlags ==
  ASSUME suspendCount \in [Threads -> Int], FlagInv,
         NEW S, \A v \in Threads : v \in S => suspendCount[v] > 0,
         LowerSuspendCounts(S)
  PROVE  FlagInv'
  BY DEF LowerSuspendCounts, FlagInv

\* ClearSuspendBarrier clears kActiveSuspendBarrier with the last barrier.
LEMMA ClearFlags ==
  ASSUME WordTypes, FlagInv, NEW u \in Threads, NEW b,
         ClearSuspendBarrier(u, b), suspendCount' = suspendCount
  PROVE  FlagInv'
  BY ZenonT(40) DEF ClearSuspendBarrier, WordTypes, FlagInv

-----------------------------------------------------------------------------

\* The state transitions of a thread: kSuspendRequest is set while the suspend count is
\* positive, kActiveSuspendBarrier while there is a barrier.
LEMMA TransitionStepsFlags ==
  ASSUME WordTypes, FlagInv, NEW t \in Threads, TransitionSteps(t)
  PROVE  FlagInv'
<1>1. CASE RunCheckpointFunction(t) /\ ThreadListUnchanged
  BY ZenonT(40), <1>1 DEF RunCheckpointFunction, RunClosure, WordTypes, FlagInv
<1>2. CASE RunEmptyCheckpoint(t) /\ ThreadListUnchanged
  BY ZenonT(40), <1>2 DEF RunEmptyCheckpoint, WordTypes, FlagInv
<1>3. CASE ClaimSuspendBarriers(t) /\ ThreadListUnchanged
  BY ZenonT(40), <1>3 DEF ClaimSuspendBarriers, WordTypes, FlagInv
<1>4. ASSUME \/ LeaveRunnable(t) \/ ReturnFromNative(t) \/ SpuriousWakeup(t)
             \/ FullSuspendCheck(t) \/ LeaveRunnableToWait(t)
             \/ ReturnToRunnable(t) \/ FinishTransitionToSuspended(t)
             \/ BecomeRunnable(t) \/ WaitForResume(t) \/ ResumeCondNotified(t)
             \/ RunFlipFunction(t)
             \/ \E u \in Threads : PassSuspendBarrier(t, u),
             ThreadListUnchanged
      PROVE  FlagInv'
  <2>1. /\ flags' = flags /\ suspendCount' = suspendCount
        /\ barriers' = barriers
    BY ZenonT(40), <1>4
    DEF LeaveRunnable, TransitionToSuspendedAndRunCheckpoints,
        ReturnFromNative, EnterTransitionToRunnable, SpuriousWakeup,
        FullSuspendCheck, LeaveRunnableToWait, ReturnToRunnable,
        PassSuspendBarrier, FinishTransitionToSuspended, BecomeRunnable,
        WaitForResume, ResumeCondNotified, RunFlipFunction
  <2> QED
    BY ZenonT(40), <2>1 DEF FlagInv
<1> QED
  BY ZenonT(40), <1>1, <1>2, <1>3, <1>4 DEF TransitionSteps

-----------------------------------------------------------------------------

\* SuspendAll and ResumeAll: kSuspendRequest is set while the suspend count is
\* positive, kActiveSuspendBarrier while there is a barrier.
LEMMA SuspendAllStepsFlags ==
  ASSUME WordTypes, LockTypes, CurrentTypes, CounterTypes, TodoInv, RaisedInv,
         RequestInv, FlagInv, NEW t \in Threads, SuspendSteps(t)
  PROVE  FlagInv'
<1>1. ASSUME NEW u \in Threads, RequestSuspend(t, u), CheckpointsAndFlipUnchanged
      PROVE  FlagInv'
  <2>1. suspendCount[u] >= 0
    BY ZenonT(40), <1>1 DEF RequestInv
  <2> QED
    BY ZenonT(40), <1>1, <2>1, RaiseFlags DEF RequestSuspend, CounterTypes
<1>2. CASE CheckSuspended(t) /\ CheckpointsAndFlipUnchanged
  <2>1. current[t] \in Threads
    BY ZenonT(40), <1>2 DEF CheckSuspended, CurrentTypes, NamingOps
  <2>2. suspendCount' = suspendCount
    BY ZenonT(40), <1>2 DEF CheckSuspended
  <2>3. \/ ClearSuspendBarrier(current[t], t)
        \/ barriers' = barriers /\ flags' = flags
    BY ZenonT(40), <1>2 DEF CheckSuspended
  <2> QED
    BY ZenonT(40), <1>2, <2>1, <2>2, <2>3, ClearFlags DEF FlagInv
<1>3. CASE LowerAllAndBroadcast(t) /\ CheckpointsAndFlipUnchanged
  <2>1. \A v \in Threads : v \in list \ {t} => v \in SuspendedBy(t)
    BY ZenonT(40), <1>3
    DEF LowerAllAndBroadcast, TodoInv, LoopOps, SuspendedBy, SuspendAllTargets,
        SuspendAllOps
  <2> QED
    BY ZenonT(40), <1>3, <2>1, LowerFlags
    DEF LowerAllAndBroadcast, CounterTypes, RequestInv
<1>4. ASSUME \/ SuspendAll(t) \/ FinishRequests(t) \/ SuspendBarrierPassed(t)
             \/ LockMutatorExclusive(t) \/ ResumeAll(t)
             \/ \E u \in Threads : RequestSuspendFails(t, u),
             CheckpointsAndFlipUnchanged
      PROVE  FlagInv'
  <2>1. /\ flags' = flags /\ suspendCount' = suspendCount
        /\ barriers' = barriers
    BY ZenonT(40), <1>4
    DEF SuspendAll, EnterSuspendAllInternal, RequestSuspendFails,
        FinishRequests, SuspendBarrierPassed, LockMutatorExclusive, ResumeAll
  <2> QED
    BY ZenonT(40), <2>1 DEF FlagInv
<1> QED
  BY ZenonT(40), <1>1, <1>2, <1>3, <1>4 DEF SuspendSteps

-----------------------------------------------------------------------------

\* SuspendThreadByThreadId and Resume: kSuspendRequest is set while the suspend count is
\* positive, kActiveSuspendBarrier while there is a barrier.
LEMMA ByIdStepsFlags ==
  ASSUME WordTypes, LockTypes, CounterTypes, TodoInv, RaisedInv, RequestInv,
         FlagInv, NEW t \in Threads, ByIdSteps(t)
  PROVE  FlagInv'
<1>1. CASE ByIdRequest(t) /\ CheckpointsAndFlipUnchanged
  <2>0. current[t] \in Threads
    BY ZenonT(40), <1>1 DEF ByIdRequest, LockTypes
  <2>1. suspendCount[current[t]] >= 0
    BY ZenonT(40), <1>1, <2>0 DEF RequestInv
  <2> QED
    BY ZenonT(40), <1>1, <2>0, <2>1, RaiseFlags DEF ByIdRequest, CounterTypes
<1>2. CASE ByIdTimeout(t) /\ CheckpointsAndFlipUnchanged
  <2>1. \A v \in Threads : v \in raised[t] => v \in SuspendedBy(t)
    BY ZenonT(40), <1>2
    DEF ByIdTimeout, SuspendedBy, SuspendAllTargets, SuspendAllOps
  <2> QED
    BY ZenonT(40), <1>2, <2>1, LowerFlags
    DEF ByIdTimeout, CounterTypes, RequestInv
<1>3. CASE Resume(t) /\ CheckpointsAndFlipUnchanged
  <2>1. \A v \in Threads : v \in {current[t]} => v \in SuspendedBy(t)
    BY <1>3
    DEF Resume, RaisedInv, SuspendedBy, SuspendAllTargets, SuspendAllOps
  <2> QED
    BY ZenonT(40), <1>3, <2>1, LowerFlags DEF Resume, CounterTypes, RequestInv
<1>4. ASSUME \/ ByIdGivesWay(t) \/ ByIdRequestFails(t) \/ ByIdPoll(t)
             \/ ByIdRoundEnds(t) \/ ResumeBroadcasts(t)
             \/ \E u \in Threads : SuspendThreadByThreadId(t, u),
             CheckpointsAndFlipUnchanged
      PROVE  FlagInv'
  <2>1. /\ flags' = flags /\ suspendCount' = suspendCount
        /\ barriers' = barriers
    BY ZenonT(40), <1>4
    DEF SuspendThreadByThreadId, ByIdGivesWay, ByIdRequestFails, ByIdPoll,
        ByIdRoundEnds, ResumeBroadcasts
  <2> QED
    BY ZenonT(40), <2>1 DEF FlagInv
<1> QED
  BY ZenonT(40), <1>1, <1>2, <1>3, <1>4 DEF ByIdSteps

-----------------------------------------------------------------------------

\* Register and Unregister: kSuspendRequest is set while the suspend count is
\* positive, kActiveSuspendBarrier while there is a barrier.
LEMMA AttachStepsFlags ==
  ASSUME WordTypes, CounterTypes, StateInv, BarrierInv, FlagInv,
         NEW t \in Threads, AttachSteps(t)
  PROVE  FlagInv'
<1>1. CASE Register(t) /\ CheckpointsAndFlipUnchanged
  <2>1. barriers[t] = {}
    BY ZenonT(40), <1>1
    DEF Register, WordTypes, StateInv, BarrierInv, SuspendAllTargets
  <2> QED
    BY ZenonT(40), <1>1, <2>1 DEF Register, WordTypes, CounterTypes, FlagInv
<1>2. ASSUME Unregister(t) \/ RemoveFromList(t) \/ FinishUnregister(t),
             CheckpointsAndFlipUnchanged
      PROVE  FlagInv'
  <2>1. /\ flags' = flags /\ suspendCount' = suspendCount
        /\ barriers' = barriers
    BY ZenonT(40), <1>2 DEF Unregister, RemoveFromList, FinishUnregister
  <2> QED
    BY ZenonT(40), <2>1 DEF FlagInv
<1> QED
  BY ZenonT(40), <1>1, <1>2 DEF AttachSteps

-----------------------------------------------------------------------------

\* RunCheckpoint: kSuspendRequest is set while the suspend count is
\* positive, kActiveSuspendBarrier while there is a barrier.
LEMMA RunCheckpointStepsFlags ==
  ASSUME WordTypes, LockTypes, CounterTypes, TodoInv, RaisedInv, RequestInv,
         FlagInv, NEW t \in Threads, RunCheckpointSteps(t)
  PROVE  FlagInv'
<1>1. ASSUME NEW u \in Threads, CheckpointRunnableThread(t, u), UNCHANGED jniVars
      PROVE  FlagInv'
  BY ZenonT(40), <1>1
  DEF CheckpointRunnableThread, EnqueueCheckpoint, WordTypes, FlagInv
<1>2. ASSUME NEW u \in Threads, CheckpointSuspendedThread(t, u), UNCHANGED jniVars
      PROVE  FlagInv'
  <2>1. suspendCount[u] >= 0
    BY ZenonT(40), <1>2 DEF RequestInv
  <2> QED
    BY ZenonT(40), <1>2, <2>1, RaiseFlags
    DEF CheckpointSuspendedThread, CounterTypes
<1>3. CASE CheckpointLower(t) /\ UNCHANGED jniVars
  <2>1. \A v \in Threads : v \in {current[t]} => v \in SuspendedBy(t)
    BY <1>3
    DEF CheckpointLower, RaisedInv, SuspendedBy, SuspendAllTargets,
        SuspendAllOps
  <2> QED
    BY ZenonT(40), <1>3, <2>1, LowerFlags
    DEF CheckpointLower, CounterTypes, RequestInv
<1>4. ASSUME \/ RunCheckpoint(t) \/ CheckpointSelf(t) \/ CheckpointBroadcast(t)
             \/ BarrierIncrement(t) \/ BarrierReachesZero(t)
             \/ \E u \in Threads : \/ CheckpointTargetNotRunnable(t, u)
                                 \/ CheckpointRequestFails(t, u)
                                 \/ CheckpointOther(t, u),
             UNCHANGED jniVars
      PROVE  FlagInv'
  <2>1. /\ flags' = flags /\ suspendCount' = suspendCount
        /\ barriers' = barriers
    BY ZenonT(40), <1>4
    DEF RunCheckpoint, CheckpointTargetNotRunnable, CheckpointRequestFails,
        CheckpointSelf, RunClosure, CheckpointOther, CheckpointBroadcast,
        BarrierIncrement, BarrierReachesZero
  <2> QED
    BY ZenonT(40), <2>1 DEF FlagInv
<1> QED
  BY ZenonT(40), <1>1, <1>2, <1>3, <1>4 DEF RunCheckpointSteps

-----------------------------------------------------------------------------

\* RequestSynchronousCheckpoint: kSuspendRequest is set while the suspend count is
\* positive, kActiveSuspendBarrier while there is a barrier.
LEMMA SyncStepsFlags ==
  ASSUME WordTypes, LockTypes, CounterTypes, TodoInv, RaisedInv, RequestInv,
         FlagInv, NEW t \in Threads, SyncSteps(t)
  PROVE  FlagInv'
<1>1. ASSUME NEW u \in Threads, RequestSynchronousCheckpoint(t, u), UNCHANGED jniVars
      PROVE  FlagInv'
  BY ZenonT(40), <1>1
  DEF RequestSynchronousCheckpoint, EnqueueCheckpoint, WordTypes, FlagInv
<1>2. CASE SyncRaise(t) /\ UNCHANGED jniVars
  <2>0. current[t] \in Threads
    BY ZenonT(40), <1>2 DEF SyncRaise, LockTypes, RaisedInv
  <2>1. suspendCount[current[t]] >= 0
    BY ZenonT(40), <1>2, <2>0 DEF RequestInv
  <2> QED
    BY ZenonT(40), <1>2, <2>0, <2>1, RaiseFlags DEF SyncRaise, CounterTypes
<1>3. CASE SyncLower(t) /\ UNCHANGED jniVars
  <2>1. \A v \in Threads : v \in {current[t]} => v \in SuspendedBy(t)
    BY <1>3
    DEF SyncLower, RaisedInv, SuspendedBy, SuspendAllTargets, SuspendAllOps
  <2> QED
    BY ZenonT(40), <1>3, <2>1, LowerFlags
    DEF SyncLower, CounterTypes, RequestInv
<1>4. ASSUME \/ SyncTargetSuspended(t) \/ SyncRun(t) \/ SyncBroadcast(t)
             \/ \E u \in Threads : SyncTargetNotRunnable(t, u),
             UNCHANGED jniVars
      PROVE  FlagInv'
  <2>1. /\ flags' = flags /\ suspendCount' = suspendCount
        /\ barriers' = barriers
    BY ZenonT(40), <1>4
    DEF SyncTargetNotRunnable, SyncTargetSuspended, SyncRun, RunClosure,
        SyncBroadcast
  <2> QED
    BY ZenonT(40), <2>1 DEF FlagInv
<1> QED
  BY ZenonT(40), <1>1, <1>2, <1>3, <1>4 DEF SyncSteps

-----------------------------------------------------------------------------

\* RunEmptyCheckpoint: kSuspendRequest is set while the suspend count is
\* positive, kActiveSuspendBarrier while there is a barrier.
LEMMA EmptyStepsFlags ==
  ASSUME WordTypes, FlagInv, NEW t \in Threads, EmptySteps(t)
  PROVE  FlagInv'
<1>1. ASSUME NEW u \in Threads, RequestEmptyCheckpoint(t, u), UNCHANGED jniVars
      PROVE  FlagInv'
  BY ZenonT(40), <1>1 DEF RequestEmptyCheckpoint, WordTypes, FlagInv
<1>2. ASSUME \/ ThreadListRunEmptyCheckpoint(t) \/ EmptyRequestsDone(t)
             \/ EmptyBarrierIncrement(t) \/ EmptyBarrierReachesZero(t)
             \/ \E u \in Threads : EmptyTargetSuspended(t, u),
             UNCHANGED jniVars
      PROVE  FlagInv'
  <2>1. /\ flags' = flags /\ suspendCount' = suspendCount
        /\ barriers' = barriers
    BY ZenonT(40), <1>2
    DEF ThreadListRunEmptyCheckpoint, EmptyTargetSuspended, EmptyRequestsDone,
        EmptyBarrierIncrement, EmptyBarrierReachesZero
  <2> QED
    BY ZenonT(40), <2>1 DEF FlagInv
<1> QED
  BY ZenonT(40), <1>1, <1>2 DEF EmptySteps

-----------------------------------------------------------------------------

\* FlipThreadRoots: kSuspendRequest is set while the suspend count is
\* positive, kActiveSuspendBarrier while there is a barrier.
LEMMA FlipStepsFlags ==
  ASSUME CounterTypes, TodoInv, RaisedInv, RequestInv, FlagInv,
         NEW t \in Threads, FlipSteps(t)
  PROVE  FlagInv'
<1>1. CASE FlipResumeRunnable(t)
  <2>1. \A v \in Threads : v \in ResumedEarly(t) => v \in SuspendedBy(t)
    BY ZenonT(40), <1>1
    DEF FlipResumeRunnable, TodoInv, LoopOps, SuspendedBy, SuspendAllTargets,
        SuspendAllOps, ResumedEarly
  <2> QED
    BY ZenonT(40), <1>1, <2>1, LowerFlags
    DEF FlipResumeRunnable, CounterTypes, RequestInv
<1>2. CASE FlipResumeOthers(t)
  <2>1. \A v \in Threads : v \in raised[t] => v \in SuspendedBy(t)
    BY ZenonT(40), <1>2
    DEF FlipResumeOthers, SuspendedBy, SuspendAllTargets, SuspendAllOps
  <2> QED
    BY ZenonT(40), <1>2, <2>1, LowerFlags
    DEF FlipResumeOthers, CounterTypes, RequestInv
<1>3. ASSUME \/ FlipThreadRoots(t) \/ ThreadFlipBegun(t) \/ FlipSuspendAll(t)
             \/ FlipUnlockMutator(t) \/ ThreadFlipEnd(t) \/ FlipLockShared(t)
             \/ FlipUnlockShared(t)
             \/ \E u \in Threads : FlipOther(t, u)
      PROVE  FlagInv'
  <2>1. /\ flags' = flags /\ suspendCount' = suspendCount
        /\ barriers' = barriers
    BY ZenonT(40), <1>3
    DEF FlipThreadRoots, ThreadFlipBegun, FlipSuspendAll,
        EnterSuspendAllInternal, FlipUnlockMutator, ThreadFlipEnd,
        FlipLockShared, FlipOther, FlipUnlockShared
  <2> QED
    BY ZenonT(40), <2>1 DEF FlagInv
<1> QED
  BY ZenonT(40), <1>1, <1>2, <1>3 DEF FlipSteps

-----------------------------------------------------------------------------

\* JNI critical sections: kSuspendRequest is set while the suspend count is
\* positive, kActiveSuspendBarrier while there is a barrier.
LEMMA JniStepsFlags ==
  ASSUME FlagInv, NEW t \in Threads, JniSteps(t)
  PROVE  FlagInv'
<1>1. /\ flags' = flags /\ suspendCount' = suspendCount
      /\ barriers' = barriers
  BY ZenonT(40)
  DEF JniSteps, EnterCritical, TransitionToSuspendedAndRunCheckpoints,
      EnterNestedCritical, IncrementDisableThreadFlip,
      EnterTransitionToRunnable, DecrementDisableThreadFlip
<1> QED
  BY ZenonT(40), <1>1 DEF FlagInv

-----------------------------------------------------------------------------

\* Every step: kSuspendRequest is set while the suspend count is
\* positive, kActiveSuspendBarrier while there is a barrier.
LEMMA FlagInvPreserved ==
  ASSUME WordTypes, LockTypes, CurrentTypes, CounterTypes, StateInv, TodoInv,
         RaisedInv, RequestInv, BarrierInv, FlagInv, NEW t \in Threads,
         AnyStep(t)
  PROVE  FlagInv'
  BY ZenonT(40), TransitionStepsFlags, SuspendAllStepsFlags, ByIdStepsFlags,
     AttachStepsFlags, RunCheckpointStepsFlags, SyncStepsFlags,
     EmptyStepsFlags, FlipStepsFlags, JniStepsFlags DEF AnyStep

-----------------------------------------------------------------------------

\* The state transitions of a thread: the flags of the thread flip stay Booleans.
LEMMA TransitionStepsFlipTypes ==
  ASSUME FlipTypes, NEW t \in Threads, TransitionSteps(t)
  PROVE  FlipTypes'
<1>1. CASE RunCheckpointFunction(t) /\ ThreadListUnchanged
  BY <1>1, ZenonT(40) DEF RunCheckpointFunction, RunClosure, FlipTypes
<1>2. CASE WaitForResume(t) /\ ThreadListUnchanged
  BY <1>2, ZenonT(40) DEF WaitForResume, FlipTypes
<1>3. CASE ResumeCondNotified(t) /\ ThreadListUnchanged
  BY <1>3, ZenonT(40) DEF ResumeCondNotified, FlipTypes
<1>4. CASE RunFlipFunction(t) /\ ThreadListUnchanged
  BY <1>4, ZenonT(40) DEF RunFlipFunction, FlipTypes
<1>5. ASSUME \/ LeaveRunnable(t) \/ ReturnFromNative(t) \/ SpuriousWakeup(t)
             \/ RunEmptyCheckpoint(t) \/ FullSuspendCheck(t)
             \/ LeaveRunnableToWait(t) \/ ReturnToRunnable(t)
             \/ ClaimSuspendBarriers(t) \/ FinishTransitionToSuspended(t)
             \/ BecomeRunnable(t)
             \/ \E u \in Threads : PassSuspendBarrier(t, u),
             ThreadListUnchanged
      PROVE  FlipTypes'
  <2>1. /\ flipFunction' = flipFunction /\ transitioning' = transitioning
        /\ threadFlipRunning' = threadFlipRunning
    BY ZenonT(40), <1>5
    DEF LeaveRunnable, TransitionToSuspendedAndRunCheckpoints,
        ReturnFromNative, EnterTransitionToRunnable, SpuriousWakeup,
        RunEmptyCheckpoint, FullSuspendCheck, LeaveRunnableToWait,
        ReturnToRunnable, ClaimSuspendBarriers, PassSuspendBarrier,
        FinishTransitionToSuspended, BecomeRunnable
  <2> QED
    BY ZenonT(40), <2>1 DEF FlipTypes
<1> QED
  BY ZenonT(40), <1>1, <1>2, <1>3, <1>4, <1>5 DEF TransitionSteps

-----------------------------------------------------------------------------

\* SuspendAll and ResumeAll: the flags of the thread flip stay Booleans.
LEMMA SuspendAllStepsFlipTypes ==
  ASSUME FlipTypes, NEW t \in Threads, SuspendSteps(t)
  PROVE  FlipTypes'
<1>1. /\ flipFunction' = flipFunction /\ transitioning' = transitioning
      /\ threadFlipRunning' = threadFlipRunning
  BY ZenonT(40)
  DEF SuspendSteps, SuspendAll, EnterSuspendAllInternal, RequestSuspend,
      RequestSuspendFails, CheckSuspended, FinishRequests,
      SuspendBarrierPassed, LockMutatorExclusive, ResumeAll,
      LowerAllAndBroadcast, LowerSuspendCounts
<1> QED
  BY ZenonT(40), <1>1 DEF FlipTypes

-----------------------------------------------------------------------------

\* SuspendThreadByThreadId and Resume: the flags of the thread flip stay Booleans.
LEMMA ByIdStepsFlipTypes ==
  ASSUME FlipTypes, NEW t \in Threads, ByIdSteps(t)
  PROVE  FlipTypes'
<1>1. /\ flipFunction' = flipFunction /\ transitioning' = transitioning
      /\ threadFlipRunning' = threadFlipRunning
  BY ZenonT(40)
  DEF ByIdSteps, SuspendThreadByThreadId, ByIdGivesWay, ByIdRequest,
      ByIdRequestFails, ByIdPoll, ByIdTimeout, LowerSuspendCounts,
      ByIdRoundEnds, Resume, ResumeBroadcasts
<1> QED
  BY ZenonT(40), <1>1 DEF FlipTypes

-----------------------------------------------------------------------------

\* Register and Unregister: the flags of the thread flip stay Booleans.
LEMMA AttachStepsFlipTypes ==
  ASSUME FlipTypes, NEW t \in Threads, AttachSteps(t)
  PROVE  FlipTypes'
<1>1. /\ flipFunction' = flipFunction /\ transitioning' = transitioning
      /\ threadFlipRunning' = threadFlipRunning
  BY ZenonT(40)
  DEF AttachSteps, Register, Unregister, RemoveFromList, FinishUnregister
<1> QED
  BY ZenonT(40), <1>1 DEF FlipTypes

-----------------------------------------------------------------------------

\* RunCheckpoint: the flags of the thread flip stay Booleans.
LEMMA RunCheckpointStepsFlipTypes ==
  ASSUME FlipTypes, NEW t \in Threads, RunCheckpointSteps(t)
  PROVE  FlipTypes'
<1>1. CASE CheckpointSelf(t) /\ UNCHANGED jniVars
  BY <1>1, ZenonT(40) DEF CheckpointSelf, RunClosure, FlipTypes
<1>2. ASSUME NEW u \in Threads, CheckpointOther(t, u), UNCHANGED jniVars
      PROVE  FlipTypes'
  BY <1>2, ZenonT(40) DEF CheckpointOther, RunClosure, FlipTypes
<1>3. ASSUME \/ RunCheckpoint(t) \/ CheckpointLower(t) \/ CheckpointBroadcast(t)
             \/ BarrierIncrement(t) \/ BarrierReachesZero(t)
             \/ \E u \in Threads : \/ CheckpointRunnableThread(t, u)
                                 \/ CheckpointTargetNotRunnable(t, u)
                                 \/ CheckpointSuspendedThread(t, u)
                                 \/ CheckpointRequestFails(t, u),
             UNCHANGED jniVars
      PROVE  FlipTypes'
  <2>1. /\ flipFunction' = flipFunction /\ transitioning' = transitioning
        /\ threadFlipRunning' = threadFlipRunning
    BY ZenonT(40), <1>3
    DEF RunCheckpoint, CheckpointRunnableThread, CheckpointSuspendedThread,
        CheckpointTargetNotRunnable, CheckpointRequestFails, CheckpointLower,
        LowerSuspendCounts, CheckpointBroadcast, BarrierIncrement,
        BarrierReachesZero
  <2> QED
    BY ZenonT(40), <2>1 DEF FlipTypes
<1> QED
  BY ZenonT(40), <1>1, <1>2, <1>3 DEF RunCheckpointSteps

-----------------------------------------------------------------------------

\* RequestSynchronousCheckpoint: the flags of the thread flip stay Booleans.
LEMMA SyncStepsFlipTypes ==
  ASSUME FlipTypes, NEW t \in Threads, SyncSteps(t)
  PROVE  FlipTypes'
<1>1. CASE SyncRun(t) /\ UNCHANGED jniVars
  BY <1>1, ZenonT(40) DEF SyncRun, RunClosure, FlipTypes
<1>2. ASSUME \/ SyncRaise(t) \/ SyncTargetSuspended(t) \/ SyncLower(t)
             \/ SyncBroadcast(t)
             \/ \E u \in Threads : RequestSynchronousCheckpoint(t, u) \/ SyncTargetNotRunnable(t, u),
             UNCHANGED jniVars
      PROVE  FlipTypes'
  <2>1. /\ flipFunction' = flipFunction /\ transitioning' = transitioning
        /\ threadFlipRunning' = threadFlipRunning
    BY ZenonT(40), <1>2
    DEF RequestSynchronousCheckpoint, SyncTargetNotRunnable, SyncRaise,
        SyncTargetSuspended, SyncLower, LowerSuspendCounts, SyncBroadcast
  <2> QED
    BY ZenonT(40), <2>1 DEF FlipTypes
<1> QED
  BY ZenonT(40), <1>1, <1>2 DEF SyncSteps

-----------------------------------------------------------------------------

\* RunEmptyCheckpoint: the flags of the thread flip stay Booleans.
LEMMA EmptyStepsFlipTypes ==
  ASSUME FlipTypes, NEW t \in Threads, EmptySteps(t)
  PROVE  FlipTypes'
<1>1. /\ flipFunction' = flipFunction /\ transitioning' = transitioning
      /\ threadFlipRunning' = threadFlipRunning
  BY ZenonT(40)
  DEF EmptySteps, ThreadListRunEmptyCheckpoint, RequestEmptyCheckpoint,
      EmptyTargetSuspended, EmptyRequestsDone, EmptyBarrierIncrement,
      EmptyBarrierReachesZero
<1> QED
  BY ZenonT(40), <1>1 DEF FlipTypes

-----------------------------------------------------------------------------

\* FlipThreadRoots: the flags of the thread flip stay Booleans.
LEMMA FlipStepsFlipTypes ==
  ASSUME FlipTypes, NEW t \in Threads, FlipSteps(t)
  PROVE  FlipTypes'
<1>1. CASE FlipThreadRoots(t)
  BY <1>1, ZenonT(40) DEF FlipThreadRoots, FlipTypes
<1>2. CASE FlipResumeRunnable(t)
  BY <1>2, ZenonT(40) DEF FlipResumeRunnable, LowerSuspendCounts, FlipTypes
<1>3. CASE ThreadFlipEnd(t)
  BY <1>3, ZenonT(40) DEF ThreadFlipEnd, FlipTypes
<1>4. ASSUME NEW u \in Threads, FlipOther(t, u)
      PROVE  FlipTypes'
  BY <1>4, ZenonT(40) DEF FlipOther, FlipTypes
<1>5. ASSUME \/ ThreadFlipBegun(t) \/ FlipSuspendAll(t) \/ FlipUnlockMutator(t)
             \/ FlipLockShared(t) \/ FlipUnlockShared(t) \/ FlipResumeOthers(t)
      PROVE  FlipTypes'
  <2>1. /\ flipFunction' = flipFunction /\ transitioning' = transitioning
        /\ threadFlipRunning' = threadFlipRunning
    BY ZenonT(40), <1>5
    DEF ThreadFlipBegun, FlipSuspendAll, EnterSuspendAllInternal,
        FlipUnlockMutator, FlipLockShared, FlipUnlockShared, FlipResumeOthers,
        LowerSuspendCounts
  <2> QED
    BY ZenonT(40), <2>1 DEF FlipTypes
<1> QED
  BY ZenonT(40), <1>1, <1>2, <1>3, <1>4, <1>5 DEF FlipSteps

-----------------------------------------------------------------------------

\* JNI critical sections: the flags of the thread flip stay Booleans.
LEMMA JniStepsFlipTypes ==
  ASSUME FlipTypes, NEW t \in Threads, JniSteps(t)
  PROVE  FlipTypes'
<1>1. /\ flipFunction' = flipFunction /\ transitioning' = transitioning
      /\ threadFlipRunning' = threadFlipRunning
  BY ZenonT(40)
  DEF JniSteps, EnterCritical, TransitionToSuspendedAndRunCheckpoints,
      EnterNestedCritical, IncrementDisableThreadFlip,
      EnterTransitionToRunnable, DecrementDisableThreadFlip
<1> QED
  BY ZenonT(40), <1>1 DEF FlipTypes

-----------------------------------------------------------------------------

\* Every step: the flags of the thread flip stay Booleans.
LEMMA FlipTypesPreserved ==
  ASSUME FlipTypes, NEW t \in Threads, AnyStep(t)
  PROVE  FlipTypes'
  BY ZenonT(40), TransitionStepsFlipTypes, SuspendAllStepsFlipTypes,
     ByIdStepsFlipTypes, AttachStepsFlipTypes, RunCheckpointStepsFlipTypes,
     SyncStepsFlipTypes, EmptyStepsFlipTypes, FlipStepsFlipTypes,
     JniStepsFlipTypes DEF AnyStep

=============================================================================
