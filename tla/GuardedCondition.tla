--------------------------- MODULE GuardedCondition ---------------------------
(***************************************************************************)
(* What a Mutex and a ConditionVariable guarded by it promise their        *)
(* callers (the comments of runtime/base/mutex.h): the mutex has one       *)
(* holder at a time; a wait gives the mutex up and starts to wait in one   *)
(* step; a Signal ends the wait of at least one waiter, if there is one; a *)
(* Broadcast ends the wait of all.  A wait may also end for no reason.     *)
(***************************************************************************)
CONSTANT Threads

VARIABLES
  holders,    \* the threads that hold the mutex
  waitset,    \* the threads whose wait has not ended
  returning,  \* the threads whose wait has ended, not yet holding the mutex
  calling     \* the call of Signal or Broadcast a thread is in, or "none"

condVars == <<holders, waitset, returning, calling>>

Init ==
  /\ holders = {} /\ waitset = {} /\ returning = {}
  /\ calling = [t \in Threads |-> "none"]

Lock(t) ==
  /\ holders = {}
  /\ t \notin waitset \union returning
  /\ holders' = {t}
  /\ UNCHANGED <<waitset, returning, calling>>

Unlock(t) ==
  /\ holders = {t} /\ calling[t] = "none"
  /\ holders' = {}
  /\ UNCHANGED <<waitset, returning, calling>>

Wait(t) ==
  /\ holders = {t} /\ calling[t] = "none"
  /\ holders' = {}
  /\ waitset' = waitset \union {t}
  /\ UNCHANGED <<returning, calling>>

\* The waits of S end.
EndWaits(S) ==
  /\ waitset' = waitset \ S
  /\ returning' = returning \union S

\* A wait ends without a call: a signal sent to the thread, a timeout, or a
\* call that is still going on.
EndForNoReason ==
  /\ \E S \in SUBSET waitset : EndWaits(S)
  /\ UNCHANGED <<holders, calling>>

ReturnFromWait(t) ==
  /\ holders = {} /\ t \in returning
  /\ holders' = {t}
  /\ returning' = returning \ {t}
  /\ UNCHANGED <<waitset, calling>>

Call(t, f) ==
  /\ holders = {t} /\ calling[t] = "none"
  /\ calling' = [calling EXCEPT ![t] = f]
  /\ UNCHANGED <<holders, waitset, returning>>

\* Signal returns.
SignalReturns(t) ==
  /\ calling[t] = "Signal"
  /\ \E S \in SUBSET waitset : (waitset = {} \/ S # {}) /\ EndWaits(S)
  /\ calling' = [calling EXCEPT ![t] = "none"]
  /\ UNCHANGED holders

\* Broadcast returns.
BroadcastReturns(t) ==
  /\ calling[t] = "Broadcast"
  /\ EndWaits(waitset)
  /\ calling' = [calling EXCEPT ![t] = "none"]
  /\ UNCHANGED holders

Next ==
  \/ EndForNoReason
  \/ \E t \in Threads :
       \/ Lock(t) \/ Unlock(t) \/ Wait(t) \/ ReturnFromWait(t)
       \/ Call(t, "Signal") \/ Call(t, "Broadcast")
       \/ SignalReturns(t) \/ BroadcastReturns(t)

Spec == Init /\ [][Next]_condVars
=============================================================================
