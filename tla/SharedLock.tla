------------------------------ MODULE SharedLock ------------------------------
(***************************************************************************)
(* What a ReaderWriterMutex promises (the table above the class in         *)
(* runtime/base/mutex.h): it is free, held exclusively by one thread, or   *)
(* held shared by any number of threads.                                   *)
(***************************************************************************)
CONSTANT Threads

VARIABLES readers, writers

Init == readers = {} /\ writers = {}

SharedLock(t) ==
  /\ writers = {} /\ t \notin readers
  /\ readers' = readers \union {t} /\ writers' = writers

SharedUnlock(t) ==
  /\ t \in readers
  /\ readers' = readers \ {t} /\ writers' = writers

ExclusiveLock(t) ==
  /\ writers = {} /\ readers = {}
  /\ writers' = {t} /\ readers' = readers

ExclusiveUnlock(t) ==
  /\ writers = {t}
  /\ writers' = {} /\ readers' = readers

Next == \E t \in Threads : \/ SharedLock(t) \/ SharedUnlock(t)
                           \/ ExclusiveLock(t) \/ ExclusiveUnlock(t)

Spec == Init /\ [][Next]_<<readers, writers>>
=============================================================================
