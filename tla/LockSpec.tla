------------------------------ MODULE LockSpec ------------------------------
(***************************************************************************)
(* What a mutex promises (rstd::sync::Mutex, src/std/src/sync/mutex.cppm):  *)
(* it passes from free to one owner and from its owner to free, in single   *)
(* steps, and never from one owner to another.                              *)
(***************************************************************************)
CONSTANT Threads

VARIABLE owner   \* the threads that have a MutexGuard

Init == owner = {}

Acquire(t) == owner = {} /\ owner' = {t}

Release(t) == owner = {t} /\ owner' = {}

Next == \E t \in Threads : Acquire(t) \/ Release(t)

Spec == Init /\ [][Next]_owner
=============================================================================
