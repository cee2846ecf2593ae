------------------------------- MODULE Mutex -------------------------------
(***************************************************************************)
(* What a gomp_mutex_t promises to the rest of libgomp: at most one thread *)
(* owns it, ownership is taken only when the mutex is free, and only the   *)
(* owner gives it up.  FutexMutex implements it.                           *)
(***************************************************************************)
CONSTANTS Threads,  \* the threads that use the mutex
          NoThread  \* the owner of a free mutex

VARIABLE owner

Init == owner = NoThread

Acquire(t) == owner = NoThread /\ owner' = t

Release(t) == owner = t /\ owner' = NoThread

Next == \E t \in Threads : Acquire(t) \/ Release(t)

Spec == Init /\ [][Next]_owner
=============================================================================
