----------------------------- MODULE Primitives -----------------------------
(***************************************************************************)
(* The mutex, the semaphore and the pointer lock for model checking: the   *)
(* threads use one of them.  They share no state.                          *)
(***************************************************************************)
EXTENDS FutexMutex, FutexSemaphore, PtrLock

VARIABLE used

vars == <<used, mutexVars, semVars, ptrVars>>

Init ==
  /\ used \in {"mutex", "semaphore", "ptrlock"}
  /\ MutexInit /\ SemInit /\ PtrInit

UseMutex == used = "mutex" /\ MutexNext /\ UNCHANGED <<used, semVars, ptrVars>>
UseSemaphore == used = "semaphore" /\ SemNext /\ UNCHANGED <<used, mutexVars, ptrVars>>
UsePtrlock == used = "ptrlock" /\ PtrNext /\ UNCHANGED <<used, mutexVars, semVars>>

Next == UseMutex \/ UseSemaphore \/ UsePtrlock

(* A primitive that is not used has no step that could be enabled.         *)
Spec == Init /\ [][Next]_vars /\ MutexFairness /\ SemFairness /\ PtrFairness

(* Nobody waits for ever: a caller of lock gets it, units posted are       *)
(* taken, and every caller of gomp_ptrlock_get is served.                  *)
CallersGoOn == LockMakesProgress /\ UnitsAreTaken /\ EveryoneServed
=============================================================================
