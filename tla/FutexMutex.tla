----------------------------- MODULE FutexMutex -----------------------------
(***************************************************************************)
(* The Linux mutex of libgomp (config/linux/mutex.h, mutex.c, wait.h): an  *)
(* int that is 0 when free, 1 when locked and -1 when locked with possible *)
(* sleepers, and the futex system call.  Every atomic instruction and      *)
(* every system call is one step; a thread's position between two of them  *)
(* is mutexPc[t].                                                          *)
(*                                                                         *)
(*   "idle"    outside of the mutex operations, not owning the mutex       *)
(*   "spin"    in do_spin (mutex, 1) of the first loop of lock_slow        *)
(*   "setwait" spin timed out, about to exchange -1 into the mutex         *)
(*   "retry"   the spin saw a change, about to compare-and-exchange 0 -> 1 *)
(*   "fwait"   about to call futex_wait (mutex, -1)                        *)
(*   "sleep"   blocked in the kernel                                       *)
(*   "exch"    at the exchange that heads the second loop                  *)
(*   "dospin"  in do_wait's spin, in the body of the second loop           *)
(*   "cs"      owns the mutex                                              *)
(*   "wake"    unlocked it, about to call futex_wake (mutex, 1)            *)
(***************************************************************************)
EXTENDS Integers, Futex

CONSTANTS NoThread

ASSUME NoThreadAssumption == NoThread \notin Threads

VARIABLES mutex, mutexPc

mutexVars == <<mutex, mutexPc>>

MutexGoto(t, l) == mutexPc' = [mutexPc EXCEPT ![t] = l]

MutexInit == /\ mutex = 0                       \* gomp_mutex_init
             /\ mutexPc = [t \in Threads |-> "idle"]
-----------------------------------------------------------------------------
(* gomp_mutex_lock: the inline compare-and-exchange, and on failure the   *)
(* call of gomp_mutex_lock_slow with the value read.                       *)
Lock(t) ==
  /\ mutexPc[t] = "idle"
  /\ \/ mutex = 0  /\ mutex' = 1 /\ MutexGoto(t, "cs")
     \/ mutex = 1  /\ MutexGoto(t, "spin") /\ UNCHANGED mutex
     \/ mutex = -1 /\ MutexGoto(t, "exch") /\ UNCHANGED mutex

(* gomp_mutex_trylock: one compare-and-exchange, its failure changes nothing. *)
TryLock(t) ==
  /\ mutexPc[t] = "idle"
  /\ mutex = 0
  /\ mutex' = 1
  /\ MutexGoto(t, "cs")

(* do_spin (mutex, 1): returns 1 after the spin count (which may be 0, so  *)
(* without any read), or 0 as soon as a read differs from 1.               *)
MutexSpin(t) ==
  /\ mutexPc[t] = "spin"
  /\ \/ MutexGoto(t, "setwait")
     \/ mutex # 1 /\ MutexGoto(t, "retry")
  /\ UNCHANGED mutex

(* Spin timeout: exchange -1; a 0 read back means that we own the mutex.   *)
MutexSetWait(t) ==
  /\ mutexPc[t] = "setwait"
  /\ mutex' = -1
  /\ MutexGoto(t, IF mutex = 0 THEN "cs" ELSE "fwait")

MutRetry(t) == mutexPc[t] = "retry" /\ mutex' = 1 /\ MutexGoto(t, "cs")

(* Something changed: compare-and-exchange 0 -> 1; the value read decides  *)
(* whether the first loop goes on.                                         *)
Retry(t) ==
  /\ mutexPc[t] = "retry"
  /\ \/ mutex = 0  /\ mutex' = 1 /\ MutexGoto(t, "cs")
     \/ mutex = 1  /\ MutexGoto(t, "spin") /\ UNCHANGED mutex
     \/ mutex = -1 /\ MutexGoto(t, "exch") /\ UNCHANGED mutex

(* futex_wait (mutex, -1): the kernel compares and sleeps atomically.      *)
MutexFutexWait(t) ==
  /\ mutexPc[t] = "fwait"
  /\ MutexGoto(t, IF mutex = -1 THEN "sleep" ELSE "exch")
  /\ UNCHANGED mutex

(* futex_wait also returns on a signal.                                    *)
MutexInterrupted(t) ==
  /\ mutexPc[t] = "sleep"
  /\ MutexGoto(t, "exch")
  /\ UNCHANGED mutex

MutExchange(t) ==      \* exchanges 1 instead of -1
  /\ mutexPc[t] = "exch"
  /\ mutex' = 1
  /\ MutexGoto(t, IF mutex = 0 THEN "cs" ELSE "dospin")

(* The head of the second loop: exchange -1 until a 0 comes back.          *)
Exchange(t) ==
  /\ mutexPc[t] = "exch"
  /\ mutex' = -1
  /\ MutexGoto(t, IF mutex = 0 THEN "cs" ELSE "dospin")

(* do_wait (mutex, -1): its spin times out, or sees a change.              *)
MutexDoSpin(t) ==
  /\ mutexPc[t] = "dospin"
  /\ \/ MutexGoto(t, "fwait")
     \/ mutex # -1 /\ MutexGoto(t, "exch")
  /\ UNCHANGED mutex

(* gomp_mutex_unlock: exchange 0; a negative value asks for a wake-up.     *)
Unlock(t) ==
  /\ mutexPc[t] = "cs"
  /\ mutex' = 0
  /\ MutexGoto(t, IF mutex < 0 THEN "wake" ELSE "idle")

(* gomp_mutex_unlock_slow: futex_wake (mutex, 1) wakes one sleeper, if any. *)
MutexFutexWake(t) ==
  /\ mutexPc[t] = "wake"
  /\ \/ \E s \in Threads :
          /\ mutexPc[s] = "sleep"
          /\ mutexPc' = [mutexPc EXCEPT ![s] = "exch", ![t] = "idle"]
     \/ (\A s \in Threads : mutexPc[s] # "sleep") /\ MutexGoto(t, "idle")
  /\ UNCHANGED mutex

(* What a thread does once it has begun an operation.                      *)
MutexStep(t) == \/ MutexSpin(t) \/ MutexSetWait(t) \/ Retry(t) \/ MutexFutexWait(t)
                \/ Exchange(t) \/ MutexDoSpin(t) \/ Unlock(t) \/ MutexFutexWake(t)

MutexNext ==
  \E t \in Threads : Lock(t) \/ TryLock(t) \/ MutexInterrupted(t) \/ MutexStep(t)

(* A thread that is runnable runs, and an owner eventually unlocks.  No    *)
(* fairness for starting an operation or for a signal to arrive.           *)
MutexFairness == \A t \in Threads : WF_mutexVars(MutexStep(t))

MutexSpec == MutexInit /\ [][MutexNext]_mutexVars
-----------------------------------------------------------------------------
MutexLabels == {"idle", "spin", "setwait", "retry", "fwait", "sleep", "exch",
                "dospin", "cs", "wake"}

MutexTypeOK == /\ mutex \in {-1, 0, 1}
               /\ mutexPc \in [Threads -> MutexLabels]

(* Mutual exclusion: of the threads inside gomp_mutex_lock's and           *)
(* gomp_mutex_unlock's bracket there is at most one, whichever of the four *)
(* instructions that can take the mutex each of them used.                 *)
MutualExclusion ==
  \A s, t \in Threads : mutexPc[s] = "cs" /\ mutexPc[t] = "cs" => s = t

(* The word tells the truth: it is 0 exactly when nobody owns the mutex.   *)
WordIsTruthful == mutex = 0 <=> \A t \in Threads : mutexPc[t] # "cs"

(* "We always exit this loop with wait flag set, so next unlock will       *)
(* awaken a thread" (mutex.c): whenever a thread sleeps, the word is -1,   *)
(* or a thread is already on its way to wake it or to set -1 again, even   *)
(* though the fast path may have overwritten 0 by 1 in between.            *)
MutexWakerInFlight ==
  \E t \in Threads : mutexPc[t] \in {"wake", "exch", "fwait", "dospin"}

NoLostUnlock ==
  (\E t \in Threads : mutexPc[t] = "sleep") => mutex = -1 \/ MutexWakerInFlight

(* The mutex this module implements: its owner is the thread in "cs".      *)
owner == IF \E t \in Threads : mutexPc[t] = "cs"
         THEN CHOOSE t \in Threads : mutexPc[t] = "cs"
         ELSE NoThread

M == INSTANCE Mutex

ImplementsMutex == M!Spec

(* Deadlock freedom: when a thread is in gomp_mutex_lock, the mutex is     *)
(* taken again, even if no other thread ever starts a further operation.   *)
Contending == \E t \in Threads :
                mutexPc[t] \notin {"idle", "cs", "wake"}

LockMakesProgress == Contending ~> (\E t \in Threads : mutexPc[t] = "cs")
=============================================================================
