------------------------------ MODULE PtrLock ------------------------------
(***************************************************************************)
(* The Linux pointer lock of libgomp (config/linux/ptrlock.h, ptrlock.c):  *)
(* a word that is 0, 1 (owned: somebody will write a pointer), 2 (owned,   *)
(* and threads may be sleeping) or a pointer.                              *)
(*                                                                         *)
(*   "idle"  not yet in gomp_ptrlock_get                                   *)
(*   "cas"   the load found no pointer, about to exchange 0 by 1           *)
(*   "slow"  in gomp_ptrlock_get_slow, about to exchange 1 by 2            *)
(*   "spin"  in do_wait (intptr, 2)                                        *)
(*   "fwait" about to call futex_wait (intptr, 2), "sleep" in it           *)
(*   "test"  about to repeat the loop if the word is still 2               *)
(*   "load"  about to load the pointer and return it                       *)
(*   "owner" got NULL, has to call gomp_ptrlock_set                        *)
(*   "wake"  in gomp_ptrlock_set_slow                                      *)
(*   "done"  gomp_ptrlock_get, and _set if it is the owner, has returned   *)
(***************************************************************************)
EXTENDS Integers, Futex

CONSTANTS Pointers

(* A pointer is not null and at least 8-byte aligned.                      *)
ASSUME PtrAssumption == Pointers \subseteq Nat \ {0, 1, 2}

VARIABLES ptrlock, ptrPc, result

ptrVars == <<ptrlock, ptrPc, result>>

NULL == 0
Pending == -1                  \* no answer yet

IsPtr(v) == v > 2

PtrGoto(t, l) == ptrPc' = [ptrPc EXCEPT ![t] = l]
Return(t, v, l) == result' = [result EXCEPT ![t] = v] /\ PtrGoto(t, l)

PtrInit == /\ ptrlock = NULL                             \* gomp_ptrlock_init
           /\ ptrPc = [t \in Threads |-> "idle"]
           /\ result = [t \in Threads |-> Pending]
-----------------------------------------------------------------------------
Get(t) ==
  /\ ptrPc[t] = "idle"
  /\ IF IsPtr(ptrlock) THEN Return(t, ptrlock, "done")
                       ELSE PtrGoto(t, "cas") /\ UNCHANGED result
  /\ UNCHANGED ptrlock

MutClaim(t) ==                 \* takes an owned lock over
  /\ ptrPc[t] = "cas"
  /\ IF ptrlock \in {0, 1} THEN ptrlock' = 1 /\ Return(t, NULL, "owner")
                    ELSE PtrGoto(t, "slow") /\ UNCHANGED <<ptrlock, result>>

Claim(t) ==
  /\ ptrPc[t] = "cas"
  /\ IF ptrlock = 0 THEN ptrlock' = 1 /\ Return(t, NULL, "owner")
                    ELSE PtrGoto(t, "slow") /\ UNCHANGED <<ptrlock, result>>

(* The exchange fails if others wait already or the pointer is there.      *)
Slow(t) ==
  /\ ptrPc[t] = "slow"
  /\ ptrlock' = IF ptrlock = 1 THEN 2 ELSE ptrlock
  /\ PtrGoto(t, "spin")
  /\ UNCHANGED result

PtrSpin(t) ==
  /\ ptrPc[t] = "spin"
  /\ \/ PtrGoto(t, "fwait")
     \/ ptrlock # 2 /\ PtrGoto(t, "test")
  /\ UNCHANGED <<ptrlock, result>>

PtrFutexWait(t) ==
  /\ ptrPc[t] = "fwait"
  /\ PtrGoto(t, IF ptrlock = 2 THEN "sleep" ELSE "test")
  /\ UNCHANGED <<ptrlock, result>>

(* futex_wait also returns on a signal.                                    *)
PtrInterrupted(t) ==
  /\ ptrPc[t] = "sleep"
  /\ PtrGoto(t, "test")
  /\ UNCHANGED <<ptrlock, result>>

Test(t) ==
  /\ ptrPc[t] = "test"
  /\ PtrGoto(t, IF ptrlock = 2 THEN "spin" ELSE "load")
  /\ UNCHANGED <<ptrlock, result>>

Load(t) ==
  /\ ptrPc[t] = "load"
  /\ Return(t, ptrlock, "done")
  /\ UNCHANGED ptrlock

(* gomp_ptrlock_set: wakes the waiting threads unless the word was 1.      *)
Set(t, p) ==
  /\ ptrPc[t] = "owner"
  /\ ptrlock' = p
  /\ PtrGoto(t, IF ptrlock = 1 THEN "done" ELSE "wake")
  /\ UNCHANGED result

(* futex_wake (intptr, INT_MAX): everybody who sleeps.                     *)
PtrFutexWake(t) ==
  /\ ptrPc[t] = "wake"
  /\ ptrPc' = [s \in Threads |-> IF s = t THEN "done"
                              ELSE IF ptrPc[s] = "sleep" THEN "test" ELSE ptrPc[s]]
  /\ UNCHANGED <<ptrlock, result>>

PtrStep(t) == \/ Claim(t) \/ Slow(t) \/ PtrSpin(t) \/ PtrFutexWait(t) \/ Test(t) \/ Load(t)
              \/ (\E p \in Pointers : Set(t, p)) \/ PtrFutexWake(t)

PtrNext == \E t \in Threads : Get(t) \/ PtrInterrupted(t) \/ PtrStep(t)

PtrSpec == PtrInit /\ [][PtrNext]_ptrVars

(* A thread inside an operation goes on, and the owner sets the pointer.   *)
PtrFairness == \A t \in Threads : WF_ptrVars(PtrStep(t))
-----------------------------------------------------------------------------
PtrLabels == {"idle", "cas", "slow", "spin", "fwait", "sleep", "test", "load",
              "owner", "wake", "done"}

PtrTypeOK == /\ ptrlock \in {0, 1, 2} \cup Pointers
             /\ ptrPc \in [Threads -> PtrLabels]
             /\ result \in [Threads -> {Pending, NULL} \cup Pointers]

value == IF IsPtr(ptrlock) THEN ptrlock ELSE NULL

P == INSTANCE PublishOnce

(* One thread is told to provide the pointer and every other one gets the  *)
(* pointer it provides: never a 1, a 2 or a null pointer.                  *)
ImplementsPublishOnce == P!Spec

(* A thread that sleeps or is about to is seen by the owner: the word is 2 *)
(* or the wake-up is still to come.                                        *)
NoLostSet ==
  \A t \in Threads : ptrPc[t] = "sleep" => ptrlock = 2 \/ \E s \in Threads : ptrPc[s] = "wake"

(* Whoever asks for the pointer gets an answer.                            *)
EveryoneServed == \A t \in Threads : ptrPc[t] # "idle" ~> ptrPc[t] = "done"
=============================================================================
