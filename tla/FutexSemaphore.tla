--------------------------- MODULE FutexSemaphore ---------------------------
(***************************************************************************)
(* The Linux semaphore of libgomp (config/linux/sem.h, sem.c): an int      *)
(* whose low 31 bits are a count (n) and whose top bit, SEM_WAIT, says     *)
(* that threads may be sleeping (w).  A loop that only repeats a           *)
(* compare-and-exchange until it succeeds is one step; elsewhere the value *)
(* read earlier is the local variable count, here seen[t].                 *)
(*                                                                         *)
(*   "idle"    in no operation                                             *)
(*   "spin"    in do_spin (sem, 0) of the first loop                       *)
(*   "setwait" spin timed out, about to exchange 0 by SEM_WAIT             *)
(*   "reread"  about to read the word in the first loop                    *)
(*   "take"    read a count without SEM_WAIT, about to decrement it        *)
(*   "second"  at the compare-and-exchange of the second loop              *)
(*   "dospin"  in do_wait (sem, SEM_WAIT) of the second loop               *)
(*   "fwait"   about to call futex_wait (sem, SEM_WAIT), "sleep" in it     *)
(*   "wake"    about to call futex_wake (sem, 1)                           *)
(***************************************************************************)
EXTENDS Integers, Futex

CONSTANTS Value,
          MaxCount             \* bound on the count, far below 2^31

ASSUME SemAssumption == Value \in Nat /\ MaxCount \in Nat /\ Value <= MaxCount

VARIABLES sem, semPc, seen

semVars == <<sem, semPc, seen>>

Word == [n : Nat, w : BOOLEAN]

Zero == [n |-> 0, w |-> FALSE]
WaitFlag == [n |-> 0, w |-> TRUE]

SemGoto(t, l) == semPc' = [semPc EXCEPT ![t] = l]

SemInit == /\ sem = [n |-> Value, w |-> FALSE]           \* gomp_sem_init
           /\ semPc = [t \in Threads |-> "idle"]
           /\ seen = [t \in Threads |-> Zero]
-----------------------------------------------------------------------------
(* gomp_sem_wait: decrement a positive count, whatever the flag, or enter  *)
(* gomp_sem_wait_slow, whose first loop runs only if the word was 0.       *)
Wait(t) ==
  /\ semPc[t] = "idle"
  /\ \/ sem.n > 0 /\ sem' = [sem EXCEPT !.n = @ - 1] /\ UNCHANGED semPc
     \/ sem = Zero /\ SemGoto(t, "spin") /\ UNCHANGED sem
     \/ sem = WaitFlag /\ SemGoto(t, "second") /\ UNCHANGED sem
  /\ UNCHANGED seen

SemSpin(t) ==
  /\ semPc[t] = "spin"
  /\ \/ SemGoto(t, "setwait")
     \/ sem # Zero /\ SemGoto(t, "reread")
  /\ UNCHANGED <<sem, seen>>

SemSetWait(t) ==
  /\ semPc[t] = "setwait"
  /\ \/ sem = Zero /\ sem' = WaitFlag /\ SemGoto(t, "fwait")
     \/ sem # Zero /\ UNCHANGED sem /\ SemGoto(t, "reread")
  /\ UNCHANGED seen

(* "Something changed.  If it wasn't the wait flag, we're good to go."     *)
Reread(t) ==
  /\ semPc[t] = "reread"
  /\ \/ /\ sem.n > 0 /\ ~sem.w
        /\ seen' = [seen EXCEPT ![t] = sem]
        /\ SemGoto(t, "take")
     \/ /\ sem.n = 0 \/ sem.w
        /\ SemGoto(t, IF sem = Zero THEN "spin" ELSE "second")
        /\ UNCHANGED seen
  /\ UNCHANGED sem

Take(t) ==
  /\ semPc[t] = "take"
  /\ \/ sem = seen[t] /\ sem' = [sem EXCEPT !.n = @ - 1] /\ SemGoto(t, "idle")
     \/ sem # seen[t] /\ UNCHANGED sem /\ SemGoto(t, IF sem = Zero THEN "spin" ELSE "second")
  /\ seen' = [seen EXCEPT ![t] = Zero]

MutSecond(t) ==                \* leaves SEM_WAIT as it is
  /\ semPc[t] = "second"
  /\ \/ /\ sem.n > 0
        /\ sem' = [sem EXCEPT !.n = @ - 1]
        /\ SemGoto(t, IF sem.n > 1 THEN "wake" ELSE "idle")
     \/ sem.n = 0 /\ sem' = WaitFlag /\ SemGoto(t, "dospin")
  /\ UNCHANGED seen

MutSecondNoWake(t) ==          \* does not pass the wake-up on
  /\ semPc[t] = "second"
  /\ \/ sem.n > 0 /\ sem' = [n |-> sem.n - 1, w |-> TRUE] /\ SemGoto(t, "idle")
     \/ sem.n = 0 /\ sem' = WaitFlag /\ SemGoto(t, "dospin")
  /\ UNCHANGED seen

(* The second loop: take a unit and leave SEM_WAIT set, "if we can wake    *)
(* more threads, do so now"; without a unit set SEM_WAIT and wait.         *)
Second(t) ==
  /\ semPc[t] = "second"
  /\ \/ /\ sem.n > 0
        /\ sem' = [n |-> sem.n - 1, w |-> TRUE]
        /\ SemGoto(t, IF sem.n > 1 THEN "wake" ELSE "idle")
     \/ sem.n = 0 /\ sem' = WaitFlag /\ SemGoto(t, "dospin")
  /\ UNCHANGED seen

SemDoSpin(t) ==
  /\ semPc[t] = "dospin"
  /\ \/ SemGoto(t, "fwait")
     \/ sem # WaitFlag /\ SemGoto(t, "second")
  /\ UNCHANGED <<sem, seen>>

SemFutexWait(t) ==
  /\ semPc[t] = "fwait"
  /\ SemGoto(t, IF sem = WaitFlag THEN "sleep" ELSE "second")
  /\ UNCHANGED <<sem, seen>>

(* futex_wait also returns on a signal.                                    *)
SemInterrupted(t) ==
  /\ semPc[t] = "sleep"
  /\ SemGoto(t, "second")
  /\ UNCHANGED <<sem, seen>>

MutPost(t) ==                  \* a lost increment
  /\ semPc[t] = "idle" /\ sem.n < MaxCount
  /\ sem' = [n |-> IF sem.w THEN sem.n + 2 ELSE sem.n + 1, w |-> FALSE]
  /\ SemGoto(t, IF sem.w THEN "wake" ELSE "idle")
  /\ UNCHANGED seen

(* gomp_sem_post: increment and clear SEM_WAIT.                            *)
Post(t) ==
  /\ semPc[t] = "idle" /\ sem.n < MaxCount
  /\ sem' = [n |-> sem.n + 1, w |-> FALSE]
  /\ SemGoto(t, IF sem.w THEN "wake" ELSE "idle")
  /\ UNCHANGED seen

(* gomp_sem_post_slow: futex_wake (sem, 1).                                *)
SemFutexWake(t) ==
  /\ semPc[t] = "wake"
  /\ \/ \E s \in Threads : /\ semPc[s] = "sleep"
                           /\ semPc' = [semPc EXCEPT ![s] = "second", ![t] = "idle"]
     \/ (\A s \in Threads : semPc[s] # "sleep") /\ SemGoto(t, "idle")
  /\ UNCHANGED <<sem, seen>>

SemStep(t) == \/ SemSpin(t) \/ SemSetWait(t) \/ Reread(t) \/ Take(t) \/ Second(t)
              \/ SemDoSpin(t) \/ SemFutexWait(t) \/ SemFutexWake(t)

SemNext == \E t \in Threads : Wait(t) \/ Post(t) \/ SemInterrupted(t) \/ SemStep(t)

SemSpec == SemInit /\ [][SemNext]_semVars

(* A thread inside an operation goes on; nobody need start one.            *)
SemFairness == \A t \in Threads : WF_semVars(SemStep(t))
-----------------------------------------------------------------------------
SemLabels == {"idle", "spin", "setwait", "reread", "take", "second", "dospin",
              "fwait", "sleep", "wake"}

SemTypeOK == sem \in Word /\ semPc \in [Threads -> SemLabels] /\ seen \in [Threads -> Word]

(* Who will see to it that a sleeper learns of a unit: a thread about to   *)
(* wake one, or a waiting thread that is awake and will leave SEM_WAIT set *)
(* or pass the wake-up on.                                                 *)
SemWakerInFlight == \E t \in Threads : semPc[t] \in {"wake", "second", "dospin", "fwait"}

(* "If there are waiting threads then when one is awoken it will set       *)
(* SEM_WAIT again, so other waiting threads are woken on a future          *)
(* gomp_sem_post" (sem.h): while a thread sleeps the flag is set or will   *)
(* be, and no unit is left lying beside a sleeper.                         *)
NoLostPost ==
  (\E t \in Threads : semPc[t] = "sleep") => (sem = WaitFlag \/ SemWakerInFlight)

S == INSTANCE Semaphore WITH count <- sem.n

(* The semaphore counts: whatever path it takes, a wait that returns has   *)
(* taken exactly one unit, and a post adds exactly one.                    *)
ImplementsSemaphore == S!Spec

(* A unit never lies beside a waiting thread for ever.                     *)
InWait(t) == semPc[t] \notin {"idle", "wake"}

UnitsAreTaken ==
  (sem.n > 0 /\ \E t \in Threads : InWait(t)) ~> (sem.n = 0 \/ \A t \in Threads : ~InWait(t))
=============================================================================
