-------------------------- MODULE PrimitivesProofs --------------------------
(***************************************************************************)
(* Proofs about the futex mutex, the futex semaphore and the pointer lock, *)
(* each for any set of threads.  They share no state and each is proved    *)
(* about its own specification.                                            *)
(***************************************************************************)
EXTENDS Primitives, TLAPS
-----------------------------------------------------------------------------
(***************************************************************************)
(* The mutex: its safety properties, and that it implements Mutex.         *)
(* MutualExclusion is not inductive alone: a step that takes the mutex     *)
(* reads 0 from the word, so the word must be known to be truthful.        *)
(***************************************************************************)
MutexIInv == MutexTypeOK /\ WordIsTruthful /\ MutualExclusion

LEMMA MutexInitIInv == MutexInit => MutexIInv
BY DEF MutexInit, MutexIInv, MutexTypeOK, MutexLabels, WordIsTruthful, MutualExclusion

(* Each step of one thread keeps MutexIInv: it takes the mutex only from 0, and *)
(* leaves "cs" only by writing 0.                                          *)
LEMMA MutexNextIInv == MutexIInv /\ [MutexNext]_mutexVars => MutexIInv'
<1> USE DEF MutexIInv, MutexTypeOK, MutexLabels, WordIsTruthful, MutualExclusion, MutexGoto
<1>1. CASE UNCHANGED mutexVars
  BY <1>1 DEF mutexVars
<1>2. ASSUME MutexIInv, NEW t \in Threads, Lock(t) \/ TryLock(t) PROVE MutexIInv'
  BY <1>2 DEF Lock, TryLock
<1>3. ASSUME MutexIInv, NEW t \in Threads, MutexSpin(t) \/ Retry(t) PROVE MutexIInv'
  BY <1>3 DEF MutexSpin, Retry
<1>4. ASSUME MutexIInv, NEW t \in Threads, MutexSetWait(t) \/ Exchange(t) PROVE MutexIInv'
  BY <1>4 DEF MutexSetWait, Exchange
<1>5. ASSUME MutexIInv, NEW t \in Threads,
             MutexFutexWait(t) \/ MutexDoSpin(t) \/ MutexInterrupted(t) PROVE MutexIInv'
  BY <1>5 DEF MutexFutexWait, MutexDoSpin, MutexInterrupted
<1>6. ASSUME MutexIInv, NEW t \in Threads, Unlock(t) PROVE MutexIInv'
  BY <1>6 DEF Unlock
<1>7. ASSUME MutexIInv, NEW t \in Threads, MutexFutexWake(t) PROVE MutexIInv'
  BY <1>7 DEF MutexFutexWake
<1>8. QED
  BY <1>1, <1>2, <1>3, <1>4, <1>5, <1>6, <1>7 DEF MutexNext, MutexStep

(* In every behaviour of gomp_mutex_lock, trylock and unlock, by any       *)
(* number of threads, the word is well formed, truthful, and owned by at   *)
(* most one thread.                                                        *)
THEOREM MutexSafety == MutexSpec => [](MutexTypeOK /\ WordIsTruthful /\ MutualExclusion)
<1>1. MutexSpec => []MutexIInv
  BY MutexInitIInv, MutexNextIInv, PTL DEF MutexSpec
<1>2. QED
  BY <1>1, PTL DEF MutexIInv

-----------------------------------------------------------------------------
(* A wake-up is never lost: from futex_wait's atomic comparison, and       *)
(* because whoever is woken writes -1 again before it sleeps or returns.   *)
LEMMA NextNoLostUnlock ==
  MutexIInv /\ NoLostUnlock /\ [MutexNext]_mutexVars => NoLostUnlock'
<1> USE DEF MutexIInv, MutexTypeOK, MutexLabels, NoLostUnlock, MutexWakerInFlight, MutexGoto
<1>1. CASE UNCHANGED mutexVars
  BY <1>1 DEF mutexVars
<1>2. ASSUME MutexIInv, NoLostUnlock, NEW t \in Threads, Lock(t) \/ TryLock(t)
      PROVE  NoLostUnlock'
  BY <1>2 DEF Lock, TryLock
<1>3. ASSUME MutexIInv, NoLostUnlock, NEW t \in Threads, MutexSpin(t) \/ Retry(t)
      PROVE  NoLostUnlock'
  BY <1>3 DEF MutexSpin, Retry
<1>4. ASSUME MutexIInv, NoLostUnlock, NEW t \in Threads,
             MutexSetWait(t) \/ Exchange(t) \/ MutexFutexWait(t)
      PROVE  NoLostUnlock'
  BY <1>4 DEF MutexSetWait, Exchange, MutexFutexWait
<1>5. ASSUME MutexIInv, NoLostUnlock, NEW t \in Threads, MutexDoSpin(t) \/ MutexInterrupted(t)
      PROVE  NoLostUnlock'
  BY <1>5 DEF MutexDoSpin, MutexInterrupted
<1>6. ASSUME MutexIInv, NoLostUnlock, NEW t \in Threads, Unlock(t)
      PROVE  NoLostUnlock'
  BY <1>6 DEF Unlock
<1>7. ASSUME MutexIInv, NoLostUnlock, NEW t \in Threads, MutexFutexWake(t)
      PROVE  NoLostUnlock'
  BY <1>7 DEF MutexFutexWake
<1>8. QED
  BY <1>1, <1>2, <1>3, <1>4, <1>5, <1>6, <1>7 DEF MutexNext, MutexStep

(* For any number of threads, a sleeper of futex_wait always has the wait  *)
(* flag set, or a thread under way that will set it or wake a sleeper.     *)
THEOREM MutexNoLostWakeup == MutexSpec => []NoLostUnlock
<1>1. MutexInit => NoLostUnlock
  BY DEF MutexInit, NoLostUnlock
<1>2. MutexSpec => []MutexIInv
  BY MutexInitIInv, MutexNextIInv, PTL DEF MutexSpec
<1>3. QED
  BY <1>1, <1>2, NextNoLostUnlock, PTL DEF MutexSpec

-----------------------------------------------------------------------------
(* The thread in "cs", when there is one, is the owner.                    *)
LEMMA OwnerFacts ==
  ASSUME MutexIInv
  PROVE  /\ \A t \in Threads : mutexPc[t] = "cs" => owner = t
         /\ (\A t \in Threads : mutexPc[t] # "cs") => owner = NoThread
BY DEF owner, MutexIInv, MutualExclusion

(* The same fact in the successor state.                                   *)
LEMMA OwnerFactsNext ==
  ASSUME MutexIInv'
  PROVE  /\ \A t \in Threads : mutexPc'[t] = "cs" => owner' = t
         /\ (\A t \in Threads : mutexPc'[t] # "cs") => owner' = NoThread
BY DEF owner, MutexIInv, MutualExclusion

(* Every step is an Acquire, a Release or a stutter of the abstract mutex. *)
LEMMA MutexNextRefines == MutexIInv /\ MutexIInv' /\ [MutexNext]_mutexVars => [M!Next]_owner
<1> SUFFICES ASSUME MutexIInv, MutexIInv', [MutexNext]_mutexVars PROVE [M!Next]_owner
  OBVIOUS
<1> USE OwnerFacts, OwnerFactsNext, NoThreadAssumption
    DEF MutexIInv, MutexTypeOK, WordIsTruthful, MutexGoto
<1>1. CASE UNCHANGED mutexVars
  BY <1>1 DEF mutexVars, owner
<1>2. ASSUME NEW t \in Threads, mutex = 0, mutexPc[t] # "cs",
             mutexPc' = [mutexPc EXCEPT ![t] = "cs"]
      PROVE  M!Next
  <2>1. owner = NoThread /\ owner' = t
    BY <1>2
  <2>2. QED
    BY <2>1 DEF M!Next, M!Acquire
<1>3. ASSUME NEW t \in Threads, Unlock(t) PROVE M!Next
  <2>1. owner = t
    BY <1>3 DEF Unlock
  <2>2. \A s \in Threads : mutexPc'[s] # "cs"
    BY <1>3 DEF Unlock
  <2>3. QED
    BY <2>1, <2>2 DEF M!Next, M!Release
<1>4. ASSUME NEW t \in Threads,
             \A s \in Threads : mutexPc[s] = "cs" <=> mutexPc'[s] = "cs"
      PROVE  UNCHANGED owner
  <2>1. CASE \E s \in Threads : mutexPc[s] = "cs"
    BY <2>1, <1>4
  <2>2. CASE \A s \in Threads : mutexPc[s] # "cs"
    BY <2>2, <1>4
  <2>3. QED
    BY <2>1, <2>2
<1>5. ASSUME NEW t \in Threads,
             Lock(t) \/ TryLock(t) \/ Retry(t) \/ MutexSetWait(t) \/ Exchange(t)
      PROVE  M!Next \/ UNCHANGED owner
  <2>1. CASE mutex = 0
    BY <1>2, <1>5, <2>1 DEF Lock, TryLock, Retry, MutexSetWait, Exchange
  <2>2. CASE mutex # 0
    BY <1>4, <1>5, <2>2 DEF Lock, TryLock, Retry, MutexSetWait, Exchange
  <2>3. QED
    BY <2>1, <2>2
<1>6. ASSUME NEW t \in Threads,
             MutexSpin(t) \/ MutexFutexWait(t) \/ MutexInterrupted(t) \/ MutexDoSpin(t) \/ MutexFutexWake(t)
      PROVE  UNCHANGED owner
  BY <1>4, <1>6 DEF MutexSpin, MutexFutexWait, MutexInterrupted, MutexDoSpin, MutexFutexWake
<1>7. QED
  BY <1>1, <1>3, <1>5, <1>6 DEF MutexNext, MutexStep

(* The futex mutex implements the abstract one, for any set of threads.    *)
THEOREM MutexRefinement == MutexSpec => ImplementsMutex
<1>1. MutexInit => M!Init
  BY DEF MutexInit, M!Init, owner
<1>2. MutexSpec => []MutexIInv
  BY MutexInitIInv, MutexNextIInv, PTL DEF MutexSpec
<1>3. QED
  BY <1>1, <1>2, MutexNextRefines, PTL DEF MutexSpec, ImplementsMutex, M!Spec
-----------------------------------------------------------------------------
(***************************************************************************)
(* The semaphore, for any initial value and any bound on the count: it     *)
(* counts, and no wake-up is lost.                                         *)
(***************************************************************************)
(* A thread about to decrement has read a positive count: without this the *)
(* compare-and-exchange of the first loop could take a unit that is not    *)
(* there.                                                                  *)
TakeSeesAUnit == \A t \in Threads : semPc[t] = "take" => seen[t].n > 0

SemIInv == SemTypeOK /\ TakeSeesAUnit /\ NoLostPost

LEMMA SemInitIInv == SemInit => SemIInv
  BY SemAssumption
  DEF SemInit, SemIInv, SemTypeOK, TakeSeesAUnit, NoLostPost, Word, Zero, SemLabels

(* The type invariant, with the fact about pending decrements.             *)
LEMMA SemNextTyped ==
  SemTypeOK /\ TakeSeesAUnit /\ [SemNext]_semVars => SemTypeOK' /\ TakeSeesAUnit'
<1> SUFFICES ASSUME SemTypeOK, TakeSeesAUnit, [SemNext]_semVars
             PROVE  SemTypeOK' /\ TakeSeesAUnit'
  OBVIOUS
<1> USE DEF SemTypeOK, TakeSeesAUnit, Word, SemLabels, SemGoto, Zero, WaitFlag
<1>0. WaitFlag \in Word
  BY 0 \in Nat, TRUE \in BOOLEAN, Zenon
<1>1. CASE UNCHANGED semVars
  BY <1>1 DEF semVars
<1>2. ASSUME NEW t \in Threads, Wait(t) PROVE SemTypeOK' /\ TakeSeesAUnit'
  BY <1>2 DEF Wait
<1>3. ASSUME NEW t \in Threads, Post(t) PROVE SemTypeOK' /\ TakeSeesAUnit'
  <2>1. sem' \in Word
    BY <1>3 DEF Post
  <2>2. /\ semPc' \in [Threads -> SemLabels]
        /\ semPc' = [semPc EXCEPT ![t] = semPc'[t]] /\ semPc'[t] # "take"
    BY <1>3 DEF Post
  <2>3. QED
    BY <1>3, <2>1, <2>2 DEF Post
<1>4. ASSUME NEW t \in Threads, Take(t) PROVE SemTypeOK' /\ TakeSeesAUnit'
  <2>1. sem' \in Word
    <3>1. seen[t].n > 0 /\ sem.n \in Nat /\ sem.w \in BOOLEAN
      BY <1>4 DEF Take
    <3>2. CASE sem = seen[t]
      <4>1. sem' = [sem EXCEPT !.n = sem.n - 1] /\ sem.n - 1 \in Nat
        BY <1>4, <3>1, <3>2 DEF Take
      <4>2. QED
        BY <4>1
    <3>3. CASE sem # seen[t]
      BY <1>4, <3>3 DEF Take
    <3>4. QED
      BY <3>2, <3>3
  <2>2. semPc' \in [Threads -> SemLabels] /\ semPc' = [semPc EXCEPT ![t] = semPc'[t]] /\ semPc'[t] # "take"
    BY <1>4 DEF Take
  <2>3. seen' \in [Threads -> Word] /\ seen' = [seen EXCEPT ![t] = Zero]
    BY <1>4 DEF Take
  <2>4. QED
    BY <2>1, <2>2, <2>3
<1>5. ASSUME NEW t \in Threads, Second(t) PROVE SemTypeOK' /\ TakeSeesAUnit'
  <2>1. sem' \in Word
    <3>1. CASE sem.n > 0
      <4>1. sem' = [n |-> sem.n - 1, w |-> TRUE] /\ sem.n - 1 \in Nat
        BY <1>5, <3>1 DEF Second
      <4>2. QED
        BY <4>1
    <3>2. sem.n = 0 => sem' = WaitFlag
      BY <1>5 DEF Second
    <3>3. sem.n = 0 \/ sem.n > 0
      OBVIOUS
    <3>4. QED
      BY <3>1, <3>2, <3>3, <1>0
  <2>2. /\ semPc' \in [Threads -> SemLabels]
        /\ semPc' = [semPc EXCEPT ![t] = semPc'[t]] /\ semPc'[t] # "take"
    BY <1>5 DEF Second
  <2>3. QED
    BY <1>5, <2>1, <2>2 DEF Second
<1>6. ASSUME NEW t \in Threads, Reread(t) PROVE SemTypeOK' /\ TakeSeesAUnit'
  BY <1>6 DEF Reread
<1>7. ASSUME NEW t \in Threads,
             SemInterrupted(t) \/ SemSpin(t) \/ SemDoSpin(t) \/ SemFutexWait(t)
      PROVE  SemTypeOK' /\ TakeSeesAUnit'
  <2>1. /\ semPc' \in [Threads -> SemLabels]
        /\ semPc' = [semPc EXCEPT ![t] = semPc'[t]] /\ semPc'[t] # "take"
    BY <1>7 DEF SemInterrupted, SemSpin, SemDoSpin, SemFutexWait
  <2>2. UNCHANGED <<sem, seen>>
    BY <1>7 DEF SemInterrupted, SemSpin, SemDoSpin, SemFutexWait
  <2>3. QED
    BY <2>1, <2>2
<1>8. ASSUME NEW t \in Threads, SemSetWait(t) PROVE SemTypeOK' /\ TakeSeesAUnit'
  <2>1. sem' \in Word
    <3>1. sem' = WaitFlag \/ sem' = sem
      BY <1>8 DEF SemSetWait
    <3>2. QED
      BY <1>0, <3>1
  <2>2. /\ semPc' \in [Threads -> SemLabels]
        /\ semPc' = [semPc EXCEPT ![t] = semPc'[t]] /\ semPc'[t] # "take"
    BY <1>8 DEF SemSetWait
  <2>3. QED
    BY <1>8, <2>1, <2>2 DEF SemSetWait
<1>9. ASSUME NEW t \in Threads, SemFutexWake(t) PROVE SemTypeOK' /\ TakeSeesAUnit'
  BY <1>9 DEF SemFutexWake
<1>10. QED
  BY <1>1, <1>2, <1>3, <1>4, <1>5, <1>6, <1>7, <1>8, <1>9 DEF SemNext, SemStep

LEMMA NextNoLostPost ==
  SemTypeOK /\ TakeSeesAUnit /\ NoLostPost /\ [SemNext]_semVars => NoLostPost'
<1> SUFFICES ASSUME SemTypeOK, TakeSeesAUnit, NoLostPost, [SemNext]_semVars,
                    \E t \in Threads : semPc'[t] = "sleep"
             PROVE  sem' = WaitFlag \/ SemWakerInFlight'
  BY DEF NoLostPost
<1> USE DEF SemTypeOK, NoLostPost, SemWakerInFlight, Word, SemLabels, SemGoto, Zero, WaitFlag
<1>1. CASE UNCHANGED semVars
  BY <1>1 DEF semVars
<1>2. ASSUME NEW t \in Threads, Wait(t) PROVE sem' = WaitFlag \/ SemWakerInFlight'
  <2>1. sem # WaitFlag \/ UNCHANGED sem
    BY <1>2 DEF Wait
  <2>2. QED
    BY <1>2, <2>1 DEF Wait
<1>3. ASSUME NEW t \in Threads, Post(t) PROVE sem' = WaitFlag \/ SemWakerInFlight'
  BY <1>3 DEF Post
<1>4. ASSUME NEW t \in Threads, Take(t) PROVE sem' = WaitFlag \/ SemWakerInFlight'
  <2>1. sem # WaitFlag \/ UNCHANGED sem
    BY <1>4 DEF Take, TakeSeesAUnit
  <2>2. QED
    BY <1>4, <2>1 DEF Take
<1>5. ASSUME NEW t \in Threads, Second(t) PROVE sem' = WaitFlag \/ SemWakerInFlight'
  <2>1. CASE sem.n > 1
    BY <1>5, <2>1 DEF Second
  <2>2. CASE sem.n \in {0, 1}
    BY <1>5, <2>2 DEF Second
  <2>3. QED
    BY <2>1, <2>2
<1>6. ASSUME NEW t \in Threads, SemFutexWake(t) PROVE sem' = WaitFlag \/ SemWakerInFlight'
  BY <1>6 DEF SemFutexWake
<1>7. ASSUME NEW t \in Threads, SemFutexWait(t) \/ SemInterrupted(t)
      PROVE  sem' = WaitFlag \/ SemWakerInFlight'
  BY <1>7 DEF SemFutexWait, SemInterrupted
<1>8. ASSUME NEW t \in Threads, SemSpin(t) \/ SemSetWait(t) \/ Reread(t) \/ SemDoSpin(t)
      PROVE  sem' = WaitFlag \/ SemWakerInFlight'
  BY <1>8 DEF SemSpin, SemSetWait, Reread, SemDoSpin
<1>9. QED
  BY <1>1, <1>2, <1>3, <1>4, <1>5, <1>6, <1>7, <1>8 DEF SemNext, SemStep

LEMMA SemNextIInv == SemIInv /\ [SemNext]_semVars => SemIInv'
  BY SemNextTyped, NextNoLostPost DEF SemIInv

(* While a thread sleeps in gomp_sem_wait, SEM_WAIT is set with no unit    *)
(* left, or some thread is on its way to wake it or to set the flag.       *)
THEOREM SemNoLostWakeup == SemSpec => []NoLostPost
<1>1. SemIInv => NoLostPost
  BY DEF SemIInv
<1>2. QED
  BY <1>1, SemInitIInv, SemNextIInv, PTL DEF SemSpec

(* Every step of the futex semaphore is a Post, a Wait or leaves the count *)
(* alone.                                                                  *)
LEMMA SemNextRefines == SemIInv /\ [SemNext]_semVars => [S!Next]_(sem.n)
<1> SUFFICES ASSUME SemIInv, [SemNext]_semVars PROVE [S!Next]_(sem.n)
  OBVIOUS
<1> USE DEF SemIInv, SemTypeOK, TakeSeesAUnit, Word, SemGoto, Zero, WaitFlag,
            S!Next, S!Post, S!Wait
<1>1. CASE UNCHANGED semVars
  BY <1>1 DEF semVars
<1>2. ASSUME NEW t \in Threads, Wait(t) PROVE [S!Next]_(sem.n)
  BY <1>2 DEF Wait
<1>3. ASSUME NEW t \in Threads, Post(t) PROVE [S!Next]_(sem.n)
  BY <1>3 DEF Post
<1>4. ASSUME NEW t \in Threads, Take(t) PROVE [S!Next]_(sem.n)
  BY <1>4 DEF Take
<1>5. ASSUME NEW t \in Threads, Second(t) PROVE [S!Next]_(sem.n)
  BY <1>5 DEF Second
<1>6. ASSUME NEW t \in Threads, SemSetWait(t) PROVE [S!Next]_(sem.n)
  BY <1>6 DEF SemSetWait
<1>7. ASSUME NEW t \in Threads,
             \/ SemInterrupted(t) \/ SemSpin(t) \/ Reread(t) \/ SemDoSpin(t)
             \/ SemFutexWait(t) \/ SemFutexWake(t)
      PROVE  [S!Next]_(sem.n)
  BY <1>7 DEF SemInterrupted, SemSpin, Reread, SemDoSpin, SemFutexWait, SemFutexWake
<1>8. QED
  BY <1>1, <1>2, <1>3, <1>4, <1>5, <1>6, <1>7 DEF SemNext, SemStep

(* The futex semaphore implements the counting semaphore.                  *)
THEOREM SemRefinement == SemSpec => ImplementsSemaphore
<1>1. SemInit => S!Init
  BY DEF SemInit, S!Init
<1>2. SemSpec => []SemIInv
  BY SemInitIInv, SemNextIInv, PTL DEF SemSpec
<1>3. QED
  BY <1>1, <1>2, SemNextRefines, PTL DEF SemSpec, ImplementsSemaphore, S!Spec
-----------------------------------------------------------------------------
(***************************************************************************)
(* The pointer lock, for any pointers: one thread is told to provide the   *)
(* pointer, all others receive the one it provides, and nobody is left     *)
(* asleep.                                                                 *)
(***************************************************************************)
(* Who has claimed the lock and has not set the pointer yet: one thread    *)
(* while the word is 1 or 2, none otherwise.                               *)
OneOwner ==
  /\ ptrlock \in {1, 2} => \E t \in Threads : ptrPc[t] = "owner"
  /\ ptrlock \notin {1, 2} => \A t \in Threads : ptrPc[t] # "owner"
  /\ \A s, t \in Threads : ptrPc[s] = "owner" /\ ptrPc[t] = "owner" => s = t

(* What a thread has been told, by the place it has reached.               *)
Answers ==
  \A t \in Threads :
    /\ ptrPc[t] \in {"owner", "wake"} => result[t] = NULL
    /\ ptrPc[t] \notin {"owner", "wake", "done"} => result[t] = Pending
    /\ ptrPc[t] = "done" => result[t] # Pending

(* Past the first exchange the word is not 0, past the second not 1, and   *)
(* past the loop it is a pointer; nobody has an answer while it is 0.      *)
PastTheLoop ==
  \A t \in Threads :
    /\ ptrPc[t] \notin {"idle", "cas"} => ptrlock # 0
    /\ ptrPc[t] \in {"spin", "fwait", "sleep", "test"} => ptrlock # 1
    /\ ptrPc[t] \in {"load", "done", "wake"} => IsPtr(ptrlock)

PtrIInv == PtrTypeOK /\ OneOwner /\ Answers /\ PastTheLoop /\ NoLostSet

LEMMA PtrInitIInv == PtrInit => PtrIInv
  BY DEF PtrInit, PtrIInv, PtrTypeOK, OneOwner, Answers, PastTheLoop, NoLostSet, PtrLabels, NULL, Pending

LEMMA PtrNextIInv == PtrIInv /\ [PtrNext]_ptrVars => PtrIInv'
<1> SUFFICES ASSUME PtrIInv, [PtrNext]_ptrVars PROVE PtrIInv'
  OBVIOUS
<1> USE PtrAssumption
    DEF PtrIInv, PtrTypeOK, OneOwner, Answers, PastTheLoop, NoLostSet, PtrLabels,
        PtrGoto, Return, IsPtr, NULL, Pending
<1>1. CASE UNCHANGED ptrVars
  BY <1>1 DEF ptrVars
<1>2. ASSUME NEW t \in Threads, Get(t) PROVE PtrIInv'
  BY <1>2 DEF Get
<1>3. ASSUME NEW t \in Threads, PtrInterrupted(t) PROVE PtrIInv'
  BY <1>3 DEF PtrInterrupted
<1>4. ASSUME NEW t \in Threads, Claim(t) PROVE PtrIInv'
  BY <1>4 DEF Claim
<1>5. ASSUME NEW t \in Threads, Slow(t) PROVE PtrIInv'
  BY <1>5 DEF Slow
<1>6. ASSUME NEW t \in Threads, PtrSpin(t) PROVE PtrIInv'
  BY <1>6 DEF PtrSpin
<1>7. ASSUME NEW t \in Threads, PtrFutexWait(t) PROVE PtrIInv'
  BY <1>7 DEF PtrFutexWait
<1>8. ASSUME NEW t \in Threads, Test(t) PROVE PtrIInv'
  BY <1>8 DEF Test
<1>9. ASSUME NEW t \in Threads, Load(t) PROVE PtrIInv'
  BY <1>9 DEF Load
<1>10. ASSUME NEW t \in Threads, NEW p \in Pointers, Set(t, p) PROVE PtrIInv'
  BY <1>10 DEF Set
<1>11. ASSUME NEW t \in Threads, PtrFutexWake(t) PROVE PtrIInv'
  BY <1>11 DEF PtrFutexWake
<1>12. QED
  BY <1>1, <1>2, <1>3, <1>4, <1>5, <1>6, <1>7, <1>8, <1>9, <1>10, <1>11 DEF PtrNext, PtrStep

(* A thread that sleeps in gomp_ptrlock_get_slow is waited for: the word   *)
(* is still 2, or the owner is about to wake everybody.                    *)
THEOREM PtrNoLostWakeup == PtrSpec => []NoLostSet
<1>1. PtrIInv => NoLostSet
  BY DEF PtrIInv
<1>2. QED
  BY <1>1, PtrInitIInv, PtrNextIInv, PTL DEF PtrSpec

(* Every step is a claim, the publication, the receipt of the published    *)
(* pointer, or invisible.                                                  *)
LEMMA PtrNextRefines == PtrIInv /\ PtrIInv' /\ [PtrNext]_ptrVars => [P!Next]_<<value, result>>
<1> SUFFICES ASSUME PtrIInv, PtrIInv', [PtrNext]_ptrVars PROVE [P!Next]_<<value, result>>
  OBVIOUS
<1> USE PtrAssumption
    DEF PtrIInv, PtrTypeOK, OneOwner, Answers, PastTheLoop, PtrLabels, PtrGoto, Return, IsPtr,
        NULL, Pending, value, P!Next, P!Claim, P!Publish, P!Receive
<1>1. CASE UNCHANGED ptrVars
  BY <1>1 DEF ptrVars
<1>2. ASSUME NEW t \in Threads, Get(t) PROVE [P!Next]_<<value, result>>
  BY <1>2 DEF Get
<1>3. ASSUME NEW t \in Threads, Claim(t) PROVE [P!Next]_<<value, result>>
  BY <1>3 DEF Claim
<1>4. ASSUME NEW t \in Threads, Slow(t) PROVE [P!Next]_<<value, result>>
  BY <1>4 DEF Slow
<1>5. ASSUME NEW t \in Threads,
             \/ PtrInterrupted(t) \/ PtrSpin(t) \/ PtrFutexWait(t) \/ Test(t) \/ PtrFutexWake(t)
      PROVE  [P!Next]_<<value, result>>
  BY <1>5 DEF PtrInterrupted, PtrSpin, PtrFutexWait, Test, PtrFutexWake
<1>6. ASSUME NEW t \in Threads, Load(t) PROVE [P!Next]_<<value, result>>
  BY <1>6 DEF Load
<1>7. ASSUME NEW t \in Threads, NEW p \in Pointers, Set(t, p)
      PROVE  [P!Next]_<<value, result>>
  BY <1>7 DEF Set
<1>8. QED
  BY <1>1, <1>2, <1>3, <1>4, <1>5, <1>6, <1>7 DEF PtrNext, PtrStep

(* The pointer lock implements the cell that is published once.            *)
THEOREM PtrRefinement == PtrSpec => ImplementsPublishOnce
<1>1. PtrInit => P!Init
  BY DEF PtrInit, P!Init, value, IsPtr, NULL, Pending
<1>2. PtrSpec => []PtrIInv
  BY PtrInitIInv, PtrNextIInv, PTL DEF PtrSpec
<1>3. QED
  BY <1>1, <1>2, PtrNextRefines, PTL DEF PtrSpec, ImplementsPublishOnce, P!Spec
=============================================================================
