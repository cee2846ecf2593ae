----------------------------- MODULE TeamProofs -----------------------------
(***************************************************************************)
(* What the threads of a team share at its barriers, and in its pool of    *)
(* task states.                                                            *)
(*                                                                         *)
(* The team barrier separates the phases of a region for any number of     *)
(* threads, barriers and tasks, and its flags are sound.                   *)
(*                                                                         *)
(* The argument goes through a view of the state in which the counter of   *)
(* generation does not occur: the place of a thread, which is "held" at a  *)
(* barrier that has not been opened and "late" at one that has, and the    *)
(* phase of the task it runs.  A step of the barrier is a step of the view *)
(* (VNext), or leaves it unchanged; the invariant is one of the view, and  *)
(* so is the refinement of Barrier.                                        *)
(***************************************************************************)
EXTENDS TeamBarrier, StatePool, Sums

-----------------------------------------------------------------------------
(* The view.                                                               *)

(* Where a thread is, or goes on after its futex_wake.                     *)
Pc(T) == IF T.pc = "wake" THEN T.back ELSE T.pc

(* Its place; c is the counter of generation.                              *)
Place(T, c) ==
  CASE Pc(T) = "work" -> "out"
    [] Pc(T) \in {"quit", "dec", "last", "open", "end"} -> Pc(T)
    [] Pc(T) = "enter" /\ T.last -> "enter"
    [] Pc(T) = "leave" -> "late"
    [] OTHER -> IF T.state.count = c THEN "held" ELSE "late"

(* The phase of the task it runs.                                          *)
TaskOf(T) == IF Pc(T) = "task" THEN T.of ELSE 0

at == [t \in Thread |-> Place(thr[t], generation.count)]
round == [t \in Thread |-> thr[t].round]
task == [t \in Thread |-> TaskOf(thr[t])]
pending == generation.pending
waiting == generation.waiting

Openers == {"last", "open", "enter"}
Outer == {"out", "quit", "dec"}
Places == Openers \cup Outer \cup {"held", "late", "end"}

Held == {t \in Thread : at[t] \in Openers \cup {"held"}}
Late == {t \in Thread : at[t] \in {"late", "end"}}
Opener == {t \in Thread : at[t] \in Openers}
Finals == {t \in Thread : round[t] = Rounds}
Nothing == [r \in 1..Rounds |-> 0]

words == <<pending, waiting>>
counts == <<awaited, awaitedFinal>>
work == <<queued, live, task>>

Move(t, a, n) == at' = [at EXCEPT ![t] = a] /\ round' = [round EXCEPT ![t] = n]

VArrive(t) == /\ at[t] = "out" /\ Move(t, "dec", round[t])
              /\ UNCHANGED <<words, counts, work, region>>

VDecrement(t) ==
  LET n == IF t \in Finals THEN awaitedFinal - 1 ELSE awaited - 1
  IN /\ at[t] = "dec"
     /\ IF t \in Finals
        THEN awaitedFinal' = (IF n = 0 THEN Cardinality(Thread) ELSE n) /\ UNCHANGED awaited
        ELSE awaited' = n /\ UNCHANGED awaitedFinal
     /\ \/ n = 0 /\ Move(t, "last", round[t])
        \/ n # 0 /\ Move(t, "held", round[t])
        \/ n # 0 /\ t \notin Finals /\ region = "cancelled" /\ Move(t, "out", Rounds)
     /\ UNCHANGED <<words, work, region>>

VLast(t) == /\ at[t] = "last" /\ awaited' = Cardinality(Thread)
            /\ Move(t, IF live = Nothing THEN "open" ELSE "enter", round[t])
            /\ UNCHANGED <<awaitedFinal, words, work, region>>

VLeave(t) == /\ at[t] = "late"
             /\ IF t \in Finals THEN Move(t, "end", Rounds)
                ELSE Move(t, "out", round[t] + 1)
             /\ UNCHANGED <<words, counts, work, region>>

VQuit(t) == /\ at[t] \in {"held", "late", "quit"}
            /\ region = "cancelled" /\ t \notin Finals
            /\ Move(t, "out", Rounds)
            /\ UNCHANGED <<words, counts, work, region>>

(* The barrier opens, and all threads are late at it.                      *)
Opened == /\ pending' = FALSE /\ waiting' = FALSE /\ at' = [s \in Thread |-> "late"]
          /\ UNCHANGED <<round, region, counts>>

VOpen(t) == at[t] \in {"open", "enter"} /\ live = Nothing /\ Opened /\ UNCHANGED work

(* The last thread to arrive leaves the opening to the last task.          *)
Entered(t) == /\ at[t] \in {"enter", "held", "late"}
              /\ at[t] = "enter" => live # Nothing
              /\ at' = [at EXCEPT ![t] = IF @ = "enter" THEN "held" ELSE @]
              /\ waiting' = (waiting \/ at[t] = "enter")
              /\ UNCHANGED <<round, region, counts>>

Took(r) == queued[r] > 0 /\ queued' = [queued EXCEPT ![r] = @ - 1]
Ended(r) == live[r] > 0 /\ live' = [live EXCEPT ![r] = @ - 1]

VEnter(t) == Entered(t) /\ UNCHANGED <<work, pending>>

VTake(t, r) == /\ Entered(t) /\ Took(r) /\ pending' = (queued' # Nothing)
               /\ task[t] = 0 /\ task' = [task EXCEPT ![t] = r] /\ UNCHANGED live

VDrop(t, r) == LET opens == live' = Nothing /\ (waiting \/ at[t] = "enter")
               IN /\ Took(r) /\ Ended(r) /\ UNCHANGED task
                  /\ \/ opens /\ Opened
                     \/ ~opens /\ Entered(t) /\ pending' = (queued' # Nothing)

VEnd(t, r) == /\ task[t] = r /\ Ended(r) /\ task' = [task EXCEPT ![t] = 0]
              /\ UNCHANGED queued
              /\ IF live' = Nothing /\ waiting THEN Opened
                 ELSE UNCHANGED <<at, round, region, counts, words>>

VCreate(t, r) == /\ task[t] = r \/ (at[t] = "out" /\ r = round[t])
                 /\ queued' = [queued EXCEPT ![r] = @ + 1]
                 /\ live' = [live EXCEPT ![r] = @ + 1]
                 /\ pending' = TRUE
                 /\ UNCHANGED <<at, round, region, counts, waiting, task>>

VCancel(t) == /\ at[t] = "out" /\ t \notin Finals /\ region' = "cancelled"
              /\ \/ Move(t, "quit", round[t])
                 \/ region = "cancelled" /\ Move(t, "out", Rounds)
              /\ UNCHANGED <<words, counts, work>>

VSame == UNCHANGED <<at, round, words, counts, work, region>>

VStep(t) == VArrive(t) \/ VDecrement(t) \/ VLast(t) \/ VLeave(t) \/ VQuit(t)
            \/ VOpen(t) \/ VEnter(t) \/ VCancel(t)

VTaskStep(t, r) == VTake(t, r) \/ VDrop(t, r) \/ VEnd(t, r) \/ VCreate(t, r)

VNext == VSame \/ \E t \in Thread : VStep(t) \/ \E r \in 1..Rounds : VTaskStep(t, r)
-----------------------------------------------------------------------------
(* The invariant.                                                          *)

VTypeOK == /\ at \in [Thread -> Places] /\ round \in [Thread -> 1..Rounds]
           /\ task \in [Thread -> 0..Rounds]
           /\ queued \in [1..Rounds -> Nat] /\ live \in [1..Rounds -> Nat]
           /\ awaited \in Int /\ awaitedFinal \in Int
           /\ pending \in BOOLEAN /\ waiting \in BOOLEAN
           /\ region \in {"plain", "cancellable", "cancelled"}

(* The phases whose end a thread has reached, and those it has left.       *)
Reached(t) == IF at[t] \in Outer THEN round[t] - 1 ELSE round[t]

(* A barrier at which a thread is late separates.                          *)
LateOK ==
  \A t \in Late : /\ \A s \in Thread : Reached(s) >= round[t]
                  /\ \A i \in 1..round[t] : live[i] = 0

(* Without a cancellation all threads are at one barrier, or late at the   *)
(* one before it.                                                          *)
InPhase(p) == \A t \in Thread : round[t] = IF t \in Late THEN p - 1 ELSE p
PhaseOK == region # "cancelled" => \E p \in 1..Rounds + 1 : InPhase(p)

PlaceOK == \A t \in Thread : /\ at[t] = "quit" => region = "cancelled" /\ t \notin Finals
                             /\ at[t] = "end" => t \in Finals

(* awaited counts the threads that are not held.  After a cancellation it  *)
(* counts too many, because the cancelled threads do not come.             *)
Missing == Thread \ (Held \ Finals)
Coming == {t \in Thread : t \notin Held /\ t \notin Finals /\ at[t] # "quit"}
Awaits == IF Missing = {} /\ \A t \in Thread : at[t] # "last" THEN Thread ELSE Missing
AwaitedOK == /\ region # "cancelled" => awaited = Cardinality(Awaits)
             /\ region = "cancelled" => Cardinality(Coming) < awaited
             /\ awaited <= Cardinality(Thread)

(* awaitedFinal counts those that are not held at the last barrier.        *)
Lacking == Thread \ (Held \cap Finals)
AwaitsFinal == IF Lacking = {} THEN Thread ELSE Lacking
FinalOK == awaitedFinal = Cardinality(AwaitsFinal)

(* One thread at most is about to open the barrier, or the last task is;   *)
(* then all threads are held at the same barrier.                          *)
OpenerOK ==
  /\ \A s, t \in Opener : s = t
  /\ Opener # {} \/ waiting => Held = Thread /\ (region = "cancelled" => Finals = Thread)
  /\ waiting => Opener = {} /\ live # Nothing
  /\ (\E t \in Thread : at[t] = "open") => live = Nothing

(* Every unfinished task is queued or runs.                                *)
RunningOf(r) == {t \in Thread : task[t] = r}
TasksOK == /\ \A r \in 1..Rounds : live[r] = queued[r] + Cardinality(RunningOf(r))
           /\ pending <=> queued # Nothing

ViewInv == /\ VTypeOK /\ LateOK /\ PhaseOK /\ PlaceOK /\ AwaitedOK /\ FinalOK
           /\ OpenerOK /\ TasksOK

(* What the view leaves out of a thread; c is the counter of generation, x *)
(* whether the region is cancelled.                                        *)
Spinning == {"wait", "futex", "sleep", "load", "reload"}
Backs == {"leave", "return", "loop", "quit", "work", "task"}
Local(T, c, x) ==
  /\ ~T.state.pending /\ ~T.state.waiting
  /\ T.state.cancelled => x
  /\ Pc(T) = "work" \/ T.pc \in Spinning \cup {"dec"} => ~T.last
  /\ T.pc \in {"last", "open"} => T.last
  /\ T.pc = "wake" => T.back \in Backs
  /\ Place(T, c) \in Openers \cup {"dec"} => T.state.count = c

LocalOK ==
  /\ generation.cancelled => region = "cancelled"
  /\ \A t \in Thread : Local(thr[t], generation.count, region = "cancelled")

BarrierInv == TypeOK /\ LocalOK /\ ViewInv
-----------------------------------------------------------------------------
(* What the assumption on the constants says of the sizes.                 *)
LEMMA SizeFacts == IsFiniteSet(Thread) /\ Thread # {} /\ Rounds \in Nat \ {0}
                   /\ Cardinality(Thread) \in Nat \ {0}
BY BarrierAssumption, FS_CardinalityType, FS_EmptySet

(* Move changes the place and the round of one thread.                     *)
LEMMA Moved ==
  ASSUME VTypeOK, NEW t \in Thread, NEW a, NEW n, Move(t, a, n)
  PROVE  /\ at'[t] = a /\ round'[t] = n
         /\ \A s \in Thread : s # t => at'[s] = at[s] /\ round'[s] = round[s]
BY DEF VTypeOK, Move

(* One step changes the place and the round of one thread to these.        *)
VMove(t) == VArrive(t) \/ VDecrement(t) \/ VLast(t) \/ VLeave(t) \/ VQuit(t) \/ VCancel(t)

(* The moves a thread can make, and when; what other threads see of them.  *)
LEMMA Moves ==
  ASSUME ViewInv, NEW t \in Thread, VMove(t)
  PROVE  /\ \A s \in Thread : s # t => at'[s] = at[s] /\ round'[s] = round[s]
         /\ \/ at[t] = "out" /\ at'[t] = "dec" /\ round'[t] = round[t]
            \/ at[t] = "dec" /\ at'[t] \in {"last", "held"} /\ round'[t] = round[t]
            \/ at[t] = "last" /\ at'[t] \in {"open", "enter"} /\ round'[t] = round[t]
            \/ at[t] = "late" /\ at'[t] = "end" /\ round'[t] = round[t] /\ t \in Finals
            \/ at[t] = "late" /\ at'[t] = "out" /\ round'[t] = round[t] + 1 /\ t \notin Finals
            \/ at[t] = "out" /\ at'[t] = "quit" /\ round'[t] = round[t] /\ region' = "cancelled"
                 /\ t \notin Finals
            \/ at[t] \in {"dec", "held", "late", "quit", "out"} /\ at'[t] = "out" /\ round'[t] = Rounds
                 /\ region = "cancelled" /\ t \notin Finals
         /\ region' = region \/ region' = "cancelled"
         /\ live' = live /\ queued' = queued /\ task' = task
         /\ pending' = pending /\ waiting' = waiting
<1> USE DEF words, counts, work
<1>0. VTypeOK
  BY DEF ViewInv
<1>1. CASE VArrive(t)
  BY <1>0, <1>1, Moved DEF VArrive
<1>2. CASE VDecrement(t)
  <2> DEFINE n == IF t \in Finals THEN awaitedFinal - 1 ELSE awaited - 1
  <2> HIDE DEF n
  <2>1. at[t] = "dec" /\ UNCHANGED <<words, work, region>>
    BY <1>2 DEF VDecrement
  <2>2. \/ Move(t, "last", round[t]) \/ Move(t, "held", round[t])
        \/ t \notin Finals /\ region = "cancelled" /\ Move(t, "out", Rounds)
    BY <1>2 DEF VDecrement
  <2> QED
    BY <1>0, <2>1, <2>2, Moved
<1>3. CASE VLast(t)
  BY <1>0, <1>3, Moved DEF VLast
<1>4. CASE VLeave(t)
  <2>1. CASE t \in Finals
    BY <1>0, <1>4, <2>1, Moved DEF VLeave, Finals
  <2>2. CASE t \notin Finals
    BY <1>0, <1>4, <2>2, Moved DEF VLeave
  <2> QED
    BY <2>1, <2>2
<1>5. CASE VQuit(t)
  BY <1>0, <1>5, Moved DEF VQuit
<1>6. CASE VCancel(t)
  BY <1>0, <1>6, Moved DEF VCancel
<1> QED
  BY <1>1, <1>2, <1>3, <1>4, <1>5, <1>6 DEF VMove

(* Moves keep the threads in one phase, or late at the barrier before it.  *)
LEMMA PhaseMoves ==
  ASSUME ViewInv, NEW t \in Thread, VMove(t)
  PROVE  PhaseOK' /\ PlaceOK'
<1>0. VTypeOK /\ PlaceOK /\ Rounds \in Nat
  BY SizeFacts DEF ViewInv
<1>1. PlaceOK'
  BY <1>0, Moves, SizeFacts DEF PlaceOK, Finals, VTypeOK
<1>2. PhaseOK'
  <2> SUFFICES ASSUME region' # "cancelled" PROVE \E p \in 1..Rounds + 1 : InPhase(p)'
    BY DEF PhaseOK
  <2>1. PICK p \in 1..Rounds + 1 : InPhase(p)
    BY Moves DEF ViewInv, PhaseOK
  <2>2. InPhase(p)'
    <3> SUFFICES ASSUME NEW s \in Thread
                 PROVE  round'[s] = IF at'[s] \in {"late", "end"} THEN p - 1 ELSE p
      BY DEF InPhase, Late
    <3>1. round[s] = IF at[s] \in {"late", "end"} THEN p - 1 ELSE p
      BY <2>1 DEF InPhase, Late
    <3>2. round[s] \in Int /\ p \in Int /\ region # "cancelled"
      BY <1>0, Moves DEF VTypeOK
    <3> QED
      BY <3>1, <3>2, Moves
  <2> QED
    BY <2>2
<1> QED
  BY <1>1, <1>2

(* Moves keep the separation by a barrier at which threads are late:       *)
(* nobody is behind it, and its tasks have ended.                          *)
LEMMA LateMoves ==
  ASSUME ViewInv, NEW t \in Thread, VMove(t)
  PROVE  LateOK'
<1>0. VTypeOK /\ LateOK /\ Rounds \in Nat /\ \A s \in Thread : round[s] \in 1..Rounds
  BY SizeFacts DEF ViewInv, VTypeOK
<1>1. \A u \in Late' : u \in Late /\ round'[u] = round[u]
  BY Moves DEF Late
<1>2. ASSUME NEW s \in Thread PROVE Reached(s)' \in Int /\ Reached(s) \in Int /\ Reached(s)' >= Reached(s)
  <2>1. CASE s # t
    BY <1>0, <2>1, Moves DEF Reached, Outer
  <2>2. CASE s = t
    BY <1>0, <2>2, Moves DEF Reached, Outer, Finals
  <2> QED
    BY <2>1, <2>2
<1>3. ASSUME NEW u \in Late' PROVE u \in Late /\ round'[u] = round[u] /\ round[u] \in Int
  BY <1>0, <1>1 DEF Late
<1>4. ASSUME NEW u \in Late', NEW s \in Thread PROVE Reached(s)' >= round'[u]
  <2>1. Reached(s) >= round[u]
    BY <1>0, <1>3 DEF LateOK
  <2> QED
    BY <2>1, <1>2, <1>3
<1>5. ASSUME NEW u \in Late', NEW i \in 1..round'[u] PROVE live'[i] = 0
  BY <1>0, <1>3, Moves DEF LateOK
<1> QED
  BY <1>4, <1>5 DEF LateOK
-----------------------------------------------------------------------------
(* The counts.                                                             *)

(* A set of threads without one of its members.                            *)
LEMMA Removal ==
  ASSUME NEW S \in SUBSET Thread, NEW x \in S
  PROVE  /\ IsFiniteSet(S) /\ IsFiniteSet(S \ {x})
         /\ Cardinality(S) \in Nat /\ Cardinality(S \ {x}) \in Nat
         /\ Cardinality(S \ {x}) = Cardinality(S) - 1
<1>1. IsFiniteSet(S)
  BY SizeFacts, FS_Subset
<1>2. IsFiniteSet(S \ {x}) /\ Cardinality(S \ {x}) = Cardinality(S) - 1
  BY <1>1, FS_RemoveElement
<1> QED
  BY <1>1, <1>2, FS_CardinalityType

(* A set of threads and one it includes.                                   *)
LEMMA Smaller ==
  ASSUME NEW S \in SUBSET Thread, NEW S1 \in SUBSET S
  PROVE  /\ Cardinality(S) \in Nat /\ Cardinality(S1) \in Nat
         /\ Cardinality(S1) <= Cardinality(S)
         /\ Cardinality(S) = 0 <=> S = {}
<1>1. IsFiniteSet(S)
  BY SizeFacts, FS_Subset
<1> QED
  BY <1>1, FS_Subset, FS_CardinalityType, FS_EmptySet

(* The sets that are counted are sets of threads.                          *)
LEMMA SetsInThread ==
  /\ Missing \in SUBSET Thread /\ Coming \in SUBSET Thread /\ Lacking \in SUBSET Thread
  /\ Held \in SUBSET Thread /\ Finals \in SUBSET Thread
BY DEF Missing, Coming, Lacking, Held, Finals

(* At a barrier at which all are held they are at the same one.            *)
LEMMA SameRound ==
  ASSUME ViewInv, Opener # {} \/ waiting
  PROVE  /\ Held = Thread
         /\ Finals = Thread \/ Finals = {}
         /\ region = "cancelled" => Finals = Thread
         /\ \A s, t \in Thread : round[s] = round[t]
<1>1. Held = Thread /\ (region = "cancelled" => Finals = Thread)
  BY DEF ViewInv, OpenerOK
<1>2. Late = {}
  BY <1>1 DEF Held, Late, Openers
<1>3. CASE region = "cancelled"
  BY <1>1, <1>3 DEF Finals
<1>4. CASE region # "cancelled"
  <2>1. PICK p \in 1..Rounds + 1 : InPhase(p)
    BY <1>4 DEF ViewInv, PhaseOK
  <2>2. \A t \in Thread : round[t] = p
    BY <2>1, <1>2 DEF InPhase
  <2> QED
    BY <1>1, <2>2 DEF Finals
<1> QED
  BY <1>3, <1>4

(* Steps that leave the counts and the sets they count as they are.        *)
LEMMA CountsSame ==
  ASSUME ViewInv, counts' = counts, region' = region,
         Missing' = Missing, Lacking' = Lacking, Coming' \subseteq Coming,
         (\E t \in Thread : at'[t] = "last") <=> (\E t \in Thread : at[t] = "last")
  PROVE  AwaitedOK' /\ FinalOK'
<1>1. awaited \in Int /\ awaited' = awaited /\ awaitedFinal' = awaitedFinal
  BY DEF ViewInv, VTypeOK, counts
<1>2. Cardinality(Coming') \in Nat /\ Cardinality(Coming) \in Nat /\ Cardinality(Coming') <= Cardinality(Coming)
  BY Smaller, SetsInThread
<1>3. Awaits' = Awaits /\ AwaitsFinal' = AwaitsFinal
  BY DEF Awaits, AwaitsFinal
<1> QED
  BY <1>1, <1>2, <1>3 DEF ViewInv, AwaitedOK, FinalOK

(* Counting: a thread on its way to the barrier is not held yet.           *)
LEMMA CountsArrive ==
  ASSUME ViewInv, NEW t \in Thread, VArrive(t)
  PROVE  AwaitedOK' /\ FinalOK'
<1>1. VMove(t) /\ at[t] = "out" /\ at'[t] = "dec" /\ round'[t] = round[t] /\ counts' = counts /\ region' = region
  BY Moved DEF VMove, VArrive, ViewInv
<1>2. Held' = Held /\ Finals' = Finals
  BY <1>1, Moves DEF Held, Finals, Openers
<1>3. Coming' = Coming
  BY <1>1, <1>2, Moves DEF Coming
<1> QED
  BY <1>1, <1>2, <1>3, Moves, CountsSame DEF Missing, Lacking

(* Counting: the decrement of awaited.  It reaches 0 only when all threads *)
(* are held and the region is not cancelled.                               *)
LEMMA CountsDecrement ==
  ASSUME ViewInv, NEW t \in Thread, VDecrement(t), t \notin Finals
  PROVE  /\ AwaitedOK' /\ FinalOK'
         /\ at'[t] = "last" => Held' = Thread /\ region # "cancelled"
<1> DEFINE n == awaited - 1
<1>1. /\ VMove(t) /\ at[t] = "dec" /\ awaited' = n /\ awaitedFinal' = awaitedFinal
      /\ region' = region /\ awaited \in Int /\ n \in Int
      /\ \/ n = 0 /\ Move(t, "last", round[t])
         \/ n # 0 /\ Move(t, "held", round[t])
         \/ n # 0 /\ region = "cancelled" /\ Move(t, "out", Rounds)
  BY DEF VMove, VDecrement, ViewInv, VTypeOK
<1> HIDE DEF n
<1>2. /\ \/ n = 0 /\ at'[t] = "last" /\ round'[t] = round[t]
         \/ n # 0 /\ at'[t] = "held" /\ round'[t] = round[t]
         \/ n # 0 /\ at'[t] = "out" /\ round'[t] = Rounds /\ region = "cancelled"
  BY <1>1, Moved DEF ViewInv
<1>3. t \in Missing /\ t \in Coming /\ t \notin Held
  BY <1>1 DEF Missing, Coming, Held, Openers
<1>4. Lacking' = Lacking
  BY <1>1, <1>2, <1>3, Moves DEF Lacking, Held, Finals, Openers
<1>5. FinalOK'
  BY <1>1, <1>4 DEF ViewInv, FinalOK, AwaitsFinal
<1>6. Coming' = Coming \ {t}
  BY <1>1, <1>2, <1>3, Moves DEF Coming, Held, Finals, Openers
<1>7. /\ Cardinality(Coming') = Cardinality(Coming) - 1
      /\ Cardinality(Coming) \in Nat /\ Cardinality(Coming') \in Nat
      /\ Cardinality(Missing \ {t}) = Cardinality(Missing) - 1 /\ Cardinality(Missing) \in Nat
  BY <1>3, <1>6, Removal, SetsInThread
<1>8. awaited' <= Cardinality(Thread)
  BY <1>1, SizeFacts DEF n, ViewInv, AwaitedOK
<1>9. CASE region = "cancelled"
  <2>1. Cardinality(Coming) < awaited
    BY <1>9 DEF ViewInv, AwaitedOK
  <2>2. Cardinality(Coming') < awaited' /\ n # 0
    BY <2>1, <1>1, <1>7 DEF n
  <2> QED
    BY <1>1, <1>2, <1>5, <1>8, <1>9, <2>2 DEF AwaitedOK
<1>10. CASE region # "cancelled"
  <2>1. awaited = Cardinality(Missing)
    BY <1>3, <1>10 DEF ViewInv, AwaitedOK, Awaits
  <2>2. Missing' = Missing \ {t}
    BY <1>1, <1>2, <1>3, <1>10, Moves DEF Missing, Held, Finals, Openers
  <2>3. awaited' = Cardinality(Missing')
    BY <1>1, <1>7, <2>1, <2>2 DEF n
  <2>4. Missing' = {} <=> n = 0
    <3>1. Missing' \in SUBSET Thread
      BY <2>2, SetsInThread
    <3> QED
      BY <1>1, <2>3, <3>1, Smaller
  <2>5. Missing' = {} => at'[t] = "last" /\ Held' = Thread
    BY <1>2, <2>4 DEF Missing, Held
  <2> QED
    BY <1>1, <1>2, <1>5, <1>8, <1>10, <2>3, <2>4, <2>5 DEF AwaitedOK, Awaits
<1> QED
  BY <1>9, <1>10

(* Counting: the decrement of awaited_final.  It reaches 0 only when all   *)
(* threads are held at the last barrier.                                   *)
LEMMA CountsDecrementFinal ==
  ASSUME ViewInv, NEW t \in Thread, VDecrement(t), t \in Finals
  PROVE  /\ AwaitedOK' /\ FinalOK'
         /\ at'[t] = "last" => Held' = Thread /\ Finals' = Thread
<1> DEFINE n == awaitedFinal - 1
<1>1. /\ VMove(t) /\ at[t] = "dec" /\ awaited' = awaited /\ region' = region
      /\ awaitedFinal' = (IF n = 0 THEN Cardinality(Thread) ELSE n)
      /\ awaitedFinal \in Int /\ n \in Int
      /\ \/ n = 0 /\ Move(t, "last", round[t])
         \/ n # 0 /\ Move(t, "held", round[t])
  BY DEF VMove, VDecrement, ViewInv, VTypeOK
<1> HIDE DEF n
<1>2. \/ n = 0 /\ at'[t] = "last" /\ round'[t] = round[t]
      \/ n # 0 /\ at'[t] = "held" /\ round'[t] = round[t]
  BY <1>1, Moved DEF ViewInv
<1>3. t \in Lacking /\ t \in Missing /\ t \notin Coming
  BY <1>1 DEF Missing, Lacking, Coming, Held, Openers
<1>4. Finals' = Finals /\ Held' = Held \cup {t}
  BY <1>1, <1>2, Moves DEF Finals, Held, Openers
<1>5. Missing' = Missing /\ Lacking' = Lacking \ {t}
  BY <1>4 DEF Missing, Lacking
<1>6. Coming' = Coming
  BY <1>1, <1>2, <1>3, <1>4, Moves DEF Coming
<1>7. Awaits' = Missing' /\ Awaits = Missing
  BY <1>3, <1>5 DEF Awaits
<1>8. AwaitedOK'
  BY <1>1, <1>5, <1>6, <1>7 DEF ViewInv, AwaitedOK
<1>9. awaitedFinal = Cardinality(Lacking)
  BY <1>3 DEF ViewInv, FinalOK, AwaitsFinal
<1>10. Cardinality(Lacking') = n
  BY <1>3, <1>5, <1>9, Removal, SetsInThread DEF n
<1>11. Lacking' = {} <=> n = 0
  <2>1. Lacking' \in SUBSET Thread
    BY <1>5, SetsInThread
  <2> QED
    BY <1>10, <2>1, Smaller
<1>12. FinalOK'
  BY <1>1, <1>10, <1>11 DEF FinalOK, AwaitsFinal
<1>13. Lacking' = {} => Held' = Thread /\ Finals' = Thread
  BY DEF Lacking, Held, Finals
<1> QED
  BY <1>2, <1>8, <1>11, <1>12, <1>13

(* Counting: the last thread stores the number of threads in awaited.      *)
LEMMA CountsLast ==
  ASSUME ViewInv, NEW t \in Thread, VLast(t)
  PROVE  AwaitedOK' /\ FinalOK'
<1>1. /\ VMove(t) /\ at[t] = "last" /\ at'[t] \in {"open", "enter"} /\ round'[t] = round[t]
      /\ region' = region /\ awaited' = Cardinality(Thread) /\ awaitedFinal' = awaitedFinal
  BY Moved DEF VMove, VLast, ViewInv
<1>2. Held' = Held /\ Finals' = Finals
  BY <1>1, Moves DEF Held, Finals, Openers
<1>3. t \in Opener
  BY <1>1 DEF Opener, Openers
<1>4. /\ Held = Thread /\ (Finals = Thread \/ Finals = {})
      /\ region = "cancelled" => Finals = Thread
  BY <1>3, SameRound
<1>5. \A s \in Thread : at'[s] # "last"
  <2>1. \A s \in Opener : s = t
    BY <1>3 DEF ViewInv, OpenerOK
  <2> QED
    BY <1>1, <2>1, Moves DEF Opener, Openers
<1>6. Awaits' = Thread
  BY <1>2, <1>4, <1>5 DEF Awaits, Missing
<1>7. Lacking' = Lacking
  BY <1>2 DEF Lacking
<1>8. region = "cancelled" => Coming' = {}
  BY <1>2, <1>4 DEF Coming
<1>9. FinalOK'
  BY <1>1, <1>7 DEF ViewInv, FinalOK, AwaitsFinal
<1> QED
  BY <1>1, <1>6, <1>8, <1>9, SizeFacts, FS_EmptySet DEF AwaitedOK

(* Counting: a thread that is late was not counted as held.                *)
LEMMA CountsLeave ==
  ASSUME ViewInv, NEW t \in Thread, VLeave(t)
  PROVE  AwaitedOK' /\ FinalOK'
<1>1. VMove(t) /\ at[t] = "late" /\ at'[t] \in {"out", "end"} /\ counts' = counts /\ region' = region
  BY Moved DEF VMove, VLeave, ViewInv
<1>2. Held' = Held /\ t \notin Held
  BY <1>1, Moves DEF Held, Openers
<1>3. Missing' = Missing /\ Lacking' = Lacking
  BY <1>2, Moves, <1>1 DEF Missing, Lacking, Finals
<1>4. Coming' \subseteq Coming
  <2>1. t \in Coming' => t \in Coming
    BY <1>1, <1>2, Moves DEF Coming, Finals
  <2> QED
    BY <1>1, <1>2, <2>1, Moves DEF Coming, Finals
<1> QED
  BY <1>1, <1>3, <1>4, Moves, CountsSame

(* Counting: a cancelled thread leaves, and the count that included it is  *)
(* never used up.                                                          *)
LEMMA CountsQuit ==
  ASSUME ViewInv, NEW t \in Thread, VQuit(t)
  PROVE  AwaitedOK' /\ FinalOK'
<1>1. /\ VMove(t) /\ at[t] \in {"held", "late", "quit"} /\ at'[t] = "out" /\ round'[t] = Rounds
      /\ counts' = counts /\ region' = region /\ region = "cancelled" /\ t \notin Finals
  BY Moved DEF VMove, VQuit, ViewInv
<1>2. Lacking' = Lacking
  BY <1>1, Moves DEF Lacking, Held, Finals, Openers
<1>3. Coming' \subseteq Coming
  BY <1>1, Moves DEF Coming, Held, Finals, Openers
<1>4. Cardinality(Coming') \in Nat /\ Cardinality(Coming) \in Nat /\ Cardinality(Coming') <= Cardinality(Coming)
  BY <1>3, Smaller, SetsInThread
<1>5. awaited \in Int /\ awaited' = awaited /\ awaitedFinal' = awaitedFinal
  BY <1>1 DEF ViewInv, VTypeOK, counts
<1> QED
  BY <1>1, <1>2, <1>4, <1>5 DEF ViewInv, AwaitedOK, FinalOK, AwaitsFinal

(* Counting: the thread that cancels does not come to the barrier any      *)
(* more.                                                                   *)
LEMMA CountsCancel ==
  ASSUME ViewInv, NEW t \in Thread, VCancel(t)
  PROVE  AwaitedOK' /\ FinalOK'
<1>1. /\ VMove(t) /\ at[t] = "out" /\ counts' = counts /\ region' = "cancelled" /\ t \notin Finals
      /\ \/ at'[t] = "quit" /\ round'[t] = round[t] 
         \/ at'[t] = "out" /\ round'[t] = Rounds /\ region = "cancelled"
  BY Moved DEF VMove, VCancel, ViewInv
<1>2. Lacking' = Lacking
  BY <1>1, Moves DEF Lacking, Held, Finals, Openers
<1>3. Coming' = Coming \ {t} /\ t \in Coming
  BY <1>1, Moves DEF Coming, Held, Finals, Openers
<1>4. Coming \subseteq Missing
  BY DEF Coming, Missing
<1>5. awaited \in Int /\ awaited' = awaited /\ awaitedFinal' = awaitedFinal
  BY <1>1 DEF ViewInv, VTypeOK, counts
<1>6. /\ Cardinality(Coming') = Cardinality(Coming) - 1 /\ Cardinality(Coming) \in Nat
      /\ Cardinality(Missing) \in Nat /\ Cardinality(Coming) <= Cardinality(Missing)
  BY <1>3, <1>4, Removal, Smaller, SetsInThread
<1>7. Cardinality(Coming') < awaited'
  <2>1. CASE region = "cancelled"
    BY <1>5, <1>6, <2>1 DEF ViewInv, AwaitedOK
  <2>2. CASE region # "cancelled"
    <3>1. awaited = Cardinality(Missing)
      BY <1>3, <1>4, <2>2 DEF ViewInv, AwaitedOK, Awaits
    <3> QED
      BY <1>5, <1>6, <3>1
  <2> QED
    BY <2>1, <2>2
<1> QED
  BY <1>1, <1>2, <1>5, <1>7 DEF ViewInv, AwaitedOK, FinalOK, AwaitsFinal

(* Moves keep what awaited and awaited_final count.                        *)
LEMMA CountsMoves ==
  ASSUME ViewInv, NEW t \in Thread, VMove(t)
  PROVE  AwaitedOK' /\ FinalOK'
BY CountsArrive, CountsDecrement, CountsDecrementFinal, CountsLast, CountsLeave, CountsQuit,
   CountsCancel DEF VMove

(* Moves keep the opener unique: a thread becomes one only by arriving     *)
(* last.                                                                   *)
LEMMA OpenerMoves ==
  ASSUME ViewInv, NEW t \in Thread, VMove(t)
  PROVE  OpenerOK'
<1>0. OpenerOK
  BY DEF ViewInv
<1>1. CASE t \notin Held /\ at'[t] # "last"
  <2>1. Opener = {} /\ ~waiting
    BY <1>0, <1>1 DEF OpenerOK
  <2>2. Opener' = {} /\ ~waiting'
    BY <1>1, <2>1, Moves DEF Opener, Openers, Held
  <2> QED
    BY <2>2 DEF OpenerOK, Opener, Openers
<1>2. CASE at[t] = "last"
  <2>1. VLast(t)
    BY <1>2 DEF VMove, VArrive, VDecrement, VLast, VLeave, VQuit, VCancel
  <2>2. /\ at'[t] = (IF live = Nothing THEN "open" ELSE "enter") /\ round'[t] = round[t]
        /\ region' = region
    BY <2>1, Moved DEF VLast, ViewInv
  <2>3. Held' = Held /\ Finals' = Finals /\ Opener' = Opener /\ t \in Opener
    BY <1>2, <2>2, Moves DEF Held, Finals, Opener, Openers
  <2>4. \A s \in Thread : at'[s] = "open" => s = t
    BY <1>0, <2>3 DEF OpenerOK, Opener, Openers
  <2> QED
    BY <1>0, <2>2, <2>3, <2>4, Moves DEF OpenerOK
<1>3. CASE at'[t] = "last"
  <2>1. VDecrement(t) /\ region' = region
    BY <1>3, Moved DEF VMove, VArrive, VDecrement, VLast, VLeave, VQuit, VCancel, ViewInv
  <2>2. Held' = Thread /\ (region' = "cancelled" => Finals' = Thread)
    BY <1>3, <2>1, CountsDecrement, CountsDecrementFinal
  <2>3. at[t] = "dec"
    BY <2>1 DEF VDecrement
  <2>4. Opener = {} /\ ~waiting
    BY <1>0, <2>3 DEF OpenerOK, Held, Openers
  <2>5. Opener' = {t} /\ ~waiting'
    BY <1>3, <2>4, Moves DEF Opener, Openers
  <2>6. \A s \in Thread : at'[s] # "open"
    BY <1>3, <2>4, Moves DEF Opener, Openers
  <2> QED
    BY <2>2, <2>5, <2>6 DEF OpenerOK
<1>4. CASE t \in Held /\ at[t] # "last" /\ at'[t] # "last"
  <2>1. region = "cancelled" /\ t \notin Finals /\ at'[t] = "out"
    BY <1>4, Moves DEF Held, Openers
  <2>2. Opener = {} /\ ~waiting
    BY <1>0, <2>1 DEF OpenerOK
  <2>3. Opener' = {} /\ ~waiting'
    BY <2>1, <2>2, Moves DEF Opener, Openers
  <2> QED
    BY <2>3 DEF OpenerOK, Opener, Openers
<1> QED
  BY <1>1, <1>2, <1>3, <1>4
-----------------------------------------------------------------------------
(* The opening, and the steps of tasks.                                    *)

(* Opening the barrier keeps what the view says of the threads.            *)
LEMMA OpenedKeeps ==
  ASSUME ViewInv, Opened, Opener # {} \/ waiting, \A s \in Thread : at[s] # "last",
         live' = Nothing
  PROVE  LateOK' /\ PhaseOK' /\ PlaceOK' /\ AwaitedOK' /\ FinalOK' /\ OpenerOK'
<1> USE SizeFacts
<1>1. /\ Held = Thread /\ (Finals = Thread \/ Finals = {})
      /\ region = "cancelled" => Finals = Thread
      /\ \A s, t \in Thread : round[s] = round[t]
  BY SameRound
<1>2. /\ \A s \in Thread : at'[s] = "late" /\ round'[s] = round[s] /\ round[s] \in 1..Rounds
      /\ region' = region /\ awaited' = awaited /\ awaitedFinal' = awaitedFinal
      /\ awaited \in Int /\ ~waiting' /\ VTypeOK
  BY DEF Opened, counts, ViewInv, VTypeOK
<1>3. Late' = Thread /\ Held' = {} /\ Opener' = {} /\ Finals' = Finals
  BY <1>2 DEF Late, Held, Opener, Openers, Finals
<1>4. LateOK'
  <2>1. \A s \in Thread : Reached(s)' = round'[s]
    BY <1>2 DEF Reached, Outer
  <2>2. \A i \in 1..Rounds : live'[i] = 0
    BY DEF Nothing
  <2>3. ASSUME NEW t \in Thread PROVE 1..round'[t] \subseteq 1..Rounds
    BY <1>2
  <2>4. \A s, t \in Thread : Reached(s)' >= round'[t]
    BY <1>1, <1>2, <2>1
  <2> QED
    BY <1>3, <2>2, <2>3, <2>4 DEF LateOK
<1>5. PhaseOK'
  <2> SUFFICES ASSUME region # "cancelled" PROVE \E p \in 1..Rounds + 1 : InPhase(p)'
    BY <1>2 DEF PhaseOK
  <2>1. PICK u \in Thread : TRUE
    OBVIOUS
  <2>2. PICK p \in 1..Rounds + 1 : p - 1 = round[u]
    <3>1. round[u] + 1 \in 1..Rounds + 1 /\ (round[u] + 1) - 1 = round[u]
      BY <1>2
    <3> QED
      BY <3>1
  <2>3. InPhase(p)'
    BY <1>1, <1>2, <1>3, <2>2 DEF InPhase
  <2> QED
    BY <2>3
<1>6. PlaceOK'
  BY <1>2 DEF PlaceOK
<1>7. Missing' = Thread /\ Lacking' = Thread
  BY <1>3 DEF Missing, Lacking
<1>8. Awaits' = Thread /\ AwaitsFinal' = Thread
  BY <1>7 DEF Awaits, AwaitsFinal
<1>9. Awaits = Thread /\ AwaitsFinal = Thread
  BY <1>1 DEF Awaits, AwaitsFinal, Missing, Lacking
<1>10. region = "cancelled" => Coming' = {} /\ Coming = {}
  BY <1>1, <1>3 DEF Coming
<1>11. AwaitedOK' /\ FinalOK'
  BY <1>2, <1>8, <1>9, <1>10 DEF ViewInv, AwaitedOK, FinalOK
<1>12. OpenerOK'
  BY <1>2, <1>3 DEF OpenerOK, Opener, Openers
<1> QED
  BY <1>4, <1>5, <1>6, <1>11, <1>12

(* A step that changes the tasks and no place, but that of a thread that   *)
(* enters the task loop with the barrier to open, keeps it as well.        *)
LEMMA EnteredKeeps ==
  ASSUME ViewInv, VTypeOK', NEW t \in Thread,
         Entered(t) \/ UNCHANGED <<at, round, region, counts, waiting>>,
         \A u \in Late : \A i \in 1..round[u] : live'[i] = 0,
         waiting' => live' # Nothing,
         (\E s \in Thread : at[s] = "open") => live' = Nothing
  PROVE  LateOK' /\ PhaseOK' /\ PlaceOK' /\ AwaitedOK' /\ FinalOK' /\ OpenerOK'
<1>1. /\ round' = round /\ region' = region /\ counts' = counts
      /\ \A s \in Thread : s # t => at'[s] = at[s]
      /\ \/ at'[t] = at[t] /\ waiting' = waiting
         \/ at[t] = "enter" /\ at'[t] = "held"
  <2>1. CASE Entered(t)
    BY <2>1 DEF Entered, ViewInv, VTypeOK
  <2>2. CASE UNCHANGED <<at, round, region, counts, waiting>>
    BY <2>2
  <2> QED
    BY <2>1, <2>2
<1>2. /\ Held' = Held /\ Late' = Late /\ Finals' = Finals /\ Coming' = Coming
      /\ \A s \in Thread : at'[s] \in {"last", "open", "quit", "end"} \cup Outer
                           \/ at[s] \in {"last", "open", "quit", "end"} \cup Outer => at'[s] = at[s]
  BY <1>1 DEF Held, Late, Finals, Openers, Coming, Outer
<1>3. \A s \in Thread : Reached(s)' = Reached(s)
  BY <1>1, <1>2 DEF Reached
<1>4. LateOK'
  BY <1>1, <1>2, <1>3 DEF LateOK, ViewInv
<1>5. PhaseOK' /\ PlaceOK'
  BY <1>1, <1>2 DEF ViewInv, PhaseOK, InPhase, PlaceOK
<1>6. AwaitedOK' /\ FinalOK'
  BY <1>1, <1>2, CountsSame DEF Missing, Lacking
<1>7. OpenerOK'
  <2>1. CASE at'[t] = at[t]
    <3>1. Opener' = Opener /\ waiting' = waiting
      BY <1>1, <2>1 DEF Opener
    <3> QED
      BY <1>1, <1>2, <3>1 DEF ViewInv, OpenerOK
  <2>2. CASE at[t] = "enter" /\ at'[t] = "held"
    <3>1. t \in Opener /\ \A s \in Opener : s = t
      BY <2>2 DEF ViewInv, OpenerOK, Opener, Openers
    <3>2. Opener' = {}
      BY <1>1, <2>2, <3>1 DEF Opener, Openers
    <3>3. Held = Thread /\ (region = "cancelled" => Finals = Thread)
      BY <3>1, SameRound
    <3>4. \A s \in Thread : at'[s] # "open"
      BY <3>2 DEF Opener, Openers
    <3> QED
      BY <1>1, <1>2, <3>2, <3>3, <3>4 DEF OpenerOK
  <2> QED
    BY <1>1, <2>1, <2>2
<1> QED
  BY <1>4, <1>5, <1>6, <1>7

(* A task that runs is among the unfinished tasks of its phase.            *)
LEMMA RunsLive ==
  ASSUME ViewInv, NEW t \in Thread, NEW r \in 1..Rounds, task[t] = r
  PROVE  live[r] > 0
<1>1. RunningOf(r) \in SUBSET Thread /\ t \in RunningOf(r)
  BY DEF RunningOf
<1>2. Cardinality(RunningOf(r)) \in Nat /\ Cardinality(RunningOf(r)) # 0
  BY <1>1, Smaller
<1>3. live[r] = queued[r] + Cardinality(RunningOf(r)) /\ queued[r] \in Nat
  BY DEF ViewInv, TasksOK, VTypeOK
<1> QED
  BY <1>2, <1>3

(* A count of one phase is changed.                                        *)
LEMMA Counted ==
  ASSUME NEW f \in [1..Rounds -> Nat], NEW r \in 1..Rounds, NEW n \in Nat, NEW g,
         g = [f EXCEPT ![r] = n]
  PROVE  /\ g \in [1..Rounds -> Nat] /\ g[r] = n
         /\ \A i \in 1..Rounds : i # r => g[i] = f[i]
OBVIOUS

(* Steps of tasks keep every unfinished task either queued or running.     *)
LEMMA TasksStep ==
  ASSUME ViewInv, NEW r \in 1..Rounds, NEW t \in Thread, VTaskStep(t, r)
  PROVE  /\ queued' \in [1..Rounds -> Nat] /\ live' \in [1..Rounds -> Nat]
         /\ task' \in [Thread -> 0..Rounds]
         /\ \A i \in 1..Rounds : live'[i] = queued'[i] + Cardinality(RunningOf(i)')
<1>0. /\ queued \in [1..Rounds -> Nat] /\ live \in [1..Rounds -> Nat]
      /\ task \in [Thread -> 0..Rounds] /\ Rounds \in Nat /\ r \in 1..Rounds /\ r # 0
      /\ queued[r] \in Nat /\ live[r] \in Nat
  <2>1. Rounds \in Nat
    BY SizeFacts
  <2> QED
    BY <2>1 DEF ViewInv, VTypeOK
<1>1. \A i \in 1..Rounds : live[i] = queued[i] + Cardinality(RunningOf(i))
  BY DEF ViewInv, TasksOK
<1>2. CASE VTake(t, r)
  <2>1. PICK n \in Nat : n = queued[r] - 1
    <3>1. queued[r] > 0
      BY <1>2 DEF VTake, Took
    <3> QED
      BY <1>0, <3>1
  <2>2. queued' = [queued EXCEPT ![r] = n] /\ live' = live /\ task' = [task EXCEPT ![t] = r] /\ task[t] = 0
    BY <1>2, <2>1 DEF VTake, Took
  <2>3. queued' \in [1..Rounds -> Nat] /\ queued'[r] = n /\ \A i \in 1..Rounds : i # r => queued'[i] = queued[i]
    BY <1>0, <2>2, Counted
  <2>4. /\ task' \in [Thread -> 0..Rounds]
        /\ RunningOf(r) = RunningOf(r)' \ {t} /\ t \in RunningOf(r)'
        /\ \A i \in 1..Rounds : i # r => RunningOf(i)' = RunningOf(i)
    BY <1>0, <2>2 DEF RunningOf
  <2>5. RunningOf(r)' \in SUBSET Thread
    BY DEF RunningOf
  <2>6. Cardinality(RunningOf(r)) = Cardinality(RunningOf(r)') - 1 /\ Cardinality(RunningOf(r)') \in Nat
    BY <2>4, <2>5, Removal
  <2>7. live'[r] = queued'[r] + Cardinality(RunningOf(r)')
    BY <1>0, <1>1, <2>1, <2>2, <2>3, <2>6
  <2> QED
    BY <1>0, <1>1, <2>2, <2>3, <2>4, <2>7
<1>3. CASE VDrop(t, r)
  <2>1. PICK n \in Nat, m \in Nat : n = queued[r] - 1 /\ m = live[r] - 1
    <3>1. queued[r] > 0 /\ live[r] > 0
      BY <1>3 DEF VDrop, Took, Ended
    <3> QED
      BY <1>0, <3>1
  <2>2. queued' = [queued EXCEPT ![r] = n] /\ live' = [live EXCEPT ![r] = m] /\ task' = task
    BY <1>3, <2>1 DEF VDrop, Took, Ended
  <2>3. queued' \in [1..Rounds -> Nat] /\ queued'[r] = n /\ \A i \in 1..Rounds : i # r => queued'[i] = queued[i]
    BY <1>0, <2>2, Counted
  <2>4. live' \in [1..Rounds -> Nat] /\ live'[r] = m /\ \A i \in 1..Rounds : i # r => live'[i] = live[i]
    BY <1>0, <2>2, Counted
  <2>5. \A i \in 1..Rounds : RunningOf(i)' = RunningOf(i)
    BY <2>2 DEF RunningOf
  <2>6. Cardinality(RunningOf(r)) \in Nat
    BY Smaller DEF RunningOf
  <2>7. live'[r] = queued'[r] + Cardinality(RunningOf(r)')
    BY <1>0, <1>1, <2>1, <2>3, <2>4, <2>5, <2>6
  <2> QED
    BY <1>0, <1>1, <2>2, <2>3, <2>4, <2>5, <2>7
<1>4. CASE VEnd(t, r)
  <2>1. PICK m \in Nat : m = live[r] - 1
    <3>1. live[r] > 0
      BY <1>4 DEF VEnd, Ended
    <3> QED
      BY <1>0, <3>1
  <2>2. queued' = queued /\ live' = [live EXCEPT ![r] = m] /\ task' = [task EXCEPT ![t] = 0] /\ task[t] = r
    BY <1>4, <2>1 DEF VEnd, Ended
  <2>4. live' \in [1..Rounds -> Nat] /\ live'[r] = m /\ \A i \in 1..Rounds : i # r => live'[i] = live[i]
    BY <1>0, <2>2, Counted
  <2>5. /\ task' \in [Thread -> 0..Rounds]
        /\ RunningOf(r)' = RunningOf(r) \ {t} /\ t \in RunningOf(r)
        /\ \A i \in 1..Rounds : i # r => RunningOf(i)' = RunningOf(i)
    BY <1>0, <2>2 DEF RunningOf
  <2>6. Cardinality(RunningOf(r)') = Cardinality(RunningOf(r)) - 1 /\ Cardinality(RunningOf(r)) \in Nat
    <3>1. RunningOf(r) \in SUBSET Thread
      BY DEF RunningOf
    <3> QED
      BY <2>5, <3>1, Removal
  <2>7. live'[r] = queued'[r] + Cardinality(RunningOf(r)')
    BY <1>0, <1>1, <2>1, <2>2, <2>4, <2>6
  <2> QED
    BY <1>0, <1>1, <2>2, <2>4, <2>5, <2>7
<1>5. CASE VCreate(t, r)
  <2>1. PICK n \in Nat, m \in Nat : n = queued[r] + 1 /\ m = live[r] + 1
    BY <1>0
  <2>2. queued' = [queued EXCEPT ![r] = n] /\ live' = [live EXCEPT ![r] = m] /\ task' = task
    BY <1>5, <2>1 DEF VCreate
  <2>3. queued' \in [1..Rounds -> Nat] /\ queued'[r] = n /\ \A i \in 1..Rounds : i # r => queued'[i] = queued[i]
    BY <1>0, <2>2, Counted
  <2>4. live' \in [1..Rounds -> Nat] /\ live'[r] = m /\ \A i \in 1..Rounds : i # r => live'[i] = live[i]
    BY <1>0, <2>2, Counted
  <2>5. \A i \in 1..Rounds : RunningOf(i)' = RunningOf(i)
    BY <2>2 DEF RunningOf
  <2>6. Cardinality(RunningOf(r)) \in Nat
    BY Smaller DEF RunningOf
  <2>7. live'[r] = queued'[r] + Cardinality(RunningOf(r)')
    BY <1>0, <1>1, <2>1, <2>3, <2>4, <2>5, <2>6
  <2> QED
    BY <1>0, <1>1, <2>2, <2>3, <2>4, <2>5, <2>7
<1> QED
  BY <1>2, <1>3, <1>4, <1>5 DEF VTaskStep

(* If the larger counts are all 0, so are the smaller ones.                *)
LEMMA NoneLeft ==
  ASSUME NEW f \in [1..Rounds -> Nat], NEW g \in [1..Rounds -> Nat], f = Nothing,
         \A i \in 1..Rounds : \E n \in Nat : f[i] = g[i] + n
  PROVE  g = Nothing
<1>1. ASSUME NEW i \in 1..Rounds PROVE g[i] = 0
  <2>1. PICK n \in Nat : f[i] = g[i] + n
    OBVIOUS
  <2>2. f[i] = 0 /\ g[i] \in Nat
    BY DEF Nothing
  <2> QED
    BY <2>1, <2>2
<1> QED
  BY <1>1 DEF Nothing

(* With no unfinished task none is queued ...                              *)
LEMMA NothingQueued ==
  ASSUME queued \in [1..Rounds -> Nat], live \in [1..Rounds -> Nat], live = Nothing,
         \A i \in 1..Rounds : live[i] = queued[i] + Cardinality(RunningOf(i))
  PROVE  queued = Nothing
<1>1. \A i \in 1..Rounds : Cardinality(RunningOf(i)) \in Nat
  BY Smaller DEF RunningOf
<1> QED
  BY <1>1, NoneLeft

(* ... in the next state as well.                                          *)
LEMMA NothingQueuedNext ==
  ASSUME queued' \in [1..Rounds -> Nat], live' \in [1..Rounds -> Nat], live' = Nothing,
         \A i \in 1..Rounds : live'[i] = queued'[i] + Cardinality(RunningOf(i)')
  PROVE  queued' = Nothing
<1>1. \A i \in 1..Rounds : Cardinality(RunningOf(i)') \in Nat
  BY Smaller DEF RunningOf
<1> QED
  BY <1>1, NoneLeft

(* The moves keep the invariant of the view,                               *)
LEMMA MoveInv ==
  ASSUME ViewInv, NEW t \in Thread, VMove(t)
  PROVE  ViewInv'
<1>0. VTypeOK /\ TasksOK
  BY DEF ViewInv
<1>1. at' \in [Thread -> Places]
  BY <1>0 DEF VMove, VArrive, VDecrement, VLast, VLeave, VQuit, VCancel, Move, VTypeOK, Places, Openers, Outer
<1>2. round' \in [Thread -> 1..Rounds]
  <2>1. PICK n \in 1..Rounds : round' = [round EXCEPT ![t] = n]
    <3>1. Rounds \in 1..Rounds /\ round[t] \in 1..Rounds /\ (t \notin Finals => round[t] + 1 \in 1..Rounds)
      BY <1>0, SizeFacts DEF VTypeOK, Finals
    <3> QED
      BY <3>1 DEF VMove, VArrive, VDecrement, VLast, VLeave, VQuit, VCancel, Move
  <2> QED
    BY <1>0, <2>1 DEF VTypeOK
<1>3. awaited' \in Int /\ awaitedFinal' \in Int
  BY <1>0, SizeFacts DEF VTypeOK, VMove, VArrive, VDecrement, VLast, VLeave, VQuit, VCancel, counts
<1>4. VTypeOK'
  BY <1>0, <1>1, <1>2, <1>3, Moves DEF VTypeOK
<1>5. TasksOK'
  BY <1>0, Moves DEF TasksOK, RunningOf
<1> QED
  BY <1>4, <1>5, PhaseMoves, LateMoves, CountsMoves, OpenerMoves DEF ViewInv

(* the opening of the barrier keeps it,                                    *)
LEMMA OpenInv ==
  ASSUME ViewInv, NEW t \in Thread, VOpen(t)
  PROVE  ViewInv'
<1>1. t \in Opener
  BY DEF VOpen, Opener, Openers
<1>2. \A s \in Thread : at[s] # "last"
  BY <1>1 DEF ViewInv, OpenerOK, VOpen, Opener, Openers
<1>3. LateOK' /\ PhaseOK' /\ PlaceOK' /\ AwaitedOK' /\ FinalOK' /\ OpenerOK'
  BY <1>1, <1>2, OpenedKeeps DEF VOpen, work
<1>4. VTypeOK'
  BY DEF ViewInv, VTypeOK, VOpen, Opened, work, counts, Places
<1>5. queued' = Nothing /\ ~pending'
  BY NothingQueued DEF ViewInv, VTypeOK, TasksOK, VOpen, Opened, work
<1>6. TasksOK'
  BY <1>5 DEF ViewInv, TasksOK, RunningOf, VOpen, work
<1> QED
  BY <1>3, <1>4, <1>6 DEF ViewInv

(* entering the task loop keeps it,                                        *)
LEMMA EnterInv ==
  ASSUME ViewInv, NEW t \in Thread, VEnter(t)
  PROVE  ViewInv'
<1>1. Entered(t) /\ live' = live /\ queued' = queued /\ task' = task /\ pending' = pending
  BY DEF VEnter, work
<1>2. VTypeOK'
  BY <1>1 DEF ViewInv, VTypeOK, Entered, counts, Places
<1>3. TasksOK'
  BY <1>1 DEF ViewInv, TasksOK, RunningOf
<1>4. waiting' => live' # Nothing
  BY <1>1 DEF Entered, ViewInv, OpenerOK
<1>5. LateOK' /\ PhaseOK' /\ PlaceOK' /\ AwaitedOK' /\ FinalOK' /\ OpenerOK'
  BY <1>1, <1>2, <1>4, EnteredKeeps DEF ViewInv, LateOK, OpenerOK
<1> QED
  BY <1>2, <1>3, <1>5 DEF ViewInv

(* and so does taking, dropping, ending or creating a task.                *)
LEMMA TaskInv ==
  ASSUME ViewInv, NEW t \in Thread, NEW r \in 1..Rounds, VTaskStep(t, r)
  PROVE  ViewInv'
<1>0. /\ queued' \in [1..Rounds -> Nat] /\ live' \in [1..Rounds -> Nat]
      /\ task' \in [Thread -> 0..Rounds]
      /\ \A i \in 1..Rounds : live'[i] = queued'[i] + Cardinality(RunningOf(i)')
  BY TasksStep
<1>1. CASE live' = Nothing /\ (waiting \/ at[t] = "enter") /\ Opened
  <2>1. Opener # {} \/ waiting
    BY <1>1 DEF Opener, Openers
  <2>2. \A s \in Thread : at[s] # "last"
    BY <1>1 DEF ViewInv, OpenerOK, Opener, Openers
  <2>3. LateOK' /\ PhaseOK' /\ PlaceOK' /\ AwaitedOK' /\ FinalOK' /\ OpenerOK'
    BY <1>1, <2>1, <2>2, OpenedKeeps
  <2>4. VTypeOK'
    BY <1>0, <1>1 DEF ViewInv, VTypeOK, Opened, counts, Places
  <2>5. TasksOK'
    BY <1>0, <1>1, NothingQueuedNext DEF TasksOK, Opened
  <2> QED
    BY <2>3, <2>4, <2>5 DEF ViewInv
<1>2. CASE /\ Entered(t) \/ UNCHANGED <<at, round, region, counts, waiting>>
           /\ pending' \in BOOLEAN /\ (pending' <=> queued' # Nothing)
           /\ waiting' => live' # Nothing
           /\ live' = live \/ Ended(r) \/ VCreate(t, r)
  <2>1. VTypeOK'
    BY <1>0, <1>2 DEF ViewInv, VTypeOK, Entered, counts, Places
  <2>2. TasksOK'
    BY <1>0, <1>2 DEF TasksOK
  <2>3. VCreate(t, r) => \A s \in Thread : at[s] # "open"
    <3> SUFFICES ASSUME VCreate(t, r), NEW s \in Thread, at[s] = "open" PROVE FALSE
      OBVIOUS
    <3>1. live = Nothing /\ Held = Thread
      BY DEF ViewInv, OpenerOK, Opener, Openers
    <3>2. at[t] # "out"
      BY <3>1 DEF Held, Openers
    <3>3. task[t] = r
      BY <3>2 DEF VCreate
    <3> QED
      BY <3>1, <3>3, RunsLive DEF Nothing
  <2>4. (\E s \in Thread : at[s] = "open") => live' = Nothing
    <3>1. (\E s \in Thread : at[s] = "open") => live = Nothing
      BY DEF ViewInv, OpenerOK
    <3>2. Ended(r) => live # Nothing
      <4>1. live = Nothing => live[r] = 0
        BY DEF Nothing
      <4> QED
        BY <4>1 DEF Ended
    <3> QED
      BY <1>2, <2>3, <3>1, <3>2
  <2>5. ASSUME NEW u \in Late, NEW i \in 1..round[u] PROVE live'[i] = 0
    <3>1. live[i] = 0 /\ Reached(t) >= round[u] /\ i \in 1..Rounds /\ round[t] \in Int /\ round[u] \in 1..Rounds
      <4>1. Rounds \in Nat /\ u \in Thread
        BY SizeFacts DEF Late
      <4> QED
        BY <4>1 DEF ViewInv, VTypeOK, LateOK
    <3>2. CASE live' = live
      BY <3>1, <3>2
    <3>3. CASE Ended(r)
      <4>1. i # r
        BY <3>1, <3>3 DEF Ended
      <4> QED
        BY <3>1, <3>3, <4>1 DEF Ended, ViewInv, VTypeOK
    <3>4. CASE VCreate(t, r)
      <4>1. i # r
        <5>1. CASE task[t] = r
          BY <3>1, <5>1, RunsLive
        <5>2. CASE at[t] = "out" /\ r = round[t]
          BY <3>1, <5>2 DEF Reached, Outer
        <5> QED
          BY <3>4, <5>1, <5>2 DEF VCreate
      <4>2. live' = [live EXCEPT ![r] = live[r] + 1]
        BY <3>4 DEF VCreate
      <4> QED
        BY <3>1, <4>1, <4>2 DEF ViewInv, VTypeOK
    <3> QED
      BY <1>2, <3>2, <3>3, <3>4
  <2>6. LateOK' /\ PhaseOK' /\ PlaceOK' /\ AwaitedOK' /\ FinalOK' /\ OpenerOK'
    BY <1>2, <2>1, <2>4, <2>5, EnteredKeeps
  <2> QED
    BY <2>1, <2>2, <2>6 DEF ViewInv
<1>3. CASE VTake(t, r)
  <2>1. waiting' => live' # Nothing
    BY <1>3 DEF VTake, Entered, ViewInv, OpenerOK
  <2> QED
    BY <1>2, <1>3, <2>1 DEF VTake
<1>4. CASE VDrop(t, r)
  <2>1. CASE live' = Nothing /\ (waiting \/ at[t] = "enter")
    BY <1>1, <1>4, <2>1 DEF VDrop
  <2>2. CASE ~(live' = Nothing /\ (waiting \/ at[t] = "enter"))
    <3>1. Entered(t) /\ pending' = (queued' # Nothing) /\ Ended(r)
      BY <1>4, <2>2 DEF VDrop
    <3>2. waiting' => live' # Nothing
      BY <2>2, <3>1 DEF Entered
    <3> QED
      BY <1>2, <3>1, <3>2
  <2> QED
    BY <2>1, <2>2
<1>5. CASE VEnd(t, r)
  <2>1. CASE live' = Nothing /\ waiting
    BY <1>1, <1>5, <2>1 DEF VEnd
  <2>2. CASE ~(live' = Nothing /\ waiting)
    <3>1. /\ UNCHANGED <<at, round, region, counts, waiting>> /\ pending' = pending
          /\ queued' = queued /\ Ended(r)
      BY <1>5, <2>2 DEF VEnd, words
    <3>2. pending' \in BOOLEAN /\ (pending' <=> queued' # Nothing)
      BY <3>1 DEF ViewInv, VTypeOK, TasksOK
    <3> QED
      BY <1>2, <2>2, <3>1, <3>2
  <2> QED
    BY <2>1, <2>2
<1>6. CASE VCreate(t, r)
  <2>1. /\ queued' = [queued EXCEPT ![r] = queued[r] + 1] /\ live' = [live EXCEPT ![r] = live[r] + 1]
        /\ queued \in [1..Rounds -> Nat] /\ live \in [1..Rounds -> Nat]
    BY <1>6 DEF VCreate, ViewInv, VTypeOK
  <2>2. queued'[r] # 0 /\ live'[r] # 0
    BY <2>1
  <2>3. queued' # Nothing /\ live' # Nothing
    BY <2>2 DEF Nothing
  <2> QED
    BY <1>2, <1>6, <2>3 DEF VCreate
<1> QED
  BY <1>3, <1>4, <1>5, <1>6 DEF VTaskStep

(* The invariant of the view is inductive.                                 *)
LEMMA ViewStepInv ==
  ASSUME ViewInv, VNext
  PROVE  ViewInv'
<1>1. CASE VSame
  <2> USE <1>1 DEF VSame, words, counts, work
  <2>1. VTypeOK' /\ PlaceOK' /\ TasksOK'
    BY DEF ViewInv, VTypeOK, PlaceOK, Finals, TasksOK, RunningOf
  <2>2. PhaseOK' /\ LateOK'
    BY DEF ViewInv, PhaseOK, InPhase, LateOK, Late, Reached
  <2>3. AwaitedOK' /\ FinalOK' /\ OpenerOK'
    BY DEF ViewInv, AwaitedOK, Awaits, Missing, Coming, FinalOK, AwaitsFinal, Lacking, Held,
           Finals, OpenerOK, Opener
  <2> QED
    BY <2>1, <2>2, <2>3 DEF ViewInv
<1>2. ASSUME NEW t \in Thread, VStep(t) PROVE ViewInv'
  BY <1>2, MoveInv, OpenInv, EnterInv DEF VStep, VMove
<1>3. ASSUME NEW t \in Thread, NEW r \in 1..Rounds, VTaskStep(t, r) PROVE ViewInv'
  BY <1>3, TaskInv
<1> QED
  BY <1>1, <1>2, <1>3 DEF VNext
-----------------------------------------------------------------------------
(* The view implements Barrier.                                            *)

Passed(t) == IF at[t] = "end" THEN Rounds ELSE round[t] - 1

(* The variables of Barrier are functions of the view ...                  *)
LEMMA ViewOfBarrier ==
  ASSUME TypeOK, LocalOK
  PROVE  arrived = [t \in Thread |-> Reached(t)] /\ passed = [t \in Thread |-> Passed(t)]
<1>1. ASSUME NEW t \in Thread
      PROVE  /\ at[t] \in Outer <=> \/ thr[t].pc \in {"work", "dec"}
                                    \/ thr[t].pc = "wake" /\ thr[t].back \in {"work", "quit"}
             /\ at[t] = "end" <=> thr[t].pc = "end"
             /\ round[t] = thr[t].round
  BY DEF TypeOK, LocalOK, Labels, Local, Backs, at, Place, Pc, Outer, round
<1> QED
  BY <1>1 DEF arrived, passed, Reached, Passed

(* ... in the next state as well.                                          *)
LEMMA ViewOfBarrierNext ==
  ASSUME TypeOK', LocalOK'
  PROVE  arrived' = [t \in Thread |-> Reached(t)'] /\ passed' = [t \in Thread |-> Passed(t)']
<1>1. ASSUME NEW t \in Thread
      PROVE  /\ at'[t] \in Outer <=> \/ thr'[t].pc \in {"work", "dec"}
                                     \/ thr'[t].pc = "wake" /\ thr'[t].back \in {"work", "quit"}
             /\ at'[t] = "end" <=> thr'[t].pc = "end"
             /\ round'[t] = thr'[t].round
  BY DEF TypeOK, LocalOK, Labels, Local, Backs, at, Place, Pc, Outer, round
<1> QED
  BY <1>1 DEF arrived, passed, Reached, Passed

(* arrived and passed follow from places and rounds.                       *)
Mapped == /\ arrived = [t \in Thread |-> Reached(t)]
          /\ passed = [t \in Thread |-> Passed(t)]

(* A move is Arrive, Pass, Skip or Cancel of Barrier, or unseen.           *)
LEMMA MoveRefines ==
  ASSUME ViewInv, NEW t \in Thread, VMove(t), Mapped, Mapped'
  PROVE  [B!Next]_B!vars
<1>0. /\ \A s \in Thread : round[s] \in 1..Rounds /\ at[s] \in Places
      /\ Rounds \in Nat \ {0} /\ live' = live
  BY SizeFacts, Moves DEF ViewInv, VTypeOK
<1>1. \A s \in Thread : s # t => Reached(s)' = Reached(s) /\ Passed(s)' = Passed(s)
  BY Moves DEF Reached, Passed
<1>2. \A s \in Thread : arrived[s] = Reached(s) /\ passed[s] = Passed(s)
  BY DEF Mapped
<1>3. \A n : Reached(t)' = n => arrived' = [arrived EXCEPT ![t] = n]
  BY <1>1 DEF Mapped
<1>4. \A n : Passed(t)' = n => passed' = [passed EXCEPT ![t] = n]
  BY <1>1 DEF Mapped
<1>5. (Reached(t)' = Reached(t) => arrived' = arrived) /\ (Passed(t)' = Passed(t) => passed' = passed)
  BY <1>1 DEF Mapped
<1>6. CASE \/ at[t] = "out" /\ at'[t] = "dec" /\ round'[t] = round[t]
           \/ at[t] = "last" /\ at'[t] \in {"open", "enter"} /\ round'[t] = round[t]
  <2>1. region' = region
    BY <1>6, <1>0, Moved DEF VMove, VArrive, VDecrement, VLast, VLeave, VQuit, VCancel, ViewInv
  <2>2. Reached(t)' = Reached(t) /\ Passed(t)' = Passed(t)
    BY <1>6 DEF Reached, Passed, Outer
  <2> QED
    BY <1>0, <1>5, <2>1, <2>2 DEF B!vars
<1>7. CASE at[t] = "dec" /\ at'[t] \in {"last", "held"} /\ round'[t] = round[t]
  <2>1. region' = region
    BY <1>7 DEF VMove, VArrive, VDecrement, VLast, VLeave, VQuit, VCancel
  <2>2. /\ Reached(t) = round[t] - 1 /\ Reached(t)' = round[t]
        /\ Passed(t)' = Passed(t) /\ Passed(t) = round[t] - 1
    BY <1>7 DEF Reached, Passed, Outer
  <2>3. arrived[t] = passed[t] /\ arrived[t] < Rounds /\ arrived[t] + 1 = round[t]
    BY <1>0, <1>2, <2>2
  <2>4. arrived' = [arrived EXCEPT ![t] = arrived[t] + 1] /\ passed' = passed
    BY <1>3, <1>5, <2>2, <2>3
  <2>5. B!Arrive(t)
    BY <1>0, <2>1, <2>3, <2>4 DEF B!Arrive
  <2> QED
    BY <2>5 DEF B!Next
<1>8. CASE at[t] = "late" /\ (\/ at'[t] = "end" /\ round'[t] = round[t] /\ t \in Finals
                              \/ at'[t] = "out" /\ round'[t] = round[t] + 1 /\ t \notin Finals)
  <2>1. region' = region
    BY <1>8 DEF VMove, VArrive, VDecrement, VLast, VLeave, VQuit, VCancel
  <2>2. /\ Reached(t) = round[t] /\ Passed(t) = round[t] - 1
        /\ Reached(t)' = Reached(t) /\ Passed(t)' = round[t]
    BY <1>0, <1>8 DEF Reached, Passed, Outer, Finals
  <2>3. t \in Late
    BY <1>8 DEF Late
  <2>4. (\A s \in Thread : arrived[s] >= arrived[t]) /\ \A i \in 1..arrived[t] : live[i] = 0
    BY <1>2, <2>2, <2>3 DEF ViewInv, LateOK
  <2>5. passed[t] < arrived[t] /\ passed[t] + 1 = round[t]
    BY <1>0, <1>2, <2>2
  <2>6. arrived' = arrived /\ passed' = [passed EXCEPT ![t] = passed[t] + 1]
    BY <1>4, <1>5, <2>2, <2>5
  <2>7. B!Pass(t)
    BY <1>0, <2>1, <2>4, <2>5, <2>6 DEF B!Pass
  <2> QED
    BY <2>7 DEF B!Next
<1>9. CASE at[t] = "out" /\ at'[t] = "quit" /\ round'[t] = round[t] /\ region' = "cancelled"
  <2>1. arrived' = arrived /\ passed' = passed
    BY <1>5, <1>9 DEF Reached, Passed, Outer
  <2>2. CASE region = "cancelled"
    BY <1>0, <1>9, <2>1, <2>2 DEF B!vars
  <2>3. CASE region # "cancelled"
    BY <1>0, <1>9, <2>1, <2>3 DEF B!Next, B!Cancel
  <2> QED
    BY <2>2, <2>3
<1>10. CASE /\ at[t] \in {"dec", "held", "late", "quit", "out"} /\ at'[t] = "out" /\ round'[t] = Rounds
            /\ region = "cancelled" /\ t \notin Finals
  <2>1. region' = region
    BY <1>10, Moves
  <2>2. Reached(t)' = Rounds - 1 /\ Passed(t)' = Rounds - 1
    BY <1>10 DEF Reached, Passed, Outer
  <2>3. passed[t] < Rounds - 1
    <3>1. passed[t] = round[t] - 1 /\ round[t] # Rounds
      BY <1>2, <1>10 DEF Passed, Finals
    <3> QED
      BY <1>0, <3>1
  <2>4. B!Skip(t)
    BY <1>0, <1>3, <1>4, <1>10, <2>1, <2>2, <2>3 DEF B!Skip
  <2> QED
    BY <2>4 DEF B!Next
<1> QED
  BY <1>6, <1>7, <1>8, <1>9, <1>10, Moves

(* The opening of the barrier is not seen: its threads pass later.         *)
LEMMA OpenedUnseen ==
  ASSUME ViewInv, Opened, Opener # {} \/ waiting, Mapped, Mapped'
  PROVE  arrived' = arrived /\ passed' = passed /\ region' = region
<1>1. \A s \in Thread : at[s] \in Openers \cup {"held"}
  BY SameRound DEF Held
<1>2. \A s \in Thread : at'[s] = "late" /\ round'[s] = round[s]
  BY DEF Opened
<1>3. \A s \in Thread : Reached(s)' = Reached(s) /\ Passed(s)' = Passed(s)
  BY <1>1, <1>2 DEF Reached, Passed, Outer, Openers
<1> QED
  BY <1>3 DEF Mapped, Opened

(* That a thread enters the task loop is not seen either.                  *)
LEMMA EnteredUnseen ==
  ASSUME ViewInv, NEW t \in Thread, Entered(t) \/ UNCHANGED <<at, round, region>>, Mapped, Mapped'
  PROVE  arrived' = arrived /\ passed' = passed /\ region' = region
<1>1. /\ \A s \in Thread : at'[s] = at[s] \/ (at[s] = "enter" /\ at'[s] = "held")
      /\ round' = round /\ region' = region
  BY DEF ViewInv, VTypeOK, Entered
<1>3. \A s \in Thread : Reached(s)' = Reached(s) /\ Passed(s)' = Passed(s)
  BY <1>1 DEF Reached, Passed, Outer
<1> QED
  BY <1>1, <1>3 DEF Mapped

(* Steps of tasks are Create or End of Barrier, or unseen.                 *)
LEMMA TaskRefines ==
  ASSUME ViewInv, NEW t \in Thread, NEW r \in 1..Rounds, VTaskStep(t, r), Mapped, Mapped'
  PROVE  [B!Next]_B!vars
<1>1. CASE VTake(t, r)
  BY <1>1, EnteredUnseen DEF VTake, B!vars
<1>2. CASE VDrop(t, r) \/ VEnd(t, r)
  <2>1. arrived' = arrived /\ passed' = passed /\ region' = region
    <3>1. CASE Opened /\ (waiting \/ at[t] = "enter")
      BY <3>1, OpenedUnseen DEF Opener, Openers
    <3>2. CASE Entered(t) \/ UNCHANGED <<at, round, region>>
      BY <3>2, EnteredUnseen
    <3> QED
      BY <1>2, <3>1, <3>2 DEF VDrop, VEnd
  <2>2. Ended(r)
    BY <1>2 DEF VDrop, VEnd
  <2>3. B!End(r)
    BY <2>1, <2>2 DEF Ended, B!End
  <2> QED
    BY <2>3 DEF B!Next
<1>3. CASE VCreate(t, r)
  <2>1. arrived' = arrived /\ passed' = passed /\ region' = region
    BY <1>3, EnteredUnseen DEF VCreate
  <2>2. live[r] > 0 \/ (arrived[t] = r - 1 /\ passed[t] = r - 1)
    <3>1. CASE task[t] = r
      BY <3>1, RunsLive
    <3>2. CASE at[t] = "out" /\ r = round[t]
      BY <3>2 DEF Mapped, Reached, Passed, Outer
    <3> QED
      BY <1>3, <3>1, <3>2 DEF VCreate
  <2>3. B!Create(r)
    BY <1>3, <2>1, <2>2 DEF VCreate, B!Create
  <2> QED
    BY <2>3 DEF B!Next
<1> QED
  BY <1>1, <1>2, <1>3 DEF VTaskStep

(* A step of the view is one of Barrier, or unseen there.                  *)
LEMMA ViewRefines ==
  ASSUME ViewInv, VNext, Mapped, Mapped'
  PROVE  [B!Next]_B!vars
<1>1. CASE VSame
  <2>1. arrived' = arrived /\ passed' = passed
    BY <1>1 DEF VSame, Mapped, Reached, Passed
  <2> QED
    BY <1>1, <2>1 DEF VSame, work, B!vars
<1>2. ASSUME NEW t \in Thread, VOpen(t) PROVE [B!Next]_B!vars
  BY <1>2, OpenedUnseen DEF VOpen, work, Opener, Openers, B!vars
<1>3. ASSUME NEW t \in Thread, VEnter(t) PROVE [B!Next]_B!vars
  BY <1>3, EnteredUnseen DEF VEnter, work, B!vars
<1>4. ASSUME NEW t \in Thread, VMove(t) PROVE [B!Next]_B!vars
  BY <1>4, MoveRefines
<1> QED
  BY <1>1, <1>2, <1>3, <1>4, TaskRefines DEF VNext, VStep, VMove
-----------------------------------------------------------------------------
(* A step of the barrier is one of the view.                               *)

Rec == [pc : Labels, round : 1..Rounds, state : Word, last : BOOLEAN,
        expect : Word, of : 1..Rounds, count : {0, 1},
        back : Labels \cup {"leave", "quit", "return"}]

(* What holds of a thread before Tidy: all but what is said of last.       *)
Loose(T, c, x) ==
  /\ ~T.state.pending /\ ~T.state.waiting
  /\ T.state.cancelled => x
  /\ T.pc \in Spinning \cup {"dec"} => ~T.last
  /\ T.pc \in {"last", "open"} => T.last
  /\ T.pc = "wake" => T.back \in Backs
  /\ Place(T, c) \in Openers \cup {"dec"} => T.state.count = c

(* The arithmetic on generation: adding BAR_INCR changes the counter, also *)
(* when it wraps around, and no flag.                                      *)
LEMMA WordFacts ==
  /\ Zero \in Word /\ Counter \in Nat \ {0, 1}
  /\ \A w \in Word : Plain(w) \in Word /\ Uncancelled(w) \in Word /\ Incr(w) \in Word
  /\ \A w \in Word : Incr(w).count # w.count /\ Incr(w).pending = w.pending
                     /\ Incr(w).waiting = w.waiting /\ Incr(w).cancelled = w.cancelled
<1>1. Counter \in Nat \ {0, 1}
  BY BarrierAssumption
<1>2. Zero \in Word
  BY <1>1 DEF Zero, Word
<1>3. ASSUME NEW w \in Word
      PROVE  /\ Plain(w) \in Word /\ Uncancelled(w) \in Word /\ Incr(w) \in Word
             /\ Incr(w).count # w.count /\ Incr(w).pending = w.pending
             /\ Incr(w).waiting = w.waiting /\ Incr(w).cancelled = w.cancelled
  <2>1. Plain(w) \in Word /\ Uncancelled(w) \in Word
    BY <1>2 DEF Plain, Uncancelled, Word, Zero
  <2>2. PICK n \in 0..Counter - 1 : n = (IF w.count + 1 = Counter THEN 0 ELSE w.count + 1)
    BY <1>1 DEF Word
  <2>3. n # w.count
    BY <1>1, <2>2 DEF Word
  <2>4. Incr(w) = [w EXCEPT !.count = n]
    BY <2>2 DEF Incr, Word
  <2> QED
    BY <2>1, <2>3, <2>4 DEF Word
<1> QED
  BY <1>1, <1>2, <1>3

(* Resetting the variables a thread does not read again is not seen.       *)
LEMMA TidyView ==
  ASSUME NEW T \in Rec, NEW c, NEW x
  PROVE  /\ Tidy(T) \in Rec /\ Tidy(T).round = T.round /\ Tidy(T).pc = T.pc
         /\ Place(Tidy(T), c) = Place(T, c) /\ TaskOf(Tidy(T)) = TaskOf(T)
         /\ Loose(T, c, x) => Local(Tidy(T), c, x)
<1> DEFINE inside == Pc(T) \notin {"work", "end", "leave", "quit"}
<1>0. Zero \in Word /\ 1 \in 1..Rounds /\ Zero.pending = FALSE /\ Zero.waiting = FALSE /\ Zero.cancelled = FALSE
  BY WordFacts, SizeFacts DEF Zero
<1>1. /\ Tidy(T) \in Rec /\ Tidy(T).round = T.round /\ Tidy(T).pc = T.pc
      /\ Tidy(T).state = (IF inside THEN T.state ELSE Zero)
      /\ Tidy(T).last = (inside /\ T.last)
      /\ Tidy(T).of = (IF Pc(T) = "task" THEN T.of ELSE 1)
      /\ T.pc = "wake" => Tidy(T).back = T.back
  <2> DEFINE s == IF inside THEN T.state ELSE Zero
             l == inside /\ T.last
             e == IF inside THEN T.expect ELSE Zero
             o == IF Pc(T) = "task" THEN T.of ELSE 1
             b == IF T.pc = "wake" THEN T.back ELSE "work"
             n == IF T.pc = "wake" THEN T.count ELSE 0
  <2>1. /\ s \in Word /\ e \in Word /\ l \in BOOLEAN /\ o \in 1..Rounds /\ n \in {0, 1}
        /\ b \in Labels \cup {"leave", "quit", "return"}
    BY <1>0 DEF Rec, Labels
  <2>2. Tidy(T) = [T EXCEPT !.state = s, !.expect = e, !.last = l, !.of = o, !.back = b, !.count = n]
    BY DEF Tidy, Rec, Pc
  <2>4. T.pc = "wake" => b = T.back
    OBVIOUS
  <2> HIDE DEF inside, s, l, e, o, b, n
  <2>3. Tidy(T) \in Rec
    BY <2>1, <2>2 DEF Rec
  <2>5. /\ Tidy(T).round = T.round /\ Tidy(T).pc = T.pc /\ Tidy(T).state = s /\ Tidy(T).last = l
        /\ Tidy(T).of = o /\ Tidy(T).back = b
    BY <2>1, <2>2 DEF Rec
  <2> QED
    BY <2>3, <2>4, <2>5 DEF s, l, o
<1>2. Pc(Tidy(T)) = Pc(T)
  BY <1>1 DEF Pc
<1>3. Place(Tidy(T), c) = Place(T, c)
  BY <1>1, <1>2 DEF Place
<1>4. TaskOf(Tidy(T)) = TaskOf(T)
  BY <1>1, <1>2 DEF TaskOf
<1>5. Loose(T, c, x) => Local(Tidy(T), c, x)
  <2> SUFFICES ASSUME Loose(T, c, x) PROVE Local(Tidy(T), c, x)
    OBVIOUS
  <2>1. Place(T, c) \in Openers \cup {"dec"} => inside
    BY DEF Place, Openers
  <2>2. T.pc \in {"last", "open"} => inside
    BY DEF Pc
  <2> QED
    BY <1>0, <1>1, <1>2, <1>3, <2>1, <2>2 DEF Loose, Local
<1> QED
  BY <1>1, <1>3, <1>4, <1>5

(* One thread's record changes, the counter of generation does not.        *)
LEMMA OneThread ==
  ASSUME thr \in [Thread -> Rec], NEW t \in Thread, NEW T1, thr' = [thr EXCEPT ![t] = T1],
         generation'.count = generation.count
  PROVE  /\ at' = [at EXCEPT ![t] = Place(T1, generation.count)]
         /\ round' = [round EXCEPT ![t] = T1.round]
         /\ task' = [task EXCEPT ![t] = TaskOf(T1)]
BY DEF at, round, task

(* The same when the record is tidied.                                     *)
LEMMA OneBecomes ==
  ASSUME thr \in [Thread -> Rec], NEW t \in Thread, NEW T \in Rec, Becomes(t, T),
         generation'.count = generation.count
  PROVE  /\ at' = [at EXCEPT ![t] = Place(T, generation.count)]
         /\ round' = [round EXCEPT ![t] = T.round]
         /\ task' = [task EXCEPT ![t] = TaskOf(T)]
<1>1. \A c : Place(Tidy(T), c) = Place(T, c) /\ TaskOf(Tidy(T)) = TaskOf(T) /\ Tidy(T).round = T.round
  BY TidyView
<1>2. thr' = [thr EXCEPT ![t] = Tidy(T)]
  BY DEF Becomes
<1>3. /\ at' = [at EXCEPT ![t] = Place(Tidy(T), generation.count)]
      /\ round' = [round EXCEPT ![t] = Tidy(T).round]
      /\ task' = [task EXCEPT ![t] = TaskOf(Tidy(T))]
  BY <1>2, OneThread
<1> QED
  BY <1>1, <1>3

Shape == /\ generation \in Word /\ awaited \in Int /\ awaitedFinal \in Int
         /\ region \in {"plain", "cancellable", "cancelled"}
         /\ queued \in [1..Rounds -> Nat] /\ live \in [1..Rounds -> Nat] /\ created \in Nat
         /\ thr \in [Thread -> Rec]

IsCancelled == region = "cancelled"

(* What the invariant says of one thread.                                  *)
LEMMA ThreadFacts ==
  ASSUME BarrierInv, NEW t \in Thread
  PROVE  /\ Shape /\ thr[t] \in Rec /\ thr[t].state \in Word /\ thr[t].round \in 1..Rounds
         /\ thr[t].pc \in Labels
         /\ Local(thr[t], generation.count, IsCancelled)
         /\ at[t] = Place(thr[t], generation.count) /\ round[t] = thr[t].round
         /\ task[t] = TaskOf(thr[t]) /\ (t \in Finals <=> Final(thr[t]))
<1>1. Shape /\ thr[t] \in Rec
  BY DEF BarrierInv, TypeOK, Shape, Rec
<1>2. thr[t].state \in Word /\ thr[t].round \in 1..Rounds /\ thr[t].pc \in Labels
  BY <1>1 DEF Rec
<1>3. Local(thr[t], generation.count, IsCancelled)
  BY DEF BarrierInv, LocalOK, IsCancelled
<1>4. at[t] = Place(thr[t], generation.count) /\ round[t] = thr[t].round /\ task[t] = TaskOf(thr[t])
  BY DEF at, round, task
<1> QED
  BY <1>1, <1>2, <1>3, <1>4 DEF Finals, Final

(* A step of one thread that does not open the barrier.                    *)
LEMMA Changed ==
  ASSUME BarrierInv, NEW t \in Thread, NEW T \in Rec, Becomes(t, T),
         generation' \in Word, generation'.count = generation.count,
         generation'.cancelled => region' = "cancelled",
         region' = region \/ region' = "cancelled",
         Loose(T, generation.count, IsCancelled')
  PROVE  /\ thr' \in [Thread -> Rec] /\ LocalOK'
         /\ Move(t, Place(T, generation.count), T.round)
         /\ task' = [task EXCEPT ![t] = TaskOf(T)]
<1>1. thr \in [Thread -> Rec]
  BY ThreadFacts DEF Shape
<1>2. Tidy(T) \in Rec /\ Local(Tidy(T), generation.count, IsCancelled')
  BY TidyView
<1>3. thr' = [thr EXCEPT ![t] = Tidy(T)]
  BY DEF Becomes
<1>4. thr' \in [Thread -> Rec]
  BY <1>1, <1>2, <1>3
<1>5. ASSUME NEW s \in Thread PROVE Local(thr'[s], generation'.count, IsCancelled')
  <2>1. CASE s = t
    BY <1>1, <1>2, <1>3, <2>1
  <2>2. CASE s # t
    <3>1. Local(thr[s], generation.count, IsCancelled) /\ thr'[s] = thr[s]
      BY <1>1, <1>3, <2>2, ThreadFacts
    <3>2. IsCancelled => IsCancelled'
      BY DEF IsCancelled
    <3> QED
      BY <3>1, <3>2 DEF Local
  <2> QED
    BY <2>1, <2>2
<1>6. LocalOK'
  BY <1>5 DEF LocalOK, IsCancelled
<1> QED
  BY <1>1, <1>4, <1>6, OneBecomes DEF Move

(* A thread goes to another label.                                         *)
LEMMA AtRec ==
  ASSUME NEW T \in Rec, NEW l \in Labels
  PROVE  /\ At(T, l) \in Rec /\ At(T, l).pc = l /\ At(T, l).round = T.round
         /\ At(T, l).state = T.state /\ At(T, l).last = T.last /\ At(T, l).of = T.of
         /\ At(T, l).back = T.back
BY DEF At, Rec

Flags(T, x) == ~T.state.pending /\ ~T.state.waiting /\ (T.state.cancelled => x)

(* A cancelled thread is out again, in front of the last barrier.          *)
LEMMA QuitView ==
  ASSUME NEW T \in Rec, NEW c, NEW x, Flags(T, x)
  PROVE  /\ Quit(T) \in Rec /\ Loose(Quit(T), c, x) /\ Quit(T).round = Rounds
         /\ Place(Quit(T), c) = "out" /\ TaskOf(Quit(T)) = 0
<1>1. Rounds \in 1..Rounds /\ "work" \in Labels
  BY SizeFacts DEF Labels
<1>2. Quit(T) \in Rec /\ Quit(T).pc = "work" /\ Quit(T).round = Rounds /\ Quit(T).state = T.state
  BY <1>1, AtRec DEF Quit, Rec
<1>3. Place(Quit(T), c) = "out" /\ TaskOf(Quit(T)) = 0
  BY <1>2 DEF Place, Pc, TaskOf
<1> QED
  BY <1>2, <1>3 DEF Loose, Flags, Openers, Spinning

(* A thread that leaves is out, in front of the next barrier, or at the    *)
(* end.                                                                    *)
LEMMA LeftView ==
  ASSUME NEW T \in Rec, NEW c, NEW x, Flags(T, x)
  PROVE  /\ Left(T) \in Rec /\ Loose(Left(T), c, x) /\ TaskOf(Left(T)) = 0
         /\ IF Final(T) THEN Left(T).round = Rounds /\ Place(Left(T), c) = "end"
            ELSE Left(T).round = T.round + 1 /\ Place(Left(T), c) = "out"
<1>0. T.round \in 1..Rounds /\ "work" \in Labels /\ "end" \in Labels /\ Rounds \in Nat
  BY SizeFacts DEF Labels, Rec
<1>1. CASE Final(T)
  <2>1. Left(T) = At(T, "end") /\ T.round = Rounds
    BY <1>1 DEF Left, Final
  <2>2. Left(T) \in Rec /\ Left(T).pc = "end" /\ Left(T).round = Rounds /\ Left(T).state = T.state
    BY <1>0, <2>1, AtRec
  <2>3. Place(Left(T), c) = "end" /\ TaskOf(Left(T)) = 0
    BY <2>2 DEF Place, Pc, TaskOf
  <2> QED
    BY <1>1, <2>2, <2>3 DEF Loose, Flags, Openers, Spinning
<1>2. CASE ~Final(T)
  <2>1. PICK n \in 1..Rounds : n = T.round + 1
    BY <1>0, <1>2 DEF Final
  <2>2. Left(T) = [At(T, "work") EXCEPT !.round = n]
    BY <1>0, <1>2, <2>1, AtRec DEF Left
  <2>3. Left(T) \in Rec /\ Left(T).pc = "work" /\ Left(T).round = n /\ Left(T).state = T.state
    BY <1>0, <2>2, AtRec DEF Rec
  <2>4. Place(Left(T), c) = "out" /\ TaskOf(Left(T)) = 0
    BY <2>3 DEF Place, Pc, TaskOf
  <2> QED
    BY <1>2, <2>1, <2>3, <2>4 DEF Loose, Flags, Openers, Spinning
<1> QED
  BY <1>1, <1>2

Inner(c, T) == IF T.state.count = c THEN "held" ELSE "late"

(* A thread at one of these is held or late.                               *)
LEMMA InnerView ==
  ASSUME NEW T \in Rec, NEW c, NEW x, Flags(T, x),
         \/ T.pc \in Spinning /\ ~T.last
         \/ T.pc \in {"loop", "task"} \/ (T.pc = "enter" /\ ~T.last)
         \/ T.pc = "wake" /\ T.back \in {"loop", "task", "return"}
  PROVE  /\ Place(T, c) = Inner(c, T) /\ Loose(T, c, x)
         /\ Pc(T) # "task" => TaskOf(T) = 0
<1>1. Place(T, c) = Inner(c, T)
  BY DEF Place, Pc, Inner, Spinning
<1>2. Loose(T, c, x)
  BY <1>1 DEF Loose, Flags, Inner, Openers, Spinning, Backs
<1> QED
  BY <1>1, <1>2 DEF TaskOf

(* What the label of a thread says of its place.                           *)
LEMMA AtFacts ==
  ASSUME BarrierInv, NEW t \in Thread
  PROVE  /\ Flags(thr[t], IsCancelled)
         /\ thr[t].pc # "task" /\ thr[t].pc # "wake" => task[t] = 0
         /\ thr[t].pc = "task" => task[t] = thr[t].of
         /\ thr[t].pc = "work" => at[t] = "out" /\ ~thr[t].last
         /\ thr[t].pc = "dec" => /\ at[t] = "dec" /\ ~thr[t].last
                                 /\ thr[t].state.count = generation.count
         /\ thr[t].pc \in {"last", "open"} => /\ at[t] = thr[t].pc /\ thr[t].last
                                              /\ thr[t].state.count = generation.count
         /\ thr[t].pc \in Spinning => at[t] = Inner(generation.count, thr[t]) /\ ~thr[t].last
         /\ thr[t].pc \in {"loop", "task"} => at[t] = Inner(generation.count, thr[t])
         /\ thr[t].pc = "enter" /\ ~thr[t].last => at[t] = Inner(generation.count, thr[t])
         /\ thr[t].pc = "enter" /\ thr[t].last => /\ at[t] = "enter"
                                                  /\ thr[t].state.count = generation.count
         /\ thr[t].pc = "end" => at[t] = "end"
<1>1. Local(thr[t], generation.count, IsCancelled) /\ at[t] = Place(thr[t], generation.count)
  BY ThreadFacts
<1>2. task[t] = TaskOf(thr[t])
  BY ThreadFacts
<1>3. /\ thr[t].pc # "task" /\ thr[t].pc # "wake" => task[t] = 0
      /\ thr[t].pc = "task" => task[t] = thr[t].of
  BY <1>2 DEF TaskOf, Pc
<1> QED
  BY <1>1, <1>3 DEF Local, Flags, Place, Pc, Inner, Spinning, Openers

(* A thread that waits is held or late where it was, or has been           *)
(* cancelled.                                                              *)
LEMMA WaitingView ==
  ASSUME NEW T \in Rec, NEW c, Flags(T, IsCancelled)
  PROVE  /\ Waiting(T) \in Rec /\ Loose(Waiting(T), c, IsCancelled) /\ TaskOf(Waiting(T)) = 0
         /\ \/ Place(Waiting(T), c) = Inner(c, T) /\ Waiting(T).round = T.round
            \/ /\ Place(Waiting(T), c) = "out" /\ Waiting(T).round = Rounds
               /\ region = "cancelled" /\ ~Final(T)
<1>1. CASE CancelKind(T) /\ T.state.cancelled
  <2>1. Waiting(T) = Quit(T) /\ ~Final(T) /\ region = "cancelled"
    BY <1>1 DEF Waiting, CancelKind, Flags, IsCancelled
  <2> QED
    BY <2>1, QuitView
<1>2. CASE ~(CancelKind(T) /\ T.state.cancelled)
  <2>1. T.state \in Word /\ "wait" \in Labels
    BY DEF Labels, Rec
  <2>2. PICK A \in Rec : A = At(T, "wait")
    BY <2>1, AtRec
  <2>a. A.pc = "wait" /\ A.round = T.round /\ A.state = T.state
    BY <2>1, <2>2, AtRec
  <2>b. PICK u \in Word : u = Uncancelled(T.state)
    BY <2>1, WordFacts
  <2>3. PICK s \in {T.state, u} :
          /\ Waiting(T) \in Rec /\ Waiting(T).pc = "wait" /\ Waiting(T).round = T.round
          /\ Waiting(T).last = FALSE /\ Waiting(T).state = s
    <3>1. CASE CancelKind(T)
      <4>1. Waiting(T) = [A EXCEPT !.last = FALSE, !.expect = T.state]
        BY <1>2, <2>2, <3>1 DEF Waiting
      <4> QED
        BY <2>1, <2>a, <4>1 DEF Rec
    <3>2. CASE ~CancelKind(T)
      <4>1. Waiting(T) = [A EXCEPT !.last = FALSE, !.expect = T.state, !.state = u]
        BY <2>2, <2>a, <2>b, <3>2 DEF Waiting, Rec
      <4>2. Waiting(T) \in Rec
        BY <2>1, <4>1 DEF Rec
      <4>3. /\ Waiting(T).pc = "wait" /\ Waiting(T).round = T.round
            /\ Waiting(T).last = FALSE /\ Waiting(T).state = u
        BY <2>a, <4>1 DEF Rec
      <4> QED
        BY <4>2, <4>3
    <3> QED
      BY <3>1, <3>2
  <2>4. s.count = T.state.count /\ Flags(Waiting(T), IsCancelled)
    BY <2>1, <2>b, <2>3 DEF Flags, Uncancelled, Word
  <2>5. Place(Waiting(T), c) = Inner(c, T)
    BY <2>3, <2>4, InnerView DEF Inner, Spinning
  <2> QED
    BY <2>3, <2>4, <2>5, InnerView DEF Spinning, Pc
<1> QED
  BY <1>1, <1>2

(* gomp_barrier_handle_tasks returns to the loop of its caller, or the     *)
(* thread has been cancelled.                                              *)
LEMMA ReturnedView ==
  ASSUME NEW T \in Rec, NEW c, Flags(T, IsCancelled)
  PROVE  /\ Returned(T) \in Rec /\ Loose(Returned(T), c, IsCancelled) /\ TaskOf(Returned(T)) = 0
         /\ \/ Place(Returned(T), c) = Inner(c, T) /\ Returned(T).round = T.round
            \/ /\ Place(Returned(T), c) = "out" /\ Returned(T).round = Rounds
               /\ region = "cancelled" /\ ~Final(T)
<1>1. CASE T.last
  BY <1>1, WaitingView DEF Returned
<1>2. CASE ~T.last
  <2>1. Returned(T) = At(T, "reload") /\ "reload" \in Labels
    BY <1>2 DEF Returned, Labels
  <2>2. /\ Returned(T) \in Rec /\ Returned(T).pc = "reload" /\ Returned(T).round = T.round
        /\ Returned(T).last = T.last /\ Returned(T).state = T.state
    BY <2>1, AtRec
  <2>3. Flags(Returned(T), IsCancelled)
    BY <2>2 DEF Flags
  <2>4. /\ Place(Returned(T), c) = Inner(c, Returned(T)) /\ Loose(Returned(T), c, IsCancelled)
        /\ TaskOf(Returned(T)) = 0
    BY <1>2, <2>2, <2>3, InnerView DEF Spinning, Pc
  <2> QED
    BY <2>2, <2>4 DEF Inner
<1> QED
  BY <1>1, <1>2

(* A move to the same place and round is none.                             *)
LEMMA Stays ==
  ASSUME BarrierInv, NEW t \in Thread
  PROVE  /\ Move(t, at[t], round[t]) => at' = at /\ round' = round
         /\ task' = [task EXCEPT ![t] = task[t]] => task' = task
BY DEF Move, at, round, task

(* A sum of counts is 0 when all are, and 1 when the next decrement makes  *)
(* them all 0.                                                             *)
LEMMA SumFacts ==
  ASSUME NEW f \in [1..Rounds -> Nat]
  PROVE  /\ SumFunction(f) \in Nat
         /\ SumFunction(f) = 0 <=> f = Nothing
         /\ \A r \in 1..Rounds : f[r] > 0 =>
              (SumFunction(f) = 1 <=> [f EXCEPT ![r] = @ - 1] = Nothing)
<1>0. IsFiniteSet(1..Rounds) /\ Rounds \in Nat
  BY SizeFacts, FS_Interval
<1>1. ASSUME NEW g \in [1..Rounds -> Nat]
      PROVE  SumFunction(g) \in Nat /\ (SumFunction(g) = 0 <=> g = Nothing)
  <2>1. SumFunction(g) \in Nat /\ \A i \in 1..Rounds : g[i] <= SumFunction(g)
    BY <1>0, SumOfNats
  <2>2. SumFunction(g) = 0 => g = Nothing
    BY <2>1 DEF Nothing
  <2>3. g = Nothing => SumFunction(g) = 0
    <3> SUFFICES ASSUME g = Nothing PROVE SumFunction(g) = 0
      OBVIOUS
    <3>1. \A i \in 1..Rounds : g[i] = 0
      BY DEF Nothing
    <3>2. SumFunction(g) = Cardinality(1..Rounds) * 0
      BY <1>0, <3>1, SumOfEqual
    <3> QED
      BY <1>0, <3>2, FS_CardinalityType
  <2> QED
    BY <2>1, <2>2, <2>3
<1>2. ASSUME NEW r \in 1..Rounds, f[r] > 0
      PROVE  SumFunction(f) = 1 <=> [f EXCEPT ![r] = @ - 1] = Nothing
  <2>1. PICK n \in Nat : n = f[r] - 1
    BY <1>2
  <2>2. PICK g \in [1..Rounds -> Nat] : g = [f EXCEPT ![r] = n]
    OBVIOUS
  <2>3. g[r] = n /\ \A i \in 1..Rounds : i # r => g[i] = f[i]
    BY <2>2
  <2>4. f \in [1..Rounds -> Int] /\ g \in [1..Rounds -> Int]
    OBVIOUS
  <2>5. SumFunction(g) = SumFunction(f) + g[r] - f[r]
    BY <1>0, <2>3, <2>4, SumUpdate
  <2>6. SumFunction(g) = SumFunction(f) - 1
    BY <1>1, <2>1, <2>3, <2>5
  <2>7. [f EXCEPT ![r] = @ - 1] = g
    BY <2>1, <2>2
  <2> QED
    <3>1. SumFunction(f) \in Nat /\ (SumFunction(g) = 0 <=> g = Nothing)
      BY <1>1
    <3>2. SumFunction(f) = 1 <=> g = Nothing
      BY <2>6, <3>1
    <3> QED
      BY <2>7, <3>2, Zenon
<1> QED
  BY <1>1, <1>2

(* A step of one thread that opens the barrier.                            *)
LEMMA OpenedBy ==
  ASSUME BarrierInv, NEW t \in Thread, NEW T \in Rec, Becomes(t, T),
         generation' \in Word, generation'.count # generation.count,
         ~generation'.pending, ~generation'.waiting,
         generation'.cancelled => region = "cancelled",
         region' = region, counts' = counts,
         Opener # {} \/ waiting, Opener \subseteq {t},
         T.pc = "wake", T.back \in {"leave", "loop", "return"},
         T.state = thr[t].state, T.round = thr[t].round
  PROVE  /\ thr' \in [Thread -> Rec] /\ LocalOK' /\ Opened
         /\ task' = [task EXCEPT ![t] = 0]
<1>0. Shape /\ IsCancelled' = IsCancelled /\ counts' = counts /\ region' = region
  BY ThreadFacts DEF IsCancelled
<1>1. \A s \in Thread : at[s] \in Openers \cup {"held"} /\ (s # t => at[s] = "held")
  <2>1. Held = Thread
    BY SameRound DEF BarrierInv
  <2> QED
    BY <2>1 DEF Held, Opener
<1>2. ASSUME NEW s \in Thread
      PROVE  thr[s].state.count = generation.count /\ Flags(thr[s], IsCancelled)
  <2>1. Local(thr[s], generation.count, IsCancelled) /\ at[s] = Place(thr[s], generation.count)
    BY ThreadFacts
  <2> QED
    BY <1>1, <2>1 DEF Local, Place, Flags
<1>3. Place(T, generation'.count) = "late" /\ TaskOf(T) = 0 /\ Loose(T, generation'.count, IsCancelled')
  <2>1. Pc(T) = T.back /\ T.state.count # generation'.count /\ Flags(T, IsCancelled)
    BY <1>2 DEF Pc, Flags
  <2>2. Place(T, generation'.count) = "late" /\ TaskOf(T) = 0
    BY <2>1 DEF Place, TaskOf
  <2> QED
    BY <1>0, <2>1, <2>2 DEF Loose, Flags, Openers, Spinning, Backs
<1>4. /\ Tidy(T) \in Rec /\ Local(Tidy(T), generation'.count, IsCancelled')
      /\ Place(Tidy(T), generation'.count) = "late" /\ TaskOf(Tidy(T)) = 0 /\ Tidy(T).round = T.round
  BY <1>3, TidyView
<1>5. thr' = [thr EXCEPT ![t] = Tidy(T)] /\ thr \in [Thread -> Rec]
  BY <1>0 DEF Becomes, Shape
<1>6. thr' \in [Thread -> Rec]
  BY <1>4, <1>5
<1>7. ASSUME NEW s \in Thread
      PROVE  /\ Local(thr'[s], generation'.count, IsCancelled')
             /\ Place(thr'[s], generation'.count) = "late"
             /\ thr'[s].round = thr[s].round
             /\ s # t => TaskOf(thr'[s]) = TaskOf(thr[s])
  <2>1. CASE s = t
    BY <1>4, <1>5, <2>1
  <2>2. CASE s # t
    <3>1. /\ thr'[s] = thr[s] /\ Place(thr[s], generation.count) = "held"
          /\ Local(thr[s], generation.count, IsCancelled)
      BY <1>1, <1>5, <2>2, ThreadFacts
    <3>2. Place(thr[s], generation'.count) = "late"
      BY <1>2, <3>1 DEF Place
    <3> QED
      BY <1>0, <3>1, <3>2 DEF Local, Openers
  <2> QED
    BY <2>1, <2>2
<1>8. LocalOK'
  BY <1>7 DEF LocalOK, IsCancelled
<1>9. at' = [s \in Thread |-> "late"] /\ round' = round
  BY <1>7 DEF at, round
<1>10. task' = [task EXCEPT ![t] = 0]
  BY <1>4, <1>5, <1>7 DEF task
<1>11. pending' = FALSE /\ waiting' = FALSE
  BY DEF pending, waiting, Word
<1> QED
  BY <1>0, <1>6, <1>8, <1>9, <1>10, <1>11 DEF Opened

Simulated == Shape' /\ LocalOK' /\ VNext

(* A step that changes nothing but the record of one thread.               *)
LEMMA ThreadStep ==
  ASSUME BarrierInv, NEW t \in Thread, NEW T \in Rec, Becomes(t, T), UNCHANGED <<bar, tasks, region>>,
         Loose(T, generation.count, IsCancelled), TaskOf(T) = task[t]
  PROVE  /\ Shape' /\ LocalOK' /\ Move(t, Place(T, generation.count), T.round)
         /\ UNCHANGED <<words, counts, work, region>>
<1>1. Shape /\ generation' = generation /\ generation \in Word /\ IsCancelled' = IsCancelled
  BY ThreadFacts DEF Shape, bar, IsCancelled
<1>2. /\ thr' \in [Thread -> Rec] /\ LocalOK' /\ Move(t, Place(T, generation.count), T.round)
      /\ task' = [task EXCEPT ![t] = TaskOf(T)]
  BY <1>1, Changed DEF BarrierInv, LocalOK
<1>3. task' = task
  BY <1>2, Stays
<1>4. UNCHANGED <<words, counts, work, region>>
  BY <1>3 DEF words, pending, waiting, counts, work, bar, tasks
<1>5. Shape'
  BY <1>1, <1>2 DEF Shape, bar, tasks
<1> QED
  BY <1>2, <1>4, <1>5

(* If its place and its round stay the same, the step is not seen.         *)
LEMMA ThreadStays ==
  ASSUME BarrierInv, NEW t \in Thread, NEW T \in Rec, Becomes(t, T), UNCHANGED <<bar, tasks, region>>,
         Loose(T, generation.count, IsCancelled), TaskOf(T) = task[t],
         Place(T, generation.count) = at[t], T.round = round[t]
  PROVE  Simulated
BY ThreadStep, Stays DEF Simulated, VNext, VSame

(* Loading generation is the arrival in front of the decrement.            *)
LEMMA ArriveView ==
  ASSUME BarrierInv, NEW t \in Thread, Arrive(t), region' = region
  PROVE  Simulated
<1> DEFINE w == [Plain(generation) EXCEPT !.cancelled = generation.cancelled]
           T == [At(thr[t], "dec") EXCEPT !.state = w]
<1>0. thr[t] \in Rec /\ "dec" \in Labels /\ generation \in Word /\ thr[t].pc = "work"
  BY ThreadFacts DEF Labels, Arrive, Shape
<1>1. /\ w \in Word /\ w.count = generation.count /\ ~w.pending /\ ~w.waiting
      /\ w.cancelled => IsCancelled
  BY <1>0, WordFacts DEF Plain, Zero, Word, BarrierInv, LocalOK, IsCancelled
<1>a. Becomes(t, T) /\ UNCHANGED <<bar, tasks, region>>
  BY DEF Arrive
<1> HIDE DEF w
<1>2. /\ T \in Rec /\ T.pc = "dec" /\ T.state = w /\ T.round = thr[t].round /\ T.last = thr[t].last
  BY <1>0, <1>1, AtRec DEF Rec
<1>3. ~thr[t].last /\ at[t] = "out" /\ round[t] = thr[t].round /\ task[t] = 0
  BY <1>0, ThreadFacts, AtFacts
<1> HIDE DEF T
<1>4. Place(T, generation.count) = "dec" /\ TaskOf(T) = 0
  BY <1>2 DEF Place, Pc, TaskOf
<1>5. Loose(T, generation.count, IsCancelled)
  BY <1>1, <1>2, <1>3 DEF Loose
<1>6. Shape' /\ LocalOK' /\ Move(t, "dec", round[t]) /\ UNCHANGED <<words, counts, work, region>>
  BY <1>a, <1>2, <1>3, <1>4, <1>5, ThreadStep
<1>7. VArrive(t)
  BY <1>3, <1>6 DEF VArrive
<1> QED
  BY <1>6, <1>7 DEF Simulated, VNext, VStep

(* The decrement is the one of the view.                                   *)
LEMMA DecrementView ==
  ASSUME BarrierInv, NEW t \in Thread, Decrement(t), region' = region
  PROVE  Simulated
<1> DEFINE n == IF Final(thr[t]) THEN awaitedFinal - 1 ELSE awaited - 1
           T == IF n = 0 THEN [At(thr[t], "last") EXCEPT !.last = TRUE] ELSE Waiting(thr[t])
           c == generation.count
<1>0. /\ thr[t] \in Rec /\ "last" \in Labels /\ generation \in Word /\ thr[t].pc = "dec" /\ Shape
      /\ at[t] = "dec" /\ round[t] = thr[t].round /\ task[t] = 0 /\ (t \in Finals <=> Final(thr[t]))
      /\ generation' = generation /\ IsCancelled' = IsCancelled
  <2>1. thr[t].pc = "dec" /\ generation' = generation /\ IsCancelled' = IsCancelled /\ "last" \in Labels
    BY DEF Decrement, IsCancelled, Labels
  <2>2. Shape /\ generation \in Word
    BY ThreadFacts DEF Shape
  <2> QED
    BY <2>1, <2>2, ThreadFacts, AtFacts
<1>1. thr[t].state.count = c /\ Flags(thr[t], IsCancelled)
  BY <1>0, AtFacts
<1>2. /\ Becomes(t, T) /\ queued' = queued /\ live' = live /\ created' = created
      /\ IF Final(thr[t])
         THEN awaitedFinal' = (IF n = 0 THEN Cardinality(Thread) ELSE n) /\ UNCHANGED awaited
         ELSE awaited' = n /\ UNCHANGED awaitedFinal
  BY DEF Decrement, tasks
<1>3. n \in Int /\ awaited' \in Int /\ awaitedFinal' \in Int
  BY <1>0, <1>2, SizeFacts DEF Shape
<1>4. /\ T \in Rec /\ Loose(T, c, IsCancelled) /\ TaskOf(T) = 0
      /\ \/ n = 0 /\ Place(T, c) = "last" /\ T.round = round[t]
         \/ n # 0 /\ Place(T, c) = "held" /\ T.round = round[t]
         \/ n # 0 /\ Place(T, c) = "out" /\ T.round = Rounds /\ region = "cancelled" /\ t \notin Finals
  <2>1. CASE n = 0
    <3>1. T = [At(thr[t], "last") EXCEPT !.last = TRUE]
      BY <2>1
    <3>a. PICK A \in Rec : /\ A = At(thr[t], "last") /\ A.pc = "last" /\ A.round = thr[t].round
                           /\ A.state = thr[t].state
      BY <1>0, AtRec
    <3> HIDE DEF T
    <3>2. /\ T \in Rec /\ T.pc = "last" /\ T.state = thr[t].state /\ T.round = thr[t].round /\ T.last = TRUE
      BY <3>1, <3>a DEF Rec
    <3>3. Place(T, c) = "last" /\ TaskOf(T) = 0
      BY <3>2 DEF Place, Pc, TaskOf
    <3>4. Loose(T, c, IsCancelled)
      BY <1>1, <3>2 DEF Loose, Flags, Spinning
    <3> QED
      BY <1>0, <2>1, <3>2, <3>3, <3>4
  <2>2. CASE n # 0
    <3>1. T = Waiting(thr[t]) /\ Inner(c, thr[t]) = "held"
      BY <1>1, <2>2 DEF Inner
    <3> HIDE DEF T, n, c
    <3> QED
      BY <1>0, <1>1, <2>2, <3>1, WaitingView
  <2> QED
    BY <2>1, <2>2
<1> HIDE DEF T, n
<1>5. /\ thr' \in [Thread -> Rec] /\ LocalOK' /\ Move(t, Place(T, c), T.round)
      /\ task' = [task EXCEPT ![t] = TaskOf(T)]
  BY <1>0, <1>2, <1>4, Changed DEF BarrierInv, LocalOK
<1>6. task' = task
  BY <1>0, <1>4, <1>5, Stays
<1>7. Shape'
  BY <1>0, <1>2, <1>3, <1>5 DEF Shape
<1>8. UNCHANGED <<words, work, region>>
  BY <1>0, <1>2, <1>6 DEF words, pending, waiting, work
<1>9. VDecrement(t)
  <2>1. n = IF t \in Finals THEN awaitedFinal - 1 ELSE awaited - 1
    BY <1>0 DEF n
  <2>2. \/ n = 0 /\ Move(t, "last", round[t])
        \/ n # 0 /\ Move(t, "held", round[t])
        \/ n # 0 /\ t \notin Finals /\ region = "cancelled" /\ Move(t, "out", Rounds)
    BY <1>4, <1>5
  <2> QED
    BY <1>0, <1>2, <1>8, <2>1, <2>2 DEF VDecrement
<1> QED
  BY <1>5, <1>7, <1>9 DEF Simulated, VNext, VStep

(* The last thread decides how the barrier will be opened.                 *)
LEMMA LastView ==
  ASSUME BarrierInv, NEW t \in Thread, Last(t), region' = region
  PROVE  Simulated
<1> DEFINE l == IF taskCount = 0 THEN "open" ELSE "enter"
           T == At(thr[t], l)
           c == generation.count
<1>0. /\ thr[t] \in Rec /\ l \in Labels /\ generation \in Word /\ thr[t].pc = "last" /\ Shape
      /\ at[t] = "last" /\ round[t] = thr[t].round /\ task[t] = 0
      /\ generation' = generation /\ IsCancelled' = IsCancelled
  <2>1. thr[t].pc = "last" /\ generation' = generation /\ IsCancelled' = IsCancelled /\ l \in Labels
    BY DEF Last, IsCancelled, Labels
  <2>2. Shape /\ generation \in Word
    BY ThreadFacts DEF Shape
  <2> QED
    BY <2>1, <2>2, ThreadFacts, AtFacts
<1>1. thr[t].state.count = c /\ Flags(thr[t], IsCancelled) /\ thr[t].last
  BY <1>0, AtFacts
<1>2. l = IF live = Nothing THEN "open" ELSE "enter"
  BY <1>0, SumFacts DEF Shape, taskCount
<1>3. Becomes(t, T) /\ awaited' = Cardinality(Thread) /\ UNCHANGED <<awaitedFinal, tasks>>
  BY DEF Last
<1>4. l = "open" \/ l = "enter"
  OBVIOUS
<1> HIDE DEF l
<1>5. T \in Rec /\ T.pc = l /\ T.state = thr[t].state /\ T.round = thr[t].round /\ T.last
  BY <1>0, <1>1, AtRec
<1> HIDE DEF T
<1>6. Place(T, c) = l /\ TaskOf(T) = 0
  BY <1>4, <1>5 DEF Place, Pc, TaskOf
<1>7. Loose(T, c, IsCancelled)
  BY <1>1, <1>4, <1>5 DEF Loose, Flags, Spinning
<1>8. /\ thr' \in [Thread -> Rec] /\ LocalOK' /\ Move(t, l, round[t])
      /\ task' = [task EXCEPT ![t] = TaskOf(T)]
  BY <1>0, <1>3, <1>5, <1>6, <1>7, Changed DEF BarrierInv, LocalOK
<1>9. task' = task
  BY <1>0, <1>6, <1>8, Stays
<1>10. Shape'
  BY <1>0, <1>3, <1>8, SizeFacts DEF Shape, tasks
<1>11. VLast(t)
  BY <1>0, <1>2, <1>3, <1>8, <1>9 DEF VLast, words, pending, waiting, work, tasks
<1> QED
  BY <1>8, <1>10, <1>11 DEF Simulated, VNext, VStep

(* A thread goes on to call futex_wake.                                    *)
LEMMA WakeRec ==
  ASSUME NEW T \in Rec, NEW n \in {0, 1}, NEW l \in Backs
  PROVE  /\ WakeThen(T, n, l) \in Rec /\ WakeThen(T, n, l).pc = "wake"
         /\ WakeThen(T, n, l).back = l /\ WakeThen(T, n, l).round = T.round
         /\ WakeThen(T, n, l).state = T.state /\ WakeThen(T, n, l).last = T.last
         /\ WakeThen(T, n, l).of = T.of
<1>1. "wake" \in Labels /\ l \in Labels \cup {"leave", "quit", "return"}
  BY DEF Labels, Backs
<1> QED
  BY <1>1, AtRec DEF WakeThen, Rec

(* The store of state + BAR_INCR opens the barrier.                        *)
LEMMA OpenView ==
  ASSUME BarrierInv, NEW t \in Thread, Open(t), region' = region
  PROVE  Simulated
<1> DEFINE T == WakeThen(thr[t], 0, "leave")
           c == generation.count
           s == thr[t].state
<1>0. /\ thr[t] \in Rec /\ generation \in Word /\ thr[t].pc = "open" /\ Shape /\ s \in Word
      /\ at[t] = "open" /\ round[t] = thr[t].round /\ task[t] = 0
      /\ IsCancelled' = IsCancelled
  <2>1. thr[t].pc = "open" /\ IsCancelled' = IsCancelled
    BY DEF Open, IsCancelled
  <2>2. Shape /\ generation \in Word
    BY ThreadFacts DEF Shape
  <2> QED
    BY <2>1, <2>2, ThreadFacts, AtFacts
<1>1. s.count = c /\ Flags(thr[t], IsCancelled)
  BY <1>0, AtFacts
<1>2. Becomes(t, T) /\ UNCHANGED <<awaited, awaitedFinal, tasks>>
  BY DEF Open
<1>3. T \in Rec /\ T.pc = "wake" /\ T.back = "leave" /\ T.round = thr[t].round /\ T.state = s
  BY <1>0, WakeRec DEF Backs
<1>4. PICK u \in Word : /\ generation' = Incr(u) /\ u.count = c
                        /\ ~u.pending /\ ~u.waiting /\ (u.cancelled => region = "cancelled")
  <2>1. CASE CancelKind(thr[t])
    BY <1>0, <1>1, <2>1 DEF Open, Flags, IsCancelled
  <2>2. CASE ~CancelKind(thr[t])
    <3>1. Uncancelled(s) \in Word /\ generation' = Incr(Uncancelled(s))
      BY <1>0, <2>2, WordFacts DEF Open
    <3>2. Uncancelled(s).count = c /\ ~Uncancelled(s).pending /\ ~Uncancelled(s).waiting /\ ~Uncancelled(s).cancelled
      BY <1>0, <1>1 DEF Flags, Uncancelled, Word
    <3> QED
      BY <3>1, <3>2
  <2> QED
    BY <2>1, <2>2
<1>5. /\ generation' \in Word /\ generation'.count # c /\ ~generation'.pending /\ ~generation'.waiting
      /\ generation'.cancelled => region = "cancelled"
  BY <1>4, WordFacts
<1>6. t \in Opener /\ Opener \subseteq {t} /\ live = Nothing
  BY <1>0 DEF BarrierInv, ViewInv, OpenerOK, Opener, Openers
<1>7. /\ thr' \in [Thread -> Rec] /\ LocalOK' /\ Opened
      /\ task' = [task EXCEPT ![t] = 0]
  <2> HIDE DEF T
  <2> QED
    BY <1>2, <1>3, <1>5, <1>6, OpenedBy DEF counts
<1>8. task' = task
  BY <1>0, <1>7, Stays
<1>9. Shape'
  BY <1>0, <1>2, <1>5, <1>7 DEF Shape, tasks
<1>10. VOpen(t)
  BY <1>0, <1>2, <1>6, <1>7, <1>8 DEF VOpen, work, tasks
<1> QED
  BY <1>7, <1>9, <1>10 DEF Simulated, VNext, VStep

(* The steps of a waiting thread are not seen.                             *)
LEMMA SpinView ==
  ASSUME BarrierInv, NEW t \in Thread, thr[t].pc \in Spinning,
         NEW l \in Spinning \cup {"enter"}, Becomes(t, At(thr[t], l)), UNCHANGED <<bar, tasks, region>>
  PROVE  Simulated
<1>0. /\ thr[t] \in Rec /\ l \in Labels /\ at[t] = Inner(generation.count, thr[t]) /\ ~thr[t].last
      /\ Flags(thr[t], IsCancelled) /\ task[t] = 0 /\ round[t] = thr[t].round
  <2>1. l \in Labels /\ thr[t].pc # "task" /\ thr[t].pc # "wake"
    BY DEF Labels, Spinning
  <2> QED
    BY <2>1, ThreadFacts, AtFacts
<1>1. PICK T \in Rec : /\ T = At(thr[t], l) /\ T.pc = l /\ T.round = thr[t].round
                       /\ T.state = thr[t].state /\ T.last = thr[t].last
  BY <1>0, AtRec
<1>2. Flags(T, IsCancelled) /\ Inner(generation.count, T) = at[t] /\ Pc(T) # "task"
  BY <1>0, <1>1 DEF Flags, Inner, Pc, Spinning
<1>3. /\ Place(T, generation.count) = Inner(generation.count, T)
      /\ Loose(T, generation.count, IsCancelled) /\ TaskOf(T) = 0
  BY <1>0, <1>1, <1>2, InnerView
<1> QED
  BY <1>0, <1>1, <1>2, <1>3, ThreadStays

(* Neither do_wait nor futex_wait is seen.                                 *)
LEMMA WaitView ==
  ASSUME BarrierInv, NEW t \in Thread, DoWait(t) \/ FutexWait(t), region' = region
  PROVE  Simulated
<1>1. /\ thr[t].pc \in Spinning /\ UNCHANGED <<bar, tasks, region>>
      /\ \E l \in Spinning \cup {"enter"} : Becomes(t, At(thr[t], l))
  BY DEF DoWait, FutexWait, Spinning
<1> QED
  BY <1>1, SpinView

(* A waiting thread that sees the cancellation quits.                      *)
LEMMA QuitStep ==
  ASSUME BarrierInv, NEW t \in Thread, at[t] \in {"held", "late"}, task[t] = 0,
         NEW T \in Rec, Becomes(t, T), UNCHANGED <<bar, tasks, region>>,
         region = "cancelled", ~Final(thr[t]), Loose(T, generation.count, IsCancelled), TaskOf(T) = 0,
         T.round = Rounds, Place(T, generation.count) = "out"
  PROVE  Simulated
<1>1. /\ Shape' /\ LocalOK' /\ Move(t, "out", Rounds)
      /\ UNCHANGED <<words, counts, work, region>>
  BY ThreadStep
<1>2. VQuit(t)
  BY <1>1, ThreadFacts DEF VQuit
<1> QED
  BY <1>1, <1>2 DEF Simulated, VNext, VStep

(* The end of the waiting loop: only a thread that is late can find state  *)
(* + BAR_INCR and leave.                                                   *)
LEMMA CompareView ==
  ASSUME BarrierInv, NEW t \in Thread, thr[t].pc \in Spinning, Becomes(t, Compare(thr[t])),
         UNCHANGED <<bar, tasks, region>>
  PROVE  Simulated
<1>0. /\ thr[t] \in Rec /\ at[t] = Inner(generation.count, thr[t]) /\ ~thr[t].last /\ thr[t].state \in Word
      /\ Flags(thr[t], IsCancelled) /\ task[t] = 0 /\ round[t] = thr[t].round
      /\ (t \in Finals <=> Final(thr[t]))
  <2>1. thr[t].pc # "task" /\ thr[t].pc # "wake"
    BY DEF Spinning
  <2> QED
    BY <2>1, ThreadFacts, AtFacts
<1>1. CASE generation = Incr(thr[t].state)
  <2>1. at[t] = "late" /\ Compare(thr[t]) = Left(thr[t])
    BY <1>0, <1>1, WordFacts DEF Inner, Compare
  <2>2. PICK T \in Rec : T = Left(thr[t])
    BY <1>0, LeftView
  <2>3. /\ Loose(T, generation.count, IsCancelled) /\ TaskOf(T) = 0
        /\ IF Final(thr[t]) THEN T.round = Rounds /\ Place(T, generation.count) = "end"
           ELSE T.round = thr[t].round + 1 /\ Place(T, generation.count) = "out"
    BY <1>0, <2>2, LeftView
  <2>4. /\ Shape' /\ LocalOK' /\ Move(t, Place(T, generation.count), T.round)
        /\ UNCHANGED <<words, counts, work, region>>
    BY <1>0, <2>1, <2>2, <2>3, ThreadStep
  <2>5. VLeave(t)
    BY <1>0, <2>1, <2>3, <2>4 DEF VLeave
  <2> QED
    BY <2>4, <2>5 DEF Simulated, VNext, VStep
<1>2. CASE generation # Incr(thr[t].state)
  <2>1. PICK A \in Rec : /\ A = At(thr[t], "wait") /\ A.pc = "wait" /\ A.round = thr[t].round
                         /\ A.state = thr[t].state /\ A.last = thr[t].last
    BY <1>0, AtRec DEF Labels
  <2>2. PICK T : T = [A EXCEPT !.expect.waiting = A.expect.waiting \/ generation.waiting]
    OBVIOUS
  <2>3. Compare(thr[t]) = T
    BY <1>2, <2>1, <2>2 DEF Compare, Rec, Word
  <2>4. A.expect \in Word /\ generation \in Word
    BY ThreadFacts DEF Rec, Shape
  <2>5. PICK e \in Word : e = [A.expect EXCEPT !.waiting = A.expect.waiting \/ generation.waiting]
    BY <2>4 DEF Word
  <2>6. T = [A EXCEPT !.expect = e]
    BY <2>2, <2>5 DEF Rec
  <2>7. T \in Rec /\ T.pc = "wait" /\ T.round = thr[t].round /\ T.state = thr[t].state /\ T.last = thr[t].last
    BY <2>1, <2>6 DEF Rec
  <2>8. Flags(T, IsCancelled) /\ Inner(generation.count, T) = at[t] /\ Pc(T) # "task"
    BY <1>0, <2>7 DEF Flags, Inner, Pc
  <2>9. /\ Place(T, generation.count) = Inner(generation.count, T)
        /\ Loose(T, generation.count, IsCancelled) /\ TaskOf(T) = 0
    BY <1>0, <2>7, <2>8, InnerView DEF Spinning
  <2> QED
    BY <1>0, <2>3, <2>7, <2>8, <2>9, ThreadStays
<1> QED
  BY <1>1, <1>2

(* Loading generation: the thread quits, enters the task loop, leaves or   *)
(* waits on.                                                               *)
LEMMA LoadView ==
  ASSUME BarrierInv, NEW t \in Thread, Load(t) \/ Reload(t), region' = region
  PROVE  Simulated
<1>1. CASE Reload(t)
  BY <1>1, CompareView DEF Reload, Spinning
<1>2. CASE Load(t)
  <2>0. thr[t].pc \in Spinning /\ UNCHANGED <<bar, tasks, region>>
    BY <1>2 DEF Load, Spinning
  <2>1. CASE CancelKind(thr[t]) /\ generation.cancelled
    <3>0. thr[t].pc # "task" /\ thr[t].pc # "wake"
      BY <2>0 DEF Spinning
    <3>1. Becomes(t, Quit(thr[t]))
      BY <1>2, <2>1 DEF Load
    <3>2. thr[t] \in Rec /\ Flags(thr[t], IsCancelled) /\ at[t] \in {"held", "late"} /\ task[t] = 0
      BY <2>0, <3>0, ThreadFacts, AtFacts DEF Inner
    <3>3. /\ Quit(thr[t]) \in Rec /\ Loose(Quit(thr[t]), generation.count, IsCancelled)
          /\ Quit(thr[t]).round = Rounds
          /\ Place(Quit(thr[t]), generation.count) = "out" /\ TaskOf(Quit(thr[t])) = 0
      BY <3>2, QuitView
    <3>4. region = "cancelled" /\ ~Final(thr[t])
      BY <2>1 DEF BarrierInv, LocalOK, CancelKind
    <3> QED
      BY <2>0, <3>1, <3>2, <3>3, <3>4, QuitStep
  <2>2. CASE ~(CancelKind(thr[t]) /\ generation.cancelled) /\ generation.pending
    <3>1. Becomes(t, At(thr[t], "enter"))
      BY <1>2, <2>2 DEF Load
    <3> QED
      BY <2>0, <3>1, SpinView
  <2>3. CASE ~(CancelKind(thr[t]) /\ generation.cancelled) /\ ~generation.pending
    <3>1. Becomes(t, Compare(thr[t]))
      BY <1>2, <2>3 DEF Load
    <3> QED
      BY <2>0, <3>1, CompareView
  <2> QED
    BY <2>1, <2>2, <2>3
<1> QED
  BY <1>1, <1>2

(* futex_wake: the threads it wakes do not move.                           *)
LEMMA WakeStep ==
  ASSUME BarrierInv, NEW t \in Thread, NEW W \in SUBSET {s \in Thread : thr[s].pc = "sleep"},
         t \notin W, NEW T \in Rec,
         thr' = [s \in Thread |-> IF s \in W THEN At(thr[s], "load")
                                  ELSE IF s # t THEN thr[s] ELSE Tidy(T)],
         UNCHANGED <<bar, tasks, region>>,
         Loose(T, generation.count, IsCancelled), TaskOf(T) = task[t]
  PROVE  /\ Shape' /\ LocalOK' /\ Move(t, Place(T, generation.count), T.round)
         /\ UNCHANGED <<words, counts, work, region>>
<1> DEFINE c == generation.count
<1>0. Shape /\ generation' = generation /\ generation \in Word /\ IsCancelled' = IsCancelled
  BY ThreadFacts DEF Shape, bar, IsCancelled
<1>1. /\ Tidy(T) \in Rec /\ Tidy(T).round = T.round /\ Place(Tidy(T), c) = Place(T, c)
      /\ TaskOf(Tidy(T)) = task[t] /\ Local(Tidy(T), c, IsCancelled)
  BY TidyView
<1>2. ASSUME NEW s \in Thread, s # t
      PROVE  /\ thr'[s] \in Rec /\ Local(thr'[s], c, IsCancelled) /\ Place(thr'[s], c) = at[s]
             /\ thr'[s].round = round[s] /\ TaskOf(thr'[s]) = task[s]
  <2>0. /\ thr[s] \in Rec /\ Local(thr[s], c, IsCancelled) /\ at[s] = Place(thr[s], c)
        /\ thr[s].round = round[s] /\ TaskOf(thr[s]) = task[s]
    BY ThreadFacts
  <2>1. CASE s \notin W
    BY <1>2, <2>0, <2>1
  <2>2. CASE s \in W
    <3>1. thr'[s] = At(thr[s], "load") /\ thr[s].pc = "sleep" /\ "load" \in Labels
      BY <2>2 DEF Labels
    <3>2. PICK A \in Rec : /\ A = thr'[s] /\ A.pc = "load" /\ A.round = thr[s].round
                           /\ A.state = thr[s].state /\ A.last = thr[s].last
      BY <2>0, <3>1, AtRec
    <3>3. Place(A, c) = Place(thr[s], c) /\ TaskOf(A) = TaskOf(thr[s])
      BY <3>1, <3>2 DEF Place, Pc, TaskOf
    <3>4. Local(A, c, IsCancelled)
      BY <2>0, <3>1, <3>2, <3>3 DEF Local, Spinning, Pc
    <3> QED
      BY <2>0, <3>2, <3>3, <3>4
  <2> QED
    BY <2>1, <2>2
<1>3. thr'[t] = Tidy(T)
  OBVIOUS
<1>4. thr' \in [Thread -> Rec]
  BY <1>1, <1>2, <1>3
<1>5. LocalOK'
  <2>1. \A s \in Thread : Local(thr'[s], generation'.count, IsCancelled')
    BY <1>0, <1>1, <1>2, <1>3
  <2> QED
    BY <1>0, <2>1 DEF LocalOK, BarrierInv, IsCancelled
<1>6. at' = [at EXCEPT ![t] = Place(T, c)] /\ round' = [round EXCEPT ![t] = T.round] /\ task' = task
  BY <1>0, <1>1, <1>2, <1>3 DEF at, round, task
<1>7. Shape'
  BY <1>0, <1>4 DEF Shape, bar, tasks
<1> QED
  BY <1>0, <1>5, <1>6, <1>7 DEF Move, words, pending, waiting, counts, work, bar, tasks

(* futex_wake, after which the thread goes on where it had to.             *)
LEMMA FutexWakeView ==
  ASSUME BarrierInv, NEW t \in Thread, FutexWake(t), region' = region
  PROVE  Simulated
<1> DEFINE T0 == thr[t]
           c == generation.count
           T == IF T0.back = "leave" THEN Left(T0)
                ELSE IF T0.back = "quit" THEN Quit(T0)
                ELSE IF T0.back = "return" THEN Returned(T0) ELSE At(T0, T0.back)
           Goal == Shape' /\ LocalOK' /\ Move(t, Place(T, c), T.round) /\ UNCHANGED <<words, counts, work, region>>
<1>0. /\ T0 \in Rec /\ T0.pc = "wake" /\ Local(T0, c, IsCancelled) /\ at[t] = Place(T0, c)
      /\ round[t] = T0.round /\ task[t] = TaskOf(T0) /\ (t \in Finals <=> Final(T0))
      /\ Flags(T0, IsCancelled)
  <2>1. T0.pc = "wake"
    BY DEF FutexWake
  <2> QED
    BY <2>1, ThreadFacts, AtFacts
<1>1. PICK W \in SUBSET {s \in Thread : thr[s].pc = "sleep"} :
        thr' = [s \in Thread |-> IF s \in W THEN At(thr[s], "load")
                                 ELSE IF s # t THEN thr[s] ELSE Tidy(T)]
  BY DEF FutexWake
<1>2. t \notin W /\ UNCHANGED <<bar, tasks, region>>
  BY <1>0, <1>1 DEF FutexWake
<1>3. T0.back \in Backs /\ Pc(T0) = T0.back
  BY <1>0 DEF Local, Pc
<1>4. ASSUME T \in Rec, Loose(T, c, IsCancelled), TaskOf(T) = task[t] PROVE Goal
  <2> HIDE DEF T
  <2> QED
    BY <1>1, <1>2, <1>4, WakeStep
<1>5. CASE T0.back = "leave"
  <2>1. T = Left(T0) /\ at[t] = "late" /\ task[t] = 0
    BY <1>0, <1>3, <1>5 DEF Place, TaskOf
  <2> HIDE DEF T, T0, c
  <2>2. /\ T \in Rec /\ Loose(T, c, IsCancelled) /\ TaskOf(T) = 0
        /\ IF Final(T0) THEN T.round = Rounds /\ Place(T, c) = "end"
           ELSE T.round = T0.round + 1 /\ Place(T, c) = "out"
    BY <1>0, <2>1, LeftView
  <2>3. Goal
    BY <1>4, <2>1, <2>2
  <2>4. VLeave(t)
    BY <1>0, <2>1, <2>2, <2>3 DEF VLeave
  <2> QED
    BY <2>3, <2>4 DEF Simulated, VNext, VStep
<1>6. CASE T0.back = "quit"
  <2>1. T = Quit(T0) /\ at[t] = "quit" /\ task[t] = 0
    BY <1>0, <1>3, <1>6 DEF Place, TaskOf
  <2>a. region = "cancelled" /\ t \notin Finals
    BY <2>1 DEF BarrierInv, ViewInv, PlaceOK
  <2> HIDE DEF T, T0, c
  <2>2. T \in Rec /\ Loose(T, c, IsCancelled) /\ TaskOf(T) = 0 /\ T.round = Rounds /\ Place(T, c) = "out"
    BY <1>0, <2>1, QuitView
  <2>3. Goal
    BY <1>4, <2>1, <2>2
  <2>4. VQuit(t)
    BY <2>1, <2>2, <2>3, <2>a DEF VQuit
  <2> QED
    BY <2>3, <2>4 DEF Simulated, VNext, VStep
<1>7. CASE T0.back = "return"
  <2>1. T = Returned(T0) /\ at[t] = Inner(c, T0) /\ task[t] = 0
    BY <1>0, <1>3, <1>7 DEF Place, TaskOf, Inner
  <2> HIDE DEF T, T0, c
  <2>2. /\ T \in Rec /\ Loose(T, c, IsCancelled) /\ TaskOf(T) = 0
        /\ \/ Place(T, c) = Inner(c, T0) /\ T.round = T0.round
           \/ Place(T, c) = "out" /\ T.round = Rounds /\ region = "cancelled" /\ ~Final(T0)
    BY <1>0, <2>1, ReturnedView
  <2>3. Goal
    BY <1>4, <2>1, <2>2
  <2>4. CASE Place(T, c) = Inner(c, T0) /\ T.round = T0.round
    BY <1>0, <2>1, <2>3, <2>4, Stays DEF Simulated, VNext, VSame
  <2>5. CASE Place(T, c) = "out" /\ T.round = Rounds /\ region = "cancelled" /\ ~Final(T0)
    <3>1. VQuit(t)
      BY <1>0, <2>1, <2>3, <2>5 DEF VQuit, Inner
    <3> QED
      BY <2>3, <3>1 DEF Simulated, VNext, VStep
  <2> QED
    BY <2>2, <2>4, <2>5
<1>8. CASE T0.back \in {"loop", "work", "task"}
  <2>1. T = At(T0, T0.back) /\ T0.back \in Labels
    BY <1>8 DEF Labels
  <2>a. Pc(T0) = T0.back
    BY <1>3
  <2> HIDE DEF T, T0, c
  <2>2. /\ T \in Rec /\ T.pc = T0.back /\ T.round = T0.round /\ T.state = T0.state /\ T.last = T0.last
        /\ T.of = T0.of
    BY <1>0, <2>1, AtRec
  <2>3. Pc(T) = Pc(T0)
    BY <1>8, <2>2, <2>a DEF Pc
  <2>4. Place(T, c) = at[t] /\ TaskOf(T) = task[t]
    BY <1>0, <2>2, <2>3 DEF Place, TaskOf
  <2>5. Loose(T, c, IsCancelled)
    BY <1>0, <1>8, <2>2, <2>4 DEF Loose, Local, Spinning
  <2>6. Goal
    BY <1>4, <2>2, <2>4, <2>5
  <2> QED
    BY <1>0, <2>2, <2>4, <2>6, Stays DEF Simulated, VNext, VSame
<1> QED
  BY <1>3, <1>5, <1>6, <1>7, <1>8 DEF Backs

(* What gomp_team_barrier_done stores when all threads are held: the next  *)
(* counter and no flag.                                                    *)
LEMMA DoneFacts ==
  ASSUME BarrierInv, NEW t \in Thread, Opener # {} \/ waiting
  PROVE  /\ Done(thr[t]) \in Word /\ Done(thr[t]).count # generation.count
         /\ ~Done(thr[t]).pending /\ ~Done(thr[t]).waiting /\ ~Done(thr[t]).cancelled
<1>1. thr[t].state \in Word /\ at[t] = Place(thr[t], generation.count)
      /\ Local(thr[t], generation.count, IsCancelled)
  BY ThreadFacts
<1>2. at[t] \in Openers \cup {"held"}
  BY SameRound DEF BarrierInv, Held
<1>3. thr[t].state.count = generation.count
  BY <1>1, <1>2 DEF Place, Local
<1>4. PICK p \in Word : p = Plain(thr[t].state)
  BY <1>1, WordFacts
<1>5. p.count = generation.count /\ ~p.pending /\ ~p.waiting /\ ~p.cancelled
  BY <1>3, <1>4 DEF Plain, Zero
<1> QED
  BY <1>4, <1>5, WordFacts DEF Done

(* The head of the task loop is a step that takes a task, drops one, opens *)
(* the barrier or leaves the loop.                                         *)
LEMMA PickView ==
  ASSUME BarrierInv, NEW t \in Thread, NEW w \in Word, w.count = generation.count,
         w.pending = generation.pending, w.cancelled = generation.cancelled,
         w.waiting = (waiting \/ at[t] = "enter"),
         thr[t].pc \in {"enter", "loop"}, at[t] = "enter" => live # Nothing,
         Pick(t, w), UNCHANGED <<awaited, awaitedFinal, region>>
  PROVE  Simulated
<1> DEFINE T0 == thr[t]
           c == generation.count
<1>0. /\ T0 \in Rec /\ Flags(T0, IsCancelled) /\ task[t] = 0 /\ round[t] = T0.round
      /\ (t \in Finals <=> Final(T0)) /\ Shape /\ T0.pc # "task" /\ T0.pc # "wake"
      /\ queued \in [1..Rounds -> Nat] /\ live \in [1..Rounds -> Nat]
  <2>1. T0.pc # "task" /\ T0.pc # "wake"
    OBVIOUS
  <2>2. Shape /\ queued \in [1..Rounds -> Nat] /\ live \in [1..Rounds -> Nat]
    BY ThreadFacts DEF Shape
  <2> QED
    BY <2>1, <2>2, ThreadFacts, AtFacts
<1>1. Inner(c, T0) = (IF at[t] = "enter" THEN "held" ELSE at[t]) /\ at[t] \in {"enter", "held", "late"}
  BY AtFacts DEF Inner
<1>2. /\ IsCancelled' = IsCancelled /\ counts' = counts /\ region' = region
      /\ (generation.cancelled => region = "cancelled")
  BY DEF IsCancelled, counts, BarrierInv, LocalOK
(* Where the thread stays, held or late.                                   *)
<1>3. ASSUME Move(t, Inner(c, T0), round[t]), generation'.waiting = w.waiting
      PROVE  Entered(t)
  <2>1. at' = [at EXCEPT ![t] = IF @ = "enter" THEN "held" ELSE @]
    BY <1>1, <1>3 DEF Move, at
  <2>2. round' = round
    BY <1>3 DEF Move, round
  <2>3. waiting' = (waiting \/ at[t] = "enter")
    BY <1>3 DEF waiting
  <2> QED
    BY <1>1, <1>2, <2>1, <2>2, <2>3 DEF Entered
<1>4. CASE SumFunction(queued) = 0
  <2>1. generation' = w /\ UNCHANGED tasks /\ Becomes(t, Returned(T0))
    BY <1>4 DEF Pick
  <2>2. PICK T \in Rec : T = Returned(T0)
    BY <1>0, ReturnedView
  <2>3. /\ Loose(T, c, IsCancelled) /\ TaskOf(T) = 0
        /\ \/ Place(T, c) = Inner(c, T0) /\ T.round = T0.round
           \/ Place(T, c) = "out" /\ T.round = Rounds /\ region = "cancelled" /\ ~Final(T0)
    <3> HIDE DEF T0, c
    <3> QED
      BY <1>0, <2>2, ReturnedView
  <2>4. /\ thr' \in [Thread -> Rec] /\ LocalOK' /\ Move(t, Place(T, c), T.round)
        /\ task' = [task EXCEPT ![t] = TaskOf(T)]
    <3> HIDE DEF T0
    <3> QED
      BY <1>2, <2>1, <2>2, <2>3, Changed
  <2>5. task' = task
    BY <1>0, <2>3, <2>4, Stays
  <2>6. Shape'
    BY <1>0, <1>2, <2>1, <2>4 DEF Shape, tasks, counts
  <2>7. pending' = pending /\ UNCHANGED work
    BY <2>1, <2>5 DEF pending, work, tasks
  <2>8. CASE Place(T, c) = Inner(c, T0) /\ T.round = T0.round
    <3>1. Entered(t)
      BY <1>0, <1>3, <2>1, <2>4, <2>8
    <3>2. VEnter(t)
      BY <2>7, <3>1 DEF VEnter
    <3> QED
      BY <2>4, <2>6, <3>2 DEF Simulated, VNext, VStep
  <2>9. CASE Place(T, c) = "out" /\ T.round = Rounds /\ region = "cancelled" /\ ~Final(T0)
    <3>1. at[t] # "enter"
      <4>1. at[t] = "enter" => t \in Opener
        BY DEF Opener, Openers
      <4>2. Opener # {} => Finals = Thread
        BY <2>9, SameRound DEF BarrierInv
      <4> QED
        BY <1>0, <2>9, <4>1, <4>2
    <3>2. waiting' = waiting
      BY <2>1, <3>1 DEF waiting, BarrierInv, TypeOK, Word
    <3>3. VQuit(t)
      BY <1>0, <1>1, <1>2, <2>4, <2>7, <2>9, <3>1, <3>2 DEF VQuit, words
    <3> QED
      BY <2>4, <2>6, <3>3 DEF Simulated, VNext, VStep
  <2> QED
    BY <2>3, <2>8, <2>9
<1>5. CASE SumFunction(queued) # 0
  <2> DEFINE w1 == IF SumFunction(queued) = 1 THEN [w EXCEPT !.pending = FALSE] ELSE w
  <2>1. PICK r \in 1..Rounds :
          /\ queued[r] > 0 /\ queued' = [queued EXCEPT ![r] = @ - 1] /\ created' = created
          /\ IF w.cancelled
             THEN /\ live' = [live EXCEPT ![r] = @ - 1]
                  /\ IF taskCount = 1 /\ w1.waiting
                     THEN generation' = Done(T0) /\ Becomes(t, WakeThen(T0, 0, "loop"))
                     ELSE generation' = w1 /\ Becomes(t, At(T0, "loop"))
             ELSE /\ generation' = w1 /\ live' = live
                  /\ Becomes(t, [At(T0, "task") EXCEPT !.of = r])
    BY <1>5 DEF Pick
  <2>2. Took(r) /\ live[r] > 0
    <3>1. live[r] = queued[r] + Cardinality(RunningOf(r)) /\ queued[r] \in Nat /\ live[r] \in Nat
      BY <1>0 DEF BarrierInv, ViewInv, TasksOK
    <3>2. Cardinality(RunningOf(r)) \in Nat
      BY Smaller DEF RunningOf
    <3> QED
      BY <2>1, <3>1, <3>2 DEF Took
  <2>3. SumFunction(queued) = 1 <=> queued' = Nothing
    BY <1>0, <2>1, SumFacts
  <2>4. /\ w1 \in Word /\ w1.count = c /\ w1.cancelled = generation.cancelled
        /\ w1.waiting = w.waiting /\ w1.pending = (queued' # Nothing)
    <3>1. queued # Nothing
      <4>1. queued = Nothing => queued[r] = 0
        BY DEF Nothing
      <4> QED
        BY <2>1, <4>1
    <3>2. w.pending = TRUE
      BY <3>1 DEF BarrierInv, ViewInv, TasksOK, pending, Word
    <3> QED
      BY <2>3, <3>2 DEF Word
  <2> HIDE DEF w1
  <2>5. queued' \in [1..Rounds -> Nat]
    <3>1. PICK n \in Nat : n = queued[r] - 1
      BY <1>0, <2>1
    <3> QED
      BY <1>0, <2>1, <3>1
  <2>6. CASE ~w.cancelled
    <3>1. generation' = w1 /\ live' = live /\ Becomes(t, [At(T0, "task") EXCEPT !.of = r])
      BY <2>1, <2>6
    <3>2. PICK A \in Rec : /\ A = At(T0, "task") /\ A.pc = "task" /\ A.round = T0.round
                           /\ A.state = T0.state
      BY <1>0, AtRec DEF Labels
    <3>3. PICK T \in Rec : /\ T = [A EXCEPT !.of = r] /\ T.pc = "task" /\ T.round = T0.round
                           /\ T.state = T0.state /\ T.of = r
      <4>1. [A EXCEPT !.of = r] \in Rec
        BY <3>2 DEF Rec
      <4>2. /\ [A EXCEPT !.of = r].pc = "task" /\ [A EXCEPT !.of = r].round = T0.round
            /\ [A EXCEPT !.of = r].state = T0.state /\ [A EXCEPT !.of = r].of = r
        BY <3>2 DEF Rec
      <4> QED
        BY <4>1, <4>2, Zenon
    <3>a. Becomes(t, T)
      BY <3>1, <3>2, <3>3
    <3>4. Flags(T, IsCancelled) /\ Inner(c, T) = Inner(c, T0) /\ TaskOf(T) = r
      BY <1>0, <3>3 DEF Flags, Inner, TaskOf, Pc
    <3>5. Place(T, c) = Inner(c, T0) /\ Loose(T, c, IsCancelled)
      <4> HIDE DEF T0, c
      <4> QED
        BY <3>3, <3>4, InnerView
    <3>6. /\ thr' \in [Thread -> Rec] /\ LocalOK' /\ Move(t, Place(T, c), T.round)
          /\ task' = [task EXCEPT ![t] = TaskOf(T)]
      <4> HIDE DEF T0
      <4> QED
        BY <1>2, <2>4, <3>1, <3>a, <3>5, Changed
    <3>7. Entered(t)
      BY <1>0, <1>3, <2>4, <3>1, <3>3, <3>5, <3>6
    <3>8. VTake(t, r)
      BY <1>0, <2>2, <2>4, <3>1, <3>4, <3>6, <3>7 DEF VTake, pending
    <3>9. Shape'
      BY <1>0, <1>2, <2>1, <2>4, <2>5, <3>1, <3>6 DEF Shape, counts
    <3> QED
      BY <3>6, <3>8, <3>9 DEF Simulated, VNext, VTaskStep
  <2>7. CASE w.cancelled
    <3>1. live' = [live EXCEPT ![r] = @ - 1] /\ Ended(r)
      BY <2>1, <2>2, <2>7 DEF Ended
    <3>2. taskCount = 1 <=> live' = Nothing
      BY <1>0, <2>2, <3>1, SumFacts DEF taskCount
    <3>3. live' \in [1..Rounds -> Nat]
      <4>1. PICK n \in Nat : n = live[r] - 1
        BY <1>0, <2>2
      <4> QED
        BY <1>0, <3>1, <4>1
    <3>4. CASE taskCount = 1 /\ w1.waiting
      <4>1. generation' = Done(T0) /\ Becomes(t, WakeThen(T0, 0, "loop"))
        BY <2>1, <2>7, <3>4
      <4>2. waiting \/ at[t] = "enter"
        BY <2>4, <3>4
      <4>3. (Opener # {} \/ waiting) /\ Opener \subseteq {t}
        BY <4>2 DEF BarrierInv, ViewInv, OpenerOK, Opener, Openers
      <4>4. /\ generation' \in Word /\ generation'.count # c /\ ~generation'.pending
            /\ ~generation'.waiting /\ ~generation'.cancelled
        BY <4>1, <4>3, DoneFacts
      <4>5. PICK T \in Rec : /\ T = WakeThen(T0, 0, "loop") /\ T.pc = "wake" /\ T.back = "loop"
                             /\ T.round = T0.round /\ T.state = T0.state
        BY <1>0, WakeRec DEF Backs
      <4>6. thr' \in [Thread -> Rec] /\ LocalOK' /\ Opened /\ task' = [task EXCEPT ![t] = 0]
        BY <1>2, <4>1, <4>3, <4>4, <4>5, OpenedBy
      <4>7. task' = task
        BY <1>0, <4>6, Stays
      <4>8. VDrop(t, r)
        BY <2>2, <3>1, <3>2, <3>4, <4>2, <4>6, <4>7 DEF VDrop
      <4>9. Shape'
        BY <1>0, <1>2, <2>1, <2>5, <3>3, <4>4, <4>6 DEF Shape, counts
      <4> QED
        BY <4>6, <4>8, <4>9 DEF Simulated, VNext, VTaskStep
    <3>5. CASE ~(taskCount = 1 /\ w1.waiting)
      <4>1. generation' = w1 /\ Becomes(t, At(T0, "loop"))
        BY <2>1, <2>7, <3>5
      <4>2. PICK T \in Rec : /\ T = At(T0, "loop") /\ T.pc = "loop" /\ T.round = T0.round
                             /\ T.state = T0.state
        BY <1>0, AtRec DEF Labels
      <4>3. Flags(T, IsCancelled) /\ Inner(c, T) = Inner(c, T0) /\ Pc(T) # "task"
        BY <1>0, <4>2 DEF Flags, Inner, Pc
      <4>4. Place(T, c) = Inner(c, T0) /\ Loose(T, c, IsCancelled) /\ TaskOf(T) = 0
        <5> HIDE DEF T0, c
        <5> QED
          BY <4>2, <4>3, InnerView
      <4>5. /\ thr' \in [Thread -> Rec] /\ LocalOK' /\ Move(t, Place(T, c), T.round)
            /\ task' = [task EXCEPT ![t] = TaskOf(T)]
        <5> HIDE DEF T0
        <5> QED
          BY <1>2, <2>4, <4>1, <4>2, <4>4, Changed
      <4>6. task' = task
        BY <1>0, <4>4, <4>5, Stays
      <4>7. Entered(t)
        BY <1>0, <1>3, <2>4, <4>1, <4>2, <4>4, <4>5
      <4>8. VDrop(t, r)
        BY <2>2, <2>4, <3>1, <3>2, <3>5, <4>1, <4>6, <4>7 DEF VDrop, pending
      <4>9. Shape'
        BY <1>0, <1>2, <2>1, <2>4, <2>5, <3>3, <4>1, <4>5 DEF Shape, counts
      <4> QED
        BY <4>5, <4>8, <4>9 DEF Simulated, VNext, VTaskStep
    <3> QED
      BY <3>4, <3>5
  <2> QED
    BY <2>6, <2>7
<1> QED
  BY <1>4, <1>5

(* Entering the task loop with the lock.                                   *)
LEMMA EnterView ==
  ASSUME BarrierInv, NEW t \in Thread, Enter(t), region' = region
  PROVE  Simulated
<1> DEFINE c == generation.count
<1>0. /\ thr[t] \in Rec /\ thr[t].pc = "enter" /\ Shape /\ generation \in Word
      /\ live \in [1..Rounds -> Nat] /\ task[t] = 0 /\ round[t] = thr[t].round
      /\ thr[t].last <=> at[t] = "enter"
      /\ UNCHANGED <<awaited, awaitedFinal, region>>
  <2>1. thr[t].pc = "enter" /\ UNCHANGED <<awaited, awaitedFinal, region>>
    BY DEF Enter
  <2>2. Shape /\ generation \in Word /\ live \in [1..Rounds -> Nat]
    BY ThreadFacts DEF Shape
  <2> QED
    BY <2>1, <2>2, ThreadFacts, AtFacts DEF Inner
<1>1. taskCount = 0 <=> live = Nothing
  BY <1>0, SumFacts DEF taskCount
<1>2. CASE thr[t].last /\ taskCount = 0
  <2>1. generation' = Done(thr[t]) /\ Becomes(t, WakeThen(thr[t], 0, "return")) /\ UNCHANGED tasks
    BY <1>2 DEF Enter
  <2>2. t \in Opener /\ Opener \subseteq {t} /\ live = Nothing
    BY <1>0, <1>1, <1>2 DEF BarrierInv, ViewInv, OpenerOK, Opener, Openers
  <2>3. /\ generation' \in Word /\ generation'.count # c /\ ~generation'.pending
        /\ ~generation'.waiting /\ ~generation'.cancelled
    BY <2>1, <2>2, DoneFacts
  <2>4. PICK T \in Rec : /\ T = WakeThen(thr[t], 0, "return") /\ T.pc = "wake" /\ T.back = "return"
                         /\ T.round = thr[t].round /\ T.state = thr[t].state
    BY <1>0, WakeRec DEF Backs
  <2>5. thr' \in [Thread -> Rec] /\ LocalOK' /\ Opened /\ task' = [task EXCEPT ![t] = 0]
    BY <1>0, <2>1, <2>2, <2>3, <2>4, OpenedBy DEF counts
  <2>6. task' = task
    BY <1>0, <2>5, Stays
  <2>7. VOpen(t)
    BY <1>0, <1>2, <2>1, <2>2, <2>5, <2>6 DEF VOpen, work, tasks
  <2>8. Shape'
    BY <1>0, <2>1, <2>3, <2>5 DEF Shape, tasks
  <2> QED
    BY <2>5, <2>7, <2>8 DEF Simulated, VNext, VStep
<1>3. CASE ~(thr[t].last /\ taskCount = 0)
  <2>1. Pick(t, [generation EXCEPT !.waiting = @ \/ thr[t].last])
    BY <1>3 DEF Enter
  <2>a. PICK b \in BOOLEAN : b = (generation.waiting \/ thr[t].last)
    BY <1>0 DEF Word, Rec
  <2>b. [generation EXCEPT !.waiting = @ \/ thr[t].last] = [generation EXCEPT !.waiting = b]
    BY <2>a, Zenon
  <2>c. PICK w \in Word : w = [generation EXCEPT !.waiting = b]
    <3>1. [generation EXCEPT !.waiting = b] \in Word
      BY <1>0, <2>a DEF Word
    <3> QED
      BY <3>1, Zenon
  <2>d. /\ w.count = c /\ w.pending = generation.pending
        /\ w.cancelled = generation.cancelled
    BY <1>0, <2>c DEF Word
  <2>e. w.waiting = b
    BY <1>0, <2>c DEF Word
  <2>2. /\ w = [generation EXCEPT !.waiting = @ \/ thr[t].last]
        /\ w.count = c /\ w.pending = generation.pending
        /\ w.cancelled = generation.cancelled
        /\ w.waiting = (generation.waiting \/ thr[t].last)
    BY <2>a, <2>b, <2>c, <2>d, <2>e, Zenon
  <2>3. w.waiting = (waiting \/ at[t] = "enter")
    BY <1>0, <2>2 DEF waiting
  <2> QED
    BY <1>0, <1>1, <1>3, <2>1, <2>2, <2>3, PickView
<1> QED
  BY <1>2, <1>3

(* The head of the task loop again.                                        *)
LEMMA LoopView ==
  ASSUME BarrierInv, NEW t \in Thread, Loop(t), region' = region
  PROVE  Simulated
<1>1. thr[t].pc = "loop" /\ Pick(t, generation) /\ UNCHANGED <<awaited, awaitedFinal, region>>
  BY DEF Loop
<1>2. at[t] # "enter" /\ generation \in Word
  BY <1>1, AtFacts, ThreadFacts DEF Inner, Shape
<1>3. generation.waiting = (waiting \/ at[t] = "enter")
  BY <1>2 DEF waiting, Word
<1> QED
  BY <1>1, <1>2, <1>3, PickView

(* The end of a task, the last of which opens the barrier if all threads   *)
(* are held.                                                               *)
LEMMA EndTaskView ==
  ASSUME BarrierInv, NEW t \in Thread, EndTask(t), region' = region
  PROVE  Simulated
<1> DEFINE T0 == thr[t]
           c == generation.count
           r == thr[t].of
<1>0. /\ T0 \in Rec /\ Flags(T0, IsCancelled) /\ task[t] = r /\ round[t] = T0.round /\ T0.pc = "task"
      /\ Shape /\ generation \in Word /\ r \in 1..Rounds /\ live \in [1..Rounds -> Nat]
      /\ at[t] = Inner(c, T0)
  <2>1. T0.pc = "task"
    BY DEF EndTask
  <2>2. Shape /\ generation \in Word /\ live \in [1..Rounds -> Nat]
    BY ThreadFacts DEF Shape
  <2>3. r \in 1..Rounds
    BY ThreadFacts DEF Rec
  <2> QED
    BY <2>1, <2>2, <2>3, ThreadFacts, AtFacts
<1>1. /\ live' = [live EXCEPT ![r] = @ - 1] /\ queued' = queued /\ created' = created
      /\ counts' = counts /\ region' = region /\ IsCancelled' = IsCancelled
      /\ IF taskCount = 1 /\ generation.waiting
         THEN generation' = Done(T0) /\ Becomes(t, WakeThen(T0, 0, "loop"))
         ELSE Becomes(t, At(T0, "loop")) /\ UNCHANGED generation
  BY DEF EndTask, counts, IsCancelled
<1> HIDE DEF r
<1>2. live[r] > 0 /\ Ended(r)
  BY <1>0, <1>1, RunsLive DEF Ended, BarrierInv
<1>3. taskCount = 1 <=> live' = Nothing
  BY <1>0, <1>1, <1>2, SumFacts DEF taskCount
<1>4. live' \in [1..Rounds -> Nat]
  <2>1. PICK n \in Nat : n = live[r] - 1
    BY <1>0, <1>2
  <2> QED
    BY <1>0, <1>1, <2>1
<1>5. CASE taskCount = 1 /\ generation.waiting
  <2>1. generation' = Done(T0) /\ Becomes(t, WakeThen(T0, 0, "loop")) /\ waiting
    BY <1>1, <1>5 DEF waiting
  <2>2. Opener \subseteq {t}
    BY <2>1 DEF BarrierInv, ViewInv, OpenerOK
  <2>3. /\ generation' \in Word /\ generation'.count # c /\ ~generation'.pending
        /\ ~generation'.waiting /\ ~generation'.cancelled
    BY <2>1, DoneFacts
  <2>4. PICK T \in Rec : /\ T = WakeThen(T0, 0, "loop") /\ T.pc = "wake" /\ T.back = "loop"
                         /\ T.round = T0.round /\ T.state = T0.state
    BY <1>0, WakeRec DEF Backs
  <2>5. thr' \in [Thread -> Rec] /\ LocalOK' /\ Opened /\ task' = [task EXCEPT ![t] = 0]
    BY <1>1, <2>1, <2>2, <2>3, <2>4, OpenedBy
  <2>6. VEnd(t, r)
    BY <1>0, <1>1, <1>2, <1>3, <1>5, <2>1, <2>5 DEF VEnd
  <2>7. Shape'
    BY <1>0, <1>1, <1>4, <2>3, <2>5 DEF Shape, counts
  <2> QED
    BY <1>0, <2>5, <2>6, <2>7 DEF Simulated, VNext, VTaskStep
<1>6. CASE ~(taskCount = 1 /\ generation.waiting)
  <2>1. generation' = generation /\ Becomes(t, At(T0, "loop"))
    BY <1>1, <1>6
  <2>2. PICK T \in Rec : /\ T = At(T0, "loop") /\ T.pc = "loop" /\ T.round = T0.round
                         /\ T.state = T0.state
    BY <1>0, AtRec DEF Labels
  <2>3. Flags(T, IsCancelled) /\ Inner(c, T) = Inner(c, T0) /\ Pc(T) # "task"
    BY <1>0, <2>2 DEF Flags, Inner, Pc
  <2>4. Place(T, c) = at[t] /\ Loose(T, c, IsCancelled) /\ TaskOf(T) = 0
    <3> HIDE DEF T0, c
    <3> QED
      BY <1>0, <2>2, <2>3, InnerView
  <2>5. /\ thr' \in [Thread -> Rec] /\ LocalOK' /\ Move(t, Place(T, c), T.round)
        /\ task' = [task EXCEPT ![t] = TaskOf(T)]
    <3> HIDE DEF T0
    <3> QED
      BY <1>0, <1>1, <2>1, <2>2, <2>4, Changed DEF BarrierInv, LocalOK
  <2>6. at' = at /\ round' = round
    BY <1>0, <2>2, <2>4, <2>5, Stays
  <2>7. VEnd(t, r)
    BY <1>0, <1>1, <1>2, <1>3, <1>6, <2>1, <2>4, <2>5, <2>6 DEF VEnd, words, pending, waiting
  <2>8. Shape'
    BY <1>0, <1>1, <1>4, <2>1, <2>5 DEF Shape, counts
  <2> QED
    BY <1>0, <2>5, <2>7, <2>8 DEF Simulated, VNext, VTaskStep
<1> QED
  BY <1>5, <1>6

(* The creation of a task.                                                 *)
LEMMA CreateTaskView ==
  ASSUME BarrierInv, NEW t \in Thread, CreateTask(t), region' = region
  PROVE  Simulated
<1> DEFINE T0 == thr[t]
           c == generation.count
           r == IF T0.pc = "work" THEN T0.round ELSE T0.of
<1>0. /\ T0 \in Rec /\ Flags(T0, IsCancelled) /\ round[t] = T0.round /\ T0.pc \in {"work", "task"}
      /\ Shape /\ generation \in Word /\ r \in 1..Rounds /\ live \in [1..Rounds -> Nat]
      /\ queued \in [1..Rounds -> Nat] /\ created \in Nat
      /\ at[t] = Place(T0, c) /\ task[t] = TaskOf(T0) /\ Local(T0, c, IsCancelled)
  <2>1. T0.pc \in {"work", "task"}
    BY DEF CreateTask
  <2>2. /\ Shape /\ generation \in Word /\ live \in [1..Rounds -> Nat]
        /\ queued \in [1..Rounds -> Nat] /\ created \in Nat
    BY ThreadFacts DEF Shape
  <2>3. r \in 1..Rounds
    BY ThreadFacts DEF Rec
  <2> QED
    BY <2>1, <2>2, <2>3, ThreadFacts, AtFacts
<1>1. task[t] = r \/ (at[t] = "out" /\ r = round[t])
  BY <1>0 DEF Place, Pc, TaskOf
<1>2. /\ live' = [live EXCEPT ![r] = @ + 1] /\ queued' = [queued EXCEPT ![r] = @ + 1]
      /\ created' = created + 1 /\ counts' = counts /\ region' = region /\ IsCancelled' = IsCancelled
      /\ generation' = [generation EXCEPT !.pending = TRUE]
      /\ Becomes(t, WakeThen(T0, 1, T0.pc)) \/ UNCHANGED thr
  BY DEF CreateTask, counts, IsCancelled
<1> HIDE DEF r
<1>3. /\ generation' \in Word /\ generation'.count = c /\ generation'.pending = TRUE
      /\ generation'.waiting = generation.waiting /\ generation'.cancelled = generation.cancelled
  BY <1>0, <1>2 DEF Word
<1>4. thr' \in [Thread -> Rec] /\ LocalOK' /\ at' = at /\ round' = round /\ task' = task
  <2>1. CASE UNCHANGED thr
    <3>1. thr' \in [Thread -> Rec]
      BY <1>0, <2>1 DEF Shape
    <3>2. LocalOK'
      BY <1>2, <1>3, <2>1 DEF BarrierInv, LocalOK, IsCancelled
    <3> QED
      BY <1>3, <2>1, <3>1, <3>2 DEF at, round, task
  <2>2. CASE Becomes(t, WakeThen(T0, 1, T0.pc))
    <3>1. PICK T \in Rec : /\ T = WakeThen(T0, 1, T0.pc) /\ T.pc = "wake" /\ T.back = T0.pc
                           /\ T.round = T0.round /\ T.state = T0.state /\ T.last = T0.last /\ T.of = T0.of
      BY <1>0, WakeRec DEF Backs
    <3>2. Pc(T) = Pc(T0)
      BY <1>0, <3>1 DEF Pc
    <3>3. Place(T, c) = at[t] /\ TaskOf(T) = task[t]
      BY <1>0, <3>1, <3>2 DEF Place, TaskOf
    <3>4. Loose(T, c, IsCancelled)
      BY <1>0, <3>1, <3>3 DEF Loose, Local, Spinning, Backs
    <3>5. /\ thr' \in [Thread -> Rec] /\ LocalOK' /\ Move(t, Place(T, c), T.round)
          /\ task' = [task EXCEPT ![t] = TaskOf(T)]
      <4> HIDE DEF T0
      <4> QED
        BY <1>2, <1>3, <2>2, <3>1, <3>4, Changed DEF BarrierInv, LocalOK
    <3> QED
      BY <1>0, <3>1, <3>3, <3>5, Stays
  <2> QED
    BY <1>2, <2>1, <2>2
<1>5. live' \in [1..Rounds -> Nat] /\ queued' \in [1..Rounds -> Nat] /\ created' \in Nat
  <2>1. PICK m \in Nat, n \in Nat : m = live[r] + 1 /\ n = queued[r] + 1
    BY <1>0
  <2> QED
    BY <1>0, <1>2, <2>1
<1>6. VCreate(t, r)
  BY <1>1, <1>2, <1>3, <1>4 DEF VCreate, pending, waiting
<1>7. Shape'
  BY <1>0, <1>2, <1>3, <1>4, <1>5 DEF Shape, counts
<1> QED
  BY <1>0, <1>4, <1>6, <1>7 DEF Simulated, VNext, VTaskStep

(* The cancellation.                                                       *)
LEMMA CancelView ==
  ASSUME BarrierInv, NEW t \in Thread, Cancel(t)
  PROVE  Simulated
<1> DEFINE T0 == thr[t]
           c == generation.count
           T == IF generation.cancelled THEN Quit(T0) ELSE WakeThen(T0, 0, "quit")
<1>0. /\ T0 \in Rec /\ Flags(T0, IsCancelled) /\ round[t] = T0.round /\ T0.pc = "work"
      /\ Shape /\ generation \in Word /\ at[t] = "out" /\ task[t] = 0 /\ t \notin Finals
  <2>1. T0.pc = "work" /\ ~Final(T0)
    BY DEF Cancel
  <2>2. Shape /\ generation \in Word
    BY ThreadFacts DEF Shape
  <2> QED
    BY <2>1, <2>2, ThreadFacts, AtFacts
<1>1. /\ region' = "cancelled" /\ IsCancelled' /\ Becomes(t, T)
      /\ generation' = [generation EXCEPT !.cancelled = TRUE]
      /\ UNCHANGED <<awaited, awaitedFinal, tasks>>
  BY DEF Cancel, IsCancelled
<1>2. /\ generation' \in Word /\ generation'.count = c /\ generation'.pending = generation.pending
      /\ generation'.waiting = generation.waiting
  BY <1>0, <1>1 DEF Word
<1>3. Flags(T0, IsCancelled')
  BY <1>0, <1>1 DEF Flags
<1>4. /\ T \in Rec /\ Loose(T, c, IsCancelled') /\ TaskOf(T) = 0
      /\ \/ Place(T, c) = "quit" /\ T.round = round[t]
         \/ Place(T, c) = "out" /\ T.round = Rounds /\ region = "cancelled"
  <2>1. CASE generation.cancelled
    <3>1. T = Quit(T0) /\ region = "cancelled"
      BY <2>1 DEF BarrierInv, LocalOK
    <3> HIDE DEF T, T0, c
    <3> QED
      BY <1>0, <1>3, <3>1, QuitView
  <2>2. CASE ~generation.cancelled
    <3>1. T = WakeThen(T0, 0, "quit") /\ "quit" \in Backs
      BY <2>2 DEF Backs
    <3> HIDE DEF T, T0, c
    <3>2. T \in Rec /\ T.pc = "wake" /\ T.back = "quit" /\ T.round = T0.round /\ T.state = T0.state
      BY <1>0, <3>1, WakeRec
    <3>3. Place(T, c) = "quit" /\ TaskOf(T) = 0
      BY <3>2 DEF Place, Pc, TaskOf
    <3>4. Loose(T, c, IsCancelled')
      BY <1>3, <3>1, <3>2, <3>3 DEF Loose, Flags, Spinning, Openers
    <3> QED
      BY <1>0, <3>2, <3>3, <3>4
  <2> QED
    BY <2>1, <2>2
<1> HIDE DEF T
<1>5. /\ thr' \in [Thread -> Rec] /\ LocalOK' /\ Move(t, Place(T, c), T.round)
      /\ task' = [task EXCEPT ![t] = TaskOf(T)]
  BY <1>1, <1>2, <1>4, Changed
<1>6. task' = task
  BY <1>0, <1>4, <1>5, Stays
<1>7. VCancel(t)
  <2>1. \/ Move(t, "quit", round[t])
        \/ region = "cancelled" /\ Move(t, "out", Rounds)
    BY <1>4, <1>5
  <2>2. UNCHANGED <<words, counts, work>>
    BY <1>1, <1>2, <1>6 DEF words, pending, waiting, counts, work, tasks
  <2> QED
    BY <1>0, <1>1, <2>1, <2>2 DEF VCancel
<1>8. Shape'
  BY <1>0, <1>1, <1>2, <1>5 DEF Shape, tasks
<1> QED
  BY <1>5, <1>7, <1>8 DEF Simulated, VNext, VStep

(* Every step of the barrier is a step of the view.                        *)
LEMMA NextView ==
  ASSUME BarrierInv, [Next]_vars
  PROVE  Simulated
<1>1. CASE UNCHANGED vars
  <2>1. Shape' /\ LocalOK'
    <3>0. PICK t \in Thread : TRUE
      BY SizeFacts
    <3>1. Shape /\ LocalOK
      BY <3>0, ThreadFacts DEF BarrierInv
    <3> QED
      BY <1>1, <3>1 DEF vars, Shape, LocalOK, IsCancelled
  <2>2. VSame
    BY <1>1 DEF vars, VSame, at, round, task, words, pending, waiting, counts, work
  <2> QED
    BY <2>1, <2>2 DEF Simulated, VNext
<1>2. ASSUME NEW t \in Thread, Step(t), region' = region PROVE Simulated
  BY <1>2, ArriveView, DecrementView, LastView, OpenView, WaitView, FutexWakeView, LoadView, EnterView,
     LoopView, EndTaskView DEF Step
<1>3. ASSUME NEW t \in Thread, CreateTask(t), region' = region PROVE Simulated
  BY <1>3, CreateTaskView
<1>4. ASSUME NEW t \in Thread, Cancel(t) PROVE Simulated
  BY <1>4, CancelView
<1> QED
  BY <1>1, <1>2, <1>3, <1>4 DEF Next, Over
-----------------------------------------------------------------------------
(* The theorems.                                                           *)

(* The counts are between 0 and the number of threads.                     *)
LEMMA Bounded == Shape /\ ViewInv => TypeOK
<1> SUFFICES ASSUME Shape, ViewInv PROVE TypeOK
  OBVIOUS
<1>1. /\ Cardinality(Thread) \in Nat \ {0} /\ Thread # {}
      /\ awaited \in Int /\ awaitedFinal \in Int
  BY SizeFacts DEF Shape
<1>2. awaited \in 0..Cardinality(Thread)
  <2>1. Awaits \in SUBSET Thread /\ Coming \in SUBSET Thread
    BY SetsInThread DEF Awaits
  <2>2. Cardinality(Awaits) \in Nat /\ Cardinality(Coming) \in Nat
    BY <2>1, Smaller
  <2> QED
    BY <1>1, <2>2 DEF ViewInv, AwaitedOK
<1>3. awaitedFinal \in 1..Cardinality(Thread)
  <2>1. AwaitsFinal \in SUBSET Thread /\ AwaitsFinal # {}
    BY <1>1, SetsInThread DEF AwaitsFinal
  <2>2. /\ Cardinality(AwaitsFinal) \in Nat /\ Cardinality(AwaitsFinal) <= Cardinality(Thread)
        /\ Cardinality(AwaitsFinal) # 0
    BY <2>1, Smaller
  <2> QED
    BY <1>1, <2>2 DEF ViewInv, FinalOK
<1> QED
  BY <1>2, <1>3 DEF Shape, Rec, TypeOK

(* At first every thread works in front of barrier 1.                      *)
LEMMA InitInv == Init => BarrierInv
<1> SUFFICES ASSUME Init PROVE BarrierInv
  OBVIOUS
<1>0. /\ Cardinality(Thread) \in Nat \ {0} /\ Thread # {} /\ Rounds \in Nat \ {0}
      /\ Zero \in Word /\ generation = Zero
  BY SizeFacts, WordFacts DEF Init
<1>1. \A t \in Thread : thr[t] = [pc |-> "work", round |-> 1, state |-> Zero, last |-> FALSE,
                                  expect |-> Zero, of |-> 1, back |-> "work", count |-> 0]
  BY DEF Init
<1>2. \A t \in Thread : at[t] = "out" /\ round[t] = 1 /\ task[t] = 0
  BY <1>1 DEF at, round, task, Place, Pc, TaskOf
<1>3. Shape
  <2>1. [pc |-> "work", round |-> 1, state |-> Zero, last |-> FALSE,
         expect |-> Zero, of |-> 1, back |-> "work", count |-> 0] \in Rec
    BY <1>0 DEF Rec, Labels
  <2>2. thr \in [Thread -> Rec]
    BY <2>1 DEF Init
  <2>3. queued \in [1..Rounds -> Nat] /\ live \in [1..Rounds -> Nat] /\ created \in Nat
    BY DEF Init
  <2>4. /\ awaited \in Int /\ awaitedFinal \in Int
        /\ region \in {"plain", "cancellable", "cancelled"}
    BY <1>0 DEF Init
  <2> QED
    BY <1>0, <2>2, <2>3, <2>4 DEF Shape
<1>4. LocalOK
  BY <1>0, <1>1 DEF LocalOK, Local, Zero, Pc, Place, Spinning, Openers
<1>5. Held = {} /\ Late = {} /\ Opener = {}
  BY <1>2 DEF Held, Late, Opener, Openers
<1>6. region # "cancelled" /\ live = Nothing /\ queued = Nothing /\ ~pending /\ ~waiting
  BY <1>0 DEF Init, Nothing, pending, waiting, Zero
<1>7. VTypeOK
  <2>1. at \in [Thread -> Places] /\ round \in [Thread -> 1..Rounds] /\ task \in [Thread -> 0..Rounds]
    <3>1. \A t \in Thread : at[t] \in Places /\ round[t] \in 1..Rounds /\ task[t] \in 0..Rounds
      BY <1>0, <1>2 DEF Places, Outer
    <3> QED
      BY <3>1 DEF at, round, task
  <2>2. pending \in BOOLEAN /\ waiting \in BOOLEAN
    BY <1>0 DEF pending, waiting, Word
  <2> QED
    BY <1>3, <2>1, <2>2 DEF VTypeOK, Shape
<1>8. LateOK /\ PhaseOK /\ PlaceOK
  <2>1. 1 \in 1..Rounds + 1 /\ InPhase(1)
    BY <1>0, <1>2, <1>5 DEF InPhase
  <2> QED
    BY <1>2, <1>5, <2>1 DEF LateOK, PhaseOK, PlaceOK
<1>9. AwaitedOK /\ FinalOK
  <2>1. Missing = Thread /\ Lacking = Thread
    BY <1>5 DEF Missing, Lacking
  <2>2. Awaits = Thread /\ AwaitsFinal = Thread
    BY <1>0, <2>1 DEF Awaits, AwaitsFinal
  <2>3. awaited = Cardinality(Thread) /\ awaitedFinal = Cardinality(Thread)
    BY DEF Init
  <2> QED
    BY <1>0, <1>6, <2>2, <2>3 DEF AwaitedOK, FinalOK
<1>10. OpenerOK
  BY <1>2, <1>5, <1>6 DEF OpenerOK
<1>11. TasksOK
  <2>1. ASSUME NEW r \in 1..Rounds PROVE live[r] = queued[r] + Cardinality(RunningOf(r))
    <3>1. RunningOf(r) = {}
      BY <1>0, <1>2 DEF RunningOf
    <3>2. Cardinality(RunningOf(r)) = 0
      BY <3>1, FS_EmptySet
    <3>3. live[r] = 0 /\ queued[r] = 0
      BY <1>6 DEF Nothing
    <3> QED
      BY <3>2, <3>3
  <2> QED
    BY <1>6, <2>1 DEF TasksOK
<1> QED
  BY <1>3, <1>4, <1>7, <1>8, <1>9, <1>10, <1>11, Bounded DEF BarrierInv, ViewInv

(* A step keeps the invariant ...                                          *)
LEMMA StepInv == BarrierInv /\ [Next]_vars => BarrierInv'
<1> SUFFICES ASSUME BarrierInv, [Next]_vars PROVE BarrierInv'
  OBVIOUS
<1>1. Shape' /\ LocalOK' /\ ViewInv'
  BY NextView, ViewStepInv DEF Simulated, BarrierInv
<1>2. (Shape /\ ViewInv => TypeOK)'
  BY Bounded, PTL
<1> QED
  BY <1>1, <1>2 DEF BarrierInv

(* ... and is a step of the abstract barrier.                              *)
LEMMA StepRefines == BarrierInv /\ [Next]_vars => [B!Next]_B!vars
<1> SUFFICES ASSUME BarrierInv, [Next]_vars PROVE [B!Next]_B!vars
  OBVIOUS
<1>1. BarrierInv' /\ VNext
  BY StepInv, NextView DEF Simulated
<1>2. Mapped /\ Mapped'
  BY <1>1, ViewOfBarrier, ViewOfBarrierNext DEF BarrierInv, Mapped
<1> QED
  BY <1>1, <1>2, ViewRefines DEF BarrierInv

(* The invariant implies the property of the flags.                        *)
LEMMA InvFlags == BarrierInv => FlagsSound
<1> SUFFICES ASSUME BarrierInv PROVE FlagsSound
  OBVIOUS
<1>1. /\ queued \in [1..Rounds -> Nat] /\ live \in [1..Rounds -> Nat]
      /\ ViewInv /\ LocalOK /\ TypeOK /\ VTypeOK
  BY DEF BarrierInv, TypeOK, ViewInv
<1>2. generation.pending <=> SumFunction(queued) > 0
  <2>1. SumFunction(queued) \in Nat /\ (SumFunction(queued) = 0 <=> queued = Nothing)
    BY <1>1, SumFacts
  <2>2. generation.pending <=> queued # Nothing
    BY <1>1 DEF ViewInv, TasksOK, pending
  <2> QED
    BY <2>1, <2>2
<1>3. ASSUME generation.waiting
      PROVE  taskCount > 0 /\ \A s, t \in Thread : arrived[s] = arrived[t]
  <2>1. taskCount \in Nat /\ (taskCount = 0 <=> live = Nothing)
    BY <1>1, SumFacts DEF taskCount
  <2>2. waiting /\ live # Nothing
    BY <1>1, <1>3 DEF ViewInv, OpenerOK, waiting
  <2>3. Held = Thread /\ \A s, t \in Thread : round[s] = round[t]
    BY <1>1, <2>2, SameRound
  <2>4. \A t \in Thread : Reached(t) = round[t]
    BY <2>3 DEF Reached, Held, Openers, Outer
  <2>5. arrived = [t \in Thread |-> Reached(t)]
    BY <1>1, ViewOfBarrier
  <2> QED
    BY <2>1, <2>2, <2>3, <2>4, <2>5
<1>4. NeverLastWhenCancelled
  <2> SUFFICES ASSUME NEW t \in Thread, thr[t].pc = "last", CancelKind(thr[t])
               PROVE  ~thr[t].state.cancelled
    BY DEF NeverLastWhenCancelled
  <2>1. at[t] = "last" /\ Local(thr[t], generation.count, IsCancelled) /\ t \notin Finals
    BY AtFacts, ThreadFacts DEF CancelKind
  <2>2. t \in Opener
    BY <2>1 DEF Opener, Openers
  <2>3. region # "cancelled"
    BY <1>1, <2>1, <2>2, SameRound
  <2> QED
    BY <2>1, <2>3 DEF Local, IsCancelled
<1> QED
  BY <1>2, <1>3, <1>4 DEF FlagsSound, FlagsExact

(* The inductive invariant holds in every reachable state.                 *)
LEMMA Invariance == Spec => []BarrierInv
BY InitInv, StepInv, PTL DEF Spec

(* Type correctness: awaited never falls below 0 nor exceeds the number of *)
(* threads, whatever order they arrive in, are cancelled or are late.      *)
THEOREM TypeCorrect == Spec => []TypeOK
<1>1. BarrierInv => TypeOK
  BY DEF BarrierInv
<1> QED
  BY <1>1, Invariance, PTL

(* BAR_TASK_PENDING and BAR_WAITING_FOR_TASK are exact and the last thread *)
(* of a cancellable barrier never sees BAR_CANCELLED, for any number of    *)
(* threads, barriers and tasks and wherever the counter wraps around.      *)
THEOREM FlagsAreSound == Spec => []FlagsSound
BY InvFlags, Invariance, PTL

(* The barrier of bar.c and task.c implements the abstract one: no thread  *)
(* leaves it before all have arrived and the tasks created before it have  *)
(* ended.                                                                  *)
THEOREM Refinement == Spec => ImplementsBarrier
<1>1. Init => B!Init
  <2> SUFFICES ASSUME Init PROVE B!Init
    OBVIOUS
  <2>1. \A t \in Thread : thr[t].pc = "work" /\ thr[t].round = 1
    BY DEF Init
  <2>2. arrived = [t \in Thread |-> 0] /\ passed = [t \in Thread |-> 0]
    BY <2>1 DEF arrived, passed
  <2> QED
    BY <2>2 DEF Init, B!Init
<1> QED
  BY <1>1, StepRefines, Invariance, PTL DEF Spec, ImplementsBarrier, B!Spec

(***************************************************************************)
(* The pool of task states (StatePool) neither loses a state nor hands one *)
(* out twice, for every team, every number of initial and added states and *)
(* every bound.                                                            *)
(***************************************************************************)
Getting == {"get", "trynew", "take", "alloc"}
Freeing == {"level", "pick", "try", "move"}

StateTypeOK ==
  /\ local \in [Hands -> [len : Int, size : Int, tofree : Int]]
  /\ global \in [len : Int, size : Int, lock : BOOLEAN, allocated : Nat]
  /\ hands \in [Hands -> [pc : {"run"} \cup Getting \cup Freeing,
                          cached : BOOLEAN, level : Nat, picked : Nat]]
  /\ busy \in Nat /\ lost \in Nat

(* A thread asks for states only with an empty list and nothing cached,    *)
(* and has what it is about to move: nobody else changes its list.         *)
HandsSound ==
  \A t \in Hands :
    /\ hands[t].pc \in Getting => local[t].len = 0 /\ ~hands[t].cached
    /\ hands[t].picked <= local[t].len
    /\ hands[t].pc \notin Freeing => hands[t].picked = 0

StateInv == StateTypeOK /\ StatesSound /\ HandsSound
-----------------------------------------------------------------------------
(* A team has a thread.                                                    *)
LEMMA TeamPositive == Team \in Nat \ {0}
BY StateAssumption, FS_CardinalityType, FS_EmptySet DEF Team

(* A share of a number of states is a natural number.                      *)
LEMMA DivNat ==
  ASSUME NEW a \in Nat, NEW b \in Nat \ {0}
  PROVE  a \div b \in Nat
OBVIOUS

(* What a step of one thread changes in the sums and in the number of      *)
(* cached states.                                                          *)
LEMMA OneList ==
  ASSUME StateTypeOK, StateTypeOK', NEW t \in Hands,
         \A x \in Hands \ {t} : local'[x] = local[x]
  PROVE  /\ SumFunction([x \in Hands |-> local'[x].len])
              = SumFunction([x \in Hands |-> local[x].len]) + local'[t].len - local[t].len
         /\ SumFunction([x \in Hands |-> local'[x].tofree])
              = SumFunction([x \in Hands |-> local[x].tofree]) + local'[t].tofree - local[t].tofree
<1> DEFINE f == [x \in Hands |-> local[x].len]
           g == [x \in Hands |-> local'[x].len]
           h == [x \in Hands |-> local[x].tofree]
           k == [x \in Hands |-> local'[x].tofree]
<1>1. /\ f \in [Hands -> Int] /\ g \in [Hands -> Int]
      /\ h \in [Hands -> Int] /\ k \in [Hands -> Int]
  BY DEF StateTypeOK
<1>2. \A x \in Hands \ {t} : f[x] = g[x] /\ h[x] = k[x]
  OBVIOUS
<1>3. f[t] = local[t].len /\ g[t] = local'[t].len /\ h[t] = local[t].tofree /\ k[t] = local'[t].tofree
  OBVIOUS
<1>4. IsFiniteSet(Hands)
  BY StateAssumption
<1> HIDE DEF f, g, h, k
<1>5. SumFunction(g) = SumFunction(f) + g[t] - f[t]
  BY <1>1, <1>2, <1>4, SumUpdate
<1>6. SumFunction(k) = SumFunction(h) + k[t] - h[t]
  BY <1>1, <1>2, <1>4, SumUpdate
<1> QED
  BY <1>3, <1>5, <1>6 DEF f, g, h, k

(* The totals over the threads' lists are integers.                        *)
LEMMA SumsInt ==
  ASSUME StateTypeOK
  PROVE  /\ SumFunction([x \in Hands |-> local[x].len]) \in Int
         /\ SumFunction([x \in Hands |-> local[x].tofree]) \in Int
<1> DEFINE f == [x \in Hands |-> local[x].len]
           h == [x \in Hands |-> local[x].tofree]
<1>1. f \in [Hands -> Int] /\ h \in [Hands -> Int]
  BY DEF StateTypeOK
<1>2. IsFiniteSet(Hands)
  BY StateAssumption
<1> HIDE DEF f, h
<1>3. SumFunction(f) \in Int /\ SumFunction(h) \in Int
  BY <1>1, <1>2, SumOfInts
<1> QED
  BY <1>3 DEF f, h

(* How the number of cached states changes when one thread's record does.  *)
LEMMA OneCached ==
  ASSUME NEW t \in Hands, \A x \in Hands \ {t} : hands'[x] = hands[x]
  PROVE  /\ Cardinality(Cached) \in Nat /\ Cardinality(Cached') \in Nat
         /\ hands[t].cached /\ ~hands'[t].cached =>
              Cardinality(Cached') = Cardinality(Cached) - 1
         /\ ~hands[t].cached /\ hands'[t].cached =>
              Cardinality(Cached') = Cardinality(Cached) + 1
         /\ (hands[t].cached <=> hands'[t].cached) =>
              Cardinality(Cached') = Cardinality(Cached)
<1>1. IsFiniteSet(Cached) /\ IsFiniteSet(Cached')
  BY StateAssumption, FS_Subset DEF Cached
<1>2. Cardinality(Cached) \in Nat /\ Cardinality(Cached') \in Nat
  BY <1>1, FS_CardinalityType
<1>3. ASSUME hands[t].cached, ~hands'[t].cached
      PROVE  Cardinality(Cached') = Cardinality(Cached) - 1
  <2>1. Cached' = Cached \ {t} /\ t \in Cached
    BY <1>3 DEF Cached
  <2> QED
    BY <1>1, <2>1, FS_RemoveElement
<1>4. ASSUME ~hands[t].cached, hands'[t].cached
      PROVE  Cardinality(Cached') = Cardinality(Cached) + 1
  <2>1. Cached' = Cached \cup {t} /\ t \notin Cached
    BY <1>4 DEF Cached
  <2> QED
    BY <1>1, <2>1, FS_AddElement
<1>5. ASSUME hands[t].cached <=> hands'[t].cached
      PROVE  Cardinality(Cached') = Cardinality(Cached)
  <2>1. Cached' = Cached
    BY <1>5 DEF Cached
  <2> QED
    BY <2>1
<1> QED
  BY <1>2, <1>3, <1>4, <1>5
-----------------------------------------------------------------------------
(* At first each thread's list has NumInit states and the global one none. *)
LEMMA StateInitInv == StateInit => StateInv
<1> SUFFICES ASSUME StateInit PROVE StateInv
  OBVIOUS
<1>1. StateTypeOK /\ HandsSound
  <2>1. Team * NumInit \in Nat
    BY TeamPositive, StateAssumption
  <2> QED
    BY <2>1, StateAssumption DEF StateInit, StateTypeOK, HandsSound, Hand, Getting, Freeing
<1>2. StatesSound
  <2>1. Cached = {}
    BY DEF StateInit, Cached, Hand
  <2>2. /\ [t \in Hands |-> local[t].len] = [t \in Hands |-> NumInit]
        /\ [t \in Hands |-> local[t].tofree] = [t \in Hands |-> NumInit]
    BY DEF StateInit
  <2>3. SumFunction([t \in Hands |-> NumInit]) = Team * NumInit
    BY StateAssumption, SumOfEqual DEF Team
  <2>4. Team * NumInit \in Nat
    BY TeamPositive, StateAssumption
  <2> QED
    BY <2>1, <2>2, <2>3, <2>4, FS_EmptySet, StateAssumption DEF StateInit, StatesSound
<1> QED
  BY <1>1, <1>2 DEF StateInv

(* A step of thread t keeps StatesSound if it accounts for what it moves.  *)
Accounts(t) ==
  /\ \A x \in Hands \ {t} : local'[x] = local[x] /\ hands'[x] = hands[x]
  /\ global'.allocated - global.allocated
       = (local'[t].len - local[t].len) + (global'.len - global.len)
           + (IF hands'[t].cached THEN 1 ELSE 0) - (IF hands[t].cached THEN 1 ELSE 0)
           + (busy' - busy) + (lost' - lost)
  /\ global'.allocated - global.allocated = local'[t].tofree - local[t].tofree
  /\ global'.len >= 0 /\ global'.size = global'.len
  /\ local'[t].len >= 0 /\ local'[t].size = local'[t].len

(* A step that accounts for each state it moves keeps the totals.          *)
LEMMA Balance ==
  ASSUME StateInv, StateTypeOK', NEW t \in Hands, Accounts(t)
  PROVE  StatesSound'
<1> USE DEF StateInv, Accounts
<1> DEFINE c == (IF hands'[t].cached THEN 1 ELSE 0) - (IF hands[t].cached THEN 1 ELSE 0)
<1>1. Cardinality(Cached) \in Nat /\ Cardinality(Cached') = Cardinality(Cached) + c
  <2>1. Cardinality(Cached) \in Nat /\ Cardinality(Cached') \in Nat
    BY OneCached
  <2>2. CASE hands[t].cached /\ ~hands'[t].cached
    BY <2>1, <2>2, OneCached
  <2>3. CASE ~hands[t].cached /\ hands'[t].cached
    BY <2>1, <2>3, OneCached
  <2>4. CASE hands[t].cached <=> hands'[t].cached
    BY <2>1, <2>4, OneCached
  <2> QED
    BY <2>2, <2>3, <2>4
<1> DEFINE a == SumFunction([x \in Hands |-> local[x].len])
           b == SumFunction([x \in Hands |-> local[x].tofree])
           a1 == SumFunction([x \in Hands |-> local'[x].len])
           b1 == SumFunction([x \in Hands |-> local'[x].tofree])
<1>2. a \in Int /\ b \in Int
  BY SumsInt
<1>3. a1 = a + local'[t].len - local[t].len /\ b1 = b + local'[t].tofree - local[t].tofree
  BY OneList
<1>4. /\ local[t].len \in Int /\ local'[t].len \in Int
      /\ local[t].tofree \in Int /\ local'[t].tofree \in Int
      /\ global.len \in Int /\ global'.len \in Int
      /\ global.allocated \in Int /\ global'.allocated \in Int
      /\ busy \in Int /\ busy' \in Int /\ lost \in Int /\ lost' \in Int
  BY DEF StateTypeOK
<1>5. /\ global.allocated = a + global.len + Cardinality(Cached) + busy + lost
      /\ global.allocated = b
  BY DEF StatesSound
<1> HIDE DEF a, b, a1, b1
<1>6. global'.allocated = a1 + global'.len + Cardinality(Cached') + busy' + lost'
  BY <1>1, <1>2, <1>3, <1>4, <1>5
<1>7. global'.allocated = b1
  BY <1>2, <1>3, <1>4, <1>5
<1>8. \A x \in Hands : local'[x].len >= 0 /\ local'[x].size = local'[x].len
  BY DEF StatesSound
<1> QED
  BY <1>6, <1>7, <1>8 DEF StatesSound, a1, b1

(* Every step of gomp_get_task_state, of gomp_free_task_state and of the   *)
(* start of a region keeps the invariant.                                  *)
LEMMA StateStepInv ==
  ASSUME StateInv, [StateNext]_stateVars
  PROVE  StateInv'
<1>0. StateTypeOK /\ StatesSound /\ HandsSound /\ NumInit \in Nat \ {0} /\ NumAdd \in Nat \ {0}
  BY StateAssumption DEF StateInv
<1>1. ASSUME NEW t \in Hands, FromLocal(t) PROVE StateInv'
  <2>1. StateTypeOK'
    BY <1>0, <1>1 DEF FromLocal, Hold, StateTypeOK, HandsSound, Getting, Freeing
  <2>2. HandsSound'
    BY <1>0, <1>1 DEF FromLocal, Hold, StateTypeOK, HandsSound, StatesSound, Getting, Freeing
  <2>3. Accounts(t)
    BY <1>0, <1>1 DEF FromLocal, Hold, StateTypeOK, HandsSound, StatesSound, Getting, Freeing, Accounts
  <2> QED
    BY <2>1, <2>2, <2>3, Balance DEF StateInv
<1>2. ASSUME NEW t \in Hands, GetStart(t) PROVE StateInv'
  <2>1. StateTypeOK'
    BY <1>0, <1>2 DEF GetStart, Hold, StateTypeOK, HandsSound, Getting, Freeing
  <2>2. HandsSound'
    BY <1>0, <1>2 DEF GetStart, Hold, StateTypeOK, HandsSound, StatesSound, Getting, Freeing
  <2>3. Accounts(t)
    BY <1>0, <1>2 DEF GetStart, Hold, StateTypeOK, HandsSound, StatesSound, Getting, Freeing, Accounts
  <2> QED
    BY <2>1, <2>2, <2>3, Balance DEF StateInv
<1>3. ASSUME NEW t \in Hands, GetLook(t) PROVE StateInv'
  <2>1. StateTypeOK'
    BY <1>0, <1>3 DEF GetLook, Hold, StateTypeOK, HandsSound, Getting, Freeing
  <2>2. HandsSound'
    BY <1>0, <1>3 DEF GetLook, Hold, StateTypeOK, HandsSound, StatesSound, Getting, Freeing
  <2>3. Accounts(t)
    BY <1>0, <1>3 DEF GetLook, Hold, StateTypeOK, HandsSound, StatesSound, Getting, Freeing, Accounts
  <2> QED
    BY <2>1, <2>2, <2>3, Balance DEF StateInv
<1>4. ASSUME NEW t \in Hands, GetTry(t) PROVE StateInv'
  <2>1. StateTypeOK'
    BY <1>0, <1>4 DEF GetTry, Hold, StateTypeOK, HandsSound, Getting, Freeing
  <2>2. HandsSound'
    BY <1>0, <1>4 DEF GetTry, Hold, StateTypeOK, HandsSound, StatesSound, Getting, Freeing
  <2>3. Accounts(t)
    BY <1>0, <1>4 DEF GetTry, Hold, StateTypeOK, HandsSound, StatesSound, Getting, Freeing, Accounts
  <2> QED
    BY <2>1, <2>2, <2>3, Balance DEF StateInv
<1>5. ASSUME NEW t \in Hands, GetTake(t) PROVE StateInv'
  <2>9. PICK n \in Nat : n = Fewer(global.len, NumAdd)
    BY <1>0 DEF Fewer, StateTypeOK, StatesSound
  <2>0. /\ n <= global.len /\ global.len \in Nat
        /\ local[t].len = 0 /\ local[t].size = 0 /\ hands[t].picked = 0 /\ ~hands[t].cached
    BY <1>0, <1>5, <2>9 DEF Fewer, GetTake, StateTypeOK, StatesSound, HandsSound, Getting, Freeing
  <2>1. CASE n = 0
    <3>1. /\ hands' = [hands EXCEPT ![t] = [hands[t] EXCEPT !.pc = "alloc"]]
          /\ global' = [global EXCEPT !.lock = FALSE] /\ UNCHANGED <<local, busy, lost>>
      BY <1>5, <2>9, <2>1 DEF GetTake, Hold
    <3>2. StateTypeOK'
      BY <1>0, <3>1 DEF StateTypeOK, Getting, Freeing
    <3>3. HandsSound'
      BY <1>0, <2>0, <3>1 DEF StateTypeOK, HandsSound, Getting, Freeing
    <3>4. Accounts(t)
      BY <1>0, <2>0, <3>1 DEF StateTypeOK, StatesSound, Accounts
    <3> QED
      BY <3>2, <3>3, <3>4, Balance DEF StateInv
  <2>2. CASE n # 0
    <3>1. /\ hands' = [hands EXCEPT ![t] = [hands[t] EXCEPT !.pc = "run", !.cached = TRUE]]
          /\ global' = [global EXCEPT !.lock = FALSE, !.size = @ - n, !.len = @ - n]
          /\ local' = [local EXCEPT ![t].len = n - 1, ![t].size = @ + n - 1]
          /\ UNCHANGED <<busy, lost>>
      BY <1>5, <2>9, <2>2 DEF GetTake, Hold
    <3>2. StateTypeOK'
      <4>1. hands' \in [Hands -> [pc : {"run"} \cup Getting \cup Freeing, cached : BOOLEAN, level : Nat, picked : Nat]]
        BY <1>0, <2>0, <3>1 DEF StateTypeOK
      <4>2. global' \in [len : Int, size : Int, lock : BOOLEAN, allocated : Nat]
        <5>1. PICK a \in Int, b \in Int : a = global.size - n /\ b = global.len - n
          BY <1>0 DEF StateTypeOK
        <5>2. global' = [global EXCEPT !.lock = FALSE, !.size = a, !.len = b]
          BY <3>1, <5>1
        <5> QED
          BY <1>0, <5>2 DEF StateTypeOK
      <4>3. local' \in [Hands -> [len : Int, size : Int, tofree : Int]]
        <5>1. PICK a \in Int, b \in Int : a = n - 1 /\ b = local[t].size + n - 1
          BY <1>0 DEF StateTypeOK
        <5>2. local' = [local EXCEPT ![t] = [local[t] EXCEPT !.len = a, !.size = b]]
          BY <1>0, <3>1, <5>1 DEF StateTypeOK
        <5> QED
          BY <1>0, <5>2 DEF StateTypeOK
      <4> QED
        BY <1>0, <2>0, <3>1, <4>1, <4>2, <4>3 DEF StateTypeOK
    <3>3. HandsSound'
      BY <1>0, <2>0, <2>2, <3>1 DEF StateTypeOK, HandsSound, Getting, Freeing
    <3>4. Accounts(t)
      <4>1. /\ hands'[t].cached /\ global'.allocated = global.allocated
            /\ global'.len = global.len - n /\ global'.size = global.size - n
            /\ local'[t].len = n - 1 /\ local'[t].size = local[t].size + n - 1
            /\ local'[t].tofree = local[t].tofree
            /\ \A x \in Hands \ {t} : local'[x] = local[x] /\ hands'[x] = hands[x]
        BY <1>0, <3>1 DEF StateTypeOK
      <4>2. /\ global.allocated \in Int /\ global.len \in Int /\ global.size = global.len
            /\ busy \in Int /\ lost \in Int /\ local[t].tofree \in Int
            /\ busy' = busy /\ lost' = lost
        BY <1>0, <3>1 DEF StateTypeOK, StatesSound
      <4> QED
        BY <2>0, <2>2, <4>1, <4>2 DEF Accounts
    <3> QED
      BY <3>2, <3>3, <3>4, Balance DEF StateInv
  <2> QED
    BY <2>1, <2>2
<1>6. ASSUME NEW t \in Hands, GetAlloc(t) PROVE StateInv'
  <2>1. StateTypeOK'
    BY <1>0, <1>6 DEF GetAlloc, Hold, StateTypeOK, HandsSound, Getting, Freeing
  <2>2. HandsSound'
    BY <1>0, <1>6 DEF GetAlloc, Hold, StateTypeOK, HandsSound, StatesSound, Getting, Freeing
  <2>3. Accounts(t)
    BY <1>0, <1>6 DEF GetAlloc, Hold, StateTypeOK, HandsSound, StatesSound, Getting, Freeing, Accounts
  <2> QED
    BY <2>1, <2>2, <2>3, Balance DEF StateInv
<1>7. ASSUME NEW t \in Hands, StartTask(t) PROVE StateInv'
  <2>1. StateTypeOK'
    <3>1. hands' \in [Hands -> [pc : {"run"} \cup Getting \cup Freeing, cached : BOOLEAN, level : Nat, picked : Nat]]
      BY <1>0, <1>7 DEF StartTask, Hold, StateTypeOK
    <3> QED
      BY <1>0, <1>7, <3>1 DEF StartTask, StateTypeOK
  <2>2. HandsSound'
    BY <1>0, <1>7 DEF StartTask, Hold, StateTypeOK, HandsSound, Getting, Freeing
  <2>3. Accounts(t)
    BY <1>0, <1>7 DEF StartTask, Hold, StateTypeOK, HandsSound, StatesSound, Getting, Freeing, Accounts
  <2> QED
    BY <2>1, <2>2, <2>3, Balance DEF StateInv
<1>8. ASSUME NEW t \in Hands, Free(t) PROVE StateInv'
  <2>1. StateTypeOK'
    BY <1>0, <1>8 DEF Free, Hold, StateTypeOK, HandsSound, Getting, Freeing
  <2>2. HandsSound'
    BY <1>0, <1>8 DEF Free, Hold, StateTypeOK, HandsSound, StatesSound, Getting, Freeing
  <2>3. Accounts(t)
    BY <1>0, <1>8 DEF Free, Hold, StateTypeOK, HandsSound, StatesSound, Getting, Freeing, Accounts
  <2> QED
    BY <2>1, <2>2, <2>3, Balance DEF StateInv
<1>9. ASSUME NEW t \in Hands, FreeLevel(t) PROVE StateInv'
  <2>1. StateTypeOK'
    BY <1>0, <1>9, TeamPositive, DivNat DEF FreeLevel, Returns, Hold, StateTypeOK, HandsSound, Getting, Freeing
  <2>2. HandsSound'
    BY <1>0, <1>9, TeamPositive, DivNat DEF FreeLevel, Returns, Hold, StateTypeOK, HandsSound, StatesSound, Getting, Freeing
  <2>3. Accounts(t)
    BY <1>0, <1>9, TeamPositive, DivNat DEF FreeLevel, Returns, Hold, StateTypeOK, HandsSound, StatesSound, Getting, Freeing, Accounts
  <2> QED
    BY <2>1, <2>2, <2>3, Balance DEF StateInv
<1>10. ASSUME NEW t \in Hands, FreePick(t) PROVE StateInv'
  <2> DEFINE n == IF hands[t].picked = 0 THEN Fewer(local[t].len, Surplus(hands[t].level)) ELSE hands[t].picked
  <2>0. /\ n \in Nat /\ n <= local[t].len
    <3>1. Surplus(hands[t].level) \in Nat
      BY <1>0, TeamPositive, DivNat DEF Surplus, StateTypeOK
    <3> QED
      BY <1>0, <3>1 DEF Fewer, StateTypeOK, StatesSound, HandsSound
  <2>1. PICK H : /\ hands' = [hands EXCEPT ![t] = H]
                 /\ \/ H = [hands[t] EXCEPT !.pc = "run", !.level = 0, !.picked = 0]
                    \/ H = [hands[t] EXCEPT !.pc = "try", !.picked = n]
    BY <1>10 DEF FreePick, Hold, Returns
  <2> HIDE DEF n
  <2>2. UNCHANGED <<local, global, busy, lost>> /\ hands[t].pc = "pick"
    BY <1>10 DEF FreePick
  <2>3. /\ H \in [pc : {"run"} \cup Getting \cup Freeing, cached : BOOLEAN, level : Nat, picked : Nat]
        /\ H.picked <= local[t].len /\ H.cached = hands[t].cached
        /\ H.pc \notin Getting /\ (H.pc \notin Freeing => H.picked = 0)
    <3>1. hands[t] \in [pc : {"run"} \cup Getting \cup Freeing, cached : BOOLEAN, level : Nat, picked : Nat] /\ local[t].len >= 0
      BY <1>0 DEF StateTypeOK, StatesSound
    <3>2. CASE H = [hands[t] EXCEPT !.pc = "run", !.level = 0, !.picked = 0]
      BY <3>1, <3>2 DEF Getting, Freeing
    <3>3. CASE H = [hands[t] EXCEPT !.pc = "try", !.picked = n]
      BY <2>0, <3>1, <3>3 DEF Getting, Freeing
    <3> QED
      BY <2>1, <3>2, <3>3
  <2>4. StateTypeOK'
    BY <1>0, <2>1, <2>2, <2>3 DEF StateTypeOK
  <2>5. HandsSound'
    BY <1>0, <2>1, <2>2, <2>3 DEF StateTypeOK, HandsSound
  <2>6. Accounts(t)
    <3>1. /\ hands'[t].cached = hands[t].cached
          /\ \A x \in Hands \ {t} : hands'[x] = hands[x]
      BY <1>0, <2>1, <2>3 DEF StateTypeOK
    <3> QED
      BY <1>0, <2>2, <3>1 DEF StateTypeOK, StatesSound, Accounts
  <2> QED
    BY <2>4, <2>5, <2>6, Balance DEF StateInv
<1>11. ASSUME NEW t \in Hands, FreeTry(t) PROVE StateInv'
  <2>1. StateTypeOK'
    BY <1>0, <1>11 DEF FreeTry, Hold, StateTypeOK, HandsSound, Getting, Freeing
  <2>2. HandsSound'
    BY <1>0, <1>11 DEF FreeTry, Hold, StateTypeOK, HandsSound, StatesSound, Getting, Freeing
  <2>3. Accounts(t)
    BY <1>0, <1>11 DEF FreeTry, Hold, StateTypeOK, HandsSound, StatesSound, Getting, Freeing, Accounts
  <2> QED
    BY <2>1, <2>2, <2>3, Balance DEF StateInv
<1>12. ASSUME NEW t \in Hands, FreeMove(t) PROVE StateInv'
  <2>9. PICK n \in Nat : n = hands[t].picked
    BY <1>0 DEF StateTypeOK
  <2>0. n <= local[t].len
    BY <1>0, <2>9 DEF StateTypeOK, HandsSound
  <2>1. hands' = [hands EXCEPT ![t] = [hands[t] EXCEPT !.pc = "run", !.level = 0, !.picked = 0]]
    BY <1>12 DEF FreeMove, Hold, Returns
  <2>2. UNCHANGED <<busy, lost>> /\ hands[t].pc = "move"
    BY <1>12 DEF FreeMove
  <2>3. CASE global.size >= hands[t].level
    <3>1. global' = [global EXCEPT !.lock = FALSE] /\ UNCHANGED local
      BY <1>12, <2>3 DEF FreeMove
    <3>2. StateTypeOK'
      BY <1>0, <2>1, <2>2, <3>1 DEF StateTypeOK
    <3>3. HandsSound' /\ Accounts(t)
      BY <1>0, <2>1, <2>2, <3>1 DEF StateTypeOK, HandsSound, StatesSound, Getting, Freeing, Accounts
    <3> QED
      BY <3>2, <3>3, Balance DEF StateInv
  <2>4. CASE ~(global.size >= hands[t].level)
    <3>1. /\ global' = [global EXCEPT !.lock = FALSE, !.len = @ + n, !.size = @ + n]
          /\ local' = [local EXCEPT ![t].len = @ - n, ![t].size = @ - n]
      BY <1>12, <2>9, <2>4 DEF FreeMove
    <3>2. StateTypeOK'
      <4>1. hands' \in [Hands -> [pc : {"run"} \cup Getting \cup Freeing, cached : BOOLEAN, level : Nat, picked : Nat]]
        BY <1>0, <2>0, <2>1, <2>2, <3>1 DEF StateTypeOK
      <4>2. global' \in [len : Int, size : Int, lock : BOOLEAN, allocated : Nat]
        <5>1. PICK a \in Int, b \in Int : a = global.size + n /\ b = global.len + n
          BY <1>0 DEF StateTypeOK
        <5>2. global' = [global EXCEPT !.lock = FALSE, !.size = a, !.len = b]
          BY <3>1, <5>1
        <5> QED
          BY <1>0, <5>2 DEF StateTypeOK
      <4>3. local' \in [Hands -> [len : Int, size : Int, tofree : Int]]
        <5>1. PICK a \in Int, b \in Int : a = local[t].len - n /\ b = local[t].size - n
          BY <1>0 DEF StateTypeOK
        <5>2. local' = [local EXCEPT ![t] = [local[t] EXCEPT !.len = a, !.size = b]]
          BY <1>0, <3>1, <5>1 DEF StateTypeOK
        <5> QED
          BY <1>0, <5>2 DEF StateTypeOK
      <4> QED
        BY <1>0, <2>0, <2>1, <2>2, <3>1, <4>1, <4>2, <4>3 DEF StateTypeOK
    <3>3. HandsSound'
      BY <1>0, <2>0, <2>1, <2>2, <3>1 DEF StateTypeOK, HandsSound, Getting, Freeing
    <3>4. Accounts(t)
      <4>1. /\ hands'[t].cached = hands[t].cached /\ global'.allocated = global.allocated
            /\ global'.len = global.len + n /\ global'.size = global.size + n
            /\ local'[t].len = local[t].len - n /\ local'[t].size = local[t].size - n
            /\ local'[t].tofree = local[t].tofree
            /\ \A x \in Hands \ {t} : local'[x] = local[x] /\ hands'[x] = hands[x]
        BY <1>0, <2>1, <3>1 DEF StateTypeOK
      <4>2. /\ global.allocated \in Int /\ global.len \in Nat /\ global.size = global.len
            /\ busy \in Int /\ lost \in Int /\ local[t].tofree \in Int
            /\ local[t].len \in Nat /\ local[t].size = local[t].len
        BY <1>0 DEF StateTypeOK, StatesSound
      <4> QED
        BY <2>0, <2>2, <4>1, <4>2 DEF Accounts
    <3> QED
      BY <3>2, <3>3, <3>4, Balance DEF StateInv
  <2> QED
    BY <2>3, <2>4
<1>13. CASE NextRegion
  <2>1. StateTypeOK'
    <3>1. hands' \in [Hands -> [pc : {"run"} \cup Getting \cup Freeing, cached : BOOLEAN, level : Nat, picked : Nat]]
      BY <1>0, <1>13, StateAssumption DEF NextRegion, Hold, StateTypeOK
    <3>2. lost' \in Nat
      BY <1>0, <1>13 DEF NextRegion, StateTypeOK
    <3> QED
      BY <1>0, <1>13, <3>1, <3>2 DEF NextRegion, StateTypeOK
  <2>2. HandsSound'
    BY <1>0, <1>13, StateAssumption DEF NextRegion, Hold, StateTypeOK, HandsSound, Getting, Freeing
  <2>3. First \in Hands /\ Accounts(First)
    BY <1>0, <1>13, StateAssumption DEF NextRegion, Hold, StateTypeOK, StatesSound, Accounts
  <2> QED
    BY <2>1, <2>2, <2>3, Balance DEF StateInv
<1>14. CASE UNCHANGED stateVars
  <2>1. StateTypeOK' /\ HandsSound'
    BY <1>0, <1>14 DEF stateVars, StateTypeOK, HandsSound
  <2>2. StatesSound'
    BY <1>0, <1>14 DEF stateVars, StatesSound, Cached
  <2> QED
    BY <2>1, <2>2 DEF StateInv
<1> QED
  BY <1>1, <1>2, <1>3, <1>4, <1>5, <1>6, <1>7, <1>8, <1>9, <1>10, <1>11, <1>12, <1>13, <1>14
     DEF StateNext, StateStep

(* No state of the pool (state.c) is lost or handed out twice, the sizes   *)
(* are those of the lists, and list_to_free leads to all states.           *)
THEOREM StatesAreSound == StateSpec => []StatesSound
<1>1. StateInv => StatesSound
  BY DEF StateInv
<1> QED
  BY <1>1, StateInitInv, StateStepInv, PTL DEF StateSpec

=============================================================================
