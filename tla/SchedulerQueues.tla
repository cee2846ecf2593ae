------------------------- MODULE SchedulerQueues ----------------------------
(***************************************************************************)
(* The queues of TaskScheduler: every operator of the scheduler keeps the  *)
(* queues, the blocked flags and the counters of the team in step.         *)
(***************************************************************************)
EXTENDS TaskScheduler, Sums, TLAPS

(* What a task may be allowed to do.                                       *)
AllOps == {"wait", "yield", "interrupt", "critical"}

(* The records the state is made of; the counters may be any integers.     *)
TaskRec ==
  [kind : Kinds, type : {"TIED", "UNTIED"}, prio : Nat, parent : MaybeTask,
   asc : MaybeTask, blocked : BOOLEAN, susp : Thread \cup {None},
   tw : BOOLEAN, inTied : BOOLEAN, to : MaybeTask, from : MaybeTask,
   prev : MaybeTask, next : MaybeTask, child : Places, tq : Places,
   sq : Places, lq : Places, pc : Labels, done : SUBSET AllOps,
   creators : SUBSET Task]

(* struct gomp_thread and struct gomp_team, and the whole state.           *)
ThrRec == [task : Task, last : MaybeTask]

TeamRec ==
  [count : Int, queued : Int, running : Int, pending : BOOLEAN,
   arrived : SUBSET Thread, waiting : BOOLEAN, over : BOOLEAN,
   lock : MaybeTask, fault : BOOLEAN]

StateRec == [task : [Task -> TaskRec], thr : [Thread -> ThrRec], team : TeamRec]

(* What holds of the record of the explicit task t by itself.              *)
Alone(T, t) ==
  /\ T.kind # "IMPLICIT"
  /\ T.kind \in {"none", "freed"} =>
       /\ T.child = "out" /\ T.tq = "out" /\ T.sq = "out" /\ T.lq = "out"
       /\ ~T.tw /\ T.pc = "run"
  /\ T.kind = "WAITING" =>
       /\ T.tq = ListOf(T.blocked)
       /\ T.parent # None => T.child = ListOf(T.blocked)
       /\ T.sq = IF T.susp = None THEN "out" ELSE ListOf(T.blocked)
       /\ T.type = "TIED" => T.susp = None
       /\ T.susp = None => T.pc = "run"
  /\ T.kind = "TIED" => T.tq = "out" /\ T.sq = "out" /\ T.child # "blocked"
  /\ T.kind = "TIED_SUSPENDED" =>
       /\ T.type = "TIED" /\ T.tq = "out" /\ T.sq = ListOf(T.blocked)
       /\ T.child # "blocked" /\ T.susp # None
  /\ T.lq # "out" =>
       /\ T.lq = "list" /\ T.blocked /\ T.pc = "contend"
       /\ T.kind \in {"WAITING", "TIED_SUSPENDED"}
  /\ T.child # "out" => T.parent # None
  /\ T.parent \in Explicit => T.parent < t
  /\ T.tw => T.pc \in {"wait", "poll", "try"}

(* The reason to hold t back.                                              *)
Held(S, t) ==
  \/ S.task[t].lq = "list"
  \/ /\ S.task[t].tw
     /\ IF S.task[t].type = "TIED" THEN IsBlockedTied(S, t)
        ELSE IsBlockedUntied(S, t)

(* A suspended task is held back exactly while it has a reason.            *)
Reason(S, t) ==
  S.task[t].kind \in {"WAITING", "TIED_SUSPENDED"} =>
    (S.task[t].blocked <=> Held(S, t))

(* The tasks that exist, and those ready in the queues of the team.        *)
LiveIn(S) == {t \in Explicit : S.task[t].kind \notin {"none", "freed"}}

QueuedIn(S) == {t \in Explicit : S.task[t].tq = "list"}

(* The counters of the team are the sizes of what they count.              *)
Counted(S) ==
  /\ S.team.queued = Cardinality(QueuedIn(S))
  /\ S.team.pending <=> S.team.queued > 0

(* The queues are in step, except that for the tasks of X it has yet to be *)
(* found out whether they are held back.                                   *)
InStep(S, X) ==
  /\ S \in StateRec
  /\ \A t \in Explicit : Alone(S.task[t], t)
  /\ \A t \in Explicit \ X : Reason(S, t)
  /\ \A h \in Thread : S.task[h].kind = "IMPLICIT" /\ S.task[h].type = "TIED" /\ S.task[h].parent = None
  /\ Counted(S)
-----------------------------------------------------------------------------
(* Facts about one step.                                                   *)

(* There are finitely many explicit tasks.                                 *)
LEMMA ExplicitFinite == IsFiniteSet(Explicit) /\ Explicit \subseteq Nat
<1>1. NTasks \in Nat
  BY SchedAssumption
<1>2. IsFiniteSet(1..NTasks)
  BY <1>1, FS_Interval
<1> QED
  BY <1>1, <1>2 DEF Explicit

(* The record of one task is replaced.                                     *)
LEMMA SetTask ==
  ASSUME NEW S \in StateRec, NEW t \in Task, NEW T \in TaskRec
  PROVE  LET R == [S EXCEPT !.task[t] = T]
         IN /\ R \in StateRec /\ R.thr = S.thr /\ R.team = S.team
            /\ R.task[t] = T /\ \A c \in Task \ {t} : R.task[c] = S.task[c]
BY DEF StateRec

(* The record of the team is replaced.                                     *)
LEMMA SetTeam ==
  ASSUME NEW S \in StateRec, NEW T \in TeamRec
  PROVE  LET R == [S EXCEPT !.team = T]
         IN /\ R \in StateRec /\ R.thr = S.thr /\ R.team = T /\ R.task = S.task
BY DEF StateRec

(* A move of a queue node that is where it is believed to be.              *)
LEMMA MoveEffect ==
  ASSUME NEW S \in StateRec, NEW t \in Task, NEW b \in Places, NEW a
  PROVE  /\ S.task[t].child = a =>
              Move(S, t, "child", a, b) = [S EXCEPT !.task[t] = [S.task[t] EXCEPT !.child = b]]
         /\ S.task[t].tq = a =>
              Move(S, t, "tq", a, b) = [S EXCEPT !.task[t] = [S.task[t] EXCEPT !.tq = b]]
         /\ S.task[t].sq = a =>
              Move(S, t, "sq", a, b) = [S EXCEPT !.task[t] = [S.task[t] EXCEPT !.sq = b]]
         /\ S.task[t].lq = a =>
              Move(S, t, "lq", a, b) = [S EXCEPT !.task[t] = [S.task[t] EXCEPT !.lq = b]]
BY DEF Move, StateRec

(* The fields of a task's record in the queues.                            *)
LEMMA SetFields ==
  ASSUME NEW T \in TaskRec, NEW b \in Places
  PROVE  /\ [T EXCEPT !.child = b] \in TaskRec /\ [T EXCEPT !.tq = b] \in TaskRec
         /\ [T EXCEPT !.sq = b] \in TaskRec /\ [T EXCEPT !.lq = b] \in TaskRec
BY DEF TaskRec

(* What a change of the blocked flag leaves alone.                         *)
SameStatic(T, U) ==
  /\ T.type = U.type /\ T.prio = U.prio /\ T.parent = U.parent /\ T.asc = U.asc
  /\ T.tw = U.tw /\ T.inTied = U.inTied /\ T.pc = U.pc
  /\ T.done = U.done /\ T.creators = U.creators

(* The same, without what may change with the place in the queues.         *)
SameFixed(T, U) ==
  /\ SameStatic(T, U) /\ T.kind = U.kind /\ T.susp = U.susp /\ T.lq = U.lq
  /\ T.to = U.to /\ T.from = U.from /\ T.prev = U.prev /\ T.next = U.next

(* The same; a child also stays a child.                                   *)
SameRec(T, U) ==
  SameFixed(T, U) /\ (T.child = "out" <=> U.child = "out")

(* An untied task that has moved to another list of its queues.            *)
MovedTo(T, U, b) ==
  /\ U.sq = b /\ U.tq = b /\ U.blocked = T.blocked
  /\ U.child = IF T.parent # None THEN b ELSE T.child
  /\ SameFixed(T, U)

(* An untied task moves in all its queues at once.                         *)
LEMMA MoveUntiedEffect ==
  ASSUME NEW S \in StateRec, NEW t \in Task, NEW a, NEW b \in Places,
         S.task[t].parent # None => S.task[t].child = a,
         S.task[t].tq = a, S.task[t].sq = a
  PROVE  \E U \in TaskRec :
           MoveUntied(S, t, a, b) = [S EXCEPT !.task[t] = U] /\ MovedTo(S.task[t], U, b)
<1> DEFINE T == S.task[t]
           T1 == [T EXCEPT !.child = IF T.parent # None THEN b ELSE T.child]
           T2 == [T1 EXCEPT !.tq = b]
           T3 == [T2 EXCEPT !.sq = b]
           S1 == IF T.parent # None THEN Move(S, t, "child", a, b) ELSE S
           S2 == Move(S1, t, "tq", a, b)
           S3 == Move(S2, t, "sq", a, b)
<1>1. T \in TaskRec
  BY DEF StateRec
<1>2. T1 \in TaskRec /\ T1.tq = a /\ T1.sq = a
  BY <1>1 DEF TaskRec
<1>3. T2 \in TaskRec /\ T2.sq = a
  BY <1>2 DEF TaskRec
<1>4. T3 \in TaskRec
  BY <1>3 DEF TaskRec
<1>5. S1 = [S EXCEPT !.task[t] = T1]
  <2>1. CASE T.parent # None
    BY <2>1, MoveEffect
  <2>2. CASE T.parent = None
    <3>1. T1 = T
      BY <1>1, <2>2 DEF TaskRec
    <3> QED
      BY <3>1, <2>2 DEF StateRec
  <2> QED
    BY <2>1, <2>2
<1>6. S1 \in StateRec /\ S1.task[t] = T1
  <2> HIDE DEF S1, T1
  <2> QED
    BY <1>2, <1>5, SetTask
<1>7. S2 = [S1 EXCEPT !.task[t] = T2]
  <2> HIDE DEF S1, T1
  <2> QED
    BY <1>2, <1>6, MoveEffect
<1>8. S2 \in StateRec /\ S2.task[t] = T2
  <2> HIDE DEF S1, S2, T2
  <2> QED
    BY <1>3, <1>6, <1>7, SetTask
<1>9. S3 = [S2 EXCEPT !.task[t] = T3]
  <2> HIDE DEF S2, T2
  <2> QED
    BY <1>3, <1>8, MoveEffect
<1>10. S3 = [S EXCEPT !.task[t] = T3]
  <2> HIDE DEF T1, T2, T3
  <2> QED
    BY <1>5, <1>7, <1>9 DEF StateRec
<1>11. MovedTo(T, T3, b)
  BY <1>1 DEF TaskRec, MovedTo, SameFixed, SameStatic
<1>12. MoveUntied(S, t, a, b) = S3
  BY DEF MoveUntied
<1> QED
  BY <1>4, <1>10, <1>11, <1>12

(* The children that p could run itself.                                   *)
ReadyKids(S, p) == {c \in Children(S, p) : S.task[c].kind = "WAITING" /\ S.task[c].child = "list"}

(* When an untied task in a taskwait is held back.                         *)
LEMMA BlockedUntied ==
  ASSUME NEW S, NEW p
  PROVE  IsBlockedUntied(S, p) <=>
           Children(S, p) # {} /\ (UntiedBlock \/ ReadyKids(S, p) = {})
BY DEF IsBlockedUntied, ReadyKids, Waiting, Children

(* If one task moves inside its parent's queue, only its parent may notice. *)
LEMMA KidsFrame ==
  ASSUME NEW S \in StateRec, NEW R \in StateRec, NEW t \in Explicit,
         \A c \in Explicit \ {t} : R.task[c] = S.task[c],
         R.task[t].parent = S.task[t].parent,
         R.task[t].child = "out" <=> S.task[t].child = "out"
  PROVE  \A p : /\ Children(R, p) = Children(S, p)
                /\ p # S.task[t].parent => ReadyKids(R, p) = ReadyKids(S, p)
BY DEF ReadyKids, Children

(* A task whose children look the same to it has the same reason.          *)
LEMMA ReasonFrame ==
  ASSUME NEW S \in StateRec, NEW R \in StateRec, NEW p \in Explicit,
         R.task[p].kind = S.task[p].kind, R.task[p].type = S.task[p].type,
         R.task[p].blocked = S.task[p].blocked, R.task[p].lq = S.task[p].lq,
         R.task[p].tw = S.task[p].tw,
         R.task[p].tw => (Children(R, p) = {} <=> Children(S, p) = {}),
         R.task[p].tw /\ R.task[p].type = "UNTIED" /\ Children(R, p) # {} =>
           (ReadyKids(R, p) = {} <=> ReadyKids(S, p) = {}),
         Reason(S, p)
  PROVE  Reason(R, p)
<1>1. R.task[p].tw => (IsBlockedTied(R, p) <=> IsBlockedTied(S, p))
  BY DEF IsBlockedTied
<1>2. R.task[p].tw /\ R.task[p].type # "TIED" => (IsBlockedUntied(R, p) <=> IsBlockedUntied(S, p))
  <2>1. R.task[p].type \in {"TIED", "UNTIED"}
    BY DEF StateRec, TaskRec, Task
  <2> QED
    BY <2>1, BlockedUntied
<1>3. Held(R, p) <=> Held(S, p)
  BY <1>1, <1>2 DEF Held
<1> QED
  BY <1>3 DEF Reason

(* What queueing a task leaves alone in the team's record.                 *)
SameTeam(V, W) ==
  /\ V.count = W.count /\ V.running = W.running /\ V.arrived = W.arrived
  /\ V.waiting = W.waiting /\ V.over = W.over /\ V.lock = W.lock /\ V.fault = W.fault

(* Two states that differ only in blocked flags and queue places.          *)
Same(S, R) ==
  /\ S \in StateRec /\ R \in StateRec /\ R.thr = S.thr
  /\ \A c \in Explicit : SameRec(S.task[c], R.task[c])
  /\ \A h \in Thread : R.task[h] = S.task[h]
  /\ SameTeam(S.team, R.team)

(* It is an equivalence: reflexive ...                                     *)
LEMMA SameItself ==
  ASSUME NEW S \in StateRec
  PROVE  Same(S, S)
BY DEF Same, SameRec, SameFixed, SameStatic, SameTeam

(* ... and transitive.                                                     *)
LEMMA SameTransitive ==
  ASSUME NEW S, NEW R, NEW Q, Same(S, R), Same(R, Q)
  PROVE  Same(S, Q)
BY DEF Same, SameRec, SameFixed, SameStatic, SameTeam

(* The queued tasks, when one joins or leaves.                             *)
LEMMA QueuedChange ==
  ASSUME NEW S \in StateRec, NEW R \in StateRec, NEW t \in Explicit,
         \A c \in Explicit \ {t} : R.task[c].tq = S.task[c].tq
  PROVE  /\ IsFiniteSet(QueuedIn(S)) /\ Cardinality(QueuedIn(S)) \in Nat
         /\ R.task[t].tq = S.task[t].tq => QueuedIn(R) = QueuedIn(S)
         /\ R.task[t].tq = "list" /\ S.task[t].tq # "list" =>
              Cardinality(QueuedIn(R)) = Cardinality(QueuedIn(S)) + 1
         /\ R.task[t].tq # "list" /\ S.task[t].tq = "list" =>
              Cardinality(QueuedIn(R)) = Cardinality(QueuedIn(S)) - 1
<1>1. IsFiniteSet(QueuedIn(S)) /\ IsFiniteSet(QueuedIn(R))
  BY ExplicitFinite, FS_Subset DEF QueuedIn
<1>2. Cardinality(QueuedIn(S)) \in Nat
  BY <1>1, FS_CardinalityType
<1>3. R.task[t].tq = S.task[t].tq => QueuedIn(R) = QueuedIn(S)
  BY DEF QueuedIn
<1>4. ASSUME R.task[t].tq = "list", S.task[t].tq # "list"
      PROVE  Cardinality(QueuedIn(R)) = Cardinality(QueuedIn(S)) + 1
  <2>1. QueuedIn(R) = QueuedIn(S) \cup {t} /\ t \notin QueuedIn(S)
    BY <1>4 DEF QueuedIn
  <2> QED
    BY <1>1, <2>1, FS_AddElement
<1>5. ASSUME R.task[t].tq # "list", S.task[t].tq = "list"
      PROVE  Cardinality(QueuedIn(R)) = Cardinality(QueuedIn(S)) - 1
  <2>1. QueuedIn(R) = QueuedIn(S) \ {t} /\ t \in QueuedIn(S)
    BY <1>5 DEF QueuedIn
  <2> QED
    BY <1>1, <2>1, FS_RemoveElement
<1> QED
  BY <1>1, <1>2, <1>3, <1>4, <1>5

(* Queued and Unqueued.                                                    *)
LEMMA QueuedEffect ==
  ASSUME NEW S \in StateRec
  PROVE  \E V \in TeamRec :
           /\ Queued(S) = [S EXCEPT !.team = V]
           /\ V.queued = S.team.queued + 1 /\ V.pending /\ SameTeam(S.team, V)
<1> PICK q \in Int : q = S.team.queued + 1
  BY DEF StateRec, TeamRec
<1> DEFINE V == [S.team EXCEPT !.queued = q, !.pending = TRUE]
<1>1. V \in TeamRec /\ V.queued = q /\ V.pending = TRUE
  BY DEF StateRec, TeamRec
<1>2. SameTeam(S.team, V)
  BY DEF StateRec, TeamRec, SameTeam
<1>3. Queued(S) = [S EXCEPT !.team.queued = q, !.team.pending = TRUE]
  BY Zenon DEF Queued
<1>4. [S EXCEPT !.team.queued = q, !.team.pending = TRUE] = [S EXCEPT !.team = V]
  BY DEF StateRec
<1> QED
  BY <1>1, <1>2, <1>3, <1>4

(* A task leaves the queue of the team.                                    *)
LEMMA UnqueuedEffect ==
  ASSUME NEW S \in StateRec
  PROVE  \E V \in TeamRec :
           /\ Unqueued(S) = [S EXCEPT !.team = V]
           /\ V.queued = S.team.queued - 1 /\ SameTeam(S.team, V)
           /\ V.pending = IF S.team.queued = 1 THEN FALSE ELSE S.team.pending
<1> PICK q \in Int : q = S.team.queued - 1
  BY DEF StateRec, TeamRec
<1> PICK b \in BOOLEAN : b = IF S.team.queued = 1 THEN FALSE ELSE S.team.pending
  BY DEF StateRec, TeamRec
<1> DEFINE V == [S.team EXCEPT !.queued = q, !.pending = b]
<1>1. V \in TeamRec /\ V.queued = q /\ V.pending = b
  BY DEF StateRec, TeamRec
<1>2. SameTeam(S.team, V)
  BY DEF StateRec, TeamRec, SameTeam
<1>3. Unqueued(S) = [S EXCEPT !.team.queued = q, !.team.pending = b]
  BY Zenon DEF Unqueued
<1>4. [S EXCEPT !.team.queued = q, !.team.pending = b] = [S EXCEPT !.team = V]
  BY DEF StateRec
<1> QED
  BY <1>1, <1>2, <1>3, <1>4
-----------------------------------------------------------------------------
(* gomp_task_handle_blocking.                                              *)

(* The parent of a task is another one.                                    *)
LEMMA NotOwnParent ==
  ASSUME NEW S \in StateRec, NEW t \in Explicit, Alone(S.task[t], t)
  PROVE  S.task[t].parent # t
<1>1. t \in Nat
  BY ExplicitFinite
<1> QED
  BY <1>1 DEF Alone

(* The blocked flag of a task in a taskwait is put right.  Its parent may  *)
(* have to follow, if the task has become ready to it or stopped being so. *)
LEMMA FlipInStep ==
  ASSUME NEW S, NEW t \in Explicit, InStep(S, {t}), S.task[t].tw,
         NEW R \in StateRec, R.thr = S.thr, SameTeam(S.team, R.team),
         \A c \in Task \ {t} : R.task[c] = S.task[c],
         SameRec(S.task[t], R.task[t]), Alone(R.task[t], t), Counted(R),
         NEW X, S.task[t].parent \in Explicit /\ S.task[S.task[t].parent].tw /\ S.task[t].type # "TIED" =>
                  S.task[t].parent \in X,
         S.task[t].type = "TIED" => R.task[t].kind = "TIED_SUSPENDED",
         R.task[t].blocked <=> IF S.task[t].type = "TIED" THEN IsBlockedTied(S, t)
                               ELSE IsBlockedUntied(S, t)
  PROVE  InStep(R, X) /\ Same(S, R)
<1>1. S \in StateRec /\ Explicit \subseteq Task /\ t \in Task /\ Thread \subseteq Task
  BY DEF InStep, Task
<1>2. \A c \in Explicit \ {t} : R.task[c] = S.task[c]
  BY <1>1
<1>3. \A h \in Thread : R.task[h] = S.task[h]
  BY <1>1, SchedAssumption
<1>4. \A p : /\ Children(R, p) = Children(S, p)
             /\ p # S.task[t].parent => ReadyKids(R, p) = ReadyKids(S, p)
  BY <1>1, <1>2, KidsFrame DEF SameRec, SameFixed, SameStatic
<1>5. Reason(R, t)
  <2>1. S.task[t].parent # t
    BY <1>1, NotOwnParent DEF InStep
  <2>2. IsBlockedTied(R, t) <=> IsBlockedTied(S, t)
    BY <1>4 DEF IsBlockedTied
  <2>3. IsBlockedUntied(R, t) <=> IsBlockedUntied(S, t)
    BY <1>4, <2>1, BlockedUntied
  <2>4. R.task[t].lq # "list"
    BY DEF InStep, Alone, SameRec, SameFixed, SameStatic
  <2>5. R.task[t].tw /\ R.task[t].type = S.task[t].type
    BY DEF SameRec, SameFixed, SameStatic
  <2> QED
    BY <2>2, <2>3, <2>4, <2>5 DEF Reason, Held
<1>6. ASSUME NEW c \in Explicit \ X
      PROVE  Reason(R, c)
  <2>1. CASE c = t
    BY <1>5, <2>1
  <2>2. CASE c # t
    <3>1. Reason(S, c) /\ R.task[c] = S.task[c]
      BY <1>2, <2>2 DEF InStep
    <3>2. R.task[c].tw /\ R.task[c].type = "UNTIED" =>
            (ReadyKids(R, c) = {} <=> ReadyKids(S, c) = {})
      <4>1. CASE c # S.task[t].parent
        BY <1>4, <4>1
      <4>2. CASE c = S.task[t].parent /\ S.task[c].tw /\ S.task[t].type = "TIED"
        <5>1. R.task[t].kind = "TIED_SUSPENDED" /\ S.task[t].kind = "TIED_SUSPENDED"
          BY <4>2 DEF SameRec, SameFixed, SameStatic
        <5>2. ReadyKids(R, c) = ReadyKids(S, c)
          <6>1. \A d \in Children(S, c) : d \in Explicit /\ (d # t => R.task[d] = S.task[d])
            BY <1>2 DEF Children
          <6> QED
            BY <1>4, <5>1, <6>1 DEF ReadyKids
        <5> QED
          BY <5>2
      <4>3. CASE c = S.task[t].parent /\ S.task[c].tw /\ S.task[t].type # "TIED"
        BY <1>6, <4>3
      <4> QED
        BY <3>1, <4>1, <4>2, <4>3
    <3> QED
      BY <1>1, <1>4, <3>1, <3>2, ReasonFrame
  <2> QED
    BY <2>1, <2>2
<1>7. \A c \in Explicit : Alone(R.task[c], c)
  BY <1>2 DEF InStep
<1>8. \A h \in Thread : R.task[h].kind = "IMPLICIT" /\ R.task[h].type = "TIED" /\ R.task[h].parent = None
  BY <1>3 DEF InStep
<1>9. Same(S, R)
  <2>1. \A c \in Explicit : SameRec(S.task[c], R.task[c])
    BY <1>2 DEF SameRec, SameFixed, SameStatic
  <2> QED
    BY <1>1, <1>3, <2>1 DEF Same
<1> QED
  BY <1>6, <1>7, <1>8, <1>9 DEF InStep

(* The blocked flag is turned over.                                        *)
LEMMA FlipEffect ==
  ASSUME NEW S \in StateRec, NEW t \in Task
  PROVE  \E U \in TaskRec :
           /\ FlipBlocked(S, t) = [S EXCEPT !.task[t] = U]
           /\ U.blocked = ~S.task[t].blocked /\ SameRec(S.task[t], U)
           /\ U.child = S.task[t].child /\ U.tq = S.task[t].tq /\ U.sq = S.task[t].sq
<1> PICK b \in BOOLEAN : b = ~S.task[t].blocked
  OBVIOUS
<1> DEFINE U == [S.task[t] EXCEPT !.blocked = b]
<1>1. S.task[t] \in TaskRec
  BY DEF StateRec
<1>2. U \in TaskRec
  BY <1>1 DEF TaskRec
<1>3. SameRec(S.task[t], U) /\ U.blocked = b
      /\ U.child = S.task[t].child /\ U.tq = S.task[t].tq /\ U.sq = S.task[t].sq
  BY <1>1 DEF TaskRec, SameRec, SameFixed, SameStatic
<1>4. FlipBlocked(S, t) = [S EXCEPT !.task[t].blocked = b]
  BY Zenon DEF FlipBlocked
<1>5. [S EXCEPT !.task[t].blocked = b] = [S EXCEPT !.task[t] = U]
  BY DEF StateRec
<1> QED
  BY <1>2, <1>3, <1>4, <1>5

(* A ready task is in the list, a blocked one in the blocked list.         *)
LEMMA ListOfPlaces ==
  ASSUME NEW b \in BOOLEAN
  PROVE  /\ ListOf(b) \in Places /\ ListOf(b) # "out" /\ ListOf(~b) # ListOf(b)
         /\ ListOf(b) = "list" <=> ~b
BY DEF ListOf, Places

(* A tied task that is suspended moves in the queue of its thread.         *)
LEMMA TiedFlip ==
  ASSUME NEW S, NEW t \in Explicit, InStep(S, {t}), S.task[t].tw,
         S.task[t].type = "TIED", S.task[t].kind = "TIED_SUSPENDED",
         S.task[t].blocked # IsBlockedTied(S, t)
  PROVE  /\ InStep(HandleBlocking1(S, t), {}) /\ Same(S, HandleBlocking1(S, t))
         /\ HandleBlocking1(S, t).task[t].type = "TIED"
<1> DEFINE T == S.task[t]
           m == ListOf(~T.blocked)
           S1 == Move(S, t, "sq", ListOf(T.blocked), m)
           T1 == [T EXCEPT !.sq = m]
           R == FlipBlocked(S1, t)
<1>1. S \in StateRec /\ t \in Task /\ T \in TaskRec /\ T.blocked \in BOOLEAN /\ m \in Places
  BY ListOfPlaces DEF InStep, StateRec, TaskRec, Task
<1>2. Alone(T, t) /\ T.sq = ListOf(T.blocked)
  BY DEF InStep, Alone
<1> HIDE DEF m
<1>3. T1 \in TaskRec /\ S1 = [S EXCEPT !.task[t] = T1]
  <2>1. T1 \in TaskRec
    BY <1>1, SetFields
  <2>2. S1 = [S EXCEPT !.task[t] = T1]
    BY <1>1, <1>2, MoveEffect
  <2> QED
    BY <2>1, <2>2
<1>4. T1.sq = m /\ T1.child = T.child /\ T1.tq = T.tq /\ T1.blocked = T.blocked /\ SameRec(T, T1)
  BY <1>1 DEF TaskRec, SameRec, SameFixed, SameStatic
<1> HIDE DEF T1, S1
<1>5. S1 \in StateRec /\ S1.thr = S.thr /\ S1.team = S.team /\ S1.task[t] = T1
      /\ \A c \in Task \ {t} : S1.task[c] = S.task[c]
  BY <1>1, <1>3, SetTask
<1>6. PICK U \in TaskRec :
        /\ R = [S1 EXCEPT !.task[t] = U] /\ U.blocked = ~T1.blocked /\ SameRec(T1, U)
        /\ U.child = T1.child /\ U.tq = T1.tq /\ U.sq = T1.sq
  BY <1>1, <1>5, FlipEffect
<1> HIDE DEF R
<1>7. R \in StateRec /\ R.thr = S.thr /\ R.team = S.team /\ R.task[t] = U
      /\ \A c \in Task \ {t} : R.task[c] = S.task[c]
  BY <1>1, <1>5, <1>6, SetTask
<1>8. SameRec(T, U)
  BY <1>4, <1>6 DEF SameRec, SameFixed, SameStatic
<1>9. Alone(U, t)
  <2>1. U.sq = ListOf(U.blocked) /\ U.tq = T.tq /\ U.child = T.child
    BY <1>4, <1>6 DEF m
  <2>2. T.lq = "out" /\ T.pc \in {"wait", "poll", "try"} /\ T.susp # None
        /\ (T.parent \in Explicit => T.parent < t) /\ (T.child # "out" => T.parent # None)
        /\ T.tq = "out" /\ T.child # "blocked"
    BY <1>2 DEF Alone
  <2>3. U.lq = "out" /\ U.pc = T.pc /\ U.susp = T.susp /\ U.parent = T.parent
        /\ U.kind = "TIED_SUSPENDED" /\ U.type = "TIED"
    BY <1>8, <2>2 DEF SameRec, SameFixed, SameStatic
  <2> QED
    BY <2>1, <2>2, <2>3 DEF Alone
<1>10. Counted(R)
  <2>1. R.task[t].tq = S.task[t].tq
    BY <1>4, <1>6, <1>7
  <2>2. \A c \in Explicit \ {t} : R.task[c].tq = S.task[c].tq
    BY <1>7 DEF Task
  <2>3. QueuedIn(R) = QueuedIn(S)
    BY <1>1, <1>7, <2>1, <2>2, QueuedChange
  <2> QED
    BY <1>7, <2>3 DEF Counted, InStep
<1>11. R.task[t].blocked <=> IsBlockedTied(S, t)
  BY <1>1, <1>4, <1>6, <1>7 DEF IsBlockedTied
<1>12. SameTeam(S.team, R.team) /\ R.task[t].kind = "TIED_SUSPENDED" /\ R.task[t].type = "TIED"
  BY <1>7, <1>8 DEF SameTeam, SameRec, SameFixed, SameStatic
<1>13. InStep(R, {}) /\ Same(S, R)
  BY <1>7, <1>8, <1>9, <1>10, <1>11, <1>12, FlipInStep
<1>14. HandleBlocking1(S, t) = R
  BY DEF HandleBlocking1, R, S1, m
<1> QED
  BY <1>12, <1>13, <1>14

(* An untied task that waits moves in all of its queues, and is counted or *)
(* no longer counted as queued.                                            *)
LEMMA UntiedFlip ==
  ASSUME NEW S, NEW t \in Explicit, InStep(S, {t}), S.task[t].tw,
         S.task[t].type = "UNTIED", S.task[t].kind = "WAITING",
         S.task[t].blocked # IsBlockedUntied(S, t)
  PROVE  LET R == HandleBlocking1(S, t)
         IN /\ InStep(R, {WaitingParent(R, t)}) /\ Same(S, R)
            /\ R.task[t].blocked # S.task[t].blocked
<1> DEFINE T == S.task[t]
           l == ListOf(T.blocked)
           m == ListOf(~T.blocked)
           S1 == MoveUntied(S, t, l, m)
           S2 == FlipBlocked(S1, t)
           R == IF T.blocked THEN Queued(S2) ELSE Unqueued(S2)
<1>1. S \in StateRec /\ t \in Task /\ T \in TaskRec /\ T.blocked \in BOOLEAN /\ m \in Places
  BY ListOfPlaces DEF InStep, StateRec, TaskRec, Task
<1>2. Alone(T, t)
  BY DEF InStep
<1>3. /\ T.tq = l /\ T.sq = l /\ (T.parent # None => T.child = l)
      /\ T.lq = "out" /\ T.pc \in {"wait", "poll", "try"} /\ T.susp # None
      /\ (T.parent \in Explicit => T.parent < t) /\ (T.child # "out" => T.parent # None)
  BY <1>2 DEF Alone
<1> HIDE DEF l, m
<1>4. PICK T1 \in TaskRec : S1 = [S EXCEPT !.task[t] = T1] /\ MovedTo(T, T1, m)
  BY <1>1, <1>3, MoveUntiedEffect
<1>5. T1.sq = m /\ T1.tq = m /\ T1.blocked = T.blocked
      /\ T1.child = IF T.parent # None THEN m ELSE T.child
  BY <1>4 DEF MovedTo
<1>6. SameRec(T, T1)
  <2>1. T1.child = "out" <=> T.child = "out"
    BY <1>1, <1>3, <1>5, ListOfPlaces DEF l, m
  <2> QED
    BY <1>4, <2>1 DEF MovedTo, SameRec
<1> HIDE DEF S1
<1>7. S1 \in StateRec /\ S1.thr = S.thr /\ S1.team = S.team /\ S1.task[t] = T1
      /\ \A c \in Task \ {t} : S1.task[c] = S.task[c]
  BY <1>1, <1>4, SetTask
<1>8. PICK U \in TaskRec :
        /\ S2 = [S1 EXCEPT !.task[t] = U] /\ U.blocked = ~T1.blocked /\ SameRec(T1, U)
        /\ U.child = T1.child /\ U.tq = T1.tq /\ U.sq = T1.sq
  BY <1>1, <1>7, FlipEffect
<1> HIDE DEF S2
<1>9. S2 \in StateRec /\ S2.thr = S.thr /\ S2.team = S.team /\ S2.task[t] = U
      /\ \A c \in Task \ {t} : S2.task[c] = S.task[c]
  BY <1>1, <1>7, <1>8, SetTask
<1>10. PICK V \in TeamRec :
         /\ R = [S2 EXCEPT !.team = V] /\ SameTeam(S.team, V)
         /\ IF T.blocked THEN V.queued = S.team.queued + 1 /\ V.pending
            ELSE /\ V.queued = S.team.queued - 1
                 /\ V.pending = IF S.team.queued = 1 THEN FALSE ELSE S.team.pending
  <2>1. CASE T.blocked
    BY <1>9, <2>1, QueuedEffect
  <2>2. CASE ~T.blocked
    BY <1>9, <2>2, UnqueuedEffect
  <2> QED
    BY <2>1, <2>2
<1> HIDE DEF R
<1>11. R \in StateRec /\ R.thr = S.thr /\ R.team = V /\ R.task[t] = U
       /\ \A c \in Task \ {t} : R.task[c] = S.task[c]
  BY <1>9, <1>10, SetTeam
<1>12. SameRec(T, U)
  BY <1>6, <1>8 DEF SameRec, SameFixed, SameStatic
<1>13. U.sq = ListOf(U.blocked) /\ U.tq = ListOf(U.blocked)
       /\ (T.parent # None => U.child = ListOf(U.blocked)) /\ (T.parent = None => U.child = T.child)
       /\ U.blocked = ~T.blocked
  BY <1>5, <1>8 DEF m
<1>14. Alone(U, t)
  <2>1. U.lq = "out" /\ U.pc = T.pc /\ U.susp = T.susp /\ U.parent = T.parent
        /\ U.kind = "WAITING" /\ U.type = "UNTIED" /\ (U.child = "out" <=> T.child = "out")
    BY <1>3, <1>12 DEF SameRec, SameFixed, SameStatic
  <2> QED
    BY <1>3, <1>13, <2>1 DEF Alone
<1>15. Counted(R)
  <2>1. \A c \in Explicit \ {t} : R.task[c].tq = S.task[c].tq
    BY <1>11 DEF Task
  <2>2. S.team.queued = Cardinality(QueuedIn(S)) /\ (S.team.pending <=> S.team.queued > 0)
    BY DEF InStep, Counted
  <2>3. S.team.pending \in BOOLEAN /\ V.pending \in BOOLEAN
    BY <1>1 DEF StateRec, TeamRec
  <2>4. CASE T.blocked
    <3>1. R.task[t].tq = "list" /\ S.task[t].tq # "list"
      BY <1>3, <1>11, <1>13, <2>4 DEF ListOf, l
    <3>2. /\ Cardinality(QueuedIn(R)) = Cardinality(QueuedIn(S)) + 1
          /\ Cardinality(QueuedIn(S)) \in Nat
      BY <1>1, <1>11, <2>1, <3>1, QueuedChange
    <3> QED
      BY <1>10, <1>11, <2>2, <2>4, <3>2 DEF Counted
  <2>5. CASE ~T.blocked
    <3>1. R.task[t].tq # "list" /\ S.task[t].tq = "list"
      BY <1>3, <1>11, <1>13, <2>5 DEF ListOf, l
    <3>2. /\ Cardinality(QueuedIn(R)) = Cardinality(QueuedIn(S)) - 1
          /\ Cardinality(QueuedIn(S)) \in Nat /\ Cardinality(QueuedIn(S)) # 0
      <4>1. t \in QueuedIn(S)
        BY <3>1 DEF QueuedIn
      <4>2. IsFiniteSet(QueuedIn(S))
        BY <1>1, <1>11, <2>1, QueuedChange
      <4>3. Cardinality(QueuedIn(S)) # 0
        BY <4>1, <4>2, FS_EmptySet
      <4> QED
        <5>1. /\ Cardinality(QueuedIn(R)) = Cardinality(QueuedIn(S)) - 1
              /\ Cardinality(QueuedIn(S)) \in Nat
          BY <1>1, <1>11, <2>1, <3>1, QueuedChange
        <5> QED
          BY <4>3, <5>1
    <3>3. V.pending <=> V.queued > 0
      <4> PICK q \in Nat : q = S.team.queued /\ q # 0
        BY <2>2, <3>2
      <4>1. V.queued = q - 1 /\ V.pending = IF q = 1 THEN FALSE ELSE S.team.pending
        BY <1>10, <2>5
      <4> QED
        BY <2>2, <2>3, <4>1
    <3> QED
      BY <1>10, <1>11, <2>2, <2>5, <3>2, <3>3 DEF Counted
  <2> QED
    BY <2>4, <2>5
<1>16. R.task[t].blocked <=> IsBlockedUntied(S, t)
  BY <1>1, <1>11, <1>13 DEF IsBlockedUntied
<1>17. S.task[t].parent \in Explicit /\ S.task[S.task[t].parent].tw /\ S.task[t].type # "TIED" =>
         S.task[t].parent \in {WaitingParent(R, t)}
  <2>1. S.task[t].parent \in Explicit => S.task[t].parent # t /\ S.task[t].parent \in Task
    BY <1>1, <1>2, NotOwnParent DEF Task
  <2>2. None \notin Explicit
    BY SchedAssumption DEF Task
  <2>3. R.task[t].parent = S.task[t].parent
    BY <1>11, <1>12 DEF SameRec, SameFixed, SameStatic
  <2> QED
    BY <1>11, <2>1, <2>2, <2>3 DEF WaitingParent
<1>18. InStep(R, {WaitingParent(R, t)}) /\ Same(S, R)
  BY <1>10, <1>11, <1>12, <1>14, <1>15, <1>16, <1>17, FlipInStep
<1>19. HandleBlocking1(S, t) = R
  BY DEF HandleBlocking1, R, S1, S2, l, m
<1>20. R.task[t].blocked # S.task[t].blocked
  BY <1>1, <1>11, <1>13
<1> QED
  BY <1>18, <1>19, <1>20

(* One call of gomp_task_handle_blocking, and who is next.                 *)
LEMMA PassOnInStep ==
  ASSUME NEW r, r.t \in Task, InStep(r.s, {r.t}), r.s.task[r.t].tw
  PROVE  LET q == PassOn(r)
         IN /\ InStep(q.s, {q.t}) /\ Same(r.s, q.s)
            /\ q.t \in MaybeTask /\ (q.t # None => q.s.task[q.t].tw)
            /\ q.t \in Explicit => r.t \in Explicit /\ q.t < r.t
<1> DEFINE S == r.s
           t == r.t
           R == HandleBlocking1(S, t)
           p == IF R.task[t].type = "UNTIED" /\ R.task[t].blocked # S.task[t].blocked
                THEN WaitingParent(R, t) ELSE None
<1>1. t # None
  BY SchedAssumption
<1>2. PassOn(r) = [s |-> R, t |-> p]
  BY <1>1 DEF PassOn
<1>3. S \in StateRec /\ S.task[t] \in TaskRec
  BY DEF InStep, StateRec
<1>4. None \notin Explicit
  BY SchedAssumption DEF Task
<1> HIDE DEF S, t
<1>5. CASE t \in Thread
  <2>1. S.task[t].kind = "IMPLICIT" /\ S.task[t].type = "TIED"
    BY <1>5 DEF InStep, S, t
  <2>2. R = S
    BY <2>1 DEF HandleBlocking1
  <2>3. p = None
    BY <2>1, <2>2
  <2>4. InStep(S, {None})
    <3>1. t \notin Explicit
      BY <1>5, SchedAssumption
    <3> QED
      BY <1>4, <3>1 DEF InStep, S, t
  <2> QED
    BY <1>2, <1>3, <1>4, <2>2, <2>3, <2>4, SameItself DEF MaybeTask, S
<1>6. CASE t \in Explicit
  <2>1. Alone(S.task[t], t) /\ S.task[t].tw
    BY <1>6 DEF InStep, S, t
  <2>2. S.task[t].type \in {"TIED", "UNTIED"} /\ S.task[t].blocked \in BOOLEAN /\ S.task[t].tw
    BY <1>3, <2>1 DEF TaskRec
  <2>3. InStep(S, {t})
    BY DEF S, t
  <2>4. CASE S.task[t].type = "TIED" /\ S.task[t].kind = "TIED_SUSPENDED"
             /\ S.task[t].blocked # IsBlockedTied(S, t)
    <3>1. InStep(R, {}) /\ Same(S, R) /\ R.task[t].type = "TIED"
      BY <1>6, <2>2, <2>3, <2>4, TiedFlip
    <3>2. p = None
      BY <3>1
    <3>3. InStep(R, {None})
      BY <3>1 DEF InStep
    <3> QED
      BY <1>2, <1>4, <3>1, <3>2, <3>3 DEF MaybeTask, S
  <2>5. CASE S.task[t].type = "UNTIED" /\ S.task[t].kind = "WAITING"
             /\ S.task[t].blocked # IsBlockedUntied(S, t)
    <3>1. /\ InStep(R, {WaitingParent(R, t)}) /\ Same(S, R)
          /\ R.task[t].blocked # S.task[t].blocked
      BY <1>6, <2>2, <2>3, <2>5, UntiedFlip
    <3>2. Reason(R, t) /\ Alone(R.task[t], t) /\ R \in StateRec
      <4>1. R \in StateRec /\ Alone(R.task[t], t)
        BY <1>6, <3>1 DEF InStep
      <4>2. WaitingParent(R, t) # t
        BY <1>4, <1>6, <4>1, NotOwnParent DEF WaitingParent
      <4> QED
        BY <1>6, <3>1, <4>1, <4>2 DEF InStep
    <3>3. R.task[t].kind = "WAITING" /\ R.task[t].type = "UNTIED"
      BY <1>6, <2>5, <3>1 DEF Same, SameRec, SameFixed, SameStatic
    <3>4. p = WaitingParent(R, t)
      BY <3>1, <3>3
    <3>5. R.task[t].parent \in MaybeTask /\ (R.task[t].parent \in Explicit => R.task[t].parent < t)
      BY <1>6, <3>2 DEF Alone, StateRec, TaskRec, Task
    <3>6. /\ p \in MaybeTask /\ (p # None => R.task[p].tw)
          /\ p \in Explicit => p < t
      BY <1>4, <3>4, <3>5 DEF WaitingParent, MaybeTask
    <3> HIDE DEF p, R
    <3> QED
      BY <1>2, <1>6, <3>1, <3>4, <3>6 DEF S, t
  <2>6. CASE /\ ~(S.task[t].type = "TIED" /\ S.task[t].kind = "TIED_SUSPENDED"
                   /\ S.task[t].blocked # IsBlockedTied(S, t))
             /\ ~(S.task[t].type = "UNTIED" /\ S.task[t].kind = "WAITING"
                   /\ S.task[t].blocked # IsBlockedUntied(S, t))
    <3>1. R = S
      BY <2>2, <2>6 DEF HandleBlocking1
    <3>2. p = None
      BY <3>1
    <3>3. Reason(S, t)
      <4>1. S.task[t].lq # "list" /\ (S.task[t].kind = "WAITING" => S.task[t].type = "UNTIED")
            /\ (S.task[t].kind = "TIED_SUSPENDED" => S.task[t].type = "TIED")
        BY <2>1, <2>2 DEF Alone
      <4>2. IsBlockedTied(S, t) \in BOOLEAN /\ IsBlockedUntied(S, t) \in BOOLEAN
        BY DEF IsBlockedTied, IsBlockedUntied
      <4> QED
        BY <2>2, <2>6, <4>1, <4>2 DEF Reason, Held
    <3>4. InStep(S, {None})
      BY <1>4, <3>3 DEF InStep, S, t
    <3> QED
      BY <1>2, <1>3, <1>4, <3>1, <3>2, <3>4, SameItself DEF MaybeTask, S
  <2> QED
    BY <2>4, <2>5, <2>6
<1> QED
  BY <1>5, <1>6 DEF Task, t

(* The calls that the loop of HandleBlocking makes, one after the other.   *)
LEMMA PassOnLoop ==
  ASSUME NEW S, NEW t
  PROVE  \E f : /\ f[0] = [s |-> S, t |-> t]
                /\ \A n \in Nat : n + 1 <= NTasks => f[n + 1] = PassOn(f[n])
                /\ HandleBlocking(S, t) = f[NTasks].s
<1> DEFINE Start == [s |-> S, t |-> t]
           Def(f) == [n \in 0 .. NTasks |-> IF n = 0 THEN Start ELSE PassOn(f[n - 1])]
           all == CHOOSE f : f = Def(f)
           Val(f, n) == IF n = 0 THEN Start ELSE PassOn(f[n - 1])
           G == {n \in Nat : \E f : \A m \in 0 .. NTasks : m <= n => f[m] = Val(f, m)}
<1>0. NTasks \in Nat
  BY SchedAssumption
<1> HIDE DEF Start
<1>1. 0 \in G
  <2> DEFINE f == [m \in 0 .. NTasks |-> Start]
  <2>1. \A m \in 0 .. NTasks : m <= 0 => f[m] = Val(f, m)
    OBVIOUS
  <2> HIDE DEF f
  <2> QED
    BY <2>1
<1>2. ASSUME NEW n \in Nat, n \in G
      PROVE  n + 1 \in G
  <2>1. PICK f : \A m \in 0 .. NTasks : m <= n => f[m] = Val(f, m)
    BY <1>2
  <2> DEFINE g == [m \in 0 .. NTasks |-> Val(f, m)]
  <2>2. ASSUME NEW m \in 0 .. NTasks, m <= n + 1
        PROVE  g[m] = Val(g, m)
    <3>1. CASE m = 0
      BY <3>1
    <3>2. CASE m # 0
      <4>1. m - 1 \in 0 .. NTasks /\ m - 1 <= n
        BY <1>0, <2>2, <3>2
      <4>2. g[m - 1] = f[m - 1]
        BY <2>1, <4>1
      <4>3. Val(g, m) = Val(f, m)
        <5> HIDE DEF g
        <5> QED
          BY <4>2, Zenon
      <4> QED
        BY <4>3
    <3> QED
      BY <3>1, <3>2
  <2> HIDE DEF g
  <2> QED
    BY <2>2
<1>3. Nat \subseteq G
  <2> HIDE DEF G
  <2> QED
    BY <1>1, <1>2, Induction
<1>4. PICK f : \A m \in 0 .. NTasks : f[m] = Val(f, m)
  BY <1>0, <1>3
<1> DEFINE g == [m \in 0 .. NTasks |-> Val(f, m)]
<1>5. g = Def(g)
  <2>1. ASSUME NEW m \in 0 .. NTasks
        PROVE  Val(f, m) = Val(g, m)
    <3>1. CASE m = 0
      BY <3>1
    <3>2. CASE m # 0
      <4>1. m - 1 \in 0 .. NTasks
        BY <1>0, <3>2
      <4>2. g[m - 1] = f[m - 1]
        BY <1>4, <4>1
      <4> QED
        BY <4>2, Zenon
    <3> QED
      BY <3>1, <3>2
  <2>2. g = [m \in 0 .. NTasks |-> Val(g, m)]
    BY <2>1, Zenon
  <2> HIDE DEF g
  <2> QED
    BY <2>2, Zenon
<1>6. all = Def(all)
  <2> HIDE DEF Def, g
  <2> QED
    BY <1>5, Zenon
<1>7. HandleBlocking(S, t) = all[NTasks].s
  BY Zenon DEF HandleBlocking, Start
<1> HIDE DEF all
<1>8. \A n \in 0 .. NTasks : all[n] = IF n = 0 THEN Start ELSE PassOn(all[n - 1])
  BY <1>6
<1>9. all[0] = Start
  BY <1>0, <1>8
<1>10. ASSUME NEW n \in Nat, n + 1 <= NTasks
       PROVE  all[n + 1] = PassOn(all[n])
  <2>1. n + 1 \in 0 .. NTasks /\ n + 1 # 0 /\ (n + 1) - 1 = n
    BY <1>0, <1>10
  <2> QED
    BY <1>8, <2>1
<1> QED
  BY <1>7, <1>9, <1>10 DEF Start

(* gomp_task_handle_blocking puts right whether t and, in turn, its        *)
(* parents are held back.                                                  *)
LEMMA HandleBlockingInStep ==
  ASSUME NEW S, NEW t \in Task, InStep(S, {t}), S.task[t].tw
  PROVE  LET R == HandleBlocking(S, t) IN InStep(R, {}) /\ Same(S, R)
<1>1. PICK f : /\ f[0] = [s |-> S, t |-> t]
               /\ \A n \in Nat : n + 1 <= NTasks => f[n + 1] = PassOn(f[n])
               /\ HandleBlocking(S, t) = f[NTasks].s
  BY PassOnLoop
<1> DEFINE Good(r, n) ==
             /\ InStep(r.s, {r.t}) /\ Same(S, r.s) /\ r.t \in MaybeTask
             /\ r.t # None => r.s.task[r.t].tw
             /\ r.t \in Explicit => r.t <= NTasks - n
           G == {n \in Nat : n <= NTasks => Good(f[n], n)}
<1>2. NTasks \in Nat /\ None \notin Explicit /\ None \notin Task
  BY SchedAssumption DEF Task
<1>3. 0 \in G
  <2>1. Same(S, S)
    BY SameItself DEF InStep
  <2>2. t \in Explicit => t <= NTasks - 0
    BY <1>2 DEF Explicit
  <2> QED
    BY <1>1, <2>1, <2>2 DEF MaybeTask
<1>4. ASSUME NEW n \in Nat, n \in G
      PROVE  n + 1 \in G
  <2> SUFFICES ASSUME n + 1 <= NTasks
               PROVE  Good(f[n + 1], n + 1)
    BY <1>4
  <2>1. Good(f[n], n) /\ f[n + 1] = PassOn(f[n])
    BY <1>1, <1>2, <1>4
  <2>2. CASE f[n].t = None
    <3>1. f[n + 1] = f[n]
      BY <2>1, <2>2 DEF PassOn
    <3> QED
      BY <1>2, <2>1, <2>2, <3>1
  <2>3. CASE f[n].t # None
    <3>1. f[n].t \in Task
      BY <2>1, <2>3 DEF MaybeTask
    <3> DEFINE r == f[n]
               q == f[n + 1]
    <3>2. /\ InStep(q.s, {q.t}) /\ Same(r.s, q.s)
          /\ q.t \in MaybeTask /\ (q.t # None => q.s.task[q.t].tw)
          /\ q.t \in Explicit => r.t \in Explicit /\ q.t < r.t
      BY <2>1, <2>3, <3>1, PassOnInStep
    <3>3. Same(S, q.s)
      BY <2>1, <3>2, SameTransitive
    <3>4. q.t \in Explicit => q.t <= NTasks - (n + 1)
      <4> SUFFICES ASSUME q.t \in Explicit
                   PROVE  q.t <= NTasks - (n + 1)
        OBVIOUS
      <4>1. q.t < r.t /\ r.t <= NTasks - n /\ r.t \in Explicit
        BY <2>1, <3>2
      <4>2. q.t \in Nat /\ r.t \in Nat
        BY <4>1, ExplicitFinite
      <4> HIDE DEF q, r
      <4> QED
        BY <1>2, <4>1, <4>2
    <3> QED
      BY <3>2, <3>3, <3>4
  <2> QED
    BY <2>2, <2>3
<1>5. Nat \subseteq G
  <2> HIDE DEF G
  <2> QED
    BY <1>3, <1>4, Induction
<1>6. Good(f[NTasks], NTasks)
  <2>1. NTasks \in G
    <3> HIDE DEF G
    <3> QED
      BY <1>2, <1>5
  <2>2. NTasks <= NTasks
    BY <1>2
  <2> HIDE DEF Good
  <2> QED
    BY <2>1, <2>2
<1>7. f[NTasks].t \notin Explicit
  BY <1>2, <1>6 DEF Explicit
<1>8. InStep(f[NTasks].s, {})
  <2>1. InStep(f[NTasks].s, {f[NTasks].t})
    BY <1>6
  <2> QED
    BY <1>7, <2>1 DEF InStep
<1> QED
  BY <1>1, <1>6, <1>8

(* Telling the parent leaves every task's flag right.                      *)
LEMMA NotifyParentInStep ==
  ASSUME NEW S, NEW t \in Explicit, InStep(S, {WaitingParent(S, t)})
  PROVE  LET R == NotifyParent(S, t) IN InStep(R, {}) /\ Same(S, R)
<1> DEFINE p == WaitingParent(S, t)
<1>1. S \in StateRec /\ None \notin Explicit
  BY SchedAssumption DEF InStep, Task
<1>2. CASE p = None
  <2>1. NotifyParent(S, t) = S
    BY <1>2 DEF NotifyParent
  <2>2. InStep(S, {})
    BY <1>1, <1>2 DEF InStep
  <2> QED
    BY <1>1, <2>1, <2>2, SameItself
<1>3. CASE p # None
  <2>1. S.task[t].parent \in MaybeTask
    BY <1>1 DEF StateRec, TaskRec, Task
  <2>2. p \in Task /\ S.task[p].tw
    BY <1>3, <2>1 DEF WaitingParent, MaybeTask
  <2>3. NotifyParent(S, t) = HandleBlocking(S, p)
    BY <1>3 DEF NotifyParent
  <2> QED
    BY <2>2, <2>3, HandleBlockingInStep
<1> QED
  BY <1>2, <1>3
-----------------------------------------------------------------------------
(* Steps that change the record of one task.                               *)

(* The fields that the queues depend on.                                   *)
SameQ(T, U) ==
  /\ T.kind = U.kind /\ T.type = U.type /\ T.parent = U.parent /\ T.susp = U.susp
  /\ T.blocked = U.blocked /\ T.tw = U.tw /\ T.pc = U.pc
  /\ T.child = U.child /\ T.tq = U.tq /\ T.sq = U.sq /\ T.lq = U.lq

(* The implicit tasks look the same.                                       *)
SameImplicit(S, R) ==
  \A h \in Thread : /\ S.task[h].kind = R.task[h].kind /\ S.task[h].type = R.task[h].type
                    /\ S.task[h].parent = R.task[h].parent

(* What holds of a record by itself depends on few of its fields.          *)
LEMMA AloneFrame ==
  ASSUME NEW T, NEW U, NEW t, SameQ(T, U), Alone(T, t)
  PROVE  Alone(U, t)
BY DEF SameQ, Alone

(* Whether the parent of a task sees it as ready.                          *)
Ready(T) == T.kind = "WAITING" /\ T.child = "list"

(* The explicit task t changes, others do not: if it becomes ready, or     *)
(* stops being ready, that may matter to a parent that waits.              *)
LEMMA OneInStep ==
  ASSUME NEW S, NEW R \in StateRec, NEW t \in Explicit, InStep(S, {t}),
         \A c \in Explicit \ {t} : SameQ(S.task[c], R.task[c]),
         SameImplicit(S, R),
         Alone(R.task[t], t), Counted(R),
         R.task[t].parent = S.task[t].parent,
         R.task[t].child = "out" <=> S.task[t].child = "out",
         NEW X,
         \/ Ready(R.task[t]) <=> Ready(S.task[t])
         \/ WaitingParent(R, t) \in X,
         Children(R, t) = Children(S, t) /\ ReadyKids(R, t) = ReadyKids(S, t) => Reason(R, t)
  PROVE  InStep(R, X)
<1>1. S \in StateRec
  BY DEF InStep
<1>2. \A p : Children(R, p) = Children(S, p)
  <2>1. \A c \in Explicit : /\ R.task[c].parent = S.task[c].parent
                            /\ R.task[c].child = "out" <=> S.task[c].child = "out"
    BY DEF SameQ
  <2> QED
    BY <2>1 DEF Children
<1>3. \A c \in Explicit \ {t} : Ready(R.task[c]) <=> Ready(S.task[c])
  BY DEF SameQ, Ready
<1>4. \A Q, p : ReadyKids(Q, p) = {c \in Children(Q, p) : Ready(Q.task[c])}
  BY DEF ReadyKids, Ready
<1>5. \A p : /\ Children(S, p) \subseteq Explicit
             /\ t \in Children(S, p) => p = S.task[t].parent
  BY DEF Children
<1>6. \A p : p # S.task[t].parent \/ (Ready(R.task[t]) <=> Ready(S.task[t])) =>
               ReadyKids(R, p) = ReadyKids(S, p)
  <2> SUFFICES ASSUME NEW p, p # S.task[t].parent \/ (Ready(R.task[t]) <=> Ready(S.task[t]))
               PROVE  ReadyKids(R, p) = ReadyKids(S, p)
    OBVIOUS
  <2>1. \A c \in Children(S, p) : Ready(R.task[c]) <=> Ready(S.task[c])
    BY <1>3, <1>5
  <2>2. /\ ReadyKids(S, p) = {c \in Children(S, p) : Ready(S.task[c])}
        /\ ReadyKids(R, p) = {c \in Children(S, p) : Ready(R.task[c])}
    BY <1>2, <1>4
  <2> QED
    BY <2>1, <2>2
<1>7. Reason(R, t)
  <2>1. S.task[t].parent # t
    BY <1>1, NotOwnParent, ExplicitFinite DEF Alone
  <2> QED
    BY <1>2, <1>6, <2>1
<1>8. ASSUME NEW c \in Explicit \ X
      PROVE  Reason(R, c)
  <2>1. CASE c = t
    BY <1>7, <2>1
  <2>2. CASE c # t
    <3>1. Reason(S, c) /\ SameQ(S.task[c], R.task[c])
      BY <2>2 DEF InStep
    <3>2. R.task[c].tw => ReadyKids(R, c) = ReadyKids(S, c)
      <4>1. CASE c # S.task[t].parent \/ (Ready(R.task[t]) <=> Ready(S.task[t]))
        BY <1>6, <4>1
      <4>2. CASE c = S.task[t].parent /\ WaitingParent(R, t) \in X
        <5>1. c # None
          BY SchedAssumption DEF Task
        <5> QED
          BY <4>2, <5>1 DEF WaitingParent
      <4> QED
        BY <4>1, <4>2
    <3> QED
      BY <1>1, <1>2, <3>1, <3>2, ReasonFrame DEF SameQ
  <2> QED
    BY <2>1, <2>2
<1>9. \A c \in Explicit : Alone(R.task[c], c)
  BY AloneFrame DEF InStep
<1>10. \A h \in Thread : R.task[h].kind = "IMPLICIT" /\ R.task[h].type = "TIED" /\ R.task[h].parent = None
  BY DEF InStep, SameImplicit
<1> QED
  BY <1>8, <1>9, <1>10 DEF InStep

(* Nothing changes that the queues depend on.                              *)
LEMMA InStepFrame ==
  ASSUME NEW S, NEW R \in StateRec, NEW X, InStep(S, X),
         \A c \in Explicit : SameQ(S.task[c], R.task[c]), SameImplicit(S, R),
         R.team.queued = S.team.queued, R.team.pending = S.team.pending
  PROVE  InStep(R, X)
<1>1. S \in StateRec
  BY DEF InStep
<1>2. \A p : Children(R, p) = Children(S, p)
  BY DEF SameQ, Children
<1>3. \A p : ReadyKids(R, p) = ReadyKids(S, p)
  <2> SUFFICES ASSUME NEW p PROVE ReadyKids(R, p) = ReadyKids(S, p)
    OBVIOUS
  <2>1. \A c \in Children(S, p) : R.task[c].kind = S.task[c].kind /\ R.task[c].child = S.task[c].child
    BY DEF SameQ, Children
  <2> QED
    BY <1>2, <2>1 DEF ReadyKids
<1>4. ASSUME NEW c \in Explicit \ X
      PROVE  Reason(R, c)
  <2>1. Reason(S, c) /\ SameQ(S.task[c], R.task[c])
    BY DEF InStep
  <2> QED
    BY <1>1, <1>2, <1>3, <2>1, ReasonFrame DEF SameQ
<1>5. \A c \in Explicit : Alone(R.task[c], c)
  BY AloneFrame DEF InStep
<1>6. \A h \in Thread : R.task[h].kind = "IMPLICIT" /\ R.task[h].type = "TIED" /\ R.task[h].parent = None
  BY DEF InStep, SameImplicit
<1>7. Counted(R)
  <2>1. QueuedIn(R) = QueuedIn(S)
    BY DEF QueuedIn, SameQ
  <2> QED
    BY <2>1 DEF Counted, InStep
<1> QED
  BY <1>4, <1>5, <1>6, <1>7 DEF InStep

(* The records of two states agree on all fields but to and from.          *)
SameButChain(T, U) ==
  /\ SameStatic(T, U) /\ SameQ(T, U) /\ T.prev = U.prev /\ T.next = U.next

(* Leaving the chain changes links only.                                   *)
LEMMA LeaveChainEffect ==
  ASSUME NEW S \in StateRec, NEW c \in Task
  PROVE  LET R == LeaveChain(S, c)
         IN /\ R \in StateRec /\ R.thr = S.thr /\ R.team = S.team
            /\ \A t \in Task :
                 /\ SameButChain(S.task[t], R.task[t])
                 /\ R.task[t].to = IF t = S.task[c].from THEN S.task[c].to ELSE S.task[t].to
                 /\ R.task[t].from = IF t = S.task[c].to THEN S.task[c].from ELSE S.task[t].from
<1> DEFINE C == S.task[c]
           New(t) == [S.task[t] EXCEPT !.to = IF t = C.from THEN C.to ELSE S.task[t].to,
                                       !.from = IF t = C.to THEN C.from ELSE S.task[t].from]
           R == [S EXCEPT !.task = [t \in Task |-> New(t)]]
<1>1. LeaveChain(S, c) = R
  BY Zenon DEF LeaveChain
<1>2. \A t \in Task : S.task[t] \in TaskRec
  BY DEF StateRec
<1>3. ASSUME NEW t \in Task
      PROVE  /\ New(t) \in TaskRec /\ SameButChain(S.task[t], New(t))
             /\ New(t).to = IF t = C.from THEN C.to ELSE S.task[t].to
             /\ New(t).from = IF t = C.to THEN C.from ELSE S.task[t].from
  <2>1. PICK a \in MaybeTask : a = IF t = C.from THEN C.to ELSE S.task[t].to
    BY <1>2 DEF TaskRec
  <2>2. PICK b \in MaybeTask : b = IF t = C.to THEN C.from ELSE S.task[t].from
    BY <1>2 DEF TaskRec
  <2>3. New(t) = [S.task[t] EXCEPT !.to = a, !.from = b]
    BY <2>1, <2>2, Zenon
  <2> HIDE DEF New, C
  <2>4. New(t) \in TaskRec
    BY <1>2, <2>3 DEF TaskRec
  <2>5. SameButChain(S.task[t], New(t)) /\ New(t).to = a /\ New(t).from = b
    BY <1>2, <2>3 DEF TaskRec, SameButChain, SameStatic, SameQ
  <2> QED
    BY <2>1, <2>2, <2>4, <2>5
<1> HIDE DEF New
<1>4. R \in StateRec /\ R.thr = S.thr /\ R.team = S.team /\ \A t \in Task : R.task[t] = New(t)
  BY <1>3 DEF StateRec
<1> HIDE DEF R
<1> QED
  BY <1>1, <1>3, <1>4
-----------------------------------------------------------------------------
(* gomp_task_run_pre.                                                      *)

(* What RunPre does to the task c and to the chain it may leave.           *)
PreRec(T, U) ==
  /\ SameStatic(T, U) /\ T.susp = U.susp /\ T.lq = U.lq
  /\ T.prev = U.prev /\ T.next = U.next /\ (T.child = "out" <=> U.child = "out")

(* What gomp_task_run_pre changes.                                         *)
PreEffect(S, R, c) ==
  /\ R \in StateRec /\ R.thr = S.thr /\ SameTeam(S.team, R.team)
  /\ \A d \in Task :
       /\ PreRec(S.task[d], R.task[d])
       /\ R.task[d].kind = IF d = c THEN "TIED" ELSE S.task[d].kind
       /\ R.task[d].to = IF S.task[c].kind = "TIED_SUSPENDED" /\ d = S.task[c].from
                         THEN S.task[c].to ELSE S.task[d].to
       /\ R.task[d].from = IF S.task[c].kind = "TIED_SUSPENDED" /\ d = S.task[c].to
                           THEN S.task[c].from ELSE S.task[d].from

(* Only the kind changes.                                                  *)
KindSet(T, U, k) ==
  /\ U.kind = k /\ SameStatic(T, U) /\ U.susp = T.susp /\ U.blocked = T.blocked
  /\ U.child = T.child /\ U.tq = T.tq /\ U.sq = T.sq /\ U.lq = T.lq
  /\ U.to = T.to /\ U.from = T.from /\ U.prev = T.prev /\ U.next = T.next

(* The kind of a task is set.                                              *)
LEMMA SetKind ==
  ASSUME NEW S \in StateRec, NEW t \in Task, NEW k \in Kinds
  PROVE  \E U \in TaskRec : /\ [S EXCEPT !.task[t].kind = k] = [S EXCEPT !.task[t] = U]
                            /\ KindSet(S.task[t], U, k)
<1> DEFINE U == [S.task[t] EXCEPT !.kind = k]
<1>1. S.task[t] \in TaskRec
  BY DEF StateRec
<1>2. U \in TaskRec
  BY <1>1 DEF TaskRec
<1>3. KindSet(S.task[t], U, k)
  BY <1>1 DEF TaskRec, SameStatic, KindSet
<1>4. [S EXCEPT !.task[t].kind = k] = [S EXCEPT !.task[t] = U]
  BY DEF StateRec
<1> QED
  BY <1>2, <1>3, <1>4

(* A node moves from one list of a queue to another.                       *)
SqMoved(T, U, b) ==
  /\ U.sq = b /\ SameFixed(T, U) /\ U.blocked = T.blocked
  /\ U.child = T.child /\ U.tq = T.tq

(* The same for the queue of the team and the children's queue.            *)
TqMoved(T, U, b) ==
  /\ U.tq = b /\ SameFixed(T, U) /\ U.blocked = T.blocked
  /\ U.child = T.child /\ U.sq = T.sq

ChildMoved(T, U, b) ==
  /\ U.child = b /\ SameFixed(T, U) /\ U.blocked = T.blocked
  /\ U.tq = T.tq /\ U.sq = T.sq

(* One move, as the replacement of the task's record: in the suspended     *)
(* queue ...                                                               *)
LEMMA MoveSq ==
  ASSUME NEW S \in StateRec, NEW t \in Task, NEW b \in Places, NEW a, S.task[t].sq = a
  PROVE  \E U \in TaskRec :
           /\ Move(S, t, "sq", a, b) = [S EXCEPT !.task[t] = U]
           /\ SqMoved(S.task[t], U, b)
<1> DEFINE U == [S.task[t] EXCEPT !.sq = b]
<1>1. S.task[t] \in TaskRec
  BY DEF StateRec
<1>2. U \in TaskRec
  BY <1>1, SetFields
<1>3. SqMoved(S.task[t], U, b)
  BY <1>1 DEF TaskRec, SameFixed, SameStatic, SqMoved
<1>4. Move(S, t, "sq", a, b) = [S EXCEPT !.task[t] = U]
  BY MoveEffect
<1> QED
  BY <1>2, <1>3, <1>4

(* ... in the queue of the team ...                                        *)
LEMMA MoveTq ==
  ASSUME NEW S \in StateRec, NEW t \in Task, NEW b \in Places, NEW a, S.task[t].tq = a
  PROVE  \E U \in TaskRec :
           /\ Move(S, t, "tq", a, b) = [S EXCEPT !.task[t] = U]
           /\ TqMoved(S.task[t], U, b)
<1> DEFINE U == [S.task[t] EXCEPT !.tq = b]
<1>1. S.task[t] \in TaskRec
  BY DEF StateRec
<1>2. U \in TaskRec
  BY <1>1, SetFields
<1>3. TqMoved(S.task[t], U, b)
  BY <1>1 DEF TaskRec, SameFixed, SameStatic, TqMoved
<1>4. Move(S, t, "tq", a, b) = [S EXCEPT !.task[t] = U]
  BY MoveEffect
<1> QED
  BY <1>2, <1>3, <1>4

(* ... and in the children's queue.                                        *)
LEMMA MoveChild ==
  ASSUME NEW S \in StateRec, NEW t \in Task, NEW b \in Places, NEW a, S.task[t].child = a
  PROVE  \E U \in TaskRec :
           /\ Move(S, t, "child", a, b) = [S EXCEPT !.task[t] = U]
           /\ ChildMoved(S.task[t], U, b)
<1> DEFINE U == [S.task[t] EXCEPT !.child = b]
<1>1. S.task[t] \in TaskRec
  BY DEF StateRec
<1>2. U \in TaskRec
  BY <1>1, SetFields
<1>3. ChildMoved(S.task[t], U, b)
  BY <1>1 DEF TaskRec, SameFixed, SameStatic, ChildMoved
<1>4. Move(S, t, "child", a, b) = [S EXCEPT !.task[t] = U]
  BY MoveEffect
<1> QED
  BY <1>2, <1>3, <1>4

(* A task that can be picked: it waits or is suspended, and nothing holds  *)
(* it back.                                                                *)
Pickable(S, c) ==
  S.task[c].kind \in {"WAITING", "TIED_SUSPENDED"} /\ ~S.task[c].blocked

(* A suspended tied task leaves the queue of its thread and its chain.     *)
LEMMA RunPreSuspended ==
  ASSUME NEW S, NEW c \in Explicit, InStep(S, {}), Pickable(S, c),
         S.task[c].kind = "TIED_SUSPENDED"
  PROVE  InStep(RunPre(S, c), {}) /\ PreEffect(S, RunPre(S, c), c)
<1> DEFINE C == S.task[c]
           S1 == LeaveChain(S, c)
           S2 == Move(S1, c, "sq", ListOf(C.blocked), "out")
           R == [S2 EXCEPT !.task[c].kind = "TIED"]
<1>1. S \in StateRec /\ c \in Task /\ Explicit \subseteq Task /\ Thread \subseteq Task
      /\ Alone(C, c) /\ C \in TaskRec /\ "out" \in Places /\ "TIED" \in Kinds
  BY DEF InStep, Task, StateRec, Places, Kinds
<1>2. C.sq = ListOf(C.blocked)
  BY <1>1 DEF Alone
<1>3. RunPre(S, c) = R
  BY DEF RunPre
<1>4. /\ S1 \in StateRec /\ S1.thr = S.thr /\ S1.team = S.team
      /\ \A t \in Task :
           /\ SameButChain(S.task[t], S1.task[t])
           /\ S1.task[t].to = IF t = S.task[c].from THEN S.task[c].to ELSE S.task[t].to
           /\ S1.task[t].from = IF t = S.task[c].to THEN S.task[c].from ELSE S.task[t].from
  BY <1>1, LeaveChainEffect
<1> HIDE DEF S1
<1>5. S1.task[c].sq = ListOf(C.blocked)
  BY <1>1, <1>2, <1>4 DEF SameButChain, SameQ
<1>6. PICK T1 \in TaskRec : S2 = [S1 EXCEPT !.task[c] = T1] /\ SqMoved(S1.task[c], T1, "out")
  <2>1. S1 \in StateRec /\ c \in Task /\ "out" \in Places
    BY <1>1, <1>4
  <2> QED
    BY <1>5, <2>1, MoveSq
<1> HIDE DEF S2
<1>7. S2 \in StateRec /\ S2.thr = S1.thr /\ S2.team = S1.team /\ S2.task[c] = T1
      /\ \A t \in Task \ {c} : S2.task[t] = S1.task[t]
  BY <1>1, <1>4, <1>6, SetTask
<1>8. PICK U \in TaskRec : R = [S2 EXCEPT !.task[c] = U] /\ KindSet(T1, U, "TIED")
  BY <1>1, <1>7, SetKind
<1> HIDE DEF R
<1>9. R \in StateRec /\ R.thr = S.thr /\ R.team = S.team /\ R.task[c] = U
      /\ \A t \in Task \ {c} : R.task[t] = S1.task[t]
  BY <1>1, <1>4, <1>7, <1>8, SetTask
<1>10. /\ U.kind = "TIED" /\ SameStatic(C, U) /\ U.susp = C.susp /\ U.child = C.child
       /\ U.tq = C.tq /\ U.sq = "out" /\ U.lq = C.lq /\ U.prev = C.prev /\ U.next = C.next
       /\ U.to = S1.task[c].to /\ U.from = S1.task[c].from
  <2>1. SameButChain(C, S1.task[c])
    BY <1>1, <1>4
  <2> QED
    BY <1>6, <1>8, <2>1 DEF SqMoved, KindSet, SameFixed, SameStatic, SameButChain, SameQ
<1>11. Alone(U, c)
  <2>1. C.lq = "out" /\ C.tq = "out" /\ C.child # "blocked" /\ (C.child # "out" => C.parent # None)
        /\ (C.parent \in Explicit => C.parent < c) /\ (C.tw => C.pc \in {"wait", "poll", "try"})
    BY <1>1 DEF Alone, Pickable
  <2>2. U.parent = C.parent /\ U.tw = C.tw /\ U.pc = C.pc
    BY <1>10 DEF SameStatic
  <2> QED
    BY <1>10, <2>1, <2>2 DEF Alone
<1>12. PreEffect(S, R, c)
  <2>1. ASSUME NEW d \in Task
        PROVE  /\ PreRec(S.task[d], R.task[d])
               /\ R.task[d].kind = IF d = c THEN "TIED" ELSE S.task[d].kind
               /\ R.task[d].to = S1.task[d].to /\ R.task[d].from = S1.task[d].from
    <3>1. CASE d = c
      BY <1>9, <1>10, <3>1 DEF PreRec
    <3>2. CASE d # c
      <4>1. R.task[d] = S1.task[d] /\ SameButChain(S.task[d], S1.task[d])
        BY <1>4, <1>9, <3>2
      <4> QED
        BY <3>2, <4>1 DEF PreRec, SameButChain, SameQ
    <3> QED
      BY <3>1, <3>2
  <2>2. SameTeam(S.team, R.team)
    BY <1>9 DEF SameTeam
  <2> QED
    BY <1>4, <1>9, <2>1, <2>2 DEF PreEffect
<1>13. \A d \in Explicit \ {c} : SameQ(S.task[d], R.task[d])
  BY <1>1, <1>4, <1>9 DEF SameButChain
<1>14. SameImplicit(S, R)
  <2>1. \A h \in Thread : SameQ(S.task[h], R.task[h])
    BY <1>1, <1>4, <1>9, SchedAssumption DEF SameButChain
  <2> QED
    BY <2>1 DEF SameImplicit, SameQ
<1>15. Counted(R)
  <2>1. QueuedIn(R) = QueuedIn(S)
    BY <1>9, <1>10, <1>13 DEF QueuedIn, SameQ
  <2> QED
    BY <1>9, <2>1 DEF Counted, InStep
<1>16. ~Ready(U) /\ ~Ready(C) /\ Reason(R, c)
  BY <1>9, <1>10 DEF Ready, Reason
<1>17. InStep(S, {c})
  BY DEF InStep
<1>18. InStep(R, {})
  <2>1. R.task[c].parent = C.parent /\ R.task[c].child = C.child
    BY <1>9, <1>10 DEF SameStatic
  <2> QED
    BY <1>9, <1>11, <1>13, <1>14, <1>15, <1>16, <1>17, <2>1, OneInStep
<1> QED
  BY <1>3, <1>12, <1>18

(* A waiting task leaves all the queues it could be picked from.           *)
LEMMA RunPreWaiting ==
  ASSUME NEW S, NEW c \in Explicit, InStep(S, {}), Pickable(S, c),
         S.task[c].kind = "WAITING"
  PROVE  InStep(RunPre(S, c), {}) /\ PreEffect(S, RunPre(S, c), c)
<1> DEFINE C == S.task[c]
           S1 == IF C.susp # None
                 THEN IF C.type = "TIED" THEN [S EXCEPT !.team.fault = TRUE]
                      ELSE Move(S, c, "sq", ListOf(C.blocked), "out")
                 ELSE S
           S2 == Move(S1, c, "tq", ListOf(C.blocked), "out")
           S3 == [S2 EXCEPT !.task[c].kind = "TIED"]
           S4 == Unqueued(S3)
           R == NotifyParent(S4, c)
<1>1. S \in StateRec /\ c \in Task /\ Explicit \subseteq Task /\ Thread \subseteq Task
      /\ Alone(C, c) /\ C \in TaskRec /\ "out" \in Places /\ "TIED" \in Kinds
  BY DEF InStep, Task, StateRec, Places, Kinds
<1>2. /\ ListOf(C.blocked) = "list" /\ C.tq = "list" /\ (C.parent # None => C.child = "list")
      /\ C.sq = (IF C.susp = None THEN "out" ELSE "list") /\ C.lq = "out"
      /\ (C.type = "TIED" => C.susp = None) /\ (C.child # "out" => C.parent # None)
      /\ (C.parent \in Explicit => C.parent < c) /\ (C.tw => C.pc \in {"wait", "poll", "try"})
  BY <1>1 DEF Alone, Pickable, ListOf
<1>3. RunPre(S, c) = R
  BY DEF RunPre
<1>4. PICK T1 \in TaskRec : S1 = [S EXCEPT !.task[c] = T1] /\ SqMoved(C, T1, "out")
  <2>1. CASE C.susp # None
    <3>1. S1 = Move(S, c, "sq", "list", "out") /\ C.sq = "list"
      BY <1>2, <2>1
    <3>2. S \in StateRec /\ c \in Task /\ "out" \in Places
      BY <1>1
    <3> HIDE DEF S1
    <3> QED
      BY <3>1, <3>2, MoveSq
  <2>2. CASE C.susp = None
    <3>1. S1 = [S EXCEPT !.task[c] = C]
      BY <1>1, <2>2 DEF StateRec
    <3>2. SqMoved(C, C, "out")
      BY <1>2, <2>2 DEF SqMoved, SameFixed, SameStatic
    <3> QED
      BY <1>1, <3>1, <3>2
  <2> QED
    BY <2>1, <2>2
<1> HIDE DEF S1
<1>5. S1 \in StateRec /\ S1.thr = S.thr /\ S1.team = S.team /\ S1.task[c] = T1
      /\ \A t \in Task \ {c} : S1.task[t] = S.task[t]
  BY <1>1, <1>4, SetTask
<1>6. T1.tq = "list"
  BY <1>2, <1>4 DEF SqMoved
<1>7. PICK T2 \in TaskRec : S2 = [S1 EXCEPT !.task[c] = T2] /\ TqMoved(T1, T2, "out")
  <2>1. S2 = Move(S1, c, "tq", "list", "out") /\ S1.task[c].tq = "list"
    BY <1>2, <1>5, <1>6
  <2>2. S1 \in StateRec /\ c \in Task /\ "out" \in Places /\ S1.task[c] = T1
    BY <1>1, <1>5
  <2> HIDE DEF S2
  <2> QED
    BY <2>1, <2>2, MoveTq
<1> HIDE DEF S2
<1>8. S2 \in StateRec /\ S2.thr = S.thr /\ S2.team = S.team /\ S2.task[c] = T2
      /\ \A t \in Task \ {c} : S2.task[t] = S.task[t]
  BY <1>1, <1>5, <1>7, SetTask
<1>9. PICK U \in TaskRec : S3 = [S2 EXCEPT !.task[c] = U] /\ KindSet(T2, U, "TIED")
  BY <1>1, <1>8, SetKind
<1> HIDE DEF S3
<1>10. S3 \in StateRec /\ S3.thr = S.thr /\ S3.team = S.team /\ S3.task[c] = U
       /\ \A t \in Task \ {c} : S3.task[t] = S.task[t]
  BY <1>1, <1>8, <1>9, SetTask
<1>11. PICK V \in TeamRec :
         /\ S4 = [S3 EXCEPT !.team = V]
         /\ V.queued = S.team.queued - 1 /\ SameTeam(S.team, V)
         /\ V.pending = IF S.team.queued = 1 THEN FALSE ELSE S.team.pending
  <2>1. S4 = Unqueued(S3) /\ S3 \in StateRec /\ S3.team = S.team
    BY <1>10
  <2> HIDE DEF S4
  <2> QED
    BY <2>1, UnqueuedEffect
<1> HIDE DEF S4
<1>12. S4 \in StateRec /\ S4.thr = S.thr /\ S4.team = V /\ S4.task[c] = U
       /\ \A t \in Task \ {c} : S4.task[t] = S.task[t]
  BY <1>10, <1>11, SetTeam
<1>13. /\ U.kind = "TIED" /\ SameStatic(C, U) /\ U.susp = C.susp /\ U.child = C.child
       /\ U.tq = "out" /\ U.sq = "out" /\ U.lq = C.lq /\ U.prev = C.prev /\ U.next = C.next
       /\ U.to = C.to /\ U.from = C.from
  BY <1>4, <1>7, <1>9 DEF SqMoved, TqMoved, KindSet, SameFixed, SameStatic
<1>14. Alone(U, c)
  <2>1. U.parent = C.parent /\ U.tw = C.tw /\ U.pc = C.pc
    BY <1>13 DEF SameStatic
  <2>2. C.child # "blocked"
    BY <1>1, <1>2 DEF Alone
  <2> QED
    BY <1>2, <1>13, <2>1, <2>2 DEF Alone
<1>15. \A d \in Explicit \ {c} : SameQ(S.task[d], S4.task[d])
  BY <1>1, <1>12 DEF SameQ
<1>16. SameImplicit(S, S4)
  BY <1>1, <1>12, SchedAssumption DEF SameImplicit
<1>17. Counted(S4)
  <2>1. \A d \in Explicit \ {c} : S4.task[d].tq = S.task[d].tq
    BY <1>15 DEF SameQ
  <2>2. S4.task[c].tq # "list" /\ S.task[c].tq = "list"
    BY <1>2, <1>12, <1>13
  <2>3. /\ Cardinality(QueuedIn(S4)) = Cardinality(QueuedIn(S)) - 1
        /\ Cardinality(QueuedIn(S)) \in Nat /\ IsFiniteSet(QueuedIn(S))
    BY <1>1, <1>12, <2>1, <2>2, QueuedChange
  <2>4. Cardinality(QueuedIn(S)) # 0
    <3>1. c \in QueuedIn(S)
      BY <2>2 DEF QueuedIn
    <3> QED
      BY <2>3, <3>1, FS_EmptySet
  <2>5. S.team.queued = Cardinality(QueuedIn(S)) /\ (S.team.pending <=> S.team.queued > 0)
    BY DEF InStep, Counted
  <2>6. S.team.pending \in BOOLEAN /\ V.pending \in BOOLEAN
    BY <1>1 DEF StateRec, TeamRec
  <2> PICK q \in Nat : q = S.team.queued /\ q # 0
    BY <2>3, <2>4, <2>5
  <2>7. V.queued = q - 1 /\ V.pending = IF q = 1 THEN FALSE ELSE S.team.pending
    BY <1>11
  <2>8. V.pending <=> V.queued > 0
    BY <2>5, <2>6, <2>7
  <2> QED
    BY <1>12, <2>3, <2>5, <2>7, <2>8 DEF Counted
<1>18. InStep(S4, {WaitingParent(S4, c)})
  <2>1. S4.task[c].parent = C.parent /\ S4.task[c].child = C.child /\ Reason(S4, c)
    BY <1>12, <1>13 DEF SameStatic, Reason
  <2>2. InStep(S, {c})
    BY DEF InStep
  <2> QED
    BY <1>12, <1>14, <1>15, <1>16, <1>17, <2>1, <2>2, OneInStep
<1>19. InStep(R, {}) /\ Same(S4, R)
  BY <1>18, NotifyParentInStep
<1>20. PreEffect(S, R, c)
  <2>1. ASSUME NEW d \in Task
        PROVE  /\ PreRec(S.task[d], S4.task[d])
               /\ S4.task[d].kind = IF d = c THEN "TIED" ELSE S.task[d].kind
               /\ S4.task[d].to = S.task[d].to /\ S4.task[d].from = S.task[d].from
    <3>1. CASE d = c
      BY <1>12, <1>13, <3>1 DEF PreRec
    <3>2. CASE d # c
      BY <1>12, <3>2 DEF PreRec, SameStatic
    <3> QED
      BY <3>1, <3>2
  <2>2. ASSUME NEW d \in Task
        PROVE  /\ PreRec(S4.task[d], R.task[d]) /\ R.task[d].kind = S4.task[d].kind
               /\ R.task[d].to = S4.task[d].to /\ R.task[d].from = S4.task[d].from
    <3>1. SameRec(S4.task[d], R.task[d]) \/ R.task[d] = S4.task[d]
      BY <1>19 DEF Same, Task
    <3> QED
      BY <3>1 DEF SameRec, SameFixed, SameStatic, PreRec
  <2>3. \A d \in Task : PreRec(S.task[d], R.task[d])
    BY <2>1, <2>2 DEF PreRec, SameStatic
  <2>4. R.thr = S.thr /\ SameTeam(S.team, R.team) /\ R \in StateRec
    BY <1>11, <1>12, <1>19 DEF Same, SameTeam
  <2> HIDE DEF R
  <2> QED
    BY <2>1, <2>2, <2>3, <2>4 DEF PreEffect
<1> QED
  BY <1>3, <1>19, <1>20

(* gomp_task_run_pre keeps the queues in step.                             *)
LEMMA RunPreInStep ==
  ASSUME NEW S, NEW c \in Explicit, InStep(S, {}), Pickable(S, c)
  PROVE  InStep(RunPre(S, c), {}) /\ PreEffect(S, RunPre(S, c), c)
BY RunPreSuspended, RunPreWaiting DEF Pickable
-----------------------------------------------------------------------------
(* Chains and tied lists, which no queue depends on.                       *)

(* The links of a task are set.                                            *)
LEMMA SetLinks ==
  ASSUME NEW S \in StateRec, NEW t \in Task, NEW v \in MaybeTask
  PROVE  /\ [S EXCEPT !.task[t].to = v] \in StateRec
         /\ [S EXCEPT !.task[t].from = v] \in StateRec
         /\ [S EXCEPT !.task[t].prev = v] \in StateRec
         /\ [S EXCEPT !.task[t].next = v] \in StateRec
<1>1. S.task[t] \in TaskRec
  BY DEF StateRec
<1>2. /\ [S.task[t] EXCEPT !.to = v] \in TaskRec
      /\ [S.task[t] EXCEPT !.from = v] \in TaskRec
  BY <1>1 DEF TaskRec
<1>3. /\ [S.task[t] EXCEPT !.prev = v] \in TaskRec
      /\ [S.task[t] EXCEPT !.next = v] \in TaskRec
  BY <1>1 DEF TaskRec
<1>4. /\ [S EXCEPT !.task[t].to = v] \in StateRec
      /\ [S EXCEPT !.task[t].from = v] \in StateRec
  BY <1>2 DEF StateRec
<1>5. /\ [S EXCEPT !.task[t].prev = v] \in StateRec
      /\ [S EXCEPT !.task[t].next = v] \in StateRec
  BY <1>3 DEF StateRec
<1> QED
  BY <1>4, <1>5

(* The last tied task of a thread is set.                                  *)
LEMMA SetLast ==
  ASSUME NEW S \in StateRec, NEW h \in Thread, NEW v \in MaybeTask
  PROVE  LET R == [S EXCEPT !.thr[h].last = v]
         IN /\ R \in StateRec /\ R.task = S.task /\ R.team = S.team
            /\ \A g \in Thread : R.thr[g].task = S.thr[g].task
            /\ \A g \in Thread : R.thr[g].last = IF g = h THEN v ELSE S.thr[g].last
<1>1. [S.thr[h] EXCEPT !.last = v] \in ThrRec
  BY DEF StateRec, ThrRec
<1>2. [S EXCEPT !.thr[h].last = v] \in StateRec
  BY <1>1 DEF StateRec
<1> QED
  BY <1>2 DEF StateRec, ThrRec

(* The task a thread runs is set.                                          *)
LEMMA SetCurrent ==
  ASSUME NEW S \in StateRec, NEW h \in Thread, NEW v \in Task
  PROVE  LET R == [S EXCEPT !.thr[h].task = v]
         IN /\ R \in StateRec /\ R.task = S.task /\ R.team = S.team
            /\ \A g \in Thread : R.thr[g].last = S.thr[g].last
            /\ \A g \in Thread : R.thr[g].task = IF g = h THEN v ELSE S.thr[g].task
<1>1. [S.thr[h] EXCEPT !.task = v] \in ThrRec
  BY DEF StateRec, ThrRec
<1>2. [S EXCEPT !.thr[h].task = v] \in StateRec
  BY <1>1 DEF StateRec
<1> QED
  BY <1>2 DEF StateRec, ThrRec

(* n runs on top of t.                                                     *)
TopEffect(S, R, t, n) ==
  /\ R \in StateRec /\ R.thr = S.thr /\ R.team = S.team
  /\ \A c \in Task :
       /\ SameButChain(S.task[c], R.task[c])
       /\ R.task[c].to = IF c = n THEN t ELSE S.task[c].to
       /\ R.task[c].from = IF c = t THEN n ELSE IF c = n THEN None ELSE S.task[c].from

(* A task on top of another in the chain of their thread.                  *)
LEMMA OnTopEffect ==
  ASSUME NEW S \in StateRec, NEW t \in Task, NEW n \in Task
  PROVE  TopEffect(S, OnTop(S, t, n), t, n)
<1> DEFINE R == OnTop(S, t, n)
           R1 == [S EXCEPT !.task[n].to = t]
           R2 == [R1 EXCEPT !.task[n].from = None]
           R3 == [R2 EXCEPT !.task[t].from = n]
<1>1. \A c \in Task : S.task[c] \in TaskRec
  BY DEF StateRec
<1>2. t \in MaybeTask /\ n \in MaybeTask /\ None \in MaybeTask
  BY DEF MaybeTask
<1>3. R1 \in StateRec
  BY <1>2, SetLinks
<1>4. R2 \in StateRec
  <2> HIDE DEF R1
  <2> QED
    BY <1>2, <1>3, SetLinks
<1>5. R3 \in StateRec
  <2> HIDE DEF R2
  <2> QED
    BY <1>2, <1>4, SetLinks
<1>6. R = R3
  BY DEF OnTop
<1>7. R.thr = S.thr /\ R.team = S.team
  BY DEF OnTop, StateRec
<1>8. ASSUME NEW c \in Task
      PROVE  /\ SameButChain(S.task[c], R.task[c])
             /\ R.task[c].to = IF c = n THEN t ELSE S.task[c].to
             /\ R.task[c].from = IF c = t THEN n ELSE IF c = n THEN None ELSE S.task[c].from
  <2>1. /\ R.task[c].to = IF c = n THEN t ELSE S.task[c].to
        /\ R.task[c].from = IF c = t THEN n ELSE IF c = n THEN None ELSE S.task[c].from
    BY DEF OnTop, StateRec, TaskRec
  <2>2. SameButChain(S.task[c], R.task[c])
    BY DEF OnTop, StateRec, TaskRec, SameButChain, SameStatic, SameQ
  <2> QED
    BY <2>1, <2>2
<1> HIDE DEF R
<1> QED
  BY <1>5, <1>6, <1>7, <1>8 DEF TopEffect, R

(* n runs in the place of t.                                               *)
LEMMA InPlaceEffect ==
  ASSUME NEW S \in StateRec, NEW t \in Task, NEW n \in Task, NEW b \in Task, b = S.task[t].to
  PROVE  LET R == InPlace(S, t, n)
         IN /\ R \in StateRec /\ R.thr = S.thr /\ R.team = S.team
            /\ \A c \in Task :
                 /\ SameButChain(S.task[c], R.task[c])
                 /\ R.task[c].to = IF c = t THEN None ELSE IF c = n THEN b ELSE S.task[c].to
                 /\ R.task[c].from = IF c = t THEN None ELSE IF c = b THEN n
                                     ELSE IF c = n THEN None ELSE S.task[c].from
<1> DEFINE S1 == OnTop(S, b, n)
           S2 == [S1 EXCEPT !.task[t].to = None]
           S3 == [S2 EXCEPT !.task[t].from = None]
           R == [S1 EXCEPT !.task[t].to = None, !.task[t].from = None]
<1>1. /\ S1 \in StateRec /\ S1.thr = S.thr /\ S1.team = S.team
      /\ \A c \in Task :
           /\ SameButChain(S.task[c], S1.task[c])
           /\ S1.task[c].to = IF c = n THEN b ELSE S.task[c].to
           /\ S1.task[c].from = IF c = b THEN n ELSE IF c = n THEN None ELSE S.task[c].from
  <2>1. TopEffect(S, OnTop(S, b, n), b, n)
    BY OnTopEffect
  <2> QED
    BY <2>1 DEF TopEffect
<1>2. InPlace(S, t, n) = R
  BY DEF InPlace
<1> HIDE DEF S1
<1>3. None \in MaybeTask
  BY DEF MaybeTask
<1>4. S2 \in StateRec
  BY <1>1, <1>3, SetLinks
<1>5. S3 \in StateRec
  <2> HIDE DEF S2
  <2> QED
    BY <1>3, <1>4, SetLinks
<1>6. R = S3
  OBVIOUS
<1>7. R.thr = S1.thr /\ R.team = S1.team
  BY <1>1 DEF StateRec
<1>8. ASSUME NEW c \in Task
      PROVE  /\ SameButChain(S1.task[c], R.task[c])
             /\ R.task[c].to = IF c = t THEN None ELSE S1.task[c].to
             /\ R.task[c].from = IF c = t THEN None ELSE S1.task[c].from
  <2>0. S1 \in StateRec
    BY <1>1
  <2>1. /\ R.task[c].to = IF c = t THEN None ELSE S1.task[c].to
        /\ R.task[c].from = IF c = t THEN None ELSE S1.task[c].from
    BY <2>0 DEF StateRec, TaskRec
  <2>2. SameButChain(S1.task[c], R.task[c])
    BY <2>0 DEF StateRec, TaskRec, SameButChain, SameStatic, SameQ
  <2> QED
    BY <2>1, <2>2
<1> HIDE DEF R
<1>9. \A c \in Task : SameButChain(S.task[c], R.task[c])
  BY <1>1, <1>8 DEF SameButChain, SameStatic, SameQ
<1> QED
  BY <1>1, <1>2, <1>5, <1>6, <1>7, <1>8, <1>9

(* The records of two states agree on all fields but prev and next.        *)
SameButList(T, U) ==
  SameStatic(T, U) /\ SameQ(T, U) /\ T.to = U.to /\ T.from = U.from

(* The tied list of h changes, at most.                                    *)
ListFrame(S, R, h) ==
  /\ R \in StateRec /\ R.team = S.team
  /\ \A g \in Thread : R.thr[g].task = S.thr[g].task
  /\ \A g \in Thread : g # h => R.thr[g].last = S.thr[g].last
  /\ \A c \in Task : SameButList(S.task[c], R.task[c])

(* The links of the tied lists are the same.                               *)
SameLists(S, R) ==
  \A c \in Task : R.task[c].prev = S.task[c].prev /\ R.task[c].next = S.task[c].next

(* n is at the end of the tied list of h, if it is tied.                   *)
Inserted(S, R, h, t, n) ==
  LET last == S.thr[h].last
      N == S.task[n]
  IN \/ /\ \/ N.type # "TIED"
           \/ S.task[t].kind # "IMPLICIT" /\ (N.prev # None \/ N.next # None)
        /\ SameLists(S, R) /\ R.thr[h].last = last
     \/ /\ N.type = "TIED"
        /\ S.task[t].kind = "IMPLICIT" \/ (N.prev = None /\ N.next = None /\ last \in {None, n})
        /\ SameLists(S, R) /\ R.thr[h].last = n
     \/ /\ N.type = "TIED" /\ S.task[t].kind # "IMPLICIT"
        /\ N.prev = None /\ N.next = None /\ last \in Task \ {n}
        /\ \A c \in Task : /\ R.task[c].next = IF c = last THEN n ELSE S.task[c].next
                           /\ R.task[c].prev = IF c = n THEN last ELSE S.task[c].prev
        /\ R.thr[h].last = n

(* gomp_insert_task_in_tied_list changes the tied list only.               *)
LEMMA InsertTiedEffect ==
  ASSUME NEW S \in StateRec, NEW h \in Thread, NEW t \in Task, NEW n \in Task
  PROVE  LET R == InsertTied(S, h, t, n)
         IN ListFrame(S, R, h) /\ Inserted(S, R, h, t, n)
<1> DEFINE last == S.thr[h].last
           N == S.task[n]
           R == InsertTied(S, h, t, n)
<1>1. last \in MaybeTask /\ n \in MaybeTask
  BY DEF StateRec, ThrRec, MaybeTask
<1>2. ListFrame(S, S, h) /\ SameLists(S, S)
  BY DEF ListFrame, SameLists, SameButList, SameStatic, SameQ
<1>3. CASE \/ N.type # "TIED"
           \/ S.task[t].kind # "IMPLICIT" /\ (N.prev # None \/ N.next # None)
  <2>1. R = S
    BY <1>3 DEF InsertTied
  <2> QED
    BY <1>2, <1>3, <2>1 DEF Inserted
<1>4. CASE /\ N.type = "TIED"
           /\ S.task[t].kind = "IMPLICIT" \/ (N.prev = None /\ N.next = None /\ last \in {None, n})
  <2>1. R = [S EXCEPT !.thr[h].last = n]
    BY <1>4 DEF InsertTied
  <2>2. /\ R \in StateRec /\ R.task = S.task /\ R.team = S.team
        /\ \A g \in Thread : R.thr[g].task = S.thr[g].task
        /\ \A g \in Thread : R.thr[g].last = IF g = h THEN n ELSE S.thr[g].last
    BY <1>1, <2>1, SetLast
  <2> HIDE DEF R
  <2>3. ListFrame(S, R, h) /\ SameLists(S, R)
    BY <2>2 DEF ListFrame, SameLists, SameButList, SameStatic, SameQ
  <2> QED
    BY <1>4, <2>2, <2>3 DEF Inserted, R
<1>5. CASE /\ N.type = "TIED" /\ S.task[t].kind # "IMPLICIT"
           /\ N.prev = None /\ N.next = None /\ last \in Task \ {n}
  <2> DEFINE R1 == [S EXCEPT !.task[last].next = n]
             R2 == [R1 EXCEPT !.task[n].prev = last]
             R3 == [R2 EXCEPT !.thr[h].last = n]
  <2>1. last # None
    BY <1>5, SchedAssumption
  <2>2. R = [S EXCEPT !.task[last].next = n, !.task[n].prev = last, !.thr[h].last = n]
    BY <1>5, <2>1 DEF InsertTied
  <2>3. R1 \in StateRec
    BY <1>1, <1>5, SetLinks
  <2>4. R2 \in StateRec
    <3> HIDE DEF R1, last
    <3> QED
      BY <1>1, <2>3, SetLinks
  <2>5. /\ R3 \in StateRec /\ R3.task = R2.task /\ R3.team = R2.team
        /\ \A g \in Thread : R3.thr[g].task = R2.thr[g].task
        /\ \A g \in Thread : R3.thr[g].last = IF g = h THEN n ELSE R2.thr[g].last
    <3> HIDE DEF R2
    <3> QED
      BY <1>1, <2>4, SetLast
  <2>6. R = R3
    BY <2>2
  <2>7. R2.thr = S.thr /\ R2.team = S.team
    BY DEF StateRec
  <2>8. ASSUME NEW c \in Task
        PROVE  /\ SameButList(S.task[c], R2.task[c])
               /\ R2.task[c].next = IF c = last THEN n ELSE S.task[c].next
               /\ R2.task[c].prev = IF c = n THEN last ELSE S.task[c].prev
    <3> HIDE DEF last
    <3>1. last \in Task
      BY <1>5
    <3>2. /\ R2.task[c].next = IF c = last THEN n ELSE S.task[c].next
          /\ R2.task[c].prev = IF c = n THEN last ELSE S.task[c].prev
      BY <3>1 DEF StateRec, TaskRec
    <3>3. SameButList(S.task[c], R2.task[c])
      BY <3>1 DEF StateRec, TaskRec, SameButList, SameStatic, SameQ
    <3> QED
      BY <3>2, <3>3
  <2> HIDE DEF R2, R3, R
  <2>9. ListFrame(S, R, h)
    BY <2>5, <2>6, <2>7, <2>8 DEF ListFrame
  <2> QED
    BY <1>5, <2>5, <2>6, <2>8, <2>9 DEF Inserted, R
<1> QED
  BY <1>1, <1>3, <1>4, <1>5 DEF MaybeTask
-----------------------------------------------------------------------------
(* gomp_suspend_tied_task_for_successor and its untied twin.               *)

(* The record of a task that has been parked.                              *)
Parked(T, U, h, inWait, locked, k) ==
  /\ U.kind = k /\ U.susp = h /\ SameStatic(T, U)
  /\ U.blocked = (inWait \/ locked) /\ U.sq = ListOf(inWait \/ locked)
  /\ U.lq = IF locked /\ ~inWait THEN "list" ELSE T.lq
  /\ U.to = T.to /\ U.from = T.from /\ U.prev = T.prev /\ U.next = T.next

(* A tied task is parked: its kind, its flag, its place change.            *)
LEMMA ParkTiedEffect ==
  ASSUME NEW S \in StateRec, NEW h \in Thread, NEW t \in Task,
         NEW inWait \in BOOLEAN, NEW locked \in BOOLEAN
  PROVE  \E U \in TaskRec :
           /\ ParkTied(S, h, t, inWait, locked) = [S EXCEPT !.task[t] = U]
           /\ Parked(S.task[t], U, h, inWait, locked, "TIED_SUSPENDED")
           /\ U.child = S.task[t].child /\ U.tq = S.task[t].tq
<1>1. PICK b \in BOOLEAN : b = (inWait \/ locked)
  OBVIOUS
<1>2. PICK l \in Places : l = ListOf(b)
  BY ListOfPlaces
<1>3. S.task[t] \in TaskRec
  BY DEF StateRec
<1>4. PICK q \in Places : q = IF locked /\ ~inWait THEN "list" ELSE S.task[t].lq
  BY <1>3 DEF TaskRec, Places
<1> DEFINE U == [S.task[t] EXCEPT !.blocked = b, !.sq = l, !.lq = q, !.susp = h,
                                  !.kind = "TIED_SUSPENDED"]
<1>5. U \in TaskRec
  BY <1>3 DEF TaskRec, Kinds
<1>6. Parked(S.task[t], U, h, inWait, locked, "TIED_SUSPENDED")
  <2>1. /\ U.kind = "TIED_SUSPENDED" /\ U.susp = h /\ SameStatic(S.task[t], U)
        /\ U.sq = l /\ U.lq = q
        /\ U.to = S.task[t].to /\ U.from = S.task[t].from
        /\ U.prev = S.task[t].prev /\ U.next = S.task[t].next
    BY <1>3 DEF TaskRec, SameStatic
  <2>2. U.blocked = b
    BY <1>3 DEF TaskRec
  <2> HIDE DEF U
  <2> QED
    BY <1>1, <1>2, <1>4, <2>1, <2>2 DEF Parked
<1>7. U.child = S.task[t].child /\ U.tq = S.task[t].tq
  BY <1>3 DEF TaskRec
<1>8. ParkTied(S, h, t, inWait, locked) = [S EXCEPT !.task[t] = U]
  <2>1. ParkTied(S, h, t, inWait, locked)
          = [S EXCEPT !.task[t] =
               [S.task[t] EXCEPT !.blocked = inWait \/ locked,
                                 !.sq = ListOf(inWait \/ locked),
                                 !.lq = IF locked /\ ~inWait THEN "list" ELSE S.task[t].lq,
                                 !.susp = h, !.kind = "TIED_SUSPENDED"]]
    BY DEF ParkTied
  <2>2. ListOf(inWait \/ locked) = l
    BY <1>1, <1>2
  <2> QED
    BY <1>1, <1>4, <2>1, <2>2, Zenon
<1> QED
  BY <1>5, <1>6, <1>7, <1>8

(* An untied task is parked, in all of its queues alike.                   *)
LEMMA ParkUntiedEffect ==
  ASSUME NEW S \in StateRec, NEW h \in Thread, NEW t \in Task,
         NEW inWait \in BOOLEAN, NEW locked \in BOOLEAN,
         S.task[t].parent # None => S.task[t].child = "list"
  PROVE  \E U \in TaskRec :
           /\ ParkUntied(S, h, t, inWait, locked) = [S EXCEPT !.task[t] = U]
           /\ Parked(S.task[t], U, h, inWait, locked, "WAITING")
           /\ U.tq = ListOf(inWait \/ locked)
           /\ U.child = IF S.task[t].parent # None THEN ListOf(inWait \/ locked)
                        ELSE S.task[t].child
<1>1. PICK b \in BOOLEAN : b = (inWait \/ locked)
  OBVIOUS
<1>2. PICK l \in Places : l = ListOf(b)
  BY ListOfPlaces
<1>3. S.task[t] \in TaskRec
  BY DEF StateRec
<1> DEFINE R == IF S.task[t].parent # None THEN Move(S, t, "child", "list", l) ELSE S
<1>4. PICK T1 \in TaskRec :
        /\ R = [S EXCEPT !.task[t] = T1] /\ SameFixed(S.task[t], T1)
        /\ T1.child = IF S.task[t].parent # None THEN l ELSE S.task[t].child
  <2>1. CASE S.task[t].parent # None
    <3>1. PICK T1 \in TaskRec : R = [S EXCEPT !.task[t] = T1] /\ ChildMoved(S.task[t], T1, l)
      <4>1. R = Move(S, t, "child", "list", l) /\ S.task[t].child = "list"
        BY <2>1
      <4> HIDE DEF R
      <4> QED
        BY <4>1, MoveChild
    <3> QED
      BY <2>1, <3>1 DEF ChildMoved
  <2>2. CASE S.task[t].parent = None
    <3>1. R = [S EXCEPT !.task[t] = S.task[t]]
      BY <2>2 DEF StateRec
    <3>2. SameFixed(S.task[t], S.task[t])
      BY DEF SameFixed, SameStatic
    <3> HIDE DEF R
    <3> QED
      BY <1>3, <2>2, <3>1, <3>2
  <2> QED
    BY <2>1, <2>2
<1> HIDE DEF R
<1>5. R \in StateRec /\ R.task[t] = T1
  BY <1>4, SetTask
<1>6. PICK q \in Places : q = IF locked /\ ~inWait THEN "list" ELSE T1.lq
  BY DEF TaskRec, Places
<1> DEFINE U == [T1 EXCEPT !.blocked = b, !.sq = l, !.tq = l, !.lq = q, !.susp = h,
                           !.kind = "WAITING"]
<1>7. U \in TaskRec
  BY DEF TaskRec, Kinds
<1>8. Parked(S.task[t], U, h, inWait, locked, "WAITING")
  <2>1. /\ U.kind = "WAITING" /\ U.susp = h /\ SameStatic(T1, U) /\ U.sq = l /\ U.lq = q
        /\ U.to = T1.to /\ U.from = T1.from /\ U.prev = T1.prev /\ U.next = T1.next
    BY DEF TaskRec, SameStatic
  <2>2. U.blocked = b
    BY DEF TaskRec
  <2>3. /\ SameStatic(S.task[t], T1) /\ T1.lq = S.task[t].lq /\ T1.to = S.task[t].to
        /\ T1.from = S.task[t].from /\ T1.prev = S.task[t].prev /\ T1.next = S.task[t].next
    BY <1>4 DEF SameFixed
  <2> HIDE DEF U
  <2>4. SameStatic(S.task[t], U)
    BY <2>1, <2>3 DEF SameStatic
  <2> QED
    BY <1>1, <1>2, <1>6, <2>1, <2>2, <2>3, <2>4 DEF Parked
<1>9. U.child = T1.child /\ U.tq = l
  BY DEF TaskRec
<1>10. ParkUntied(S, h, t, inWait, locked) = [R EXCEPT !.task[t] = U]
  <2>1. ParkUntied(S, h, t, inWait, locked)
          = LET k == ListOf(inWait \/ locked)
                Q == IF S.task[t].parent # None THEN Move(S, t, "child", "list", k) ELSE S
            IN [Q EXCEPT !.task[t] =
                 [Q.task[t] EXCEPT !.blocked = inWait \/ locked, !.sq = k, !.tq = k,
                                   !.lq = IF locked /\ ~inWait THEN "list" ELSE Q.task[t].lq,
                                   !.susp = h, !.kind = "WAITING"]]
    BY DEF ParkUntied
  <2>2. R = IF S.task[t].parent # None THEN Move(S, t, "child", "list", l) ELSE S
    BY DEF R
  <2>3. ListOf(inWait \/ locked) = l
    BY <1>1, <1>2
  <2>4. ParkUntied(S, h, t, inWait, locked)
          = [R EXCEPT !.task[t] =
               [R.task[t] EXCEPT !.blocked = inWait \/ locked, !.sq = l, !.tq = l,
                                 !.lq = IF locked /\ ~inWait THEN "list" ELSE R.task[t].lq,
                                 !.susp = h, !.kind = "WAITING"]]
    BY <2>1, <2>2, <2>3, Zenon
  <2> QED
    BY <1>1, <1>5, <1>6, <2>4, Zenon
<1>12. [R EXCEPT !.task[t] = U] = [S EXCEPT !.task[t] = U]
  <2> HIDE DEF U
  <2> QED
    BY <1>4 DEF StateRec
<1> HIDE DEF U
<1> QED
  BY <1>1, <1>2, <1>4, <1>7, <1>8, <1>9, <1>10, <1>12

(* The chain after n went on top of t, or took its place.                  *)
PushLinks(S, R, t, n) ==
  \A c \in Task :
    /\ R.task[c].to = IF c = n THEN t ELSE S.task[c].to
    /\ R.task[c].from = IF c = t THEN n ELSE IF c = n THEN None ELSE S.task[c].from

(* The links after n took the place of the untied task t.                  *)
PlaceLinks(S, R, t, n) ==
  \A c \in Task :
    /\ R.task[c].to = IF c = t THEN None ELSE IF c = n THEN S.task[t].to ELSE S.task[c].to
    /\ R.task[c].from = IF c = t THEN None ELSE IF c = S.task[t].to THEN n
                        ELSE IF c = n THEN None ELSE S.task[c].from

(* The kind of a suspended task.                                           *)
SuspKind(T) ==
  IF T.kind = "IMPLICIT" THEN "IMPLICIT"
  ELSE IF T.type = "TIED" THEN "TIED_SUSPENDED" ELSE "WAITING"

(* What becomes of t, parked in front of a critical section if k, and of   *)
(* the other tasks.                                                        *)
SuspRec(S, R, h, t, k, c) ==
  /\ SameStatic(S.task[c], R.task[c])
  /\ (S.task[c].child = "out" <=> R.task[c].child = "out")
  /\ R.task[c].kind = IF c = t THEN SuspKind(S.task[t]) ELSE S.task[c].kind
  /\ R.task[c].susp = IF c = t /\ S.task[t].kind # "IMPLICIT" THEN h ELSE S.task[c].susp
  /\ c # t \/ ~k => R.task[c].lq = S.task[c].lq

(* Thread h runs n, t is suspended.                                        *)
SuspEffect(S, R, h, t, n, k) ==
  /\ R \in StateRec /\ SameTeam(S.team, R.team)
  /\ \A g \in Thread : /\ R.thr[g].task = IF g = h THEN n ELSE S.thr[g].task
                       /\ g # h => R.thr[g].last = S.thr[g].last
  /\ \A c \in Task : SuspRec(S, R, h, t, k, c)
  /\ IF S.task[t].type = "TIED" THEN PushLinks(S, R, t, n) ELSE PlaceLinks(S, R, t, n)
  /\ Inserted(S, R, h, t, n)

(* Inserted only looks at the tied lists.                                  *)
LEMMA InsertedFrame ==
  ASSUME NEW S, NEW S1, NEW R1, NEW R, NEW h, NEW t \in Task, NEW n \in Task,
         Inserted(S1, R1, h, t, n), SameLists(S, S1), SameLists(R1, R),
         S1.thr[h].last = S.thr[h].last, R.thr[h].last = R1.thr[h].last,
         S1.task[n].type = S.task[n].type, S1.task[t].kind = S.task[t].kind
  PROVE  Inserted(S, R, h, t, n)
<1>1. \A c \in Task : S1.task[c].prev = S.task[c].prev /\ S1.task[c].next = S.task[c].next
  BY DEF SameLists
<1>2. \A c \in Task : R1.task[c].prev = R.task[c].prev /\ R1.task[c].next = R.task[c].next
  BY DEF SameLists
<1> QED
  BY <1>1, <1>2 DEF Inserted, SameLists

(* A running task is in no queue it could be picked from.                  *)
LEMMA RunningQueues ==
  ASSUME NEW S, NEW X, NEW t \in Explicit, InStep(S, X), S.task[t].kind = "TIED"
  PROVE  /\ S.task[t].tq = "out" /\ S.task[t].sq = "out" /\ S.task[t].lq = "out"
         /\ S.task[t].child # "blocked" /\ ~Ready(S.task[t])
         /\ (S.task[t].child # "out" => S.task[t].parent # None)
         /\ (S.task[t].parent \in Explicit => S.task[t].parent < t)
         /\ (S.task[t].tw => S.task[t].pc \in {"wait", "poll", "try"})
BY DEF InStep, Alone, Ready

(* Running on: only the current task of a thread changes.                  *)
LEMMA CurrentInStep ==
  ASSUME NEW S, NEW h \in Thread, NEW n \in Task, NEW X, InStep(S, X)
  PROVE  InStep([S EXCEPT !.thr[h].task = n], X)
<1> DEFINE R == [S EXCEPT !.thr[h].task = n]
<1>1. S \in StateRec
  BY DEF InStep
<1>2. R \in StateRec /\ R.task = S.task /\ R.team = S.team
  BY <1>1, SetCurrent
<1> HIDE DEF R
<1>3. \A c \in Explicit : SameQ(S.task[c], R.task[c])
  BY <1>2 DEF SameQ
<1>4. SameImplicit(S, R)
  BY <1>2 DEF SameImplicit
<1>5. InStep(R, X)
  BY <1>2, <1>3, <1>4, InStepFrame
<1> QED
  BY <1>5 DEF R

(* The chain and the tied list of h change before t is parked.             *)
LEMMA PushInStep ==
  ASSUME NEW S, NEW h \in Thread, NEW t \in Task, NEW n \in Task, InStep(S, {})
  PROVE  LET R == InsertTied(OnTop(S, t, n), h, t, n)
         IN /\ InStep(R, {}) /\ R.team = S.team
            /\ \A g \in Thread : /\ R.thr[g].task = S.thr[g].task
                                 /\ g # h => R.thr[g].last = S.thr[g].last
            /\ \A c \in Task : SameStatic(S.task[c], R.task[c]) /\ SameQ(S.task[c], R.task[c])
            /\ PushLinks(S, R, t, n) /\ Inserted(S, R, h, t, n)
<1> DEFINE S1 == OnTop(S, t, n)
           R == InsertTied(S1, h, t, n)
<1>1. S \in StateRec /\ Explicit \subseteq Task /\ Thread \subseteq Task
  BY DEF InStep, Task
<1>2. TopEffect(S, S1, t, n)
  BY <1>1, OnTopEffect
<1> HIDE DEF S1
<1>3. S1 \in StateRec /\ S1.thr = S.thr /\ S1.team = S.team
  BY <1>2 DEF TopEffect
<1>4. ListFrame(S1, R, h) /\ Inserted(S1, R, h, t, n)
  BY <1>3, InsertTiedEffect
<1> HIDE DEF R
<1>5. ASSUME NEW c \in Task
      PROVE  /\ SameStatic(S.task[c], R.task[c]) /\ SameQ(S.task[c], R.task[c])
             /\ R.task[c].to = S1.task[c].to /\ R.task[c].from = S1.task[c].from
  <2>1. SameButChain(S.task[c], S1.task[c])
    BY <1>2 DEF TopEffect
  <2>2. SameButList(S1.task[c], R.task[c])
    BY <1>4 DEF ListFrame
  <2> QED
    BY <2>1, <2>2 DEF SameButChain, SameButList, SameStatic, SameQ
<1>6. PushLinks(S, R, t, n)
  BY <1>2, <1>5 DEF PushLinks, TopEffect
<1>7. Inserted(S, R, h, t, n)
  <2>1. SameLists(S, S1) /\ SameLists(R, R)
    BY <1>2 DEF TopEffect, SameButChain, SameLists
  <2>2. S1.task[n].type = S.task[n].type /\ S1.task[t].kind = S.task[t].kind
    BY <1>2 DEF TopEffect, SameButChain, SameQ
  <2> QED
    BY <1>3, <1>4, <2>1, <2>2, InsertedFrame
<1>8. InStep(R, {})
  <2>1. R \in StateRec /\ R.team = S.team
    BY <1>3, <1>4 DEF ListFrame
  <2>2. \A c \in Explicit : SameQ(S.task[c], R.task[c])
    BY <1>1, <1>5
  <2>3. SameImplicit(S, R)
    BY <1>1, <1>5 DEF SameImplicit, SameQ
  <2> QED
    BY <2>1, <2>2, <2>3, InStepFrame
<1> QED
  BY <1>3, <1>4, <1>5, <1>6, <1>7, <1>8 DEF ListFrame, R, S1

(* Taking the place of an untied task keeps the queues in step.            *)
LEMMA PlaceInStep ==
  ASSUME NEW S, NEW h \in Thread, NEW t \in Task, NEW n \in Task, InStep(S, {}),
         S.task[t].to \in Task
  PROVE  LET R == InsertTied(InPlace(S, t, n), h, t, n)
         IN /\ InStep(R, {}) /\ R.team = S.team
            /\ \A g \in Thread : /\ R.thr[g].task = S.thr[g].task
                                 /\ g # h => R.thr[g].last = S.thr[g].last
            /\ \A c \in Task : SameStatic(S.task[c], R.task[c]) /\ SameQ(S.task[c], R.task[c])
            /\ PlaceLinks(S, R, t, n) /\ Inserted(S, R, h, t, n)
<1> DEFINE S1 == InPlace(S, t, n)
           R == InsertTied(S1, h, t, n)
<1>1. S \in StateRec /\ Explicit \subseteq Task /\ Thread \subseteq Task
  BY DEF InStep, Task
<1>2. PICK b \in Task : b = S.task[t].to
  OBVIOUS
<1>3. /\ S1 \in StateRec /\ S1.thr = S.thr /\ S1.team = S.team
      /\ \A c \in Task :
                 /\ SameButChain(S.task[c], S1.task[c])
                 /\ S1.task[c].to = IF c = t THEN None ELSE IF c = n THEN b ELSE S.task[c].to
                 /\ S1.task[c].from = IF c = t THEN None ELSE IF c = b THEN n
                                     ELSE IF c = n THEN None ELSE S.task[c].from
  BY <1>1, <1>2, InPlaceEffect
<1> HIDE DEF S1
<1>4. ListFrame(S1, R, h) /\ Inserted(S1, R, h, t, n)
  BY <1>3, InsertTiedEffect
<1> HIDE DEF R
<1>5. ASSUME NEW c \in Task
      PROVE  /\ SameStatic(S.task[c], R.task[c]) /\ SameQ(S.task[c], R.task[c])
             /\ R.task[c].to = S1.task[c].to /\ R.task[c].from = S1.task[c].from
  <2>1. SameButChain(S.task[c], S1.task[c])
    BY <1>3
  <2>2. SameButList(S1.task[c], R.task[c])
    BY <1>4 DEF ListFrame
  <2> QED
    BY <2>1, <2>2 DEF SameButChain, SameButList, SameStatic, SameQ
<1>6. PlaceLinks(S, R, t, n)
  BY <1>2, <1>3, <1>5 DEF PlaceLinks
<1>7. Inserted(S, R, h, t, n)
  <2>1. SameLists(S, S1) /\ SameLists(R, R)
    BY <1>3 DEF SameButChain, SameLists
  <2>2. S1.task[n].type = S.task[n].type /\ S1.task[t].kind = S.task[t].kind
    BY <1>3 DEF SameButChain, SameQ
  <2> QED
    BY <1>3, <1>4, <2>1, <2>2, InsertedFrame
<1>8. InStep(R, {})
  <2>1. R \in StateRec /\ R.team = S.team
    BY <1>3, <1>4 DEF ListFrame
  <2>2. \A c \in Explicit : SameQ(S.task[c], R.task[c])
    BY <1>1, <1>5
  <2>3. SameImplicit(S, R)
    BY <1>1, <1>5 DEF SameImplicit, SameQ
  <2> QED
    BY <2>1, <2>2, <2>3, InStepFrame
<1> QED
  BY <1>3, <1>4, <1>5, <1>6, <1>7, <1>8 DEF ListFrame, R, S1

(* A tied task that was running waits in the queue of its thread.          *)
LEMMA ParkTiedInStep ==
  ASSUME NEW S, NEW h \in Thread, NEW t \in Explicit, NEW w \in BOOLEAN, NEW k \in BOOLEAN,
         InStep(S, {}), S.task[t].kind = "TIED", S.task[t].type = "TIED",
         w <=> S.task[t].tw /\ IsBlockedTied(S, t),
         k => S.task[t].pc = "contend"
  PROVE  LET R == ParkTied(S, h, t, w, k)
         IN /\ InStep(R, {}) /\ R.team = S.team /\ R.thr = S.thr
            /\ \A c \in Task \ {t} : R.task[c] = S.task[c]
            /\ Parked(S.task[t], R.task[t], h, w, k, "TIED_SUSPENDED")
            /\ R.task[t].child = S.task[t].child
<1> DEFINE T == S.task[t]
           R == ParkTied(S, h, t, w, k)
<1>1. S \in StateRec /\ t \in Task /\ Explicit \subseteq Task /\ Thread \subseteq Task /\ T \in TaskRec
  BY DEF InStep, Task, StateRec
<1>2. PICK U \in TaskRec :
           /\ R = [S EXCEPT !.task[t] = U]
           /\ Parked(T, U, h, w, k, "TIED_SUSPENDED")
           /\ U.child = T.child /\ U.tq = T.tq
  BY <1>1, ParkTiedEffect
<1> HIDE DEF R
<1>3. R \in StateRec /\ R.thr = S.thr /\ R.team = S.team /\ R.task[t] = U
      /\ \A c \in Task \ {t} : R.task[c] = S.task[c]
  BY <1>1, <1>2, SetTask
<1>4. /\ T.tq = "out" /\ T.sq = "out" /\ T.lq = "out" /\ T.child # "blocked" /\ ~Ready(T)
      /\ (T.child # "out" => T.parent # None) /\ (T.parent \in Explicit => T.parent < t)
      /\ (T.tw => T.pc \in {"wait", "poll", "try"})
  BY RunningQueues
<1>5. ~(w /\ k)
  BY <1>4
<1>6. /\ U.kind = "TIED_SUSPENDED" /\ U.susp = h /\ U.blocked = (w \/ k) /\ U.sq = ListOf(w \/ k)
      /\ U.lq = (IF k THEN "list" ELSE "out") /\ U.type = "TIED" /\ U.parent = T.parent
      /\ U.tw = T.tw /\ U.pc = T.pc /\ h # None
  <2>1. h # None
    BY SchedAssumption DEF Task
  <2> QED
    BY <1>2, <1>4, <1>5, <2>1 DEF Parked, SameStatic
<1>7. U.blocked \in BOOLEAN /\ U.tw \in BOOLEAN
  BY DEF TaskRec
<1>8. Alone(U, t)
  BY <1>2, <1>4, <1>6 DEF Alone
<1>9. \A c \in Explicit \ {t} : SameQ(S.task[c], R.task[c])
  BY <1>1, <1>3 DEF SameQ
<1>10. SameImplicit(S, R)
  BY <1>1, <1>3, SchedAssumption DEF SameImplicit
<1>11. Counted(R)
  <2>1. QueuedIn(R) = QueuedIn(S)
    BY <1>1, <1>2, <1>3 DEF QueuedIn
  <2> QED
    BY <1>3, <2>1 DEF Counted, InStep
<1>12. ASSUME Children(R, t) = Children(S, t)
       PROVE  Reason(R, t)
  <2>1. IsBlockedTied(R, t) <=> IsBlockedTied(S, t)
    BY <1>12 DEF IsBlockedTied
  <2>2. Held(R, t) <=> k \/ w
    BY <1>3, <1>6, <2>1 DEF Held
  <2> QED
    BY <1>3, <1>6, <1>7, <2>2 DEF Reason
<1>13. InStep(S, {t})
  BY DEF InStep
<1>14. ~Ready(R.task[t])
  BY <1>3, <1>6 DEF Ready
<1>15. InStep(R, {})
  <2>1. R.task[t].parent = T.parent /\ R.task[t].child = T.child
    BY <1>2, <1>3, <1>6
  <2>2. Alone(R.task[t], t) /\ R \in StateRec
    BY <1>3, <1>8
  <2> QED
    BY <1>4, <1>9, <1>10, <1>11, <1>12, <1>13, <1>14, <2>1, <2>2, OneInStep
<1> QED
  BY <1>2, <1>3, <1>15 DEF R

(* Suspending a tied task keeps the queues in step.                        *)
LEMMA SuspendTiedInStep ==
  ASSUME NEW S, NEW h \in Thread, NEW t \in Task, NEW n \in Task, NEW k \in BOOLEAN,
         InStep(S, {}), S.task[t].type = "TIED", n # t,
         S.task[t].kind \in {"IMPLICIT", "TIED"},
         k => S.task[t].pc = "contend"
  PROVE  LET R == SuspendTied(S, h, t, n, k) IN InStep(R, {}) /\ SuspEffect(S, R, h, t, n, k)
<1> DEFINE T == S.task[t]
           S1 == InsertTied(OnTop(S, t, n), h, t, n)
           w == T.tw /\ IsBlockedTied(S, t)
           S2 == IF T.kind = "IMPLICIT" THEN S1 ELSE ParkTied(S1, h, t, w, k)
           R == [S2 EXCEPT !.thr[h].task = n]
<1>1. S \in StateRec /\ Explicit \subseteq Task /\ Thread \subseteq Task /\ T \in TaskRec
  BY DEF InStep, Task, StateRec
<1>2. SuspendTied(S, h, t, n, k) = R
  BY DEF SuspendTied
<1>3. /\ InStep(S1, {}) /\ S1.team = S.team
      /\ \A g \in Thread : /\ S1.thr[g].task = S.thr[g].task
                           /\ g # h => S1.thr[g].last = S.thr[g].last
      /\ \A c \in Task : SameStatic(S.task[c], S1.task[c]) /\ SameQ(S.task[c], S1.task[c])
      /\ PushLinks(S, S1, t, n) /\ Inserted(S, S1, h, t, n)
  BY PushInStep
<1> HIDE DEF S1
<1>4. \A p : Children(S1, p) = Children(S, p)
  BY <1>1, <1>3 DEF Children, SameQ
<1>5. /\ InStep(S2, {}) /\ S2.team = S.team /\ S2.thr = S1.thr
      /\ \A c \in Task \ {t} : S2.task[c] = S1.task[c]
      /\ S2.task[t].kind = SuspKind(T)
      /\ S2.task[t].susp = IF T.kind # "IMPLICIT" THEN h ELSE T.susp
      /\ SameStatic(T, S2.task[t]) /\ S2.task[t].child = T.child
      /\ (~k => S2.task[t].lq = T.lq)
      /\ S2.task[t].to = S1.task[t].to /\ S2.task[t].from = S1.task[t].from
      /\ S2.task[t].prev = S1.task[t].prev /\ S2.task[t].next = S1.task[t].next
  <2>1. SameStatic(T, S1.task[t]) /\ SameQ(T, S1.task[t])
    BY <1>3
  <2>2. CASE T.kind = "IMPLICIT"
    <3>1. S2 = S1
      BY <2>2
    <3> QED
      BY <1>3, <2>1, <2>2, <3>1 DEF SameQ, SuspKind
  <2>3. CASE T.kind # "IMPLICIT"
    <3>1. t \in Explicit /\ T.kind = "TIED"
      BY <2>3 DEF InStep, Task
    <3>2. PICK v \in BOOLEAN : v <=> w
      OBVIOUS
    <3>3. v = w
      BY <1>1, <3>2 DEF TaskRec, IsBlockedTied
    <3>4. S2 = ParkTied(S1, h, t, v, k)
      BY <2>3, <3>3
    <3>5. /\ S1.task[t].kind = "TIED" /\ S1.task[t].type = "TIED"
          /\ v <=> S1.task[t].tw /\ IsBlockedTied(S1, t)
          /\ k => S1.task[t].pc = "contend"
      BY <1>4, <2>1, <3>1, <3>2 DEF SameQ, IsBlockedTied
    <3>6. /\ InStep(S2, {}) /\ S2.team = S1.team /\ S2.thr = S1.thr
          /\ \A c \in Task \ {t} : S2.task[c] = S1.task[c]
          /\ Parked(S1.task[t], S2.task[t], h, v, k, "TIED_SUSPENDED")
          /\ S2.task[t].child = S1.task[t].child
      BY <1>3, <3>1, <3>4, <3>5, ParkTiedInStep
    <3> HIDE DEF S2
    <3>7. /\ S2.task[t].kind = "TIED_SUSPENDED" /\ S2.task[t].susp = h
          /\ SameStatic(S1.task[t], S2.task[t])
          /\ S2.task[t].to = S1.task[t].to /\ S2.task[t].from = S1.task[t].from
          /\ S2.task[t].prev = S1.task[t].prev /\ S2.task[t].next = S1.task[t].next
      BY <3>6 DEF Parked
    <3>8. /\ SameStatic(T, S2.task[t]) /\ S2.task[t].child = T.child
          /\ (~k => S2.task[t].lq = T.lq)
      BY <2>1, <3>6, <3>7 DEF SameStatic, SameQ, Parked
    <3>9. SuspKind(T) = "TIED_SUSPENDED"
      BY <2>3 DEF SuspKind
    <3> QED
      BY <1>3, <2>3, <3>6, <3>7, <3>8, <3>9
  <2> QED
    BY <2>2, <2>3
<1> HIDE DEF S2
<1>6. /\ R \in StateRec /\ R.task = S2.task /\ R.team = S2.team
      /\ \A g \in Thread : R.thr[g].last = S2.thr[g].last
      /\ \A g \in Thread : R.thr[g].task = IF g = h THEN n ELSE S2.thr[g].task
  <2>1. S2 \in StateRec
    BY <1>5 DEF InStep
  <2> QED
    BY <2>1, SetCurrent
<1>7. InStep(R, {})
  BY <1>5, CurrentInStep
<1> HIDE DEF R
<1>8. \A c \in Task : SuspRec(S, R, h, t, k, c)
  <2> SUFFICES ASSUME NEW c \in Task PROVE SuspRec(S, R, h, t, k, c)
    OBVIOUS
  <2>1. CASE c = t
    BY <1>5, <1>6, <2>1 DEF SuspRec
  <2>2. CASE c # t
    <3>1. R.task[c] = S1.task[c] /\ SameStatic(S.task[c], S1.task[c]) /\ SameQ(S.task[c], S1.task[c])
      BY <1>3, <1>5, <1>6, <2>2
    <3> QED
      BY <2>2, <3>1 DEF SuspRec, SameQ
  <2> QED
    BY <2>1, <2>2
<1>9. ASSUME NEW c \in Task
      PROVE  /\ R.task[c].to = S1.task[c].to /\ R.task[c].from = S1.task[c].from
             /\ R.task[c].prev = S1.task[c].prev /\ R.task[c].next = S1.task[c].next
  BY <1>5, <1>6
<1>10. PushLinks(S, R, t, n)
  BY <1>3, <1>9 DEF PushLinks
<1>11. Inserted(S, R, h, t, n)
  <2>1. SameLists(S, S) /\ SameLists(S1, R) /\ R.thr[h].last = S1.thr[h].last
    BY <1>5, <1>6, <1>9 DEF SameLists
  <2> QED
    BY <1>3, <2>1, InsertedFrame
<1>12. SameTeam(S.team, R.team)
  BY <1>5, <1>6 DEF SameTeam
<1>13. SuspEffect(S, R, h, t, n, k)
  BY <1>3, <1>5, <1>6, <1>8, <1>10, <1>11, <1>12 DEF SuspEffect
<1> QED
  BY <1>2, <1>7, <1>13

(* An untied task that was running goes back to the queues: held back, or  *)
(* ready and counted.                                                      *)
LEMMA ParkUntiedInStep ==
  ASSUME NEW S, NEW h \in Thread, NEW t \in Explicit, NEW w \in BOOLEAN, NEW k \in BOOLEAN,
         InStep(S, {}), S.task[t].kind = "TIED", S.task[t].type = "UNTIED",
         S.task[t].parent # None => S.task[t].child # "out",
         w <=> S.task[t].tw /\ IsBlockedUntied(S, t),
         k => S.task[t].pc = "contend"
  PROVE  LET S1 == ParkUntied(S, h, t, w, k)
             R == IF w \/ k THEN S1 ELSE NotifyParent(Queued(S1), t)
         IN /\ InStep(R, {}) /\ Same(S1, R) /\ S1.team = S.team /\ S1.thr = S.thr
            /\ \A c \in Task \ {t} : S1.task[c] = S.task[c]
            /\ Parked(S.task[t], S1.task[t], h, w, k, "WAITING")
            /\ S1.task[t].child = "out" <=> S.task[t].child = "out"
<1> DEFINE T == S.task[t]
           S1 == ParkUntied(S, h, t, w, k)
           S2 == Queued(S1)
           R == IF w \/ k THEN S1 ELSE NotifyParent(S2, t)
<1>1. S \in StateRec /\ t \in Task /\ Explicit \subseteq Task /\ Thread \subseteq Task /\ T \in TaskRec
  BY DEF InStep, Task, StateRec
<1>2. /\ T.tq = "out" /\ T.sq = "out" /\ T.lq = "out" /\ T.child # "blocked" /\ ~Ready(T)
      /\ (T.child # "out" => T.parent # None) /\ (T.parent \in Explicit => T.parent < t)
      /\ (T.tw => T.pc \in {"wait", "poll", "try"})
  BY RunningQueues
<1>3. T.parent # None => T.child = "list"
  BY <1>1, <1>2 DEF TaskRec, Places
<1>4. PICK U \in TaskRec :
           /\ S1 = [S EXCEPT !.task[t] = U]
           /\ Parked(T, U, h, w, k, "WAITING")
           /\ U.tq = ListOf(w \/ k)
           /\ U.child = IF T.parent # None THEN ListOf(w \/ k) ELSE T.child
  BY <1>1, <1>3, ParkUntiedEffect
<1> HIDE DEF S1
<1>5. S1 \in StateRec /\ S1.thr = S.thr /\ S1.team = S.team /\ S1.task[t] = U
      /\ \A c \in Task \ {t} : S1.task[c] = S.task[c]
  BY <1>1, <1>4, SetTask
<1>6. ~(w /\ k)
  BY <1>2
<1>7. /\ U.kind = "WAITING" /\ U.susp = h /\ U.blocked = (w \/ k) /\ U.sq = ListOf(w \/ k)
      /\ U.lq = (IF k THEN "list" ELSE "out") /\ U.type = "UNTIED" /\ U.parent = T.parent
      /\ U.tw = T.tw /\ U.pc = T.pc /\ h # None
  <2>1. h # None
    BY SchedAssumption DEF Task
  <2> QED
    BY <1>2, <1>4, <1>6, <2>1 DEF Parked, SameStatic
<1>8. U.blocked \in BOOLEAN /\ U.tw \in BOOLEAN
  BY DEF TaskRec
<1>9. U.child = "out" <=> T.child = "out"
  BY <1>3, <1>4 DEF ListOf
<1>10. Alone(U, t)
  BY <1>2, <1>4, <1>7, <1>9 DEF Alone
<1>11. \A Q \in StateRec :
         Q.task[t] = U /\ Children(Q, t) = Children(S, t) /\ ReadyKids(Q, t) = ReadyKids(S, t)
           => Reason(Q, t)
  <2> SUFFICES ASSUME NEW Q \in StateRec, Q.task[t] = U, Children(Q, t) = Children(S, t),
                      ReadyKids(Q, t) = ReadyKids(S, t)
               PROVE  Reason(Q, t)
    OBVIOUS
  <2>1. IsBlockedUntied(Q, t) <=> IsBlockedUntied(S, t)
    BY BlockedUntied
  <2>2. Held(Q, t) <=> k \/ w
    BY <1>7, <2>1 DEF Held
  <2> QED
    BY <1>7, <1>8, <2>2 DEF Reason
<1>12. InStep(S, {t})
  BY DEF InStep
<1>13. InStep(R, {}) /\ Same(S1, R)
  <2>1. CASE w \/ k
    <3>1. R = S1
      BY <2>1
    <3>2. U.tq = "blocked" /\ ~Ready(U)
      BY <1>3, <1>4, <1>7, <2>1, <1>2 DEF ListOf, Ready
    <3>3. \A c \in Explicit \ {t} : SameQ(S.task[c], S1.task[c])
      BY <1>1, <1>5 DEF SameQ
    <3>4. SameImplicit(S, S1)
      BY <1>1, <1>5, SchedAssumption DEF SameImplicit
    <3>5. Counted(S1)
      <4>1. QueuedIn(S1) = QueuedIn(S)
        BY <1>1, <1>2, <1>5, <3>2 DEF QueuedIn
      <4> QED
        BY <1>5, <4>1 DEF Counted, InStep
    <3>6. /\ S1.task[t].parent = T.parent /\ (S1.task[t].child = "out" <=> T.child = "out")
          /\ Alone(S1.task[t], t) /\ ~Ready(S1.task[t])
      BY <1>5, <1>7, <1>9, <1>10, <3>2
    <3>7. Children(S1, t) = Children(S, t) /\ ReadyKids(S1, t) = ReadyKids(S, t) => Reason(S1, t)
      BY <1>5, <1>11
    <3>8. InStep(S1, {})
      BY <1>2, <1>5, <1>12, <3>3, <3>4, <3>5, <3>6, <3>7, OneInStep
    <3> QED
      BY <1>5, <3>1, <3>8, SameItself
  <2>2. CASE ~(w \/ k)
    <3>1. PICK V \in TeamRec :
            /\ S2 = [S1 EXCEPT !.team = V]
            /\ V.queued = S1.team.queued + 1 /\ V.pending /\ SameTeam(S1.team, V)
      BY <1>5, QueuedEffect
    <3>2. R = NotifyParent(S2, t)
      BY <2>2
    <3> HIDE DEF S2, R
    <3>3. S2 \in StateRec /\ S2.thr = S1.thr /\ S2.team = V /\ S2.task = S1.task
      BY <1>5, <3>1, SetTeam
    <3>4. U.tq = "list"
      BY <1>4, <2>2 DEF ListOf
    <3>5. \A c \in Explicit \ {t} : SameQ(S.task[c], S2.task[c])
      BY <1>1, <1>5, <3>3 DEF SameQ
    <3>6. SameImplicit(S, S2)
      BY <1>1, <1>5, <3>3, SchedAssumption DEF SameImplicit
    <3>7. Counted(S2)
      <4>1. \A c \in Explicit \ {t} : S2.task[c].tq = S.task[c].tq
        BY <3>5 DEF SameQ
      <4>2. S2.task[t].tq = "list" /\ S.task[t].tq # "list"
        BY <1>2, <1>5, <3>3, <3>4
      <4>3. /\ Cardinality(QueuedIn(S2)) = Cardinality(QueuedIn(S)) + 1
            /\ Cardinality(QueuedIn(S)) \in Nat
        BY <1>1, <3>3, <4>1, <4>2, QueuedChange
      <4>4. S.team.queued = Cardinality(QueuedIn(S))
        BY DEF InStep, Counted
      <4> PICK q \in Nat : q = S.team.queued
        BY <4>3, <4>4
      <4>5. V.queued = q + 1 /\ V.pending
        BY <1>5, <3>1
      <4>6. V.queued > 0
        BY <4>5
      <4> QED
        BY <3>3, <4>3, <4>4, <4>5, <4>6 DEF Counted
    <3>8. /\ S2.task[t].parent = T.parent /\ (S2.task[t].child = "out" <=> T.child = "out")
          /\ Alone(S2.task[t], t)
      BY <1>5, <1>7, <1>9, <1>10, <3>3
    <3>9. Children(S2, t) = Children(S, t) /\ ReadyKids(S2, t) = ReadyKids(S, t) => Reason(S2, t)
      BY <1>5, <1>11, <3>3
    <3>10. InStep(S2, {WaitingParent(S2, t)})
      BY <1>12, <3>3, <3>5, <3>6, <3>7, <3>8, <3>9, OneInStep
    <3>11. InStep(R, {}) /\ Same(S2, R)
      BY <3>2, <3>10, NotifyParentInStep
    <3>12. Same(S1, S2)
      BY <1>5, <3>1, <3>3 DEF Same, SameRec, SameFixed, SameStatic
    <3> QED
      BY <3>11, <3>12, SameTransitive
  <2> QED
    BY <2>1, <2>2
<1> HIDE DEF R
<1> QED
  BY <1>4, <1>5, <1>9, <1>13 DEF R, S1

(* Suspending an untied task keeps the queues in step.                     *)
LEMMA SuspendUntiedInStep ==
  ASSUME NEW S, NEW h \in Thread, NEW t \in Task, NEW n \in Task, NEW k \in BOOLEAN,
         InStep(S, {}), S.task[t].type = "UNTIED", n # t, S.task[t].to \in Task,
         S.task[t].kind = "TIED",
         S.task[t].parent # None => S.task[t].child # "out",
         k => S.task[t].pc = "contend"
  PROVE  LET R == SuspendUntied(S, h, t, n, k) IN InStep(R, {}) /\ SuspEffect(S, R, h, t, n, k)
<1> DEFINE T == S.task[t]
           S1 == InsertTied(InPlace(S, t, n), h, t, n)
           w == T.tw /\ IsBlockedUntied(S, t)
           S2 == ParkUntied(S1, h, t, w, k)
           S3 == IF w \/ k THEN S2 ELSE NotifyParent(Queued(S2), t)
           R == [S3 EXCEPT !.thr[h].task = n]
<1>1. S \in StateRec /\ Explicit \subseteq Task /\ Thread \subseteq Task /\ T \in TaskRec
  BY DEF InStep, Task, StateRec
<1>2. SuspendUntied(S, h, t, n, k) = R
  BY DEF SuspendUntied
<1>3. t \in Explicit
  BY DEF InStep, Task
<1>4. /\ InStep(S1, {}) /\ S1.team = S.team
      /\ \A g \in Thread : /\ S1.thr[g].task = S.thr[g].task
                           /\ g # h => S1.thr[g].last = S.thr[g].last
      /\ \A c \in Task : SameStatic(S.task[c], S1.task[c]) /\ SameQ(S.task[c], S1.task[c])
      /\ PlaceLinks(S, S1, t, n) /\ Inserted(S, S1, h, t, n)
  BY PlaceInStep
<1> HIDE DEF S1
<1>5. \A p : Children(S1, p) = Children(S, p)
  BY <1>1, <1>4 DEF Children, SameQ
<1>6. \A p : ReadyKids(S1, p) = ReadyKids(S, p)
  <2> SUFFICES ASSUME NEW p PROVE ReadyKids(S1, p) = ReadyKids(S, p)
    OBVIOUS
  <2>1. \A c \in Children(S, p) : S1.task[c].kind = S.task[c].kind /\ S1.task[c].child = S.task[c].child
    BY <1>1, <1>4 DEF Children, SameQ
  <2> QED
    BY <1>5, <2>1 DEF ReadyKids
<1>7. PICK v \in BOOLEAN : v <=> w
  OBVIOUS
<1>8. v = w
  BY <1>1, <1>7 DEF TaskRec, IsBlockedUntied
<1>9. /\ S1.task[t].kind = "TIED" /\ S1.task[t].type = "UNTIED"
      /\ S1.task[t].parent # None => S1.task[t].child # "out"
      /\ v <=> S1.task[t].tw /\ IsBlockedUntied(S1, t)
      /\ k => S1.task[t].pc = "contend"
  <2>1. SameQ(T, S1.task[t])
    BY <1>4
  <2>2. IsBlockedUntied(S1, t) <=> IsBlockedUntied(S, t)
    BY <1>5, <1>6, BlockedUntied
  <2> QED
    BY <1>7, <2>1, <2>2 DEF SameQ
<1>10. S2 = ParkUntied(S1, h, t, v, k) /\ S3 = IF v \/ k THEN S2 ELSE NotifyParent(Queued(S2), t)
  BY <1>8
<1>11. /\ InStep(S3, {}) /\ Same(S2, S3) /\ S2.team = S1.team /\ S2.thr = S1.thr
       /\ \A c \in Task \ {t} : S2.task[c] = S1.task[c]
       /\ Parked(S1.task[t], S2.task[t], h, v, k, "WAITING")
       /\ S2.task[t].child = "out" <=> S1.task[t].child = "out"
  BY <1>3, <1>4, <1>9, <1>10, ParkUntiedInStep
<1> HIDE DEF S2, S3, w
<1>12. /\ R \in StateRec /\ R.task = S3.task /\ R.team = S3.team
       /\ \A g \in Thread : R.thr[g].last = S3.thr[g].last
       /\ \A g \in Thread : R.thr[g].task = IF g = h THEN n ELSE S3.thr[g].task
  <2>1. S3 \in StateRec
    BY <1>11 DEF InStep
  <2> QED
    BY <2>1, SetCurrent
<1>13. InStep(R, {})
  BY <1>11, CurrentInStep
<1> HIDE DEF R
<1>14. ASSUME NEW c \in Task
       PROVE  /\ SameStatic(S.task[c], R.task[c])
              /\ (S.task[c].child = "out" <=> R.task[c].child = "out")
              /\ R.task[c].kind = S2.task[c].kind /\ R.task[c].susp = S2.task[c].susp
              /\ R.task[c].lq = S2.task[c].lq
              /\ R.task[c].to = S1.task[c].to /\ R.task[c].from = S1.task[c].from
              /\ R.task[c].prev = S1.task[c].prev /\ R.task[c].next = S1.task[c].next
  <2>1. SameRec(S2.task[c], R.task[c]) \/ R.task[c] = S2.task[c]
    BY <1>11, <1>12 DEF Same, Task
  <2>2. SameStatic(S.task[c], S1.task[c]) /\ SameQ(S.task[c], S1.task[c])
    BY <1>4
  <2>3. /\ SameStatic(S1.task[c], S2.task[c])
        /\ (S1.task[c].child = "out" <=> S2.task[c].child = "out")
        /\ S2.task[c].to = S1.task[c].to /\ S2.task[c].from = S1.task[c].from
        /\ S2.task[c].prev = S1.task[c].prev /\ S2.task[c].next = S1.task[c].next
    BY <1>11 DEF Parked, SameStatic
  <2> QED
    BY <2>1, <2>2, <2>3 DEF SameRec, SameFixed, SameStatic, SameQ
<1>15. \A c \in Task : SuspRec(S, R, h, t, k, c)
  <2> SUFFICES ASSUME NEW c \in Task PROVE SuspRec(S, R, h, t, k, c)
    OBVIOUS
  <2>1. CASE c = t
    <3>1. SuspKind(T) = "WAITING" /\ T.kind # "IMPLICIT"
      BY DEF SuspKind
    <3>2. ~k => S2.task[t].lq = T.lq
      <4>1. SameQ(T, S1.task[t])
        BY <1>4
      <4> QED
        BY <1>11, <4>1 DEF Parked, SameQ
    <3> QED
      BY <1>11, <1>14, <2>1, <3>1, <3>2 DEF SuspRec, Parked
  <2>2. CASE c # t
    <3>1. S2.task[c] = S1.task[c] /\ SameQ(S.task[c], S1.task[c])
      BY <1>4, <1>11, <2>2
    <3> QED
      BY <1>14, <2>2, <3>1 DEF SuspRec, SameQ
  <2> QED
    BY <2>1, <2>2
<1>16. PlaceLinks(S, R, t, n)
  BY <1>4, <1>14 DEF PlaceLinks
<1>17. S3.thr = S1.thr /\ SameTeam(S.team, R.team)
  BY <1>4, <1>11, <1>12 DEF Same
<1>18. Inserted(S, R, h, t, n)
  <2>1. SameLists(S, S) /\ SameLists(S1, R) /\ R.thr[h].last = S1.thr[h].last
    BY <1>12, <1>14, <1>17 DEF SameLists
  <2> QED
    BY <1>4, <2>1, InsertedFrame
<1>19. SuspEffect(S, R, h, t, n, k)
  BY <1>4, <1>12, <1>15, <1>16, <1>17, <1>18 DEF SuspEffect
<1> QED
  BY <1>2, <1>13, <1>19

(* So suspending any task does.                                            *)
LEMMA SuspendInStep ==
  ASSUME NEW S, NEW h \in Thread, NEW t \in Task, NEW n \in Task, NEW k \in BOOLEAN,
         InStep(S, {}), n # t, S.task[t].kind \in {"IMPLICIT", "TIED"},
         S.task[t].type = "UNTIED" => S.task[t].to \in Task,
         S.task[t].parent # None => S.task[t].child # "out",
         k => S.task[t].pc = "contend"
  PROVE  LET R == Suspend(S, h, t, n, k) IN InStep(R, {}) /\ SuspEffect(S, R, h, t, n, k)
<1>1. S.task[t].type \in {"TIED", "UNTIED"}
  BY DEF InStep, StateRec, TaskRec
<1>2. CASE S.task[t].type = "TIED"
  <2>1. Suspend(S, h, t, n, k) = SuspendTied(S, h, t, n, k)
    BY <1>2 DEF Suspend
  <2> QED
    BY <1>2, <2>1, SuspendTiedInStep
<1>3. CASE S.task[t].type = "UNTIED"
  <2>1. Suspend(S, h, t, n, k) = SuspendUntied(S, h, t, n, k)
    BY <1>3 DEF Suspend
  <2>2. S.task[t].kind = "TIED"
    BY <1>3 DEF InStep, Alone, Task
  <2> QED
    BY <1>3, <2>1, <2>2, SuspendUntiedInStep
<1> QED
  BY <1>1, <1>2, <1>3

(* Only what the task does next changes: pc, done, the taskwait flag.      *)
SameButRun(T, U) ==
  /\ T.kind = U.kind /\ T.type = U.type /\ T.prio = U.prio /\ T.parent = U.parent
  /\ T.asc = U.asc /\ T.susp = U.susp /\ T.blocked = U.blocked /\ T.inTied = U.inTied
  /\ T.child = U.child /\ T.tq = U.tq /\ T.sq = U.sq /\ T.lq = U.lq
  /\ T.to = U.to /\ T.from = U.from /\ T.prev = U.prev /\ T.next = U.next
  /\ T.creators = U.creators

(* t goes on, and may take or release the lock of the critical section.    *)
RunStep(S, R, t) ==
  /\ R \in StateRec /\ R.thr = S.thr
  /\ \A c \in Task \ {t} : R.task[c] = S.task[c]
  /\ SameButRun(S.task[t], R.task[t])
  /\ R.team.count = S.team.count /\ R.team.running = S.team.running
  /\ R.team.queued = S.team.queued /\ R.team.pending = S.team.pending
  /\ R.team.arrived = S.team.arrived /\ R.team.waiting = S.team.waiting
  /\ R.team.over = S.team.over /\ R.team.fault = S.team.fault

(* The assignments to those fields.                                        *)
LEMMA GotoEffect ==
  ASSUME NEW S \in StateRec, NEW t \in Task, NEW l \in Labels
  PROVE  LET R == Goto(S, t, l)
         IN /\ RunStep(S, R, t) /\ R.team = S.team /\ R.task[t].pc = l
            /\ R.task[t].tw = S.task[t].tw /\ R.task[t].done = S.task[t].done
<1> DEFINE U == [S.task[t] EXCEPT !.pc = l]
           R == [S EXCEPT !.task[t] = U]
<1>1. S.task[t] \in TaskRec
  BY DEF StateRec
<1>2. U \in TaskRec
  BY <1>1 DEF TaskRec
<1>3. /\ SameButRun(S.task[t], U) /\ U.pc = l /\ U.tw = S.task[t].tw
      /\ U.done = S.task[t].done
  BY <1>1 DEF TaskRec, SameButRun
<1>4. Goto(S, t, l) = R
  BY DEF Goto, StateRec
<1> HIDE DEF U
<1>5. R \in StateRec /\ R.thr = S.thr /\ R.team = S.team /\ R.task[t] = U
      /\ \A c \in Task \ {t} : R.task[c] = S.task[c]
  BY <1>2, SetTask
<1> HIDE DEF R
<1> QED
  BY <1>3, <1>4, <1>5 DEF RunStep

(* The same for the taskwait flag ...                                      *)
LEMMA TwEffect ==
  ASSUME NEW S \in StateRec, NEW t \in Task, NEW b \in BOOLEAN
  PROVE  LET R == [S EXCEPT !.task[t].tw = b]
         IN /\ RunStep(S, R, t) /\ R.team = S.team /\ R.task[t].pc = S.task[t].pc
            /\ R.task[t].tw = b /\ R.task[t].done = S.task[t].done
<1> DEFINE U == [S.task[t] EXCEPT !.tw = b]
           R == [S EXCEPT !.task[t] = U]
<1>1. S.task[t] \in TaskRec
  BY DEF StateRec
<1>2. U \in TaskRec
  BY <1>1 DEF TaskRec
<1>3. /\ SameButRun(S.task[t], U) /\ U.pc = S.task[t].pc /\ U.tw = b
      /\ U.done = S.task[t].done
  BY <1>1 DEF TaskRec, SameButRun
<1>4. [S EXCEPT !.task[t].tw = b] = R
  BY DEF StateRec
<1> HIDE DEF U
<1>5. R \in StateRec /\ R.thr = S.thr /\ R.team = S.team /\ R.task[t] = U
      /\ \A c \in Task \ {t} : R.task[c] = S.task[c]
  BY <1>2, SetTask
<1> HIDE DEF R
<1> QED
  BY <1>3, <1>4, <1>5 DEF RunStep

(* ... for what the task has done ...                                      *)
LEMMA OnceEffect ==
  ASSUME NEW S \in StateRec, NEW t \in Task, NEW op \in AllOps
  PROVE  LET R == Once(S, t, op)
         IN /\ RunStep(S, R, t) /\ R.team = S.team /\ R.task[t].pc = S.task[t].pc
            /\ R.task[t].tw = S.task[t].tw /\ R.task[t].done = S.task[t].done \cup {op}
<1>0. PICK d \in SUBSET AllOps : d = S.task[t].done \cup {op}
  BY DEF StateRec, TaskRec
<1> DEFINE U == [S.task[t] EXCEPT !.done = d]
           R == [S EXCEPT !.task[t] = U]
<1>1. S.task[t] \in TaskRec
  BY DEF StateRec
<1>2. U \in TaskRec
  BY <1>1 DEF TaskRec
<1>3. /\ SameButRun(S.task[t], U) /\ U.pc = S.task[t].pc /\ U.tw = S.task[t].tw
      /\ U.done = d
  BY <1>1 DEF TaskRec, SameButRun
<1>4. Once(S, t, op) = R
  <2>1. Once(S, t, op) = [S EXCEPT !.task[t].done = d]
    BY <1>0, Zenon DEF Once
  <2> QED
    BY <2>1 DEF StateRec
<1> HIDE DEF U
<1>5. R \in StateRec /\ R.thr = S.thr /\ R.team = S.team /\ R.task[t] = U
      /\ \A c \in Task \ {t} : R.task[c] = S.task[c]
  BY <1>2, SetTask
<1> HIDE DEF R
<1> QED
  BY <1>0, <1>3, <1>4, <1>5 DEF RunStep

(* ... and for the lock of the critical section.                           *)
LEMMA LockEffect ==
  ASSUME NEW S \in StateRec, NEW t \in Task, NEW v \in MaybeTask
  PROVE  LET R == [S EXCEPT !.team.lock = v]
         IN RunStep(S, R, t) /\ R.task = S.task /\ R.team.lock = v
<1> DEFINE V == [S.team EXCEPT !.lock = v]
           R == [S EXCEPT !.team = V]
<1>1. V \in TeamRec
  BY DEF StateRec, TeamRec
<1>2. /\ V.count = S.team.count /\ V.running = S.team.running
      /\ V.queued = S.team.queued /\ V.pending = S.team.pending
      /\ V.arrived = S.team.arrived /\ V.waiting = S.team.waiting
      /\ V.over = S.team.over /\ V.fault = S.team.fault /\ V.lock = v
  BY DEF StateRec, TeamRec
<1>3. [S EXCEPT !.team.lock = v] = R
  BY DEF StateRec
<1> HIDE DEF V
<1>4. R \in StateRec /\ R.thr = S.thr /\ R.team = V /\ R.task = S.task
  BY <1>1, SetTeam
<1>5. SameButRun(S.task[t], S.task[t])
  BY DEF SameButRun
<1> HIDE DEF R
<1> QED
  BY <1>2, <1>3, <1>4, <1>5 DEF RunStep

(* Two such assignments in a row.                                          *)
LEMMA RunStepTwice ==
  ASSUME NEW S, NEW R, NEW Q, NEW t, RunStep(S, R, t), RunStep(R, Q, t)
  PROVE  RunStep(S, Q, t)
BY DEF RunStep, SameButRun

(* The queues do not depend on what a running task does next.              *)
LEMMA RunInStep ==
  ASSUME NEW S, NEW R, NEW t \in Task, InStep(S, {}), RunStep(S, R, t),
         S.task[t].kind \in {"IMPLICIT", "TIED"},
         R.task[t].tw => R.task[t].pc \in {"wait", "poll", "try"}
  PROVE  InStep(R, {})
<1>1. S \in StateRec /\ R \in StateRec /\ Explicit \subseteq Task /\ Thread \subseteq Task
  BY DEF InStep, RunStep, Task
<1>2. SameImplicit(S, R)
  <2> SUFFICES ASSUME NEW h \in Thread
               PROVE  /\ S.task[h].kind = R.task[h].kind /\ S.task[h].type = R.task[h].type
                      /\ S.task[h].parent = R.task[h].parent
    BY DEF SameImplicit
  <2> QED
    BY <1>1 DEF RunStep, SameButRun
<1>3. \A c \in Explicit \ {t} : SameQ(S.task[c], R.task[c])
  BY <1>1 DEF RunStep, SameQ
<1>4. R.team.queued = S.team.queued /\ R.team.pending = S.team.pending
  BY DEF RunStep
<1>5. CASE t \in Thread
  <2>1. t \notin Explicit
    BY <1>5, SchedAssumption
  <2> QED
    BY <1>1, <1>2, <1>3, <1>4, <2>1, InStepFrame
<1>6. CASE t \in Explicit
  <2>1. SameButRun(S.task[t], R.task[t])
    BY DEF RunStep
  <2>2. S.task[t].kind = "TIED"
    BY <1>6 DEF InStep, Alone
  <2>3. Alone(R.task[t], t)
    <3>1. Alone(S.task[t], t)
      BY <1>6 DEF InStep
    <3> QED
      BY <2>1, <2>2, <3>1 DEF Alone, SameButRun
  <2>4. Counted(R)
    <3>1. QueuedIn(R) = QueuedIn(S)
      BY <1>3, <2>1 DEF QueuedIn, SameQ, SameButRun
    <3> QED
      BY <1>4, <3>1 DEF Counted, InStep
  <2>5. Reason(R, t)
    BY <2>1, <2>2 DEF Reason, SameButRun
  <2>6. /\ R.task[t].parent = S.task[t].parent /\ R.task[t].child = S.task[t].child
        /\ Ready(R.task[t]) <=> Ready(S.task[t])
    BY <2>1 DEF SameButRun, Ready
  <2>7. InStep(S, {t})
    BY DEF InStep
  <2> QED
    BY <1>1, <1>2, <1>3, <1>6, <2>3, <2>4, <2>5, <2>6, <2>7, OneInStep
<1> QED
  BY <1>5, <1>6 DEF Task
-----------------------------------------------------------------------------
(* A sleeping thread may wake up, nothing else changes.                    *)
Awoken(T, U) ==
  \/ T = U
  \/ /\ T.pc = "bsleep" /\ U.pc = "bwait" /\ SameButRun(T, U)
     /\ T.done = U.done /\ T.tw = U.tw

(* What gomp_team_barrier_wake changes.                                    *)
WakeEffect(S, R) ==
  /\ R \in StateRec /\ R.thr = S.thr /\ R.team = S.team
  /\ \A c \in Explicit : R.task[c] = S.task[c]
  /\ \A h \in Thread : Awoken(S.task[h], R.task[h])

(* Waking a thread keeps the queues in step.                               *)
LEMMA WakeOneInStep ==
  ASSUME NEW S, InStep(S, {}), NEW t, NEW R \in WakeOne(S, t)
  PROVE  InStep(R, {}) /\ WakeEffect(S, R)
<1>1. S \in StateRec /\ Explicit \subseteq Task /\ Thread \subseteq Task
  BY DEF InStep, Task
<1>2. CASE R = S
  BY <1>1, <1>2 DEF WakeEffect, Awoken
<1>3. CASE R # S
  <2>1. PICK g \in Thread : S.task[g].pc = "bsleep" /\ R = [S EXCEPT !.task[g].pc = "bwait"]
    BY <1>3 DEF WakeOne
  <2>2. R = Goto(S, g, "bwait") /\ "bwait" \in Labels /\ g \in Task
    BY <1>1, <2>1 DEF Goto, Labels
  <2>3. /\ RunStep(S, R, g) /\ R.team = S.team /\ R.task[g].pc = "bwait"
        /\ R.task[g].tw = S.task[g].tw /\ R.task[g].done = S.task[g].done
    BY <1>1, <2>2, GotoEffect
  <2>4. WakeEffect(S, R)
    <3>1. R \in StateRec /\ R.thr = S.thr
      BY <2>3 DEF RunStep
    <3>2. \A c \in Explicit : R.task[c] = S.task[c]
      BY <1>1, <2>3, SchedAssumption DEF RunStep
    <3>3. \A h \in Thread : Awoken(S.task[h], R.task[h])
      BY <1>1, <2>1, <2>3 DEF RunStep, Awoken
    <3> QED
      BY <2>3, <3>1, <3>2, <3>3 DEF WakeEffect
  <2>5. \A c \in Explicit : SameQ(S.task[c], R.task[c])
    BY <2>4 DEF WakeEffect, SameQ
  <2>6. SameImplicit(S, R)
    BY <2>4 DEF WakeEffect, SameImplicit, Awoken, SameButRun
  <2>7. R \in StateRec /\ R.team = S.team
    BY <2>4 DEF WakeEffect
  <2> QED
    BY <2>4, <2>5, <2>6, <2>7, InStepFrame
<1> QED
  BY <1>2, <1>3

(* Thread h switches from t to n.                                          *)
SwitchEffect(S, R, h, t, n, k) ==
  \E S1, S2 : /\ InStep(S1, {}) /\ PreEffect(S, S1, n)
              /\ InStep(S2, {}) /\ SuspEffect(S1, S2, h, t, n, k)
              /\ WakeEffect(S2, R)

(* Every switch keeps the queues in step.                                  *)
LEMMA SwitchInStep ==
  ASSUME NEW S, NEW h \in Thread, NEW t \in Task, NEW n \in Explicit, NEW k \in BOOLEAN,
         InStep(S, {}), Pickable(S, n), S.task[t].kind \in {"IMPLICIT", "TIED"},
         S.task[t].type = "UNTIED" => S.task[t].to \in Task,
         S.task[n].kind = "TIED_SUSPENDED" => S.task[n].to \in Task,
         S.task[t].parent # None => S.task[t].child # "out",
         k => S.task[t].pc = "contend",
         NEW R \in Switch(S, h, t, n, k)
  PROVE  InStep(R, {}) /\ SwitchEffect(S, R, h, t, n, k)
<1> DEFINE S1 == RunPre(S, n)
           S2 == Suspend(S1, h, t, n, k)
<1>1. n # t /\ n \in Task
  BY DEF Pickable, Task
<1>2. InStep(S1, {}) /\ PreEffect(S, S1, n)
  BY RunPreInStep
<1>3. R = S2 \/ R \in WakeOne(S2, n)
  BY DEF Switch
<1> HIDE DEF S1
<1>4. /\ S1.task[t].kind = S.task[t].kind /\ SameStatic(S.task[t], S1.task[t])
      /\ (S.task[t].child = "out" <=> S1.task[t].child = "out")
      /\ S1.task[t].to = IF S.task[n].kind = "TIED_SUSPENDED" /\ t = S.task[n].from
                         THEN S.task[n].to ELSE S.task[t].to
  BY <1>1, <1>2 DEF PreEffect, PreRec
<1>5. /\ S1.task[t].type = "UNTIED" => S1.task[t].to \in Task
      /\ S1.task[t].parent # None => S1.task[t].child # "out"
      /\ k => S1.task[t].pc = "contend"
      /\ S1.task[t].kind \in {"IMPLICIT", "TIED"}
  BY <1>4 DEF SameStatic
<1>6. InStep(S2, {}) /\ SuspEffect(S1, S2, h, t, n, k)
  BY <1>1, <1>2, <1>5, SuspendInStep
<1> HIDE DEF S2
<1>7. InStep(R, {}) /\ WakeEffect(S2, R)
  <2>1. CASE R = S2
    BY <1>6, <2>1 DEF WakeEffect, Awoken, InStep
  <2>2. CASE R \in WakeOne(S2, n)
    BY <1>6, <2>2, WakeOneInStep
  <2> QED
    BY <1>3, <2>1, <2>2
<1> QED
  BY <1>2, <1>6, <1>7 DEF SwitchEffect

(* Moves in the queue of a critical section.                               *)
LqMoved(T, U, b) ==
  /\ U.lq = b /\ SameStatic(T, U) /\ U.kind = T.kind /\ U.susp = T.susp
  /\ U.blocked = T.blocked /\ U.child = T.child /\ U.tq = T.tq /\ U.sq = T.sq
  /\ U.to = T.to /\ U.from = T.from /\ U.prev = T.prev /\ U.next = T.next

(* A move in the queue of the critical section.                            *)
LEMMA MoveLq ==
  ASSUME NEW S \in StateRec, NEW t \in Task, NEW b \in Places, NEW a, S.task[t].lq = a
  PROVE  \E U \in TaskRec :
           /\ Move(S, t, "lq", a, b) = [S EXCEPT !.task[t] = U]
           /\ LqMoved(S.task[t], U, b)
<1> DEFINE U == [S.task[t] EXCEPT !.lq = b]
<1>1. S.task[t] \in TaskRec
  BY DEF StateRec
<1>2. U \in TaskRec
  BY <1>1, SetFields
<1>3. LqMoved(S.task[t], U, b)
  BY <1>1 DEF TaskRec, SameStatic, LqMoved
<1>4. Move(S, t, "lq", a, b) = [S EXCEPT !.task[t] = U]
  BY MoveEffect
<1> QED
  BY <1>2, <1>3, <1>4

(* The blocked flag is set.                                                *)
BlockedSet(T, U, b) ==
  /\ U.blocked = b /\ SameFixed(T, U)
  /\ U.child = T.child /\ U.tq = T.tq /\ U.sq = T.sq

(* The blocked flag is set.                                                *)
LEMMA SetBlocked ==
  ASSUME NEW S \in StateRec, NEW t \in Task, NEW b \in BOOLEAN
  PROVE  \E U \in TaskRec : /\ [S EXCEPT !.task[t].blocked = b] = [S EXCEPT !.task[t] = U]
                            /\ BlockedSet(S.task[t], U, b)
<1> DEFINE U == [S.task[t] EXCEPT !.blocked = b]
<1>1. S.task[t] \in TaskRec
  BY DEF StateRec
<1>2. U \in TaskRec
  BY <1>1 DEF TaskRec
<1>3. BlockedSet(S.task[t], U, b)
  BY <1>1 DEF TaskRec, SameFixed, SameStatic, BlockedSet
<1>4. [S EXCEPT !.task[t].blocked = b] = [S EXCEPT !.task[t] = U]
  BY DEF StateRec
<1> QED
  BY <1>2, <1>3, <1>4

(* All fields but those of the queues and the blocked flag.                *)
SameLq(T, U) ==
  /\ SameStatic(T, U) /\ T.kind = U.kind /\ T.susp = U.susp
  /\ T.to = U.to /\ T.from = U.from /\ T.prev = U.prev /\ T.next = U.next
  /\ (T.child = "out" <=> U.child = "out")

(* What gomp_task_handle_locking changes.                                  *)
UnlockEffect(S, R, c) ==
  /\ R \in StateRec /\ R.thr = S.thr /\ SameTeam(S.team, R.team)
  /\ \A d \in Task : /\ SameLq(S.task[d], R.task[d])
                     /\ R.task[d].lq = IF d = c THEN "out" ELSE S.task[d].lq

(* A tied task that left the queue of the critical section is ready.       *)
LEMMA HandleLockingTied ==
  ASSUME NEW S, NEW c \in Explicit, InStep(S, {}), S.task[c].lq = "list",
         S.task[c].type = "TIED"
  PROVE  LET R == HandleLocking(S, c) IN InStep(R, {}) /\ UnlockEffect(S, R, c)
<1> DEFINE C == S.task[c]
           S1 == Move(S, c, "lq", "list", "out")
           S2 == Move(S1, c, "sq", "blocked", "list")
           R == [S2 EXCEPT !.task[c].blocked = FALSE]
<1>1. S \in StateRec /\ c \in Task /\ Explicit \subseteq Task /\ Thread \subseteq Task
      /\ Alone(C, c) /\ C \in TaskRec /\ "out" \in Places /\ "list" \in Places
  BY DEF InStep, Task, StateRec, Places
<1>2. /\ C.blocked /\ C.pc = "contend" /\ C.kind = "TIED_SUSPENDED" /\ ~C.tw
      /\ C.sq = "blocked" /\ C.tq = "out" /\ C.child # "blocked" /\ C.susp # None
      /\ (C.child # "out" => C.parent # None) /\ (C.parent \in Explicit => C.parent < c)
  BY <1>1 DEF Alone, ListOf
<1>3. HandleLocking(S, c) = R
  BY DEF HandleLocking
<1>4. PICK T1 \in TaskRec : S1 = [S EXCEPT !.task[c] = T1] /\ LqMoved(C, T1, "out")
  BY <1>1, MoveLq
<1> HIDE DEF S1
<1>5. S1 \in StateRec /\ S1.thr = S.thr /\ S1.team = S.team /\ S1.task[c] = T1
      /\ \A t \in Task \ {c} : S1.task[t] = S.task[t]
  BY <1>1, <1>4, SetTask
<1>6. S1.task[c].sq = "blocked"
  BY <1>2, <1>4, <1>5 DEF LqMoved
<1>7. PICK T2 \in TaskRec : S2 = [S1 EXCEPT !.task[c] = T2] /\ SqMoved(T1, T2, "list")
  BY <1>1, <1>5, <1>6, MoveSq
<1> HIDE DEF S2
<1>8. S2 \in StateRec /\ S2.thr = S.thr /\ S2.team = S.team /\ S2.task[c] = T2
      /\ \A t \in Task \ {c} : S2.task[t] = S.task[t]
  BY <1>1, <1>5, <1>7, SetTask
<1>9. PICK U \in TaskRec : R = [S2 EXCEPT !.task[c] = U] /\ BlockedSet(T2, U, FALSE)
  BY <1>1, <1>8, SetBlocked
<1> HIDE DEF R
<1>10. R \in StateRec /\ R.thr = S.thr /\ R.team = S.team /\ R.task[c] = U
       /\ \A t \in Task \ {c} : R.task[t] = S.task[t]
  BY <1>1, <1>8, <1>9, SetTask
<1>11. /\ SameLq(C, U) /\ U.lq = "out" /\ U.blocked = FALSE /\ U.sq = "list"
       /\ U.tq = C.tq /\ U.child = C.child
  BY <1>4, <1>7, <1>9 DEF LqMoved, SqMoved, BlockedSet, SameFixed, SameStatic, SameLq
<1>12. Alone(U, c) /\ ~Ready(U) /\ ~Ready(C)
  BY <1>2, <1>11 DEF Alone, SameLq, SameStatic, ListOf, Ready
<1>13. Reason(R, c)
  BY <1>2, <1>10, <1>11 DEF Reason, Held, SameLq, SameStatic
<1>14. \A d \in Explicit \ {c} : SameQ(S.task[d], R.task[d])
  BY <1>1, <1>10 DEF SameQ
<1>15. SameImplicit(S, R)
  BY <1>1, <1>10, SchedAssumption DEF SameImplicit
<1>16. Counted(R)
  <2>1. QueuedIn(R) = QueuedIn(S)
    BY <1>1, <1>10, <1>11 DEF QueuedIn
  <2> QED
    BY <1>10, <2>1 DEF Counted, InStep
<1>17. InStep(S, {c})
  BY DEF InStep
<1>18. InStep(R, {})
  <2>1. R.task[c].parent = C.parent /\ R.task[c].child = C.child
    BY <1>10, <1>11 DEF SameLq, SameStatic
  <2> QED
    BY <1>10, <1>12, <1>13, <1>14, <1>15, <1>16, <1>17, <2>1, OneInStep
<1>19. UnlockEffect(S, R, c)
  <2>1. SameTeam(S.team, R.team)
    BY <1>10 DEF SameTeam
  <2>2. \A d \in Task : SameLq(S.task[d], R.task[d])
                     /\ R.task[d].lq = IF d = c THEN "out" ELSE S.task[d].lq
    BY <1>10, <1>11 DEF SameLq, SameStatic
  <2> QED
    BY <1>10, <2>1, <2>2 DEF UnlockEffect
<1> QED
  BY <1>3, <1>18, <1>19

(* An untied one is ready in all its queues, and counted.                  *)
LEMMA HandleLockingUntied ==
  ASSUME NEW S, NEW c \in Explicit, InStep(S, {}), S.task[c].lq = "list",
         S.task[c].type = "UNTIED"
  PROVE  LET R == HandleLocking(S, c) IN InStep(R, {}) /\ UnlockEffect(S, R, c)
<1> DEFINE C == S.task[c]
           S1 == Move(S, c, "lq", "list", "out")
           S2 == MoveUntied(S1, c, "blocked", "list")
           S3 == [S2 EXCEPT !.task[c].blocked = FALSE]
           S4 == Queued(S3)
           R == NotifyParent(S4, c)
<1>1. S \in StateRec /\ c \in Task /\ Explicit \subseteq Task /\ Thread \subseteq Task
      /\ Alone(C, c) /\ C \in TaskRec /\ "out" \in Places /\ "list" \in Places
  BY DEF InStep, Task, StateRec, Places
<1>2. /\ C.blocked /\ C.pc = "contend" /\ C.kind = "WAITING" /\ ~C.tw /\ C.susp # None
      /\ C.sq = "blocked" /\ C.tq = "blocked" /\ (C.parent # None => C.child = "blocked")
      /\ (C.child # "out" => C.parent # None) /\ (C.parent \in Explicit => C.parent < c)
  BY <1>1 DEF Alone, ListOf
<1>3. HandleLocking(S, c) = R
  BY DEF HandleLocking
<1>4. PICK T1 \in TaskRec : S1 = [S EXCEPT !.task[c] = T1] /\ LqMoved(C, T1, "out")
  BY <1>1, MoveLq
<1> HIDE DEF S1
<1>5. S1 \in StateRec /\ S1.thr = S.thr /\ S1.team = S.team /\ S1.task[c] = T1
      /\ \A t \in Task \ {c} : S1.task[t] = S.task[t]
  BY <1>1, <1>4, SetTask
<1>6. /\ S1.task[c].parent # None => S1.task[c].child = "blocked"
      /\ S1.task[c].tq = "blocked" /\ S1.task[c].sq = "blocked"
  BY <1>2, <1>4, <1>5 DEF LqMoved, SameStatic
<1>7. PICK T2 \in TaskRec : S2 = [S1 EXCEPT !.task[c] = T2] /\ MovedTo(T1, T2, "list")
  BY <1>1, <1>5, <1>6, MoveUntiedEffect
<1> HIDE DEF S2
<1>8. S2 \in StateRec /\ S2.thr = S.thr /\ S2.team = S.team /\ S2.task[c] = T2
      /\ \A t \in Task \ {c} : S2.task[t] = S.task[t]
  BY <1>1, <1>5, <1>7, SetTask
<1>9. PICK U \in TaskRec : S3 = [S2 EXCEPT !.task[c] = U] /\ BlockedSet(T2, U, FALSE)
  BY <1>1, <1>8, SetBlocked
<1> HIDE DEF S3
<1>10. S3 \in StateRec /\ S3.thr = S.thr /\ S3.team = S.team /\ S3.task[c] = U
       /\ \A t \in Task \ {c} : S3.task[t] = S.task[t]
  BY <1>1, <1>8, <1>9, SetTask
<1>11. PICK V \in TeamRec :
         /\ S4 = [S3 EXCEPT !.team = V]
         /\ V.queued = S.team.queued + 1 /\ V.pending /\ SameTeam(S.team, V)
  BY <1>10, QueuedEffect
<1> HIDE DEF S4
<1>12. S4 \in StateRec /\ S4.thr = S.thr /\ S4.team = V /\ S4.task[c] = U
       /\ \A t \in Task \ {c} : S4.task[t] = S.task[t]
  BY <1>10, <1>11, SetTeam
<1>13. /\ SameStatic(C, U) /\ U.kind = C.kind /\ U.susp = C.susp
       /\ U.to = C.to /\ U.from = C.from /\ U.prev = C.prev /\ U.next = C.next
       /\ U.lq = "out" /\ U.blocked = FALSE /\ U.sq = "list" /\ U.tq = "list"
       /\ U.child = IF C.parent # None THEN "list" ELSE C.child
  BY <1>4, <1>7, <1>9 DEF LqMoved, MovedTo, BlockedSet, SameFixed, SameStatic
<1>14. SameLq(C, U)
  BY <1>2, <1>13 DEF SameLq
<1>15. Alone(U, c)
  BY <1>2, <1>13 DEF Alone, SameStatic, ListOf
<1>16. Reason(S4, c)
  BY <1>2, <1>12, <1>13 DEF Reason, Held, SameStatic
<1>17. \A d \in Explicit \ {c} : SameQ(S.task[d], S4.task[d])
  BY <1>1, <1>12 DEF SameQ
<1>18. SameImplicit(S, S4)
  BY <1>1, <1>12, SchedAssumption DEF SameImplicit
<1>19. Counted(S4)
  <2>1. \A d \in Explicit \ {c} : S4.task[d].tq = S.task[d].tq
    BY <1>17 DEF SameQ
  <2>2. S4.task[c].tq = "list" /\ S.task[c].tq # "list"
    BY <1>2, <1>12, <1>13
  <2>3. /\ Cardinality(QueuedIn(S4)) = Cardinality(QueuedIn(S)) + 1
        /\ Cardinality(QueuedIn(S)) \in Nat
    BY <1>1, <1>12, <2>1, <2>2, QueuedChange
  <2>4. S.team.queued = Cardinality(QueuedIn(S))
    BY DEF InStep, Counted
  <2> PICK q \in Nat : q = S.team.queued
    BY <2>3, <2>4
  <2>5. V.queued = q + 1 /\ V.pending
    BY <1>11
  <2>6. V.queued > 0
    BY <2>5
  <2> QED
    BY <1>12, <2>3, <2>4, <2>5, <2>6 DEF Counted
<1>20. InStep(S, {c})
  BY DEF InStep
<1>21. InStep(S4, {WaitingParent(S4, c)})
  <2>1. S4.task[c].parent = C.parent /\ (S4.task[c].child = "out" <=> C.child = "out")
    BY <1>12, <1>14 DEF SameLq, SameStatic
  <2> QED
    BY <1>12, <1>15, <1>16, <1>17, <1>18, <1>19, <1>20, <2>1, OneInStep
<1>22. InStep(R, {}) /\ Same(S4, R)
  BY <1>21, NotifyParentInStep
<1> HIDE DEF R
<1>23. UnlockEffect(S, R, c)
  <2>1. R \in StateRec /\ R.thr = S.thr /\ SameTeam(S.team, R.team)
    BY <1>11, <1>12, <1>22 DEF Same, SameTeam
  <2>2. ASSUME NEW d \in Task
        PROVE  /\ SameLq(S.task[d], S4.task[d])
               /\ S4.task[d].lq = IF d = c THEN "out" ELSE S.task[d].lq
    BY <1>12, <1>13, <1>14 DEF SameLq, SameStatic
  <2>3. ASSUME NEW d \in Task
        PROVE  SameLq(S4.task[d], R.task[d]) /\ R.task[d].lq = S4.task[d].lq
    <3>1. SameRec(S4.task[d], R.task[d]) \/ R.task[d] = S4.task[d]
      BY <1>22 DEF Same, Task
    <3> QED
      BY <3>1 DEF SameRec, SameFixed, SameStatic, SameLq
  <2>4. \A d \in Task : SameLq(S.task[d], R.task[d])
                     /\ R.task[d].lq = IF d = c THEN "out" ELSE S.task[d].lq
    BY <2>2, <2>3 DEF SameLq, SameStatic
  <2> QED
    BY <2>1, <2>4 DEF UnlockEffect
<1> QED
  BY <1>3, <1>22, <1>23

(* gomp_task_handle_locking keeps the queues in step.                      *)
LEMMA HandleLockingInStep ==
  ASSUME NEW S, NEW c \in Explicit, InStep(S, {}), S.task[c].lq = "list"
  PROVE  LET R == HandleLocking(S, c) IN InStep(R, {}) /\ UnlockEffect(S, R, c)
<1>1. S.task[c].type \in {"TIED", "UNTIED"}
  BY DEF InStep, StateRec, TaskRec, Task
<1> QED
  BY <1>1, HandleLockingTied, HandleLockingUntied

(* n is gone from the tied list of h; its own links no longer matter.      *)
SameListsBut(S, R, n) ==
  \A c \in Task \ {n} : R.task[c].prev = S.task[c].prev /\ R.task[c].next = S.task[c].next

(* What gomp_remove_task_from_tied_list changes.                           *)
Removed(S, R, h, t, n) ==
  LET last == S.thr[h].last
      N == S.task[n]
  IN \/ /\ N.type # "TIED" /\ SameListsBut(S, R, n) /\ R.thr[h].last = last
     \/ /\ N.type = "TIED"
        /\ S.task[t].kind = "IMPLICIT" \/ (last = n /\ N.prev = None)
        /\ SameListsBut(S, R, n) /\ R.thr[h].last = None
     \/ /\ N.type = "TIED" /\ S.task[t].kind # "IMPLICIT" /\ last = n /\ N.prev \in Task
        /\ \A c \in Task \ {n} :
             /\ R.task[c].next = IF c = N.prev THEN None ELSE S.task[c].next
             /\ R.task[c].prev = S.task[c].prev
        /\ R.thr[h].last = N.prev
     \/ /\ N.type = "TIED" /\ S.task[t].kind # "IMPLICIT" /\ last # n
        /\ \A c \in Task \ {n} :
             /\ R.task[c].next = IF c = N.prev THEN N.next ELSE S.task[c].next
             /\ R.task[c].prev = IF c = N.next THEN N.prev ELSE S.task[c].prev
        /\ R.thr[h].last = last

(* One link of a tied list is set.                                         *)
LEMMA SetPrev ==
  ASSUME NEW S \in StateRec, NEW t \in Task, NEW v \in MaybeTask
  PROVE  LET R == [S EXCEPT !.task[t].prev = v]
         IN /\ R \in StateRec /\ R.thr = S.thr /\ R.team = S.team
            /\ \A c \in Task : /\ SameButList(S.task[c], R.task[c])
                               /\ R.task[c].next = S.task[c].next
                               /\ R.task[c].prev = IF c = t THEN v ELSE S.task[c].prev
<1> DEFINE R == [S EXCEPT !.task[t].prev = v]
<1>1. R \in StateRec
  BY SetLinks
<1>2. R.thr = S.thr /\ R.team = S.team
  BY DEF StateRec
<1>3. \A c \in Task : /\ R.task[c].next = S.task[c].next
                      /\ R.task[c].prev = IF c = t THEN v ELSE S.task[c].prev
  BY DEF StateRec, TaskRec
<1>4. \A c \in Task : SameButList(S.task[c], R.task[c])
  BY DEF StateRec, TaskRec, SameButList, SameStatic, SameQ
<1> QED
  BY <1>1, <1>2, <1>3, <1>4

(* The next tied task is set.                                              *)
LEMMA SetNext ==
  ASSUME NEW S \in StateRec, NEW t \in Task, NEW v \in MaybeTask
  PROVE  LET R == [S EXCEPT !.task[t].next = v]
         IN /\ R \in StateRec /\ R.thr = S.thr /\ R.team = S.team
            /\ \A c \in Task : /\ SameButList(S.task[c], R.task[c])
                               /\ R.task[c].prev = S.task[c].prev
                               /\ R.task[c].next = IF c = t THEN v ELSE S.task[c].next
<1> DEFINE R == [S EXCEPT !.task[t].next = v]
<1>1. R \in StateRec
  BY SetLinks
<1>2. R.thr = S.thr /\ R.team = S.team
  BY DEF StateRec
<1>3. \A c \in Task : /\ R.task[c].prev = S.task[c].prev
                      /\ R.task[c].next = IF c = t THEN v ELSE S.task[c].next
  BY DEF StateRec, TaskRec
<1>4. \A c \in Task : SameButList(S.task[c], R.task[c])
  BY DEF StateRec, TaskRec, SameButList, SameStatic, SameQ
<1> QED
  BY <1>1, <1>2, <1>3, <1>4

(* gomp_remove_task_from_tied_list changes the tied list only.             *)
LEMMA RemoveTiedEffect ==
  ASSUME NEW S \in StateRec, NEW h \in Thread, NEW t \in Task, NEW n \in Task
  PROVE  LET R == RemoveTied(S, h, t, n)
         IN ListFrame(S, R, h) /\ Removed(S, R, h, t, n)
<1> DEFINE last == S.thr[h].last
           N == S.task[n]
           S1 == IF N.next = None THEN S ELSE [S EXCEPT !.task[N.next].prev = N.prev]
           R == RemoveTied(S, h, t, n)
<1>1. /\ last \in MaybeTask /\ N.prev \in MaybeTask /\ N.next \in MaybeTask
      /\ None \in MaybeTask /\ None \notin Task
  BY SchedAssumption DEF StateRec, ThrRec, TaskRec, MaybeTask
<1>2. ListFrame(S, S, h) /\ SameListsBut(S, S, n)
  BY DEF ListFrame, SameListsBut, SameButList, SameStatic, SameQ
<1>3. CASE N.type # "TIED"
  <2>1. R = S
    BY <1>3 DEF RemoveTied
  <2> QED
    BY <1>2, <1>3, <2>1 DEF Removed
<1>4. CASE N.type = "TIED" /\ (S.task[t].kind = "IMPLICIT" \/ (last = n /\ N.prev = None))
  <2>1. R = [S EXCEPT !.thr[h].last = None]
    BY <1>4 DEF RemoveTied
  <2>2. /\ R \in StateRec /\ R.task = S.task /\ R.team = S.team
        /\ \A g \in Thread : R.thr[g].task = S.thr[g].task
        /\ \A g \in Thread : R.thr[g].last = IF g = h THEN None ELSE S.thr[g].last
    BY <1>1, <2>1, SetLast
  <2> HIDE DEF R
  <2>3. ListFrame(S, R, h) /\ SameListsBut(S, R, n)
    BY <2>2 DEF ListFrame, SameListsBut, SameButList, SameStatic, SameQ
  <2> QED
    BY <1>4, <2>2, <2>3 DEF Removed, R
<1>5. CASE /\ N.type = "TIED" /\ S.task[t].kind # "IMPLICIT" /\ last = n /\ N.prev \in Task
  <2> PICK p \in Task : p = N.prev
    BY <1>5
  <2> DEFINE R1 == [S EXCEPT !.thr[h].last = p]
             R2 == [R1 EXCEPT !.task[p].next = None]
  <2>1. R = R2
    BY <1>1, <1>5 DEF RemoveTied
  <2>2. p \in MaybeTask
    BY DEF MaybeTask
  <2>3. /\ R1 \in StateRec /\ R1.task = S.task /\ R1.team = S.team
        /\ \A g \in Thread : R1.thr[g].task = S.thr[g].task
        /\ \A g \in Thread : R1.thr[g].last = IF g = h THEN p ELSE S.thr[g].last
    BY <2>2, SetLast
  <2> HIDE DEF R1
  <2>4. /\ R2 \in StateRec /\ R2.thr = R1.thr /\ R2.team = R1.team
        /\ \A c \in Task : /\ SameButList(R1.task[c], R2.task[c])
                           /\ R2.task[c].prev = R1.task[c].prev
                           /\ R2.task[c].next = IF c = p THEN None ELSE R1.task[c].next
    BY <1>1, <2>3, SetNext
  <2> HIDE DEF R2, R
  <2>5. ListFrame(S, R, h)
    BY <2>1, <2>3, <2>4 DEF ListFrame
  <2> QED
    BY <1>5, <2>1, <2>3, <2>4, <2>5 DEF Removed, R
<1>6. CASE /\ N.type = "TIED" /\ S.task[t].kind # "IMPLICIT" /\ last # n
  <2>1. /\ S1 \in StateRec /\ S1.thr = S.thr /\ S1.team = S.team
        /\ \A c \in Task : /\ SameButList(S.task[c], S1.task[c])
                           /\ S1.task[c].next = S.task[c].next
                           /\ S1.task[c].prev = IF c = N.next THEN N.prev ELSE S.task[c].prev
    <3>1. CASE N.next = None
      BY <1>1, <1>2, <3>1 DEF ListFrame
    <3>2. CASE N.next # None
      <4> PICK v \in Task : v = N.next
        BY <1>1, <3>2 DEF MaybeTask
      <4> PICK w \in MaybeTask : w = N.prev
        BY <1>1
      <4>1. S1 = [S EXCEPT !.task[v].prev = w]
        BY <3>2
      <4> HIDE DEF S1
      <4>2. /\ S1 \in StateRec /\ S1.thr = S.thr /\ S1.team = S.team
            /\ \A c \in Task : /\ SameButList(S.task[c], S1.task[c])
                               /\ S1.task[c].next = S.task[c].next
                               /\ S1.task[c].prev = IF c = v THEN w ELSE S.task[c].prev
        BY <4>1, SetPrev
      <4> QED
        BY <4>2
    <3> QED
      BY <3>1, <3>2
  <2>2. R = IF N.prev = None THEN S1 ELSE [S1 EXCEPT !.task[N.prev].next = N.next]
    BY <1>6 DEF RemoveTied
  <2> HIDE DEF S1, R
  <2>3. /\ R \in StateRec /\ R.thr = S1.thr /\ R.team = S1.team
        /\ \A c \in Task : /\ SameButList(S1.task[c], R.task[c])
                           /\ R.task[c].prev = S1.task[c].prev
                           /\ R.task[c].next = IF c = N.prev THEN N.next ELSE S1.task[c].next
    <3>1. CASE N.prev = None
      BY <1>1, <2>1, <2>2, <3>1 DEF SameButList, SameStatic, SameQ
    <3>2. CASE N.prev # None
      <4> PICK v \in Task : v = N.prev
        BY <1>1, <3>2 DEF MaybeTask
      <4> PICK w \in MaybeTask : w = N.next
        BY <1>1
      <4>1. R = [S1 EXCEPT !.task[v].next = w]
        BY <2>2, <3>2
      <4>2. S1 \in StateRec
        BY <2>1
      <4> DEFINE Q == [S1 EXCEPT !.task[v].next = w]
      <4>3. /\ Q \in StateRec /\ Q.thr = S1.thr /\ Q.team = S1.team
            /\ \A c \in Task : /\ SameButList(S1.task[c], Q.task[c])
                               /\ Q.task[c].prev = S1.task[c].prev
                               /\ Q.task[c].next = IF c = v THEN w ELSE S1.task[c].next
        BY <4>2, SetNext
      <4> HIDE DEF Q
      <4> QED
        BY <4>1, <4>3 DEF Q
    <3> QED
      BY <3>1, <3>2
  <2>4. \A c \in Task : SameButList(S.task[c], R.task[c])
    BY <2>1, <2>3 DEF SameButList, SameStatic, SameQ
  <2>5. ListFrame(S, R, h)
    BY <2>1, <2>3, <2>4 DEF ListFrame
  <2> QED
    BY <1>6, <2>1, <2>3, <2>5 DEF Removed, R
<1> QED
  BY <1>1, <1>3, <1>4, <1>5, <1>6 DEF MaybeTask
-----------------------------------------------------------------------------
(* A task that has ended leaves the queue of its parent: the parent is to  *)
(* be looked at again only if it waits and this was its last child.        *)
LEMMA ChildGoneInStep ==
  ASSUME NEW S, NEW n \in Explicit, InStep(S, {}), S.task[n].kind = "TIED",
         S.task[n].child = "list", NEW p, p = S.task[n].parent
  PROVE  LET R == Move(S, n, "child", "list", "out")
         IN /\ InStep(R, IF Children(R, p) = {} /\ R.task[p].tw THEN {p} ELSE {})
            /\ R.thr = S.thr /\ R.team = S.team
            /\ \A c \in Task \ {n} : R.task[c] = S.task[c]
            /\ SameFixed(S.task[n], R.task[n]) /\ R.task[n].child = "out"
<1> DEFINE N == S.task[n]
           R == Move(S, n, "child", "list", "out")
           X == IF Children(R, p) = {} /\ R.task[p].tw THEN {p} ELSE {}
<1>1. S \in StateRec /\ n \in Task /\ Explicit \subseteq Task /\ Thread \subseteq Task /\ "out" \in Places
  BY DEF InStep, Task, Places
<1>2. PICK U \in TaskRec : R = [S EXCEPT !.task[n] = U] /\ ChildMoved(N, U, "out")
  BY <1>1, MoveChild
<1> HIDE DEF R
<1>3. R \in StateRec /\ R.thr = S.thr /\ R.team = S.team /\ R.task[n] = U
      /\ \A c \in Task \ {n} : R.task[c] = S.task[c]
  BY <1>1, <1>2, SetTask
<1>4. SameFixed(N, U) /\ U.child = "out" /\ U.tq = N.tq /\ U.sq = N.sq /\ U.blocked = N.blocked
  BY <1>2 DEF ChildMoved
<1>5. /\ U.kind = "TIED" /\ U.parent = p /\ U.tw = N.tw /\ U.pc = N.pc /\ U.lq = N.lq
      /\ U.type = N.type
  BY <1>4 DEF SameFixed, SameStatic
<1>6. Alone(U, n)
  <2>1. Alone(N, n)
    BY DEF InStep
  <2> QED
    BY <1>4, <1>5, <2>1 DEF Alone
<1>7. \A q : q # p => Children(R, q) = Children(S, q)
  BY <1>1, <1>3, <1>5 DEF Children
<1>8. Children(R, p) = Children(S, p) \ {n}
  BY <1>1, <1>3, <1>4 DEF Children
<1>9. \A q : ReadyKids(R, q) = ReadyKids(S, q)
  <2> SUFFICES ASSUME NEW q PROVE ReadyKids(R, q) = ReadyKids(S, q)
    OBVIOUS
  <2>1. n \notin ReadyKids(S, q) /\ n \notin ReadyKids(R, q)
    BY <1>3, <1>5 DEF ReadyKids
  <2>2. ReadyKids(R, q) \subseteq Explicit /\ ReadyKids(S, q) \subseteq Explicit
    BY DEF ReadyKids, Children
  <2>3. \A c \in Explicit \ {n} : R.task[c] = S.task[c]
    BY <1>1, <1>3
  <2>4. \A c \in Explicit \ {n} : c \in Children(R, q) <=> c \in Children(S, q)
    BY <2>3 DEF Children
  <2>5. \A c \in Explicit \ {n} : c \in ReadyKids(R, q) <=> c \in ReadyKids(S, q)
    BY <2>3, <2>4 DEF ReadyKids
  <2> QED
    BY <2>1, <2>2, <2>5
<1>10. ASSUME NEW c \in Explicit \ X
       PROVE  Reason(R, c)
  <2>1. CASE c = n
    BY <1>3, <1>5, <2>1 DEF Reason
  <2>2. CASE c # n
    <3>1. R.task[c] = S.task[c] /\ Reason(S, c)
      BY <1>1, <1>3, <2>2 DEF InStep
    <3>2. R.task[c].tw => (Children(R, c) = {} <=> Children(S, c) = {})
      <4>1. CASE c # p
        BY <1>7, <4>1
      <4>2. CASE c = p
        BY <1>8, <1>10, <4>2
      <4> QED
        BY <4>1, <4>2
    <3> QED
      BY <1>1, <1>3, <1>9, <3>1, <3>2, ReasonFrame
  <2> QED
    BY <2>1, <2>2
<1>11. \A c \in Explicit : Alone(R.task[c], c)
  BY <1>1, <1>3, <1>6 DEF InStep
<1>12. \A h \in Thread : R.task[h].kind = "IMPLICIT" /\ R.task[h].type = "TIED" /\ R.task[h].parent = None
  BY <1>1, <1>3, SchedAssumption DEF InStep
<1>13. Counted(R)
  <2>1. QueuedIn(R) = QueuedIn(S)
    BY <1>1, <1>3, <1>4 DEF QueuedIn
  <2> QED
    BY <1>3, <2>1 DEF Counted, InStep
<1> HIDE DEF X
<1>14. InStep(R, X)
  BY <1>3, <1>10, <1>11, <1>12, <1>13 DEF InStep
<1> QED
  BY <1>3, <1>4, <1>14 DEF R, X

(* What removing n from its parent's queue does.                           *)
GoneEffect(S, R, n) ==
  /\ R \in StateRec /\ R.thr = S.thr /\ SameTeam(S.team, R.team)
  /\ \A c \in Task : SameFixed(S.task[c], R.task[c])
  /\ \A c \in Task \ {n} : S.task[c].child = "out" <=> R.task[c].child = "out"
  /\ R.task[n].child = "out"

(* A child that leaves its parent's queue: the parent is told.             *)
LEMMA RemoveParentInStep ==
  ASSUME NEW S, NEW n \in Explicit, InStep(S, {}), S.task[n].kind = "TIED",
         S.task[n].parent # None => S.task[n].child # "out"
  PROVE  LET R == RemoveParent(S, n) IN InStep(R, {}) /\ GoneEffect(S, R, n)
<1> DEFINE N == S.task[n]
           p == N.parent
           S1 == Move(S, n, "child", "list", "out")
           R == RemoveParent(S, n)
<1>1. S \in StateRec /\ n \in Task /\ N \in TaskRec /\ N.child # "blocked" /\ N.child \in Places
      /\ (N.child # "out" => N.parent # None)
  BY DEF InStep, Alone, StateRec, TaskRec, Task
<1>2. CASE p = None
  <2>1. R = S
    BY <1>2 DEF RemoveParent
  <2>2. GoneEffect(S, S, n)
    BY <1>1, <1>2 DEF GoneEffect, SameFixed, SameStatic, SameTeam
  <2> QED
    BY <2>1, <2>2
<1>3. CASE p # None
  <2>1. p \in Task /\ N.child = "list"
    BY <1>1, <1>3 DEF TaskRec, MaybeTask, Places
  <2>2. /\ InStep(S1, IF Children(S1, p) = {} /\ S1.task[p].tw THEN {p} ELSE {})
        /\ S1.thr = S.thr /\ S1.team = S.team
        /\ \A c \in Task \ {n} : S1.task[c] = S.task[c]
        /\ SameFixed(S.task[n], S1.task[n]) /\ S1.task[n].child = "out"
    BY <2>1, ChildGoneInStep
  <2>3. R = LastChildGone(S1, p)
    BY <1>3 DEF RemoveParent
  <2> HIDE DEF S1, R
  <2>4. InStep(R, {}) /\ Same(S1, R)
    <3>1. CASE Children(S1, p) = {} /\ S1.task[p].tw
      <4>1. R = HandleBlocking(S1, p)
        BY <2>3, <3>1 DEF LastChildGone
      <4>2. InStep(S1, {p})
        BY <2>2, <3>1
      <4> QED
        BY <2>1, <3>1, <4>1, <4>2, HandleBlockingInStep
    <3>2. CASE ~(Children(S1, p) = {} /\ S1.task[p].tw)
      <4>1. R = S1
        BY <2>3, <3>2 DEF LastChildGone
      <4>2. InStep(S1, {})
        BY <2>2, <3>2
      <4>3. S1 \in StateRec
        BY <4>2 DEF InStep
      <4> QED
        BY <4>1, <4>2, <4>3, SameItself
    <3> QED
      BY <3>1, <3>2
  <2>5. GoneEffect(S, R, n)
    <3>1. R \in StateRec /\ R.thr = S.thr /\ SameTeam(S.team, R.team)
      BY <2>2, <2>4 DEF Same
    <3>2. ASSUME NEW c \in Task
          PROVE  /\ SameFixed(S1.task[c], R.task[c])
                 /\ S1.task[c].child = "out" <=> R.task[c].child = "out"
      <4>1. SameRec(S1.task[c], R.task[c]) \/ R.task[c] = S1.task[c]
        BY <2>4 DEF Same, Task
      <4> QED
        BY <4>1 DEF SameRec, SameFixed, SameStatic
    <3>3. \A c \in Task : SameFixed(S.task[c], R.task[c])
      BY <2>2, <3>2 DEF SameFixed, SameStatic
    <3> QED
      BY <1>1, <2>2, <3>1, <3>2, <3>3 DEF GoneEffect
  <2> QED
    BY <2>4, <2>5 DEF R
<1> QED
  BY <1>2, <1>3

(* A child of n that survives it.                                          *)
Orphaned(T, U, asc) ==
  /\ U.parent = None /\ U.child = "out" /\ U.asc \in {T.asc, asc}
  /\ U.kind = T.kind /\ U.type = T.type /\ U.prio = T.prio /\ U.susp = T.susp
  /\ U.blocked = T.blocked /\ U.tw = T.tw /\ U.inTied = T.inTied
  /\ U.tq = T.tq /\ U.sq = T.sq /\ U.lq = T.lq /\ U.pc = T.pc /\ U.done = T.done
  /\ U.to = T.to /\ U.from = T.from /\ U.prev = T.prev /\ U.next = T.next
  /\ U.creators = T.creators

(* The memory of n is released.                                            *)
ReleaseEffect(S, R, n) ==
  /\ R \in StateRec /\ R.thr = S.thr
  /\ R.task[n] = Freed
  /\ \A c \in Task \ {n} : IF c \in Children(S, n)
                           THEN Orphaned(S.task[c], R.task[c], S.task[n].asc)
                           ELSE R.task[c] = S.task[c]
  /\ R.team.count = S.team.count - 1 /\ R.team.queued = S.team.queued
  /\ R.team.pending = S.team.pending /\ R.team.running = S.team.running
  /\ R.team.arrived = S.team.arrived /\ R.team.waiting = S.team.waiting
  /\ R.team.over = S.team.over /\ R.team.lock = S.team.lock /\ R.team.fault = S.team.fault

(* The two records of tasks that do not exist.                             *)
LEMMA BlankRecords ==
  /\ Freed \in TaskRec /\ Uncreated \in TaskRec
  /\ Freed.kind = "freed" /\ Freed.parent = None /\ Freed.child = "out" /\ Freed.tq = "out"
  /\ Freed.sq = "out" /\ Freed.lq = "out" /\ ~Freed.tw /\ Freed.pc = "run"
  /\ Freed.asc = None /\ Freed.to = None /\ Freed.from = None /\ Freed.creators = {}
  /\ Freed.done = {} /\ Freed.prev = None /\ Freed.next = None
<1>1. None \in MaybeTask /\ "out" \in Places /\ "freed" \in Kinds /\ "none" \in Kinds /\ "run" \in Labels
  BY DEF MaybeTask, Places, Kinds, Labels
<1>2. Freed \in TaskRec
  BY <1>1 DEF Freed, InitTask, TaskRec
<1>3. Uncreated \in TaskRec
  BY <1>1 DEF Uncreated, InitTask, TaskRec
<1> QED
  BY <1>2, <1>3 DEF Freed, InitTask

(* What the release of a task changes.                                     *)
LEMMA ReleaseIs ==
  ASSUME NEW S \in StateRec, NEW n \in Explicit
  PROVE  ReleaseEffect(S, Release(S, n), n)
<1> DEFINE Orphan(c) == [S.task[c] EXCEPT
                           !.parent = None, !.child = "out",
                           !.asc = IF S.task[c].asc = n THEN S.task[n].asc ELSE S.task[c].asc]
           New(c) == IF c = n THEN Freed
                     ELSE IF c \in Children(S, n) THEN Orphan(c) ELSE S.task[c]
           F == [c \in Task |-> New(c)]
<1>1. PICK q \in Int : q = S.team.count - 1
  BY DEF StateRec, TeamRec
<1> DEFINE V == [S.team EXCEPT !.count = q]
           R == [S EXCEPT !.task = F, !.team = V]
<1>2. Release(S, n) = [S EXCEPT !.task = F, !.team.count = q]
  BY <1>1, Zenon DEF Release
<1>3. n \in Task /\ \A c \in Task : S.task[c] \in TaskRec
  BY DEF StateRec, Task
<1>4. ASSUME NEW c \in Task
      PROVE  Orphan(c) \in TaskRec /\ Orphaned(S.task[c], Orphan(c), S.task[n].asc)
  <2>1. PICK a \in MaybeTask : a = IF S.task[c].asc = n THEN S.task[n].asc ELSE S.task[c].asc
    BY <1>3 DEF TaskRec
  <2>2. Orphan(c) = [S.task[c] EXCEPT !.parent = None, !.child = "out", !.asc = a]
    BY <2>1, Zenon
  <2> HIDE DEF Orphan
  <2>3. S.task[c] \in TaskRec /\ None \in MaybeTask /\ "out" \in Places
    BY <1>3 DEF MaybeTask, Places
  <2>4. Orphan(c) \in TaskRec
    BY <2>2, <2>3 DEF TaskRec
  <2>5. a \in {S.task[c].asc, S.task[n].asc}
    BY <2>1
  <2>6. Orphaned(S.task[c], Orphan(c), S.task[n].asc)
    BY <2>2, <2>3, <2>5 DEF TaskRec, Orphaned
  <2> QED
    BY <2>4, <2>6
<1> HIDE DEF Orphan
<1>5. \A c \in Task : New(c) \in TaskRec
  BY <1>3, <1>4, BlankRecords
<1> HIDE DEF New
<1>6. F \in [Task -> TaskRec] /\ \A c \in Task : F[c] = New(c)
  BY <1>5
<1> HIDE DEF F
<1>7. V \in TeamRec
  BY DEF StateRec, TeamRec
<1>8. /\ V.count = q /\ V.queued = S.team.queued
      /\ V.pending = S.team.pending /\ V.running = S.team.running
      /\ V.arrived = S.team.arrived /\ V.waiting = S.team.waiting
      /\ V.over = S.team.over /\ V.lock = S.team.lock /\ V.fault = S.team.fault
  BY DEF StateRec, TeamRec
<1>9. Release(S, n) = R
  BY <1>2 DEF StateRec
<1> HIDE DEF V
<1>10. R \in StateRec /\ R.thr = S.thr /\ R.task = F /\ R.team = V
  BY <1>6, <1>7 DEF StateRec
<1> HIDE DEF R
<1>11. R.task[n] = Freed
  BY <1>3, <1>6, <1>10 DEF New
<1>12. ASSUME NEW c \in Task \ {n}
       PROVE  IF c \in Children(S, n)
              THEN Orphaned(S.task[c], R.task[c], S.task[n].asc)
              ELSE R.task[c] = S.task[c]
  BY <1>4, <1>6, <1>10 DEF New
<1> QED
  BY <1>1, <1>8, <1>9, <1>10, <1>11, <1>12 DEF ReleaseEffect

(* The release of a task keeps the queues in step.                         *)
LEMMA ReleaseInStep ==
  ASSUME NEW S, NEW n \in Explicit, InStep(S, {}), S.task[n].kind = "TIED",
         S.task[n].child = "out"
  PROVE  LET R == Release(S, n) IN InStep(R, {}) /\ ReleaseEffect(S, R, n)
<1> DEFINE R == Release(S, n)
<1>1. S \in StateRec /\ n \in Task /\ Explicit \subseteq Task /\ Thread \subseteq Task
      /\ None \notin Task
  BY SchedAssumption DEF InStep, Task
<1>2. ReleaseEffect(S, R, n)
  BY <1>1, ReleaseIs
<1> HIDE DEF R
<1>3. /\ R \in StateRec /\ R.task[n] = Freed
      /\ \A c \in Task \ {n} : IF c \in Children(S, n)
                               THEN Orphaned(S.task[c], R.task[c], S.task[n].asc)
                               ELSE R.task[c] = S.task[c]
      /\ R.team.queued = S.team.queued /\ R.team.pending = S.team.pending
  BY <1>2 DEF ReleaseEffect
<1>4. ASSUME NEW p \in Explicit \ {n}, NEW d \in Explicit
      PROVE  /\ d \in Children(R, p) <=> d \in Children(S, p)
             /\ d \in ReadyKids(R, p) <=> d \in ReadyKids(S, p)
  <2>1. p # None
    BY <1>1
  <2>2. CASE d = n
    BY <1>3, <2>1, <2>2, BlankRecords DEF Children, ReadyKids
  <2>3. CASE d # n /\ d \in Children(S, n)
    <3>1. S.task[d].parent = n /\ R.task[d].parent = None
      BY <1>1, <1>3, <2>3 DEF Children, Orphaned
    <3> QED
      BY <2>1, <3>1 DEF Children, ReadyKids
  <2>4. CASE d # n /\ d \notin Children(S, n)
    <3>1. R.task[d] = S.task[d]
      BY <1>1, <1>3, <2>4
    <3> QED
      BY <3>1 DEF Children, ReadyKids
  <2> QED
    BY <2>2, <2>3, <2>4
<1>5. \A p \in Explicit \ {n} : Children(R, p) = Children(S, p) /\ ReadyKids(R, p) = ReadyKids(S, p)
  <2> SUFFICES ASSUME NEW p \in Explicit \ {n}
               PROVE  Children(R, p) = Children(S, p) /\ ReadyKids(R, p) = ReadyKids(S, p)
    OBVIOUS
  <2>1. /\ Children(R, p) \subseteq Explicit /\ Children(S, p) \subseteq Explicit
        /\ ReadyKids(R, p) \subseteq Explicit /\ ReadyKids(S, p) \subseteq Explicit
    BY DEF Children, ReadyKids
  <2> QED
    BY <1>4, <2>1
<1>6. ASSUME NEW c \in Explicit \ {n}
      PROVE  /\ Alone(R.task[c], c)
             /\ R.task[c].kind = S.task[c].kind /\ R.task[c].type = S.task[c].type
             /\ R.task[c].blocked = S.task[c].blocked /\ R.task[c].lq = S.task[c].lq
             /\ R.task[c].tw = S.task[c].tw /\ R.task[c].tq = S.task[c].tq
  <2>1. Alone(S.task[c], c)
    BY DEF InStep
  <2>2. CASE c \in Children(S, n)
    <3>1. Orphaned(S.task[c], R.task[c], S.task[n].asc)
      BY <1>1, <1>3, <2>2
    <3>2. R.task[c].parent \notin Explicit
      BY <1>1, <3>1 DEF Orphaned
    <3> QED
      BY <2>1, <3>1, <3>2 DEF Orphaned, Alone
  <2>3. CASE c \notin Children(S, n)
    BY <1>1, <1>3, <2>1, <2>3
  <2> QED
    BY <2>2, <2>3
<1>7. Alone(R.task[n], n) /\ Reason(R, n) /\ R.task[n].tq = "out" /\ S.task[n].tq = "out"
  <2>1. Freed.parent \notin Explicit
    BY <1>1, BlankRecords
  <2>2. S.task[n].tq = "out"
    BY RunningQueues
  <2> QED
    BY <1>3, <2>1, <2>2, BlankRecords DEF Alone, Reason
<1>8. \A c \in Explicit : Reason(R, c)
  <2> SUFFICES ASSUME NEW c \in Explicit, c # n PROVE Reason(R, c)
    BY <1>7
  <2>1. Reason(S, c)
    BY DEF InStep
  <2> QED
    BY <1>1, <1>3, <1>5, <1>6, <2>1, ReasonFrame
<1>9. \A h \in Thread : R.task[h].kind = "IMPLICIT" /\ R.task[h].type = "TIED" /\ R.task[h].parent = None
  <2>1. \A h \in Thread : h \notin Children(S, n) /\ h # n
    BY SchedAssumption DEF Children
  <2> QED
    BY <1>1, <1>3, <2>1 DEF InStep
<1>10. Counted(R)
  <2>1. QueuedIn(R) = QueuedIn(S)
    BY <1>6, <1>7 DEF QueuedIn
  <2> QED
    BY <1>3, <2>1 DEF Counted, InStep
<1>11. InStep(R, {})
  BY <1>3, <1>6, <1>7, <1>8, <1>9, <1>10 DEF InStep
<1> QED
  BY <1>2, <1>11 DEF R

(* Only the flag for a corrupted queue may differ.                         *)
SameButFault(V, W) ==
  /\ V.count = W.count /\ V.queued = W.queued /\ V.running = W.running
  /\ V.pending = W.pending /\ V.arrived = W.arrived /\ V.waiting = W.waiting
  /\ V.over = W.over /\ V.lock = W.lock

(* The task leaves the queue of the critical section, where it may no      *)
(* longer be.                                                              *)
LEMMA MoveLqAnyway ==
  ASSUME NEW S \in StateRec, NEW t \in Task
  PROVE  LET R == Move(S, t, "lq", "list", "out")
         IN /\ R \in StateRec /\ R.thr = S.thr
            /\ \A c \in Task \ {t} : R.task[c] = S.task[c]
            /\ LqMoved(S.task[t], R.task[t], "out") /\ SameButFault(S.team, R.team)
<1> DEFINE R == Move(S, t, "lq", "list", "out")
           Q == [S EXCEPT !.task[t] = [S.task[t] EXCEPT !.lq = "out"]]
           V == [S.team EXCEPT !.fault = TRUE]
<1>1. "out" \in Places /\ S.task[t] \in TaskRec
  BY DEF Places, StateRec
<1>2. [S.task[t] EXCEPT !.lq = "out"] \in TaskRec
  BY <1>1, SetFields
<1>3. LqMoved(S.task[t], [S.task[t] EXCEPT !.lq = "out"], "out")
  BY <1>1 DEF TaskRec, SameStatic, LqMoved
<1>4. /\ Q \in StateRec /\ Q.thr = S.thr /\ Q.team = S.team
      /\ \A c \in Task \ {t} : Q.task[c] = S.task[c]
      /\ LqMoved(S.task[t], Q.task[t], "out")
  BY <1>2, <1>3, SetTask
<1>5. CASE S.task[t].lq = "list"
  <2>1. R = Q
    BY <1>1, <1>5, MoveEffect
  <2> QED
    BY <1>4, <2>1 DEF SameButFault
<1>6. CASE S.task[t].lq # "list"
  <2>1. R = [S EXCEPT !.task[t].lq = "out", !.team.fault = TRUE]
    BY <1>6 DEF Move
  <2>2. R = [Q EXCEPT !.team = V]
    BY <2>1 DEF StateRec
  <2>3. V \in TeamRec /\ SameButFault(S.team, V)
    BY DEF StateRec, TeamRec, SameButFault
  <2> HIDE DEF Q, V, R
  <2>4. R \in StateRec /\ R.thr = Q.thr /\ R.team = V /\ R.task = Q.task
    BY <1>4, <2>2, <2>3, SetTeam
  <2> QED
    BY <1>4, <2>3, <2>4 DEF R
<1> QED
  BY <1>5, <1>6

(* t takes over from n: first the chain and the tied list.                 *)
DetachEffect(S, R, h, t, n) ==
  /\ R.team = S.team
  /\ \A g \in Thread : /\ R.thr[g].task = IF g = h THEN t ELSE S.thr[g].task
                       /\ g # h => R.thr[g].last = S.thr[g].last
  /\ \A c \in Task : /\ SameStatic(S.task[c], R.task[c]) /\ SameQ(S.task[c], R.task[c])
                     /\ R.task[c].to = S.task[c].to
                     /\ R.task[c].from = IF c = t THEN None ELSE S.task[c].from
  /\ Removed(S, R, h, t, n)

(* The link of t to the task on top of it is cleared.                      *)
LEMMA DetachInStep ==
  ASSUME NEW S, NEW h \in Thread, NEW t \in Task, NEW n \in Task, InStep(S, {})
  PROVE  LET R == RemoveTied([S EXCEPT !.task[t].from = None, !.thr[h].task = t], h, t, n)
         IN InStep(R, {}) /\ DetachEffect(S, R, h, t, n)
<1> DEFINE S1 == [S EXCEPT !.task[t].from = None]
           S2 == [S1 EXCEPT !.thr[h].task = t]
           R == RemoveTied(S2, h, t, n)
<1>1. S \in StateRec /\ Explicit \subseteq Task /\ Thread \subseteq Task /\ None \in MaybeTask
  BY DEF InStep, Task, MaybeTask
<1>2. S1 \in StateRec
  BY <1>1, SetLinks
<1>3. /\ S1.thr = S.thr /\ S1.team = S.team
      /\ \A c \in Task : /\ SameButChain(S.task[c], S1.task[c]) /\ S1.task[c].to = S.task[c].to
                         /\ S1.task[c].from = IF c = t THEN None ELSE S.task[c].from
  <2>1. S1.thr = S.thr /\ S1.team = S.team
    BY <1>1 DEF StateRec
  <2>2. \A c \in Task : /\ S1.task[c].to = S.task[c].to
                        /\ S1.task[c].from = IF c = t THEN None ELSE S.task[c].from
    BY <1>1 DEF StateRec, TaskRec
  <2>3. \A c \in Task : SameButChain(S.task[c], S1.task[c])
    BY <1>1 DEF StateRec, TaskRec, SameButChain, SameStatic, SameQ
  <2> QED
    BY <2>1, <2>2, <2>3
<1>4. [S EXCEPT !.task[t].from = None, !.thr[h].task = t] = S2
  OBVIOUS
<1> HIDE DEF S1
<1>5. /\ S2 \in StateRec /\ S2.task = S1.task /\ S2.team = S1.team
      /\ \A g \in Thread : S2.thr[g].last = S1.thr[g].last
      /\ \A g \in Thread : S2.thr[g].task = IF g = h THEN t ELSE S1.thr[g].task
  BY <1>2, SetCurrent
<1> HIDE DEF S2
<1>6. ListFrame(S2, R, h) /\ Removed(S2, R, h, t, n)
  BY <1>5, RemoveTiedEffect
<1> HIDE DEF R
<1>7. ASSUME NEW c \in Task
      PROVE  /\ SameStatic(S.task[c], R.task[c]) /\ SameQ(S.task[c], R.task[c])
             /\ R.task[c].to = S.task[c].to
             /\ R.task[c].from = IF c = t THEN None ELSE S.task[c].from
  <2>1. SameButChain(S.task[c], S2.task[c]) /\ SameButList(S2.task[c], R.task[c])
    BY <1>3, <1>5, <1>6 DEF ListFrame
  <2> QED
    BY <1>3, <1>5, <2>1 DEF SameButChain, SameButList, SameStatic, SameQ
<1>8. Removed(S, R, h, t, n)
  <2>1. \A c \in Task : /\ S2.task[c].prev = S.task[c].prev /\ S2.task[c].next = S.task[c].next
                        /\ S2.task[c].type = S.task[c].type /\ S2.task[c].kind = S.task[c].kind
    BY <1>3, <1>5 DEF SameButChain, SameQ
  <2>2. S2.thr[h].last = S.thr[h].last
    BY <1>3, <1>5
  <2> QED
    BY <1>6, <2>1, <2>2 DEF Removed, SameListsBut
<1>9. InStep(R, {})
  <2>1. R \in StateRec /\ R.team = S.team
    BY <1>3, <1>5, <1>6 DEF ListFrame
  <2>2. \A c \in Explicit : SameQ(S.task[c], R.task[c])
    BY <1>1, <1>7
  <2>3. SameImplicit(S, R)
    BY <1>1, <1>7 DEF SameImplicit, SameQ
  <2> QED
    BY <2>1, <2>2, <2>3, InStepFrame
<1>10. DetachEffect(S, R, h, t, n)
  BY <1>3, <1>5, <1>6, <1>7, <1>8 DEF DetachEffect, ListFrame
<1> QED
  BY <1>4, <1>9, <1>10 DEF R

(* Then a suspended t leaves its queues.                                   *)
UnparkEffect(S, R, t) ==
  /\ R.thr = S.thr /\ SameButFault(S.team, R.team)
  /\ R.team.fault => S.team.fault \/ S.task[t].pc = "contend"
  /\ \A c \in Task \ {t} : R.task[c] = S.task[c]
  /\ SameStatic(S.task[t], R.task[t]) /\ R.task[t].kind = "TIED" /\ R.task[t].lq = "out"
  /\ R.task[t].susp = S.task[t].susp /\ R.task[t].child = S.task[t].child
  /\ R.task[t].to = S.task[t].to /\ R.task[t].from = S.task[t].from
  /\ R.task[t].prev = S.task[t].prev /\ R.task[t].next = S.task[t].next

(* A suspended tied task leaves the queues when it runs again.             *)
LEMMA UnparkInStep ==
  ASSUME NEW S, NEW t \in Explicit, InStep(S, {}), S.task[t].kind = "TIED_SUSPENDED"
  PROVE  LET S1 == IF S.task[t].pc = "contend" THEN Move(S, t, "lq", "list", "out") ELSE S
             R == [Move(S1, t, "sq", ListOf(S.task[t].blocked), "out")
                     EXCEPT !.task[t].kind = "TIED"]
         IN InStep(R, {}) /\ UnparkEffect(S, R, t)
<1> DEFINE T == S.task[t]
           S1 == IF T.pc = "contend" THEN Move(S, t, "lq", "list", "out") ELSE S
           S2 == Move(S1, t, "sq", ListOf(T.blocked), "out")
           R == [S2 EXCEPT !.task[t].kind = "TIED"]
<1>1. S \in StateRec /\ t \in Task /\ Explicit \subseteq Task /\ Thread \subseteq Task
      /\ Alone(T, t) /\ T \in TaskRec /\ "out" \in Places /\ "TIED" \in Kinds
  BY DEF InStep, Task, StateRec, Places, Kinds
<1>2. /\ T.type = "TIED" /\ T.tq = "out" /\ T.sq = ListOf(T.blocked) /\ T.child # "blocked"
      /\ (T.pc # "contend" => T.lq = "out")
      /\ (T.child # "out" => T.parent # None) /\ (T.parent \in Explicit => T.parent < t)
      /\ (T.tw => T.pc \in {"wait", "poll", "try"})
  BY <1>1 DEF Alone
<1>3. /\ S1 \in StateRec /\ S1.thr = S.thr
      /\ \A c \in Task \ {t} : S1.task[c] = S.task[c]
      /\ LqMoved(T, S1.task[t], "out") /\ SameButFault(S.team, S1.team)
      /\ S1.team.fault => S.team.fault \/ T.pc = "contend"
  <2>1. CASE T.pc = "contend"
    <3>1. S1 = Move(S, t, "lq", "list", "out")
      BY <2>1
    <3> HIDE DEF S1
    <3> QED
      BY <1>1, <2>1, <3>1, MoveLqAnyway
  <2>2. CASE T.pc # "contend"
    <3>1. S1 = S
      BY <2>2
    <3>2. LqMoved(T, T, "out")
      BY <1>2, <2>2 DEF LqMoved, SameStatic
    <3> QED
      BY <1>1, <3>1, <3>2 DEF SameButFault
  <2> QED
    BY <2>1, <2>2
<1> HIDE DEF S1
<1>4. S1.task[t].sq = ListOf(T.blocked) /\ S1 \in StateRec
  BY <1>2, <1>3 DEF LqMoved
<1>5. PICK T2 \in TaskRec : S2 = [S1 EXCEPT !.task[t] = T2] /\ SqMoved(S1.task[t], T2, "out")
  BY <1>1, <1>4, MoveSq
<1> HIDE DEF S2
<1>6. S2 \in StateRec /\ S2.thr = S.thr /\ S2.team = S1.team /\ S2.task[t] = T2
      /\ \A c \in Task \ {t} : S2.task[c] = S.task[c]
  BY <1>1, <1>3, <1>5, SetTask
<1>7. PICK U \in TaskRec : R = [S2 EXCEPT !.task[t] = U] /\ KindSet(T2, U, "TIED")
  BY <1>1, <1>6, SetKind
<1> HIDE DEF R
<1>8. R \in StateRec /\ R.thr = S.thr /\ R.team = S1.team /\ R.task[t] = U
      /\ \A c \in Task \ {t} : R.task[c] = S.task[c]
  BY <1>1, <1>6, <1>7, SetTask
<1>9. /\ U.kind = "TIED" /\ SameStatic(T, U) /\ U.susp = T.susp /\ U.child = T.child
      /\ U.tq = T.tq /\ U.sq = "out" /\ U.lq = "out" /\ U.prev = T.prev /\ U.next = T.next
      /\ U.to = T.to /\ U.from = T.from
  BY <1>3, <1>5, <1>7 DEF LqMoved, SqMoved, KindSet, SameFixed, SameStatic
<1>10. Alone(U, t) /\ ~Ready(U) /\ ~Ready(T)
  BY <1>2, <1>9 DEF Alone, SameStatic, Ready
<1>11. Reason(R, t)
  BY <1>8, <1>9 DEF Reason
<1>12. \A c \in Explicit \ {t} : SameQ(S.task[c], R.task[c])
  BY <1>1, <1>8 DEF SameQ
<1>13. SameImplicit(S, R)
  BY <1>1, <1>8, SchedAssumption DEF SameImplicit
<1>14. Counted(R)
  <2>1. QueuedIn(R) = QueuedIn(S)
    BY <1>1, <1>8, <1>9 DEF QueuedIn
  <2> QED
    BY <1>3, <1>8, <2>1 DEF Counted, InStep, SameButFault
<1>15. InStep(S, {t})
  BY DEF InStep
<1>16. InStep(R, {})
  <2>1. R.task[t].parent = T.parent /\ R.task[t].child = T.child
    BY <1>8, <1>9 DEF SameStatic
  <2> QED
    BY <1>8, <1>10, <1>11, <1>12, <1>13, <1>14, <1>15, <2>1, OneInStep
<1>17. UnparkEffect(S, R, t)
  BY <1>3, <1>8, <1>9 DEF UnparkEffect
<1> QED
  BY <1>16, <1>17 DEF R, S1, S2

(* Finally n is released.                                                  *)
LEMMA TerminateInStep ==
  ASSUME NEW S, NEW t \in Task, NEW n \in Explicit, InStep(S, {}), S.task[n].kind = "TIED",
         S.task[n].parent # None => S.task[n].child # "out",
         S.task[t].kind \in {"IMPLICIT", "TIED"}, n # t
  PROVE  LET R == Terminate(S, t, n)
         IN InStep(R, {}) /\ \E Q : GoneEffect(S, Q, n) /\ ReleaseEffect(Q, R, n)
<1> DEFINE Q == IF S.task[n].parent = t THEN Move(S, n, "child", "list", "out")
                ELSE RemoveParent(S, n)
           R == Release(Q, n)
<1>1. Terminate(S, t, n) = R
  BY DEF Terminate
<1>2. InStep(Q, {}) /\ GoneEffect(S, Q, n)
  <2>1. CASE S.task[n].parent = t
    <3>1. Q = Move(S, n, "child", "list", "out")
      BY <2>1
    <3>2. S.task[n].child = "list"
      <4>1. t # None /\ S.task[n].child # "blocked" /\ S.task[n].child \in Places
        BY SchedAssumption DEF InStep, Alone, StateRec, TaskRec, Task
      <4> QED
        BY <2>1, <4>1 DEF Places
    <3> HIDE DEF Q
    <3>3. /\ InStep(Q, IF Children(Q, t) = {} /\ Q.task[t].tw THEN {t} ELSE {})
          /\ Q.thr = S.thr /\ Q.team = S.team
          /\ \A c \in Task \ {n} : Q.task[c] = S.task[c]
          /\ SameFixed(S.task[n], Q.task[n]) /\ Q.task[n].child = "out"
      BY <2>1, <3>1, <3>2, ChildGoneInStep
    <3>4. Reason(Q, t)
      BY <3>3 DEF Reason
    <3>5. InStep(Q, {})
      BY <3>3, <3>4 DEF InStep
    <3>6. GoneEffect(S, Q, n)
      <4>1. Q \in StateRec
        BY <3>5 DEF InStep
      <4>2. \A c \in Task : SameFixed(S.task[c], Q.task[c])
        BY <3>3 DEF SameFixed, SameStatic
      <4>3. SameTeam(S.team, Q.team)
        BY <3>3 DEF SameTeam
      <4> QED
        BY <3>3, <4>1, <4>2, <4>3 DEF GoneEffect
    <3> QED
      BY <3>5, <3>6
  <2>2. CASE S.task[n].parent # t
    <3>1. Q = RemoveParent(S, n)
      BY <2>2
    <3> HIDE DEF Q
    <3> QED
      BY <3>1, RemoveParentInStep
  <2> QED
    BY <2>1, <2>2
<1> HIDE DEF Q
<1>3. Q.task[n].kind = "TIED" /\ Q.task[n].child = "out"
  <2>1. n \in Task
    BY DEF Task
  <2> QED
    BY <1>2, <2>1 DEF GoneEffect, SameFixed
<1>4. InStep(R, {}) /\ ReleaseEffect(Q, R, n)
  BY <1>2, <1>3, ReleaseInStep
<1> QED
  BY <1>1, <1>2, <1>4

(* What the end of n does to another task c, when t goes on in its place.  *)
EndRec(S, R, t, n, c) ==
  LET T == S.task[c]
      U == R.task[c]
  IN /\ U.type = T.type /\ U.prio = T.prio /\ U.tw = T.tw /\ U.inTied = T.inTied
     /\ U.pc = T.pc /\ U.done = T.done /\ U.creators = T.creators /\ U.susp = T.susp
     /\ \/ /\ U.parent = T.parent /\ U.asc = T.asc
           /\ U.child = "out" <=> T.child = "out"
        \/ /\ T.parent = n /\ U.parent = None /\ U.child = "out"
           /\ U.asc \in {T.asc, S.task[n].asc}
     /\ U.kind = IF c = t /\ T.kind = "TIED_SUSPENDED" THEN "TIED" ELSE T.kind
     /\ U.lq = IF c = t /\ T.kind = "TIED_SUSPENDED" THEN "out" ELSE T.lq
     /\ U.to = T.to /\ U.from = IF c = t THEN None ELSE T.from

(* What the end of n changes; t runs next.                                 *)
EndEffect(S, R, h, t, n) ==
  /\ R \in StateRec /\ R.task[n] = Freed
  /\ \A g \in Thread : /\ R.thr[g].task = IF g = h THEN t ELSE S.thr[g].task
                       /\ g # h => R.thr[g].last = S.thr[g].last
  /\ \A c \in Task \ {n} : EndRec(S, R, t, n, c)
  /\ Removed(S, R, h, t, n)
  /\ R.team.count = S.team.count - 1 /\ R.team.running = S.team.running
  /\ R.team.arrived = S.team.arrived /\ R.team.waiting = S.team.waiting
  /\ R.team.over = S.team.over /\ R.team.lock = S.team.lock
  /\ R.team.fault => S.team.fault \/ (S.task[t].kind = "TIED_SUSPENDED" /\ S.task[t].pc = "contend")

(* The steps of the end of a task, put together.                           *)
LEMMA EndSteps ==
  ASSUME NEW S, NEW S1, NEW S2, NEW S3, NEW R, NEW h \in Thread, NEW t \in Task,
         NEW n \in Explicit, n # t, S.task[t].kind \in {"IMPLICIT", "TIED_SUSPENDED"},
         DetachEffect(S, S1, h, t, n),
         IF S.task[t].kind = "TIED_SUSPENDED" THEN UnparkEffect(S1, S2, t) ELSE S2 = S1,
         GoneEffect(S2, S3, n), ReleaseEffect(S3, R, n)
  PROVE  EndEffect(S, R, h, t, n)
<1>0. n \in Task /\ Thread \subseteq Task
  BY DEF Task
<1>1. /\ R \in StateRec /\ R.task[n] = Freed /\ R.thr = S3.thr
      /\ \A c \in Task \ {n} : IF c \in Children(S3, n)
                               THEN Orphaned(S3.task[c], R.task[c], S3.task[n].asc)
                               ELSE R.task[c] = S3.task[c]
  BY DEF ReleaseEffect
<1>2. S3.thr = S2.thr /\ S2.thr = S1.thr
  BY DEF GoneEffect, UnparkEffect
<1>3. \A g \in Thread : /\ R.thr[g].task = IF g = h THEN t ELSE S.thr[g].task
                        /\ g # h => R.thr[g].last = S.thr[g].last
  BY <1>1, <1>2 DEF DetachEffect
<1>4. ASSUME NEW c \in Task
      PROVE  /\ SameStatic(S1.task[c], S2.task[c]) /\ S2.task[c].susp = S1.task[c].susp
             /\ S2.task[c].child = S1.task[c].child
             /\ S2.task[c].to = S1.task[c].to /\ S2.task[c].from = S1.task[c].from
             /\ S2.task[c].prev = S1.task[c].prev /\ S2.task[c].next = S1.task[c].next
             /\ S2.task[c].kind = IF c = t /\ S.task[t].kind = "TIED_SUSPENDED"
                                  THEN "TIED" ELSE S1.task[c].kind
             /\ S2.task[c].lq = IF c = t /\ S.task[t].kind = "TIED_SUSPENDED"
                                THEN "out" ELSE S1.task[c].lq
  <2>1. CASE c # t \/ S.task[t].kind # "TIED_SUSPENDED"
    <3>1. S2.task[c] = S1.task[c]
      BY <2>1 DEF UnparkEffect
    <3> QED
      BY <2>1, <3>1 DEF SameStatic
  <2>2. CASE c = t /\ S.task[t].kind = "TIED_SUSPENDED"
    BY <2>2 DEF UnparkEffect
  <2> QED
    BY <2>1, <2>2
<1>5. ASSUME NEW c \in Task
      PROVE  /\ SameStatic(S.task[c], S3.task[c]) /\ S3.task[c].susp = S.task[c].susp
             /\ c # n => (S3.task[c].child = "out" <=> S.task[c].child = "out")
             /\ S3.task[c].to = S.task[c].to
             /\ S3.task[c].from = IF c = t THEN None ELSE S.task[c].from
             /\ S3.task[c].prev = S1.task[c].prev /\ S3.task[c].next = S1.task[c].next
             /\ S3.task[c].kind = IF c = t /\ S.task[t].kind = "TIED_SUSPENDED"
                                  THEN "TIED" ELSE S.task[c].kind
             /\ S3.task[c].lq = IF c = t /\ S.task[t].kind = "TIED_SUSPENDED"
                                THEN "out" ELSE S.task[c].lq
  <2>1. /\ SameStatic(S.task[c], S1.task[c]) /\ SameQ(S.task[c], S1.task[c])
        /\ S1.task[c].to = S.task[c].to
        /\ S1.task[c].from = IF c = t THEN None ELSE S.task[c].from
    BY DEF DetachEffect
  <2>2. /\ SameFixed(S2.task[c], S3.task[c])
        /\ c # n => (S2.task[c].child = "out" <=> S3.task[c].child = "out")
    BY DEF GoneEffect
  <2> QED
    BY <1>4, <2>1, <2>2 DEF SameFixed, SameStatic, SameQ
<1>6. ASSUME NEW c \in Task \ {n}
      PROVE  /\ EndRec(S, R, t, n, c)
             /\ R.task[c].prev = S1.task[c].prev /\ R.task[c].next = S1.task[c].next
  <2>1. S3.task[n].asc = S.task[n].asc
    BY <1>0, <1>5 DEF SameStatic
  <2>2. CASE c \in Children(S3, n)
    <3>1. Orphaned(S3.task[c], R.task[c], S.task[n].asc)
      BY <1>1, <2>1, <2>2
    <3>2. S3.task[c].parent = n
      BY <2>2 DEF Children
    <3> QED
      BY <1>5, <3>1, <3>2 DEF Orphaned, EndRec, SameStatic
  <2>3. CASE c \notin Children(S3, n)
    <3>1. R.task[c] = S3.task[c]
      BY <1>1, <2>3
    <3> QED
      BY <1>5, <3>1 DEF EndRec, SameStatic
  <2> QED
    BY <2>2, <2>3
<1>7. Removed(S, R, h, t, n)
  <2>1. Removed(S, S1, h, t, n)
    BY DEF DetachEffect
  <2>2. R.thr[h].last = S1.thr[h].last
    BY <1>1, <1>2
  <2> QED
    BY <1>6, <2>1, <2>2 DEF Removed, SameListsBut
<1>8. /\ R.team.count = S3.team.count - 1 /\ R.team.running = S3.team.running
      /\ R.team.arrived = S3.team.arrived /\ R.team.waiting = S3.team.waiting
      /\ R.team.over = S3.team.over /\ R.team.lock = S3.team.lock
      /\ R.team.fault = S3.team.fault
  BY DEF ReleaseEffect
<1>9. /\ S3.team.count = S2.team.count /\ S3.team.running = S2.team.running
      /\ S3.team.arrived = S2.team.arrived /\ S3.team.waiting = S2.team.waiting
      /\ S3.team.over = S2.team.over /\ S3.team.lock = S2.team.lock
      /\ S3.team.fault = S2.team.fault
  BY DEF GoneEffect, SameTeam
<1>10. /\ S2.team.count = S.team.count /\ S2.team.running = S.team.running
       /\ S2.team.arrived = S.team.arrived /\ S2.team.waiting = S.team.waiting
       /\ S2.team.over = S.team.over /\ S2.team.lock = S.team.lock
       /\ S2.team.fault => S.team.fault \/ (S.task[t].kind = "TIED_SUSPENDED" /\ S.task[t].pc = "contend")
  <2>1. S1.team = S.team /\ S1.task[t].pc = S.task[t].pc
    BY DEF DetachEffect, SameStatic
  <2> QED
    BY <2>1 DEF UnparkEffect, SameButFault
<1> QED
  BY <1>1, <1>3, <1>6, <1>7, <1>8, <1>9, <1>10 DEF EndEffect

(* t was suspended, or is an implicit task in a taskwait or a yield.       *)
LEMMA ResumeAfterInStep ==
  ASSUME NEW S, NEW h \in Thread, NEW t \in Task, NEW n \in Explicit, InStep(S, {}),
         S.task[n].kind = "TIED", S.task[t].kind \in {"IMPLICIT", "TIED_SUSPENDED"},
         S.task[n].parent # None => S.task[n].child # "out"
  PROVE  LET R == ResumeAfter(S, h, t, n) IN InStep(R, {}) /\ EndEffect(S, R, h, t, n)
<1> DEFINE T == S.task[t]
           S1 == RemoveTied([S EXCEPT !.task[t].from = None, !.thr[h].task = t], h, t, n)
           S2 == IF T.pc = "contend" THEN Move(S1, t, "lq", "list", "out") ELSE S1
           P == [Move(S2, t, "sq", ListOf(T.blocked), "out") EXCEPT !.task[t].kind = "TIED"]
           S3 == IF T.kind = "TIED_SUSPENDED" THEN P ELSE S1
           R == Terminate(S3, t, n)
<1>1. ResumeAfter(S, h, t, n) = R
  BY DEF ResumeAfter
<1>2. n # t /\ n \in Task
  BY DEF Task
<1>3. InStep(S1, {}) /\ DetachEffect(S, S1, h, t, n)
  BY <1>2, DetachInStep
<1> HIDE DEF S1
<1>4. /\ SameQ(T, S1.task[t]) /\ SameQ(S.task[n], S1.task[n])
  BY <1>2, <1>3 DEF DetachEffect
<1>5. /\ InStep(S3, {})
      /\ IF T.kind = "TIED_SUSPENDED" THEN UnparkEffect(S1, S3, t) ELSE S3 = S1
  <2>1. CASE T.kind = "TIED_SUSPENDED"
    <3>1. t \in Explicit
      BY <2>1 DEF InStep, Task
    <3>2. S1.task[t].kind = "TIED_SUSPENDED" /\ T.pc = S1.task[t].pc /\ T.blocked = S1.task[t].blocked
      BY <1>4, <2>1 DEF SameQ
    <3>3. S3 = P
      BY <2>1
    <3>4. InStep(P, {}) /\ UnparkEffect(S1, P, t)
      BY <1>3, <3>1, <3>2, UnparkInStep
    <3> HIDE DEF P, S3
    <3> QED
      BY <2>1, <3>3, <3>4
  <2>2. CASE T.kind # "TIED_SUSPENDED"
    BY <1>3, <2>2
  <2> QED
    BY <2>1, <2>2
<1> HIDE DEF S3
<1>6. /\ S3.task[n].kind = "TIED"
      /\ S3.task[n].parent # None => S3.task[n].child # "out"
      /\ S3.task[t].kind \in {"IMPLICIT", "TIED"}
  BY <1>2, <1>4, <1>5 DEF UnparkEffect, SameQ
<1>7. InStep(R, {}) /\ \E Q : GoneEffect(S3, Q, n) /\ ReleaseEffect(Q, R, n)
  BY <1>2, <1>5, <1>6, TerminateInStep
<1> HIDE DEF R
<1>8. PICK Q : GoneEffect(S3, Q, n) /\ ReleaseEffect(Q, R, n)
  BY <1>7
<1>9. EndEffect(S, R, h, t, n)
  BY <1>2, <1>3, <1>5, <1>8, EndSteps
<1> QED
  BY <1>1, <1>7, <1>9

(* The implicit task t is in the loop of the barrier.                      *)
BarrierEffect(Q, R, t) ==
  /\ R \in StateRec /\ R.thr = Q.thr /\ \A c \in Task \ {t} : R.task[c] = Q.task[c]
  /\ SameButRun(Q.task[t], R.task[t]) /\ R.task[t].pc = "bloop"
  /\ R.task[t].tw = Q.task[t].tw /\ R.task[t].done = Q.task[t].done
  /\ R.team.running = Q.team.running - 1 /\ R.team.over = AllTasksDone(Q)
  /\ R.team.count = Q.team.count /\ R.team.queued = Q.team.queued
  /\ R.team.pending = Q.team.pending /\ R.team.arrived = Q.team.arrived
  /\ R.team.waiting = Q.team.waiting /\ R.team.lock = Q.team.lock
  /\ R.team.fault = Q.team.fault

(* The end of a task of gomp_barrier_handle_tasks keeps them in step.      *)
LEMMA BarrierAfterInStep ==
  ASSUME NEW S, NEW h \in Thread, NEW t \in Thread, NEW n \in Explicit, InStep(S, {}),
         S.task[n].kind = "TIED", ~S.task[t].tw,
         S.task[n].parent # None => S.task[n].child # "out"
  PROVE  LET R == BarrierAfter(S, h, t, n)
         IN InStep(R, {}) /\ \E Q : EndEffect(S, Q, h, t, n) /\ BarrierEffect(Q, R, t)
<1> DEFINE S1 == RemoveTied([S EXCEPT !.task[t].from = None, !.thr[h].task = t], h, t, n)
           S2 == RemoveParent(S1, n)
           Q == Release(S2, n)
           R == [Q EXCEPT !.task[t].pc = "bloop", !.team.running = @ - 1,
                          !.team.over = AllTasksDone(Q)]
<1>1. BarrierAfter(S, h, t, n) = R
  BY DEF BarrierAfter
<1>2. n # t /\ n \in Task /\ t \in Task /\ S.task[t].kind = "IMPLICIT"
  BY SchedAssumption DEF Task, InStep
<1>3. InStep(S1, {}) /\ DetachEffect(S, S1, h, t, n)
  BY <1>2, DetachInStep
<1> HIDE DEF S1
<1>4. S1.task[n].kind = "TIED" /\ (S1.task[n].parent # None => S1.task[n].child # "out")
  <2>1. SameQ(S.task[n], S1.task[n])
    BY <1>2, <1>3 DEF DetachEffect
  <2> QED
    BY <2>1 DEF SameQ
<1>5. InStep(S2, {}) /\ GoneEffect(S1, S2, n)
  BY <1>3, <1>4, RemoveParentInStep
<1> HIDE DEF S2
<1>6. S2.task[n].kind = "TIED" /\ S2.task[n].child = "out"
  BY <1>2, <1>4, <1>5 DEF GoneEffect, SameFixed
<1>7. InStep(Q, {}) /\ ReleaseEffect(S2, Q, n)
  BY <1>5, <1>6, ReleaseInStep
<1> HIDE DEF Q
<1>8. EndEffect(S, Q, h, t, n)
  <2>1. IF S.task[t].kind = "TIED_SUSPENDED" THEN UnparkEffect(S1, S1, t) ELSE S1 = S1
    BY <1>2
  <2> QED
    BY <1>2, <1>3, <1>5, <1>7, <2>1, EndSteps
<1>9. PICK r \in Int : r = Q.team.running - 1
  BY <1>8 DEF EndEffect, StateRec, TeamRec
<1>10. PICK o \in BOOLEAN : o = AllTasksDone(Q)
  BY <1>8 DEF EndEffect, StateRec, TeamRec, AllTasksDone
<1> DEFINE V == [Q.team EXCEPT !.running = r, !.over = o]
           Q1 == [Q EXCEPT !.team = V]
<1>11. Q \in StateRec /\ "bloop" \in Labels
  BY <1>8 DEF EndEffect, Labels
<1>12. V \in TeamRec
  BY <1>11 DEF StateRec, TeamRec
<1>13. /\ V.running = r /\ V.over = o /\ V.count = Q.team.count /\ V.queued = Q.team.queued
       /\ V.pending = Q.team.pending /\ V.arrived = Q.team.arrived
       /\ V.waiting = Q.team.waiting /\ V.lock = Q.team.lock /\ V.fault = Q.team.fault
  BY <1>11 DEF StateRec, TeamRec
<1>14. R = Goto(Q1, t, "bloop")
  <2>1. R = [Q EXCEPT !.task[t].pc = "bloop", !.team.running = r, !.team.over = o]
    BY <1>9, <1>10, Zenon
  <2> QED
    BY <1>11, <2>1 DEF Goto, StateRec
<1> HIDE DEF V, R
<1>15. Q1 \in StateRec /\ Q1.thr = Q.thr /\ Q1.team = V /\ Q1.task = Q.task
  BY <1>11, <1>12, SetTeam
<1>16. InStep(Q1, {})
  <2>1. \A c \in Explicit : SameQ(Q.task[c], Q1.task[c])
    BY <1>15 DEF SameQ
  <2>2. SameImplicit(Q, Q1)
    BY <1>15 DEF SameImplicit
  <2> QED
    BY <1>7, <1>13, <1>15, <2>1, <2>2, InStepFrame
<1> HIDE DEF Q1
<1>17. /\ RunStep(Q1, R, t) /\ R.team = Q1.team /\ R.task[t].pc = "bloop"
       /\ R.task[t].tw = Q1.task[t].tw /\ R.task[t].done = Q1.task[t].done
  BY <1>2, <1>11, <1>14, <1>15, GotoEffect
<1>18. ~R.task[t].tw
  BY <1>2, <1>8, <1>15, <1>17 DEF EndEffect, EndRec
<1>19. Q1.task[t].kind = "IMPLICIT"
  BY <1>16 DEF InStep
<1>20. InStep(R, {})
  BY <1>2, <1>16, <1>17, <1>18, <1>19, RunInStep
<1>21. BarrierEffect(Q, R, t)
  BY <1>9, <1>10, <1>13, <1>15, <1>17 DEF BarrierEffect, RunStep
<1> QED
  BY <1>1, <1>8, <1>20, <1>21

(* The record of a new task: it waits in the queues, or runs at once.      *)
NewRec(U, k, type, prio, t, asc, creators) ==
  /\ U.kind = k /\ U.tq = (IF k = "WAITING" THEN "list" ELSE "out") /\ U.type = type
  /\ U.prio = prio /\ U.parent = t /\ U.asc = asc /\ U.creators = creators
  /\ U.blocked = FALSE /\ U.susp = None /\ U.tw = FALSE /\ U.to = None /\ U.from = None
  /\ U.prev = None /\ U.next = None /\ U.child = "list" /\ U.sq = "out" /\ U.lq = "out"
  /\ U.pc = "run" /\ U.done = {}

(* What the creation of c changes.                                         *)
CreateEffect(S, R, c) ==
  /\ R \in StateRec /\ R.thr = S.thr /\ \A d \in Task \ {c} : R.task[d] = S.task[d]
  /\ R.team.count = S.team.count + 1 /\ R.team.running = S.team.running
  /\ R.team.arrived = S.team.arrived /\ R.team.waiting = S.team.waiting
  /\ R.team.over = S.team.over /\ R.team.lock = S.team.lock /\ R.team.fault = S.team.fault

(* A new child of a running task keeps the queues in step.                 *)
LEMMA NewTaskInStep ==
  ASSUME NEW S, NEW R, NEW t \in Task, NEW c \in Explicit, NEW k \in {"WAITING", "TIED"},
         NEW type, NEW prio, NEW asc, NEW creators,
         InStep(S, {}), S.task[c].kind = "none", S.task[t].kind \in {"IMPLICIT", "TIED"},
         t \in Explicit => t < c, CreateEffect(S, R, c),
         NewRec(R.task[c], k, type, prio, t, asc, creators),
         IF k = "WAITING" THEN R.team.queued = S.team.queued + 1 /\ R.team.pending
         ELSE R.team.queued = S.team.queued /\ R.team.pending = S.team.pending
  PROVE  InStep(R, {})
<1>1. S \in StateRec /\ R \in StateRec /\ c \in Task /\ Explicit \subseteq Task /\ Thread \subseteq Task
      /\ None \notin Task /\ \A d \in Task \ {c} : R.task[d] = S.task[d]
  BY SchedAssumption DEF InStep, Task, CreateEffect
<1>2. S.task[c].child = "out" /\ S.task[c].tq = "out"
  BY DEF InStep, Alone
<1>3. ASSUME NEW p, p # t, NEW d \in Explicit
      PROVE  /\ d \in Children(R, p) <=> d \in Children(S, p)
             /\ d \in ReadyKids(R, p) <=> d \in ReadyKids(S, p)
  <2>1. CASE d = c
    BY <1>2, <1>3, <2>1 DEF Children, ReadyKids, NewRec
  <2>2. CASE d # c
    <3>1. R.task[d] = S.task[d]
      BY <1>1, <2>2
    <3> QED
      BY <3>1 DEF Children, ReadyKids
  <2> QED
    BY <2>1, <2>2
<1>4. \A p : p # t => Children(R, p) = Children(S, p) /\ ReadyKids(R, p) = ReadyKids(S, p)
  <2> SUFFICES ASSUME NEW p, p # t
               PROVE  Children(R, p) = Children(S, p) /\ ReadyKids(R, p) = ReadyKids(S, p)
    OBVIOUS
  <2>1. /\ Children(R, p) \subseteq Explicit /\ Children(S, p) \subseteq Explicit
        /\ ReadyKids(R, p) \subseteq Explicit /\ ReadyKids(S, p) \subseteq Explicit
    BY DEF Children, ReadyKids
  <2> QED
    BY <1>3, <2>1
<1>5. Alone(R.task[c], c)
  <2>1. t # None
    BY <1>1
  <2> QED
    BY <2>1 DEF Alone, NewRec, ListOf
<1>6. Reason(R, c)
  BY DEF Reason, Held, NewRec
<1>7. \A d \in Explicit : Reason(R, d)
  <2> SUFFICES ASSUME NEW d \in Explicit, d # c PROVE Reason(R, d)
    BY <1>6
  <2>1. R.task[d] = S.task[d] /\ Reason(S, d)
    BY <1>1 DEF InStep
  <2>2. CASE d = t
    BY <2>1, <2>2 DEF Reason
  <2>3. CASE d # t
    BY <1>1, <1>4, <2>1, <2>3, ReasonFrame
  <2> QED
    BY <2>2, <2>3
<1>8. \A d \in Explicit : Alone(R.task[d], d)
  BY <1>1, <1>5 DEF InStep
<1>9. \A h \in Thread : R.task[h].kind = "IMPLICIT" /\ R.task[h].type = "TIED" /\ R.task[h].parent = None
  BY <1>1, SchedAssumption DEF InStep
<1>10. Counted(R)
  <2>1. \A d \in Explicit \ {c} : R.task[d].tq = S.task[d].tq
    BY <1>1
  <2>2. S.team.queued = Cardinality(QueuedIn(S)) /\ (S.team.pending <=> S.team.queued > 0)
    BY DEF InStep, Counted
  <2>3. CASE k = "WAITING"
    <3>1. R.task[c].tq = "list" /\ S.task[c].tq # "list"
      BY <1>2, <2>3 DEF NewRec
    <3>2. /\ Cardinality(QueuedIn(R)) = Cardinality(QueuedIn(S)) + 1
          /\ Cardinality(QueuedIn(S)) \in Nat
      BY <1>1, <2>1, <3>1, QueuedChange
    <3> PICK q \in Nat : q = S.team.queued
      BY <2>2, <3>2
    <3>3. R.team.queued = q + 1 /\ R.team.pending
      BY <2>3
    <3>4. R.team.queued > 0
      BY <3>3
    <3> QED
      BY <2>2, <3>2, <3>3, <3>4 DEF Counted
  <2>4. CASE k = "TIED"
    <3>1. R.task[c].tq = S.task[c].tq
      BY <1>2, <2>4 DEF NewRec
    <3>2. QueuedIn(R) = QueuedIn(S)
      BY <1>1, <2>1, <3>1, QueuedChange
    <3> QED
      BY <2>2, <2>4, <3>2 DEF Counted
  <2> QED
    BY <2>3, <2>4
<1> QED
  BY <1>1, <1>7, <1>8, <1>9, <1>10 DEF InStep
-----------------------------------------------------------------------------
(* gomp_barrier_handle_tasks starts n on thread h.                         *)

(* What the start of a task leaves alone.                                  *)
SameButStart(T, U) ==
  /\ T.kind = U.kind /\ T.type = U.type /\ T.prio = U.prio /\ T.parent = U.parent
  /\ T.asc = U.asc /\ T.susp = U.susp /\ T.blocked = U.blocked /\ T.tw = U.tw
  /\ T.child = U.child /\ T.tq = U.tq /\ T.sq = U.sq /\ T.lq = U.lq
  /\ T.done = U.done /\ T.creators = U.creators

(* What the start of n on h changes.                                       *)
StartEffect(S, R, h, n) ==
  /\ R \in StateRec
  /\ R.team.running = S.team.running + 1 /\ R.team.count = S.team.count
  /\ R.team.queued = S.team.queued /\ R.team.pending = S.team.pending
  /\ R.team.arrived = S.team.arrived /\ R.team.waiting = S.team.waiting
  /\ R.team.over = S.team.over /\ R.team.lock = S.team.lock /\ R.team.fault = S.team.fault
  /\ \A g \in Thread : /\ R.thr[g].task = IF g = h THEN n ELSE S.thr[g].task
                       /\ g # h => R.thr[g].last = S.thr[g].last
  /\ \A c \in Task : /\ SameButStart(S.task[c], R.task[c])
                     /\ R.task[c].pc = IF c = h THEN "brun" ELSE S.task[c].pc
  /\ PushLinks(S, R, h, n) /\ Inserted(S, R, h, h, n)

(* StartTask changes just that.                                            *)
LEMMA StartIs ==
  ASSUME NEW S \in StateRec, NEW h \in Thread, NEW n \in Explicit
  PROVE  StartEffect(S, StartTask(S, h, n), h, n)
<1> DEFINE S1 == OnTop(S, h, n)
<1>0. h \in Task /\ n \in Task /\ h # n /\ "brun" \in Labels
  BY SchedAssumption DEF Task, Labels
<1>1. TopEffect(S, S1, h, n)
  BY <1>0, OnTopEffect
<1> HIDE DEF S1
<1>2. S1 \in StateRec /\ S1.thr = S.thr /\ S1.team = S.team
  BY <1>1 DEF TopEffect
<1>3. PICK r \in Int : r = S.team.running + 1
  BY DEF StateRec, TeamRec
<1> DEFINE V == [S.team EXCEPT !.running = r]
           N == [S1.task[n] EXCEPT !.inTied = TRUE]
           S2 == [S1 EXCEPT !.team = V]
           S3 == [S2 EXCEPT !.task[n] = N]
           S4 == Goto(S3, h, "brun")
           S5 == [S4 EXCEPT !.thr[h].task = n]
           R == InsertTied(S5, h, h, n)
<1>4. StartTask(S, h, n) = R
  <2>1. StartTask(S, h, n)
          = InsertTied([S1 EXCEPT !.team.running = r, !.task[n].inTied = TRUE,
                                  !.task[h].pc = "brun", !.thr[h].task = n], h, h, n)
    <3>1. r = S1.team.running + 1
      BY <1>2, <1>3
    <3> QED
      BY <3>1, Zenon DEF StartTask, S1
  <2>2. S2 = [S1 EXCEPT !.team.running = r]
    BY <1>2 DEF StateRec
  <2>3. S3 = [S2 EXCEPT !.task[n].inTied = TRUE]
    BY <1>2 DEF StateRec
  <2>4. S5 = [[[[S1 EXCEPT !.team.running = r] EXCEPT !.task[n].inTied = TRUE]
                 EXCEPT !.task[h].pc = "brun"] EXCEPT !.thr[h].task = n]
    <3> HIDE DEF S2, S3
    <3> QED
      BY <2>2, <2>3 DEF Goto
  <2>5. S5 = [S1 EXCEPT !.team.running = r, !.task[n].inTied = TRUE,
                        !.task[h].pc = "brun", !.thr[h].task = n]
    <3> HIDE DEF S5
    <3> QED
      BY <2>4
  <2> HIDE DEF S5
  <2> QED
    BY <2>1, <2>5
<1>5. V \in TeamRec
  BY DEF StateRec, TeamRec
<1>6. /\ V.running = r /\ V.over = S.team.over /\ V.count = S.team.count
      /\ V.queued = S.team.queued
      /\ V.pending = S.team.pending /\ V.arrived = S.team.arrived
      /\ V.waiting = S.team.waiting /\ V.lock = S.team.lock /\ V.fault = S.team.fault
  BY DEF StateRec, TeamRec
<1>7. S1.task[n] \in TaskRec
  BY <1>0, <1>2 DEF StateRec
<1>8. N \in TaskRec
  BY <1>7 DEF TaskRec
<1>9. SameButStart(S1.task[n], N) /\ N.to = S1.task[n].to /\ N.from = S1.task[n].from
      /\ N.prev = S1.task[n].prev /\ N.next = S1.task[n].next /\ N.pc = S1.task[n].pc
  BY <1>7 DEF TaskRec, SameButStart
<1> HIDE DEF V, N
<1>10. S2 \in StateRec /\ S2.thr = S.thr /\ S2.team = V /\ S2.task = S1.task
  BY <1>2, <1>5, SetTeam
<1> HIDE DEF S2
<1>11. S3 \in StateRec /\ S3.thr = S.thr /\ S3.team = V /\ S3.task[n] = N
       /\ \A c \in Task \ {n} : S3.task[c] = S1.task[c]
  BY <1>0, <1>8, <1>10, SetTask
<1> HIDE DEF S3
<1>12. /\ RunStep(S3, S4, h) /\ S4.team = S3.team /\ S4.task[h].pc = "brun"
       /\ S4.task[h].tw = S3.task[h].tw /\ S4.task[h].done = S3.task[h].done
  BY <1>0, <1>11, GotoEffect
<1> HIDE DEF S4
<1>13. /\ S5 \in StateRec /\ S5.task = S4.task /\ S5.team = S4.team
       /\ \A g \in Thread : S5.thr[g].last = S4.thr[g].last
       /\ \A g \in Thread : S5.thr[g].task = IF g = h THEN n ELSE S4.thr[g].task
  BY <1>0, <1>12, SetCurrent DEF RunStep
<1> HIDE DEF S5
<1>14. ListFrame(S5, R, h) /\ Inserted(S5, R, h, h, n)
  BY <1>0, <1>13, InsertTiedEffect
<1> HIDE DEF R
<1>15. ASSUME NEW c \in Task
       PROVE  /\ SameButStart(S.task[c], S5.task[c])
              /\ S5.task[c].pc = IF c = h THEN "brun" ELSE S.task[c].pc
              /\ S5.task[c].to = S1.task[c].to /\ S5.task[c].from = S1.task[c].from
              /\ S5.task[c].prev = S.task[c].prev /\ S5.task[c].next = S.task[c].next
  <2>1. SameButChain(S.task[c], S1.task[c])
    BY <1>1 DEF TopEffect
  <2>2. CASE c = h
    <3>1. S5.task[c] = S4.task[c] /\ S3.task[c] = S1.task[c]
      BY <1>0, <1>11, <1>13, <2>2
    <3> QED
      BY <1>12, <2>1, <2>2, <3>1 DEF RunStep, SameButRun, SameButStart, SameButChain, SameStatic, SameQ
  <2>3. CASE c # h
    <3>1. S5.task[c] = S3.task[c]
      BY <1>12, <1>13, <2>3 DEF RunStep
    <3>2. SameButStart(S1.task[c], S3.task[c])
          /\ S3.task[c].to = S1.task[c].to /\ S3.task[c].from = S1.task[c].from
          /\ S3.task[c].prev = S1.task[c].prev /\ S3.task[c].next = S1.task[c].next
          /\ S3.task[c].pc = S1.task[c].pc
      BY <1>9, <1>11 DEF SameButStart
    <3> QED
      BY <2>1, <2>3, <3>1, <3>2 DEF SameButStart, SameButChain, SameStatic, SameQ
  <2> QED
    BY <2>2, <2>3
<1>16. ASSUME NEW c \in Task
       PROVE  /\ SameButStart(S.task[c], R.task[c])
              /\ R.task[c].pc = IF c = h THEN "brun" ELSE S.task[c].pc
              /\ R.task[c].to = S1.task[c].to /\ R.task[c].from = S1.task[c].from
  <2>1. SameButList(S5.task[c], R.task[c])
    BY <1>14 DEF ListFrame
  <2> QED
    BY <1>15, <2>1 DEF SameButList, SameStatic, SameQ, SameButStart
<1>17. PushLinks(S, R, h, n)
  BY <1>1, <1>16 DEF PushLinks, TopEffect
<1>18. Inserted(S, R, h, h, n)
  <2>1. SameLists(S, S5) /\ SameLists(R, R)
    BY <1>15 DEF SameLists
  <2>2. S5.task[n].type = S.task[n].type /\ S5.task[h].kind = S.task[h].kind
    BY <1>0, <1>15 DEF SameButStart
  <2>3. S5.thr[h].last = S.thr[h].last
    BY <1>11, <1>12, <1>13 DEF RunStep
  <2> QED
    BY <1>0, <1>14, <2>1, <2>2, <2>3, InsertedFrame
<1>19. \A g \in Thread : /\ R.thr[g].task = IF g = h THEN n ELSE S.thr[g].task
                         /\ g # h => R.thr[g].last = S.thr[g].last
  BY <1>11, <1>12, <1>13, <1>14 DEF RunStep, ListFrame
<1>20. R \in StateRec /\ R.team = V
  BY <1>11, <1>12, <1>13, <1>14 DEF ListFrame
<1> QED
  BY <1>3, <1>4, <1>6, <1>16, <1>17, <1>18, <1>19, <1>20 DEF StartEffect

(* Starting a task keeps the queues in step.                               *)
LEMMA StartInStep ==
  ASSUME NEW S, NEW h \in Thread, NEW n \in Explicit, InStep(S, {}), Pickable(S, n),
         S.task[h].pc \in Labels
  PROVE  LET R == StartTask(RunPre(S, n), h, n)
         IN InStep(R, {}) /\ \E Q : InStep(Q, {}) /\ PreEffect(S, Q, n) /\ StartEffect(Q, R, h, n)
<1> DEFINE Q == RunPre(S, n)
           R == StartTask(Q, h, n)
<1>1. InStep(Q, {}) /\ PreEffect(S, Q, n)
  BY RunPreInStep
<1> HIDE DEF Q
<1>2. StartEffect(Q, R, h, n)
  <2>1. Q \in StateRec
    BY <1>1 DEF InStep
  <2> QED
    BY <2>1, StartIs
<1> HIDE DEF R
<1>3. InStep(R, {})
  <2>1. \A c \in Explicit : SameQ(Q.task[c], R.task[c])
    <3> SUFFICES ASSUME NEW c \in Explicit PROVE SameQ(Q.task[c], R.task[c])
      OBVIOUS
    <3>1. c \in Task /\ c # h
      BY SchedAssumption DEF Task
    <3> QED
      BY <1>2, <3>1 DEF StartEffect, SameButStart, SameQ
  <2>2. SameImplicit(Q, R)
    BY <1>2 DEF StartEffect, SameButStart, SameImplicit, Task
  <2>3. R \in StateRec /\ R.team.queued = Q.team.queued /\ R.team.pending = Q.team.pending
    BY <1>2 DEF StartEffect
  <2> QED
    BY <1>1, <2>1, <2>2, <2>3, InStepFrame
<1> QED
  BY <1>1, <1>2, <1>3 DEF R, Q
=============================================================================
