--------------------------- MODULE PriorityQueue ---------------------------
(***************************************************************************)
(* A task queue (struct priority_queue): one ring of tasks per priority,   *)
(* the rings of a queue with more than one priority in a splay tree, the   *)
(* ring of a queue with none but priority 0 in head->l.  A ring of ready   *)
(* and running tasks starts at list->tasks, one of blocked tasks at        *)
(* list->blocked_tasks.                                                    *)
(*                                                                         *)
(* Two sorts of queue are told apart, as by the test of the queue's type in*)
(* priority_list_insert: "team" stands for PQ_TEAM_*, PQ_SUSPENDED_* and   *)
(* PQ_LOCKED, which hold no running task, and "children" for PQ_CHILDREN_* *)
(* and PQ_TASKGROUP_*, which do.  A call is one step: all of them are made *)
(* with the team's task_lock held.  The actions are the calls of task.c and*)
(* task.h, each with the change of the task's fields that goes with it.    *)
(***************************************************************************)
EXTENDS SplayTree, Sequences, SequencesExt, FiniteSets, FiniteSetsExt

CONSTANTS
  Node,          \* the tasks, or rather their priority_nodes in this queue
  MaxPrio

NoNode == "NULL"
Prio == 0..MaxPrio
L == -1                          \* the list head->l, beside those of the tree
MaybeNode == Node \cup {NoNode}

VARIABLES
  sort,          \* "team" or "children"
  pq,            \* the queue and the links of the nodes
  task           \* [kind, prio, is_blocked, parent_depends_on] of the nodes

vars == <<sort, pq, task>>

EmptyList == [tasks |-> NoNode, blocked_tasks |-> NoNode,
              last_parent_depends_on |-> NoNode, first_running_task |-> NoNode]

Out == [kind |-> "out", prio |-> 0, is_blocked |-> FALSE, parent_depends_on |-> FALSE]

Init ==
  /\ sort \in {"team", "children"}
  /\ pq = [lists |-> [i \in Prio \cup {L} |-> EmptyList], t |-> EmptyTree(Prio),
           next |-> [n \in Node |-> NoNode], prev |-> [n \in Node |-> NoNode],
           num |-> 0, num_waiting |-> 0, highest_priority |-> 0]
  /\ task = [n \in Node |-> Out]

(***************************************************************************)
(* Rings.                                                                  *)
(***************************************************************************)
Alone(Q, n) == [Q EXCEPT !.next[n] = n, !.prev[n] = n]

(* Link n in before x.                                                     *)
LinkBefore(Q, n, x) ==
  LET p == Q.prev[x]
  IN [Q EXCEPT !.next = [@ EXCEPT ![n] = x, ![p] = n],
               !.prev = [@ EXCEPT ![n] = p, ![x] = n]]

MutUnlink(Q, n) == [Q EXCEPT !.next[Q.prev[n]] = Q.next[n]]

Unlink(Q, n) ==
  LET q == [Q EXCEPT !.prev[Q.next[n]] = Q.prev[n]]
  IN [q EXCEPT !.next[q.prev[n]] = q.next[n]]

(* priority_list_insert where it does not look at the type.                *)
InsertBlocked(Q, i, n) ==
  IF Q.lists[i].blocked_tasks = NoNode
  THEN [Alone(Q, n) EXCEPT !.lists[i].blocked_tasks = n]
  ELSE LinkBefore(Q, n, Q.lists[i].blocked_tasks)

InsertTeam(Q, i, n, pos) ==
  LET q == LinkBefore(Q, n, Q.lists[i].tasks)
  IN IF pos = "BEGIN" THEN [q EXCEPT !.lists[i].tasks = n] ELSE q

(* A task its parent depends on goes before the others, and every task that*)
(* is not running before those that are.                                   *)
InsertChild(Q, i, n, pos, pdo) ==
  LET l == Q.lists[i]
      last == l.last_parent_depends_on
      first == l.first_running_task
      front == pos = "BEGIN"
  IN CASE pdo /\ (front \/ last = NoNode) ->
            [LinkBefore(Q, n, l.tasks) EXCEPT
               !.lists[i].tasks = n,
               !.lists[i].last_parent_depends_on = IF @ = NoNode THEN n ELSE @]
       [] pdo /\ ~front /\ last # NoNode ->
            [LinkBefore(Q, n, Q.next[last]) EXCEPT !.lists[i].last_parent_depends_on = n]
       [] ~pdo /\ (IF front THEN last = NoNode ELSE first = NoNode) ->
            [LinkBefore(Q, n, l.tasks) EXCEPT !.lists[i].tasks = IF front THEN n ELSE @]
       [] ~pdo /\ front /\ last # NoNode -> LinkBefore(Q, n, Q.next[last])
       [] ~pdo /\ ~front /\ first # NoNode ->
            [LinkBefore(Q, n, first) EXCEPT !.lists[i].tasks = IF @ = first THEN n ELSE @]

PriorityListInsert(Q, i, n, pos, pdo, blocked) ==
  CASE blocked -> InsertBlocked(Q, i, n)
    [] ~blocked /\ Q.lists[i].tasks = NoNode ->
         [Alone(Q, n) EXCEPT
            !.lists[i].tasks = n,
            !.lists[i].last_parent_depends_on = IF sort = "children" /\ pdo THEN n ELSE @]
    [] ~blocked /\ Q.lists[i].tasks # NoNode /\ sort = "team" -> InsertTeam(Q, i, n, pos)
    [] OTHER -> InsertChild(Q, i, n, pos, pdo)

PriorityListInsertRunning(Q, i, n) ==
  [(IF Q.lists[i].tasks = NoNode THEN [Alone(Q, n) EXCEPT !.lists[i].tasks = n]
                                 ELSE LinkBefore(Q, n, Q.lists[i].tasks))
   EXCEPT !.lists[i].first_running_task =
            IF @ = NoNode \/ Q.lists[i].tasks = NoNode THEN n ELSE @]

(* The first running task and the last awaited one when n leaves its ring. *)
FirstRunningWithout(Q, i, n) ==
  LET l == Q.lists[i]
  IN CASE l.first_running_task # n -> l.first_running_task
       [] l.first_running_task = n /\ l.tasks # n /\ Q.next[n] = l.tasks -> NoNode
       [] OTHER -> Q.next[n]

LastAwaitedWithout(Q, i, n) ==
  LET l == Q.lists[i]
  IN CASE l.last_parent_depends_on # n \/ l.first_running_task = n -> l.last_parent_depends_on
       [] OTHER -> IF l.tasks = n THEN NoNode ELSE Q.prev[n]

RemoveOnly(Q, i) ==
  LET running == Q.lists[i].first_running_task # NoNode
  IN [Q EXCEPT !.lists[i].tasks = NoNode,
               !.lists[i].first_running_task = IF sort = "children" THEN NoNode ELSE @,
               !.lists[i].last_parent_depends_on =
                  IF sort = "children" /\ ~running THEN NoNode ELSE @]

PriorityListRemove(Q, i, n, blocked) ==
  LET l == Q.lists[i]
      q == Unlink(Q, n)
      only == Q.next[n] = n
  IN CASE blocked ->
            IF only THEN [Q EXCEPT !.lists[i].blocked_tasks = NoNode]
            ELSE [q EXCEPT !.lists[i].blocked_tasks = IF @ = n THEN Q.next[n] ELSE @]
       [] ~blocked /\ l.tasks = n /\ only -> RemoveOnly(Q, i)
       [] OTHER ->
            [q EXCEPT
               !.lists[i].tasks = IF @ = n THEN Q.next[n] ELSE @,
               !.lists[i].first_running_task =
                  IF sort = "children" THEN FirstRunningWithout(Q, i, n) ELSE @,
               !.lists[i].last_parent_depends_on =
                  IF sort = "children" THEN LastAwaitedWithout(Q, i, n) ELSE @]

Emptied(Q, i) == Q.lists[i].tasks = NoNode /\ Q.lists[i].blocked_tasks = NoNode

(***************************************************************************)
(* Queues.                                                                 *)
(***************************************************************************)
Multi(Q) == Q.t.root # Nil

(* The list that holds the tasks of priority p, after the splay of a       *)
(* lookup in the tree.                                                     *)
QueueList(Q, p) == IF Multi(Q) THEN p ELSE L
Found(Q, p) == IF Multi(Q) THEN [Q EXCEPT !.t = Splay(@, p)] ELSE Q

(* highest_priority is stored anew when highest_marked changed.            *)
StoreHighest(Q, t) ==
  [Q EXCEPT !.t = t,
            !.highest_priority = CASE t.highest_marked = Q.t.highest_marked -> @
                                   [] t.highest_marked # Nil -> t.highest_marked
                                   [] OTHER -> 0]

IsReady(T, n) == n # NoNode /\ T[n].kind = "WAITING"

(* The first task of a priority other than 0: "transfer any priority 0     *)
(* items to the tree".                                                     *)
Transfer(Q, T) ==
  IF Multi(Q) \/ Q.lists[L].tasks = NoNode THEN Q
  ELSE [Q EXCEPT !.t = HpListInsert(@, 0, IsReady(T, Q.lists[L].tasks)),
                 !.lists = [@ EXCEPT ![0] = Q.lists[L],
                                     ![L].tasks = NoNode, ![L].blocked_tasks = NoNode]]

(* The list of priority p in the tree, made if there is none; ready says   *)
(* that the task to come can be picked.                                    *)
ListFor(Q, p, ready) ==
  LET t == Splay(Q.t, p)
  IN IF t.root = p
     THEN StoreHighest([Q EXCEPT !.t = t], IF ready THEN MarkNode(t, p, TRUE) ELSE t)
     ELSE [StoreHighest(Q, HpListInsert(t, p, ready)) EXCEPT !.lists[p] = EmptyList]

(* priority_queue_insert and priority_queue_insert_running: the list the   *)
(* task goes to.                                                           *)
Prepare(Q, T, p, ready) ==
  IF Multi(Q) \/ p > 0 THEN ListFor(Transfer(Q, T), p, ready) ELSE Q

Place(Q, p) == IF Multi(Q) \/ p > 0 THEN p ELSE L

PriorityQueueInsert(Q, T, n, p, pos, pdo, blocked) ==
  [PriorityListInsert(Prepare(Q, T, p, ~blocked), Place(Q, p), n, pos, pdo, blocked)
   EXCEPT !.num = @ + 1, !.num_waiting = IF blocked THEN @ ELSE @ + 1]

PriorityQueueInsertRunning(Q, T, n, p) ==
  [PriorityListInsertRunning(Prepare(Q, T, p, FALSE), Place(Q, p), n) EXCEPT !.num = @ + 1]

MutUnmarkIfIdle(Q, T, p, n) == Q

(* The priority is unmarked when the list does not start with a task that  *)
(* can be picked; n is the task that is about to run, if any.              *)
UnmarkIfIdle(Q, T, p, n) ==
  LET first == Q.lists[p].tasks
  IN IF Multi(Q) /\ (first = n \/ ~IsReady(T, first))
     THEN StoreHighest(Q, MarkNode(Q.t, p, FALSE)) ELSE Q

(* A list that lost its last task leaves the tree.                         *)
PriorityQueueRemove(Q, T, n, blocked) ==
  LET p == T[n].prio
      i == QueueList(Q, p)
      r == PriorityListRemove(Found(Q, p), i, n, blocked)
      u == CASE Multi(Q) /\ Emptied(r, i) ->
                  [StoreHighest(r, Freed(HpListRemove(r.t, p), p)) EXCEPT !.lists[p] = EmptyList]
             [] Multi(Q) /\ ~Emptied(r, i) /\ ~blocked -> UnmarkIfIdle(r, T, p, NoNode)
             [] OTHER -> r
  IN [u EXCEPT !.num = @ - 1,
               !.num_waiting = IF ~blocked /\ sort = "team" THEN @ - 1 ELSE @,
               !.next[n] = NoNode, !.prev[n] = NoNode]

(* priority_queue_adjust_task: a running task goes back among the waiting. *)
PriorityQueueAdjust(Q, T, n, pos) ==
  LET p == T[n].prio
      i == QueueList(Q, p)
      r == PriorityListInsert(PriorityListRemove(Found(Q, p), i, n, FALSE), i, n, pos,
                              T[n].parent_depends_on, FALSE)
      m == IF Multi(Q) THEN StoreHighest(r, MarkNode(r.t, p, TRUE)) ELSE r
  IN [m EXCEPT !.num_waiting = @ + 1]

PriorityQueueBlock(Q, T, n) ==
  LET p == T[n].prio
      i == QueueList(Q, p)
      r == PriorityListInsert(PriorityListRemove(Found(Q, p), i, n, FALSE), i, n,
                              "BEGIN", FALSE, TRUE)
      u == IF Multi(Q) THEN UnmarkIfIdle(r, T, p, NoNode) ELSE r
  IN [u EXCEPT !.num_waiting = IF T[n].kind = "WAITING" THEN @ - 1 ELSE @]

PriorityQueueUnblock(Q, T, n, pos) ==
  LET p == T[n].prio
      i == QueueList(Q, p)
      r == PriorityListInsert(PriorityListRemove(Found(Q, p), i, n, TRUE), i, n, pos,
                              T[n].parent_depends_on, FALSE)
      m == IF Multi(Q) THEN StoreHighest(r, MarkNode(r.t, p, TRUE)) ELSE r
  IN [m EXCEPT !.num_waiting = @ + 1]

(* priority_list_downgrade_task: n is about to run.                        *)
DowngradeInPlace(Q, i, n) ==
  [Q EXCEPT !.lists[i].tasks = IF @ = n THEN Q.next[n] ELSE @,
            !.lists[i].first_running_task = IF @ = NoNode \/ Q.lists[i].tasks # n THEN n ELSE @]

PriorityListDowngrade(Q, i, n) ==
  LET l == Q.lists[i]
      d == [Q EXCEPT !.lists[i].last_parent_depends_on =
              IF @ # n THEN @ ELSE IF l.tasks = n THEN NoNode ELSE Q.prev[n]]
  IN IF l.tasks = n \/ Q.next[n] \in {l.tasks, l.first_running_task}
     THEN DowngradeInPlace(d, i, n)
     ELSE [LinkBefore(Unlink(d, n), n, l.tasks) EXCEPT
             !.lists[i].first_running_task = IF @ = NoNode THEN n ELSE @]

PriorityQueueDowngrade(Q, T, n) ==
  LET p == T[n].prio
      r == PriorityListDowngrade(Found(Q, p), QueueList(Q, p), n)
      u == IF Multi(Q) THEN UnmarkIfIdle(r, T, p, n) ELSE r
  IN [u EXCEPT !.num_waiting = @ - 1]

MutPriorityListUpgrade(Q, i, n) ==
  LET l == Q.lists[i]
  IN [LinkBefore(Unlink(Q, n), n, l.tasks) EXCEPT
        !.lists[i].tasks = n, !.lists[i].last_parent_depends_on = n]

(* priority_list_upgrade_task: the parent waits for n, which is ready.     *)
PriorityListUpgrade(Q, i, n) ==
  LET l == Q.lists[i]
      last == l.last_parent_depends_on
      q == Unlink(Q, n)
  IN CASE l.tasks = n -> [Q EXCEPT !.lists[i].last_parent_depends_on = IF @ = NoNode THEN n ELSE @]
       [] l.tasks # n /\ last = NoNode ->
            [(IF Q.next[n] = l.tasks THEN Q ELSE LinkBefore(q, n, l.tasks)) EXCEPT
               !.lists[i].tasks = n, !.lists[i].last_parent_depends_on = n]
       [] l.tasks # n /\ last # NoNode /\ Q.prev[n] = last ->
            [Q EXCEPT !.lists[i].last_parent_depends_on = n]
       [] l.tasks # n /\ last # NoNode /\ Q.prev[n] # last /\ Q.next[n] = l.tasks ->
            [Q EXCEPT !.lists[i].tasks = n]
       [] OTHER -> [LinkBefore(q, n, q.next[last]) EXCEPT !.lists[i].last_parent_depends_on = n]

(***************************************************************************)
(* priority_queue_next_task for one queue: the highest priority whose list *)
(* starts with a WAITING task.                                             *)
(***************************************************************************)
RECURSIVE TreeNext(_, _, _)
TreeNext(Q, T, k) ==
  LET above == TreeNext(Q, T, Q.t.right[k])
      first == Q.lists[k].tasks
  IN CASE k = Nil -> NoNode
       [] k # Nil -> CASE above # NoNode -> above
                       [] above = NoNode /\ IsReady(T, first) -> first
                       [] OTHER -> TreeNext(Q, T, Q.t.left[k])

NextTask(Q, T) ==
  CASE Multi(Q) -> TreeNext(Q, T, Q.t.root)
    [] ~Multi(Q) /\ IsReady(T, Q.lists[L].tasks) -> Q.lists[L].tasks
    [] OTHER -> NoNode

(***************************************************************************)
(* The calls.  A task of kind "WAITING" can be picked unless it is blocked *)
(* (in a suspended queue its kind may be TIED_SUSPENDED, which the code    *)
(* treats alike), one of kind "TIED" is running.                           *)
(***************************************************************************)
Pos == {"BEGIN", "END"}       \* what the INS_*_POLICY of the run says

Queued(n) == task[n].kind # "out"
Ready(n) == task[n].kind = "WAITING" /\ ~task[n].is_blocked
Running(n) == task[n].kind = "TIED"

(* gomp_task, a released depender, a suspended task.  The children queues  *)
(* get no blocked task this way.                                           *)
Insert(n) ==
  \E p \in Prio, pos \in Pos, dep, blocked \in BOOLEAN :
    /\ ~Queued(n)
    /\ IF sort = "team" THEN ~dep ELSE ~blocked
    /\ pq' = PriorityQueueInsert(pq, task, n, p, pos, dep, blocked)
    /\ task' = [task EXCEPT ![n] = [kind |-> "WAITING", prio |-> p, is_blocked |-> blocked,
                                    parent_depends_on |-> dep]]
    /\ UNCHANGED sort

(* A task its creator runs at once (work-first scheduling).                *)
InsertRunning(n) ==
  \E p \in Prio :
    /\ ~Queued(n) /\ sort = "children"
    /\ pq' = PriorityQueueInsertRunning(pq, task, n, p)
    /\ task' = [task EXCEPT ![n] = [Out EXCEPT !.kind = "TIED", !.prio = p]]
    /\ UNCHANGED sort

(* gomp_task_run_pre takes the task out of the team's queues,              *)
(* gomp_task_run_post_remove_parent takes it, run, out of the children's.  *)
TakeOut(n) ==
  /\ IF sort = "team" THEN Queued(n) ELSE Running(n)
  /\ pq' = PriorityQueueRemove(pq, task, n, task[n].is_blocked)
  /\ task' = [task EXCEPT ![n] = Out]
  /\ UNCHANGED sort

(* gomp_task_run_pre.                                                      *)
Downgrade(n) ==
  /\ Ready(n) /\ sort = "children"
  /\ pq' = PriorityQueueDowngrade(pq, task, n)
  /\ task' = [task EXCEPT ![n].kind = "TIED"]
  /\ UNCHANGED sort

(* gomp_suspend_untied_task_for_successor.                                 *)
Adjust(n) ==
  \E pos \in Pos :
    /\ Running(n) /\ sort = "children"
    /\ pq' = PriorityQueueAdjust(pq, task, n, pos)
    /\ task' = [task EXCEPT ![n].kind = "WAITING"]
    /\ UNCHANGED sort

(* gomp_task_handle_blocking, gomp_suspend_untied_task_for_successor.      *)
Block(n) ==
  /\ Ready(n) \/ Running(n)
  /\ pq' = PriorityQueueBlock(pq, task, n)
  /\ task' = [task EXCEPT ![n].kind = "WAITING", ![n].is_blocked = TRUE]
  /\ UNCHANGED sort

(* gomp_task_handle_blocking, gomp_task_handle_locking.                    *)
Unblock(n) ==
  \E pos \in Pos :
    /\ task[n].is_blocked
    /\ pq' = PriorityQueueUnblock(pq, task, n, pos)
    /\ task' = [task EXCEPT ![n].is_blocked = FALSE]
    /\ UNCHANGED sort

(* gomp_task_maybe_wait_for_dependencies of the parent.                    *)
Await(n) ==
  /\ Queued(n) /\ sort = "children" /\ ~task[n].parent_depends_on
  /\ pq' = IF Ready(n) THEN LET p == task[n].prio
                            IN PriorityListUpgrade(Found(pq, p), QueueList(pq, p), n)
           ELSE pq
  /\ task' = [task EXCEPT ![n].parent_depends_on = TRUE]
  /\ UNCHANGED sort

Step(n) == \/ Insert(n) \/ InsertRunning(n) \/ TakeOut(n) \/ Downgrade(n)
           \/ Adjust(n) \/ Block(n) \/ Unblock(n) \/ Await(n)

Next == \E n \in Node : Step(n)

Spec == Init /\ [][Next]_vars

(***************************************************************************)
(* Properties.                                                             *)
(***************************************************************************)
(* The nodes of the ring that starts at first, in order; a ring that does  *)
(* not close after as many nodes as there are gives a sequence too long.   *)
RECURSIVE RingFrom(_, _, _, _)
RingFrom(Q, first, n, left) ==
  IF Q.next[n] = first \/ left = 0 THEN <<n>>
  ELSE <<n>> \o RingFrom(Q, first, Q.next[n], left - 1)

Ring(Q, first) == IF first = NoNode THEN <<>> ELSE RingFrom(Q, first, first, Cardinality(Node))

Used == IF Multi(pq) THEN KeysOf(pq.t) ELSE {L}
OfList(i) == {n \in Node : Queued(n) /\ (i = L \/ task[n].prio = i)}

Line(i) == Ring(pq, pq.lists[i].tasks)
Aside(i) == Ring(pq, pq.lists[i].blocked_tasks)

Index(s, x) == CHOOSE j \in 1..Len(s) : s[j] = x

Distinct(s) == \A j, k \in 1..Len(s) : j # k => s[j] # s[k]

BackLinked(s) == \A j \in 1..Len(s) : pq.prev[s[(j % Len(s)) + 1]] = s[j]

Rank(n) == CASE Running(n) -> 3
             [] ~Running(n) /\ sort = "children" /\ task[n].parent_depends_on -> 1
             [] OTHER -> 2

LastOf(s, S) == IF S = {} THEN NoNode ELSE CHOOSE n \in S : \A m \in S : Index(s, m) <= Index(s, n)
FirstOf(s, S) == IF S = {} THEN NoNode ELSE CHOOSE n \in S : \A m \in S : Index(s, n) <= Index(s, m)

(* Every queued task is in the one ring it belongs to, linked both ways,   *)
(* through every sequence of calls: no call loses a task, doubles it or    *)
(* leaves it on the wrong side (priority_list_insert, _remove,             *)
(* _downgrade_task, _upgrade_task, _adjust_task, _block_task).  The rings  *)
(* are in the order that priority_list_verify asserts, WAITING tasks       *)
(* before running ones and of those the parent's awaited ones first, and   *)
(* last_parent_depends_on and first_running_task name the last awaited and *)
(* the first running task.                                                 *)
RingsSound ==
  \A i \in Used :
    LET s == Line(i)
    IN /\ Distinct(s \o Aside(i)) /\ BackLinked(s) /\ BackLinked(Aside(i))
       /\ ToSet(s) = {n \in OfList(i) : ~task[n].is_blocked}
       /\ ToSet(Aside(i)) = {n \in OfList(i) : task[n].is_blocked}
       /\ \A j, k \in 1..Len(s) : j < k => Rank(s[j]) <= Rank(s[k])
       /\ s # <<>> =>
            /\ pq.lists[i].first_running_task = FirstOf(s, {n \in ToSet(s) : Rank(n) = 3})
            /\ pq.lists[i].last_parent_depends_on = LastOf(s, {n \in ToSet(s) : Rank(n) = 1})

ReadyPrios == {task[n].prio : n \in {m \in Node : Ready(m)}}

(* The counters and the cached maximum that threads read without the lock  *)
(* (num_priority_node, num_waiting_priority_node, highest_priority) agree  *)
(* with the tree and its lists after every call: the list in key order is  *)
(* that of the splay tree, the marked priorities are those with a task that*)
(* can be picked and highest_marked is the highest.                        *)
CachesExact ==
  /\ pq.num = Cardinality({n \in Node : Queued(n)})
  /\ pq.num_waiting = Cardinality({n \in Node : Ready(n)})
  /\ pq.highest_priority = IF ReadyPrios = {} THEN 0 ELSE Max(ReadyPrios)
  /\ SearchOrder(pq.t) /\ Neighbours(pq.t)
  /\ Multi(pq) => /\ Used = {task[n].prio : n \in {m \in Node : Queued(m)}}
                  /\ {p \in Used : pq.t.marked[p]} = ReadyPrios
                  /\ pq.t.num_marked = Cardinality(ReadyPrios)

(* The pick is a task of the highest priority that has a ready one, an     *)
(* awaited one before the others, and there is a pick whenever some task is*)
(* ready.                                                                  *)
PicksBest ==
  LET n == NextTask(pq, task)
      best == {m \in Node : Ready(m) /\ task[m].prio = Max(ReadyPrios)}
  IN IF ReadyPrios = {} THEN n = NoNode
     ELSE /\ n \in best /\ \A m \in best : Rank(n) <= Rank(m)

(* What the scheduler reads of a queue, with the lock or without it, is    *)
(* what the rings say.                                                     *)
ReadsExact == CachesExact /\ PicksBest

(* The queue as a TaskQueue: the lines of each priority.                   *)
Level == [p \in Prio |->
            LET i == QueueList(pq, p)
                here == p = 0 \/ Multi(pq)
                s == IF here THEN SelectSeq(Line(i), LAMBDA n : task[n].prio = p) ELSE <<>>
                b == IF here THEN ToSet(Aside(i)) ELSE {}
            IN [awaited |-> SelectSeq(s, LAMBDA n : Rank(n) = 1),
                plain |-> SelectSeq(s, LAMBDA n : Rank(n) = 2),
                running |-> {n \in ToSet(s) : Rank(n) = 3}, blocked |-> b]]

TQ == INSTANCE TaskQueue WITH Item <- Node, Level <- Prio, q <- Level

(* The rings implement the lines of a TaskQueue: a call moves the task it  *)
(* names to an end of a line and keeps every other task where it was.      *)
ImplementsTaskQueue == TQ!TQSpec

=============================================================================
