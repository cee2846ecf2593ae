----------------------------- MODULE TaskDepend -----------------------------
(***************************************************************************)
(* Explicit tasks without user-level threads (ult_var is FALSE, the        *)
(* library's default): depend clauses, taskwait, taskgroups with their     *)
(* cancellation, undeferred tasks and the tasks a team barrier runs        *)
(* (task.c).  A thread runs tasks nested on its own stack; a construct     *)
(* that waits runs a ready task, or sleeps on a semaphore.  Everything the *)
(* code does between two acquisitions of team->task_lock is one step; what *)
(* it reads without the lock is a step of its own.                         *)
(*                                                                         *)
(* Which ready task a queue hands out is the priority queues' business     *)
(* (module PriorityQueue): here it is any ready task of the queue.  Tasks  *)
(* are numbered in the order of their creation; the threads stand for      *)
(* their own implicit tasks.  Two history fields are never read by an      *)
(* operation: "origin" (the creating task, kept when parent is cleared)    *)
(* and a group's "owner".                                                  *)
(***************************************************************************)
EXTENDS Integers, FiniteSets, SequencesExt

CONSTANTS
  Thread,   \* the team
  Task,     \* explicit tasks, a bound on how many the program creates
  Group,    \* taskgroups, a bound on how many the program opens
  Addr,     \* addresses named in depend clauses
  Clauses   \* depend clauses: sequences of [addr, in], outs first

Null == 0

ASSUME ConstantsOK ==
  /\ Task \subseteq Nat \ {Null} /\ IsFiniteSet(Task)
  /\ Group \subseteq Nat \ {Null} /\ IsFiniteSet(Group)
  /\ Thread # {} /\ IsFiniteSet(Thread) /\ Thread \cap (Task \cup Group \cup {Null}) = {}
  /\ Clauses \subseteq Seq([addr : Addr, in : BOOLEAN])
  /\ \A c \in Clauses : \A i, j \in DOMAIN c : i < j /\ c[i].in => c[j].in

VARIABLES
  stack,  \* [Thread -> Seq([task, at])]: thr->task and its callers
  task,   \* struct gomp_task
  wait,   \* task->taskwait
  group,  \* struct gomp_taskgroup
  team    \* the task counters of struct gomp_team and its barrier's flags

vars == <<stack, task, wait, group, team>>

AnyTask == Task \cup Thread
Types == {"TIED", "UNTIED"}

(***************************************************************************)
(* State                                                                   *)
(***************************************************************************)

\* "depends" is a task with num_dependees # 0: it is in no queue.  A task
\* that is "waiting" or "running" is in its parent's and its taskgroup's
\* queue, a waiting one in the team's too.  "new" is an undeferred task that
\* waits for its dependences, "nested" one that runs.  "taskgroup" is the
\* innermost taskgroup the task has open, or else the one it is a "member"
\* of; when it ends, they are the same.
gomp_init_task(kind, p, type, g) ==
  [kind |-> kind, parent |-> p, origin |-> p, type |-> type, queues |-> type,
   taskgroup |-> g, member |-> g, depend |-> <<>>, num_dependees |-> 0, dependers |-> <<>>,
   parent_depends_on |-> FALSE, depend_hash |-> [a \in Addr |-> <<>>]]

NoWait == [on |-> FALSE, in_taskwait |-> FALSE, in_depend_wait |-> FALSE,
           n_depend |-> 0, sem |-> 0]

NoGroup == [state |-> "none", owner |-> Null, prev |-> Null, num_children |-> 0,
            in_taskgroup_wait |-> FALSE, cancelled |-> FALSE, sem |-> 0]

Top(th) == Last(stack[th])
Cur(th) == Top(th).task
At(th, place) == Top(th).at = place
Goto(th, place) == stack' = [stack EXCEPT ![th][Len(stack[th])].at = place]

Queued(tk) == {t \in Task : tk[t].kind \in {"waiting", "running"}}
Ready(tk) == {t \in Task : tk[t].kind = "waiting"}
ChildrenQueue(tk, p) == {t \in Queued(tk) : tk[t].parent = p}
GroupQueue(tk, g) == {t \in Queued(tk) : tk[t].member = g}
Cancelled(g) == g # Null /\ group[g].cancelled

\* Mutant: the implicit task counts as one of the thread's tied tasks.
LastTiedWithImplicit(th) == th

\* thr->last_tied_task: tied tasks are linked when a thread starts them and
\* unlinked when they return, so it is the innermost tied explicit task.
last_tied_task(th) ==
  LET tied == SelectSeq(Tail(stack[th]), LAMBDA f : task[f.task].type = "TIED")
  IN  IF tied = <<>> THEN Null ELSE Last(tied).task

Init ==
  /\ stack = [th \in Thread |-> <<[task |-> th, at |-> "user"]>>]
  /\ task = [t \in AnyTask |-> gomp_init_task(IF t \in Thread THEN "nested" ELSE "none",
                                              Null, "TIED", Null)]
  /\ wait = [t \in AnyTask |-> NoWait]
  /\ group = [g \in Group |-> NoGroup]
  /\ team = [task_count |-> 0, pending |-> FALSE, waiting_for_tasks |-> FALSE,
             arrived |-> 0, done |-> FALSE]

(***************************************************************************)
(* Depend clauses                                                          *)
(***************************************************************************)

\* Mutant: the older out is marked where it is.
DemoteInPlace(chain, n, out) ==
  IF out = 0 THEN chain ELSE [chain EXCEPT ![out].redundant_out = TRUE]

\* The chain with its entry out, one of the first n, marked redundant_out and
\* moved to the end of these.
Demote(chain, n, out) ==
  IF out = 0 THEN chain
  ELSE [i \in DOMAIN chain |->
          CASE i < out \/ i > n -> chain[i]
            [] out <= i /\ i < n -> chain[i + 1]
            [] i = n -> [chain[out] EXCEPT !.redundant_out = TRUE]]

\* The entries up to the first redundant_out one are those a task can depend
\* on, and the last of them that is an out.
LiveEntries(chain) ==
  LET first == SelectInSeq(chain, LAMBDA x : x.redundant_out)
  IN  IF first = 0 THEN Len(chain) ELSE first - 1

LiveOutOf(chain) ==
  SelectLastInSeq(SubSeq(chain, 1, LiveEntries(chain)), LAMBDA x : ~x.in)

\* The entry of task t goes to the head of the chain; an out demotes the out
\* it follows.
Push(chain, t, in) ==
  <<[task |-> t, in |-> in, redundant_out |-> FALSE]>>
    \o Demote(chain, LiveEntries(chain), IF in THEN 0 ELSE LiveOutOf(chain))

\* One element e of the depend clause of t, a new child of p.
AddDepend(tk, p, t, e) ==
  LET chain == tk[p].depend_hash[e.addr]
      Hit(u) == /\ \E i \in 1..LiveEntries(chain) :
                     chain[i].task = u /\ ~(e.in /\ chain[i].in)
                /\ tk[u].dependers = <<>> \/ Last(tk[u].dependers) # t
      hits  == {u \in Task : Hit(u)}
  IN  IF chain # <<>> /\ Head(chain).task = t
        THEN tk   \* redundant: an earlier element of the clause names e.addr
        ELSE [u \in AnyTask |->
               [tk[u] EXCEPT
                 !.dependers = IF u \in hits THEN Append(@, t) ELSE @,
                 !.num_dependees = IF u = t THEN @ + Cardinality(hits) ELSE @,
                 !.depend_hash = IF u = p THEN [@ EXCEPT ![e.addr] = Push(chain, t, e.in)]
                                 ELSE @]]

gomp_task_handle_depend(tk, p, t, clause) ==
  LET after[i \in 0..Len(clause)] ==
        IF i = 0 THEN tk ELSE AddDepend(after[i - 1], p, t, clause[i])
  IN  after[Len(clause)]

\* The children of p that an undeferred task with this clause waits for: the
\* whole chain, redundant_out entries included.
Awaited(p, clause) ==
  {u \in Task : \E i \in DOMAIN clause :
     \E x \in Range(task[p].depend_hash[clause[i].addr]) :
       x.task = u /\ ~(clause[i].in /\ x.in) /\ ~task[u].parent_depends_on}

(***************************************************************************)
(* GOMP_task                                                               *)
(***************************************************************************)

\* What every GOMP_task needs: the caller runs user code, its taskgroup is
\* not cancelled, and t is the next task.
NewTask(th, t) ==
  /\ At(th, "user")
  /\ ~Cancelled(task[Cur(th)].taskgroup)
  /\ task[t].kind = "none"
  /\ \A u \in Task : task[u].kind = "none" => t <= u

GOMP_task_deferred(th, t, type, clause) ==
  LET p   == Cur(th)
      g   == task[p].taskgroup
      new == [gomp_init_task("waiting", p, type, g) EXCEPT !.depend = clause]
      tk  == gomp_task_handle_depend([task EXCEPT ![t] = new], p, t, clause)
      held == tk[t].num_dependees > 0
  IN  /\ NewTask(th, t)
      /\ task' = IF held THEN [tk EXCEPT ![t].kind = "depends"] ELSE tk
      /\ group' = IF g = Null THEN group ELSE [group EXCEPT ![g].num_children = @ + 1]
      /\ team' = IF held THEN team
                 ELSE [team EXCEPT !.task_count = @ + 1, !.pending = TRUE]
      /\ UNCHANGED <<stack, wait>>

\* An undeferred task first waits for the siblings it depends on.
GOMP_task_undeferred(th, t, type, clause) ==
  LET p  == Cur(th)
      ty == IF p \notin Thread /\ task[p].type = "TIED" THEN "TIED" ELSE type
      us == Awaited(p, clause)
      new == [gomp_init_task("new", p, ty, task[p].taskgroup) EXCEPT !.depend = clause]
  IN  /\ NewTask(th, t)
      /\ task' = [u \in AnyTask |->
                    IF u = t THEN new
                    ELSE [task[u] EXCEPT !.parent_depends_on = @ \/ u \in us]]
      /\ wait' = IF us = {} THEN wait
                 ELSE [wait EXCEPT ![p] = [NoWait EXCEPT !.on = TRUE,
                                                         !.n_depend = Cardinality(us)]]
      /\ Goto(th, "depend")
      /\ UNCHANGED <<group, team>>

(***************************************************************************)
(* The end of a task: gomp_task_run_post_* and what follows them under the *)
(* same lock.  "at" is the construct that ran c.                           *)
(***************************************************************************)

\* Mutant: the flags are reset and nothing is posted.
ForgetPost(w) == [w EXCEPT !.in_taskwait = FALSE, !.in_depend_wait = FALSE]

Post(w) == [w EXCEPT !.in_taskwait = FALSE, !.in_depend_wait = FALSE, !.sem = @ + 1]
PostGroup(r) == [r EXCEPT !.in_taskgroup_wait = FALSE, !.sem = @ + 1]

\* Mutants: a depender is released by the first task it depends on, or one
\* task too late.
ReleasedEarly(tk, c) == {d \in Range(tk[c].dependers) : tk[d].kind = "depends"}
ReleasedLate(tk, c) == {d \in Range(tk[c].dependers) : tk[d].num_dependees = 0}

\* The dependers of c whose last dependence c was.
Released(tk, c) == {d \in Range(tk[c].dependers) : tk[d].num_dependees = 1}

\* They enter the queues, of the kind that c's type selects.
run_post_handle_dependers(tk, c) ==
  LET rel == Released(tk, c)
  IN  [u \in AnyTask |->
        IF u = c THEN [tk[u] EXCEPT !.dependers = <<>>]
        ELSE IF u \in Range(tk[c].dependers)
          THEN [tk[u] EXCEPT !.num_dependees = @ - 1,
                             !.kind = IF u \in rel THEN "waiting" ELSE @,
                             !.queues = IF u \in rel THEN tk[c].type ELSE @]
          ELSE tk[u]]

\* The chain without the entry of c, which has one at most.
Unlink(chain, c) ==
  LET at == {i \in DOMAIN chain : chain[i].task = c}
  IN  IF at = {} THEN chain ELSE RemoveAt(chain, CHOOSE i \in at : TRUE)

run_post_handle_depend_hash(tk, c) ==
  IF tk[c].parent = Null THEN tk
  ELSE [tk EXCEPT ![tk[c].parent].depend_hash = [a \in Addr |-> Unlink(@[a], c)]]

\* The queued children of c lose their parent; c and its hash table are freed.
gomp_clear_parent(tk, c) ==
  [u \in AnyTask |->
     IF u = c THEN gomp_init_task("done", Null, "TIED", Null)
     ELSE IF u \in ChildrenQueue(tk, c) THEN [tk[u] EXCEPT !.parent = Null]
     ELSE tk[u]]

\* A task the parent depends on ends.
CountDepend(tk, w, c, at) ==
  IF tk[c].parent_depends_on /\ at # "taskwait"
    THEN [w EXCEPT !.n_depend = @ - 1] ELSE w

\* What the release of c's dependers and the removal of c do to the waiting
\* parent's gomp_taskwait.
WakeParent(tk, w, c, at) ==
  LET p     == tk[c].parent
      waits(x) == x.in_taskwait \/ x.in_depend_wait
      w1    == IF Released(tk, c) # {} /\ w.on /\ waits(w) THEN Post(w) ELSE w
      w2    == CountDepend(tk, w1, c, at)
      w3    == IF /\ tk[c].parent_depends_on /\ at \notin {"taskwait", "depend"}
                  /\ w2.n_depend = 0 /\ w2.in_depend_wait
                 THEN Post(w2) ELSE w2
      rest  == ChildrenQueue(run_post_handle_dependers(tk, c), p) \ {c}
  IN  IF at \notin {"taskwait", "depend"} /\ rest = {} /\ w3.on /\ w3.in_taskwait
        THEN Post(w3) ELSE w3

\* What both do to taskgroup g.
WakeGroup(tk, r, c, g) ==
  LET r1 == IF (\E d \in Released(tk, c) : tk[d].taskgroup = g) /\ r.in_taskgroup_wait
              THEN PostGroup(r) ELSE r
      r2 == [r1 EXCEPT !.num_children = IF @ > 1 THEN @ - 1 ELSE 0]
      rest == GroupQueue(run_post_handle_dependers(tk, c), g) \ {c}
  IN  IF tk[c].taskgroup # g THEN r1
      ELSE IF rest = {} /\ r2.in_taskgroup_wait THEN PostGroup(r2) ELSE r2

FinishTask(tk, tm, c, at) ==
  LET p     == tk[c].parent
      rel   == Released(tk, c)
      count == tm.task_count + Cardinality(rel) - 1
  IN  /\ task' = gomp_clear_parent(run_post_handle_dependers(
                    run_post_handle_depend_hash(tk, c), c), c)
      /\ wait' = IF p = Null THEN wait ELSE [wait EXCEPT ![p] = WakeParent(tk, @, c, at)]
      /\ group' = [g \in Group |-> WakeGroup(tk, group[g], c, g)]
      /\ team' = [tm EXCEPT !.task_count = count,
                            !.pending = @ \/ Cardinality(rel) > 1,
                            !.done = @ \/ (at = "barrier" /\ count = 0 /\ tm.waiting_for_tasks)]

(***************************************************************************)
(* Running a task from a construct that waits                              *)
(***************************************************************************)

\* gomp_task_run_pre, then the task's function; a task of a cancelled
\* taskgroup is finished without it.
RunTask(th, c) ==
  LET tk == [task EXCEPT ![c].kind = "running"]
      tm == [team EXCEPT !.pending = @ /\ Ready(tk) # {}]
  IN  \/ /\ ~Cancelled(task[c].taskgroup)
         /\ task' = tk /\ team' = tm
         /\ stack' = [stack EXCEPT ![th] = Append(@, [task |-> c, at |-> "user"])]
         /\ UNCHANGED <<wait, group>>
      \/ /\ Cancelled(task[c].taskgroup)
         /\ FinishTask(tk, tm, c, Top(th).at)
         /\ UNCHANGED stack

\* The task's function returns to the construct that ran it.
TaskEnd(th) ==
  LET c  == Cur(th)
      at == stack[th][Len(stack[th]) - 1].at
  IN  /\ At(th, "user") /\ c \in Task /\ task[c].kind = "running"
      /\ \A g \in Group : group[g].state = "open" => group[g].owner # c
      /\ FinishTask(task, team, c, at)
      /\ stack' = [stack EXCEPT ![th] = Front(@)]

\* An undeferred task's function returns into GOMP_task.
UndeferredEnd(th) ==
  LET c == Cur(th)
  IN  /\ At(th, "user") /\ c \in Task /\ task[c].kind = "nested"
      /\ \A g \in Group : group[g].state = "open" => group[g].owner # c
      /\ task' = gomp_clear_parent(task, c)
      /\ stack' = [stack EXCEPT ![th] = [Front(@) EXCEPT ![Len(stack[th]) - 1].at = "user"]]
      /\ UNCHANGED <<wait, group, team>>

(***************************************************************************)
(* gomp_task_maybe_wait_for_dependencies, GOMP_taskwait                    *)
(***************************************************************************)

DependLoop(th) ==
  LET p == Cur(th)
      ready == ChildrenQueue(task, p) \cap Ready(task)
  IN  /\ At(th, "depend")
      /\ \/ /\ wait[p].n_depend = 0
            /\ \E t \in Task :
                 /\ task[t].kind = "new" /\ task[t].parent = p
                 /\ task' = [task EXCEPT ![t].kind = "nested"]
                 /\ stack' = [stack EXCEPT ![th] = Append(@, [task |-> t, at |-> "user"])]
            /\ wait' = [wait EXCEPT ![p] = NoWait]
            /\ UNCHANGED <<group, team>>
         \/ /\ wait[p].n_depend # 0
            /\ \E c \in ready : RunTask(th, c)
         \/ /\ wait[p].n_depend # 0 /\ ready = {}
            /\ wait' = [wait EXCEPT ![p].in_depend_wait = TRUE]
            /\ Goto(th, "depend_sem")
            /\ UNCHANGED <<task, group, team>>

\* The first look at the queues is without the lock.
GOMP_taskwait(th) ==
  /\ At(th, "user")
  /\ ChildrenQueue(task, Cur(th)) # {}
  /\ Goto(th, "taskwait")
  /\ UNCHANGED <<task, wait, group, team>>

TaskwaitLoop(th) ==
  LET p == Cur(th)
      kids == ChildrenQueue(task, p)
      ready == kids \cap Ready(task)
  IN  /\ At(th, "taskwait")
      /\ \/ /\ kids = {}
            /\ wait' = [wait EXCEPT ![p] = NoWait]
            /\ Goto(th, "user")
            /\ UNCHANGED <<task, group, team>>
         \/ \E c \in ready : RunTask(th, c)
         \/ /\ kids # {} /\ ready = {}
            /\ wait' = [wait EXCEPT ![p].on = TRUE, ![p].in_taskwait = TRUE]
            /\ Goto(th, "taskwait_sem")
            /\ UNCHANGED <<task, group, team>>

\* gomp_sem_wait on taskwait_sem.
TaskwaitSem(th) ==
  LET p == Cur(th)
  IN  /\ Top(th).at \in {"taskwait_sem", "depend_sem"}
      /\ wait[p].sem > 0
      /\ wait' = [wait EXCEPT ![p].sem = @ - 1]
      /\ Goto(th, IF At(th, "depend_sem") THEN "depend" ELSE "taskwait")
      /\ UNCHANGED <<task, group, team>>

(***************************************************************************)
(* Taskgroups                                                              *)
(***************************************************************************)

GOMP_taskgroup_start(th, g) ==
  LET p == Cur(th)
  IN  /\ At(th, "user")
      /\ group[g].state = "none"
      /\ \A h \in Group : group[h].state = "none" => g <= h
      /\ group' = [group EXCEPT ![g] = [NoGroup EXCEPT !.state = "open", !.owner = p,
                                                       !.prev = task[p].taskgroup]]
      /\ task' = [task EXCEPT ![p].taskgroup = g]
      /\ UNCHANGED <<stack, wait, team>>

GOMP_cancel_taskgroup(th) ==
  LET g == task[Cur(th)].taskgroup
  IN  /\ At(th, "user")
      /\ g # Null /\ ~group[g].cancelled
      /\ group' = [group EXCEPT ![g].cancelled = TRUE]
      /\ UNCHANGED <<stack, task, wait, team>>

\* Mutant: the group's queues are looked at, not num_children.
QueueIsEmpty(g) == GroupQueue(task, g) = {}

GroupDone(g) == group[g].num_children = 0

CloseGroup(th, g) ==
  /\ task' = [task EXCEPT ![Cur(th)].taskgroup = group[g].prev]
  /\ group' = [group EXCEPT ![g] = [NoGroup EXCEPT !.state = "freed"]]
  /\ Goto(th, "user")
  /\ UNCHANGED <<wait, team>>

\* num_children is first read without the lock.
GOMP_taskgroup_end(th) ==
  LET g == task[Cur(th)].taskgroup
  IN  /\ At(th, "user")
      /\ g # Null /\ group[g].owner = Cur(th)
      /\ \/ GroupDone(g) /\ CloseGroup(th, g)
         \/ /\ ~GroupDone(g)
            /\ Goto(th, "taskgroup")
            /\ UNCHANGED <<task, wait, group, team>>

\* The tasks of g that thread th may take: a tied one only if the thread's
\* innermost tied task is the task's ascending_tied_task, which stays NULL
\* without user-level threads.
GroupPick(th, g) ==
  LET q == GroupQueue(task, g)
      kids == ChildrenQueue(task, Cur(th))
  IN  Ready(task) \cap
        (IF q = {} THEN kids
         ELSE {c \in q : task[c].type = "TIED" => last_tied_task(th) = Null})

TaskgroupLoop(th) ==
  LET g == task[Cur(th)].taskgroup
      q == GroupQueue(task, g)
  IN  /\ At(th, "taskgroup")
      /\ \/ q = {} /\ GroupDone(g) /\ CloseGroup(th, g)
         \/ /\ q # {} \/ ~GroupDone(g)
            /\ \E c \in GroupPick(th, g) : RunTask(th, c)
         \/ /\ q # {} \/ ~GroupDone(g)
            /\ GroupPick(th, g) = {}
            /\ group' = [group EXCEPT ![g].in_taskgroup_wait = TRUE]
            /\ Goto(th, "taskgroup_sem")
            /\ UNCHANGED <<task, wait, team>>

\* gomp_sem_wait on taskgroup_sem.
TaskgroupSem(th) ==
  LET g == task[Cur(th)].taskgroup
  IN  /\ At(th, "taskgroup_sem")
      /\ group[g].sem > 0
      /\ group' = [group EXCEPT ![g].sem = @ - 1]
      /\ Goto(th, "taskgroup")
      /\ UNCHANGED <<task, wait, team>>

(***************************************************************************)
(* The barrier that ends the region (its futex is module TeamBarrier's)    *)
(***************************************************************************)

\* An implicit task arrives; the last one finds no task left, or waits for
\* the tasks and helps with them.
BarrierArrive(th) ==
  LET last == team.arrived + 1 = Cardinality(Thread)
      none == team.task_count = 0
  IN  /\ At(th, "user") /\ Cur(th) = th
      /\ \A g \in Group : group[g].state = "open" => group[g].owner # th
      /\ team' = [team EXCEPT !.arrived = @ + 1, !.done = last /\ none,
                              !.waiting_for_tasks = last /\ ~none]
      /\ Goto(th, IF last /\ ~none THEN "barrier" ELSE "arrived")
      /\ UNCHANGED <<task, wait, group>>

gomp_barrier_handle_tasks(th) ==
  /\ At(th, "barrier")
  /\ \/ \E c \in Ready(task) : RunTask(th, c)
     \/ /\ Ready(task) = {}
        /\ Goto(th, "arrived")
        /\ UNCHANGED <<task, wait, group, team>>

\* A thread in the barrier is woken, or looks, while tasks are pending.
BarrierHelp(th) ==
  /\ At(th, "arrived") /\ team.pending /\ ~team.done
  /\ Goto(th, "barrier")
  /\ UNCHANGED <<task, wait, group, team>>

BarrierLeave(th) ==
  /\ At(th, "arrived") /\ team.done
  /\ Goto(th, "gone")
  /\ UNCHANGED <<task, wait, group, team>>

(***************************************************************************)
(* The specification                                                       *)
(***************************************************************************)

\* What a thread's user code does next; a new task's type and depend clause
\* are among those given.
User(th, types, clauses) ==
  \/ \E t \in Task, type \in types, clause \in clauses :
       \/ GOMP_task_deferred(th, t, type, clause)
       \/ GOMP_task_undeferred(th, t, type, clause)
  \/ GOMP_taskwait(th)
  \/ \E g \in Group : GOMP_taskgroup_start(th, g)
  \/ GOMP_cancel_taskgroup(th)
  \/ GOMP_taskgroup_end(th)
  \/ TaskEnd(th)
  \/ UndeferredEnd(th)
  \/ BarrierArrive(th)

\* What the library does on its own.
Library(th) ==
  \/ DependLoop(th) \/ TaskwaitLoop(th) \/ TaskwaitSem(th)
  \/ TaskgroupLoop(th) \/ TaskgroupSem(th)
  \/ gomp_barrier_handle_tasks(th) \/ BarrierLeave(th)

Next == \E th \in Thread : User(th, Types, Clauses) \/ Library(th) \/ BarrierHelp(th)

Spec == Init /\ [][Next]_vars
(***************************************************************************)
(* Properties                                                              *)
(***************************************************************************)

Alive(t) == task[t].kind \notin {"none", "done"}
Deferred(t) == task[t].kind \in {"depends", "waiting", "running"}

Conflict(c, d) ==
  \E i \in DOMAIN c, j \in DOMAIN d : c[i].addr = d[j].addr /\ ~(c[i].in /\ d[j].in)

\* A task whose function runs has no unfinished earlier sibling with a
\* conflicting depend clause: gomp_task_handle_depend may look at the live
\* part of a chain only, and an undeferred task waits for all of it.
DependencesRespected ==
  \A t, u \in Task :
    ~ /\ task[t].kind \in {"running", "nested"}
      /\ u < t /\ Alive(u) /\ task[u].origin = task[t].origin
      /\ Conflict(task[t].depend, task[u].depend)

\* In a chain of the depend hash at most one entry is an out that is not
\* redundant_out, all entries after the first redundant_out one are
\* redundant_out, and every entry belongs to an unfinished child.
ChainSound ==
  \A p \in AnyTask, a \in Addr :
    LET c == task[p].depend_hash[a]
    IN  \A i, j \in DOMAIN c :
          /\ i < j /\ c[i].redundant_out => c[j].redundant_out
          /\ i # j /\ ~c[i].in /\ ~c[j].in => c[i].redundant_out \/ c[j].redundant_out
          /\ Deferred(c[i].task) /\ task[c[i].task].parent = p

\* n_depend counts the unfinished children that the parent marked
\* parent_depends_on, whoever runs them; none is marked when it waits no more.
NDependExact ==
  \A p \in AnyTask :
    wait[p].n_depend =
      Cardinality({t \in Task : task[t].parent = p /\ task[t].parent_depends_on})

\* What the checks without the lock and the barrier rely on: a task with
\* empty children queues has no child that waits for a dependence, and a
\* task count of zero means that no deferred task is left.
EmptyMeansDone ==
  /\ \A t \in Task : task[t].kind = "depends" => ChildrenQueue(task, task[t].parent) # {}
  /\ (\E t \in Task : Deferred(t)) => team.task_count # 0 /\ ~team.done

\* A taskgroup that GOMP_taskgroup_end has freed is the group of no
\* unfinished task and encloses no open taskgroup.
NoUseOfFreedGroup ==
  /\ \A t \in AnyTask : Alive(t) /\ task[t].taskgroup # Null
       => group[task[t].taskgroup].state = "open"
  /\ \A g \in Group : group[g].state = "open" /\ group[g].prev # Null
       => group[group[g].prev].state = "open"

\* A thread asleep on a semaphore that nobody has posted still has what it
\* waits for, and the flag that makes the last one post is still set.
NoLostWakeup ==
  \A th \in Thread :
    LET p == Cur(th)
        g == task[p].taskgroup
    IN  /\ At(th, "taskwait_sem") /\ wait[p].sem = 0
             => wait[p].in_taskwait /\ ChildrenQueue(task, p) # {}
        /\ At(th, "depend_sem") /\ wait[p].sem = 0
             => wait[p].in_depend_wait /\ wait[p].n_depend # 0
        /\ At(th, "taskgroup_sem") /\ group[g].sem = 0
             => group[g].in_taskgroup_wait /\ group[g].num_children # 0

\* Nobody sleeps for something that was already counted as done, and no wait
\* is ended by two posts, of which the next wait would take one for its own.
WaitsSound ==
  /\ NoLostWakeup /\ NDependExact
  /\ \A t \in AnyTask : wait[t].sem \in 0..1
  /\ \A g \in Group : group[g].sem \in 0..1

Asleep(th) ==
  \/ Top(th).at \in {"taskwait_sem", "depend_sem"} /\ wait[Cur(th)].sem = 0
  \/ At(th, "taskgroup_sem") /\ group[task[Cur(th)].taskgroup].sem = 0
  \/ At(th, "arrived") /\ ~team.done

\* Until the region ends some thread is awake, even if no thread in the
\* barrier looks for pending tasks.
SomeoneAwake == \E th \in Thread : ~Asleep(th)

\* "All tasks we are waiting for are either running in other threads, or
\* they are tasks that have not had their dependencies met" (task.c): a
\* thread that goes to sleep in GOMP_taskgroup_end leaves no ready task of
\* the group.
SleepsOnlyIfNothingReady ==
  [][\A th \in Thread : At(th, "taskgroup") /\ (Last(stack[th]').at = "taskgroup_sem")
       => GroupQueue(task, task[Cur(th)].taskgroup) \cap Ready(task) = {}]_vars

\* "If parent is gone already, the hash table is freed and nothing will use
\* the hash table anymore" (task.c): the parent of a queued task is not gone.
ParentNotGone ==
  \A t \in Task : t \in Queued(task) /\ task[t].parent # Null => Alive(task[t].parent)

\* Neither a freed taskgroup nor a freed parent is referred to.
NothingFreedIsUsed == NoUseOfFreedGroup /\ ParentNotGone

=============================================================================
