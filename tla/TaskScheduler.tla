--------------------------- MODULE TaskScheduler ---------------------------
(***************************************************************************)
(* The ULMT task scheduler of task.h and task.c (icv.ult_var set): tied    *)
(* and untied tasks of one team that create children, wait for them,       *)
(* yield, are interrupted, contend for a critical section and end, on      *)
(* threads that meet at the barrier closing the parallel region.           *)
(*                                                                         *)
(* Every region under team->task_lock is one step (the lock is held across *)
(* a context switch, hold_team_lock).  The state follows the C structures: *)
(* task[t] is struct gomp_task with its gomp_task_state, thr[h] struct     *)
(* gomp_thread, team struct gomp_team and the team barrier's flag bits.    *)
(* The implicit task of thread h is named h.  Of a priority queue only     *)
(* membership is kept: a task's node is "out" of it, in its "list" or in   *)
(* its "blocked" list; which of several ready tasks of the highest         *)
(* priority comes first depends on OMP_QUEUE_POLICY and is left open.      *)
(***************************************************************************)
EXTENDS Integers, FiniteSets, Sequences

CONSTANTS Thread, NTasks,        \* the team, the number of explicit tasks
          None,                  \* NULL
          Programs               \* what the tasks do, and the settings

Explicit == 1..NTasks
Task == Thread \cup Explicit

ASSUME SchedAssumption ==
  /\ NTasks \in Nat /\ IsFiniteSet(Thread)
  /\ Thread \cap Explicit = {} /\ None \notin Task
  /\ Programs \subseteq
       [types : SUBSET {"TIED", "UNTIED"}, prios : SUBSET Nat,
        ops : SUBSET {"wait", "yield", "interrupt", "critical"},
        untied_block : BOOLEAN, wf_sched : BOOLEAN, signal_unblock : BOOLEAN]

VARIABLES task, thr, team, prog

vars == <<task, thr, team, prog>>

Types == prog.types                  \* what a created task may be
Prios == prog.prios
Ops == prog.ops                      \* what a task may do, each at most once
UntiedBlock == prog.untied_block     \* icv.untied_block_var
WorkFirst == prog.wf_sched           \* icv.wf_sched_var
SignalUnblock == prog.signal_unblock \* gomp_signal_unblock

(* gomp_init_task and the fields of gomp_task_state.  creators is a ghost: *)
(* the tasks this one descends from.                                       *)
InitTask(kind, type, prio, parent, asc, creators) ==
  [kind |-> kind, type |-> type, prio |-> prio, parent |-> parent,
   asc |-> asc,                      \* ascending_tied_task
   blocked |-> FALSE,                \* is_blocked
   susp |-> None,                    \* suspending_thread
   tw |-> FALSE,                     \* taskwait && taskwait->in_taskwait
   inTied |-> FALSE,                 \* in_tied_task
   to |-> None, from |-> None,       \* state->switch_task, switch_from_task
   prev |-> None, next |-> None,     \* previous_ and next_tied_task
   child |-> "out", tq |-> "out", sq |-> "out", lq |-> "out",
   pc |-> "run", done |-> {}, creators |-> creators]

Uncreated == InitTask("none", "TIED", 0, None, None, {})
Freed     == InitTask("freed", "TIED", 0, None, None, {})

Init ==
  /\ prog \in Programs
  /\ task = [t \in Task |-> IF t \in Thread
                            THEN InitTask("IMPLICIT", "TIED", 0, None, None, {})
                            ELSE Uncreated]
  /\ thr = [h \in Thread |-> [task |-> h, last |-> None]]
  /\ team = [count |-> 0, queued |-> 0, running |-> 0, pending |-> FALSE,
             arrived |-> {}, waiting |-> FALSE, over |-> FALSE,
             lock |-> None, fault |-> FALSE]

State == [task |-> task, thr |-> thr, team |-> team]

Becomes(S) ==
  task' = S.task /\ thr' = S.thr /\ team' = S.team /\ UNCHANGED prog
-----------------------------------------------------------------------------
(* Queues.                                                                 *)

(* The children's queues of p: tied_ and untied_children_queue.            *)
Children(S, p) ==
  {c \in Explicit : S.task[c].parent = p /\ S.task[c].child # "out"}

Waiting(S, Q) == {c \in Q : S.task[c].kind = "WAITING"}

OfType(S, Q, ty) == {c \in Q : S.task[c].type = ty}

(* What priority_queue_next_task may return from a children's queue, from  *)
(* the team's queue and from a thread's suspended queue.                   *)
ReadyChildren(S, p, ty) ==
  {c \in OfType(S, Waiting(S, Children(S, p)), ty) : S.task[c].child = "list"}

ReadyTeam(S, ty) == {c \in OfType(S, Explicit, ty) : S.task[c].tq = "list"}

MutReadySuspended(S, h, ty) ==     \* any thread's suspended queue
  {c \in OfType(S, Explicit, ty) : S.task[c].sq = "list"}

ReadySuspended(S, h, ty) ==
  {c \in OfType(S, Explicit, ty) : S.task[c].sq = "list" /\ S.task[c].susp = h}

(* priority_queue_remove, _block_task and _unblock_task move a node; to    *)
(* move one that is elsewhere corrupts the queue ("Attempt to remove       *)
(* missing task").                                                         *)
Move(S, t, q, a, b) ==
  IF S.task[t][q] = a THEN [S EXCEPT !.task[t][q] = b]
                      ELSE [S EXCEPT !.task[t][q] = b, !.team.fault = TRUE]

ListOf(blocked) == IF blocked THEN "blocked" ELSE "list"

MutQueued(S) == [S EXCEPT !.team.pending = TRUE]

Queued(S) ==        \* ++task_queued_count and set_task_pending
  [S EXCEPT !.team.queued = @ + 1, !.team.pending = TRUE]

Unqueued(S) ==      \* if (--task_queued_count == 0) clear_task_pending
  [S EXCEPT !.team.queued = @ - 1,
            !.team.pending = IF S.team.queued = 1 THEN FALSE ELSE @]

Top(S, Q) == {c \in Q : \A d \in Q : S.task[c].prio >= S.task[d].prio}

(* The first of the sets whose best priority no other set exceeds.         *)
Best(S, slots) ==
  LET Beats(i, j) == \A c \in slots[i], d \in Top(S, slots[j]) :
                        c \in Top(S, slots[i]) =>
                          S.task[c].prio >= S.task[d].prio
      I == {i \in DOMAIN slots :
              /\ slots[i] # {}
              /\ \A j \in DOMAIN slots : Beats(i, j)}
  IN IF I = {} THEN {} ELSE Top(S, slots[CHOOSE i \in I : \A j \in I : i <= j])

(* priority_queue_next_task on two queues: q1 wins a tie.                  *)
NextTask(S, Q1, Q2) == Best(S, <<Q1, Q2>>)

(* gomp_get_runnable_tasks and get_higher_priority_task: what the thread   *)
(* may run instead of its current task t without breaking the task         *)
(* scheduling constraints.                                                 *)
RunnableSlots(S, h, t) ==
  LET last == S.thr[h].last
      Kids(p, ty) == ReadyChildren(S, p, ty)
      mine == S.task[t].type = "UNTIED" /\ last = S.task[t].asc
      tied == Top(S, ReadySuspended(S, h, "TIED"))
      untied == Top(S, ReadySuspended(S, h, "UNTIED"))
  IN IF last # None
     THEN <<tied, untied, NextTask(S, Kids(last, "TIED"), Kids(last, "UNTIED")),
            IF mine THEN Kids(t, "TIED") ELSE {},
            NextTask(S, Kids(t, "UNTIED"), ReadyTeam(S, "UNTIED"))>>
     ELSE <<tied, untied, NextTask(S, Kids(t, "TIED"), Kids(t, "UNTIED")),
            NextTask(S, ReadyTeam(S, "TIED"), ReadyTeam(S, "UNTIED"))>>

Runnable(S, h, t) == Best(S, RunnableSlots(S, h, t))

(* gomp_check_queues_while_blocked and its siblings.                       *)
HasWork(S, h, t) ==
  \E i \in DOMAIN RunnableSlots(S, h, t) : RunnableSlots(S, h, t)[i] # {}
-----------------------------------------------------------------------------
(* Blocking and unblocking of suspended tasks.                             *)

IsBlockedTied(S, t) == Children(S, t) # {}

IsBlockedUntied(S, t) ==
  /\ Children(S, t) # {}
  /\ UntiedBlock \/ Waiting(S, {c \in Children(S, t) : S.task[c].child = "list"}) = {}

(* An untied task in its children's, suspended and team queue, a to b.     *)
MoveUntied(S, t, a, b) ==
  LET S1 == IF S.task[t].parent # None THEN Move(S, t, "child", a, b) ELSE S
  IN Move(Move(S1, t, "tq", a, b), t, "sq", a, b)

FlipBlocked(S, t) == [S EXCEPT !.task[t].blocked = ~@]

(* One call of gomp_task_handle_blocking, without its recursion.           *)
HandleBlocking1(S, t) ==
  LET T == S.task[t]
  IN IF T.type = "TIED"
     THEN IF T.kind = "TIED_SUSPENDED" /\ T.blocked # IsBlockedTied(S, t)
          THEN FlipBlocked(Move(S, t, "sq", ListOf(T.blocked), ListOf(~T.blocked)), t)
          ELSE S
     ELSE IF T.kind = "WAITING" /\ T.blocked # IsBlockedUntied(S, t)
          THEN LET R == FlipBlocked(MoveUntied(S, t, ListOf(T.blocked),
                                               ListOf(~T.blocked)), t)
               IN IF T.blocked THEN Queued(R) ELSE Unqueued(R)
          ELSE S

WaitingParent(S, t) ==
  LET p == S.task[t].parent
  IN IF p # None /\ S.task[p].tw THEN p ELSE None

(* gomp_task_handle_blocking: a change of an untied task is passed on to a *)
(* parent that is in a taskwait; r is a state and the task to call it on.  *)
PassOn(r) ==
  LET R == HandleBlocking1(r.s, r.t)
      changed == R.task[r.t].blocked # r.s.task[r.t].blocked
  IN IF r.t = None THEN r
     ELSE [s |-> R, t |-> IF R.task[r.t].type = "UNTIED" /\ changed
                          THEN WaitingParent(R, r.t) ELSE None]

HandleBlocking(S, t) ==
  LET up[n \in 0..NTasks] == IF n = 0 THEN [s |-> S, t |-> t] ELSE PassOn(up[n - 1])
  IN up[NTasks].s

NotifyParent(S, t) ==
  LET p == WaitingParent(S, t) IN IF p = None THEN S ELSE HandleBlocking(S, p)
-----------------------------------------------------------------------------
(* The tied list of a thread.                                              *)

InsertTied(S, h, t, n) ==      \* gomp_insert_task_in_tied_list
  LET last == S.thr[h].last
  IN IF S.task[n].type # "TIED" THEN S
     ELSE IF S.task[t].kind = "IMPLICIT" THEN [S EXCEPT !.thr[h].last = n]
     ELSE IF S.task[n].prev # None \/ S.task[n].next # None THEN S
     ELSE IF last = None \/ last = n THEN [S EXCEPT !.thr[h].last = n]
     ELSE [S EXCEPT !.task[last].next = n, !.task[n].prev = last,
                    !.thr[h].last = n]

RemoveTied(S, h, t, n) ==      \* gomp_remove_task_from_tied_list
  LET N == S.task[n]
      S1 == IF N.next = None THEN S ELSE [S EXCEPT !.task[N.next].prev = N.prev]
  IN IF N.type # "TIED" THEN S
     ELSE IF S.task[t].kind = "IMPLICIT" THEN [S EXCEPT !.thr[h].last = None]
     ELSE IF S.thr[h].last = n
          THEN IF N.prev = None THEN [S EXCEPT !.thr[h].last = None]
               ELSE [S EXCEPT !.thr[h].last = N.prev, !.task[N.prev].next = None]
     ELSE IF N.prev = None THEN S1
     ELSE [S1 EXCEPT !.task[N.prev].next = N.next]
-----------------------------------------------------------------------------
(* Switching from one task to another.                                     *)

MutLeaveChain(S, c) == S

(* A suspended tied task that is picked leaves the chain of its thread.    *)
LeaveChain(S, c) ==
  LET C == S.task[c]
  IN [S EXCEPT !.task =
        [t \in Task |->
           [S.task[t] EXCEPT !.to = IF t = C.from THEN C.to ELSE @,
                             !.from = IF t = C.to THEN C.from ELSE @]]]

(* gomp_task_run_pre: c leaves the queues it could be picked from.         *)
RunPre(S, c) ==
  LET C == S.task[c]
      S1 == IF C.susp # None
            THEN IF C.type = "TIED" THEN [S EXCEPT !.team.fault = TRUE]
                 ELSE Move(S, c, "sq", ListOf(C.blocked), "out")
            ELSE S
      S2 == Move(S1, c, "tq", ListOf(C.blocked), "out")
  IN IF C.kind = "TIED_SUSPENDED"
     THEN [Move(LeaveChain(S, c), c, "sq", ListOf(C.blocked), "out")
             EXCEPT !.task[c].kind = "TIED"]
     ELSE NotifyParent(Unqueued([S2 EXCEPT !.task[c].kind = "TIED"]), c)

(* n runs on top of t, or in the place of the untied task t, in the chain  *)
(* of their thread.                                                        *)
OnTop(S, t, n) ==
  [S EXCEPT !.task[n].to = t, !.task[n].from = None, !.task[t].from = n]

InPlace(S, t, n) ==
  LET R == OnTop(S, S.task[t].to, n)
  IN [R EXCEPT !.task[t].to = None, !.task[t].from = None]

(* t joins the queues of the suspended tasks of h, and the locked tasks of *)
(* the critical section it contends for; held back or ready.               *)
ParkTied(S, h, t, inWait, locked) ==
  LET T == S.task[t]
  IN [S EXCEPT !.task[t] =
        [T EXCEPT !.blocked = inWait \/ locked, !.sq = ListOf(inWait \/ locked),
                  !.lq = IF locked /\ ~inWait THEN "list" ELSE T.lq,
                  !.susp = h, !.kind = "TIED_SUSPENDED"]]

ParkUntied(S, h, t, inWait, locked) ==
  LET l == ListOf(inWait \/ locked)
      R == IF S.task[t].parent # None THEN Move(S, t, "child", "list", l) ELSE S
      T == R.task[t]
  IN [R EXCEPT !.task[t] =
        [T EXCEPT !.blocked = inWait \/ locked, !.sq = l, !.tq = l,
                  !.lq = IF locked /\ ~inWait THEN "list" ELSE T.lq,
                  !.susp = h, !.kind = "WAITING"]]

(* gomp_suspend_tied_task_for_successor, up to context_restore.            *)
SuspendTied(S, h, t, n, locked) ==
  LET S1 == InsertTied(OnTop(S, t, n), h, t, n)
      inWait == S.task[t].tw /\ IsBlockedTied(S, t)
      S2 == IF S.task[t].kind = "IMPLICIT" THEN S1
            ELSE ParkTied(S1, h, t, inWait, locked)
  IN [S2 EXCEPT !.thr[h].task = n]

(* gomp_suspend_untied_task_for_successor: t leaves the chain and may be   *)
(* resumed by any thread.                                                  *)
SuspendUntied(S, h, t, n, locked) ==
  LET inWait == S.task[t].tw /\ IsBlockedUntied(S, t)
      S1 == ParkUntied(InsertTied(InPlace(S, t, n), h, t, n), h, t, inWait, locked)
      S2 == IF inWait \/ locked THEN S1 ELSE NotifyParent(Queued(S1), t)
  IN [S2 EXCEPT !.thr[h].task = n]

Suspend(S, h, t, n, locked) ==
  IF S.task[t].type = "TIED" THEN SuspendTied(S, h, t, n, locked)
                             ELSE SuspendUntied(S, h, t, n, locked)

(* gomp_team_barrier_wake (&team->barrier, 1), called by task t if fewer   *)
(* threads than the team has are busy: one sleeper, if any, wakes up.      *)
WakeOne(S, t) ==
  LET asleep == {h \in Thread : S.task[h].pc = "bsleep"}
      busy == S.team.running + (IF S.task[t].inTied THEN 0 ELSE 1)
  IN IF asleep = {} \/ busy >= Cardinality(Thread) THEN {S}
     ELSE {[S EXCEPT !.task[h].pc = "bwait"] : h \in asleep}

(* Thread h resumes n instead of t: n releases the team lock that t took   *)
(* and wakes a thread (an implicit t has released it already).             *)
Switch(S, h, t, n, locked) ==
  LET R == Suspend(RunPre(S, n), h, t, n, locked)
  IN IF S.task[t].kind = "IMPLICIT" THEN {R} ELSE WakeOne(R, n)
-----------------------------------------------------------------------------
(* The end of a task.                                                      *)

MutLastChildGone(S, p) == S

LastChildGone(S, p) ==
  IF Children(S, p) = {} /\ S.task[p].tw THEN HandleBlocking(S, p) ELSE S

(* gomp_task_run_post_remove_parent.                                       *)
RemoveParent(S, n) ==
  LET p == S.task[n].parent
  IN IF p = None THEN S ELSE LastChildGone(Move(S, n, "child", "list", "out"), p)

(* gomp_clear_parent on both children's queues of n, --task_count and the  *)
(* release of n's memory.                                                  *)
Release(S, n) ==
  LET Orphan(c) == [S.task[c] EXCEPT
                      !.parent = None, !.child = "out",
                      !.asc = IF @ = n THEN S.task[n].asc ELSE @]
  IN [S EXCEPT !.task = [c \in Task |->
                           IF c = n THEN Freed
                           ELSE IF c \in Children(S, n) THEN Orphan(c)
                           ELSE S.task[c]],
               !.team.count = @ - 1]

(* gomp_terminate_task_pre and _post: t takes over from its successor n.   *)
Terminate(S, t, n) ==
  Release(IF S.task[n].parent = t THEN Move(S, n, "child", "list", "out")
          ELSE RemoveParent(S, n), n)

(* The second half of gomp_suspend_tied_task_for_successor (and of         *)
(* gomp_interrupt_task_scheduling_post): t runs again because its          *)
(* successor n ended.  A t that had suspended itself in front of a         *)
(* critical section also leaves that section's queue.                      *)
ResumeAfter(S, h, t, n) ==
  LET T == S.task[t]
      S1 == RemoveTied([S EXCEPT !.task[t].from = None, !.thr[h].task = t], h, t, n)
      S2 == IF T.pc = "contend" THEN Move(S1, t, "lq", "list", "out") ELSE S1
      S3 == IF T.kind = "TIED_SUSPENDED"
            THEN [Move(S2, t, "sq", ListOf(T.blocked), "out")
                    EXCEPT !.task[t].kind = "TIED"]
            ELSE S1
  IN Terminate(S3, t, n)

MutAllTasksDone(S) == S.team.count = 0

AllTasksDone(S) == S.team.count = 0 /\ S.team.waiting

(* The barrier's half: the implicit task t goes on in                      *)
(* gomp_barrier_handle_tasks, whose last task ends the barrier.            *)
BarrierAfter(S, h, t, n) ==
  LET S1 == RemoveTied([S EXCEPT !.task[t].from = None, !.thr[h].task = t], h, t, n)
      S2 == Release(RemoveParent(S1, n), n)
  IN [S2 EXCEPT !.task[t].pc = "bloop",
                !.team.running = @ - 1,
                !.team.over = AllTasksDone(S2)]

(* The boot loop of context.c: fn has returned, control goes to            *)
(* switch_task, which finds the task that ended in its switch_from_task.   *)
EndTask(h) ==
  LET n == thr[h].task
      t == task[n].to
  IN /\ n \in Explicit /\ task[n].pc = "run"
     /\ Becomes(IF task[t].pc = "brun" THEN BarrierAfter(State, h, t, task[t].from)
                ELSE ResumeAfter(State, h, t, task[t].from))
-----------------------------------------------------------------------------
(* What a task may call.                                                   *)

Running(h, t) == thr[h].task = t /\ task[t].pc = "run"

May(t, op) == op \in Ops /\ op \notin task[t].done

Goto(S, t, l) == [S EXCEPT !.task[t].pc = l]

Once(S, t, op) == [S EXCEPT !.task[t].done = @ \cup {op}]

(* gomp_init_task for a child of t: its ascending tied task and its        *)
(* record; the team counts it.                                             *)
AscOf(S, t) ==
  IF S.task[t].kind = "IMPLICIT" THEN None
  ELSE IF S.task[t].type = "TIED" THEN t ELSE S.task[t].asc

Newborn(S, t, type, prio) ==
  [InitTask("WAITING", type, prio, t, AscOf(S, t), S.task[t].creators \cup {t})
     EXCEPT !.inTied = S.task[t].inTied, !.child = "list"]

WithTask(S, c, U) == [S EXCEPT !.task[c] = U, !.team.count = @ + 1]

(* GOMP_task, a deferred task without dependences: work-first for an       *)
(* untied parent if wf_sched_var and the constraints allow it.             *)
CreateTask(h, c, type, prio) ==
  LET t == thr[h].task
      first == /\ WorkFirst /\ task[t].type = "UNTIED"
               /\ type = "UNTIED" \/ thr[h].last \in {None, AscOf(State, t)}
      S == WithTask(State, c, Newborn(State, t, type, prio))
  IN /\ Running(h, t)
     /\ task[c].kind = "none" /\ \A d \in 1..(c - 1) : task[d].kind # "none"
     /\ \E R \in IF first
                 THEN WakeOne(SuspendUntied([S EXCEPT !.task[c].kind = "TIED"],
                                            h, t, c, FALSE), c)
                 ELSE WakeOne(Queued([S EXCEPT !.task[c].tq = "list"]), t) :
          Becomes(R)

(* GOMP_taskwait, first test: without children there is nothing to do.     *)
TaskwaitCall(h) ==
  LET t == thr[h].task
  IN /\ Running(h, t) /\ May(t, "wait") /\ Children(State, t) # {}
     /\ Becomes(Goto(Once(State, t, "wait"), t, "wait"))

MutTaskwaitNext(h, t) == NextTask(State, ReadyChildren(State, t, "TIED"),
                                  ReadyChildren(State, t, "UNTIED"))

(* The child GOMP_taskwait runs next: a tied one only if the last tied     *)
(* task of the thread is an ancestor of it.                                *)
TaskwaitNext(h, t) ==
  LET last == thr[h].last
      own == IF task[t].type = "TIED" THEN t ELSE task[t].asc
      Kids(ty) == ReadyChildren(State, t, ty)
  IN IF last # None /\ last # own THEN Top(State, Kids("UNTIED"))
     ELSE NextTask(State, Kids("TIED"), Kids("UNTIED"))

(* The loop of GOMP_taskwait, under the lock: return, run a child, run     *)
(* other work (gomp_blocked_task_switch), or poll without the lock.        *)
TaskwaitLoop(h) ==
  LET t == thr[h].task
      S == [State EXCEPT !.task[t].tw = TRUE]
      kids == TaskwaitNext(h, t)
      others == Runnable(S, h, t)
  IN /\ task[t].pc = "wait"
     /\ IF Children(State, t) = {}
        THEN Becomes(Goto([State EXCEPT !.task[t].tw = FALSE], t, "run"))
        ELSE IF kids # {} \/ others # {}
        THEN \E n \in IF kids # {} THEN kids ELSE others :
             \E R \in Switch(S, h, t, n, FALSE) : Becomes(R)
        ELSE Becomes(Goto(S, t, "poll"))

(* gomp_blocked_task_switch without the lock: the last child has gone, or  *)
(* gomp_check_queues_while_blocked has seen work.                          *)
TaskwaitPoll(h) ==
  LET t == thr[h].task
  IN /\ task[t].pc = "poll"
     /\ \/ Children(State, t) = {} /\ Becomes(Goto(State, t, "wait"))
        \/ Children(State, t) # {} /\ HasWork(State, h, t)
           /\ Becomes(Goto(State, t, "try"))

(* blocked_task_try_to_schedule: with the lock again; what the poll saw    *)
(* may be gone.                                                            *)
TaskwaitTry(h) ==
  LET t == thr[h].task
      S == Goto(State, t, "wait")
      next == Runnable(State, h, t)
  IN /\ task[t].pc = "try"
     /\ \/ next = {} /\ Becomes(S)
        \/ \E n \in next : \E R \in Switch(S, h, t, n, FALSE) : Becomes(R)

(* GOMP_taskyield; without other work it returns.                          *)
Taskyield(h) ==
  LET t == thr[h].task
  IN /\ Running(h, t) /\ May(t, "yield")
     /\ \E n \in Runnable(State, h, t) :
        \E R \in Switch(Once(State, t, "yield"), h, t, n, FALSE) : Becomes(R)

(* gomp_interrupt_task_scheduling_pre, at any point of an explicit task    *)
(* outside of the library and of critical sections.  The unlocked look at  *)
(* the highest priorities only decides whether to try and is out of date   *)
(* once the lock is held: any state may pass it.  Without untied_block a   *)
(* task in a taskwait does not qualify, and which slot then wins depends   *)
(* on the order inside the queues: any of them may.                        *)
Interrupt(h) ==
  LET t == thr[h].task
      slots == RunnableSlots(State, h, t)
      notInTaskwait == {c \in UNION {slots[i] : i \in DOMAIN slots} : ~task[c].tw}
  IN /\ Running(h, t) /\ May(t, "interrupt") /\ t \in Explicit
     /\ \E n \in IF UntiedBlock THEN Best(State, slots) ELSE notInTaskwait :
          /\ \/ task[n].prio > task[t].prio
             \/ task[n].prio = task[t].prio /\ SignalUnblock /\ task[n].susp # None
          /\ \E R \in Switch(Once(State, t, "interrupt"), h, t, n, FALSE) : Becomes(R)
-----------------------------------------------------------------------------
(* Critical sections (critical.c; omp_set_lock is built the same way).     *)

MutTryLock(S, t) == Becomes(Goto([S EXCEPT !.team.lock = t], t, "critical"))

(* GOMP_critical_start: gomp_mutex_trylock.                                *)
TryLock(S, t) ==
  Becomes(IF team.lock = None THEN Goto([S EXCEPT !.team.lock = t], t, "critical")
          ELSE Goto(S, t, "contend"))

CriticalStart(h) ==
  LET t == thr[h].task
  IN Running(h, t) /\ May(t, "critical") /\ TryLock(Once(State, t, "critical"), t)

CriticalRetry(h) ==
  LET t == thr[h].task IN task[t].pc = "trylock" /\ TryLock(State, t)

(* gomp_locked_task_switch and the loop around it: try again once the      *)
(* lock is free, otherwise suspend in favour of other work, if any.        *)
CriticalContend(h) ==
  LET t == thr[h].task
  IN /\ task[t].pc = "contend"
     /\ \/ team.lock = None /\ Becomes(Goto(State, t, "trylock"))
        \/ /\ team.lock # None
           /\ \E n \in Runnable(State, h, t) :
              \E R \in Switch(State, h, t, n, TRUE) : Becomes(R)

(* GOMP_critical_end: first gomp_mutex_unlock ...                          *)
CriticalUnlock(h) ==
  LET t == thr[h].task
  IN /\ task[t].pc = "critical"
     /\ Becomes(Goto([State EXCEPT !.team.lock = None], t, "unlocked"))

MutHandleLocking(S, c) == S

(* ... then gomp_task_handle_locking: one task of the locked queue may run *)
(* again.                                                                  *)
HandleLocking(S, c) ==
  LET S1 == Move(S, c, "lq", "list", "out")
      Clear(R) == [R EXCEPT !.task[c].blocked = FALSE]
  IN IF S.task[c].type = "TIED" THEN Clear(Move(S1, c, "sq", "blocked", "list"))
     ELSE NotifyParent(Queued(Clear(MoveUntied(S1, c, "blocked", "list"))), c)

CriticalEnd(h) ==
  LET t == thr[h].task
      S == Goto(State, t, "run")
      locked == Top(State, {c \in Explicit : task[c].lq = "list"})
  IN /\ task[t].pc = "unlocked"
     /\ \/ locked = {} /\ Becomes(S)
        \/ \E c \in locked : Becomes(HandleLocking(S, c))
-----------------------------------------------------------------------------
(* The barrier at the end of the region (bar.c, gomp_barrier_handle_tasks). *)

BarrierArrive(h) ==
  LET last == team.arrived \cup {h} = Thread
      S == [State EXCEPT !.team.arrived = @ \cup {h}]
  IN /\ Running(h, h)
     /\ Becomes(IF ~last THEN Goto(S, h, "bwait")
                ELSE IF team.count = 0 THEN Goto([S EXCEPT !.team.over = TRUE], h, "bwait")
                ELSE Goto([S EXCEPT !.team.waiting = TRUE], h, "bloop"))

(* do_wait: spin until BAR_TASK_PENDING shows, or sleep.                   *)
BarrierSpin(h) ==
  /\ thr[h].task = h /\ task[h].pc = "bwait" /\ ~team.over
  /\ Becomes(Goto(State, h, IF team.pending THEN "bloop" ELSE "bsleep"))

(* The implicit task of h runs the task n it has picked.                   *)
StartTask(S, h, n) ==
  InsertTied([OnTop(S, h, n) EXCEPT
                !.team.running = @ + 1, !.task[n].inTied = TRUE,
                !.task[h].pc = "brun", !.thr[h].task = n], h, h, n)

(* One turn of gomp_barrier_handle_tasks: if the team's queues hold any    *)
(* task, its own suspended tasks come first.                               *)
BarrierLoop(h) ==
  LET empty == \A c \in Explicit : task[c].tq = "out"
      own == NextTask(State, ReadySuspended(State, h, "TIED"),
                             ReadySuspended(State, h, "UNTIED"))
      next == IF empty THEN {}
              ELSE IF own # {} THEN own
              ELSE NextTask(State, ReadyTeam(State, "TIED"), ReadyTeam(State, "UNTIED"))
  IN /\ thr[h].task = h /\ task[h].pc = "bloop" /\ ~team.over
     /\ IF next = {} THEN Becomes(Goto(State, h, "bwait"))
        ELSE \E n \in next : Becomes(StartTask(RunPre(State, n), h, n))

(* The region is over: all tasks have run, all threads have arrived.       *)
RegionOver == team.over /\ UNCHANGED vars
-----------------------------------------------------------------------------
Create(h) == \E c \in Explicit, ty \in Types, p \in Prios : CreateTask(h, c, ty, p)

(* Steps that a thread takes on its own, once the program has made a call. *)
Step(h) == \/ EndTask(h) \/ TaskwaitLoop(h) \/ TaskwaitPoll(h) \/ TaskwaitTry(h)
           \/ CriticalRetry(h)
           \/ CriticalContend(h) \/ CriticalUnlock(h) \/ CriticalEnd(h)
           \/ BarrierArrive(h) \/ BarrierSpin(h) \/ BarrierLoop(h)

(* What the program decides to do, and interrupts.                         *)
Call(h) == \/ Create(h) \/ TaskwaitCall(h) \/ Taskyield(h) \/ Interrupt(h)
           \/ CriticalStart(h)

Next == (\E h \in Thread : Call(h) \/ Step(h)) \/ RegionOver

Spec == Init /\ [][Next]_vars

(* Step(h) is enabled: only polling for work, spinning on a held lock and  *)
(* sleeping in the barrier wait for another thread.                        *)
CanStep(h) ==
  LET t == thr[h].task
      l == task[t].pc
  IN /\ ~team.over
     /\ l = "poll" => Children(State, t) = {} \/ HasWork(State, h, t)
     /\ l = "contend" => team.lock = None \/ HasWork(State, h, t)
     /\ l # "bsleep"

(* Threads run, and user code ends: every task eventually finishes its     *)
(* function or calls the library again.  This is WF_vars(Step(h)) for      *)
(* every thread, with CanStep(h) for ENABLED <<Step(h)>>_vars.             *)
FairSpec ==
  Spec /\ \A h \in Thread : ([]<>~CanStep(h)) \/ ([]<><<Step(h)>>_vars)
-----------------------------------------------------------------------------
Kinds == {"none", "freed", "IMPLICIT", "WAITING", "TIED", "TIED_SUSPENDED"}
Labels == {"run", "wait", "poll", "try", "trylock", "contend", "critical",
           "unlocked", "bwait", "bsleep", "bloop", "brun"}
Places == {"out", "list", "blocked"}
MaybeTask == Task \cup {None}

TypeOK ==
  /\ prog \in Programs
  /\ task \in [Task ->
       [kind : Kinds, type : {"TIED", "UNTIED"}, prio : Nat, parent : MaybeTask,
        asc : MaybeTask, blocked : BOOLEAN, susp : Thread \cup {None},
        tw : BOOLEAN, inTied : BOOLEAN, to : MaybeTask, from : MaybeTask,
        prev : MaybeTask, next : MaybeTask, child : Places, tq : Places,
        sq : Places, lq : Places, pc : Labels, done : SUBSET Ops,
        creators : SUBSET Task]]
  /\ thr \in [Thread -> [task : Task, last : MaybeTask]]
  /\ team \in [count : Nat, queued : Nat, running : Nat, pending : BOOLEAN,
               arrived : SUBSET Thread, waiting : BOOLEAN, over : BOOLEAN,
               lock : MaybeTask, fault : BOOLEAN]

Live == {t \in Explicit : task[t].kind \notin {"none", "freed"}}

(* No operation moves or removes a queue node that is not where the code   *)
(* believes it is: is_blocked, suspending_thread and the queues never      *)
(* disagree (the gomp_fatal calls of task.c and priority_queue.h).         *)
NoCorruptQueue == ~team.fault

(* A task that can be picked is in all of its queues alike, ready or       *)
(* blocked, a running one in none that a thread picks from, and a          *)
(* suspended tied one only in the queue of its own thread.                 *)
QueuesAgree ==
  \A t \in Live :
    LET T == task[t]
        here == ListOf(T.blocked)
    IN /\ T.kind = "WAITING" =>
            /\ T.tq = here
            /\ T.parent # None => T.child = here
            /\ T.sq = IF T.susp = None THEN "out" ELSE here
       /\ T.kind = "TIED" => T.tq = "out" /\ T.sq = "out" /\ T.child # "blocked"
       /\ T.kind = "TIED_SUSPENDED" =>
            T.type = "TIED" /\ T.tq = "out" /\ T.sq = here /\ T.child # "blocked"
       /\ T.lq # "out" => T.blocked /\ T.kind \in {"WAITING", "TIED_SUSPENDED"}

(* A suspended task is held back exactly while it has a reason: the        *)
(* critical section it contends for is taken, or the children it waits for *)
(* are unfinished (for an untied one, cannot be run by it either).  A      *)
(* missed unblocking would strand it, a missed blocking lets it spin.      *)
BlockedForAReason ==
  \A t \in Live :
    task[t].kind \in {"WAITING", "TIED_SUSPENDED"} =>
      (task[t].blocked <=>
         \/ task[t].lq = "list"
         \/ /\ task[t].tw
            /\ IF task[t].type = "TIED" THEN IsBlockedTied(State, t)
               ELSE IsBlockedUntied(State, t))

(* The counters the barrier relies on are the sizes of what they count.    *)
CountersExact ==
  /\ team.count = Cardinality(Live)
  /\ team.queued = Cardinality(ReadyTeam(State, "TIED") \cup ReadyTeam(State, "UNTIED"))
  /\ team.pending <=> team.queued > 0
  /\ team.running = Cardinality({h \in Thread : task[h].pc = "brun"})

(* The chain of a thread: its implicit task and the tied tasks suspended   *)
(* on it, linked by switch_from_task down to the running task and by       *)
(* switch_task back; an untied task leaves it when it is suspended.        *)
ChainsSound ==
  /\ \A t \in Task, n \in Task : task[t].from = n => task[n].to = t
  /\ \A n \in Live : task[n].to # None => task[task[n].to].from = n
  /\ \A h \in Thread : task[thr[h].task].from = None
  /\ \A g, h \in Thread : thr[g].task = thr[h].task => g = h
  /\ \A t \in Live : task[t].to # None <=>
                       task[t].kind \in {"TIED", "TIED_SUSPENDED"}

(* The tied tasks that have started on h and not finished.                 *)
TiedOn(h) ==
  {t \in Live : /\ task[t].type = "TIED"
                /\ \/ thr[h].task = t
                   \/ task[t].kind = "TIED_SUSPENDED" /\ task[t].susp = h}

(* The Task Scheduling Constraint for explicit tasks: a new tied task      *)
(* starts on a thread only if it descends from every tied task already     *)
(* there, so the tied tasks of a thread always are in one line of descent. *)
TaskSchedulingConstraint ==
  \A h \in Thread : \A s, t \in TiedOn(h) :
    s = t \/ s \in task[t].creators \/ t \in task[s].creators

(* last_tied_task is the youngest of them: the constraint is checked       *)
(* against that one task only.                                             *)
LastTiedIsYoungest ==
  \A h \in Thread :
    IF TiedOn(h) = {} THEN thr[h].last = None
    ELSE /\ thr[h].last \in TiedOn(h)
         /\ TiedOn(h) \ {thr[h].last} \subseteq task[thr[h].last].creators

(* What the scheduler keeps about the tasks fits together: the queues, the *)
(* counters of the team, the chains of the threads, last_tied_task, and    *)
(* which tasks are held back.                                              *)
Bookkeeping ==
  NoCorruptQueue /\ QueuesAgree /\ BlockedForAReason /\ CountersExact /\ ChainsSound /\ LastTiedIsYoungest

(* A tied task never moves: once it has started on a thread it stays there *)
(* until it ends.                                                          *)
TiedTasksStay ==
  [][\A h \in Thread, t \in Explicit :
       t \in TiedOn(h) => t \in TiedOn(h)' \/ task'[t].kind = "freed"]_vars

(* The region ends only when every task has run to its end, on every       *)
(* thread.                                                                 *)
RegionComplete ==
  team.over => /\ Live = {} /\ team.arrived = Thread
               /\ \A h \in Thread : thr[h] = [task |-> h, last |-> None]

(* A task parked in front of a critical section is never forgotten: the    *)
(* section is taken, or a task that just left it has yet to look at the    *)
(* queue, or another contender is awake and will pass through it.          *)
ContenderHasWaker ==
  (\E t \in Live : task[t].lq = "list") =>
    \/ team.lock # None
    \/ \E t \in Task : \/ task[t].pc = "unlocked"
                       \/ task[t].pc \in {"trylock", "contend"} /\ task[t].lq = "out"

(* At most one task is inside, and it is the one the lock names, whichever *)
(* thread it was resumed by.                                               *)
CriticalExclusive == \A t \in Task : task[t].pc = "critical" => team.lock = t

(* Critical sections exclude each other and forget nobody.                 *)
CriticalSound == CriticalExclusive /\ ContenderHasWaker

(* No dead end: whatever the tasks wait for, some thread can go on.        *)
NotStranded == team.over \/ \E h \in Thread : CanStep(h)

(* The region ends.                                                        *)
RegionEnds == <>team.over
=============================================================================
