---------------------------- MODULE TeamBarrier ----------------------------
(***************************************************************************)
(* The team barrier of config/linux/bar.h and bar.c with the task loop of  *)
(* gomp_barrier_handle_tasks: the threads of a team go through Rounds      *)
(* barriers, the last of which is the one of gomp_team_end.  One word,     *)
(* generation, holds a counter in its high bits and three flags below      *)
(* them, BAR_TASK_PENDING, BAR_WAITING_FOR_TASK and BAR_CANCELLED; it is   *)
(* compared as a whole by the futex.                                       *)
(*                                                                         *)
(* Every atomic access, every futex call and every region under task_lock  *)
(* is one step.  Of the tasks only their number matters here: queued ones, *)
(* the ones that run, and the barrier before which each was created.       *)
(*                                                                         *)
(*   "work"   user code, in front of barrier number round                  *)
(*   "dec"    has loaded generation, about to decrement awaited            *)
(*   "last"   arrived last, about to reset awaited and read task_count     *)
(*   "open"   saw no task, about to store the next generation              *)
(*   "wait"   in do_wait; "futex" about to call futex_wait, "sleep" in it  *)
(*   "load"   about to load generation, "reload" the same after the tasks  *)
(*   "enter"  about to enter gomp_barrier_handle_tasks                     *)
(*   "loop"   at the head of its loop, "task" in a task's function         *)
(*   "wake"   about to call futex_wake (count), then goes on at back       *)
(*   "end"    past the last barrier                                        *)
(***************************************************************************)
EXTENDS Integers, FiniteSets, Functions

CONSTANTS Thread, Rounds,
          MaxTasks,        \* bound on the number of tasks ever created
          Counter          \* the high bits of generation count modulo this

ASSUME BarrierAssumption ==
  /\ IsFiniteSet(Thread) /\ Thread # {}
  /\ Rounds \in Nat \ {0} /\ MaxTasks \in Nat /\ Counter \in Nat \ {0, 1}

VARIABLES generation, awaited, awaitedFinal, queued, live, created, thr,
          region           \* "cancellable" if it contains #pragma omp cancel
                           \* parallel (the compiler then calls
                           \* GOMP_barrier_cancel), "cancelled" once
                           \* team_cancelled is set, "plain" otherwise

vars == <<generation, awaited, awaitedFinal, queued, live, created, thr, region>>

bar == <<generation, awaited, awaitedFinal>>
tasks == <<queued, live, created>>

Word == [count : 0 .. Counter - 1, pending : BOOLEAN, waiting : BOOLEAN, cancelled : BOOLEAN]

Zero == [count |-> 0, pending |-> FALSE, waiting |-> FALSE, cancelled |-> FALSE]

(* w & -BAR_INCR, w & ~BAR_CANCELLED, and w + BAR_INCR, which carries out  *)
(* of the highest bit.                                                     *)
Plain(w) == [Zero EXCEPT !.count = w.count]
Uncancelled(w) == [w EXCEPT !.cancelled = FALSE]
Incr(w) == [w EXCEPT !.count = IF @ + 1 = Counter THEN 0 ELSE @ + 1]

(* Tasks created and not ended; live[r] counts those created, by the       *)
(* implicit tasks or by other tasks, before barrier r.                     *)
taskCount == SumFunction(live)
-----------------------------------------------------------------------------
Init ==                                            \* gomp_barrier_init
  /\ generation = Zero
  /\ awaited = Cardinality(Thread)
  /\ awaitedFinal = Cardinality(Thread)
  /\ queued = [r \in 1..Rounds |-> 0]
  /\ live = [r \in 1..Rounds |-> 0]
  /\ created = 0
  /\ thr = [t \in Thread |-> [pc |-> "work", round |-> 1, state |-> Zero,
                              last |-> FALSE, expect |-> Zero, of |-> 1,
                              back |-> "work", count |-> 0]]
  /\ region \in {"plain", "cancellable"}

Final(T) == T.round = Rounds

CancelKind(T) == region # "plain" /\ ~Final(T)   \* gomp_team_barrier_wait_cancel

At(T, l) == [T EXCEPT !.pc = l]

Left(T) == IF Final(T) THEN At(T, "end") ELSE [At(T, "work") EXCEPT !.round = @ + 1]

(* A cancelled thread goes on at the end of the region.                    *)
Quit(T) == [At(T, "work") EXCEPT !.round = Rounds]

(* What a thread waits with: _wait_end drops BAR_CANCELLED from state only *)
(* after it has taken the word to sleep on, _wait_cancel_end returns.      *)
Waiting(T) ==
  IF CancelKind(T)
  THEN IF T.state.cancelled THEN Quit(T)
       ELSE [At(T, "wait") EXCEPT !.last = FALSE, !.expect = T.state]
  ELSE [At(T, "wait") EXCEPT !.last = FALSE, !.expect = T.state,
                             !.state = Uncancelled(@)]

(* gomp_barrier_handle_tasks returns.                                      *)
Returned(T) == IF T.last THEN Waiting(T) ELSE At(T, "reload")

WakeThen(T, n, l) == [At(T, "wake") EXCEPT !.count = n, !.back = l]

(* Local variables that are not read again are reset, which keeps states   *)
(* equal that differ in nothing else.                                      *)
Tidy(T) ==
  LET pc == IF T.pc = "wake" THEN T.back ELSE T.pc
      inside == pc \notin {"work", "end", "leave", "quit"}
  IN [T EXCEPT !.state = IF inside THEN @ ELSE Zero, !.expect = IF inside THEN @ ELSE Zero,
               !.last = inside /\ @,
               !.of = IF pc = "task" THEN @ ELSE 1,
               !.back = IF T.pc = "wake" THEN @ ELSE "work",
               !.count = IF T.pc = "wake" THEN @ ELSE 0]

Becomes(t, T) == thr' = [thr EXCEPT ![t] = Tidy(T)]

(* futex_wake (&generation, count); 0 stands for INT_MAX.                  *)
FutexWake(t) ==
  LET T == thr[t]
      asleep == {s \in Thread : thr[s].pc = "sleep"}
      n == IF T.count \in 1..Cardinality(asleep) THEN T.count ELSE Cardinality(asleep)
  IN /\ T.pc = "wake"
     /\ \E W \in SUBSET asleep :
          /\ Cardinality(W) = n
          /\ thr' = [s \in Thread |->
                       IF s \in W THEN At(thr[s], "load")
                       ELSE IF s # t THEN thr[s]
                       ELSE Tidy(IF T.back = "leave" THEN Left(T)
                                 ELSE IF T.back = "quit" THEN Quit(T)
                                 ELSE IF T.back = "return" THEN Returned(T)
                                 ELSE At(T, T.back))]
     /\ UNCHANGED <<bar, tasks>>
-----------------------------------------------------------------------------
(* Arriving.                                                               *)

(* gomp_barrier_wait_start and its _cancel_ and _final_ form: the flags    *)
(* other than BAR_CANCELLED are masked out ...                             *)
Arrive(t) ==
  LET w == [Plain(generation) EXCEPT !.cancelled = generation.cancelled]
  IN /\ thr[t].pc = "work"
     /\ Becomes(t, [At(thr[t], "dec") EXCEPT !.state = w])
     /\ UNCHANGED <<bar, tasks>>

(* ... then awaited, or awaited_final, is decremented.                     *)
Decrement(t) ==
  LET T == thr[t]
      n == IF Final(T) THEN awaitedFinal - 1 ELSE awaited - 1
  IN /\ T.pc = "dec"
     /\ IF Final(T)
        THEN awaitedFinal' = (IF n = 0 THEN Cardinality(Thread) ELSE n) /\ UNCHANGED awaited
        ELSE awaited' = n /\ UNCHANGED awaitedFinal
     /\ Becomes(t, IF n = 0 THEN [At(T, "last") EXCEPT !.last = TRUE] ELSE Waiting(T))
     /\ UNCHANGED <<generation, tasks>>

MutLast(t) ==                  \* task_count not looked at
  /\ thr[t].pc = "last"
  /\ awaited' = Cardinality(Thread)
  /\ Becomes(t, At(thr[t], "open"))
  /\ UNCHANGED <<generation, awaitedFinal, tasks>>

(* The last one resets awaited and reads task_count without the lock ...   *)
Last(t) ==
  /\ thr[t].pc = "last"
  /\ awaited' = Cardinality(Thread)
  /\ Becomes(t, At(thr[t], IF taskCount = 0 THEN "open" ELSE "enter"))
  /\ UNCHANGED <<generation, awaitedFinal, tasks>>

MutOpen(t) ==                  \* no wake-up
  /\ thr[t].pc = "open"
  /\ generation' = Incr(Uncancelled(thr[t].state))
  /\ Becomes(t, Left(thr[t]))
  /\ UNCHANGED <<awaited, awaitedFinal, tasks>>

(* ... and without tasks opens the barrier by storing state + BAR_INCR.    *)
Open(t) ==
  /\ thr[t].pc = "open"
  /\ generation' = Incr(IF CancelKind(thr[t]) THEN thr[t].state
                        ELSE Uncancelled(thr[t].state))
  /\ Becomes(t, WakeThen(thr[t], 0, "leave"))
  /\ UNCHANGED <<awaited, awaitedFinal, tasks>>
-----------------------------------------------------------------------------
(* Waiting.                                                                *)

DoWait(t) ==                                       \* the spin of do_wait
  /\ thr[t].pc = "wait"
  /\ \/ Becomes(t, At(thr[t], "futex"))
     \/ generation # thr[t].expect /\ Becomes(t, At(thr[t], "load"))
  /\ UNCHANGED <<bar, tasks>>

FutexWait(t) ==
  /\ thr[t].pc = "futex"
  /\ Becomes(t, At(thr[t], IF generation = thr[t].expect THEN "sleep" ELSE "load"))
  /\ UNCHANGED <<bar, tasks>>

(* The end of the loop: the word must be exactly state + BAR_INCR.         *)
Compare(T) ==
  IF generation = Incr(T.state) THEN Left(T)
  ELSE [At(T, "wait") EXCEPT !.expect.waiting = @ \/ generation.waiting]

Load(t) ==
  LET T == thr[t]
  IN /\ T.pc = "load"
     /\ Becomes(t, IF CancelKind(T) /\ generation.cancelled
                   THEN Quit(T)
                   ELSE IF generation.pending THEN At(T, "enter")
                   ELSE Compare(T))
     /\ UNCHANGED <<bar, tasks>>

Reload(t) ==
  /\ thr[t].pc = "reload"
  /\ Becomes(t, Compare(thr[t]))
  /\ UNCHANGED <<bar, tasks>>
-----------------------------------------------------------------------------
(* gomp_barrier_handle_tasks.                                              *)

Done(T) == Incr(Plain(T.state))                    \* gomp_team_barrier_done

(* The head of the loop, with the lock: take a task, drop it if the region *)
(* is cancelled, or return; w is generation.                               *)
Pick(t, w) ==
  LET T == thr[t]
      w1 == IF SumFunction(queued) = 1 THEN [w EXCEPT !.pending = FALSE] ELSE w
      Take(r) == queued' = [queued EXCEPT ![r] = @ - 1] /\ UNCHANGED created
      Drop(r) == /\ live' = [live EXCEPT ![r] = @ - 1]
                 /\ IF taskCount = 1 /\ w1.waiting
                    THEN generation' = Done(T) /\ Becomes(t, WakeThen(T, 0, "loop"))
                    ELSE generation' = w1 /\ Becomes(t, At(T, "loop"))
  IN IF SumFunction(queued) = 0
     THEN generation' = w /\ UNCHANGED tasks /\ Becomes(t, Returned(T))
     ELSE \E r \in 1..Rounds :
            /\ queued[r] > 0
            /\ Take(r)
            /\ IF w.cancelled THEN Drop(r)
               ELSE /\ generation' = w1 /\ UNCHANGED live
                    /\ Becomes(t, [At(T, "task") EXCEPT !.of = r])

MutEnter(t) ==                 \* task_count not read again with the lock
  LET T == thr[t]
  IN /\ T.pc = "enter"
     /\ Pick(t, [generation EXCEPT !.waiting = @ \/ T.last])
     /\ UNCHANGED <<awaited, awaitedFinal>>

(* On entry the last thread opens the barrier if the tasks have gone in    *)
(* the meantime, or else leaves that to the last task.                     *)
Enter(t) ==
  LET T == thr[t]
  IN /\ T.pc = "enter"
     /\ IF T.last /\ taskCount = 0
        THEN /\ generation' = Done(T)
             /\ Becomes(t, WakeThen(T, 0, "return"))
             /\ UNCHANGED tasks
        ELSE Pick(t, [generation EXCEPT !.waiting = @ \/ T.last])
     /\ UNCHANGED <<awaited, awaitedFinal>>

Loop(t) ==
  /\ thr[t].pc = "loop"
  /\ Pick(t, generation)
  /\ UNCHANGED <<awaited, awaitedFinal>>

(* A task ends; the last one opens the barrier if everyone is there.       *)
EndTask(t) ==
  LET T == thr[t]
  IN /\ T.pc = "task"
     /\ live' = [live EXCEPT ![T.of] = @ - 1]
     /\ IF taskCount = 1 /\ generation.waiting
        THEN generation' = Done(T) /\ Becomes(t, WakeThen(T, 0, "loop"))
        ELSE Becomes(t, At(T, "loop")) /\ UNCHANGED generation
     /\ UNCHANGED <<queued, created, awaited, awaitedFinal>>
-----------------------------------------------------------------------------
(* What user code does.                                                    *)

Running == {t \in Thread : \/ thr[t].pc = "task"
                           \/ thr[t].pc = "wake" /\ thr[t].back = "task"}

(* GOMP_task by an implicit task or by a task that runs in a barrier, not  *)
(* after a cancellation.  A sleeper is woken if threads are idle.          *)
CreateTask(t) ==
  LET T == thr[t]
      r == IF T.pc = "work" THEN T.round ELSE T.of
      busy == Cardinality(Running) + (IF T.pc = "work" THEN 1 ELSE 0)
  IN /\ T.pc \in {"work", "task"}
     /\ created < MaxTasks
     /\ ~generation.cancelled
     /\ generation' = [generation EXCEPT !.pending = TRUE]
     /\ queued' = [queued EXCEPT ![r] = @ + 1]
     /\ live' = [live EXCEPT ![r] = @ + 1]
     /\ created' = created + 1
     /\ IF busy < Cardinality(Thread) THEN Becomes(t, WakeThen(T, 1, T.pc))
        ELSE UNCHANGED thr
     /\ UNCHANGED <<awaited, awaitedFinal>>

(* GOMP_cancel (GOMP_CANCEL_PARALLEL): gomp_team_barrier_cancel.           *)
Cancel(t) ==
  /\ region # "plain" /\ region' = "cancelled"
  /\ thr[t].pc = "work" /\ ~Final(thr[t])
  /\ generation' = [generation EXCEPT !.cancelled = TRUE]
  /\ Becomes(t, IF generation.cancelled THEN Quit(thr[t])
                ELSE WakeThen(thr[t], 0, "quit"))
  /\ UNCHANGED <<awaited, awaitedFinal, tasks>>

Over == (\A t \in Thread : thr[t].pc = "end") /\ UNCHANGED vars

Step(t) == \/ Arrive(t) \/ Decrement(t) \/ Last(t) \/ Open(t) \/ DoWait(t)
           \/ FutexWait(t) \/ FutexWake(t) \/ Load(t) \/ Reload(t)
           \/ Enter(t) \/ Loop(t) \/ EndTask(t)

Next == (\E t \in Thread : \/ (Step(t) \/ CreateTask(t)) /\ UNCHANGED region
                          \/ Cancel(t))
        \/ Over

Spec == Init /\ [][Next]_vars

(* Threads run and user code ends: it reaches the barrier, tasks return.   *)
FairSpec == Spec /\ \A t \in Thread : WF_vars(Step(t) /\ UNCHANGED region)
-----------------------------------------------------------------------------
Labels == {"work", "dec", "last", "open", "wait", "futex", "sleep", "load",
           "reload", "enter", "loop", "task", "wake", "end"}

TypeOK ==
  /\ generation \in Word
  /\ awaited \in 0..Cardinality(Thread) /\ awaitedFinal \in 1..Cardinality(Thread)
  /\ region \in {"plain", "cancellable", "cancelled"}
  /\ queued \in [1..Rounds -> Nat] /\ live \in [1..Rounds -> Nat] /\ created \in Nat
  /\ thr \in [Thread ->
       [pc : Labels, round : 1..Rounds, state : Word, last : BOOLEAN,
        expect : Word, of : 1..Rounds, count : {0, 1},
        back : Labels \cup {"leave", "quit", "return"}]]

(* The abstract barrier: where each thread is, and the unfinished tasks.   *)
passed == [t \in Thread |-> IF thr[t].pc = "end" THEN Rounds ELSE thr[t].round - 1]

arrived == [t \in Thread |->
  IF \/ thr[t].pc \in {"work", "dec"}
     \/ thr[t].pc = "wake" /\ thr[t].back \in {"work", "quit"}
  THEN thr[t].round - 1 ELSE thr[t].round]

B == INSTANCE Barrier WITH cancelled <- region = "cancelled"

(* The barrier separates: no thread passes it before all have arrived and  *)
(* every task created before it has ended, also one created by a task      *)
(* while all threads wait, or by a thread that is already a barrier ahead  *)
(* of a thread that has yet to wake up.  Only after a cancellation may a   *)
(* thread skip to the barrier that ends the region, which separates still. *)
ImplementsBarrier == B!Spec

(* The flags survive the stores to generation that do not hold the lock:   *)
(* BAR_TASK_PENDING is set exactly while tasks are queued, and only the    *)
(* last task of a barrier that all threads have reached finds              *)
(* BAR_WAITING_FOR_TASK.                                                   *)
FlagsExact ==
  /\ generation.pending <=> SumFunction(queued) > 0
  /\ generation.waiting =>
       /\ taskCount > 0
       /\ \A s, t \in Thread : arrived[s] = arrived[t]

(* bar.c: "BAR_CANCELLED should never be set in state here, because        *)
(* cancellation means that at least one of the threads has been cancelled, *)
(* thus on a cancellable barrier we should never see all threads to        *)
(* arrive."                                                                *)
NeverLastWhenCancelled ==
  \A t \in Thread : thr[t].pc = "last" /\ CancelKind(thr[t]) =>
    ~thr[t].state.cancelled

(* What generation and a thread's copy of it say is so.                    *)
FlagsSound == FlagsExact /\ NeverLastWhenCancelled
=============================================================================
