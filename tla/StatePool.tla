----------------------------- MODULE StatePool -----------------------------
(***************************************************************************)
(* The pool of task states of a team (state.c): stacks and contexts for    *)
(* tasks that run as user-level threads.  Every thread has a list of its   *)
(* own, which nobody else touches; a thread that has collected too many    *)
(* states passes some on to the list of the team, from which threads       *)
(* without any are served before they allocate more.  A thread keeps one   *)
(* state in cached_state for the next task it is going to start (task.h);  *)
(* the state of a task goes to the thread on which the task ends.          *)
(*                                                                         *)
(* States are alike, so a list is its length here; the size that the code  *)
(* keeps beside it is another number.  The list of the team is changed     *)
(* under a spin lock, that is only tried, but its size and allocated_tasks *)
(* are read without.                                                       *)
(*                                                                         *)
(*   "run"    elsewhere                                                    *)
(*   "get"    in gomp_get_task_state with an empty list of its own         *)
(*   "trynew" there, about to try the lock; "take" has it; "alloc" goes    *)
(*            without                                                      *)
(*   "level"  in gomp_free_task_state, at the head of the loop             *)
(*   "pick"   there, has read allocated_tasks                              *)
(*   "try"    there, about to try the lock; "move" has it                  *)
(***************************************************************************)
EXTENDS Integers, FiniteSets, Functions

CONSTANTS Hands,          \* the threads of the team
          First,          \* the master
          NumInit,        \* NUM_INIT_STATE
          NumAdd,         \* NUM_ADD_STATE
          MaxStates,      \* bound on the states allocated
          MaxAgain        \* bound on the regions after the first

ASSUME StateAssumption ==
  /\ IsFiniteSet(Hands) /\ First \in Hands
  /\ NumInit \in Nat \ {0} /\ NumAdd \in Nat \ {0}

VARIABLES local,          \* the length of the list of each thread, its size, and
                          \* the states in the blocks list_to_free leads to
          global,         \* the same of global_list; its lock; allocated_tasks
          hands,          \* the threads
          busy,           \* states of tasks that have been started
          lost,           \* states nobody has
          again           \* regions after the first

stateVars == <<local, global, hands, busy, lost, again>>

Hand == [pc |-> "run", cached |-> FALSE, level |-> 0, picked |-> 0]
Team == Cardinality(Hands)

(* gomp_task_state_list_group_init, and gomp_task_state_list_init by each  *)
(* thread.                                                                 *)
StateInit ==
  /\ local = [t \in Hands |-> [len |-> NumInit, size |-> NumInit, tofree |-> NumInit]]
  /\ global = [len |-> 0, size |-> 0, lock |-> FALSE, allocated |-> Team * NumInit]
  /\ hands = [t \in Hands |-> Hand]
  /\ busy = 0 /\ lost = 0 /\ again = 0

Hold(t, H) == hands' = [hands EXCEPT ![t] = H]
Fewer(a, b) == IF a < b THEN a ELSE b
-----------------------------------------------------------------------------
(* gomp_put_task_state_in_cache, which calls gomp_get_task_state.          *)
FromLocal(t) ==
  /\ hands[t].pc = "run" /\ ~hands[t].cached /\ local[t].len > 0
  /\ Hold(t, [hands[t] EXCEPT !.cached = TRUE])
  /\ local' = [local EXCEPT ![t].len = @ - 1, ![t].size = @ - 1]
  /\ UNCHANGED <<global, busy, lost, again>>

GetStart(t) ==
  /\ hands[t].pc = "run" /\ ~hands[t].cached /\ local[t].len = 0
  /\ Hold(t, [hands[t] EXCEPT !.pc = "get"])
  /\ UNCHANGED <<local, global, busy, lost, again>>

GetLook(t) ==
  /\ hands[t].pc = "get"
  /\ Hold(t, [hands[t] EXCEPT !.pc = IF global.size < NumAdd THEN "alloc" ELSE "trynew"])
  /\ UNCHANGED <<local, global, busy, lost, again>>

GetTry(t) ==
  /\ hands[t].pc = "trynew"
  /\ Hold(t, [hands[t] EXCEPT !.pc = IF global.lock THEN "get" ELSE "take"])
  /\ global' = [global EXCEPT !.lock = TRUE]
  /\ UNCHANGED <<local, busy, lost, again>>

MutGetTake(t) ==               \* count not looked at
  LET n == Fewer(global.len, NumAdd)
  IN /\ hands[t].pc = "take"
     /\ Hold(t, [hands[t] EXCEPT !.pc = "run", !.cached = TRUE])
     /\ global' = [global EXCEPT !.lock = FALSE, !.size = @ - NumAdd, !.len = @ - n]
     /\ local' = [local EXCEPT ![t].len = n - 1, ![t].size = @ + NumAdd - 1]
     /\ UNCHANGED <<busy, lost, again>>

(* Up to NumAdd states from the head of the team's list: one to use, the   *)
(* others for the thread's own list.  Others may have emptied it.          *)
GetTake(t) ==
  LET n == Fewer(global.len, NumAdd)
  IN /\ hands[t].pc = "take"
     /\ IF n = 0
        THEN /\ Hold(t, [hands[t] EXCEPT !.pc = "alloc"])
             /\ global' = [global EXCEPT !.lock = FALSE]
             /\ UNCHANGED local
        ELSE /\ Hold(t, [hands[t] EXCEPT !.pc = "run", !.cached = TRUE])
             /\ global' = [global EXCEPT !.lock = FALSE, !.size = @ - n, !.len = @ - n]
             /\ local' = [local EXCEPT ![t].len = n - 1, ![t].size = @ + n - 1]
     /\ UNCHANGED <<busy, lost, again>>

(* gomp_task_state_list_alloc; the block goes to the head of list_to_free. *)
GetAlloc(t) ==
  /\ hands[t].pc = "alloc" /\ global.allocated + NumAdd <= MaxStates
  /\ Hold(t, [hands[t] EXCEPT !.pc = "run", !.cached = TRUE])
  /\ local' = [local EXCEPT ![t].len = NumAdd - 1, ![t].size = NumAdd - 1, ![t].tofree = @ + NumAdd]
  /\ global' = [global EXCEPT !.allocated = @ + NumAdd]
  /\ UNCHANGED <<busy, lost, again>>

(* gomp_get_task_state_from_cache: a task is started, it takes the cached  *)
(* state.                                                                  *)
StartTask(t) ==
  /\ hands[t].pc = "run" /\ hands[t].cached
  /\ busy' = busy + 1
  /\ Hold(t, [hands[t] EXCEPT !.cached = FALSE])
  /\ UNCHANGED <<local, global, lost, again>>
-----------------------------------------------------------------------------
(* gomp_free_task_state: a task has ended on thread t.                     *)
Free(t) ==
  /\ hands[t].pc = "run" /\ busy > 0
  /\ busy' = busy - 1
  /\ local' = [local EXCEPT ![t].len = @ + 1, ![t].size = @ + 1]
  /\ Hold(t, [hands[t] EXCEPT !.pc = "level"])
  /\ UNCHANGED <<global, lost, again>>

Surplus(level) == level \div Team

Returns(H) == [H EXCEPT !.pc = "run", !.level = 0, !.picked = 0]

FreeLevel(t) ==
  LET level == global.allocated \div Team
      enough == Surplus(level) = 0 \/ local[t].size <= level + Surplus(level)
  IN /\ hands[t].pc = "level"
     /\ Hold(t, IF enough THEN Returns(hands[t])
                ELSE [hands[t] EXCEPT !.pc = "pick", !.level = level])
     /\ UNCHANGED <<local, global, busy, lost, again>>

(* As many as the surplus are picked, once: a loop that comes round again  *)
(* moves the same number even if the surplus is another.                   *)
FreePick(t) ==
  LET H == hands[t]
  IN /\ H.pc = "pick"
     /\ Hold(t, IF global.size >= H.level THEN Returns(H)
                ELSE [H EXCEPT !.pc = "try",
                               !.picked = IF @ = 0 THEN Fewer(local[t].len, Surplus(H.level)) ELSE @])
     /\ UNCHANGED <<local, global, busy, lost, again>>

FreeTry(t) ==
  /\ hands[t].pc = "try"
  /\ Hold(t, [hands[t] EXCEPT !.pc = IF global.lock THEN "level" ELSE "move"])
  /\ global' = [global EXCEPT !.lock = TRUE]
  /\ UNCHANGED <<local, busy, lost, again>>

FreeMove(t) ==
  LET H == hands[t]
      n == H.picked
  IN /\ H.pc = "move"
     /\ Hold(t, Returns(H))
     /\ IF global.size >= H.level
        THEN global' = [global EXCEPT !.lock = FALSE] /\ UNCHANGED local
        ELSE /\ global' = [global EXCEPT !.lock = FALSE, !.len = @ + n, !.size = @ + n]
             /\ local' = [local EXCEPT ![t].len = @ - n, ![t].size = @ - n]
     /\ UNCHANGED <<busy, lost, again>>
-----------------------------------------------------------------------------
(* gomp_team_start for the next region: the master forgets the state it    *)
(* has cached, the other threads keep theirs.                              *)
NextRegion ==
  /\ \A t \in Hands : hands[t].pc = "run"
  /\ busy = 0 /\ again < MaxAgain
  /\ again' = again + 1
  /\ lost' = IF hands[First].cached THEN lost + 1 ELSE lost
  /\ Hold(First, [hands[First] EXCEPT !.cached = FALSE])
  /\ UNCHANGED <<local, global, busy>>

StateStep(t) == \/ FromLocal(t) \/ GetStart(t) \/ GetLook(t) \/ GetTry(t) \/ GetTake(t)
                \/ GetAlloc(t) \/ StartTask(t) \/ Free(t) \/ FreeLevel(t) \/ FreePick(t)
                \/ FreeTry(t) \/ FreeMove(t)

StateNext == (\E t \in Hands : StateStep(t)) \/ NextRegion

(* Everyone wants more states than MaxStates.                              *)
Exhausted == (\A t \in Hands : hands[t].pc = "alloc") /\ UNCHANGED stateVars
-----------------------------------------------------------------------------
StateSpec == StateInit /\ [][StateNext]_stateVars

Cached == {t \in Hands : hands[t].cached}

(* No state is lost or handed out twice: each is on a list, cached, in use *)
(* by a task, or was forgotten by the master between two regions.  The     *)
(* sizes that steer where states go are those of the lists, and            *)
(* list_to_free leads to all states, so the end of the team frees them.    *)
StatesSound ==
  /\ global.allocated = SumFunction([t \in Hands |-> local[t].len]) + global.len
                          + Cardinality(Cached) + busy + lost
  /\ global.allocated = SumFunction([t \in Hands |-> local[t].tofree])
  /\ global.len >= 0 /\ global.size = global.len
  /\ \A t \in Hands : local[t].len >= 0 /\ local[t].size = local[t].len
=============================================================================
