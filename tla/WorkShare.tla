----------------------------- MODULE WorkShare -----------------------------
(***************************************************************************)
(* The work-sharing constructs of a parallel region (work.c, the copying   *)
(* single of single.c, the end of the region in team.c).  Every construct  *)
(* has a struct gomp_work_share; they are chained by next_ws, a pointer    *)
(* lock, and recycled through two lists of the team: work_share_list_alloc,*)
(* touched only by the thread that opens a construct, and                  *)
(* work_share_list_free, to which others push with a compare-and-swap      *)
(* meanwhile.  A thread is in one construct at a time but may be any       *)
(* number of nowait constructs ahead of another.                           *)
(*                                                                         *)
(* What a construct does with its work share is in LoopSchedule and        *)
(* Ordered; the barrier is that of Barrier, the pointer lock that of       *)
(* PublishOnce.                                                            *)
(*                                                                         *)
(*   "idle"   between two constructs                                       *)
(*   "alloc"  got NULL from gomp_ptrlock_get, in alloc_work_share          *)
(*   "cut"    there, has read work_share_list_free                         *)
(*   "init"   about to initialise the work share it has allocated          *)
(*   "fill"   sets up the construct, then gomp_work_share_init_done        *)
(*   "wait"   in gomp_ptrlock_get_slow                                     *)
(*   "in"     in the construct                                             *)
(*   "copied" past the barrier of a copying single                         *)
(*   "push"   in free_work_share, about to read work_share_list_free       *)
(*   "cas"    there, about to compare and swap                             *)
(*   "bar"    waits at the barrier of the construct                        *)
(*   "final"  at the barrier that ends the region, "over" after it         *)
(***************************************************************************)
EXTENDS Integers, Sequences, FiniteSets

CONSTANTS Thread, Master, Constructs, Chunk, MaxWs, NULL,
          Kinds                \* of "nowait", "barrier" and "copy"

ASSUME WorkShareAssumption ==
  /\ IsFiniteSet(Thread) /\ Master \in Thread
  /\ Constructs \in Nat /\ MaxWs \in Nat /\ Chunk \in 1 .. MaxWs
  /\ NULL \notin Int
  /\ Kinds \subseteq {"nowait", "barrier", "copy"}

VARIABLES ws,       \* the work shares
          thr,      \* the threads
          team,     \* lists, barrier and flags of the team
          kinds     \* the kind of each construct, 0 being one that is
                    \* combined with the parallel region

vars == <<ws, thr, team, kinds>>

WS == 0 .. MaxWs - 1

Claimed == -1                  \* next_ws is 1 or 2: somebody will set it
Unset == -2                    \* next_ws is 0

TeamSize == Cardinality(Thread)

(* gomp_new_team: work share 0 is initialised, 1 to Chunk - 1 are ready to *)
(* be allocated.                                                           *)
Init ==
  /\ kinds \in [0 .. Constructs -> Kinds] /\ kinds[0] = "nowait"
  /\ ws = [w \in WS |-> [next |-> Unset, completed |-> 0, copyprivate |-> 0,
                         free |-> IF w \in 1 .. Chunk - 2 THEN w + 1 ELSE NULL,
                         uses |-> IF w = 0 THEN 1 ELSE 0]]
  /\ \E l \in {"idle", "in"} :
       thr = [t \in Thread |-> [pc |-> l, ws |-> 0, last |-> NULL, k |-> 0, gen |-> 0,
                                first |-> FALSE, loc |-> NULL, seen |-> NULL]]
  /\ \E c \in BOOLEAN :         \* the region contains #pragma omp cancel
       /\ c => \A k \in 0 .. Constructs : kinds[k] # "copy"
       /\ team = [alloc |-> IF Chunk > 1 THEN 1 ELSE NULL, free |-> NULL,
                  chunk |-> Chunk, used |-> Chunk, to_free |-> 0, arrived |-> 0, gen |-> 0,
                  cancellable |-> c, cancelled |-> FALSE, over |-> FALSE]
-----------------------------------------------------------------------------
(* Local variables that are not read again are reset.                      *)
Tidy(T) ==
  [T EXCEPT !.gen = IF T.pc = "bar" THEN @ ELSE 0,
            !.first = @ /\ T.pc \in {"alloc", "cut", "init", "fill", "in"},
            !.last = IF T.pc = "final" THEN NULL ELSE @]

Set(t, r) == thr' = [thr EXCEPT ![t] = Tidy(r)]

(* The thread has the work share of its next construct.                    *)
Entered(T, w) == [T EXCEPT !.pc = "in", !.ws = w, !.k = @ + 1]

(* gomp_work_share_start, up to the answer of gomp_ptrlock_get.            *)
Start(t) ==
  LET T == [thr[t] EXCEPT !.last = thr[t].ws, !.first = FALSE]
      n == ws[T.ws].next
  IN /\ T.pc = "idle" /\ T.k < Constructs
     /\ \/ n \in WS /\ Set(t, Entered(T, n)) /\ UNCHANGED ws
        \/ /\ n = Unset
           /\ ws' = [ws EXCEPT ![T.ws].next = Claimed]
           /\ Set(t, [T EXCEPT !.pc = "alloc", !.first = TRUE])
        \/ n = Claimed /\ Set(t, [T EXCEPT !.pc = "wait"]) /\ UNCHANGED ws
     /\ UNCHANGED <<team, kinds>>

Wait(t) ==
  LET T == thr[t]
  IN /\ T.pc = "wait" /\ ws[T.last].next \in WS
     /\ Set(t, Entered(T, ws[T.last].next))
     /\ UNCHANGED <<ws, team, kinds>>

(* alloc_work_share: from the list of its own, or else it looks at the     *)
(* list of freed ones.                                                     *)
Alloc(t) ==
  LET T == thr[t]
  IN /\ T.pc = "alloc"
     /\ \/ /\ team.alloc # NULL
           /\ Set(t, [T EXCEPT !.pc = "init", !.loc = team.alloc])
           /\ team' = [team EXCEPT !.alloc = ws[team.alloc].free]
        \/ /\ team.alloc = NULL
           /\ Set(t, [T EXCEPT !.pc = "cut", !.loc = team.free])
           /\ UNCHANGED team
     /\ UNCHANGED <<ws, kinds>>

(* Nothing to recycle: twice as many as the last time are allocated, and   *)
(* all but the first go to the list.                                       *)
Grow(t) ==
  LET c == 2 * team.chunk
      u == team.used
  IN /\ u + c <= MaxWs
     /\ ws' = [w \in WS |-> IF w \in u + 1 .. u + c - 2
                            THEN [ws[w] EXCEPT !.free = w + 1] ELSE ws[w]]
     /\ team' = [team EXCEPT !.chunk = c, !.used = u + c, !.alloc = u + 1]
     /\ Set(t, [thr[t] EXCEPT !.pc = "init", !.loc = u])

(* It leaves the head of the list, which others may be exchanging, and     *)
(* takes all that follows.                                                 *)
Cut(t) ==
  LET T == thr[t]
      next == IF T.loc = NULL THEN NULL ELSE ws[T.loc].free
  IN /\ T.pc = "cut"
     /\ \/ /\ next # NULL
           /\ ws' = [ws EXCEPT ![T.loc].free = NULL]
           /\ team' = [team EXCEPT !.alloc = ws[next].free]
           /\ Set(t, [T EXCEPT !.pc = "init", !.loc = next])
        \/ next = NULL /\ Grow(t)
     /\ UNCHANGED kinds

MutInitWs(t) ==                \* keeps the next_ws of its former use
  LET T == thr[t]
  IN /\ T.pc = "init"
     /\ ws' = [ws EXCEPT ![T.loc].completed = 0, ![T.loc].uses = @ + 1]
     /\ Set(t, [T EXCEPT !.pc = "fill", !.ws = T.loc, !.loc = NULL])
     /\ UNCHANGED <<team, kinds>>

(* gomp_init_work_share                                                    *)
InitWs(t) ==
  LET T == thr[t]
  IN /\ T.pc = "init"
     /\ ws' = [ws EXCEPT ![T.loc].next = Unset, ![T.loc].completed = 0, ![T.loc].uses = @ + 1]
     /\ Set(t, [T EXCEPT !.pc = "fill", !.ws = T.loc, !.loc = NULL])
     /\ UNCHANGED <<team, kinds>>

(* gomp_work_share_init_done: gomp_ptrlock_set lets the others in.         *)
InitDone(t) ==
  LET T == thr[t]
  IN /\ T.pc = "fill"
     /\ ws' = [ws EXCEPT ![T.last].next = T.ws]
     /\ Set(t, Entered(T, T.ws))
     /\ UNCHANGED <<team, kinds>>
-----------------------------------------------------------------------------
MutEndNowait(t) ==             \* the first to be done frees it
  LET T == thr[t]
      done == ws[T.ws].completed + 1
  IN /\ \/ T.pc = "copied"
        \/ T.pc = "in" /\ kinds[T.k] = "nowait"
     /\ \/ /\ T.last # NULL /\ done = 1
           /\ team' = [team EXCEPT !.to_free = T.ws]
           /\ ws' = [ws EXCEPT ![T.last].uses = @ - 1, ![T.ws].completed = done]
           /\ Set(t, [T EXCEPT !.pc = "push", !.loc = T.last])
        \/ /\ T.last # NULL /\ done > 1
           /\ ws' = [ws EXCEPT ![T.ws].completed = done]
           /\ Set(t, [T EXCEPT !.pc = "idle", !.last = NULL])
           /\ UNCHANGED team
        \/ /\ T.last = NULL
           /\ Set(t, [T EXCEPT !.pc = "idle"])
           /\ UNCHANGED <<ws, team>>
     /\ UNCHANGED kinds

(* gomp_work_share_end_nowait: the last of all threads to be done with the *)
(* construct frees the work share of the construct before; the one of this *)
(* construct is then the first that gomp_team_end may have to finish.      *)
EndNowait(t) ==
  LET T == thr[t]
      done == ws[T.ws].completed + 1
  IN /\ \/ T.pc = "copied"
        \/ T.pc = "in" /\ kinds[T.k] = "nowait"
     /\ \/ /\ T.last # NULL /\ done = TeamSize
           /\ team' = [team EXCEPT !.to_free = T.ws]
           /\ ws' = [ws EXCEPT ![T.last].uses = @ - 1, ![T.ws].completed = done]
           /\ Set(t, [T EXCEPT !.pc = "push", !.loc = T.last])
        \/ /\ T.last # NULL /\ done # TeamSize
           /\ ws' = [ws EXCEPT ![T.ws].completed = done]
           /\ Set(t, [T EXCEPT !.pc = "idle", !.last = NULL])
           /\ UNCHANGED team
        \/ /\ T.last = NULL
           /\ Set(t, [T EXCEPT !.pc = "idle"])
           /\ UNCHANGED <<ws, team>>
     /\ UNCHANGED kinds

(* gomp_work_share_end and gomp_work_share_end_cancel: the last thread to  *)
(* arrive at the barrier frees it before the barrier opens.                *)
EndBarrier(t) ==
  LET T == thr[t]
      last == team.arrived = TeamSize - 1
  IN /\ T.pc = "in" /\ kinds[T.k] = "barrier" /\ ~team.cancelled
     /\ IF last /\ T.last # NULL
        THEN /\ ws' = [ws EXCEPT ![T.last].uses = @ - 1]
             /\ team' = [team EXCEPT !.to_free = T.ws, !.arrived = TeamSize]
             /\ Set(t, [T EXCEPT !.pc = "push", !.loc = T.last])
        ELSE /\ team' = [team EXCEPT !.arrived = IF last THEN 0 ELSE @ + 1,
                                     !.gen = IF last THEN @ + 1 ELSE @]
             /\ Set(t, IF last THEN [T EXCEPT !.pc = "idle"]
                       ELSE [T EXCEPT !.pc = "bar", !.gen = team.gen])
             /\ UNCHANGED ws
     /\ UNCHANGED kinds

(* The loop of free_work_share, then the barrier opens if it was one.      *)
Push(t) ==
  LET T == thr[t]
  IN /\ T.pc = "push"
     /\ ws' = [ws EXCEPT ![T.loc].free = team.free]
     /\ Set(t, [T EXCEPT !.pc = "cas", !.seen = team.free])
     /\ UNCHANGED <<team, kinds>>

Cas(t) ==
  LET T == thr[t]
  IN /\ T.pc = "cas"
     /\ \/ /\ team.free = T.seen
           /\ Set(t, [T EXCEPT !.pc = "idle", !.last = NULL, !.loc = NULL, !.seen = NULL])
           /\ team' = [team EXCEPT !.free = T.loc,
                                   !.gen = IF kinds[T.k] = "barrier" THEN @ + 1 ELSE @,
                                   !.arrived = IF kinds[T.k] = "barrier" THEN 0 ELSE @]
        \/ /\ team.free # T.seen
           /\ Set(t, [T EXCEPT !.pc = "push"])
           /\ UNCHANGED team
     /\ UNCHANGED <<ws, kinds>>

(* gomp_team_barrier_wait_end and _wait_cancel_end, for all but the last.  *)
Pass(t) ==
  LET T == thr[t]
  IN /\ T.pc = "bar"
     /\ \/ team.gen # T.gen /\ kinds[T.k] = "barrier"
           /\ Set(t, [T EXCEPT !.pc = "idle", !.last = NULL])
        \/ team.gen # T.gen /\ kinds[T.k] = "copy" /\ Set(t, [T EXCEPT !.pc = "copied"])
        \/ team.gen = T.gen /\ team.cancelled /\ Set(t, [T EXCEPT !.pc = "final"])
     /\ UNCHANGED <<ws, team, kinds>>

(* GOMP_single_copy_end for the thread that got the single, which stores   *)
(* the data first, and GOMP_single_copy_start for the others: a barrier.   *)
CopyBarrier(t) ==
  LET T == thr[t]
      last == team.arrived = TeamSize - 1
  IN /\ T.pc = "in" /\ kinds[T.k] = "copy" /\ ~team.cancelled
     /\ ws' = IF T.first THEN [ws EXCEPT ![T.ws].copyprivate = T.k] ELSE ws
     /\ team' = [team EXCEPT !.arrived = IF last THEN 0 ELSE @ + 1,
                             !.gen = IF last THEN @ + 1 ELSE @]
     /\ Set(t, IF last THEN [T EXCEPT !.pc = "copied"]
               ELSE [T EXCEPT !.pc = "bar", !.gen = team.gen])
     /\ UNCHANGED kinds
-----------------------------------------------------------------------------
(* GOMP_cancel (GOMP_CANCEL_PARALLEL): the thread leaves at once, ...      *)
Cancel(t) ==
  /\ team.cancellable /\ ~team.cancelled /\ thr[t].pc \in {"idle", "in"}
  /\ team' = [team EXCEPT !.cancelled = TRUE]
  /\ Set(t, [thr[t] EXCEPT !.pc = "final"])
  /\ UNCHANGED <<ws, kinds>>

(* ... the others at their next cancellation point or barrier, or when     *)
(* they have done all constructs.                                          *)
Leave(t) ==
  LET T == thr[t]
  IN /\ \/ T.pc = "idle" /\ T.k = Constructs
        \/ T.pc \in {"idle", "in"} /\ team.cancelled
     /\ Set(t, [T EXCEPT !.pc = "final"])
     /\ UNCHANGED <<ws, team, kinds>>

(* The work shares from w on, along succ.                                  *)
Reached(succ, w) ==
  LET f[n \in 0 .. MaxWs] ==
        [v \in WS |-> IF n = 0 \/ succ[v] \notin WS THEN {v} ELSE {v} \cup f[n - 1][succ[v]]]
  IN f[MaxWs][w]

Chain(w) == Reached([v \in WS |-> ws[v].next], w)

(* gomp_team_end, by the master once all threads are at the final barrier: *)
(* in a cancelled region the work shares left are finished one by one, in  *)
(* any other only the last is left.                                        *)
TeamEnd ==
  /\ \A t \in Thread : thr[t].pc = "final"
  /\ LET left == IF team.cancelled THEN Chain(team.to_free) ELSE {thr[Master].ws}
     IN ws' = [w \in WS |-> IF w \in left THEN [ws[w] EXCEPT !.uses = @ - 1] ELSE ws[w]]
  /\ thr' = [t \in Thread |-> [thr[t] EXCEPT !.pc = "over"]]
  /\ team' = [team EXCEPT !.over = TRUE]
  /\ UNCHANGED kinds

Over == team.over /\ UNCHANGED vars

Step(t) == \/ Start(t) \/ Wait(t) \/ Alloc(t) \/ Cut(t) \/ InitWs(t) \/ InitDone(t)
           \/ EndNowait(t) \/ EndBarrier(t) \/ CopyBarrier(t) \/ Push(t) \/ Cas(t)
           \/ Pass(t) \/ Leave(t)

Next == (\E t \in Thread : Step(t) \/ Cancel(t)) \/ TeamEnd \/ Over

Spec == Init /\ [][Next]_vars

(* The threads of the team go on; nobody need cancel.                      *)
FairSpec == Spec /\ (\A t \in Thread : WF_vars(Step(t))) /\ WF_vars(TeamEnd)
-----------------------------------------------------------------------------
(* The work shares on a list of the team, from its head on.                *)
List(head) == IF head = NULL THEN {} ELSE Reached([v \in WS |-> ws[v].free], head)

(* A work share that a thread is in, or has still to look up its successor *)
(* in, is neither on a list nor finished, and a newly allocated one is     *)
(* nobody else's: however far the threads are apart, and although the head *)
(* of work_share_list_free is exchanged while the rest is taken away.      *)
NoUseAfterFree ==
  LET Listed == List(team.alloc) \cup List(team.free)
      Live(w) == w \notin Listed /\ ws[w].uses = 1
  IN /\ List(team.alloc) \cap List(team.free) = {}
     /\ \A t \in Thread :
          LET T == thr[t]
          IN /\ T.pc # "over" => Live(T.ws)
             /\ T.last # NULL /\ T.pc \notin {"bar", "push", "cas", "final", "over"} => Live(T.last)
             /\ T.pc = "init" => T.loc \notin Listed /\ ws[T.loc].uses = 0

(* Threads share a work share exactly if they are in the same construct,   *)
(* and what a copying single hands out is what its thread stored.          *)
ConstructsAgree ==
  /\ \A s, t \in {u \in Thread : thr[u].pc # "fill"} :
       thr[s].k = thr[t].k <=> thr[s].ws = thr[t].ws
  /\ \A t \in Thread : thr[t].pc = "copied" => ws[thr[t].ws].copyprivate = thr[t].k

(* Every work share that was initialised is finished once, by the end of   *)
(* the region at the latest, even of a cancelled one.                      *)
FinishedOnce ==
  \A w \in WS : ws[w].uses \in {0, 1} /\ (team.over => ws[w].uses = 0)

(* Each construct has one work share, from its first thread to its last.   *)
OneWorkShareEach == ConstructsAgree /\ FinishedOnce
=============================================================================
