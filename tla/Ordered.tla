------------------------------ MODULE Ordered ------------------------------
(***************************************************************************)
(* Loops with ordered regions (ordered.c and the *_ordered_* routines of   *)
(* loop.c).  The threads of a team take blocks of iterations and run the   *)
(* ordered regions in them in the order of the blocks: the right to do so  *)
(* is passed from thread to thread by the semaphores ordered_release, one  *)
(* for each thread of the team, used by all loops of the region.  With a   *)
(* dynamic (or guided) schedule the threads queue up in the ring           *)
(* ordered_team_ids, with a static one it goes round by thread number.     *)
(*                                                                         *)
(* Blocks are numbered from 0 in the order of the loop; a static schedule  *)
(* deals them out in turn.  The team has more than one thread.             *)
(*                                                                         *)
(*   "idle"   before a loop                                                *)
(*   "body"   in a block                                                   *)
(*   "sync"   in gomp_ordered_sync, waiting for its semaphore, to enter an *)
(*            ordered region, "region" in it                               *)
(*   "nsync"  in the gomp_ordered_sync that starts the _next routine       *)
(*   "next"   past it, about to take the lock of the work share            *)
(*   "end"    no more blocks                                               *)
(***************************************************************************)
EXTENDS Integers, Sequences

CONSTANTS N,          \* threads of the team
          Regions     \* sequences of loops: records static, n (blocks), nowait

ASSUME OrderedAssumption ==
  /\ N \in Nat /\ N > 1
  /\ Regions \subseteq Seq([static : BOOLEAN, n : Nat, nowait : BOOLEAN])

VARIABLES loops, loopWs, sem, member,
          passed      \* the blocks of each loop that are done with

ordVars == <<loops, loopWs, sem, member, passed>>

Team == 0 .. N - 1
None == -1

(* gomp_init_work_share for an ordered loop.                               *)
FreshWs == [created |-> FALSE, next |-> 0, cur |-> 0, used |-> 0,
            ids |-> [i \in Team |-> 0], owner |-> None]

OrdInit ==
  /\ loops \in Regions
  /\ loopWs = [l \in DOMAIN loops |-> FreshWs]
  /\ sem = [t \in Team |-> 0]
  /\ member = [t \in Team |-> [pc |-> "idle", loop |-> 1, block |-> 0]]
  /\ passed = [l \in DOMAIN loops |-> {}]

Post(s, t) == [s EXCEPT ![t] = @ + 1]
At(t, l, b) == member' = [member EXCEPT ![t].pc = l, ![t].block = b]
-----------------------------------------------------------------------------
(* gomp_ordered_first: a thread joins the queue; if it is alone nobody     *)
(* else would release it.                                                  *)
First(W, t) == [W EXCEPT !.ids[(W.cur + W.used) % N] = t, !.used = @ + 1]
FirstPost(W, s, t) == IF W.used = 0 THEN Post(s, t) ELSE s

(* gomp_ordered_next: from the head of the queue to its end.  In a full    *)
(* ring its number is already there.                                       *)
MutRequeue(W, t) ==            \* does not write its number
  IF W.used = 1 THEN [W EXCEPT !.owner = None]
  ELSE [W EXCEPT !.owner = None, !.cur = (W.cur + 1) % N]

Requeue(W, t) ==
  IF W.used = 1 THEN [W EXCEPT !.owner = None]
  ELSE [W EXCEPT !.owner = None, !.cur = (W.cur + 1) % N,
                 !.ids[(W.cur + W.used) % N] = IF W.used < N THEN t ELSE @]
RequeuePost(W, s, t) ==
  Post(s, IF W.used = 1 THEN t ELSE Requeue(W, t).ids[Requeue(W, t).cur])

(* gomp_ordered_last: it leaves the queue and releases the next.           *)
MutLast(W) == [W EXCEPT !.owner = None, !.used = @ - 1]

Last(W) == [W EXCEPT !.owner = None, !.used = @ - 1,
                     !.cur = IF W.used > 1 THEN (W.cur + 1) % N ELSE @]
LastPost(W, s) == IF W.used > 1 THEN Post(s, W.ids[Last(W).cur]) ELSE s

(* gomp_ordered_static_next                                                *)
StaticPass(W, t) == [W EXCEPT !.owner = None, !.ids[0] = (t + 1) % N]
-----------------------------------------------------------------------------
(* gomp_loop_ordered_static_start: the first thread to come sets the loop  *)
(* up and releases thread 0 (gomp_ordered_static_init).                    *)
StartStatic(t) ==
  LET l == member[t].loop
      W == loopWs[l]
  IN /\ member[t].pc = "idle" /\ l \in DOMAIN loops /\ loops[l].static
     /\ loopWs' = [loopWs EXCEPT ![l].created = TRUE]
     /\ sem' = IF W.created THEN sem ELSE Post(sem, 0)
     /\ IF t < loops[l].n THEN At(t, "body", t) ELSE At(t, "end", 0)
     /\ UNCHANGED <<loops, passed>>

(* gomp_loop_ordered_dynamic_start and _guided_start                       *)
StartDynamic(t) ==
  LET l == member[t].loop
      W == loopWs[l]
  IN /\ member[t].pc = "idle" /\ l \in DOMAIN loops /\ ~loops[l].static
     /\ IF W.next < loops[l].n
        THEN /\ loopWs' = [loopWs EXCEPT ![l] = First([W EXCEPT !.next = @ + 1], t)]
             /\ sem' = FirstPost(W, sem, t)
             /\ At(t, "body", W.next)
        ELSE At(t, "end", 0) /\ UNCHANGED <<loopWs, sem>>
     /\ UNCHANGED <<loops, passed>>

(* gomp_ordered_sync: the owner goes on, others wait for their semaphore.  *)
(* The owner is read without the lock.  It is called on entry to an        *)
(* ordered region, and by the _next routines after a block whether or not  *)
(* it had one.                                                             *)
Sync(t) ==
  LET own == loopWs[member[t].loop].owner = t
  IN /\ member[t].pc = "body"
     /\ \/ At(t, IF own THEN "region" ELSE "sync", member[t].block)
        \/ At(t, IF own THEN "next" ELSE "nsync", member[t].block)
     /\ UNCHANGED <<loops, loopWs, sem, passed>>

SyncWait(t) ==
  /\ member[t].pc \in {"sync", "nsync"} /\ sem[t] > 0
  /\ sem' = [sem EXCEPT ![t] = @ - 1]
  /\ loopWs' = [loopWs EXCEPT ![member[t].loop].owner = t]
  /\ At(t, IF member[t].pc = "sync" THEN "region" ELSE "next", member[t].block)
  /\ UNCHANGED <<loops, passed>>

(* GOMP_ordered_end does nothing: the right is kept to the end of the      *)
(* block.                                                                  *)
LeaveRegion(t) ==
  /\ member[t].pc = "region"
  /\ At(t, "body", member[t].block)
  /\ UNCHANGED <<loops, loopWs, sem, passed>>

Done(t) == passed' = [passed EXCEPT ![member[t].loop] = @ \cup {member[t].block}]

(* gomp_loop_ordered_static_next: gomp_iter_static_next is negative for    *)
(* the thread that had the last block, which does not pass the right on.   *)
NextStatic(t) ==
  LET l == member[t].loop
      b == member[t].block
      n == loops[l].n
  IN /\ member[t].pc = "next" /\ loops[l].static
     /\ IF b = n - 1 THEN UNCHANGED <<loopWs, sem>>
        ELSE /\ loopWs' = [loopWs EXCEPT ![l] = StaticPass(@, t)]
             /\ sem' = Post(sem, (t + 1) % N)
     /\ IF b + N < n THEN At(t, "body", b + N) ELSE At(t, "end", 0)
     /\ Done(t) /\ UNCHANGED loops

(* gomp_loop_ordered_dynamic_next and _guided_next                         *)
NextDynamic(t) ==
  LET l == member[t].loop
      W == loopWs[l]
  IN /\ member[t].pc = "next" /\ ~loops[l].static
     /\ IF W.next < loops[l].n
        THEN /\ loopWs' = [loopWs EXCEPT ![l] = Requeue([W EXCEPT !.next = @ + 1], t)]
             /\ sem' = RequeuePost(W, sem, t)
             /\ At(t, "body", W.next)
        ELSE /\ loopWs' = [loopWs EXCEPT ![l] = Last(W)]
             /\ sem' = LastPost(W, sem)
             /\ At(t, "end", 0)
     /\ Done(t) /\ UNCHANGED loops

(* GOMP_loop_end_nowait, or GOMP_loop_end with its barrier.                *)
End(t) ==
  /\ member[t].pc = "end"
  /\ \/ loops[member[t].loop].nowait
     \/ \A s \in Team : \/ member[s].loop > member[t].loop
                        \/ member[s].loop = member[t].loop /\ member[s].pc = "end"
  /\ member' = [member EXCEPT ![t].pc = "idle", ![t].loop = @ + 1]
  /\ UNCHANGED <<loops, loopWs, sem, passed>>

Finished == \A t \in Team : member[t].loop = Len(loops) + 1

OrdStep(t) == \/ StartStatic(t) \/ StartDynamic(t) \/ SyncWait(t) \/ LeaveRegion(t)
              \/ NextStatic(t) \/ NextDynamic(t) \/ End(t)

OrdNext == (\E t \in Team : OrdStep(t) \/ Sync(t)) \/ (Finished /\ UNCHANGED ordVars)

OrdSpec == OrdInit /\ [][OrdNext]_ordVars

(* The loops of R do not get at each other's semaphores: a static loop     *)
(* comes after a barrier, and one without iterations, which leaves a unit  *)
(* behind, is the last.                                                    *)
Apart(R) == \A l \in 1 .. Len(R) - 1 : /\ R[l + 1].static => ~R[l].nowait
                                       /\ R[l].static => R[l].n > 0

(* The threads go on, and a block ends after some ordered regions.         *)
OrdFairness ==
  \A t \in Team : /\ WF_ordVars(OrdStep(t) \/ Sync(t))
                 /\ SF_ordVars(Sync(t) /\ member'[t].pc \in {"nsync", "next"})
-----------------------------------------------------------------------------
(* "We must check to see if the current thread is at the head of the       *)
(* queue, and if not, block" (GOMP_ordered_start): a thread is in an       *)
(* ordered region only after all the blocks before its own are done with.  *)
InOrder ==
  \A t \in Team :
    member[t].pc = "region" => 0 .. member[t].block - 1 \subseteq passed[member[t].loop]
=============================================================================
