----------------------------- MODULE ThreadPool -----------------------------
(***************************************************************************)
(* Teams and the pool of threads that outlives them (team.c, parallel.c,   *)
(* config/posix/pool.h and simple-bar.h, the plain barrier of              *)
(* config/linux/bar.c).  A program thread, 0, opens parallel regions one   *)
(* after the other, the threads in a region may open nested ones; at the   *)
(* end of the program the pool is freed.  Pooled threads wait at the dock  *)
(* between regions of the program thread; those of a nested region are     *)
(* created and end with it.  The last team is kept for reuse.              *)
(*                                                                         *)
(* A barrier is one step for the arrival and one for leaving it; how these *)
(* are made of futex calls, and the tasks done meanwhile at the end of a   *)
(* region, is in TeamBarrier.  Threads are not bound to places; the lists  *)
(* of task states that a team keeps are in StatePool.                      *)
(*                                                                         *)
(*   "none"    there is no such thread                                     *)
(*   "user"    in user code, of the region in team or outside (team 0)     *)
(*   "cas"     in gomp_resolve_num_threads, has read threads_busy          *)
(*   "start"   knows the number of threads, calls gomp_new_team and        *)
(*             gomp_team_start; "arrive" at their barrier, "dock" waits    *)
(*             there, or at the one of a nested team ("bar")               *)
(*   "passed"  the master past the dock                                    *)
(*   "new"     a thread that has been created                              *)
(*   "final"   at the barrier that ends a region                           *)
(*   "ended"   the master past it, "wait" at that of a nested team, "free" *)
(*             past that too, "less" about to give back threads_busy       *)
(*   "fini"    another thread past it                                      *)
(*   "undock"  a pooled thread past the dock, not for the first time       *)
(*   "helper"  in gomp_free_pool_helper                                    *)
(*   "exit"    in gomp_free_thread, at the dock for the first, "exit2" for *)
(*             the second time; "gone" after it                            *)
(***************************************************************************)
EXTENDS Integers, Sequences, FiniteSets

LOCAL INSTANCE FiniteSetsExt

CONSTANTS MaxThreads,    \* threads that exist at a time
          Programs       \* records ibs (user-level threads with interrupts),
                         \* limit (thread_limit_var, 0 if it is UINT_MAX),
                         \* sizes (of the regions), regions (how many),
                         \* depth (max_active_levels)

ASSUME PoolAssumption == MaxThreads \in Nat \ {0}

VARIABLES program,
          gthr,          \* struct gomp_thread
          teams,         \* the teams ever allocated
          pool,          \* struct gomp_thread_pool
          managed,       \* gomp_managed_threads
          begun          \* regions begun

poolVars == <<program, gthr, teams, pool, managed, begun>>

Slots == 0 .. MaxThreads - 1
Pooled == Slots \ {0}

(* gomp_barrier_init, gomp_barrier_reinit, and gomp_barrier_wait_start     *)
(* with what the last to arrive does in gomp_barrier_wait_end.             *)
NewBar(n) == [total |-> n, awaited |-> n, final |-> n, gen |-> 0]
Reinit(b, n) == [b EXCEPT !.awaited = @ + n - b.total, !.total = n]
Arrived(b) == IF b.awaited = 1 THEN [b EXCEPT !.awaited = b.total, !.gen = @ + 1]
              ELSE [b EXCEPT !.awaited = @ - 1]
ArrivedFinal(b) == IF b.final = 1 THEN [b EXCEPT !.final = b.total, !.gen = @ + 1]
                   ELSE [b EXCEPT !.final = @ - 1]

NoThread == [pc |-> "none", team |-> 0, id |-> 0, fn |-> "none", gen |-> 0,
             n |-> 0, old |-> 0, k |-> 0, nested |-> FALSE, first |-> TRUE,
             fd |-> FALSE, reg |-> 0]

PoolInit ==
  /\ program \in Programs
  /\ gthr = [t \in Slots |-> IF t = 0 THEN [NoThread EXCEPT !.pc = "user", !.first = FALSE] ELSE NoThread]
  /\ teams = <<>>
  /\ pool = [exists |-> FALSE, threads |-> [i \in Pooled |-> 0], used |-> 0, last |-> 0,
             busy |-> 0, dock |-> NewBar(1)]
  /\ managed = 1 /\ begun = 0

Put(t, T) == gthr' = [gthr EXCEPT ![t] = T]

(* The teams thread t is in, from the innermost outwards.                  *)
Around(k) ==
  LET f[j \in 0 .. Len(teams)] == IF j = 0 THEN {} ELSE {j} \cup f[teams[j].prev.team]
  IN f[k]

ActiveLevel(k) == Cardinality({j \in Around(k) : teams[j].n > 1})

Least(a, b) == IF a < b THEN a ELSE b
-----------------------------------------------------------------------------
(* gomp_resolve_num_threads: what is asked for, the limit on the levels of *)
(* parallelism and the one on the threads of the program.  Outside any     *)
(* region there is nobody to race with, ...                                *)
Alone(t, n) == LET T == gthr[t]
               IN \/ n = 1 \/ ActiveLevel(T.team) >= program.depth
                  \/ program.limit = 0 \/ T.team = 0

Resolve(t) ==
  LET T == gthr[t]
  IN /\ T.pc = "user" /\ begun < program.regions
     /\ begun' = begun + 1
     /\ \E n \in program.sizes :
          LET m == IF n = 1 \/ ActiveLevel(T.team) >= program.depth THEN 1
                   ELSE IF program.limit # 0 THEN Least(n, program.limit) ELSE n
          IN \/ /\ Alone(t, n)
                /\ Put(t, [T EXCEPT !.pc = "start", !.n = m])
                /\ pool' = IF program.limit # 0 /\ T.team = 0 /\ pool.exists /\ n # 1
                           THEN [pool EXCEPT !.busy = m] ELSE pool
             \/ /\ ~Alone(t, n)
                /\ Put(t, [T EXCEPT !.pc = "cas", !.n = n, !.k = pool.busy])
                /\ UNCHANGED pool
     /\ UNCHANGED <<program, teams, managed>>

MutResolveCas(t) ==            \* the exchange is taken to succeed
  LET T == gthr[t]
      m == Least(T.n, program.limit - T.k + 1)
  IN /\ T.pc = "cas"
     /\ pool' = [pool EXCEPT !.busy = T.k + m - 1]
     /\ Put(t, [T EXCEPT !.pc = "start", !.n = m, !.k = 0])
     /\ UNCHANGED <<program, teams, managed, begun>>

(* ... in one the others may open nested regions too.                      *)
ResolveCas(t) ==
  LET T == gthr[t]
      m == Least(T.n, program.limit - T.k + 1)
  IN /\ T.pc = "cas"
     /\ IF pool.busy = T.k
        THEN /\ pool' = [pool EXCEPT !.busy = T.k + m - 1]
             /\ Put(t, [T EXCEPT !.pc = "start", !.n = m, !.k = 0])
        ELSE Put(t, [T EXCEPT !.k = pool.busy]) /\ UNCHANGED pool
     /\ UNCHANGED <<program, teams, managed, begun>>
-----------------------------------------------------------------------------
(* gomp_thread_interrupt_registration and _cancellation, which goes by the *)
(* file descriptor in thr->ts.                                             *)
Registered(T) == IF program.ibs THEN [T EXCEPT !.fd = TRUE, !.reg = @ + 1] ELSE T
Cancelled(T) == IF program.ibs /\ T.fd THEN [T EXCEPT !.fd = FALSE, !.reg = @ - 1] ELSE T

(* gomp_new_team: the last team if it has the right size, with its barrier.*)
LastTeam(T) == T.team = 0 /\ pool.last # 0 /\ teams[pool.last].n = T.n
NewTeam(T, last) ==
  [live |-> TRUE, n |-> T.n, nested |-> T.team # 0, open |-> TRUE, counted |-> T.n > 1,
   prev |-> [team |-> T.team, id |-> T.id, fd |-> T.fd],
   ran |-> [i \in 0 .. T.n - 1 |-> 0],
   bar |-> IF last THEN teams[pool.last].bar ELSE NewBar(T.n)]

Dead == SelectSeq([i \in 1 .. MaxThreads - 1 |-> i], LAMBDA t : gthr[t].pc = "none")

(* A thread for which pthread_create is called, and a pooled one that is   *)
(* given its part in the team: it may still be on its way to the dock.     *)
Created(k, i, nested) ==
  [NoThread EXCEPT !.pc = "new", !.team = k, !.id = i, !.nested = nested]
Recruit(W, k, i) ==
  [W EXCEPT !.team = k, !.id = i, !.fn = "region", !.fd = FALSE]

(* How many threads a team of n has to create when the pool has old.       *)
Missing(n, old) == IF n = 1 \/ n <= old THEN 0 ELSE n - old - (IF old = 0 THEN 1 ELSE 0)

Dock(d, old, n) == IF old = 0 THEN NewBar(n) ELSE IF n > old THEN Reinit(d, n) ELSE d

(* gomp_team_start.  A team of one thread is not set up any further; a     *)
(* nested team consists of new threads.                                    *)
TeamStart(t) ==
  LET T == gthr[t]
      n == T.n
      last == LastTeam(T)
      k == IF last THEN pool.last ELSE Len(teams) + 1
      nested == T.team # 0
      old == IF nested THEN 0 ELSE pool.used
      from == IF n < old THEN n ELSE IF old = 0 THEN 1 ELSE old
      slot(i) == Dead[i - from + 1]
      more == Missing(n, old)
      alone == [T EXCEPT !.team = k, !.id = 0, !.fd = FALSE]
      team == NewTeam(T, last)
      busy == IF pool.exists THEN pool.busy ELSE n    \* gomp_get_thread_pool
  IN /\ T.pc = "start" /\ more <= Len(Dead)
     /\ teams' = IF last THEN [teams EXCEPT ![k] = team] ELSE Append(teams, team)
     /\ managed' = managed + more
     /\ IF n = 1
        THEN /\ Put(t, [alone EXCEPT !.pc = "user"])
             /\ pool' = [pool EXCEPT !.exists = TRUE, !.busy = busy]
        ELSE /\ pool' = IF nested THEN pool
                        ELSE [pool EXCEPT !.exists = TRUE, !.busy = busy,
                                          !.last = IF last THEN 0 ELSE @,
                                          !.used = n,
                                          !.dock = Dock(@, old, n)]
             /\ gthr' = [u \in Slots |->
                  IF u = t THEN [Registered(alone) EXCEPT !.pc = "arrive", !.old = old]
                  ELSE IF \E i \in from .. from + more - 1 : u = slot(i)
                  THEN Created(k, CHOOSE i \in from .. from + more - 1 : u = slot(i), nested)
                  ELSE IF ~nested /\ \E i \in 1 .. Least(n, old) - 1 : u = pool.threads[i]
                  THEN Recruit(gthr[u], k, CHOOSE i \in 1 .. Least(n, old) - 1 : u = pool.threads[i])
                  ELSE gthr[u]]
     /\ UNCHANGED <<program, begun>>

(* The barrier all threads of the team meet at before the region.          *)
StartArrive(t) ==
  LET T == gthr[t]
      k == T.team
  IN /\ T.pc = "arrive"
     /\ IF teams[k].nested
        THEN /\ teams' = [teams EXCEPT ![k].bar = Arrived(@)]
             /\ Put(t, [T EXCEPT !.pc = "bar", !.gen = teams[k].bar.gen])
             /\ UNCHANGED pool
        ELSE /\ pool' = [pool EXCEPT !.dock = Arrived(@)]
             /\ Put(t, [T EXCEPT !.pc = "dock", !.gen = pool.dock.gen])
             /\ UNCHANGED teams
     /\ UNCHANGED <<program, managed, begun>>

Undocked(T) == T.pc = "dock" /\ pool.dock.gen # T.gen

(* The master goes on; threads that are not wanted any more no longer      *)
(* count.                                                                  *)
StartPass(t) ==
  LET T == gthr[t]
  IN /\ T.id = 0 /\ t = 0 /\ Undocked(T)
     /\ Put(t, [T EXCEPT !.pc = "user", !.old = 0, !.n = 0, !.gen = 0])
     /\ IF T.n < T.old
        THEN pool' = [pool EXCEPT !.dock = Reinit(@, T.n)] /\ managed' = managed + T.n - T.old
        ELSE UNCHANGED <<pool, managed>>
     /\ UNCHANGED <<program, teams, begun>>

NestedPass(t) ==
  LET T == gthr[t]
  IN /\ T.pc = "bar" /\ teams[T.team].bar.gen # T.gen
     /\ Put(t, [IF T.first THEN Registered(T) ELSE T EXCEPT
                  !.pc = "user", !.first = FALSE, !.n = 0, !.gen = 0])
     /\ UNCHANGED <<program, teams, pool, managed, begun>>
-----------------------------------------------------------------------------
(* gomp_thread_start, up to the barrier.                                   *)
ThreadStart(t) ==
  LET T == gthr[t]
  IN /\ T.pc = "new"
     /\ pool' = IF T.nested THEN pool ELSE [pool EXCEPT !.threads[T.id] = t]
     /\ Put(t, [T EXCEPT !.pc = "arrive"])
     /\ UNCHANGED <<program, teams, managed, begun>>

(* A pooled thread leaves the dock: the first time into the region, ...    *)
Launch(t) ==
  LET T == gthr[t]
  IN /\ t # 0 /\ Undocked(T)
     /\ Put(t, IF T.first THEN [Registered(T) EXCEPT !.pc = "user", !.first = FALSE, !.gen = 0]
               ELSE [T EXCEPT !.pc = "undock", !.gen = 0])
     /\ UNCHANGED <<program, teams, pool, managed, begun>>

MutUndock(t) ==                \* fn is not reset
  LET T == gthr[t]
  IN /\ T.pc = "undock"
     /\ Put(t, CASE T.fn = "none" -> NoThread
                 [] T.fn = "quit" -> [T EXCEPT !.pc = "helper"]
                 [] OTHER -> [Registered(T) EXCEPT !.pc = "user"])
     /\ UNCHANGED <<program, teams, pool, managed, begun>>

(* ... later it finds in fn what to do, after it has initialised its task  *)
(* times in the team it belongs to.                                        *)
Undock(t) ==
  LET T == gthr[t]
  IN /\ T.pc = "undock"
     /\ Put(t, CASE T.fn = "none" -> NoThread
                 [] T.fn = "quit" -> [T EXCEPT !.pc = "helper", !.fn = "none"]
                 [] OTHER -> [Registered(T) EXCEPT !.pc = "user", !.fn = "none"])
     /\ UNCHANGED <<program, teams, pool, managed, begun>>

(* gomp_free_pool_helper: gomp_barrier_wait_last does not wait.            *)
Helper(t) ==
  /\ gthr[t].pc = "helper"
  /\ pool' = [pool EXCEPT !.dock = Arrived(@)]
  /\ Put(t, NoThread)
  /\ UNCHANGED <<program, teams, managed, begun>>
-----------------------------------------------------------------------------
(* The end of a region: GOMP_parallel_end or the return of local_fn, then  *)
(* gomp_team_barrier_wait_final; which team is remembered, thr->ts may     *)
(* be that of the next region before a thread has woken up.                *)
End(t) ==
  LET T == gthr[t]
      k == T.team
  IN /\ T.pc = "user" /\ k # 0
     /\ teams' = [teams EXCEPT ![k].ran[T.id] = @ + 1, ![k].bar = ArrivedFinal(@)]
     /\ Put(t, [T EXCEPT !.pc = "final", !.k = k, !.gen = teams[k].bar.gen])
     /\ UNCHANGED <<program, pool, managed, begun>>

Master(t) == gthr[t].id = 0

FinalPass(t) ==
  LET T == gthr[t]
  IN /\ T.pc = "final" /\ teams[T.k].bar.gen # T.gen
     /\ Put(t, IF Master(t) THEN [T EXCEPT !.pc = "ended", !.k = 0, !.gen = 0]
               ELSE [T EXCEPT !.pc = "fini", !.gen = 0])
     /\ UNCHANGED <<program, teams, pool, managed, begun>>

(* The other threads finish their implicit task, in the team that has      *)
(* ended, and go to the dock, or for good.                                 *)
Fini(t) ==
  LET T == Cancelled(gthr[t])
      k == T.k
  IN /\ T.pc = "fini"
     /\ IF T.nested
        THEN /\ teams' = [teams EXCEPT ![k].bar = Arrived(@)]   \* gomp_barrier_wait_last
             /\ Put(t, NoThread)
             /\ UNCHANGED pool
        ELSE /\ pool' = [pool EXCEPT !.dock = Arrived(@)]
             /\ Put(t, [T EXCEPT !.pc = "dock", !.k = 0, !.gen = pool.dock.gen])
             /\ UNCHANGED teams
     /\ UNCHANGED <<program, managed, begun>>

(* gomp_team_end, for the master.                                          *)
TeamEnd(t) ==
  LET T == Cancelled(gthr[t])
      k == T.team
      K == teams[k]
  IN /\ T.pc = "ended"
     /\ teams' = [teams EXCEPT ![k].open = FALSE,
                               ![k].bar = IF K.nested THEN Arrived(@) ELSE @]
     /\ managed' = IF K.nested THEN managed + 1 - K.n ELSE managed
     /\ Put(t, [T EXCEPT !.pc = IF K.nested THEN "wait" ELSE "free", !.k = k,
                         !.gen = K.bar.gen, !.team = K.prev.team, !.id = K.prev.id,
                         !.fd = K.prev.fd])
     /\ UNCHANGED <<program, pool, begun>>

TeamEndWait(t) ==
  LET T == gthr[t]
  IN /\ T.pc = "wait" /\ teams[T.k].bar.gen # T.gen
     /\ Put(t, [T EXCEPT !.pc = "free"])
     /\ UNCHANGED <<program, teams, pool, managed, begun>>

(* free_team.                                                              *)
Freed(S) ==
  [k \in DOMAIN teams |-> IF k \in S THEN [teams[k] EXCEPT !.live = FALSE] ELSE teams[k]]


TeamFree(t) ==
  LET T == gthr[t]
      keep == T.team = 0 /\ teams[T.k].n > 1
  IN /\ T.pc = "free"
     /\ teams' = Freed(IF keep THEN {pool.last} ELSE {T.k})
     /\ pool' = IF keep THEN [pool EXCEPT !.last = T.k] ELSE pool
     /\ Put(t, [T EXCEPT !.pc = "less"])
     /\ UNCHANGED <<program, managed, begun>>

(* The rest of GOMP_parallel_end.                                          *)
GiveBack(t) ==
  LET T == gthr[t]
      n == teams[T.k].n
  IN /\ T.pc = "less"
     /\ pool' = IF program.limit = 0 \/ n = 1 THEN pool
                ELSE [pool EXCEPT !.busy = IF T.team = 0 THEN 1 ELSE @ + 1 - n]
     /\ teams' = [teams EXCEPT ![T.k].counted = FALSE]
     /\ Put(t, [T EXCEPT !.pc = "user", !.k = 0, !.gen = 0, !.n = 0])
     /\ UNCHANGED <<program, managed, begun>>
-----------------------------------------------------------------------------
(* The program thread ends: gomp_free_thread.                              *)
FreeThread ==
  LET T == gthr[0]
      idle == {pool.threads[i] : i \in 1 .. pool.used - 1}
  IN /\ T.pc = "user" /\ T.team = 0
     /\ IF pool.used = 0
        THEN /\ Put(0, [T EXCEPT !.pc = "gone"])
             /\ teams' = Freed({pool.last} \ {0})
             /\ pool' = [pool EXCEPT !.exists = FALSE, !.last = 0]
        ELSE /\ gthr' = [u \in Slots |->
                  IF u = 0 THEN [T EXCEPT !.pc = "exit", !.gen = pool.dock.gen]
                  ELSE IF u \in idle THEN [gthr[u] EXCEPT !.fn = "quit"] ELSE gthr[u]]
             /\ pool' = [pool EXCEPT !.dock = Arrived(@)]
             /\ UNCHANGED teams
     /\ UNCHANGED <<program, managed, begun>>

FreeThreadAgain ==
  LET T == gthr[0]
  IN /\ T.pc = "exit" /\ pool.dock.gen # T.gen
     /\ pool' = [pool EXCEPT !.dock = Arrived(@)]
     /\ Put(0, [T EXCEPT !.pc = "exit2", !.gen = pool.dock.gen])
     /\ UNCHANGED <<program, teams, managed, begun>>

FreePool ==
  LET T == gthr[0]
  IN /\ T.pc = "exit2" /\ pool.dock.gen # T.gen
     /\ managed' = managed + 1 - pool.used
     /\ teams' = Freed({pool.last} \ {0})
     /\ pool' = [pool EXCEPT !.exists = FALSE, !.used = 0, !.last = 0]
     /\ Put(0, [T EXCEPT !.pc = "gone"])
     /\ UNCHANGED <<program, begun>>

Gone == \A t \in Slots : gthr[t].pc \in {"none", "gone"}

(* What a thread does without user code deciding it.                       *)
PoolStep(t) ==
  \/ ResolveCas(t) \/ TeamStart(t) \/ StartArrive(t) \/ StartPass(t) \/ NestedPass(t)
  \/ ThreadStart(t) \/ Launch(t) \/ Undock(t) \/ Helper(t)
  \/ End(t) \/ FinalPass(t) \/ Fini(t) \/ TeamEnd(t) \/ TeamEndWait(t) \/ TeamFree(t)
  \/ GiveBack(t)

PoolEnd == FreeThread \/ FreeThreadAgain \/ FreePool

PoolNext == \/ \E t \in Slots : PoolStep(t) \/ Resolve(t)
            \/ PoolEnd
            \/ Gone /\ UNCHANGED poolVars

(* Threads run, regions end and so does the program.                       *)
PoolFairness == (\A t \in Slots : WF_poolVars(PoolStep(t))) /\ WF_poolVars(PoolEnd)
-----------------------------------------------------------------------------
(* The teams whose memory thread t is going to access.  A thread past the  *)
(* end of a region still reads its implicit task there, whichever team it  *)
(* has been given since; one at the dock has done with its last team.  To  *)
(* one that leaves the pool Undock gives none, see ExitingThreadsToo.      *)
Needs(t) ==
  LET T == gthr[t]
  IN CASE T.pc \in {"none", "gone", "exit", "exit2", "helper"} -> {}
       [] T.pc = "dock" /\ t # 0 /\ ~T.first -> {}
       [] T.pc = "fini" -> {T.k}
       [] T.pc = "undock" -> IF T.fn = "none" THEN {} ELSE {T.team}
       [] T.pc = "final" -> Around(T.k)
       [] T.pc \in {"wait", "free"} -> Around(T.team) \cup {T.k}
       [] OTHER -> Around(T.team)

(* Thread t is still in the barrier of a region that is over: its team has *)
(* been closed, or reused for a region that t has not run yet.             *)
SlowLeaver(t) ==
  LET T == gthr[t]
  IN T.pc = "final" /\ (~teams[T.k].open \/ teams[T.k].ran[T.id] = 0)


(* Every region is run once by each of its threads, with numbers from 0    *)
(* to n - 1, whichever of them are new, reused or on their way out, and by *)
(* nobody after its end; with interrupts each of them is registered while  *)
(* it does, and the program thread, back from nested regions, exactly as   *)
(* often as there are regions around it.                                   *)
EveryMemberRuns ==
  /\ \A t \in Slots : gthr[t].pc = "user" /\ gthr[t].team # 0 => teams[gthr[t].team].open
  /\ \A t \in Slots : gthr[t].pc = "ended" =>
       \A i \in DOMAIN teams[gthr[t].team].ran : teams[gthr[t].team].ran[i] = 1
  /\ \A s, t \in Slots :
       s # t /\ gthr[s].pc = "user" /\ gthr[t].pc = "user" /\ gthr[s].team = gthr[t].team
         => gthr[s].id # gthr[t].id
  /\ program.ibs => \A t \in Slots : gthr[t].pc = "user" =>
       /\ gthr[t].team # 0 /\ teams[gthr[t].team].n > 1 => gthr[t].fd
       /\ t = 0 => gthr[t].reg = ActiveLevel(gthr[t].team)

(* gomp_managed_threads and threads_busy are exact, whatever regions begin *)
(* and end at the same time, and the limit on the threads is kept.         *)
CountsExact ==
  LET opened == {k \in DOMAIN teams : teams[k].nested /\ teams[k].open}
      counted == {k \in DOMAIN teams : teams[k].counted}
      starting == {t \in Slots : gthr[t].pc = "start" /\ gthr[t].team # 0}
      extra == IF gthr[0].pc \in {"arrive", "dock"} /\ gthr[0].n < gthr[0].old
               THEN gthr[0].old - gthr[0].n ELSE 0
  IN /\ managed = (IF pool.used = 0 THEN 1 ELSE pool.used) + extra
                    + MapThenSumSet(LAMBDA k : teams[k].n - 1, opened)
     /\ program.limit # 0 /\ pool.exists /\ (gthr[0].pc # "start" \/ gthr[0].team # 0) =>
          /\ pool.busy = 1 + MapThenSumSet(LAMBDA k : teams[k].n - 1, counted)
                            + MapThenSumSet(LAMBDA t : gthr[t].n - 1, starting)
          /\ pool.busy <= program.limit

(* team.c: "We're going to release all threads from the dock, and those    *)
(* that aren't part of the team will exit": they may not use their last    *)
(* team any more, which the master frees without waiting for them.         *)
ExitingThreadsToo ==
  \A t \in Slots : gthr[t].pc = "undock" => teams[gthr[t].team].live
=============================================================================
