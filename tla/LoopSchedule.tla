---------------------------- MODULE LoopSchedule ----------------------------
(***************************************************************************)
(* How the iterations of a loop (iter.c, loop.c; iter_ull.c, loop_ull.c    *)
(* for unsigned long long), and sections (sections.c), are handed out to   *)
(* the threads of a team: schedule static, without synchronisation;        *)
(* dynamic, by fetch-and-add on ws->next where the mode says that this     *)
(* cannot overflow, else by compare-and-swap; and guided, by               *)
(* compare-and-swap.  A long or unsigned long long has Width bits and      *)
(* wraps around.  A taskloop (taskloop.c) is split into tasks by one thread.*)
(*                                                                         *)
(* The loop has been set up by the thread that came first, or before the   *)
(* region started (gomp_parallel_loop_start); the threads ask for blocks   *)
(* until there are no more.  A thread is at "next", about to ask (for the  *)
(* compare-and-swap schedules: to load ws->next), at "cas" with the value  *)
(* it has seen, or "done".                                                 *)
(***************************************************************************)
EXTENDS Integers, FiniteSets

CONSTANTS Width,      \* of a long, even
          MaxThreads,
          Loops,      \* records start, end, incr, chunk, ull
          Scheds,     \* of "STATIC", "DYNAMIC", "GUIDED", "SECTIONS",
                      \* "GRAINSIZE" and "NUM_TASKS" (taskloops)
          Combined    \* whether the loop is set up before the region starts

ASSUME LoopAssumption ==
  /\ Width \in Nat /\ MaxThreads \in Nat \ {0}
  /\ \A l \in Loops : l.incr # 0 /\ l.chunk >= 0

LONG_MAX == 2 ^ (Width - 1) - 1
LONG_MIN == -(2 ^ (Width - 1))

(* The long, and the unsigned long, that the arithmetic of C leaves.       *)
Long(x) == ((x - LONG_MIN) % 2 ^ Width) + LONG_MIN
ULong(x) == x % 2 ^ Width

Abs(x) == IF x < 0 THEN -x ELSE x

(* The division of C truncates.                                            *)
Quot(x, y) == LET q == Abs(x) \div Abs(y) IN IF (x < 0) = (y < 0) THEN q ELSE -q

VARIABLES nthreads,   \* of the team
          loop,       \* the loop as the program states it
          ws,         \* the fields of the work share
          thr,        \* the threads
          given,      \* the iterations handed out
          amiss       \* an iteration was handed out twice, or is not one

vars == <<nthreads, loop, ws, thr, given, amiss>>

Team == 0 .. nthreads - 1

(* Iterations from s up (or down) to but not including e.                  *)
Iterations(s, e, incr) ==
  {x \in LONG_MIN .. 2 ^ Width - 1 :
     IF incr > 0 THEN s <= x /\ x < e /\ (x - s) % incr = 0
                 ELSE s >= x /\ x > e /\ (s - x) % (-incr) = 0}

All == Iterations(loop.start, loop.end, loop.incr)

(* The loop's direction: the sign of incr, or for an unsigned long long,   *)
(* whose incr wraps around, a parameter.                                   *)
Up == loop.incr > 0

(* A value of the loop's type.                                             *)
Val(x) == IF loop.ull THEN ULong(x) ELSE Long(x)

(* The number of iterations.                                               *)
Count(s, e, incr) == ULong(Quot(Long(e - s + incr + (IF Up THEN -1 ELSE 1)), incr))

UllCount(s, e, incr) ==
  IF Up THEN ULong(e - s + incr - 1) \div incr
        ELSE ULong(s - e - incr - 1) \div ULong(-incr)
-----------------------------------------------------------------------------
(* "Cheap overflow protection": the mode of the dynamic schedule allows    *)
(* fetch-and-add if each of n threads may add a chunk beyond the end.      *)
MutMode(n, end, incr, chunk) == TRUE

Mode(n, end, incr, chunk) ==
  LET half == 2 ^ (Width \div 2 - 1)
  IN IF incr > 0
     THEN /\ n < half /\ ULong(chunk) < half
          /\ end < LONG_MAX - (n + 1) * chunk
     ELSE /\ n < half /\ ULong(-chunk) < half
          /\ end > (n + 1) * (-chunk) - LONG_MAX

(* gomp_loop_init, by a thread whose team has n threads.                   *)
LoopInit(l, sched, n) ==
  LET up == l.incr > 0
      end == IF (up /\ l.start > l.end) \/ (~up /\ l.start < l.end)
             THEN l.start ELSE l.end
      chunk == IF sched = "DYNAMIC" THEN Long(l.chunk * l.incr) ELSE l.chunk
  IN [sched |-> sched, next |-> l.start, end |-> end, incr |-> l.incr, chunk |-> chunk,
      mode |-> sched = "DYNAMIC" /\ Mode(n, end, l.incr, chunk)]

(* gomp_loop_ull_init.  Unsigned, a negative incr and chunk are large.     *)
UllMode(n, end, chunk) ==
  LET half == 2 ^ (Width \div 2 - 1)
      c == IF Up THEN chunk ELSE ULong(-chunk)
      max == 2 ^ Width - 1
  IN /\ n < half /\ c < half
     /\ IF Up THEN end < ULong(max - (n + 1) * c) ELSE end > ULong((n + 1) * c - max)

LoopUllInit(l, sched, n) ==
  LET end == IF (Up /\ l.start > l.end) \/ (~Up /\ l.start < l.end) THEN l.start ELSE l.end
      chunk == IF sched = "DYNAMIC" THEN ULong(l.chunk * l.incr) ELSE l.chunk
  IN [sched |-> sched, next |-> l.start, end |-> end, incr |-> ULong(l.incr), chunk |-> chunk,
      mode |-> sched = "DYNAMIC" /\ UllMode(n, end, chunk)]

(* gomp_sections_init: sections are a loop from 1 to their number, an      *)
(* unsigned, which is half as wide as a long.                              *)
SectionsInit(l) ==
  [sched |-> "DYNAMIC", next |-> 1, end |-> l.end, incr |-> 1, chunk |-> 1, mode |-> TRUE]

AreSections(l) ==
  l.start = 1 /\ l.incr = 1 /\ l.chunk = 1 /\ l.end - 1 \in 0 .. 2 ^ (Width \div 2) - 1

(* GOMP_taskloop with grainsize(l.chunk) or num_tasks(l.chunk).  The       *)
(* first nfirst + 1 of num_tasks tasks get task_step, the others one step  *)
(* less.                                                                   *)
Split(n, tasks, step) ==
  LET div == n \div tasks
      mod == n % tasks
  IN [num_tasks |-> tasks,
      nfirst |-> IF mod # 0 THEN mod - 1 ELSE n,
      task_step |-> Val((IF mod # 0 THEN div + 1 ELSE div) * step)]

Grain(l, n, step) ==
  LET tasks == n \div l.chunk
      mul == tasks * l.chunk
  IN CASE tasks <= 1 -> [num_tasks |-> 1, nfirst |-> n, task_step |-> Val(l.end - l.start)]
       [] tasks > 1 /\ tasks >= l.chunk ->
            [num_tasks |-> tasks,
             nfirst |-> IF mul # n THEN n - mul - 1 ELSE n,
             task_step |-> Val((IF mul # n THEN l.chunk + 1 ELSE l.chunk) * step)]
       [] OTHER -> Split(n, tasks, step)

NumTasks(l, n, step) ==
  LET tasks == IF l.chunk = 0 THEN nthreads ELSE l.chunk
  IN IF tasks >= n THEN [num_tasks |-> n, nfirst |-> n, task_step |-> step]
                   ELSE Split(n, tasks, step)

Taskloop(l, sched) ==
  LET step == Val(l.incr)
      n == IF l.ull THEN UllCount(l.start, l.end, step) ELSE Count(l.start, l.end, step)
      split == IF (Up /\ l.start >= l.end) \/ (~Up /\ l.start <= l.end)
               THEN [num_tasks |-> 0, nfirst |-> 0, task_step |-> 0]
               ELSE IF sched = "GRAINSIZE" THEN Grain(l, n, step) ELSE NumTasks(l, n, step)
  IN [sched |-> sched, next |-> l.start, end |-> l.end, incr |-> step, split |-> split]

Tasks == {"GRAINSIZE", "NUM_TASKS"}

(* The threads that gomp_loop_init counts.  The encountering thread of a   *)
(* combined construct (gomp_parallel_loop_start) is not yet in the team of *)
(* the region: outside of any team it counts one.                          *)
Counted == IF Combined THEN 1 ELSE nthreads

(* The thread that comes first to the construct sets it up; the others     *)
(* find it ready (gomp_work_share_init_done).                              *)
Init ==
  /\ nthreads \in 1 .. MaxThreads
  /\ loop \in Loops
  /\ \E sched \in Scheds :
       /\ loop.chunk = 0 => sched \in {"STATIC", "NUM_TASKS"}
       /\ ws = CASE sched = "SECTIONS" -> SectionsInit(loop)
                 [] sched \in Tasks -> Taskloop(loop, sched)
                 [] OTHER -> IF loop.ull THEN LoopUllInit(loop, sched, Counted)
                                         ELSE LoopInit(loop, sched, Counted)
       /\ sched = "SECTIONS" => AreSections(loop)
  /\ thr = [t \in Team |-> [pc |-> IF ws.sched \in Tasks /\ t # 0 THEN "done" ELSE "next",
                            trip |-> 0, start |-> 0, chunk |-> 0, at |-> loop.start, has |-> {}]]
  /\ given = {} /\ amiss = FALSE
-----------------------------------------------------------------------------
(* The caller iterates over the block from s to e.                         *)
Hand(t, T, s, e) ==
  LET block == Iterations(s, e, loop.incr)
  IN /\ thr' = [thr EXCEPT ![t] = [T EXCEPT !.pc = "next", !.at = s,
                                            !.has = @ \cup block]]
     /\ given' = given \cup block
     /\ amiss' = (amiss \/ block \cap given # {} \/ ~(block \subseteq All))

NoMore(t, T) == thr' = [thr EXCEPT ![t] = [T EXCEPT !.pc = "done"]]
                /\ UNCHANGED <<given, amiss>>

(* A block of a static schedule, which has n iterations altogether.  The   *)
(* trip is -1 once the thread has had the last iteration of all.           *)
Block(t, T, n, s0, e0) ==
  Hand(t, [T EXCEPT !.trip = IF e0 = n THEN -1 ELSE @ + 1],
       Val(s0 * ws.incr + ws.next), Val(e0 * ws.incr + ws.next))

(* Without a chunk size each thread has one share, the first few being one *)
(* iteration larger.                                                       *)
StaticShare(t, n) ==
  LET q == n \div nthreads
      r == n % nthreads
  IN IF t < r THEN <<(q + 1) * t, (q + 1) * t + q + 1>> ELSE <<q * t + r, q * t + r + q>>

(* A thread finds its blocks by itself.                                    *)
Static(t, n) ==
  LET T == thr[t]
      single == nthreads = 1
      share == StaticShare(t, n)
      s0 == ULong((T.trip * nthreads + t) * ws.chunk)
      e0 == ULong(s0 + ws.chunk)
  IN /\ ws.sched = "STATIC" /\ T.pc = "next"
     /\ \/ T.trip = -1 /\ NoMore(t, T)
        \/ /\ T.trip # -1 /\ single
           /\ IF ws.next = ws.end THEN NoMore(t, [T EXCEPT !.trip = -1])
              ELSE Hand(t, [T EXCEPT !.trip = -1], ws.next, ws.end)
        \/ /\ T.trip # -1 /\ ~single /\ ws.chunk = 0
           /\ IF T.trip > 0 \/ share[1] >= share[2]
              THEN NoMore(t, [T EXCEPT !.trip = 1])
              ELSE Block(t, T, n, share[1], share[2])
        \/ /\ T.trip # -1 /\ ~single /\ ws.chunk # 0
           /\ IF s0 >= n THEN NoMore(t, T)
              ELSE Block(t, T, n, s0, IF e0 > n THEN n ELSE e0)
     /\ UNCHANGED <<nthreads, loop, ws>>

StaticNext(t) == ~loop.ull /\ Static(t, Count(ws.next, ws.end, ws.incr))
UllStaticNext(t) == loop.ull /\ Static(t, UllCount(ws.next, ws.end, ws.incr))

(* gomp_iter_dynamic_next with mode set.                                   *)
Add(t) ==
  LET T == thr[t]
      nend == Val(ws.next + ws.chunk)
  IN /\ ws.sched = "DYNAMIC" /\ ws.mode /\ T.pc = "next"
     /\ ws' = [ws EXCEPT !.next = nend]
     /\ IF (Up /\ ws.next >= ws.end) \/ (~Up /\ ws.next <= ws.end)
        THEN NoMore(t, T)
        ELSE Hand(t, T, ws.next,
                  IF (Up /\ nend > ws.end) \/ (~Up /\ nend < ws.end) THEN ws.end ELSE nend)
     /\ UNCHANGED <<nthreads, loop>>

FetchAdd(t) == ~loop.ull /\ Add(t)
UllFetchAdd(t) == loop.ull /\ Add(t)

(* gomp_iter_dynamic_next otherwise, and gomp_iter_guided_next.            *)
Load(t) ==
  LET T == thr[t]
  IN /\ ws.sched \in {"DYNAMIC", "GUIDED"} /\ ~ws.mode /\ T.pc = "next"
     /\ thr' = [thr EXCEPT ![t] = [T EXCEPT !.pc = "cas", !.start = ws.next,
                                            !.chunk = ws.chunk]]
     /\ UNCHANGED <<nthreads, loop, ws, given, amiss>>

(* The chunk of the dynamic schedule, cut down to what is left.            *)
Clip(chunk, left) ==
  IF Up THEN IF chunk > left THEN left ELSE chunk
        ELSE IF chunk < left THEN left ELSE chunk

(* How many iterations are left of a guided loop (rounded down).           *)
Left(start) == ULong(Quot(Long(ws.end - start), ws.incr))

UllLeft(start) ==
  IF Up THEN ULong(ws.end - start) \div ws.incr ELSE ULong(start - ws.end) \div ULong(-ws.incr)

(* The end of the block of the guided schedule: a fair part of what is     *)
(* left, at least a chunk.                                                 *)
MutGuidedEnd(start, n) ==      \* not cut at the end of the loop
  LET q == ULong(n + nthreads - 1) \div nthreads
  IN Val(start + (IF q < ws.chunk THEN ws.chunk ELSE q) * ws.incr)

GuidedEnd(start, n) ==
  LET fair == ULong(n + nthreads - 1) \div nthreads
      q == IF fair < ws.chunk THEN ws.chunk ELSE fair
  IN IF q <= n THEN Val(start + q * ws.incr) ELSE ws.end

(* A failed exchange goes round with the value it found.                   *)
Exchange(t, left) ==
  LET T == thr[t]
      chunk == IF ws.sched = "DYNAMIC" THEN Clip(T.chunk, Val(ws.end - T.start)) ELSE T.chunk
      nend == IF ws.sched = "DYNAMIC" THEN Val(T.start + chunk) ELSE GuidedEnd(T.start, left)
  IN /\ T.pc = "cas"
     /\ \/ T.start = ws.end /\ NoMore(t, T) /\ UNCHANGED ws
        \/ /\ T.start # ws.end /\ T.start = ws.next
           /\ ws' = [ws EXCEPT !.next = nend]
           /\ Hand(t, T, T.start, nend)
        \/ /\ T.start # ws.end /\ T.start # ws.next
           /\ thr' = [thr EXCEPT ![t] = [T EXCEPT !.start = ws.next, !.chunk = chunk]]
           /\ UNCHANGED <<ws, given, amiss>>
     /\ UNCHANGED <<nthreads, loop>>

Cas(t) == ~loop.ull /\ Exchange(t, Left(thr[t].start))
UllCas(t) == loop.ull /\ Exchange(t, UllLeft(thr[t].start))

(* GOMP_taskloop makes the next task.                                      *)
MakeTask(t) ==
  LET i == thr[t].trip
      p == ws.split
      next == Val(ws.next + p.task_step)
  IN /\ ws.sched \in Tasks /\ thr[t].pc = "next"
     /\ \/ i = p.num_tasks /\ NoMore(t, thr[t]) /\ UNCHANGED ws
        \/ /\ i < p.num_tasks
           /\ Hand(t, [thr[t] EXCEPT !.trip = i + 1,
                                     !.chunk = Cardinality(Iterations(ws.next, next, loop.incr))],
                   ws.next, next)
           /\ ws' = [ws EXCEPT !.next = next,
                               !.split.task_step = IF i = p.nfirst THEN Val(@ - ws.incr) ELSE @]
     /\ UNCHANGED <<nthreads, loop>>

Finished == \A t \in Team : thr[t].pc = "done"

Over == Finished /\ UNCHANGED vars

Next ==
  \/ \E t \in Team :
       \/ StaticNext(t) \/ FetchAdd(t) \/ Cas(t)
       \/ UllStaticNext(t) \/ UllFetchAdd(t) \/ UllCas(t)
       \/ Load(t) \/ MakeTask(t)
  \/ Over

Spec == Init /\ [][Next]_vars
-----------------------------------------------------------------------------
(* Every iteration of the loop, and nothing else, is handed out once,      *)
(* whatever the schedule, the bounds and the interleaving.                 *)
EachIterationOnce == ~amiss /\ (Finished => given = All)

(* "The current dynamic implementation is always monotonic": a thread goes *)
(* through the loop in its direction.                                      *)
Monotonic ==
  [][\A t \in Team : IF Up THEN thr'[t].at >= thr[t].at
                           ELSE thr'[t].at <= thr[t].at]_vars

(* "Return less than 0 if this thread had received the absolutely last     *)
(* iteration": with a static schedule the thread that had it, and no       *)
(* other, knows.                                                           *)
LastIterationKnown ==
  ws.sched = "STATIC" /\ nthreads > 1 =>
    \A t \in Team :
      thr[t].trip = -1 <=> All # {} /\ (IF Up
                                        THEN CHOOSE x \in All : \A y \in All : y <= x
                                        ELSE CHOOSE x \in All : \A y \in All : y >= x)
                                       \in thr[t].has

(* The tasks of a taskloop: with a grainsize, of at least as many          *)
(* iterations, or all, but less than twice as many; otherwise the number   *)
(* asked for, if there are enough iterations, of sizes that differ by one. *)
TaskSizes ==
  LET n == Cardinality(All)
      size == thr[0].chunk
      asked == IF loop.chunk = 0 THEN nthreads ELSE loop.chunk
      tasks == IF asked < n THEN asked ELSE n
  IN /\ ws.sched = "GRAINSIZE" /\ thr[0].trip > 0 =>
          size >= (IF n < loop.chunk THEN n ELSE loop.chunk) /\ size < 2 * loop.chunk
     /\ ws.sched = "NUM_TASKS" =>
          /\ thr[0].trip > 0 => size \in {n \div tasks, n \div tasks + 1}
          /\ Finished => thr[0].trip = tasks

(* The loop is shared out completely, the last iteration is known, and the *)
(* tasks have the sizes that were asked for.                               *)
LoopCovered == EachIterationOnce /\ LastIterationKnown /\ TaskSizes

=============================================================================
