-------------------------- MODULE WorkShareProofs --------------------------
(***************************************************************************)
(* No work share is used after it was freed, and each construct has one,   *)
(* from its first thread to its last (WorkShare): for any number of        *)
(* threads and constructs, any chunk and any sequence of kinds.            *)
(*                                                                         *)
(* The program does not record where a work share is: in use by which      *)
(* construct, or on which list at which position.  The invariant says that *)
(* there is an account p, r of it that fits (Inv), and each step is given  *)
(* the account that fits after it.  What holds the proof together:         *)
(*   - the work shares in use are a chain of consecutive constructs, from  *)
(*     that of work_shares_to_free on (Chained), and a thread is in one of *)
(*     them, with the one before it while it may still have to free it     *)
(*     (Keeps);                                                            *)
(*   - threads_completed counts the threads that are done (Counted), so    *)
(*     the one that completes the count is the last that could have needed *)
(*     the work share before (Advance);                                    *)
(*   - only the opener of a construct takes from the lists, one at a time  *)
(*     (Single), and it leaves the head of the list of freed ones, so the  *)
(*     compare-and-swap of free_work_share does not meet a head that was   *)
(*     removed and put back (CasStep).                                     *)
(***************************************************************************)
EXTENDS WorkShare, Sums

(* Where a thread is: it opens the next construct, it is between two       *)
(* constructs, it frees a work share, it has left the region's constructs. *)
Opening == {"alloc", "cut", "init", "fill"}
Between == Opening \cup {"idle", "wait"}
Pushing == {"push", "cas"}
Left == {"final", "over"}
Labels == Between \cup Pushing \cup Left \cup {"in", "copied", "bar"}

(* Where a work share is: in use by a construct, being set up by its first *)
(* thread, taken from a list, on work_share_list_alloc, on                 *)
(* work_share_list_free, about to be pushed there, or not allocated yet.   *)
Places == {"live", "fill", "new", "alloc", "free", "push", "none"}

(* The types of the state.                                                 *)
WsType == [next : WS \cup {Unset, Claimed}, completed : Nat, copyprivate : Nat,
           free : WS \cup {NULL}, uses : Int]
ThrType == [pc : Labels, ws : WS, last : WS \cup {NULL}, k : 0 .. Constructs, gen : Nat,
            first : BOOLEAN, loc : WS \cup {NULL}, seen : WS \cup {NULL}]
TeamType == [alloc : WS \cup {NULL}, free : WS \cup {NULL}, chunk : Nat, used : Nat,
             to_free : WS, arrived : Nat, gen : Nat,
             cancellable : BOOLEAN, cancelled : BOOLEAN, over : BOOLEAN]

TypeOK ==
  /\ ws \in [WS -> WsType] /\ thr \in [Thread -> ThrType] /\ team \in TeamType
  /\ kinds \in [0 .. Constructs -> Kinds]

(* D, the threads that left a construct of a cancelled region from inside. *)
(* A thread is done with construct j: it has counted itself in             *)
(* threads_completed, or arrived at the barrier that stands for it.        *)
Busy(t, D) == \/ thr[t].pc \in {"in", "copied"}
              \/ thr[t].pc = "bar" /\ kinds[thr[t].k] = "copy"
              \/ t \in D
Done(t, j, D) == thr[t].k > j \/ (thr[t].k = j /\ ~Busy(t, D))
DoneSet(j, D) == {t \in Thread : Done(t, j, D)}

(* The threads that the team's barrier has counted as arrived.             *)
Waiting(t) == \/ thr[t].pc = "bar" /\ thr[t].gen = team.gen
              \/ thr[t].pc \in Pushing /\ kinds[thr[t].k] = "barrier"
WaitSet == {t \in Thread : Waiting(t)}

(* A thread is past the barrier of construct j.                            *)
Past(t) == \/ thr[t].pc \in Between \cup {"copied"}
           \/ thr[t].pc = "bar" /\ thr[t].gen # team.gen
           \/ thr[t].pc \in Pushing /\ kinds[thr[t].k] # "barrier"
           \/ thr[t].pc \in Left /\ ~team.cancelled
Passed(t, j) == thr[t].k > j \/ (thr[t].k = j /\ Past(t))

(* The members of the list x that starts at head: numbered by r, without   *)
(* gaps, from the last one up to the head.                                 *)
IsList(x, head, p, r) ==
  /\ head = NULL => \A w \in WS : p[w] # x
  /\ head # NULL => p[head] = x /\ \A w \in WS : p[w] = x => r[w] <= r[head]
  /\ \A w \in WS : p[w] = x =>
       IF ws[w].free = NULL THEN \A v \in WS : p[v] = x => r[v] >= r[w]
       ELSE p[ws[w].free] = x /\ r[ws[w].free] = r[w] - 1

(* The two lists are what they look like.                                  *)
Lists(p, r) == IsList("alloc", team.alloc, p, r) /\ IsList("free", team.free, p, r)

(* A number on a list, or of a construct, is that of one work share.       *)
Distinct(p, r) ==
  \A v, w \in WS : p[v] = p[w] /\ p[v] \in {"alloc", "free", "live"} /\ r[v] = r[w] => v = w

(* What has not been allocated is on no list.                              *)
Raw(p) ==
  /\ team.chunk >= 1
  /\ \A w \in WS : w >= team.used => p[w] = "none" /\ ws[w].free = NULL

(* Exactly the work shares in use are initialised and not yet finished.    *)
Uses(p) ==
  \A w \in WS : ws[w].uses = IF ~team.over /\ p[w] \in {"live", "fill"} THEN 1 ELSE 0

(* The work shares in use are those of the constructs from that of to_free *)
(* up to hi, linked by next_ws; the pointer lock of the last is free or    *)
(* claimed.                                                                *)
Chained(p, r, hi) ==
  /\ p[team.to_free] = "live" /\ r[team.to_free] >= 0 /\ hi <= Constructs
  /\ \A w \in WS : p[w] = "live" =>
       /\ r[team.to_free] <= r[w] /\ r[w] <= hi
       /\ r[w] = hi => ws[w].next \in {Unset, Claimed}
       /\ r[w] < hi => ws[w].next \in WS /\ p[ws[w].next] = "live" /\ r[ws[w].next] = r[w] + 1
  /\ \A j \in r[team.to_free] .. hi : \E w \in WS : p[w] = "live" /\ r[w] = j

(* threads_completed counts the threads that are done.                     *)
Counted(p, r, D) ==
  \A w \in WS : p[w] = "live" /\ r[w] >= 1 /\ kinds[r[w]] # "barrier" =>
    ws[w].completed = Cardinality(DoneSet(r[w], D))

(* Some thread is not done with a construct that is younger than that of   *)
(* to_free: this is why its predecessor is still needed.                   *)
Behind(r, hi, D) == \A j \in 1 .. hi : j > r[team.to_free] => \E t \in Thread : ~Done(t, j, D)

(* The work share of the construct before is still there.                  *)
Keeps(t, p, r) ==
  /\ thr[t].k > r[team.to_free]
  /\ thr[t].last \in WS /\ p[thr[t].last] = "live" /\ r[thr[t].last] = thr[t].k - 1

(* A thread has the work share of its construct.                           *)
AtWs(t, p, r) ==
  /\ thr[t].pc # "fill" => p[thr[t].ws] = "live" /\ r[thr[t].ws] = thr[t].k
  /\ thr[t].pc = "fill" => /\ p[thr[t].ws] = "fill" /\ ws[thr[t].ws].next = Unset
                           /\ ws[thr[t].ws].completed = 0

(* A thread that opens the next construct, or waits for it, has the last   *)
(* work share of the chain; the first has claimed its pointer lock.        *)
Opens(t, p, r, hi) ==
  /\ thr[t].pc \in Opening \cup {"wait"} =>
       /\ thr[t].last \in WS /\ p[thr[t].last] = "live" /\ r[thr[t].last] = thr[t].k
       /\ thr[t].k < Constructs
  /\ thr[t].pc \in Opening => thr[t].k = hi /\ ws[thr[t].last].next = Claimed /\ thr[t].first
  /\ thr[t].pc = "cut" => team.alloc = NULL /\ (thr[t].loc # NULL => p[thr[t].loc] = "free")
  /\ thr[t].pc = "init" => thr[t].loc \in WS /\ p[thr[t].loc] = "new"

(* A thread in a construct.                                                *)
Inside(t, p, r) ==
  /\ thr[t].pc = "idle" => thr[t].last = NULL
  /\ thr[t].pc = "in" => IF thr[t].k = 0 THEN thr[t].last = NULL ELSE Keeps(t, p, r)
  /\ thr[t].pc = "copied" => Keeps(t, p, r) /\ kinds[thr[t].k] = "copy"
  /\ thr[t].pc = "bar" =>
       /\ thr[t].k > 0 /\ thr[t].gen <= team.gen /\ kinds[thr[t].k] # "nowait"
       /\ kinds[thr[t].k] = "copy" => Keeps(t, p, r)

(* A thread that frees a work share is alone in this, and if it does so at *)
(* a barrier, all others wait there.                                       *)
Frees(t, p, r) ==
  /\ thr[t].pc \in Pushing => /\ thr[t].k = r[team.to_free] /\ thr[t].k > 0
                              /\ thr[t].loc \in WS /\ p[thr[t].loc] = "push"
  /\ thr[t].pc = "cas" => ws[thr[t].loc].free = thr[t].seen
  /\ thr[t].pc \in Pushing /\ kinds[thr[t].k] = "barrier" =>
       \A s \in Thread \ {t} : /\ thr[s].k = thr[t].k
                               /\ thr[s].pc \in Left \/ (thr[s].pc = "bar" /\ thr[s].gen = team.gen)

(* A thread at the end of the region.                                      *)
Leaves(t, D, r) ==
  /\ thr[t].pc = "final" /\ ~team.cancelled => thr[t].k = Constructs
  /\ t \in D => thr[t].pc \in Left /\ team.cancelled /\ (thr[t].k > 0 => thr[t].k > r[team.to_free])
  /\ thr[t].pc = "over" <=> team.over

(* At most one thread opens a construct, and at most one frees a work      *)
(* share.                                                                  *)
Single(p) ==
  /\ \A s, t \in Thread : thr[s].pc \in Opening /\ thr[t].pc \in Opening => s = t
  /\ \A s, t \in Thread : thr[s].pc \in Pushing /\ thr[t].pc \in Pushing => s = t
  /\ \A w \in WS : p[w] = "live" /\ ws[w].next = Unset => \A t \in Thread : thr[t].pc \notin Opening
  /\ \A w \in WS : p[w] = "fill" => \E t \in Thread : thr[t].pc = "fill" /\ thr[t].ws = w

(* A barrier lets nobody pass before all have arrived.                     *)
Together ==
  \A s, t \in Thread, j \in 0 .. Constructs :
    kinds[j] # "nowait" /\ Passed(s, j) => Passed(t, j) \/ (thr[t].k = j /\ thr[t].pc \in Left)

(* The barrier of the team counts who waits at it.                         *)
Arrivals == ~team.cancelled => team.arrived = Cardinality(WaitSet)

(* A copying single is open, or its data is stored.                        *)
Stored(p, r) ==
  \A w \in WS : p[w] = "live" /\ kinds[r[w]] = "copy" =>
    \/ ws[w].copyprivate = r[w]
    \/ \E t \in Thread : thr[t].pc = "in" /\ thr[t].k = r[w] /\ thr[t].first

(* The region: only one without copying singles can be cancelled.          *)
Region ==
  /\ kinds[0] = "nowait"
  /\ team.cancelled => team.cancellable
  /\ team.cancellable => \A j \in 0 .. Constructs : kinds[j] # "copy"

(* All of it. p is the place of each work share, r its number on a list or *)
(* its construct, hi the youngest construct, D the threads that left from  *)
(* inside.                                                                 *)
IInv(p, r, hi, D) ==
  /\ p \in [WS -> Places] /\ r \in [WS -> Int] /\ hi \in Nat /\ D \in SUBSET Thread
  /\ TypeOK /\ Region
  /\ Lists(p, r) /\ Distinct(p, r) /\ Raw(p) /\ Uses(p) /\ Chained(p, r, hi)
  /\ Counted(p, r, D) /\ Behind(r, hi, D)
  /\ \A t \in Thread : /\ AtWs(t, p, r) /\ Opens(t, p, r, hi) /\ Inside(t, p, r)
                       /\ Frees(t, p, r) /\ Leaves(t, D, r)
  /\ Single(p) /\ Together /\ Arrivals /\ Stored(p, r)
-----------------------------------------------------------------------------
(* What Reached collects in n steps.                                       *)
Layer(succ, f, n) ==
  [v \in WS |-> IF n = 0 \/ succ[v] \notin WS THEN {v} ELSE {v} \cup f[n - 1][succ[v]]]

(* What Reached returns is the last of a sequence of layers.               *)
LEMMA ReachedLayers ==
  ASSUME NEW succ
  PROVE  \E f : /\ \A v \in WS : f[0][v] = {v}
                /\ \A n \in Nat : n + 1 <= MaxWs =>
                     \A v \in WS : f[n + 1][v] = IF succ[v] \notin WS THEN {v}
                                                ELSE {v} \cup f[n][succ[v]]
                /\ \A w : Reached(succ, w) = f[MaxWs][w]
<1> DEFINE Def(f) == [n \in 0 .. MaxWs |->
                        [v \in WS |-> IF n = 0 \/ succ[v] \notin WS THEN {v}
                                      ELSE {v} \cup f[n - 1][succ[v]]]]
           all == CHOOSE f : f = Def(f)
           G == {n \in Nat : \E f : \A m \in 0 .. MaxWs : m <= n => f[m] = Layer(succ, f, m)}
<1>1. 0 \in G
  <2> DEFINE f == [m \in 0 .. MaxWs |-> [v \in WS |-> {v}]]
  <2>1. \A m \in 0 .. MaxWs : m <= 0 => f[m] = Layer(succ, f, m)
    BY DEF Layer
  <2> HIDE DEF f
  <2> QED
    BY <2>1
<1>2. ASSUME NEW n \in Nat, n \in G
      PROVE  n + 1 \in G
  <2>1. PICK f : \A m \in 0 .. MaxWs : m <= n => f[m] = Layer(succ, f, m)
    BY <1>2
  <2> DEFINE g == [m \in 0 .. MaxWs |-> Layer(succ, f, m)]
  <2>2. ASSUME NEW m \in 0 .. MaxWs, m <= n + 1
        PROVE  g[m] = Layer(succ, g, m)
    <3>1. CASE m = 0
      BY <3>1 DEF Layer
    <3>2. CASE m # 0
      <4>1. m - 1 \in 0 .. MaxWs /\ m - 1 <= n
        BY <2>2, <3>2, WorkShareAssumption
      <4>2. g[m - 1] = f[m - 1]
        BY <2>1, <4>1
      <4>3. Layer(succ, g, m) = Layer(succ, f, m)
        BY <4>2, Zenon DEF Layer
      <4> QED
        BY <4>3
    <3> QED
      BY <3>1, <3>2
  <2> HIDE DEF g
  <2> QED
    BY <2>2
<1>3. Nat \subseteq G
  <2> HIDE DEF G
  <2> QED
    BY <1>1, <1>2, Induction
<1>4. PICK f : \A m \in 0 .. MaxWs : f[m] = Layer(succ, f, m)
  BY <1>3, WorkShareAssumption
<1> DEFINE g == [m \in 0 .. MaxWs |-> Layer(succ, f, m)]
<1>5. g = Def(g)
  <2>1. ASSUME NEW m \in 0 .. MaxWs
        PROVE  Layer(succ, f, m) = Layer(succ, g, m)
    <3>1. CASE m = 0
      BY <3>1 DEF Layer
    <3>2. CASE m # 0
      <4>1. m - 1 \in 0 .. MaxWs
        BY <3>2, WorkShareAssumption
      <4>2. g[m - 1] = f[m - 1]
        BY <1>4, <4>1
      <4> QED
        BY <4>2, Zenon DEF Layer
    <3> QED
      BY <3>1, <3>2
  <2>2. g = [m \in 0 .. MaxWs |-> Layer(succ, g, m)]
    BY <2>1, Zenon
  <2> HIDE DEF g
  <2> QED
    BY <2>2, Zenon DEF Layer
<1>6. all = Def(all)
  <2> HIDE DEF Def, g
  <2> QED
    BY <1>5
<1>7. \A w : Reached(succ, w) = all[MaxWs][w]
  BY DEF Reached
<1> HIDE DEF all
<1>8. \A m \in 0 .. MaxWs : all[m] = Layer(succ, all, m)
  BY <1>6, Zenon DEF Layer
<1>9. \A v \in WS : all[0][v] = {v}
  <2>1. all[0] = Layer(succ, all, 0)
    BY <1>8, WorkShareAssumption
  <2> QED
    BY <2>1 DEF Layer
<1>10. ASSUME NEW n \in Nat, n + 1 <= MaxWs, NEW v \in WS
       PROVE  all[n + 1][v] = IF succ[v] \notin WS THEN {v} ELSE {v} \cup all[n][succ[v]]
  <2>1. n + 1 \in 0 .. MaxWs /\ n + 1 # 0 /\ (n + 1) - 1 = n
    BY <1>10, WorkShareAssumption
  <2>2. all[n + 1] = Layer(succ, all, n + 1)
    BY <1>8, <2>1
  <2>3. Layer(succ, all, n + 1)[v] = IF succ[v] \notin WS THEN {v} ELSE {v} \cup all[(n + 1) - 1][succ[v]]
    BY <2>1, Zenon DEF Layer
  <2> QED
    BY <2>1, <2>2, <2>3, Zenon
<1> QED
  BY <1>7, <1>9, <1>10, Zenon

(* All that is reached from a member of a closed set is in this set.       *)
LEMMA ReachedInside ==
  ASSUME NEW succ, NEW S \in SUBSET WS, NEW w \in S,
         \A v \in S : succ[v] \in WS => succ[v] \in S
  PROVE  Reached(succ, w) \subseteq S
<1>1. PICK f : /\ \A v \in WS : f[0][v] = {v}
               /\ \A n \in Nat : n + 1 <= MaxWs =>
                    \A v \in WS : f[n + 1][v] = IF succ[v] \notin WS THEN {v}
                                               ELSE {v} \cup f[n][succ[v]]
               /\ \A v : Reached(succ, v) = f[MaxWs][v]
  BY ReachedLayers
<1> DEFINE G == {n \in Nat : n <= MaxWs => \A v \in S : f[n][v] \subseteq S}
<1>2. 0 \in G
  BY <1>1
<1>3. ASSUME NEW n \in Nat, n \in G
      PROVE  n + 1 \in G
  <2>1. SUFFICES ASSUME n + 1 <= MaxWs, NEW v \in S
                 PROVE  f[n + 1][v] \subseteq S
    OBVIOUS
  <2>2. n + 1 <= MaxWs /\ n <= MaxWs /\ v \in WS
    BY <2>1, WorkShareAssumption
  <2>3. f[n + 1][v] = IF succ[v] \notin WS THEN {v} ELSE {v} \cup f[n][succ[v]]
    BY <1>1, <2>2
  <2>4. succ[v] \in WS => f[n][succ[v]] \subseteq S
    BY <1>3, <2>2
  <2> QED
    BY <2>3, <2>4
<1>4. Nat \subseteq G
  <2> HIDE DEF G
  <2> QED
    BY <1>2, <1>3, Induction
<1> QED
  BY <1>1, <1>4, WorkShareAssumption

(* A chain whose members are numbered, up to hi, is reached from its first *)
(* to its last member.                                                     *)
LEMMA ReachedAll ==
  ASSUME NEW succ, NEW S \in SUBSET WS, NEW r \in [WS -> Int], NEW hi \in Int,
         \A v \in S : r[v] <= hi,
         \A v \in S : r[v] < hi => succ[v] \in S /\ r[succ[v]] = r[v] + 1,
         \A v, w \in S : r[v] = r[w] => v = w,
         NEW w \in S, NEW u \in S, r[w] <= r[u], r[u] <= r[w] + MaxWs
  PROVE  u \in Reached(succ, w)
<1>1. PICK f : /\ \A v \in WS : f[0][v] = {v}
               /\ \A n \in Nat : n + 1 <= MaxWs =>
                    \A v \in WS : f[n + 1][v] = IF succ[v] \notin WS THEN {v}
                                               ELSE {v} \cup f[n][succ[v]]
               /\ \A v : Reached(succ, v) = f[MaxWs][v]
  BY ReachedLayers
<1> DEFINE G == {n \in Nat : n <= MaxWs => \A v \in S : r[v] <= r[u] /\ r[u] <= r[v] + n => u \in f[n][v]}
<1>2. 0 \in G
  BY <1>1
<1>3. ASSUME NEW n \in Nat, n \in G
      PROVE  n + 1 \in G
  <2>1. SUFFICES ASSUME n + 1 <= MaxWs, NEW v \in S, r[v] <= r[u], r[u] <= r[v] + (n + 1)
                 PROVE  u \in f[n + 1][v]
    OBVIOUS
  <2>2. n + 1 <= MaxWs /\ n <= MaxWs /\ v \in WS
    BY <2>1, WorkShareAssumption
  <2>3. f[n + 1][v] = IF succ[v] \notin WS THEN {v} ELSE {v} \cup f[n][succ[v]]
    BY <1>1, <2>2
  <2>4. CASE u = v
    BY <2>3, <2>4
  <2>5. CASE u # v
    <3>1. r[v] < r[u] /\ r[v] < hi /\ r[v] \in Int /\ r[u] \in Int
      BY <2>1, <2>5
    <3>2. succ[v] \in S /\ r[succ[v]] = r[v] + 1
      BY <3>1
    <3>3. u \in f[n][succ[v]]
      BY <1>3, <2>1, <2>2, <3>1, <3>2
    <3> QED
      BY <2>3, <3>2, <3>3
  <2> QED
    BY <2>4, <2>5
<1>4. Nat \subseteq G
  <2> HIDE DEF G
  <2> QED
    BY <1>2, <1>3, Induction
<1>5. MaxWs \in G
  BY <1>4, WorkShareAssumption
<1> QED
  BY <1>1, <1>5
-----------------------------------------------------------------------------
(* What Set does.                                                          *)
LEMMA SetThread ==
  ASSUME thr \in [Thread -> ThrType], NEW t \in Thread, NEW T \in ThrType, Set(t, T)
  PROVE  /\ thr' \in [Thread -> ThrType]
         /\ \A u \in Thread \ {t} : thr'[u] = thr[u]
         /\ thr'[t].pc = T.pc /\ thr'[t].ws = T.ws /\ thr'[t].k = T.k
         /\ thr'[t].loc = T.loc /\ thr'[t].seen = T.seen
         /\ T.pc = "bar" => thr'[t].gen = T.gen
         /\ T.pc \in Opening \cup {"in"} => thr'[t].first = T.first
         /\ thr'[t].last = IF T.pc = "final" THEN NULL ELSE T.last
<1>1. Tidy(T) \in ThrType
  BY DEF Tidy, ThrType
<1>2. /\ Tidy(T).pc = T.pc /\ Tidy(T).ws = T.ws /\ Tidy(T).k = T.k
      /\ Tidy(T).loc = T.loc /\ Tidy(T).seen = T.seen
      /\ T.pc = "bar" => Tidy(T).gen = T.gen
      /\ Tidy(T).last = IF T.pc = "final" THEN NULL ELSE T.last
  BY DEF Tidy, ThrType
<1>3. T.pc \in Opening \cup {"in"} => Tidy(T).first = T.first
  BY DEF Tidy, ThrType, Opening
<1>4. thr' = [thr EXCEPT ![t] = Tidy(T)]
  BY DEF Set
<1>5. thr'[t] = Tidy(T) /\ (\A u \in Thread \ {t} : thr'[u] = thr[u])
  BY <1>4
<1>6. thr' \in [Thread -> ThrType]
  BY <1>1, <1>4
<1> QED
  BY <1>2, <1>3, <1>5, <1>6

(***************************************************************************)
(* What a step leaves alone.                                               *)
(***************************************************************************)
SameMemory(p) ==
  /\ \A w \in WS : /\ ws'[w].next = ws[w].next /\ ws'[w].uses = ws[w].uses
                   /\ p[w] # "push" => ws'[w].free = ws[w].free
  /\ team'.alloc = team.alloc /\ team'.free = team.free /\ team'.chunk = team.chunk
  /\ team'.used = team.used /\ team'.to_free = team.to_free /\ team'.over = team.over

(* The work shares in use are the same, each of the same construct.        *)
SameLive(p, r, q, s) ==
  /\ \A w \in WS : (q[w] = "live" <=> p[w] = "live") /\ (p[w] = "live" => s[w] = r[w])
  /\ team'.to_free = team.to_free

(* What they count is the same.                                            *)
SameCompleted(p) ==
  \A w \in WS : p[w] \in {"live", "fill"} => ws'[w].completed = ws[w].completed

(* Everybody is done with the same constructs as before.                   *)
SameDone(D, E) == \A u \in Thread, j \in 1 .. Constructs : Done(u, j, E)' <=> Done(u, j, D)

(* Nobody passes a barrier, and nobody is taken back behind one.           *)
SamePassed ==
  \A u \in Thread, j \in 1 .. Constructs : kinds[j] # "nowait" =>
    /\ Passed(u, j)' => Passed(u, j)
    /\ Passed(u, j) \/ (thr[u].k = j /\ thr[u].pc \in Left) =>
         Passed(u, j)' \/ (thr'[u].k = j /\ thr'[u].pc \in Left)

(* The same threads wait at the barrier.                                   *)
SameWaiting ==
  /\ ~team'.cancelled => ~team.cancelled /\ team'.arrived = team.arrived
  /\ ~team'.cancelled => \A u \in Thread : Waiting(u)' <=> Waiting(u)

(* No copying single is closed and none of its data lost.                  *)
SameCopies(p, r) ==
  /\ \A w \in WS : p[w] = "live" => ws'[w].copyprivate = ws[w].copyprivate
  /\ \A u \in Thread : thr[u].pc = "in" /\ kinds[thr[u].k] = "copy" =>
       thr'[u].pc = "in" /\ thr'[u].k = thr[u].k /\ thr'[u].first = thr[u].first

(* The part of the invariant that is about the work shares alone.          *)
Memory(p, r, hi) == Lists(p, r) /\ Distinct(p, r) /\ Raw(p) /\ Uses(p) /\ Chained(p, r, hi)

(* The lists and the chain stay sound if no link and no head changes.      *)
LEMMA MemoryFrame ==
  ASSUME NEW p, NEW r, NEW hi, TypeOK, p \in [WS -> Places], Memory(p, r, hi), SameMemory(p)
  PROVE  Memory(p, r, hi)'
<1>1. team \in TeamType /\ \A w \in WS : ws[w].free \in WS \cup {NULL}
  BY DEF TypeOK, WsType
<1>2. Lists(p, r)'
  BY <1>1 DEF Memory, SameMemory, Lists, IsList
<1>3. Distinct(p, r)'
  BY DEF Memory, Distinct
<1>4. Raw(p)' /\ Uses(p)'
  BY DEF Memory, SameMemory, Raw, Uses
<1>5. Chained(p, r, hi)'
  BY DEF Memory, SameMemory, Chained
<1> QED
  BY <1>2, <1>3, <1>4, <1>5 DEF Memory

(* The chain of work shares in use stays if its links do.                  *)
LEMMA ChainedFrame ==
  ASSUME NEW p, NEW r, NEW q, NEW s, NEW hi, Chained(p, r, hi), team.to_free \in WS,
         SameLive(p, r, q, s), \A w \in WS : p[w] = "live" => ws'[w].next = ws[w].next
  PROVE  Chained(q, s, hi)'
<1>1. /\ team'.to_free = team.to_free /\ q[team.to_free] = "live"
      /\ s[team.to_free] = r[team.to_free] /\ hi <= Constructs /\ r[team.to_free] >= 0
  BY DEF Chained, SameLive
<1>2. ASSUME NEW w \in WS, q[w] = "live"
      PROVE  /\ s[team.to_free] <= s[w] /\ s[w] <= hi
             /\ s[w] = hi => ws'[w].next \in {Unset, Claimed}
             /\ s[w] < hi => /\ ws'[w].next \in WS /\ q[ws'[w].next] = "live"
                             /\ s[ws'[w].next] = s[w] + 1
  <2>1. p[w] = "live" /\ s[w] = r[w] /\ ws'[w].next = ws[w].next
    BY <1>2 DEF SameLive
  <2>2. /\ r[team.to_free] <= r[w] /\ r[w] <= hi
        /\ r[w] = hi => ws[w].next \in {Unset, Claimed}
        /\ r[w] < hi => ws[w].next \in WS /\ p[ws[w].next] = "live" /\ r[ws[w].next] = r[w] + 1
    BY <2>1 DEF Chained
  <2> QED
    BY <1>1, <2>1, <2>2 DEF SameLive
<1>3. \A j \in s[team.to_free] .. hi : \E w \in WS : q[w] = "live" /\ s[w] = j
  BY <1>1 DEF Chained, SameLive
<1> QED
  BY <1>1, <1>2, <1>3 DEF Chained

(* threads_completed stays exact if nobody is newly done.                  *)
LEMMA CountedFrame ==
  ASSUME NEW p, NEW r, NEW q, NEW s, NEW hi, NEW D, NEW E,
         r \in [WS -> Int], hi \in Nat, Chained(p, r, hi), Counted(p, r, D),
         SameLive(p, r, q, s), SameCompleted(p), SameDone(D, E), kinds' = kinds
  PROVE  Counted(q, s, E)'
<1> SUFFICES ASSUME NEW w \in WS, q[w] = "live", s[w] >= 1, kinds[s[w]] # "barrier"
             PROVE  ws'[w].completed = Cardinality(DoneSet(s[w], E)')
  BY DEF Counted
<1>1. p[w] = "live" /\ s[w] = r[w] /\ ws'[w].completed = ws[w].completed
  BY DEF SameLive, SameCompleted
<1>2. r[w] \in 1 .. Constructs
  BY <1>1, WorkShareAssumption DEF Chained
<1>3. DoneSet(r[w], E)' = DoneSet(r[w], D)
  BY <1>2 DEF DoneSet, SameDone
<1>4. ws[w].completed = Cardinality(DoneSet(r[w], D))
  BY <1>1, <1>2 DEF Counted
<1> QED
  BY <1>1, <1>3, <1>4

(* Who is needed for a construct to be over is still needed.               *)
LEMMA BehindFrame ==
  ASSUME NEW p, NEW r, NEW q, NEW s, NEW hi, NEW D, NEW E,
         team.to_free \in WS, hi \in Nat, Chained(p, r, hi), Behind(r, hi, D),
         SameLive(p, r, q, s), SameDone(D, E)
  PROVE  Behind(s, hi, E)'
<1>1. s[team'.to_free] = r[team.to_free] /\ hi <= Constructs
  BY DEF SameLive, Chained
<1> SUFFICES ASSUME NEW j \in 1 .. hi, j > r[team.to_free]
             PROVE  \E t \in Thread : ~Done(t, j, E)'
  BY <1>1 DEF Behind
<1>2. PICK t \in Thread : ~Done(t, j, D)
  BY DEF Behind
<1>3. j \in 1 .. Constructs
  BY <1>1, WorkShareAssumption
<1> QED
  BY <1>2, <1>3 DEF SameDone

(* Barriers stay closed to those who have not arrived.                     *)
LEMMA TogetherFrame ==
  ASSUME Region, Together, SamePassed, kinds' = kinds
  PROVE  Together'
<1> SUFFICES ASSUME NEW s \in Thread, NEW t \in Thread, NEW j \in 0 .. Constructs,
                    kinds[j] # "nowait", Passed(s, j)'
             PROVE  Passed(t, j)' \/ (thr'[t].k = j /\ thr'[t].pc \in Left)
  BY DEF Together
<1>1. j \in 1 .. Constructs
  BY WorkShareAssumption DEF Region
<1>2. Passed(s, j)
  BY <1>1 DEF SamePassed
<1>3. Passed(t, j) \/ (thr[t].k = j /\ thr[t].pc \in Left)
  BY <1>2 DEF Together
<1> QED
  BY <1>1, <1>3 DEF SamePassed

(* The count of the barrier stays exact if nobody arrives or leaves.       *)
LEMMA ArrivalsFrame ==
  ASSUME Arrivals, SameWaiting
  PROVE  Arrivals'
<1> SUFFICES ASSUME ~team'.cancelled
             PROVE  team'.arrived = Cardinality(WaitSet')
  BY DEF Arrivals
<1>1. WaitSet' = WaitSet
  BY DEF WaitSet, SameWaiting
<1> QED
  BY <1>1 DEF SameWaiting, Arrivals

(* What a copying single stored stays.                                     *)
LEMMA StoredFrame ==
  ASSUME NEW p, NEW r, NEW q, NEW s, Stored(p, r), SameLive(p, r, q, s), SameCopies(p, r),
         kinds' = kinds
  PROVE  Stored(q, s)'
BY DEF Stored, SameLive, SameCopies
-----------------------------------------------------------------------------
(* Only t takes a step.                                                    *)
Others(t) == \A u \in Thread \ {t} : thr'[u] = thr[u]

(* What the other threads hold stays where it is.                          *)
SamePlaces(t, q) ==
  \A u \in Thread \ {t} :
    /\ thr[u].pc = "fill" => /\ q[thr[u].ws] = "fill"
                             /\ ws'[thr[u].ws].next = ws[thr[u].ws].next
                             /\ ws'[thr[u].ws].completed = ws[thr[u].ws].completed
    /\ thr[u].pc \in Opening => ws'[thr[u].last].next = ws[thr[u].last].next
    /\ thr[u].pc = "cut" => team'.alloc = team.alloc /\ (thr[u].loc # NULL => q[thr[u].loc] = "free")
    /\ thr[u].pc = "init" => q[thr[u].loc] = "new"
    /\ thr[u].pc \in Pushing => q[thr[u].loc] = "push"
    /\ thr[u].pc = "cas" => ws'[thr[u].loc].free = ws[thr[u].loc].free

(* A barrier of which the work share is being freed stays closed.          *)
SameBarrier(t) ==
  \A u \in Thread \ {t} : thr[u].pc \in Pushing /\ kinds[thr[u].k] = "barrier" =>
    /\ thr'[t].k = thr[t].k /\ team'.gen = team.gen
    /\ thr'[t].pc \in Left \/ (thr'[t].pc = "bar" /\ thr'[t].gen = team.gen)

(* Work shares in use stay in use, of the same construct.                  *)
StillLive(p, r, q, s) ==
  /\ \A w \in WS : p[w] = "live" => q[w] = "live" /\ s[w] = r[w]
  /\ team'.to_free = team.to_free

(* The barrier, a cancellation and the end of the region are not undone.   *)
Onward ==
  /\ team'.gen >= team.gen /\ team'.over = team.over
  /\ team.cancelled => team'.cancelled

(* A step of t that leaves alone what the others hold leaves them sound.   *)
LEMMA OtherThreads ==
  ASSUME NEW p, NEW r, NEW hi, NEW D, NEW q, NEW s, NEW g, NEW E, NEW t \in Thread,
         IInv(p, r, hi, D), Others(t), StillLive(p, r, q, s), SamePlaces(t, q), SameBarrier(t),
         Onward, kinds' = kinds, team' \in TeamType,
         \A u \in Thread \ {t} : thr[u].pc \in Opening => g = hi,
         \A u \in Thread \ {t} : u \in E <=> u \in D
  PROVE  \A u \in Thread \ {t} : /\ AtWs(u, q, s)' /\ Opens(u, q, s, g)' /\ Inside(u, q, s)'
                                 /\ Frees(u, q, s)' /\ Leaves(u, E, s)'
<1> SUFFICES ASSUME NEW u \in Thread \ {t}
             PROVE  /\ AtWs(u, q, s)' /\ Opens(u, q, s, g)' /\ Inside(u, q, s)'
                    /\ Frees(u, q, s)' /\ Leaves(u, E, s)'
  OBVIOUS
<1>1. thr'[u] = thr[u] /\ thr[u] \in ThrType /\ kinds' = kinds
  BY DEF Others, IInv, TypeOK
<1>2. /\ AtWs(u, p, r) /\ Opens(u, p, r, hi) /\ Inside(u, p, r)
      /\ Frees(u, p, r) /\ Leaves(u, D, r)
  BY DEF IInv
<1>3. /\ team.to_free \in WS /\ p[team.to_free] = "live" /\ team'.to_free = team.to_free
      /\ s[team.to_free] = r[team.to_free]
  BY DEF IInv, TypeOK, TeamType, Chained, StillLive
<1>4. \A w \in WS : p[w] = "live" => q[w] = "live" /\ s[w] = r[w]
  BY DEF StillLive
<1>5. AtWs(u, q, s)'
  BY <1>1, <1>2, <1>4 DEF AtWs, SamePlaces, ThrType
<1>6. Opens(u, q, s, g)'
  BY <1>1, <1>2, <1>4 DEF Opens, SamePlaces, ThrType, Opening
<1>7. Keeps(u, p, r) => Keeps(u, q, s)'
  BY <1>1, <1>3, <1>4 DEF Keeps
<1>8. Inside(u, q, s)'
  <2>1. team.gen \in Nat /\ team'.gen \in Nat /\ thr[u].gen \in Nat
    BY <1>1 DEF IInv, TypeOK, TeamType, ThrType
  <2> QED
    BY <1>1, <1>2, <1>7, <2>1 DEF Inside, Onward
<1>9. Frees(u, q, s)'
  <2>1. thr[u].pc \in Pushing => /\ thr[u].k = s[team'.to_free] /\ thr[u].k > 0
                                 /\ thr[u].loc \in WS /\ q[thr[u].loc] = "push"
    BY <1>2, <1>3 DEF Frees, SamePlaces
  <2>2. thr[u].pc = "cas" => ws'[thr[u].loc].free = thr[u].seen
    BY <1>2 DEF Frees, SamePlaces
  <2>3. ASSUME thr[u].pc \in Pushing, kinds[thr[u].k] = "barrier", NEW v \in Thread \ {u}
        PROVE  /\ thr'[v].k = thr[u].k
               /\ thr'[v].pc \in Left \/ (thr'[v].pc = "bar" /\ thr'[v].gen = team'.gen)
    <3>1. /\ thr[v].k = thr[u].k
          /\ thr[v].pc \in Left \/ (thr[v].pc = "bar" /\ thr[v].gen = team.gen)
      BY <1>2, <2>3 DEF Frees
    <3>2. /\ thr'[t].k = thr[t].k /\ team'.gen = team.gen
          /\ thr'[t].pc \in Left \/ (thr'[t].pc = "bar" /\ thr'[t].gen = team.gen)
      BY <2>3 DEF SameBarrier
    <3> QED
      BY <3>1, <3>2 DEF Others
  <2> QED
    BY <1>1, <2>1, <2>2, <2>3 DEF Frees
<1>10. Leaves(u, E, s)'
  BY <1>1, <1>2, <1>3 DEF Leaves, Onward
<1> QED
  BY <1>5, <1>6, <1>8, <1>9, <1>10

(* No thread becomes a second one that opens a construct or frees a work   *)
(* share.                                                                  *)
SameRoles(t, p, q) ==
  /\ thr'[t].pc \in Opening => thr[t].pc \in Opening
  /\ thr'[t].pc \in Pushing => thr[t].pc \in Pushing
  /\ thr[t].pc = "fill" => thr'[t].pc = "fill" /\ thr'[t].ws = thr[t].ws
  /\ \A w \in WS : q[w] = "fill" => p[w] = "fill"
  /\ \A w \in WS : q[w] = "live" /\ ws'[w].next = Unset => p[w] = "live" /\ ws[w].next = Unset

(* Nobody else comes to open a construct or to free a work share.          *)
LEMMA SingleFrame ==
  ASSUME NEW p, NEW q, NEW t \in Thread, Single(p), Others(t), SameRoles(t, p, q)
  PROVE  Single(q)'
<1>1. \A u \in Thread : /\ thr'[u].pc \in Opening => thr[u].pc \in Opening
                        /\ thr'[u].pc \in Pushing => thr[u].pc \in Pushing
                        /\ thr[u].pc = "fill" => thr'[u].pc = "fill" /\ thr'[u].ws = thr[u].ws
  BY DEF Others, SameRoles
<1>2. \A u, v \in Thread : thr'[u].pc \in Opening /\ thr'[v].pc \in Opening => u = v
  BY <1>1 DEF Single
<1>3. \A u, v \in Thread : thr'[u].pc \in Pushing /\ thr'[v].pc \in Pushing => u = v
  BY <1>1 DEF Single
<1>4. \A w \in WS : q[w] = "live" /\ ws'[w].next = Unset => \A u \in Thread : thr'[u].pc \notin Opening
  BY <1>1 DEF Single, SameRoles
<1>5. \A w \in WS : q[w] = "fill" => \E u \in Thread : thr'[u].pc = "fill" /\ thr'[u].ws = w
  BY <1>1 DEF Single, SameRoles
<1> QED
  BY <1>2, <1>3, <1>4, <1>5 DEF Single

(* The part of the invariant that is about one thread.                     *)
Mine(t, p, r, hi, D) ==
  /\ AtWs(t, p, r) /\ Opens(t, p, r, hi) /\ Inside(t, p, r) /\ Frees(t, p, r) /\ Leaves(t, D, r)

(* The links of the lists change only where a thread frees a work share.   *)
SameFree(t) == thr[t].pc \in Pushing \/ \A w \in WS : ws'[w].free = ws[w].free

(* A step that leaves the lists and the chain of work shares alone.        *)
LEMMA PlainStep ==
  ASSUME NEW p, NEW r, NEW hi, NEW D, NEW E \in SUBSET Thread, NEW t \in Thread,
         IInv(p, r, hi, D), TypeOK', Region', kinds' = kinds, Others(t),
         SameMemory(p), SameFree(t),
         \A w \in WS : p[w] = "fill" => ws'[w].completed = ws[w].completed,
         SameBarrier(t), Onward, SameRoles(t, p, p),
         \A u \in Thread \ {t} : u \in E <=> u \in D, Mine(t, p, r, hi, E)',
         Counted(p, r, E)', Behind(r, hi, E)', Together', Arrivals', Stored(p, r)'
  PROVE  IInv(p, r, hi, E)'
<1>1. /\ p \in [WS -> Places] /\ r \in [WS -> Int] /\ hi \in Nat /\ TypeOK
      /\ Memory(p, r, hi) /\ Single(p)
  BY DEF IInv, Memory
<1>2. Memory(p, r, hi)'
  BY <1>1, MemoryFrame
<1>3. StillLive(p, r, p, r)
  BY DEF StillLive, SameMemory
<1>4. Single(p)'
  BY <1>1, SingleFrame
<1>5. SamePlaces(t, p)
  <2> SUFFICES ASSUME NEW u \in Thread \ {t}
               PROVE  SamePlaces(t, p)!(u)
    BY DEF SamePlaces
  <2>1. AtWs(u, p, r) /\ Opens(u, p, r, hi) /\ Frees(u, p, r) /\ thr[u] \in ThrType
    BY DEF IInv, TypeOK
  <2>2. team'.alloc = team.alloc /\ \A w \in WS : ws'[w].next = ws[w].next
    BY DEF SameMemory
  <2>3. thr[u].pc = "cas" => \A w \in WS : ws'[w].free = ws[w].free
    BY <1>1 DEF SameFree, Single, Pushing
  <2>4. thr[u].pc = "fill" => ws'[thr[u].ws].completed = ws[thr[u].ws].completed
    BY <2>1 DEF AtWs, ThrType
  <2> QED
    BY <2>1, <2>2, <2>3, <2>4 DEF AtWs, Opens, Frees, ThrType, Opening, Pushing
<1>6. \A u \in Thread \ {t} : Mine(u, p, r, hi, E)'
  <2>1. team' \in TeamType
    BY DEF TypeOK
  <2>2. \A u \in Thread \ {t} : /\ AtWs(u, p, r)' /\ Opens(u, p, r, hi)' /\ Inside(u, p, r)'
                                /\ Frees(u, p, r)' /\ Leaves(u, E, r)'
    BY <1>3, <1>5, <2>1, OtherThreads
  <2> QED
    BY <2>2 DEF Mine
<1>7. \A u \in Thread : Mine(u, p, r, hi, E)'
  BY <1>6
<1> QED
  BY <1>1, <1>2, <1>4, <1>7 DEF IInv, Memory, Mine

(* A step that leaves the progress of the threads alone as well.           *)
LEMMA QuietStep ==
  ASSUME NEW p, NEW r, NEW hi, NEW D, NEW E \in SUBSET Thread, NEW t \in Thread,
         IInv(p, r, hi, D), TypeOK', Region', kinds' = kinds, Others(t),
         SameMemory(p), SameFree(t), SameCompleted(p), SameCopies(p, r),
         SameDone(D, E), SamePassed, SameWaiting, SameBarrier(t), Onward,
         SameRoles(t, p, p), \A u \in Thread \ {t} : u \in E <=> u \in D,
         Mine(t, p, r, hi, E)'
  PROVE  IInv(p, r, hi, E)'
<1>1. /\ p \in [WS -> Places] /\ r \in [WS -> Int] /\ hi \in Nat /\ TypeOK /\ Region
      /\ Chained(p, r, hi) /\ Counted(p, r, D) /\ Behind(r, hi, D)
      /\ Together /\ Arrivals /\ Stored(p, r) /\ team.to_free \in WS
  BY DEF IInv, TypeOK, TeamType
<1>2. SameLive(p, r, p, r)
  BY DEF SameLive, SameMemory
<1>3. Counted(p, r, E)' /\ Behind(r, hi, E)'
  BY <1>1, <1>2, CountedFrame, BehindFrame
<1>4. Together' /\ Arrivals' /\ Stored(p, r)'
  BY <1>1, <1>2, TogetherFrame, ArrivalsFrame, StoredFrame
<1>5. \A w \in WS : p[w] = "fill" => ws'[w].completed = ws[w].completed
  BY DEF SameCompleted
<1> QED
  BY <1>3, <1>4, <1>5, PlainStep
-----------------------------------------------------------------------------
(* Everybody else is as far as before.                                     *)
LEMMA OthersProgress ==
  ASSUME NEW t \in Thread, Others(t), kinds' = kinds, team'.gen = team.gen,
         team'.cancelled = team.cancelled
  PROVE  \A u \in Thread \ {t} : /\ \A j, D : Done(u, j, D)' <=> Done(u, j, D)
                                 /\ \A j : Passed(u, j)' <=> Passed(u, j)
                                 /\ Waiting(u)' <=> Waiting(u)
<1> SUFFICES ASSUME NEW u \in Thread \ {t}
             PROVE  /\ \A j, D : Done(u, j, D)' <=> Done(u, j, D)
                    /\ \A j : Passed(u, j)' <=> Passed(u, j)
                    /\ Waiting(u)' <=> Waiting(u)
  OBVIOUS
<1>1. thr'[u] = thr[u]
  BY DEF Others
<1> QED
  BY <1>1 DEF Done, Busy, Passed, Past, Waiting

(* The team's barrier and flags are not touched.                           *)
Level ==
  /\ team'.gen = team.gen /\ team'.cancelled = team.cancelled /\ team'.arrived = team.arrived

(* A thread that goes on between two constructs, or into the next one.     *)
LEMMA BetweenProgress ==
  ASSUME NEW p, NEW r, NEW hi, NEW D, NEW t \in Thread, IInv(p, r, hi, D),
         Others(t), kinds' = kinds, Level, thr[t].pc \in Between,
         thr'[t].k \in 0 .. Constructs,
         \/ thr'[t].pc \in Between /\ thr'[t].k = thr[t].k
         \/ thr'[t].pc = "in" /\ thr'[t].k = thr[t].k + 1
  PROVE  SameDone(D, D) /\ SamePassed /\ SameWaiting /\ SameBarrier(t)
<1>1. thr[t].k \in 0 .. Constructs /\ t \notin D
  <2>1. Leaves(t, D, r)
    BY DEF IInv
  <2> QED
    BY <2>1 DEF IInv, TypeOK, ThrType, Leaves, Left, Between, Opening
<1>2. \A u \in Thread \ {t} : /\ \A j, E : Done(u, j, E)' <=> Done(u, j, E)
                              /\ \A j : Passed(u, j)' <=> Passed(u, j)
                              /\ Waiting(u)' <=> Waiting(u)
  BY OthersProgress DEF Level
<1>3. \A j \in 1 .. Constructs : /\ Done(t, j, D)' <=> Done(t, j, D)
                                 /\ Passed(t, j)' <=> Passed(t, j)
  <2>1. ~Busy(t, D) /\ Past(t)
    BY <1>1 DEF Busy, Past, Between, Opening
  <2>2. CASE thr'[t].pc \in Between /\ thr'[t].k = thr[t].k
    <3>1. ~Busy(t, D)' /\ Past(t)'
      BY <1>1, <2>2 DEF Busy, Past, Between, Opening
    <3> QED
      BY <2>1, <2>2, <3>1 DEF Done, Passed
  <2>3. CASE thr'[t].pc = "in" /\ thr'[t].k = thr[t].k + 1
    <3>1. Busy(t, D)' /\ ~Past(t)'
      BY <1>1, <2>3 DEF Busy, Past, Between, Opening, Pushing, Left
    <3> QED
      BY <1>1, <2>1, <2>3, <3>1, WorkShareAssumption DEF Done, Passed
  <2> QED
    BY <2>2, <2>3
<1>4. ~Waiting(t) /\ ~Waiting(t)' /\ thr[t].pc \notin Left /\ thr'[t].pc \notin Left
  BY DEF Waiting, Between, Opening, Pushing, Left
<1>5. SameDone(D, D)
  BY <1>2, <1>3 DEF SameDone
<1>6. SamePassed
  BY <1>2, <1>3, <1>4 DEF SamePassed, Others
<1>7. SameWaiting
  BY <1>2, <1>4 DEF SameWaiting, Level
<1>8. SameBarrier(t)
  <2> SUFFICES ASSUME NEW u \in Thread \ {t}, thr[u].pc \in Pushing, kinds[thr[u].k] = "barrier"
               PROVE  FALSE
    BY DEF SameBarrier
  <2>1. Frees(u, p, r)
    BY DEF IInv
  <2>2. thr[t].pc \in Left \/ thr[t].pc = "bar"
    BY <2>1 DEF Frees
  <2> QED
    BY <2>2 DEF Left, Between, Opening
<1> QED
  BY <1>5, <1>6, <1>7, <1>8

(* The facts on a thread that the invariant gives.                         *)
LEMMA ThreadFacts ==
  ASSUME NEW p, NEW r, NEW hi, NEW D, NEW t \in Thread, IInv(p, r, hi, D)
  PROVE  /\ thr[t] \in ThrType /\ thr \in [Thread -> ThrType] /\ team \in TeamType
         /\ ws \in [WS -> WsType] /\ kinds \in [0 .. Constructs -> Kinds]
         /\ p \in [WS -> Places] /\ r \in [WS -> Int] /\ hi \in Nat /\ D \in SUBSET Thread
         /\ AtWs(t, p, r) /\ Opens(t, p, r, hi) /\ Inside(t, p, r)
         /\ Frees(t, p, r) /\ Leaves(t, D, r)
BY DEF IInv, TypeOK

(* A thread enters the construct whose work share n follows its last one.  *)
LEMMA Enter ==
  ASSUME NEW p, NEW r, NEW hi, NEW D, NEW t \in Thread, NEW T \in ThrType, NEW n \in WS,
         IInv(p, r, hi, D), UNCHANGED <<ws, team, kinds>>,
         thr[t].pc \in {"idle", "wait"}, thr[t].k < Constructs,
         T.k = thr[t].k, T.last \in WS, p[T.last] = "live", r[T.last] = thr[t].k,
         n = ws[T.last].next, Set(t, Entered(T, n))
  PROVE  IInv(p, r, hi, D)'
<1>1. /\ thr[t] \in ThrType /\ thr \in [Thread -> ThrType] /\ team \in TeamType
      /\ ws \in [WS -> WsType] /\ kinds \in [0 .. Constructs -> Kinds]
      /\ p \in [WS -> Places] /\ r \in [WS -> Int] /\ hi \in Nat /\ D \in SUBSET Thread
      /\ AtWs(t, p, r) /\ Opens(t, p, r, hi) /\ Inside(t, p, r)
      /\ Frees(t, p, r) /\ Leaves(t, D, r)
  BY ThreadFacts
<1>2. thr[t].k \in 0 .. Constructs /\ thr[t].k + 1 \in 0 .. Constructs
  <2>1. thr[t].k \in 0 .. Constructs
    BY <1>1 DEF ThrType
  <2> QED
    BY <2>1, WorkShareAssumption
<1>3. Entered(T, n) \in ThrType
  BY <1>2 DEF Entered, ThrType, Labels
<1>4. /\ Entered(T, n).pc = "in" /\ Entered(T, n).ws = n /\ Entered(T, n).k = thr[t].k + 1
      /\ Entered(T, n).last = T.last
  BY DEF Entered, ThrType
<1>5. /\ thr' \in [Thread -> ThrType] /\ Others(t)
      /\ thr'[t].pc = "in" /\ thr'[t].ws = n /\ thr'[t].k = thr[t].k + 1
      /\ thr'[t].last = T.last
  BY <1>1, <1>3, <1>4, SetThread DEF Others
<1>6. p[n] = "live" /\ r[n] = thr[t].k + 1 /\ r[team.to_free] <= r[T.last]
  <2>1. Chained(p, r, hi)
    BY DEF IInv
  <2>2. n \notin {Unset, Claimed}
    BY DEF WS, Unset, Claimed
  <2>3. r[T.last] \in Int
    BY <1>1
  <2> QED
    BY <2>1, <2>2, <2>3, <1>1 DEF Chained
<1>7. TypeOK' /\ Region'
  BY <1>1, <1>5 DEF IInv, TypeOK, Region
<1>8. SameDone(D, D) /\ SamePassed /\ SameWaiting /\ SameBarrier(t)
  BY <1>2, <1>5, BetweenProgress DEF Level, Between
<1>9. SameMemory(p) /\ SameFree(t) /\ SameCompleted(p) /\ Onward
  BY <1>1 DEF SameMemory, SameFree, SameCompleted, Onward, TeamType
<1>10. SameCopies(p, r)
  BY <1>5 DEF SameCopies, Others
<1>11. SameRoles(t, p, p)
  BY <1>5 DEF SameRoles, Opening, Pushing
<1>12. Mine(t, p, r, hi, D)'
  <2>1. AtWs(t, p, r)'
    BY <1>5, <1>6 DEF AtWs
  <2>2. Opens(t, p, r, hi)'
    BY <1>5 DEF Opens, Opening
  <2>3. Inside(t, p, r)'
    <3>1. thr[t].k + 1 # 0 /\ r[team.to_free] < thr[t].k + 1 /\ (thr[t].k + 1) - 1 = thr[t].k
      <4>1. r[team.to_free] \in Int
        BY <1>1 DEF TeamType
      <4> QED
        BY <1>2, <1>6, <4>1
    <3>2. Keeps(t, p, r)'
      BY <1>5, <3>1 DEF Keeps
    <3> QED
      BY <1>5, <3>1, <3>2 DEF Inside
  <2>4. Frees(t, p, r)'
    BY <1>5 DEF Frees, Pushing
  <2>5. Leaves(t, D, r)'
    BY <1>1, <1>5 DEF Leaves, Left
  <2> QED
    BY <2>1, <2>2, <2>3, <2>4, <2>5 DEF Mine
<1> QED
  BY <1>1, <1>5, <1>7, <1>8, <1>9, <1>10, <1>11, <1>12, QuietStep
-----------------------------------------------------------------------------
(* gomp_ptrlock_get_slow returns the work share of the next construct.     *)
LEMMA WaitStep ==
  ASSUME NEW p, NEW r, NEW hi, NEW D, NEW t \in Thread, IInv(p, r, hi, D), Wait(t)
  PROVE  IInv(p, r, hi, D)'
<1>1. thr[t] \in ThrType /\ Opens(t, p, r, hi)
  BY ThreadFacts
<1>2. /\ thr[t].pc \in {"idle", "wait"} /\ thr[t].k < Constructs /\ thr[t].last \in WS
      /\ p[thr[t].last] = "live" /\ r[thr[t].last] = thr[t].k
  BY <1>1 DEF Wait, Opens
<1>3. /\ ws[thr[t].last].next \in WS /\ Set(t, Entered(thr[t], ws[thr[t].last].next))
      /\ UNCHANGED <<ws, team, kinds>>
  BY DEF Wait
<1> DEFINE T == thr[t]
           n == ws[thr[t].last].next
<1>4. T \in ThrType /\ n \in WS /\ T.k = thr[t].k /\ n = ws[T.last].next
  BY <1>1, <1>3
<1>5. T.last \in WS /\ p[T.last] = "live" /\ r[T.last] = thr[t].k /\ Set(t, Entered(T, n))
  BY <1>2, <1>3
<1> HIDE DEF T, n
<1> QED
  BY <1>2, <1>3, <1>4, <1>5, Enter

(* Start finds the work share of the next construct, ...                   *)
LEMMA StartEnters ==
  ASSUME NEW p, NEW r, NEW hi, NEW D, NEW t \in Thread, IInv(p, r, hi, D),
         thr[t].pc = "idle", thr[t].k < Constructs, ws[thr[t].ws].next \in WS,
         Set(t, Entered([thr[t] EXCEPT !.last = thr[t].ws, !.first = FALSE], ws[thr[t].ws].next)),
         UNCHANGED <<ws, team, kinds>>
  PROVE  IInv(p, r, hi, D)'
<1>1. thr[t] \in ThrType /\ AtWs(t, p, r)
  BY ThreadFacts
<1> DEFINE T == [thr[t] EXCEPT !.last = thr[t].ws, !.first = FALSE]
           n == ws[thr[t].ws].next
<1>2. T \in ThrType /\ T.k = thr[t].k /\ T.last = thr[t].ws
  BY <1>1 DEF ThrType
<1>3. thr[t].ws \in WS /\ p[thr[t].ws] = "live" /\ r[thr[t].ws] = thr[t].k
  BY <1>1 DEF AtWs, ThrType
<1>4. n \in WS /\ n = ws[T.last].next /\ Set(t, Entered(T, n))
  BY <1>2
<1>5. T.last \in WS /\ p[T.last] = "live" /\ r[T.last] = thr[t].k
  BY <1>2, <1>3
<1>6. thr[t].pc \in {"idle", "wait"}
  OBVIOUS
<1> HIDE DEF T, n
<1> QED
  BY <1>2, <1>4, <1>5, <1>6, Enter

(* ... or somebody is about to set it up.                                  *)
LEMMA StartWaits ==
  ASSUME NEW p, NEW r, NEW hi, NEW D, NEW t \in Thread, IInv(p, r, hi, D),
         thr[t].pc = "idle", thr[t].k < Constructs,
         Set(t, [[thr[t] EXCEPT !.last = thr[t].ws, !.first = FALSE] EXCEPT !.pc = "wait"]),
         UNCHANGED <<ws, team, kinds>>
  PROVE  IInv(p, r, hi, D)'
<1>1. /\ thr[t] \in ThrType /\ thr \in [Thread -> ThrType] /\ team \in TeamType
      /\ ws \in [WS -> WsType] /\ kinds \in [0 .. Constructs -> Kinds]
      /\ D \in SUBSET Thread
      /\ AtWs(t, p, r) /\ Leaves(t, D, r)
  BY ThreadFacts
<1> DEFINE T == [[thr[t] EXCEPT !.last = thr[t].ws, !.first = FALSE] EXCEPT !.pc = "wait"]
<1>2. /\ T \in ThrType /\ T.pc = "wait" /\ T.k = thr[t].k /\ T.ws = thr[t].ws /\ T.last = thr[t].ws
  BY <1>1 DEF ThrType, Labels, Between
<1>3. Set(t, T)
  OBVIOUS
<1> HIDE DEF T
<1>4. /\ thr' \in [Thread -> ThrType] /\ Others(t)
      /\ thr'[t].pc = "wait" /\ thr'[t].ws = thr[t].ws /\ thr'[t].k = thr[t].k
      /\ thr'[t].last = thr[t].ws
  BY <1>1, <1>2, <1>3, SetThread DEF Others
<1>5. TypeOK' /\ Region'
  BY <1>1, <1>4 DEF IInv, TypeOK, Region
<1>6. SameDone(D, D) /\ SamePassed /\ SameWaiting /\ SameBarrier(t)
  <2>1. thr'[t].k \in 0 .. Constructs
    BY <1>1, <1>4 DEF ThrType
  <2>2. thr[t].pc \in Between /\ thr'[t].pc \in Between
    BY <1>4 DEF Between
  <2> QED
    BY <1>4, <2>1, <2>2, BetweenProgress DEF Level
<1>7. SameMemory(p) /\ SameFree(t) /\ SameCompleted(p) /\ Onward
  BY <1>1 DEF SameMemory, SameFree, SameCompleted, Onward, TeamType
<1>8. SameCopies(p, r)
  BY <1>4 DEF SameCopies, Others
<1>9. SameRoles(t, p, p)
  BY <1>4 DEF SameRoles, Opening, Pushing
<1>10. Mine(t, p, r, hi, D)'
  <2>1. AtWs(t, p, r)'
    BY <1>1, <1>4 DEF AtWs
  <2>2. Opens(t, p, r, hi)'
    BY <1>1, <1>4 DEF Opens, Opening, AtWs, ThrType
  <2>3. Inside(t, p, r)' /\ Frees(t, p, r)'
    BY <1>4 DEF Inside, Frees, Pushing
  <2>4. Leaves(t, D, r)'
    BY <1>1, <1>4 DEF Leaves, Left
  <2> QED
    BY <2>1, <2>2, <2>3, <2>4 DEF Mine
<1> QED
  BY <1>1, <1>4, <1>5, <1>6, <1>7, <1>8, <1>9, <1>10, QuietStep

(* A thread that has left a barrier is where it was before it woke up.     *)
LEMMA PassStep ==
  ASSUME NEW p, NEW r, NEW hi, NEW D, NEW t \in Thread, IInv(p, r, hi, D), Pass(t)
  PROVE  IInv(p, r, hi, D)'
<1>1. /\ thr[t] \in ThrType /\ thr \in [Thread -> ThrType] /\ team \in TeamType
      /\ ws \in [WS -> WsType] /\ kinds \in [0 .. Constructs -> Kinds]
      /\ D \in SUBSET Thread
      /\ AtWs(t, p, r) /\ Inside(t, p, r) /\ Leaves(t, D, r)
  BY ThreadFacts
<1>2. thr[t].pc = "bar" /\ UNCHANGED <<ws, team, kinds>>
  BY DEF Pass
<1>3. t \notin D /\ thr[t].k \in 0 .. Constructs /\ ~team.over
  BY <1>1, <1>2 DEF Leaves, Left, ThrType
<1>4. SameMemory(p) /\ SameFree(t) /\ SameCompleted(p) /\ Onward
  BY <1>1, <1>2 DEF SameMemory, SameFree, SameCompleted, Onward, TeamType
<1>5. ASSUME NEW T \in ThrType, Set(t, T), T.ws = thr[t].ws, T.k = thr[t].k,
             T.last = NULL \/ T.last = thr[t].last,
             \/ T.pc = "idle" /\ T.last = NULL /\ kinds[thr[t].k] = "barrier" /\ team.gen # thr[t].gen
             \/ T.pc = "copied" /\ T.last = thr[t].last /\ kinds[thr[t].k] = "copy" /\ team.gen # thr[t].gen
             \/ T.pc = "final" /\ team.cancelled /\ team.gen = thr[t].gen
      PROVE  IInv(p, r, hi, D)'
  <2>1. /\ thr' \in [Thread -> ThrType] /\ Others(t)
        /\ thr'[t].pc = T.pc /\ thr'[t].ws = thr[t].ws /\ thr'[t].k = thr[t].k
        /\ thr'[t].last = IF T.pc = "final" THEN NULL ELSE T.last
    BY <1>1, <1>5, SetThread DEF Others
  <2>2. TypeOK' /\ Region'
    BY <1>1, <1>2, <2>1 DEF IInv, TypeOK, Region
  <2>3. \A u \in Thread \ {t} : /\ \A j, E : Done(u, j, E)' <=> Done(u, j, E)
                                /\ \A j : Passed(u, j)' <=> Passed(u, j)
                                /\ Waiting(u)' <=> Waiting(u)
    BY <1>2, <2>1, OthersProgress
  <2>4. Busy(t, D)' <=> Busy(t, D)
    <3>1. team.cancelled => kinds[thr[t].k] # "copy"
      BY <1>3 DEF IInv, Region
    <3> QED
      BY <1>2, <1>3, <1>5, <2>1, <3>1 DEF Busy
  <2>5. Past(t)' <=> Past(t)
    BY <1>2, <1>5, <2>1 DEF Past, Between, Opening, Pushing, Left
  <2>6. SameDone(D, D)
    BY <2>1, <2>3, <2>4 DEF SameDone, Done
  <2>7. SamePassed
    <3>1. \A j : Passed(t, j)' <=> Passed(t, j)
      BY <2>1, <2>5 DEF Passed
    <3>2. thr[t].pc \notin Left
      BY <1>2 DEF Left
    <3> QED
      BY <2>1, <2>3, <3>1, <3>2 DEF SamePassed, Others
  <2>8. SameWaiting
    <3>1. ~team.cancelled => ~Waiting(t) /\ ~Waiting(t)'
      BY <1>2, <1>5, <2>1 DEF Waiting, Pushing
    <3> QED
      BY <1>2, <2>3, <3>1 DEF SameWaiting
  <2>9. SameBarrier(t)
    <3> SUFFICES ASSUME NEW u \in Thread \ {t}, thr[u].pc \in Pushing, kinds[thr[u].k] = "barrier"
                 PROVE  T.pc = "final"
      BY <1>2, <2>1 DEF SameBarrier, Left
    <3>1. Frees(u, p, r)
      BY DEF IInv
    <3>2. thr[t].gen = team.gen
      BY <1>2, <3>1 DEF Frees, Left
    <3> QED
      BY <1>5, <3>2
  <2>10. SameCopies(p, r)
    BY <1>2, <2>1 DEF SameCopies, Others
  <2>11. SameRoles(t, p, p)
    BY <1>2, <1>5, <2>1 DEF SameRoles, Opening, Pushing
  <2>12. Mine(t, p, r, hi, D)'
    <3>1. AtWs(t, p, r)'
      BY <1>1, <1>2, <1>5, <2>1 DEF AtWs
    <3>2. Opens(t, p, r, hi)' /\ Frees(t, p, r)'
      BY <1>5, <2>1 DEF Opens, Opening, Frees, Pushing
    <3>3. Inside(t, p, r)'
      <4>1. T.pc = "copied" => Keeps(t, p, r)'
        BY <1>1, <1>2, <1>5, <2>1 DEF Inside, Keeps
      <4> QED
        BY <1>2, <1>5, <2>1, <4>1 DEF Inside
    <3>4. Leaves(t, D, r)'
      BY <1>2, <1>3, <1>5, <2>1 DEF Leaves, Left
    <3> QED
      BY <3>1, <3>2, <3>3, <3>4 DEF Mine
  <2> QED
    BY <1>1, <1>2, <1>4, <2>1, <2>2, <2>6, <2>7, <2>8, <2>9, <2>10, <2>11, <2>12, QuietStep
<1>6. CASE team.gen # thr[t].gen /\ kinds[thr[t].k] = "barrier"
           /\ Set(t, [thr[t] EXCEPT !.pc = "idle", !.last = NULL])
  <2> DEFINE T == [thr[t] EXCEPT !.pc = "idle", !.last = NULL]
  <2>1. T \in ThrType /\ T.ws = thr[t].ws /\ T.k = thr[t].k /\ T.last = NULL /\ T.pc = "idle"
    BY <1>1 DEF ThrType, Labels, Between
  <2>2. Set(t, T)
    BY <1>6
  <2> HIDE DEF T
  <2> QED
    BY <1>5, <1>6, <2>1, <2>2
<1>7. CASE team.gen # thr[t].gen /\ kinds[thr[t].k] = "copy"
           /\ Set(t, [thr[t] EXCEPT !.pc = "copied"])
  <2> DEFINE T == [thr[t] EXCEPT !.pc = "copied"]
  <2>1. T \in ThrType /\ T.ws = thr[t].ws /\ T.k = thr[t].k /\ T.last = thr[t].last /\ T.pc = "copied"
    BY <1>1 DEF ThrType, Labels
  <2>2. Set(t, T)
    BY <1>7
  <2> HIDE DEF T
  <2> QED
    BY <1>5, <1>7, <2>1, <2>2
<1>8. CASE team.gen = thr[t].gen /\ team.cancelled /\ Set(t, [thr[t] EXCEPT !.pc = "final"])
  <2> DEFINE T == [thr[t] EXCEPT !.pc = "final"]
  <2>1. T \in ThrType /\ T.ws = thr[t].ws /\ T.k = thr[t].k /\ T.last = thr[t].last /\ T.pc = "final"
    BY <1>1 DEF ThrType, Labels, Left
  <2>2. Set(t, T)
    BY <1>8
  <2> HIDE DEF T
  <2> QED
    BY <1>5, <1>8, <2>1, <2>2
<1> QED
  BY <1>6, <1>7, <1>8 DEF Pass
-----------------------------------------------------------------------------
(* A thread goes to the end of the region, before its construct is done if *)
(* the region is cancelled.                                                *)
LEMMA GoesToTheEnd ==
  ASSUME NEW p, NEW r, NEW hi, NEW D, NEW t \in Thread, IInv(p, r, hi, D),
         thr[t].pc \in {"idle", "in"}, Set(t, [thr[t] EXCEPT !.pc = "final"]),
         team' = team \/ (team.cancellable /\ team' = [team EXCEPT !.cancelled = TRUE]),
         team'.cancelled \/ (thr[t].pc = "idle" /\ thr[t].k = Constructs),
         UNCHANGED <<ws, kinds>>
  PROVE  \E E : IInv(p, r, hi, E)'
<1>1. /\ thr[t] \in ThrType /\ thr \in [Thread -> ThrType] /\ team \in TeamType
      /\ ws \in [WS -> WsType] /\ kinds \in [0 .. Constructs -> Kinds]
      /\ D \in SUBSET Thread
      /\ AtWs(t, p, r) /\ Inside(t, p, r) /\ Leaves(t, D, r)
  BY ThreadFacts
<1> DEFINE T == [thr[t] EXCEPT !.pc = "final"]
<1>2. T \in ThrType /\ T.ws = thr[t].ws /\ T.k = thr[t].k /\ T.pc = "final"
  BY <1>1 DEF ThrType, Labels, Left
<1>3. Set(t, T)
  OBVIOUS
<1> PICK E : E = IF thr[t].pc = "in" THEN D \cup {t} ELSE D
  OBVIOUS
<1>4. /\ E \in SUBSET Thread /\ (\A u \in Thread \ {t} : u \in E <=> u \in D)
      /\ (t \in E <=> t \in D \/ thr[t].pc = "in")
  BY <1>1
<1> HIDE DEF T
<1>5. /\ thr' \in [Thread -> ThrType] /\ Others(t)
      /\ thr'[t].pc = "final" /\ thr'[t].ws = thr[t].ws /\ thr'[t].k = thr[t].k
      /\ thr'[t].last = NULL
  BY <1>1, <1>2, <1>3, SetThread DEF Others
<1>6. /\ team' \in TeamType /\ team'.gen = team.gen /\ team'.arrived = team.arrived
      /\ team'.alloc = team.alloc /\ team'.free = team.free /\ team'.chunk = team.chunk
      /\ team'.used = team.used /\ team'.to_free = team.to_free /\ team'.over = team.over
      /\ team'.cancellable = team.cancellable
  BY <1>1 DEF TeamType
<1>7. (team.cancelled => team'.cancelled) /\ (team'.cancelled => team.cancelled \/ team.cancellable)
  BY <1>1 DEF TeamType
<1>8. TypeOK' /\ Region'
  BY <1>1, <1>5, <1>6, <1>7 DEF IInv, TypeOK, Region
<1>9. t \notin D /\ ~team.over /\ thr[t].k \in 0 .. Constructs
  BY <1>1 DEF Leaves, Left, ThrType
<1>10. SameMemory(p) /\ SameFree(t) /\ SameCompleted(p)
  BY <1>6 DEF SameMemory, SameFree, SameCompleted
<1>11. Onward
  BY <1>6, <1>7 DEF Onward, TeamType
<1>12. \A u \in Thread \ {t} : Busy(u, E)' <=> Busy(u, D)
  BY <1>4, <1>5 DEF Busy, Others
<1>13. Busy(t, E)' <=> Busy(t, D)
  BY <1>4, <1>5, <1>9 DEF Busy
<1>14. SameDone(D, E)
  <2>1. \A u \in Thread : thr'[u].k = thr[u].k /\ (Busy(u, E)' <=> Busy(u, D))
    BY <1>5, <1>12, <1>13 DEF Others
  <2> QED
    BY <2>1 DEF SameDone, Done
<1>15. SamePassed
  <2>1. \A u \in Thread : thr'[u].k = thr[u].k
    BY <1>5 DEF Others
  <2>2. ASSUME NEW u \in Thread, Past(u)'
        PROVE  Past(u)
    <3>1. CASE u = t
      BY <1>5, <1>7, <2>2, <3>1 DEF Past, Between, Opening, Pushing, Left
    <3>2. CASE u # t
      <4>1. thr'[u] = thr[u]
        BY <1>5, <3>2 DEF Others
      <4> QED
        BY <1>6, <1>7, <2>2, <4>1 DEF Past
    <3> QED
      BY <3>1, <3>2
  <2>3. ASSUME NEW u \in Thread, Past(u) \/ thr[u].pc \in Left
        PROVE  Past(u)' \/ thr'[u].pc \in Left
    <3>1. CASE u = t
      BY <1>5, <3>1 DEF Left
    <3>2. CASE u # t
      <4>1. thr'[u] = thr[u]
        BY <1>5, <3>2 DEF Others
      <4> QED
        BY <1>6, <2>3, <4>1 DEF Past
    <3> QED
      BY <3>1, <3>2
  <2> QED
    BY <2>1, <2>2, <2>3 DEF SamePassed, Passed
<1>16. SameWaiting
  <2>1. \A u \in Thread \ {t} : Waiting(u)' <=> Waiting(u)
    BY <1>5, <1>6 DEF Waiting, Others
  <2>2. ~Waiting(t) /\ ~Waiting(t)'
    BY <1>5 DEF Waiting, Pushing
  <2> QED
    BY <1>6, <1>7, <2>1, <2>2 DEF SameWaiting
<1>17. SameBarrier(t)
  <2> SUFFICES ASSUME NEW u \in Thread \ {t}, thr[u].pc \in Pushing, kinds[thr[u].k] = "barrier"
               PROVE  FALSE
    BY DEF SameBarrier
  <2>1. Frees(u, p, r)
    BY DEF IInv
  <2> QED
    BY <2>1 DEF Frees, Left
<1>18. SameCopies(p, r)
  <2>1. kinds[thr[t].k] = "copy" => thr[t].pc # "in"
    BY <1>7, <1>9 DEF IInv, Region
  <2> QED
    BY <1>5, <2>1 DEF SameCopies, Others
<1>19. SameRoles(t, p, p)
  BY <1>5 DEF SameRoles, Opening, Pushing
<1>20. Mine(t, p, r, hi, E)'
  <2>1. AtWs(t, p, r)'
    BY <1>1, <1>5 DEF AtWs
  <2>2. Opens(t, p, r, hi)' /\ Frees(t, p, r)' /\ Inside(t, p, r)'
    BY <1>5 DEF Opens, Opening, Frees, Pushing, Inside
  <2>3. Leaves(t, E, r)'
    <3>1. thr[t].pc = "in" /\ thr[t].k > 0 => thr[t].k > r[team.to_free]
      BY <1>1, <1>9 DEF Inside, Keeps
    <3> QED
      BY <1>4, <1>5, <1>6, <1>9, <3>1 DEF Leaves, Left
  <2> QED
    BY <2>1, <2>2, <2>3 DEF Mine
<1>21. IInv(p, r, hi, E)'
  BY <1>4, <1>5, <1>8, <1>10, <1>11, <1>14, <1>15, <1>16, <1>17, <1>18, <1>19, <1>20, QuietStep
<1> QED
  BY <1>21

(* A construct that is combined with the region has no work share before.  *)
LEMMA FirstEnds ==
  ASSUME NEW p, NEW r, NEW hi, NEW D, NEW t \in Thread, IInv(p, r, hi, D),
         thr[t].pc \in {"in", "copied"}, kinds[thr[t].k] # "copy" \/ thr[t].pc = "copied",
         thr[t].last = NULL, Set(t, [thr[t] EXCEPT !.pc = "idle"]),
         UNCHANGED <<ws, team, kinds>>
  PROVE  IInv(p, r, hi, D)'
<1>1. /\ thr[t] \in ThrType /\ thr \in [Thread -> ThrType] /\ team \in TeamType
      /\ ws \in [WS -> WsType] /\ kinds \in [0 .. Constructs -> Kinds]
      /\ D \in SUBSET Thread
      /\ AtWs(t, p, r) /\ Inside(t, p, r) /\ Leaves(t, D, r)
  BY ThreadFacts
<1>2. thr[t].k = 0 /\ thr[t].pc = "in"
  <2>1. NULL \notin WS
    BY WorkShareAssumption DEF WS
  <2> QED
    BY <1>1, <2>1 DEF Inside, Keeps
<1> DEFINE T == [thr[t] EXCEPT !.pc = "idle"]
<1>3. T \in ThrType /\ T.ws = thr[t].ws /\ T.k = 0 /\ T.pc = "idle" /\ T.last = NULL
  BY <1>1, <1>2 DEF ThrType, Labels, Between
<1>4. Set(t, T)
  OBVIOUS
<1> HIDE DEF T
<1>5. /\ thr' \in [Thread -> ThrType] /\ Others(t)
      /\ thr'[t].pc = "idle" /\ thr'[t].ws = thr[t].ws /\ thr'[t].k = 0 /\ thr'[t].last = NULL
  BY <1>1, <1>3, <1>4, SetThread DEF Others
<1>6. TypeOK' /\ Region'
  BY <1>1, <1>5 DEF IInv, TypeOK, Region
<1>7. \A u \in Thread \ {t} : /\ \A j, E : Done(u, j, E)' <=> Done(u, j, E)
                              /\ \A j : Passed(u, j)' <=> Passed(u, j)
                              /\ Waiting(u)' <=> Waiting(u)
  BY <1>5, OthersProgress
<1>8. SameDone(D, D) /\ SamePassed /\ SameWaiting
  <2>1. ASSUME NEW j \in 1 .. Constructs
        PROVE  ~Done(t, j, D) /\ ~Done(t, j, D)' /\ ~Passed(t, j) /\ ~Passed(t, j)'
               /\ thr[t].k # j /\ thr'[t].k # j
    BY <1>2, <1>5, WorkShareAssumption DEF Done, Passed
  <2>2. ~Waiting(t) /\ ~Waiting(t)'
    BY <1>5 DEF Waiting, Pushing
  <2>3. SameDone(D, D)
    BY <1>7, <2>1 DEF SameDone
  <2>4. SamePassed
    BY <1>5, <1>7, <2>1 DEF SamePassed, Others
  <2>5. SameWaiting
    BY <1>7, <2>2 DEF SameWaiting
  <2> QED
    BY <2>3, <2>4, <2>5
<1>9. SameBarrier(t)
  <2> SUFFICES ASSUME NEW u \in Thread \ {t}, thr[u].pc \in Pushing, kinds[thr[u].k] = "barrier"
               PROVE  FALSE
    BY DEF SameBarrier
  <2>1. Frees(u, p, r)
    BY DEF IInv
  <2> QED
    BY <2>1 DEF Frees, Left
<1>10. SameMemory(p) /\ SameFree(t) /\ SameCompleted(p) /\ Onward
  BY <1>1 DEF SameMemory, SameFree, SameCompleted, Onward, TeamType
<1>11. SameCopies(p, r)
  BY <1>2, <1>5 DEF SameCopies, Others
<1>12. SameRoles(t, p, p)
  BY <1>5 DEF SameRoles, Opening, Pushing
<1>13. Mine(t, p, r, hi, D)'
  <2>1. AtWs(t, p, r)'
    BY <1>1, <1>2, <1>5 DEF AtWs
  <2>2. Opens(t, p, r, hi)' /\ Frees(t, p, r)' /\ Inside(t, p, r)'
    BY <1>5 DEF Opens, Opening, Frees, Pushing, Inside
  <2>3. Leaves(t, D, r)'
    BY <1>1, <1>5 DEF Leaves, Left
  <2> QED
    BY <2>1, <2>2, <2>3 DEF Mine
<1> QED
  BY <1>1, <1>5, <1>6, <1>8, <1>9, <1>10, <1>11, <1>12, <1>13, QuietStep
-----------------------------------------------------------------------------
(* The loop of free_work_share.                                            *)
LEMMA PushAgain ==
  ASSUME NEW p, NEW r, NEW hi, NEW D, NEW t \in Thread, NEW T \in ThrType, IInv(p, r, hi, D),
         thr[t].pc \in Pushing, T.pc \in Pushing, T.k = thr[t].k, T.ws = thr[t].ws,
         T.loc = thr[t].loc, Set(t, T), UNCHANGED <<team, kinds>>,
         ws' \in [WS -> WsType],
         \A w \in WS : /\ ws'[w].next = ws[w].next /\ ws'[w].uses = ws[w].uses
                       /\ ws'[w].completed = ws[w].completed
                       /\ ws'[w].copyprivate = ws[w].copyprivate
                       /\ w # thr[t].loc => ws'[w].free = ws[w].free,
         T.pc = "cas" => ws'[thr[t].loc].free = T.seen
  PROVE  IInv(p, r, hi, D)'
<1>1. /\ thr[t] \in ThrType /\ thr \in [Thread -> ThrType] /\ team \in TeamType
      /\ kinds \in [0 .. Constructs -> Kinds] /\ D \in SUBSET Thread
      /\ AtWs(t, p, r) /\ Frees(t, p, r) /\ Leaves(t, D, r)
  BY ThreadFacts
<1>2. p[thr[t].loc] = "push"
  BY <1>1 DEF Frees
<1>3. /\ thr' \in [Thread -> ThrType] /\ Others(t)
      /\ thr'[t].pc = T.pc /\ thr'[t].ws = thr[t].ws /\ thr'[t].k = thr[t].k
      /\ thr'[t].loc = thr[t].loc /\ thr'[t].seen = T.seen
  BY <1>1, SetThread DEF Others
<1>4. TypeOK' /\ Region'
  BY <1>1, <1>3 DEF IInv, TypeOK, Region
<1>5. \A u \in Thread \ {t} : /\ \A j, E : Done(u, j, E)' <=> Done(u, j, E)
                              /\ \A j : Passed(u, j)' <=> Passed(u, j)
                              /\ Waiting(u)' <=> Waiting(u)
  BY <1>3, OthersProgress
<1>6. (Busy(t, D)' <=> Busy(t, D)) /\ (Past(t)' <=> Past(t)) /\ (Waiting(t)' <=> Waiting(t))
  BY <1>3 DEF Busy, Past, Waiting, Pushing, Between, Opening, Left
<1>7. SameDone(D, D) /\ SamePassed /\ SameWaiting
  <2>1. SameDone(D, D)
    BY <1>3, <1>5, <1>6 DEF SameDone, Done
  <2>2. SamePassed
    <3>1. \A j : Passed(t, j)' <=> Passed(t, j)
      BY <1>3, <1>6 DEF Passed
    <3>2. thr[t].pc \notin Left
      BY DEF Left, Pushing
    <3> QED
      BY <1>3, <1>5, <3>1, <3>2 DEF SamePassed, Others
  <2>3. SameWaiting
    BY <1>5, <1>6 DEF SameWaiting
  <2> QED
    BY <2>1, <2>2, <2>3
<1>8. SameBarrier(t)
  <2> SUFFICES ASSUME NEW u \in Thread \ {t}, thr[u].pc \in Pushing, kinds[thr[u].k] = "barrier"
               PROVE  FALSE
    BY DEF SameBarrier
  <2> QED
    BY DEF IInv, Single
<1>9. SameMemory(p) /\ SameFree(t) /\ SameCompleted(p) /\ Onward
  BY <1>1, <1>2 DEF SameMemory, SameFree, SameCompleted, Onward, TeamType
<1>10. SameCopies(p, r)
  <2>1. thr[t].pc # "in"
    BY DEF Pushing
  <2> QED
    BY <1>3, <2>1 DEF SameCopies, Others
<1>11. SameRoles(t, p, p)
  <2>1. thr[t].pc # "fill" /\ thr'[t].pc \notin Opening
    BY <1>3 DEF Pushing, Opening
  <2> QED
    BY <2>1 DEF SameRoles
<1>12. Mine(t, p, r, hi, D)'
  <2>1. thr'[t].pc # "fill" /\ thr[t].pc # "fill"
    BY <1>3 DEF Pushing
  <2>2. AtWs(t, p, r)'
    BY <1>1, <1>3, <2>1 DEF AtWs
  <2>3. Opens(t, p, r, hi)' /\ Inside(t, p, r)'
    BY <1>3 DEF Opens, Opening, Pushing, Inside
  <2>4. Frees(t, p, r)'
    <3>1. thr'[t].pc \in Pushing => /\ thr'[t].k = r[team'.to_free] /\ thr'[t].k > 0
                                    /\ thr'[t].loc \in WS /\ p[thr'[t].loc] = "push"
      BY <1>1, <1>3 DEF Frees
    <3>2. thr'[t].pc = "cas" => ws'[thr'[t].loc].free = thr'[t].seen
      BY <1>3
    <3>3. kinds[thr'[t].k] = "barrier" =>
            \A s \in Thread \ {t} : /\ thr'[s].k = thr'[t].k
                                    /\ thr'[s].pc \in Left \/ (thr'[s].pc = "bar" /\ thr'[s].gen = team.gen)
      BY <1>1, <1>3 DEF Frees, Others
    <3> QED
      BY <3>1, <3>2, <3>3 DEF Frees
  <2>5. Leaves(t, D, r)'
    BY <1>1, <1>3 DEF Leaves, Left, Pushing
  <2> QED
    BY <2>2, <2>3, <2>4, <2>5 DEF Mine
<1> QED
  BY <1>1, <1>3, <1>4, <1>7, <1>8, <1>9, <1>10, <1>11, <1>12, QuietStep

(* free_work_share links its work share to the head it has read.           *)
LEMMA PushStep ==
  ASSUME NEW p, NEW r, NEW hi, NEW D, NEW t \in Thread, IInv(p, r, hi, D), Push(t)
  PROVE  IInv(p, r, hi, D)'
<1>1. /\ thr[t] \in ThrType /\ team \in TeamType /\ ws \in [WS -> WsType] /\ Frees(t, p, r)
  BY ThreadFacts
<1>2. /\ thr[t].pc = "push" /\ ws' = [ws EXCEPT ![thr[t].loc].free = team.free]
      /\ Set(t, [thr[t] EXCEPT !.pc = "cas", !.seen = team.free]) /\ UNCHANGED <<team, kinds>>
  BY DEF Push
<1> DEFINE T == [thr[t] EXCEPT !.pc = "cas", !.seen = team.free]
<1>3. team.free \in WS \cup {NULL} /\ thr[t].loc \in WS
  BY <1>1, <1>2 DEF TeamType, Frees, Pushing
<1>4. /\ T \in ThrType /\ T.pc = "cas" /\ T.k = thr[t].k /\ T.ws = thr[t].ws
      /\ T.loc = thr[t].loc /\ T.seen = team.free
  BY <1>1, <1>3 DEF ThrType, Labels, Pushing
<1>5. ws' \in [WS -> WsType]
  BY <1>1, <1>2, <1>3 DEF WsType
<1>6. /\ ws'[thr[t].loc].free = team.free
      /\ \A w \in WS : /\ ws'[w].next = ws[w].next /\ ws'[w].uses = ws[w].uses
                       /\ ws'[w].completed = ws[w].completed
                       /\ ws'[w].copyprivate = ws[w].copyprivate
                       /\ w # thr[t].loc => ws'[w].free = ws[w].free
  BY <1>1, <1>2, <1>3 DEF WsType
<1>7. Set(t, T)
  BY <1>2
<1> HIDE DEF T
<1>8. thr[t].pc \in Pushing /\ T.pc \in Pushing
  BY <1>2, <1>4 DEF Pushing
<1> QED
  BY <1>2, <1>4, <1>5, <1>6, <1>7, <1>8, PushAgain

(* The compare-and-swap of free_work_share fails: it reads the head again. *)
LEMMA CasFails ==
  ASSUME NEW p, NEW r, NEW hi, NEW D, NEW t \in Thread, IInv(p, r, hi, D),
         thr[t].pc = "cas", Set(t, [thr[t] EXCEPT !.pc = "push"]), UNCHANGED <<ws, team, kinds>>
  PROVE  IInv(p, r, hi, D)'
<1>1. /\ thr[t] \in ThrType /\ ws \in [WS -> WsType]
  BY ThreadFacts
<1> DEFINE T == [thr[t] EXCEPT !.pc = "push"]
<1>2. /\ T \in ThrType /\ T.pc = "push" /\ T.k = thr[t].k /\ T.ws = thr[t].ws
      /\ T.loc = thr[t].loc
  BY <1>1 DEF ThrType, Labels, Pushing
<1>3. Set(t, T)
  OBVIOUS
<1> HIDE DEF T
<1>4. thr[t].pc \in Pushing /\ T.pc \in Pushing /\ T.pc # "cas"
  BY <1>2 DEF Pushing
<1>5. /\ ws' \in [WS -> WsType]
      /\ \A w \in WS : /\ ws'[w].next = ws[w].next /\ ws'[w].uses = ws[w].uses
                       /\ ws'[w].completed = ws[w].completed
                       /\ ws'[w].copyprivate = ws[w].copyprivate
                       /\ w # thr[t].loc => ws'[w].free = ws[w].free
  BY <1>1
<1> QED
  BY <1>2, <1>3, <1>4, <1>5, PushAgain
-----------------------------------------------------------------------------
(* A step of the thread that opens the next construct, by which the memory *)
(* may change, apart from the work shares in use.                          *)
LEMMA OpenerStep ==
  ASSUME NEW p, NEW r, NEW hi, NEW D, NEW q \in [WS -> Places], NEW s \in [WS -> Int],
         NEW t \in Thread, IInv(p, r, hi, D),
         thr' \in [Thread -> ThrType], ws' \in [WS -> WsType], team' \in TeamType,
         kinds' = kinds, Others(t), Level,
         team'.cancellable = team.cancellable, team'.over = team.over,
         thr[t].pc \in Between, thr'[t].pc \in Opening, thr'[t].k = thr[t].k,
         \A u \in Thread \ {t} : thr[u].pc \notin Opening,
         SameLive(p, r, q, s), SameCompleted(p),
         \A w \in WS : p[w] = "live" => ws'[w].copyprivate = ws[w].copyprivate,
         \A w \in WS : p[w] = "push" => q[w] = "push" /\ ws'[w].free = ws[w].free,
         Memory(q, s, hi)',
         \A w \in WS : q[w] = "live" => ws'[w].next # Unset,
         \A w \in WS : q[w] = "fill" => thr'[t].pc = "fill" /\ thr'[t].ws = w,
         AtWs(t, q, s)', Opens(t, q, s, hi)'
  PROVE  IInv(q, s, hi, D)'
<1>1. /\ thr[t] \in ThrType /\ team \in TeamType /\ D \in SUBSET Thread /\ hi \in Nat
      /\ kinds \in [0 .. Constructs -> Kinds] /\ r \in [WS -> Int]
      /\ Leaves(t, D, r)
  BY ThreadFacts
<1>2. /\ Region /\ Chained(p, r, hi) /\ Counted(p, r, D) /\ Behind(r, hi, D)
      /\ Single(p) /\ Together /\ Arrivals /\ Stored(p, r)
  BY DEF IInv
<1>3. TypeOK' /\ Region'
  BY <1>1, <1>2 DEF TypeOK, Region, Level
<1>4. SameDone(D, D) /\ SamePassed /\ SameWaiting /\ SameBarrier(t)
  <2>1. thr'[t].k \in 0 .. Constructs /\ thr'[t].pc \in Between
    BY DEF ThrType, Between
  <2> QED
    BY <2>1, BetweenProgress
<1>5. Counted(q, s, D)'
  BY <1>1, <1>2, <1>4, CountedFrame
<1>6. Behind(s, hi, D)'
  <2>1. team.to_free \in WS
    BY <1>1 DEF TeamType
  <2> QED
    BY <1>1, <1>2, <1>4, <2>1, BehindFrame
<1>7. Together' /\ Arrivals'
  BY <1>2, <1>4, TogetherFrame, ArrivalsFrame
<1>8. Stored(q, s)'
  <2>1. thr[t].pc # "in"
    BY DEF Between, Opening
  <2>2. SameCopies(p, r)
    BY <2>1 DEF SameCopies, Others
  <2> QED
    BY <1>2, <2>2, StoredFrame
<1>9. Single(q)'
  <2>1. \A u, v \in Thread : thr'[u].pc \in Opening /\ thr'[v].pc \in Opening => u = v
    BY DEF Others
  <2>2. \A u, v \in Thread : thr'[u].pc \in Pushing /\ thr'[v].pc \in Pushing => u = v
    <3>1. thr'[t].pc \notin Pushing
      BY DEF Opening, Pushing
    <3> QED
      BY <1>2, <3>1 DEF Single, Others
  <2> QED
    BY <2>1, <2>2 DEF Single
<1>10. SamePlaces(t, q)
  <2> SUFFICES ASSUME NEW u \in Thread \ {t}
               PROVE  SamePlaces(t, q)!(u)
    BY DEF SamePlaces
  <2>1. thr[u].pc \notin Opening /\ thr[u].pc # "fill" /\ thr[u].pc # "cut" /\ thr[u].pc # "init"
    BY DEF Opening
  <2>2. Frees(u, p, r)
    BY DEF IInv
  <2>3. thr[u].pc \in Pushing => q[thr[u].loc] = "push" /\ ws'[thr[u].loc].free = ws[thr[u].loc].free
    BY <2>2 DEF Frees
  <2>4. thr[u].pc = "cas" => thr[u].pc \in Pushing
    BY DEF Pushing
  <2> QED
    BY <2>1, <2>3, <2>4
<1>11. Onward
  BY <1>1 DEF Onward, Level, TeamType
<1>12. \A u \in Thread \ {t} : /\ AtWs(u, q, s)' /\ Opens(u, q, s, hi)' /\ Inside(u, q, s)'
                               /\ Frees(u, q, s)' /\ Leaves(u, D, s)'
  <2>1. StillLive(p, r, q, s)
    BY DEF SameLive, StillLive
  <2> QED
    BY <1>4, <1>10, <1>11, <2>1, OtherThreads
<1>13. Inside(t, q, s)' /\ Frees(t, q, s)' /\ Leaves(t, D, s)'
  <2>1. thr'[t].pc \notin {"idle", "in", "copied", "bar", "final", "over"} /\ thr'[t].pc \notin Pushing
    BY DEF Opening, Pushing
  <2>2. thr[t].pc \notin Left
    BY DEF Between, Opening, Left
  <2>3. t \notin D /\ ~team.over
    BY <1>1, <2>2 DEF Leaves, Left
  <2>4. Inside(t, q, s)'
    BY <2>1 DEF Inside
  <2>5. Frees(t, q, s)'
    BY <2>1 DEF Frees, Pushing
  <2> QED
    BY <2>1, <2>3, <2>4, <2>5 DEF Leaves
<1>14. \A u \in Thread : /\ AtWs(u, q, s)' /\ Opens(u, q, s, hi)' /\ Inside(u, q, s)'
                         /\ Frees(u, q, s)' /\ Leaves(u, D, s)'
  BY <1>12, <1>13
<1> QED
  BY <1>1, <1>3, <1>5, <1>6, <1>7, <1>8, <1>9, <1>14 DEF IInv, Memory

(* Of the work shares in use the last one, and no other, lacks a successor,*)
(* and while a thread opens the next construct it is taken.                *)
LEMMA LastClaimed ==
  ASSUME NEW p, NEW r, NEW hi, NEW D, NEW t \in Thread, IInv(p, r, hi, D),
         thr[t].pc \in Opening, NEW w \in WS, p[w] = "live", ws[w].next = Unset
  PROVE  FALSE
BY DEF IInv, Single

(* Start claims the next construct.                                        *)
LEMMA StartClaims ==
  ASSUME NEW p, NEW r, NEW hi, NEW D, NEW t \in Thread, IInv(p, r, hi, D),
         thr[t].pc = "idle", thr[t].k < Constructs, ws[thr[t].ws].next = Unset,
         ws' = [ws EXCEPT ![thr[t].ws].next = Claimed],
         Set(t, [[thr[t] EXCEPT !.last = thr[t].ws, !.first = FALSE]
                   EXCEPT !.pc = "alloc", !.first = TRUE]),
         UNCHANGED <<team, kinds>>
  PROVE  IInv(p, r, hi, D)'
<1>1. /\ thr[t] \in ThrType /\ thr \in [Thread -> ThrType] /\ team \in TeamType
      /\ ws \in [WS -> WsType] /\ p \in [WS -> Places] /\ r \in [WS -> Int] /\ hi \in Nat
      /\ AtWs(t, p, r)
  BY ThreadFacts
<1> DEFINE T == [[thr[t] EXCEPT !.last = thr[t].ws, !.first = FALSE]
                   EXCEPT !.pc = "alloc", !.first = TRUE]
<1>2. /\ T \in ThrType /\ T.pc = "alloc" /\ T.k = thr[t].k /\ T.ws = thr[t].ws /\ T.last = thr[t].ws
      /\ T.first = TRUE
  BY <1>1 DEF ThrType, Labels, Between, Opening
<1>3. Set(t, T)
  OBVIOUS
<1> HIDE DEF T
<1>4. /\ thr' \in [Thread -> ThrType] /\ Others(t)
      /\ thr'[t].pc = "alloc" /\ thr'[t].ws = thr[t].ws /\ thr'[t].k = thr[t].k
      /\ thr'[t].last = thr[t].ws /\ thr'[t].first
  BY <1>1, <1>2, <1>3, SetThread DEF Others, Opening
<1>5. thr[t].ws \in WS /\ p[thr[t].ws] = "live" /\ r[thr[t].ws] = thr[t].k
  BY <1>1 DEF AtWs, ThrType
<1>6. /\ ws' \in [WS -> WsType] /\ ws'[thr[t].ws].next = Claimed
      /\ \A w \in WS : /\ ws'[w].free = ws[w].free /\ ws'[w].uses = ws[w].uses
                       /\ ws'[w].completed = ws[w].completed
                       /\ ws'[w].copyprivate = ws[w].copyprivate
                       /\ w # thr[t].ws => ws'[w].next = ws[w].next
  BY <1>1, <1>5 DEF WsType
<1>7. Lists(p, r) /\ Distinct(p, r) /\ Raw(p) /\ Uses(p) /\ Chained(p, r, hi) /\ Single(p)
  BY DEF IInv
<1>8. thr[t].k = hi
  <2>1. Unset \notin WS
    BY DEF WS, Unset
  <2>2. thr[t].k <= hi /\ thr[t].k \in Int
    BY <1>1, <1>5, <1>7 DEF Chained, ThrType
  <2>3. ~(thr[t].k < hi)
    BY <1>5, <1>7, <2>1 DEF Chained
  <2> QED
    BY <1>1, <2>2, <2>3
<1>9. Memory(p, r, hi)'
  <2>1. Lists(p, r)'
    BY <1>6, <1>7 DEF Lists, IsList
  <2>2. Distinct(p, r)' /\ Raw(p)' /\ Uses(p)'
    BY <1>6, <1>7 DEF Distinct, Raw, Uses
  <2>3. Chained(p, r, hi)'
    <3>1. ASSUME NEW w \in WS, p[w] = "live"
          PROVE  /\ r[w] = hi => ws'[w].next \in {Unset, Claimed}
                 /\ r[w] < hi => ws'[w].next \in WS /\ p[ws'[w].next] = "live"
                                /\ r[ws'[w].next] = r[w] + 1
      <4>1. CASE w = thr[t].ws
        BY <1>1, <1>5, <1>6, <1>8, <4>1
      <4>2. CASE w # thr[t].ws
        BY <1>6, <1>7, <3>1, <4>2 DEF Chained
      <4> QED
        BY <4>1, <4>2
    <3> QED
      BY <1>7, <3>1 DEF Chained
  <2> QED
    BY <2>1, <2>2, <2>3 DEF Memory
<1>10. \A w \in WS : p[w] = "live" => ws'[w].next # Unset
  <2> SUFFICES ASSUME NEW w \in WS, p[w] = "live", ws'[w].next = Unset
               PROVE  FALSE
    OBVIOUS
  <2>1. w # thr[t].ws /\ ws[w].next = Unset
    BY <1>6 DEF Unset, Claimed
  <2>2. r[w] = hi
    <3>1. Unset \notin WS
      BY DEF WS, Unset
    <3> QED
      BY <1>1, <1>7, <2>1, <3>1 DEF Chained
  <2> QED
    BY <1>5, <1>7, <1>8, <2>1, <2>2 DEF Distinct
<1>11. \A u \in Thread : thr[u].pc \notin Opening
  BY <1>5, <1>7 DEF Single
<1>12. \A w \in WS : p[w] # "fill"
  BY <1>7, <1>11 DEF Single, Opening
<1>13. AtWs(t, p, r)'
  BY <1>4, <1>5 DEF AtWs
<1>14. Opens(t, p, r, hi)'
  BY <1>4, <1>5, <1>6, <1>8 DEF Opens
<1>15. SameLive(p, r, p, r) /\ SameCompleted(p) /\ Level /\ thr[t].pc \in Between /\ thr'[t].pc \in Opening
  BY <1>4, <1>6 DEF SameLive, SameCompleted, Level, Between, Opening
<1> QED
  BY <1>1, <1>4, <1>6, <1>9, <1>10, <1>11, <1>12, <1>13, <1>14, <1>15, OpenerStep
-----------------------------------------------------------------------------
(* What else is known while a thread opens a construct.                    *)
LEMMA OpenerFacts ==
  ASSUME NEW p, NEW r, NEW hi, NEW D, NEW t \in Thread, IInv(p, r, hi, D), thr[t].pc \in Opening
  PROVE  /\ \A u \in Thread \ {t} : thr[u].pc \notin Opening
         /\ \A w \in WS : p[w] = "live" => ws[w].next # Unset
         /\ \A w \in WS : p[w] = "fill" => thr[t].pc = "fill" /\ thr[t].ws = w
         /\ thr[t].pc \in Between /\ ~team.over
         /\ Lists(p, r) /\ Distinct(p, r) /\ Raw(p) /\ Uses(p) /\ Chained(p, r, hi)
<1>1. Single(p) /\ Leaves(t, D, r)
  BY DEF IInv
<1>2. \A u \in Thread \ {t} : thr[u].pc \notin Opening
  BY <1>1 DEF Single
<1>3. \A w \in WS : p[w] = "fill" => thr[t].pc = "fill" /\ thr[t].ws = w
  BY <1>1, <1>2 DEF Single, Opening
<1>4. thr[t].pc \in Between /\ ~team.over
  BY <1>1 DEF Between, Opening, Leaves
<1> QED
  BY <1>2, <1>3, <1>4, LastClaimed DEF IInv

(* alloc_work_share has no work share of its own.                          *)
LEMMA AllocLooks ==
  ASSUME NEW p, NEW r, NEW hi, NEW D, NEW t \in Thread, IInv(p, r, hi, D),
         thr[t].pc = "alloc", team.alloc = NULL,
         Set(t, [thr[t] EXCEPT !.pc = "cut", !.loc = team.free]), UNCHANGED <<ws, team, kinds>>
  PROVE  IInv(p, r, hi, D)'
<1>1. /\ thr[t] \in ThrType /\ thr \in [Thread -> ThrType] /\ team \in TeamType
      /\ ws \in [WS -> WsType] /\ p \in [WS -> Places] /\ r \in [WS -> Int]
      /\ AtWs(t, p, r) /\ Opens(t, p, r, hi)
  BY ThreadFacts
<1>2. thr[t].pc \in Opening
  BY DEF Opening
<1>3. /\ \A u \in Thread \ {t} : thr[u].pc \notin Opening
      /\ \A w \in WS : p[w] = "live" => ws[w].next # Unset
      /\ \A w \in WS : p[w] = "fill" => thr[t].pc = "fill" /\ thr[t].ws = w
      /\ thr[t].pc \in Between /\ ~team.over
      /\ Lists(p, r) /\ Distinct(p, r) /\ Raw(p) /\ Uses(p) /\ Chained(p, r, hi)
  BY <1>2, OpenerFacts
<1> DEFINE T == [thr[t] EXCEPT !.pc = "cut", !.loc = team.free]
<1>4. /\ T \in ThrType /\ T.pc = "cut" /\ T.k = thr[t].k /\ T.ws = thr[t].ws /\ T.last = thr[t].last
      /\ T.first = thr[t].first /\ T.loc = team.free
  BY <1>1 DEF ThrType, TeamType, Labels, Between, Opening
<1>5. Set(t, T)
  OBVIOUS
<1> HIDE DEF T
<1>6. /\ thr' \in [Thread -> ThrType] /\ Others(t)
      /\ thr'[t].pc = "cut" /\ thr'[t].ws = thr[t].ws /\ thr'[t].k = thr[t].k
      /\ thr'[t].last = thr[t].last /\ thr'[t].first = thr[t].first /\ thr'[t].loc = team.free
  BY <1>1, <1>4, <1>5, SetThread DEF Others, Opening
<1>7. Memory(p, r, hi)'
  BY <1>3 DEF Memory, Lists, IsList, Distinct, Raw, Uses, Chained
<1>8. AtWs(t, p, r)'
  BY <1>1, <1>6 DEF AtWs
<1>9. Opens(t, p, r, hi)'
  <2>1. team.free # NULL => p[team.free] = "free"
    BY <1>3 DEF Lists, IsList
  <2> QED
    BY <1>1, <1>2, <1>6, <2>1 DEF Opens, Opening
<1>10. SameLive(p, r, p, r) /\ SameCompleted(p) /\ Level /\ thr'[t].pc \in Opening
  BY <1>6 DEF SameLive, SameCompleted, Level, Opening
<1>11. \A w \in WS : p[w] # "fill"
  BY <1>3
<1> QED
  BY <1>1, <1>3, <1>6, <1>7, <1>8, <1>9, <1>10, <1>11, OpenerStep

(* It takes the first of its list.                                         *)
LEMMA AllocTakes ==
  ASSUME NEW p, NEW r, NEW hi, NEW D, NEW t \in Thread, IInv(p, r, hi, D),
         thr[t].pc = "alloc", team.alloc # NULL,
         Set(t, [thr[t] EXCEPT !.pc = "init", !.loc = team.alloc]),
         team' = [team EXCEPT !.alloc = ws[team.alloc].free], UNCHANGED <<ws, kinds>>
  PROVE  \E q, s : IInv(q, s, hi, D)'
<1>1. /\ thr[t] \in ThrType /\ thr \in [Thread -> ThrType] /\ team \in TeamType
      /\ ws \in [WS -> WsType] /\ p \in [WS -> Places] /\ r \in [WS -> Int]
      /\ AtWs(t, p, r) /\ Opens(t, p, r, hi)
  BY ThreadFacts
<1>2. thr[t].pc \in Opening
  BY DEF Opening
<1>3. /\ \A u \in Thread \ {t} : thr[u].pc \notin Opening
      /\ \A w \in WS : p[w] = "live" => ws[w].next # Unset
      /\ \A w \in WS : p[w] = "fill" => thr[t].pc = "fill" /\ thr[t].ws = w
      /\ thr[t].pc \in Between /\ ~team.over
      /\ Lists(p, r) /\ Distinct(p, r) /\ Raw(p) /\ Uses(p) /\ Chained(p, r, hi)
  BY <1>2, OpenerFacts
<1> PICK h : h = team.alloc
  OBVIOUS
<1>4. h \in WS /\ ws[h].free \in WS \cup {NULL} /\ p[h] = "alloc"
  BY <1>1, <1>3 DEF TeamType, WsType, Lists, IsList
<1> DEFINE T == [thr[t] EXCEPT !.pc = "init", !.loc = team.alloc]
<1>5. /\ T \in ThrType /\ T.pc = "init" /\ T.k = thr[t].k /\ T.ws = thr[t].ws /\ T.last = thr[t].last
      /\ T.first = thr[t].first /\ T.loc = h
  BY <1>1, <1>4 DEF ThrType, Labels, Between, Opening
<1>6. Set(t, T)
  OBVIOUS
<1> HIDE DEF T
<1>7. /\ thr' \in [Thread -> ThrType] /\ Others(t)
      /\ thr'[t].pc = "init" /\ thr'[t].ws = thr[t].ws /\ thr'[t].k = thr[t].k
      /\ thr'[t].last = thr[t].last /\ thr'[t].first = thr[t].first /\ thr'[t].loc = h
  BY <1>1, <1>5, <1>6, SetThread DEF Others, Opening
<1>8. /\ team' \in TeamType /\ team'.alloc = ws[h].free /\ team'.free = team.free
      /\ team'.chunk = team.chunk /\ team'.used = team.used /\ team'.to_free = team.to_free
      /\ team'.arrived = team.arrived /\ team'.gen = team.gen /\ team'.cancelled = team.cancelled
      /\ team'.over = team.over /\ team'.cancellable = team.cancellable
  BY <1>1, <1>4 DEF TeamType
<1> PICK q : q = [p EXCEPT ![h] = "new"]
  OBVIOUS
<1>9. q \in [WS -> Places] /\ q[h] = "new" /\ (\A w \in WS : w # h => q[w] = p[w])
  BY <1>1, <1>4 DEF Places
<1>10. Memory(q, r, hi)'
  <2>1. \A w \in WS : p[w] = "alloc" => r[w] <= r[h]
    BY <1>3, <1>4, WorkShareAssumption DEF Lists, IsList, WS
  <2>2. \A w \in WS : p[w] = "alloc" =>
           IF ws[w].free = NULL THEN \A v \in WS : p[v] = "alloc" => r[v] >= r[w]
           ELSE p[ws[w].free] = "alloc" /\ r[ws[w].free] = r[w] - 1
    BY <1>3 DEF Lists, IsList
  <2>3. \A w \in WS : q[w] = "alloc" => p[w] = "alloc" /\ w # h /\ r[w] < r[h]
    <3>1. \A w \in WS : p[w] = "alloc" /\ r[w] = r[h] => w = h
      BY <1>3, <1>4 DEF Distinct
    <3> QED
      BY <1>1, <1>4, <1>9, <2>1, <3>1
  <2>4. IsList("alloc", ws[h].free, q, r)'
    <3>1. ws[h].free = NULL => \A w \in WS : q[w] # "alloc"
      BY <1>1, <1>4, <2>2, <2>3
    <3>2. ws[h].free # NULL => q[ws[h].free] = "alloc" /\ \A w \in WS : q[w] = "alloc" => r[w] <= r[ws[h].free]
      <4> SUFFICES ASSUME ws[h].free # NULL
                   PROVE  q[ws[h].free] = "alloc" /\ \A w \in WS : q[w] = "alloc" => r[w] <= r[ws[h].free]
        OBVIOUS
      <4>1. ws[h].free \in WS /\ p[ws[h].free] = "alloc" /\ r[ws[h].free] = r[h] - 1 /\ r[h] \in Int
        BY <1>1, <1>4, <2>2
      <4>2. ws[h].free # h
        BY <1>4, <4>1
      <4> QED
        BY <1>1, <1>9, <2>3, <4>1, <4>2
    <3>3. ASSUME NEW w \in WS, q[w] = "alloc"
          PROVE  IF ws[w].free = NULL THEN \A v \in WS : q[v] = "alloc" => r[v] >= r[w]
                 ELSE q[ws[w].free] = "alloc" /\ r[ws[w].free] = r[w] - 1
      <4>1. p[w] = "alloc" /\ w # h /\ r[w] < r[h] /\ r[w] \in Int /\ r[h] \in Int
        BY <1>1, <1>4, <2>3, <3>3
      <4>2. CASE ws[w].free = NULL
        BY <2>2, <2>3, <4>1, <4>2
      <4>3. CASE ws[w].free # NULL
        <5>1. ws[w].free \in WS /\ p[ws[w].free] = "alloc" /\ r[ws[w].free] = r[w] - 1
          BY <1>1, <2>2, <4>1, <4>3 DEF WsType
        <5>2. ws[w].free # h
          BY <4>1, <5>1
        <5> QED
          BY <1>9, <4>3, <5>1, <5>2
      <4> QED
        BY <4>2, <4>3
    <3> QED
      BY <3>1, <3>2, <3>3 DEF IsList
  <2>5. IsList("free", team.free, q, r)'
    <3>1. \A w \in WS : q[w] = "free" <=> p[w] = "free"
      BY <1>4, <1>9
    <3>2. team.free \in WS \cup {NULL} /\ \A w \in WS : ws[w].free \in WS \cup {NULL}
      BY <1>1 DEF TeamType, WsType
    <3>3. IsList("free", team.free, p, r)
      BY <1>3 DEF Lists
    <3> QED
      BY <1>8, <3>1, <3>2, <3>3 DEF IsList
  <2>6. Distinct(q, r)'
    BY <1>3, <1>4, <1>9 DEF Distinct
  <2>7. Raw(q)'
    BY <1>3, <1>4, <1>8, <1>9 DEF Raw
  <2>8. Uses(q)'
    BY <1>3, <1>4, <1>8, <1>9 DEF Uses
  <2>9. Chained(q, r, hi)'
    <3>1. \A w \in WS : q[w] = "live" <=> p[w] = "live"
      BY <1>4, <1>9
    <3>2. team.to_free \in WS
      BY <1>1 DEF TeamType
    <3> QED
      BY <1>3, <1>8, <3>1, <3>2 DEF Chained
  <2>10. IsList("alloc", team.alloc, q, r)' /\ IsList("free", team.free, q, r)'
    BY <1>8, <2>4, <2>5 DEF IsList
  <2> QED
    BY <2>6, <2>7, <2>8, <2>9, <2>10 DEF Memory, Lists
<1>11. AtWs(t, q, r)'
  <2>1. thr[t].ws \in WS /\ p[thr[t].ws] = "live" /\ r[thr[t].ws] = thr[t].k
    BY <1>1 DEF AtWs, ThrType
  <2> QED
    BY <1>4, <1>7, <1>9, <2>1 DEF AtWs
<1>12. Opens(t, q, r, hi)'
  <2>1. q[thr[t].last] = p[thr[t].last]
    BY <1>1, <1>2, <1>4, <1>9 DEF Opens
  <2> QED
    BY <1>1, <1>2, <1>4, <1>7, <1>9, <2>1 DEF Opens
<1>13. SameLive(p, r, q, r) /\ SameCompleted(p) /\ Level /\ thr'[t].pc \in Opening
  BY <1>4, <1>7, <1>8, <1>9 DEF SameLive, SameCompleted, Level, Opening
<1>14. \A w \in WS : q[w] # "fill"
  BY <1>3, <1>9
<1>15. \A w \in WS : (p[w] = "push" => q[w] = "push") /\ (q[w] = "live" => p[w] = "live")
  BY <1>4, <1>9
<1>16. IInv(q, r, hi, D)'
  BY <1>1, <1>3, <1>7, <1>8, <1>9, <1>10, <1>11, <1>12, <1>13, <1>14, <1>15, OpenerStep
<1> QED
  BY <1>16
-----------------------------------------------------------------------------
(* gomp_init_work_share                                                    *)
LEMMA InitWsStep ==
  ASSUME NEW p, NEW r, NEW hi, NEW D, NEW t \in Thread, IInv(p, r, hi, D), InitWs(t)
  PROVE  \E q, s : IInv(q, s, hi, D)'
<1>1. /\ thr[t] \in ThrType /\ thr \in [Thread -> ThrType] /\ team \in TeamType
      /\ ws \in [WS -> WsType] /\ p \in [WS -> Places] /\ r \in [WS -> Int]
      /\ Opens(t, p, r, hi)
  BY ThreadFacts
<1>2. /\ thr[t].pc = "init" /\ UNCHANGED <<team, kinds>>
      /\ ws' = [ws EXCEPT ![thr[t].loc].next = Unset, ![thr[t].loc].completed = 0,
                          ![thr[t].loc].uses = @ + 1]
      /\ Set(t, [thr[t] EXCEPT !.pc = "fill", !.ws = thr[t].loc, !.loc = NULL])
  BY DEF InitWs
<1>3. thr[t].pc \in Opening
  BY <1>2 DEF Opening
<1>4. /\ \A u \in Thread \ {t} : thr[u].pc \notin Opening
      /\ \A w \in WS : p[w] = "live" => ws[w].next # Unset
      /\ \A w \in WS : p[w] = "fill" => thr[t].pc = "fill" /\ thr[t].ws = w
      /\ thr[t].pc \in Between /\ ~team.over
      /\ Lists(p, r) /\ Distinct(p, r) /\ Raw(p) /\ Uses(p) /\ Chained(p, r, hi)
  BY <1>3, OpenerFacts
<1> PICK h : h = thr[t].loc
  OBVIOUS
<1>5. h \in WS /\ p[h] = "new"
  BY <1>1, <1>2 DEF Opens
<1> DEFINE T == [thr[t] EXCEPT !.pc = "fill", !.ws = thr[t].loc, !.loc = NULL]
<1>6. /\ T \in ThrType /\ T.pc = "fill" /\ T.k = thr[t].k /\ T.ws = h /\ T.last = thr[t].last
      /\ T.first = thr[t].first
  BY <1>1, <1>5 DEF ThrType, Labels, Between, Opening
<1>7. Set(t, T)
  BY <1>2
<1> HIDE DEF T
<1>8. /\ thr' \in [Thread -> ThrType] /\ Others(t)
      /\ thr'[t].pc = "fill" /\ thr'[t].ws = h /\ thr'[t].k = thr[t].k
      /\ thr'[t].last = thr[t].last /\ thr'[t].first = thr[t].first
  BY <1>1, <1>6, <1>7, SetThread DEF Others, Opening
<1>9. ws[h].uses = 0
  BY <1>4, <1>5 DEF Uses
<1>10. /\ \A w \in WS \ {h} : ws'[w] = ws[w]
       /\ ws'[h].next = Unset /\ ws'[h].completed = 0 /\ ws'[h].uses = 1
       /\ ws'[h].free = ws[h].free /\ ws'[h].copyprivate = ws[h].copyprivate
       /\ ws' \in [WS -> WsType]
  <2>1. ws' = [ws EXCEPT ![h].next = Unset, ![h].completed = 0, ![h].uses = @ + 1]
    BY <1>2
  <2>2. /\ \A w \in WS \ {h} : ws'[w] = ws[w]
        /\ ws'[h].next = Unset /\ ws'[h].completed = 0
        /\ ws'[h].free = ws[h].free /\ ws'[h].copyprivate = ws[h].copyprivate
    BY <1>1, <1>5, <2>1 DEF WsType
  <2>3. ws'[h].uses = ws[h].uses + 1
    BY <1>1, <1>5, <2>1 DEF WsType
  <2>4. ws' \in [WS -> WsType]
    <3>1. PICK n : n = ws[h].uses + 1
      OBVIOUS
    <3>2. n \in Int
      BY <1>9, <3>1
    <3>3. ws' = [ws EXCEPT ![h].next = Unset, ![h].completed = 0, ![h].uses = n]
      BY <1>1, <1>5, <2>1, <3>1 DEF WsType
    <3> QED
      BY <1>1, <1>5, <3>2, <3>3 DEF WsType
  <2> QED
    BY <1>9, <2>2, <2>3, <2>4
<1> PICK q : q = [p EXCEPT ![h] = "fill"]
  OBVIOUS
<1>11. q \in [WS -> Places] /\ q[h] = "fill" /\ (\A w \in WS : w # h => q[w] = p[w])
  BY <1>1, <1>5 DEF Places
<1>12. Memory(q, r, hi)'
  <2>1. \A w \in WS : /\ q[w] = "live" <=> p[w] = "live"
                      /\ q[w] = "alloc" <=> p[w] = "alloc"
                      /\ q[w] = "free" <=> p[w] = "free"
                      /\ q[w] = "none" <=> p[w] = "none"
    BY <1>5, <1>11
  <2>2. \A w \in WS : ws'[w].free = ws[w].free /\ ws[w].free \in WS \cup {NULL}
    BY <1>1, <1>10 DEF WsType
  <2>3. Lists(q, r)'
    <3>1. team' = team /\ team.alloc \in WS \cup {NULL} /\ team.free \in WS \cup {NULL}
      BY <1>1, <1>2 DEF TeamType
    <3> QED
      BY <1>4, <2>1, <2>2, <3>1 DEF Lists, IsList
  <2>4. Distinct(q, r)'
    BY <1>4, <1>5, <1>11 DEF Distinct
  <2>5. Raw(q)'
    BY <1>2, <1>4, <2>1, <2>2 DEF Raw
  <2>6. Uses(q)'
    BY <1>2, <1>4, <1>5, <1>10, <1>11 DEF Uses
  <2>7. Chained(q, r, hi)'
    <3>1. team' = team /\ team.to_free \in WS
      BY <1>1, <1>2 DEF TeamType
    <3>2. \A w \in WS : p[w] = "live" => ws'[w].next = ws[w].next
      BY <1>5, <1>10
    <3> QED
      BY <1>4, <2>1, <3>1, <3>2 DEF Chained
  <2> QED
    BY <2>3, <2>4, <2>5, <2>6, <2>7 DEF Memory
<1>13. AtWs(t, q, r)'
  BY <1>8, <1>10, <1>11 DEF AtWs
<1>14. Opens(t, q, r, hi)'
  <2>1. thr[t].last \in WS /\ thr[t].last # h
    BY <1>1, <1>3, <1>5 DEF Opens
  <2>2. q[thr[t].last] = p[thr[t].last] /\ ws'[thr[t].last] = ws[thr[t].last]
    BY <1>10, <1>11, <2>1
  <2> QED
    BY <1>1, <1>3, <1>8, <2>1, <2>2 DEF Opens
<1>15. SameLive(p, r, q, r) /\ SameCompleted(p) /\ Level /\ thr'[t].pc \in Opening
  BY <1>2, <1>5, <1>8, <1>10, <1>11 DEF SameLive, SameCompleted, Level, Opening
<1>16. \A w \in WS : q[w] = "fill" => thr'[t].pc = "fill" /\ thr'[t].ws = w
  BY <1>2, <1>4, <1>8, <1>11
<1>17. \A w \in WS : /\ p[w] = "push" => q[w] = "push" /\ ws'[w].free = ws[w].free
                     /\ q[w] = "live" => ws'[w].next # Unset
                     /\ p[w] = "live" => ws'[w].copyprivate = ws[w].copyprivate
  BY <1>4, <1>5, <1>10, <1>11
<1>18. /\ team' \in TeamType /\ team'.cancellable = team.cancellable /\ team'.over = team.over
       /\ kinds' = kinds /\ r \in [WS -> Int] /\ ws' \in [WS -> WsType] /\ q \in [WS -> Places]
       /\ thr[t].pc \in Between /\ (\A u \in Thread \ {t} : thr[u].pc \notin Opening)
  BY <1>1, <1>2, <1>4, <1>10, <1>11
<1>19. IInv(q, r, hi, D)'
  BY <1>8, <1>12, <1>13, <1>14, <1>15, <1>16, <1>17, <1>18, OpenerStep
<1> QED
  BY <1>19

(* The head of work_share_list_free, or what it was a while ago, stays;    *)
(* the one after it is taken and the rest becomes the list of allocation.  *)
LEMMA CutTakes ==
  ASSUME NEW p, NEW r, NEW hi, NEW D, NEW t \in Thread, IInv(p, r, hi, D),
         thr[t].pc = "cut", thr[t].loc # NULL, ws[thr[t].loc].free # NULL,
         ws' = [ws EXCEPT ![thr[t].loc].free = NULL],
         team' = [team EXCEPT !.alloc = ws[ws[thr[t].loc].free].free],
         Set(t, [thr[t] EXCEPT !.pc = "init", !.loc = ws[thr[t].loc].free]), UNCHANGED kinds
  PROVE  \E q, s : IInv(q, s, hi, D)'
<1>1. /\ thr[t] \in ThrType /\ thr \in [Thread -> ThrType] /\ team \in TeamType
      /\ ws \in [WS -> WsType] /\ p \in [WS -> Places] /\ r \in [WS -> Int]
      /\ AtWs(t, p, r) /\ Opens(t, p, r, hi)
  BY ThreadFacts
<1>2. thr[t].pc \in Opening
  BY DEF Opening
<1>3. /\ \A u \in Thread \ {t} : thr[u].pc \notin Opening
      /\ \A w \in WS : p[w] = "live" => ws[w].next # Unset
      /\ \A w \in WS : p[w] = "fill" => thr[t].pc = "fill" /\ thr[t].ws = w
      /\ thr[t].pc \in Between /\ ~team.over
      /\ Lists(p, r) /\ Distinct(p, r) /\ Raw(p) /\ Uses(p) /\ Chained(p, r, hi)
  BY <1>2, OpenerFacts
<1> PICK l : l = thr[t].loc
  OBVIOUS
<1> PICK h : h = ws[l].free
  OBVIOUS
<1>4. /\ l \in WS /\ p[l] = "free" /\ h \in WS /\ p[h] = "free" /\ r[h] = r[l] - 1 /\ h # l
      /\ ws[h].free \in WS \cup {NULL} /\ r[h] \in Int /\ r[l] \in Int /\ team.alloc = NULL
  <2>1. l \in WS /\ p[l] = "free" /\ team.alloc = NULL
    BY <1>1 DEF Opens, ThrType
  <2>2. ws[l].free \in WS /\ p[ws[l].free] = "free" /\ r[ws[l].free] = r[l] - 1
    BY <1>1, <1>3, <2>1 DEF Lists, IsList, WsType
  <2>3. r[l] \in Int /\ h \in WS /\ p[h] = "free" /\ r[h] = r[l] - 1
    BY <1>1, <2>1, <2>2
  <2> QED
    BY <1>1, <2>1, <2>3 DEF WsType
<1> DEFINE T == [thr[t] EXCEPT !.pc = "init", !.loc = ws[thr[t].loc].free]
<1>5. /\ T \in ThrType /\ T.pc = "init" /\ T.k = thr[t].k /\ T.ws = thr[t].ws /\ T.last = thr[t].last
      /\ T.first = thr[t].first /\ T.loc = h
  BY <1>1, <1>4 DEF ThrType, Labels, Between, Opening
<1>6. Set(t, T)
  OBVIOUS
<1> HIDE DEF T
<1>7. /\ thr' \in [Thread -> ThrType] /\ Others(t)
      /\ thr'[t].pc = "init" /\ thr'[t].ws = thr[t].ws /\ thr'[t].k = thr[t].k
      /\ thr'[t].last = thr[t].last /\ thr'[t].first = thr[t].first /\ thr'[t].loc = h
  BY <1>1, <1>5, <1>6, SetThread DEF Others, Opening
<1>8. /\ team' \in TeamType /\ team'.alloc = ws[h].free /\ team'.free = team.free
      /\ team'.chunk = team.chunk /\ team'.used = team.used /\ team'.to_free = team.to_free
      /\ team'.arrived = team.arrived /\ team'.gen = team.gen /\ team'.cancelled = team.cancelled
      /\ team'.over = team.over /\ team'.cancellable = team.cancellable
  BY <1>1, <1>4 DEF TeamType
<1>9. /\ ws' \in [WS -> WsType] /\ ws'[l].free = NULL
      /\ \A w \in WS : /\ ws'[w].next = ws[w].next /\ ws'[w].uses = ws[w].uses
                       /\ ws'[w].completed = ws[w].completed
                       /\ ws'[w].copyprivate = ws[w].copyprivate
                       /\ w # l => ws'[w].free = ws[w].free
  BY <1>1, <1>4 DEF WsType
<1> PICK q : q = [w \in WS |-> IF w = h THEN "new" ELSE
                               IF p[w] = "free" /\ r[w] < r[h] THEN "alloc" ELSE p[w]]
  OBVIOUS
<1>10. /\ q \in [WS -> Places] /\ q[h] = "new"
       /\ \A w \in WS : w # h /\ p[w] = "free" /\ r[w] < r[h] => q[w] = "alloc"
       /\ \A w \in WS : w # h /\ ~(p[w] = "free" /\ r[w] < r[h]) => q[w] = p[w]
  BY <1>1, <1>4 DEF Places
<1>11. /\ \A w \in WS : p[w] # "alloc"
       /\ team.free # NULL /\ p[team.free] = "free" /\ \A w \in WS : p[w] = "free" => r[w] <= r[team.free]
       /\ \A w \in WS : p[w] = "free" =>
            IF ws[w].free = NULL THEN \A v \in WS : p[v] = "free" => r[v] >= r[w]
            ELSE p[ws[w].free] = "free" /\ r[ws[w].free] = r[w] - 1
       /\ \A v, w \in WS : p[v] = "free" /\ p[w] = "free" /\ r[v] = r[w] => v = w
  <2>1. IsList("alloc", team.alloc, p, r) /\ IsList("free", team.free, p, r)
    BY <1>3 DEF Lists
  <2>2. \A w \in WS : p[w] # "alloc"
    BY <1>4, <2>1 DEF IsList
  <2>3. team.free # NULL
    BY <1>4, <2>1 DEF IsList
  <2> QED
    BY <1>3, <2>1, <2>2, <2>3 DEF IsList, Distinct
<1>12. \A w \in WS : q[w] = "alloc" <=> p[w] = "free" /\ r[w] < r[h]
  BY <1>4, <1>10, <1>11
<1>13. \A w \in WS : q[w] = "free" <=> p[w] = "free" /\ r[w] >= r[l]
  <2> SUFFICES ASSUME NEW w \in WS
               PROVE  q[w] = "free" <=> p[w] = "free" /\ r[w] >= r[l]
    OBVIOUS
  <2>1. p[w] = "free" /\ r[w] = r[h] => w = h
    BY <1>4, <1>11
  <2>2. r[w] \in Int
    BY <1>1
  <2> QED
    BY <1>4, <1>10, <2>1, <2>2
<1>14. IsList("alloc", team.alloc, q, r)'
  <2>1. ws[h].free = NULL => \A w \in WS : q[w] # "alloc"
    BY <1>1, <1>4, <1>11, <1>12
  <2>2. ws[h].free # NULL => q[ws[h].free] = "alloc" /\ \A w \in WS : q[w] = "alloc" => r[w] <= r[ws[h].free]
    <3> SUFFICES ASSUME ws[h].free # NULL
                 PROVE  q[ws[h].free] = "alloc" /\ \A w \in WS : q[w] = "alloc" => r[w] <= r[ws[h].free]
      OBVIOUS
    <3> PICK m : m = ws[h].free
      OBVIOUS
    <3>1. m \in WS /\ p[m] = "free" /\ r[m] = r[h] - 1
      BY <1>4, <1>11
    <3>2. r[m] < r[h] /\ \A w \in WS : r[w] < r[h] => r[w] <= r[m]
      <4>1. \A w \in WS : r[w] \in Int
        BY <1>1
      <4> QED
        BY <1>4, <3>1, <4>1
    <3>3. q[m] = "alloc" /\ \A w \in WS : q[w] = "alloc" => r[w] <= r[m]
      BY <1>12, <3>1, <3>2
    <3> QED
      BY <3>3
  <2>3. ASSUME NEW w \in WS, q[w] = "alloc"
        PROVE  IF ws'[w].free = NULL THEN \A v \in WS : q[v] = "alloc" => r[v] >= r[w]
               ELSE q[ws'[w].free] = "alloc" /\ r[ws'[w].free] = r[w] - 1
    <3>1. p[w] = "free" /\ r[w] < r[h] /\ r[w] \in Int
      BY <1>1, <1>12, <2>3
    <3>2. w # l /\ ws'[w].free = ws[w].free /\ ws[w].free \in WS \cup {NULL}
      BY <1>1, <1>4, <1>9, <3>1 DEF WsType
    <3>3. CASE ws[w].free = NULL
      BY <1>11, <1>12, <3>1, <3>2, <3>3
    <3>4. CASE ws[w].free # NULL
      <4>1. ws[w].free \in WS /\ p[ws[w].free] = "free" /\ r[ws[w].free] = r[w] - 1
        BY <1>11, <3>1, <3>2, <3>4
      <4> QED
        BY <1>4, <1>12, <3>1, <3>2, <3>4, <4>1
    <3> QED
      BY <3>3, <3>4
  <2> QED
    BY <1>8, <2>1, <2>2, <2>3 DEF IsList
<1>15. IsList("free", team.free, q, r)'
  <2>1. team.free \in WS
    BY <1>1, <1>11 DEF TeamType
  <2>2. q[team.free] = "free" /\ \A w \in WS : q[w] = "free" => r[w] <= r[team.free]
    BY <1>4, <1>11, <1>13, <2>1
  <2>3. ASSUME NEW w \in WS, q[w] = "free"
        PROVE  IF ws'[w].free = NULL THEN \A v \in WS : q[v] = "free" => r[v] >= r[w]
               ELSE q[ws'[w].free] = "free" /\ r[ws'[w].free] = r[w] - 1
    <3>1. p[w] = "free" /\ r[w] >= r[l] /\ r[w] \in Int
      BY <1>1, <1>13, <2>3
    <3>2. CASE w = l
      BY <1>9, <1>13, <3>2
    <3>3. CASE w # l
      <4>1. ws'[w].free = ws[w].free /\ ws[w].free \in WS \cup {NULL} /\ r[w] > r[l]
        BY <1>1, <1>4, <1>9, <1>11, <3>1, <3>3 DEF WsType
      <4>2. ws[w].free # NULL
        BY <1>4, <1>11, <3>1, <4>1
      <4>3. ws[w].free \in WS /\ p[ws[w].free] = "free" /\ r[ws[w].free] = r[w] - 1
        BY <1>11, <3>1, <4>1, <4>2
      <4> QED
        BY <1>4, <1>13, <3>1, <4>1, <4>2, <4>3
    <3> QED
      BY <3>2, <3>3
  <2> QED
    BY <1>8, <1>11, <2>2, <2>3 DEF IsList
<1>16. \A w \in WS : /\ q[w] = "live" <=> p[w] = "live"
                     /\ q[w] = "fill" <=> p[w] = "fill"
                     /\ q[w] = "push" <=> p[w] = "push"
                     /\ q[w] = "none" <=> p[w] = "none"
  BY <1>4, <1>10
<1>17. Memory(q, r, hi)'
  <2>1. Distinct(q, r)'
    <3>1. \A v, w \in WS : p[v] = "live" /\ p[w] = "live" /\ r[v] = r[w] => v = w
      BY <1>3 DEF Distinct
    <3>2. \A v, w \in WS : p[v] = "free" /\ p[w] = "free" /\ r[v] = r[w] => v = w
      BY <1>11
    <3>3. ASSUME NEW v \in WS, NEW w \in WS, q[v] = q[w], r[v] = r[w],
                 q[v] \in {"alloc", "free", "live"}
          PROVE  v = w
      <4>1. CASE q[v] = "live"
        BY <1>16, <3>1, <3>3, <4>1
      <4>2. CASE q[v] \in {"alloc", "free"}
        <5>1. p[v] = "free" /\ p[w] = "free"
          BY <1>12, <1>13, <3>3, <4>2
        <5> QED
          BY <3>2, <3>3, <5>1
      <4> QED
        BY <3>3, <4>1, <4>2
    <3> QED
      BY <3>3 DEF Distinct
  <2>2. Raw(q)'
    BY <1>3, <1>4, <1>8, <1>9, <1>16 DEF Raw
  <2>3. Uses(q)'
    <3>1. Uses(p) /\ team'.over = team.over
      BY <1>3, <1>8
    <3>2. \A w \in WS : ws'[w].uses = ws[w].uses /\ (q[w] \in {"live", "fill"} <=> p[w] \in {"live", "fill"})
      BY <1>9, <1>16
    <3> QED
      BY <3>1, <3>2 DEF Uses
  <2>4. Chained(q, r, hi)'
    <3>1. team.to_free \in WS
      BY <1>1 DEF TeamType
    <3>2. Chained(p, r, hi) /\ team'.to_free = team.to_free
      BY <1>3, <1>8
    <3>3. \A w \in WS : ws'[w].next = ws[w].next /\ (q[w] = "live" <=> p[w] = "live")
      BY <1>9, <1>16
    <3> QED
      BY <1>1, <3>1, <3>2, <3>3, ChainedFrame DEF SameLive
  <2> QED
    BY <1>14, <1>15, <2>1, <2>2, <2>3, <2>4 DEF Memory, Lists
<1>18. AtWs(t, q, r)'
  <2>1. thr[t].ws \in WS /\ p[thr[t].ws] = "live" /\ r[thr[t].ws] = thr[t].k
    BY <1>1 DEF AtWs, ThrType
  <2> QED
    BY <1>7, <1>16, <2>1 DEF AtWs
<1>19. Opens(t, q, r, hi)'
  <2>1. thr[t].last \in WS /\ q[thr[t].last] = "live" /\ ws'[thr[t].last].next = ws[thr[t].last].next
    BY <1>1, <1>2, <1>9, <1>16 DEF Opens
  <2> QED
    BY <1>1, <1>2, <1>4, <1>7, <1>10, <2>1 DEF Opens
<1>20. SameLive(p, r, q, r) /\ SameCompleted(p) /\ Level /\ thr'[t].pc \in Opening
  BY <1>7, <1>8, <1>9, <1>16 DEF SameLive, SameCompleted, Level, Opening
<1>21. \A w \in WS : q[w] # "fill"
  BY <1>3, <1>16
<1>22. \A w \in WS : /\ p[w] = "push" => q[w] = "push" /\ ws'[w].free = ws[w].free
                     /\ q[w] = "live" => ws'[w].next # Unset
  BY <1>3, <1>4, <1>9, <1>16
<1>23. /\ team' \in TeamType /\ team'.cancellable = team.cancellable /\ team'.over = team.over
       /\ kinds' = kinds /\ r \in [WS -> Int] /\ ws' \in [WS -> WsType] /\ q \in [WS -> Places]
       /\ thr[t].pc \in Between /\ (\A u \in Thread \ {t} : thr[u].pc \notin Opening)
       /\ \A w \in WS : p[w] = "live" => ws'[w].copyprivate = ws[w].copyprivate
  BY <1>1, <1>3, <1>8, <1>9, <1>10
<1>24. IInv(q, r, hi, D)'
  BY <1>7, <1>17, <1>18, <1>19, <1>20, <1>21, <1>22, <1>23, OpenerStep
<1> QED
  BY <1>24
(* Nothing to recycle: u is taken, u + 1 to u + c - 1 become the list of   *)
(* allocation.                                                             *)
LEMMA CutGrows ==
  ASSUME NEW p, NEW r, NEW hi, NEW D, NEW t \in Thread, IInv(p, r, hi, D),
         thr[t].pc = "cut", Grow(t), UNCHANGED kinds
  PROVE  \E q, s : IInv(q, s, hi, D)'
<1>1. /\ thr[t] \in ThrType /\ thr \in [Thread -> ThrType] /\ team \in TeamType
      /\ ws \in [WS -> WsType] /\ p \in [WS -> Places] /\ r \in [WS -> Int]
      /\ AtWs(t, p, r) /\ Opens(t, p, r, hi)
  BY ThreadFacts
<1>2. thr[t].pc \in Opening
  BY DEF Opening
<1>3. /\ \A v \in Thread \ {t} : thr[v].pc \notin Opening
      /\ \A w \in WS : p[w] = "live" => ws[w].next # Unset
      /\ \A w \in WS : p[w] = "fill" => thr[t].pc = "fill" /\ thr[t].ws = w
      /\ thr[t].pc \in Between /\ ~team.over
      /\ Lists(p, r) /\ Distinct(p, r) /\ Raw(p) /\ Uses(p) /\ Chained(p, r, hi)
  BY <1>2, OpenerFacts
<1> PICK u : u = team.used
  OBVIOUS
<1> PICK c : c = 2 * team.chunk
  OBVIOUS
<1>4. /\ u \in Nat /\ c \in Nat /\ c >= 2 /\ u + c <= MaxWs /\ team.alloc = NULL
  <2>1. team.used \in Nat /\ team.chunk \in Nat /\ team.chunk >= 1
    BY <1>1, <1>3 DEF TeamType, Raw
  <2>2. u + c <= MaxWs
    BY DEF Grow
  <2>3. team.alloc = NULL
    BY <1>1 DEF Opens
  <2> QED
    BY <2>1, <2>2, <2>3
<1> PICK e : e = u + c
  OBVIOUS
<1> PICK a : a = u + 1
  OBVIOUS
<1>5. /\ e \in Nat /\ a \in Nat /\ u < a /\ a < e /\ e <= MaxWs /\ u \in WS /\ a \in WS
      /\ \A w \in WS : w \in Int
      /\ \A w \in WS : w >= a /\ w < e => w > u
      /\ \A w \in WS : w >= a /\ w + 1 < e => w + 1 \in WS /\ w + 1 >= a
  BY <1>4, WorkShareAssumption DEF WS
<1>6. /\ ws' = [w \in WS |-> IF w \in u + 1 .. u + c - 2
                             THEN [ws[w] EXCEPT !.free = w + 1] ELSE ws[w]]
      /\ team' = [team EXCEPT !.chunk = c, !.used = e, !.alloc = a]
      /\ Set(t, [thr[t] EXCEPT !.pc = "init", !.loc = u])
  BY DEF Grow
<1> DEFINE T == [thr[t] EXCEPT !.pc = "init", !.loc = u]
<1>7. /\ T \in ThrType /\ T.pc = "init" /\ T.k = thr[t].k /\ T.ws = thr[t].ws /\ T.last = thr[t].last
      /\ T.first = thr[t].first /\ T.loc = u
  BY <1>1, <1>5 DEF ThrType, Labels, Between, Opening
<1>8. Set(t, T)
  BY <1>6
<1> HIDE DEF T
<1>9. /\ thr' \in [Thread -> ThrType] /\ Others(t)
      /\ thr'[t].pc = "init" /\ thr'[t].ws = thr[t].ws /\ thr'[t].k = thr[t].k
      /\ thr'[t].last = thr[t].last /\ thr'[t].first = thr[t].first /\ thr'[t].loc = u
  BY <1>1, <1>7, <1>8, SetThread DEF Others, Opening
<1>10. /\ team' \in TeamType /\ team'.alloc = a /\ team'.free = team.free
       /\ team'.chunk = c /\ team'.used = e /\ team'.to_free = team.to_free
       /\ team'.arrived = team.arrived /\ team'.gen = team.gen /\ team'.cancelled = team.cancelled
       /\ team'.over = team.over /\ team'.cancellable = team.cancellable
  BY <1>1, <1>4, <1>5, <1>6 DEF TeamType
<1>11. ASSUME NEW w \in WS
       PROVE  /\ ws'[w] \in WsType
              /\ ws'[w].next = ws[w].next /\ ws'[w].uses = ws[w].uses
              /\ ws'[w].completed = ws[w].completed
              /\ ws'[w].copyprivate = ws[w].copyprivate
              /\ w >= a /\ w + 1 < e => ws'[w].free = w + 1
              /\ ~(w >= a /\ w + 1 < e) => ws'[w].free = ws[w].free
  <2>1. ws[w] \in WsType
    BY <1>1
  <2>2. CASE w >= a /\ w + 1 < e
    <3>1. w \in u + 1 .. u + c - 2 /\ w + 1 \in WS
      BY <1>4, <1>5, <2>2
    <3>2. PICK n : n = w + 1
      OBVIOUS
    <3>3. ws'[w] = [ws[w] EXCEPT !.free = n]
      BY <1>6, <3>1, <3>2
    <3> QED
      BY <2>1, <2>2, <3>1, <3>2, <3>3 DEF WsType
  <2>3. CASE ~(w >= a /\ w + 1 < e)
    <3>1. w \notin u + 1 .. u + c - 2
      BY <1>4, <1>5, <2>3
    <3>2. ws'[w] = ws[w]
      BY <1>6, <3>1
    <3> QED
      BY <2>1, <2>3, <3>2
  <2> QED
    BY <2>2, <2>3
<1>12. ws' \in [WS -> WsType]
  <2>1. ws' = [w \in WS |-> ws'[w]]
    BY <1>6
  <2> QED
    BY <1>11, <2>1
<1> PICK q : q = [w \in WS |-> IF w = u THEN "new" ELSE IF w >= a /\ w < e THEN "alloc" ELSE p[w]]
  OBVIOUS
<1> PICK s : s = [w \in WS |-> IF w >= a /\ w < e THEN 0 - w ELSE r[w]]
  OBVIOUS
<1>13. /\ \A w \in WS : w >= u => p[w] = "none" /\ ws[w].free = NULL
       /\ \A w \in WS : p[w] # "alloc"
  BY <1>3, <1>4 DEF Raw, Lists, IsList
<1>14. /\ q \in [WS -> Places] /\ s \in [WS -> Int] /\ q[u] = "new"
       /\ \A w \in WS : w >= a /\ w < e => q[w] = "alloc" /\ s[w] = 0 - w
       /\ \A w \in WS : ~(w >= u /\ w < e) => q[w] = p[w] /\ s[w] = r[w]
  <2>1. \A w \in WS : q[w] \in Places /\ s[w] \in Int
    BY <1>1, <1>5 DEF Places
  <2>2. q \in [WS -> Places] /\ s \in [WS -> Int]
    BY <2>1
  <2>3. \A w \in WS : w >= a /\ w < e => q[w] = "alloc" /\ s[w] = 0 - w
    BY <1>5
  <2>4. ASSUME NEW w \in WS, ~(w >= u /\ w < e)
        PROVE  q[w] = p[w] /\ s[w] = r[w]
    <3>1. w # u /\ ~(w >= a /\ w < e)
      BY <1>4, <1>5, <2>4
    <3> QED
      BY <3>1
  <2> QED
    BY <1>5, <2>2, <2>3, <2>4
<1>15. /\ \A w \in WS : q[w] = "alloc" <=> w >= a /\ w < e
       /\ \A w \in WS : q[w] \in {"live", "fill", "push", "free"} \/ p[w] \in {"live", "fill", "push", "free"}
            => q[w] = p[w] /\ s[w] = r[w] /\ ws'[w].free = ws[w].free
  <2>1. \A w \in WS : w >= a => w >= u
    BY <1>4, <1>5
  <2>2. \A w \in WS : w >= u /\ w < e /\ w # u => w >= a
    BY <1>4, <1>5
  <2>3. \A w \in WS : w >= u /\ w < e => q[w] \in {"new", "alloc"} /\ p[w] = "none"
    BY <1>13, <1>14, <2>2
  <2>4. \A w \in WS : q[w] = "alloc" <=> w >= a /\ w < e
    BY <1>5, <1>13, <1>14, <2>1, <2>3
  <2>5. \A w \in WS : w >= a /\ w + 1 < e => w >= u /\ w < e
    BY <1>5, <2>1
  <2>6. \A w \in WS : ~(w >= u /\ w < e) => ws'[w].free = ws[w].free
    BY <1>11, <2>5
  <2> QED
    BY <1>14, <2>3, <2>4, <2>6
<1>16. IsList("alloc", team.alloc, q, s)'
  <2>1. q[a] = "alloc" /\ \A w \in WS : q[w] = "alloc" => s[w] <= s[a]
    <3>1. q[a] = "alloc" /\ s[a] = 0 - a
      BY <1>5, <1>14
    <3> QED
      BY <1>5, <1>14, <1>15, <3>1
  <2>2. ASSUME NEW w \in WS, q[w] = "alloc"
        PROVE  IF ws'[w].free = NULL THEN \A v \in WS : q[v] = "alloc" => s[v] >= s[w]
               ELSE q[ws'[w].free] = "alloc" /\ s[ws'[w].free] = s[w] - 1
    <3>1. w >= a /\ w < e /\ w \in Int /\ s[w] = 0 - w
      BY <1>5, <1>14, <1>15, <2>2
    <3>2. CASE w + 1 < e
      <4>1. PICK n : n = w + 1
        OBVIOUS
      <4>2. n \in WS /\ n >= a /\ n < e /\ ws'[w].free = n /\ n # NULL
        BY <1>5, <1>11, <3>1, <3>2, <4>1, WorkShareAssumption
      <4>3. q[n] = "alloc" /\ s[n] = 0 - n
        BY <1>14, <4>2
      <4>4. 0 - n = (0 - w) - 1
        BY <3>1, <4>1
      <4> QED
        BY <3>1, <4>2, <4>3, <4>4
    <3>3. CASE ~(w + 1 < e)
      <4>1. \A v \in WS : v < e => v <= w
        BY <1>5, <3>1, <3>3
      <4>2. \A v \in WS : q[v] = "alloc" => s[v] = 0 - v /\ v <= w /\ v \in Int
        BY <1>5, <1>14, <1>15, <4>1
      <4>3. \A v \in WS : q[v] = "alloc" => s[v] >= s[w]
        BY <3>1, <4>2
      <4>4. ws'[w].free = NULL
        <5>1. w >= u
          BY <1>4, <1>5, <3>1
        <5> QED
          BY <1>11, <1>13, <3>3, <5>1
      <4> QED
        BY <4>3, <4>4
    <3> QED
      BY <3>2, <3>3
  <2>3. a # NULL
    BY <1>5, WorkShareAssumption
  <2> QED
    BY <1>10, <2>1, <2>2, <2>3 DEF IsList
<1>17. IsList("free", team.free, q, s)'
  <2>1. IsList("free", team.free, p, r) /\ team'.free = team.free /\ team.free \in WS \cup {NULL}
    BY <1>1, <1>3, <1>10 DEF Lists, TeamType
  <2>2. \A w \in WS : /\ q[w] = "free" <=> p[w] = "free"
                      /\ p[w] = "free" => s[w] = r[w] /\ ws'[w].free = ws[w].free
                      /\ ws[w].free \in WS \cup {NULL}
    BY <1>1, <1>15 DEF WsType
  <2>3. ASSUME team.free # NULL
        PROVE  q[team.free] = "free" /\ \A w \in WS : q[w] = "free" => s[w] <= s[team.free]
    BY <2>1, <2>2, <2>3 DEF IsList
  <2>4. ASSUME team.free = NULL
        PROVE  \A w \in WS : q[w] # "free"
    BY <2>1, <2>2, <2>4 DEF IsList
  <2>5. ASSUME NEW w \in WS, q[w] = "free"
        PROVE  IF ws'[w].free = NULL THEN \A v \in WS : q[v] = "free" => s[v] >= s[w]
               ELSE q[ws'[w].free] = "free" /\ s[ws'[w].free] = s[w] - 1
    BY <2>1, <2>2, <2>5 DEF IsList
  <2> QED
    BY <2>1, <2>3, <2>4, <2>5 DEF IsList
<1>18. SameLive(p, r, q, s) /\ SameCompleted(p) /\ Level /\ thr'[t].pc \in Opening
  <2>1. \A w \in WS : (q[w] = "live" <=> p[w] = "live") /\ (p[w] = "live" => s[w] = r[w])
    BY <1>15
  <2> QED
    BY <1>9, <1>10, <1>11, <2>1 DEF SameLive, SameCompleted, Level, Opening
<1>19. Memory(q, s, hi)'
  <2>1. Distinct(q, s)'
    <3>1. ASSUME NEW v \in WS, NEW w \in WS, q[v] = q[w], s[v] = s[w],
                 q[v] \in {"alloc", "free", "live"}
          PROVE  v = w
      <4>1. CASE q[v] = "alloc"
        <5>1. s[v] = 0 - v /\ s[w] = 0 - w /\ v \in Int /\ w \in Int
          BY <1>5, <1>14, <1>15, <3>1, <4>1
        <5> QED
          BY <3>1, <5>1
      <4>2. CASE q[v] \in {"free", "live"}
        <5>1. p[v] = p[w] /\ r[v] = r[w] /\ p[v] \in {"alloc", "free", "live"}
          BY <1>15, <3>1, <4>2
        <5> QED
          BY <1>3, <5>1 DEF Distinct
      <4> QED
        BY <3>1, <4>1, <4>2
    <3> QED
      BY <3>1 DEF Distinct
  <2>2. Raw(q)'
    <3>1. \A w \in WS : w >= e => w >= u /\ ~(w >= u /\ w < e) /\ ~(w >= a /\ w + 1 < e)
      BY <1>4, <1>5
    <3>2. \A w \in WS : w >= e => q[w] = "none" /\ ws'[w].free = NULL
      BY <1>11, <1>13, <1>14, <3>1
    <3> QED
      BY <1>4, <1>10, <3>2 DEF Raw
  <2>3. Uses(q)'
    <3>1. \A w \in WS : ws'[w].uses = ws[w].uses /\ (q[w] \in {"live", "fill"} <=> p[w] \in {"live", "fill"})
      BY <1>11, <1>15
    <3> QED
      BY <1>3, <1>10, <3>1 DEF Uses
  <2>4. Chained(q, s, hi)'
    <3>1. team.to_free \in WS /\ Chained(p, r, hi)
      BY <1>1, <1>3 DEF TeamType
    <3>2. \A w \in WS : p[w] = "live" => ws'[w].next = ws[w].next
      BY <1>11
    <3> QED
      BY <1>18, <3>1, <3>2, ChainedFrame
  <2> QED
    BY <1>16, <1>17, <2>1, <2>2, <2>3, <2>4 DEF Memory, Lists
<1>20. AtWs(t, q, s)'
  <2>1. thr[t].ws \in WS /\ p[thr[t].ws] = "live" /\ r[thr[t].ws] = thr[t].k
    BY <1>1 DEF AtWs, ThrType
  <2> QED
    BY <1>9, <1>15, <2>1 DEF AtWs
<1>21. Opens(t, q, s, hi)'
  <2>1. /\ thr[t].last \in WS /\ p[thr[t].last] = "live" /\ r[thr[t].last] = thr[t].k
        /\ thr[t].k < Constructs /\ thr[t].k = hi /\ ws[thr[t].last].next = Claimed /\ thr[t].first
    BY <1>1, <1>2 DEF Opens
  <2>2. q[thr[t].last] = "live" /\ s[thr[t].last] = thr[t].k /\ ws'[thr[t].last].next = Claimed
    BY <1>11, <1>15, <2>1
  <2> QED
    BY <1>5, <1>9, <1>14, <2>1, <2>2 DEF Opens
<1>22. \A w \in WS : q[w] # "fill"
  BY <1>3, <1>15
<1>23. \A w \in WS : /\ p[w] = "push" => q[w] = "push" /\ ws'[w].free = ws[w].free
                     /\ q[w] = "live" => ws'[w].next # Unset
                     /\ p[w] = "live" => ws'[w].copyprivate = ws[w].copyprivate
  BY <1>3, <1>11, <1>15
<1>24. /\ team' \in TeamType /\ team'.cancellable = team.cancellable /\ team'.over = team.over
       /\ kinds' = kinds /\ s \in [WS -> Int] /\ q \in [WS -> Places]
       /\ thr[t].pc \in Between /\ (\A v \in Thread \ {t} : thr[v].pc \notin Opening)
  BY <1>3, <1>10, <1>14
<1>25. IInv(q, s, hi, D)'
  BY <1>9, <1>12, <1>18, <1>19, <1>20, <1>21, <1>22, <1>23, <1>24, OpenerStep
<1> QED
  BY <1>25

(* alloc_work_share takes what follows the head of work_share_list_free,   *)
(* or allocates a new chunk.                                               *)
LEMMA CutStep ==
  ASSUME NEW p, NEW r, NEW hi, NEW D, NEW t \in Thread, IInv(p, r, hi, D), Cut(t)
  PROVE  \E q, s : IInv(q, s, hi, D)'
<1>1. thr[t].pc = "cut" /\ UNCHANGED kinds
  BY DEF Cut
<1>2. CASE thr[t].loc # NULL /\ ws[thr[t].loc].free # NULL
  <2>1. /\ ws' = [ws EXCEPT ![thr[t].loc].free = NULL]
        /\ team' = [team EXCEPT !.alloc = ws[ws[thr[t].loc].free].free]
        /\ Set(t, [thr[t] EXCEPT !.pc = "init", !.loc = ws[thr[t].loc].free])
    BY <1>2, Zenon DEF Cut
  <2> QED
    BY <1>1, <1>2, <2>1, CutTakes
<1>3. CASE ~(thr[t].loc # NULL /\ ws[thr[t].loc].free # NULL)
  <2>1. Grow(t)
    BY <1>3, Zenon DEF Cut
  <2> QED
    BY <1>1, <2>1, CutGrows
<1> QED
  BY <1>2, <1>3
-----------------------------------------------------------------------------
(* gomp_work_share_init_done: the construct has a number.                  *)
LEMMA InitDoneStep ==
  ASSUME NEW p, NEW r, NEW hi, NEW D, NEW t \in Thread, IInv(p, r, hi, D), InitDone(t)
  PROVE  \E q, s, g : IInv(q, s, g, D)'
<1>1. /\ thr[t] \in ThrType /\ thr \in [Thread -> ThrType] /\ team \in TeamType
      /\ ws \in [WS -> WsType] /\ kinds \in [0 .. Constructs -> Kinds]
      /\ p \in [WS -> Places] /\ r \in [WS -> Int] /\ hi \in Nat /\ D \in SUBSET Thread
      /\ AtWs(t, p, r) /\ Opens(t, p, r, hi) /\ Leaves(t, D, r)
  BY ThreadFacts
<1>2. /\ thr[t].pc = "fill" /\ UNCHANGED <<team, kinds>>
      /\ ws' = [ws EXCEPT ![thr[t].last].next = thr[t].ws]
      /\ Set(t, Entered(thr[t], thr[t].ws))
  BY DEF InitDone
<1>3. thr[t].pc \in Opening
  BY <1>2 DEF Opening
<1>4. /\ \A u \in Thread \ {t} : thr[u].pc \notin Opening
      /\ \A w \in WS : p[w] = "live" => ws[w].next # Unset
      /\ \A w \in WS : p[w] = "fill" => thr[t].pc = "fill" /\ thr[t].ws = w
      /\ thr[t].pc \in Between /\ ~team.over
      /\ Lists(p, r) /\ Distinct(p, r) /\ Raw(p) /\ Uses(p) /\ Chained(p, r, hi)
  BY <1>3, OpenerFacts
<1>5. /\ Region /\ Counted(p, r, D) /\ Behind(r, hi, D)
      /\ Single(p) /\ Together /\ Arrivals /\ Stored(p, r)
  BY DEF IInv
<1> PICK f : f = thr[t].ws
  OBVIOUS
<1> PICK l : l = thr[t].last
  OBVIOUS
<1> PICK g : g = hi + 1
  OBVIOUS
<1>6. /\ f \in WS /\ p[f] = "fill" /\ ws[f].next = Unset /\ ws[f].completed = 0
      /\ l \in WS /\ p[l] = "live" /\ r[l] = hi /\ thr[t].k = hi /\ hi < Constructs
      /\ thr[t].first
  BY <1>1, <1>2, <1>3 DEF AtWs, Opens, ThrType
<1>7. /\ g \in Nat /\ g \in 0 .. Constructs /\ g > hi /\ g # 0 /\ g - 1 = hi /\ hi \in 0 .. Constructs
      /\ g <= Constructs /\ g \in 1 .. Constructs
  BY <1>1, <1>6, WorkShareAssumption
<1>8. /\ thr' \in [Thread -> ThrType] /\ Others(t)
      /\ thr'[t].pc = "in" /\ thr'[t].ws = f /\ thr'[t].k = g /\ thr'[t].last = l /\ thr'[t].first
  <2>1. Entered(thr[t], thr[t].ws) \in ThrType
    BY <1>1, <1>6, <1>7 DEF Entered, ThrType, Labels
  <2>2. /\ Entered(thr[t], thr[t].ws).pc = "in" /\ Entered(thr[t], thr[t].ws).ws = f
        /\ Entered(thr[t], thr[t].ws).last = l /\ Entered(thr[t], thr[t].ws).first = thr[t].first
    BY <1>1 DEF Entered, ThrType
  <2>3. Entered(thr[t], thr[t].ws).k = g
    BY <1>1, <1>6 DEF Entered, ThrType
  <2> QED
    BY <1>1, <1>2, <1>6, <2>1, <2>2, <2>3, SetThread DEF Others
<1>9. /\ ws' \in [WS -> WsType] /\ ws'[l].next = f
      /\ \A w \in WS : /\ ws'[w].free = ws[w].free /\ ws'[w].uses = ws[w].uses
                       /\ ws'[w].completed = ws[w].completed
                       /\ ws'[w].copyprivate = ws[w].copyprivate
                       /\ w # l => ws'[w].next = ws[w].next
  BY <1>1, <1>2, <1>6 DEF WsType
<1>10. TypeOK' /\ Region'
  BY <1>1, <1>2, <1>5, <1>8, <1>9 DEF TypeOK, Region
<1>11. SameDone(D, D) /\ SamePassed /\ SameWaiting /\ SameBarrier(t)
  <2>1. Level /\ kinds' = kinds
    BY <1>2 DEF Level
  <2>2. thr'[t].k \in 0 .. Constructs /\ thr'[t].k = thr[t].k + 1
    BY <1>6, <1>7, <1>8
  <2> QED
    BY <1>4, <1>8, <2>1, <2>2, BetweenProgress
<1> PICK q : q = [p EXCEPT ![f] = "live"]
  OBVIOUS
<1> PICK s : s = [r EXCEPT ![f] = g]
  OBVIOUS
<1>12. /\ q \in [WS -> Places] /\ s \in [WS -> Int] /\ q[f] = "live" /\ s[f] = g
       /\ \A w \in WS : w # f => q[w] = p[w] /\ s[w] = r[w]
  BY <1>1, <1>6, <1>7 DEF Places
<1>13. \A w \in WS : /\ q[w] = "alloc" <=> p[w] = "alloc"
                     /\ q[w] = "free" <=> p[w] = "free"
                     /\ q[w] = "none" <=> p[w] = "none"
                     /\ q[w] = "push" <=> p[w] = "push"
                     /\ p[w] \in {"alloc", "free", "live"} => w # f /\ q[w] = p[w] /\ s[w] = r[w]
                     /\ q[w] \in {"live", "fill"} <=> p[w] \in {"live", "fill"}
                     /\ q[w] = "live" => w = f \/ p[w] = "live"
  BY <1>6, <1>12
<1>14. /\ team' = team /\ team.to_free \in WS /\ team.alloc \in WS \cup {NULL}
       /\ team.free \in WS \cup {NULL} /\ p[team.to_free] = "live"
       /\ q[team.to_free] = "live" /\ s[team.to_free] = r[team.to_free] /\ r[team.to_free] \in Int
       /\ r[team.to_free] <= hi /\ r[team.to_free] < g
  <2>1. team' = team /\ team.to_free \in WS /\ team.alloc \in WS \cup {NULL} /\ team.free \in WS \cup {NULL}
    BY <1>1, <1>2 DEF TeamType
  <2>2. p[team.to_free] = "live" /\ r[team.to_free] <= hi
    BY <1>4, <2>1 DEF Chained
  <2>3. r[team.to_free] \in Int /\ q[team.to_free] = "live" /\ s[team.to_free] = r[team.to_free]
    BY <1>1, <1>13, <2>1, <2>2
  <2> QED
    BY <1>1, <1>7, <2>1, <2>2, <2>3
<1>15. Memory(q, s, g)'
  <2>1. \A w \in WS : ws'[w].free = ws[w].free /\ ws[w].free \in WS \cup {NULL}
    BY <1>1, <1>9 DEF WsType
  <2>2. Lists(q, s)'
    <3>1. IsList("alloc", team.alloc, q, s)'
      BY <1>4, <1>13, <1>14, <2>1 DEF Lists, IsList
    <3>2. IsList("free", team.free, q, s)'
      BY <1>4, <1>13, <1>14, <2>1 DEF Lists, IsList
    <3> QED
      BY <3>1, <3>2 DEF Lists
  <2>3. \A w \in WS : p[w] = "live" => r[w] <= hi /\ r[w] < g /\ r[w] \in Int
    BY <1>1, <1>4, <1>7 DEF Chained
  <2>4. Distinct(q, s)'
    <3>1. ASSUME NEW v \in WS, NEW w \in WS, q[v] = q[w], s[v] = s[w],
                 q[v] \in {"alloc", "free", "live"}
          PROVE  v = w
      <4>1. CASE v = f /\ w # f
        BY <1>12, <1>13, <2>3, <3>1, <4>1
      <4>2. CASE v # f /\ w = f
        BY <1>12, <1>13, <2>3, <3>1, <4>2
      <4>3. CASE v # f /\ w # f
        BY <1>4, <1>12, <3>1, <4>3 DEF Distinct
      <4> QED
        BY <4>1, <4>2, <4>3
    <3> QED
      BY <3>1 DEF Distinct
  <2>5. Raw(q)'
    BY <1>4, <1>13, <1>14, <2>1 DEF Raw
  <2>6. Uses(q)'
    BY <1>4, <1>9, <1>13, <1>14 DEF Uses
  <2>7. Chained(q, s, g)'
    <3>1. ASSUME NEW w \in WS, q[w] = "live"
          PROVE  /\ s[team.to_free] <= s[w] /\ s[w] <= g
                 /\ s[w] = g => ws'[w].next \in {Unset, Claimed}
                 /\ s[w] < g => /\ ws'[w].next \in WS /\ q[ws'[w].next] = "live"
                                /\ s[ws'[w].next] = s[w] + 1
      <4>1. CASE w = f
        <5>1. f # l /\ ws'[f].next = Unset
          BY <1>6, <1>9
        <5> QED
          BY <1>7, <1>12, <1>14, <4>1, <5>1
      <4>2. CASE w = l
        <5>1. s[l] = hi /\ l # f
          BY <1>6, <1>12
        <5> QED
          BY <1>6, <1>7, <1>9, <1>12, <1>14, <4>2, <5>1
      <4>3. CASE w # f /\ w # l
        <5>1. p[w] = "live" /\ s[w] = r[w] /\ r[w] \in Int /\ r[w] <= hi /\ r[w] < g
          BY <1>12, <1>13, <2>3, <3>1, <4>3
        <5>2. r[w] # hi
          BY <1>4, <1>6, <4>3, <5>1 DEF Distinct
        <5>3. r[team.to_free] <= r[w] /\ r[w] < hi
          BY <1>1, <1>4, <5>1, <5>2 DEF Chained
        <5>4. ws[w].next \in WS /\ p[ws[w].next] = "live" /\ r[ws[w].next] = r[w] + 1
          BY <1>4, <5>1, <5>3 DEF Chained
        <5>5. ws'[w].next = ws[w].next /\ q[ws[w].next] = "live" /\ s[ws[w].next] = r[ws[w].next]
          BY <1>9, <1>13, <4>3, <5>4
        <5>6. s[w] # g /\ s[w] <= g
          BY <1>7, <5>1
        <5> QED
          BY <1>14, <5>1, <5>3, <5>4, <5>5, <5>6
      <4> QED
        BY <4>1, <4>2, <4>3
    <3>2. ASSUME NEW j \in r[team.to_free] .. g
          PROVE  \E w \in WS : q[w] = "live" /\ s[w] = j
      <4>1. CASE j = g
        BY <1>6, <1>12, <4>1
      <4>2. CASE j # g
        <5>1. j \in r[team.to_free] .. hi
          BY <1>1, <1>7, <1>14, <3>2, <4>2
        <5> QED
          BY <1>4, <1>13, <5>1 DEF Chained
      <4> QED
        BY <4>1, <4>2
    <3>3. s[team.to_free] >= 0
      BY <1>4, <1>14 DEF Chained
    <3> QED
      BY <1>7, <1>14, <3>1, <3>2, <3>3 DEF Chained
  <2> QED
    BY <2>2, <2>4, <2>5, <2>6, <2>7 DEF Memory
<1>16. SameLive(p, r, p, r) /\ SameCompleted(p) /\ SameCopies(p, r) /\ Onward
  <2>1. SameLive(p, r, p, r) /\ SameCompleted(p)
    BY <1>2, <1>9 DEF SameLive, SameCompleted
  <2>2. SameCopies(p, r)
    BY <1>2, <1>8, <1>9 DEF SameCopies, Others
  <2>3. Onward
    BY <1>1, <1>2 DEF Onward, TeamType
  <2> QED
    BY <2>1, <2>2, <2>3
<1>17. \A u \in Thread : ~Done(u, g, D)'
  <2>1. ASSUME NEW u \in Thread \ {t}
        PROVE  thr'[u].k <= hi /\ thr'[u].k \in Int
    <3>1. thr'[u] = thr[u] /\ AtWs(u, p, r) /\ thr[u] \in ThrType
      BY <1>8 DEF Others, IInv, TypeOK
    <3>2. thr[u].pc # "fill"
      BY <1>4 DEF Opening
    <3>3. thr[u].ws \in WS /\ p[thr[u].ws] = "live" /\ r[thr[u].ws] = thr[u].k
      BY <3>1, <3>2 DEF AtWs, ThrType
    <3>4. thr[u].k <= hi /\ thr[u].k \in Int
      BY <1>1, <1>4, <3>3 DEF Chained
    <3> QED
      BY <3>1, <3>4
  <2>2. ASSUME NEW u \in Thread \ {t}
        PROVE  ~Done(u, g, D)'
    <3>1. ~(thr'[u].k > g) /\ thr'[u].k # g
      BY <1>1, <1>7, <2>1
    <3> QED
      BY <3>1 DEF Done
  <2>3. ~Done(t, g, D)'
    <3>1. ~(g > g)
      BY <1>7
    <3> QED
      BY <1>8, <3>1 DEF Done, Busy
  <2> QED
    BY <2>2, <2>3
<1>18. Counted(q, s, D)'
  <2>1. Counted(p, r, D)'
    BY <1>1, <1>2, <1>4, <1>5, <1>11, <1>16, CountedFrame
  <2>2. ws'[f].completed = Cardinality(DoneSet(g, D)')
    <3>1. DoneSet(g, D)' = {}
      BY <1>17 DEF DoneSet
    <3>2. Cardinality({}) = 0
      BY FS_EmptySet
    <3> QED
      BY <1>6, <1>9, <3>1, <3>2
  <2>3. ASSUME NEW w \in WS, q[w] = "live", s[w] >= 1, kinds'[s[w]] # "barrier"
        PROVE  ws'[w].completed = Cardinality(DoneSet(s[w], D)')
    <3>1. CASE w = f
      BY <1>12, <2>2, <3>1
    <3>2. CASE w # f
      <4>1. p[w] = "live" /\ s[w] = r[w]
        BY <1>12, <2>3, <3>2
      <4> QED
        BY <2>1, <2>3, <4>1 DEF Counted
    <3> QED
      BY <3>1, <3>2
  <2> QED
    BY <2>3 DEF Counted
<1>19. Behind(s, g, D)'
  <2>1. Behind(r, hi, D)'
    BY <1>1, <1>4, <1>5, <1>11, <1>14, <1>16, BehindFrame
  <2>2. ASSUME NEW j \in 1 .. g, j > s[team'.to_free]
        PROVE  \E u \in Thread : ~Done(u, j, D)'
    <3>1. CASE j = g
      BY <1>17, <3>1
    <3>2. CASE j # g
      <4>1. j \in 1 .. hi /\ j > r[team'.to_free]
        BY <1>1, <1>7, <1>14, <2>2, <3>2
      <4> QED
        BY <2>1, <4>1 DEF Behind
    <3> QED
      BY <3>1, <3>2
  <2> QED
    BY <2>2 DEF Behind
<1>20. Together' /\ Arrivals'
  BY <1>2, <1>5, <1>11, TogetherFrame, ArrivalsFrame
<1>21. Stored(q, s)'
  <2>1. Stored(p, r)'
    BY <1>2, <1>5, <1>16, StoredFrame
  <2>2. ASSUME NEW w \in WS, q[w] = "live", kinds'[s[w]] = "copy"
        PROVE  \/ ws'[w].copyprivate = s[w]
               \/ \E u \in Thread : thr'[u].pc = "in" /\ thr'[u].k = s[w] /\ thr'[u].first
    <3>1. CASE w = f
      BY <1>8, <1>12, <3>1
    <3>2. CASE w # f
      BY <1>12, <2>1, <2>2, <3>2 DEF Stored
    <3> QED
      BY <3>1, <3>2
  <2> QED
    BY <2>2 DEF Stored
<1>22. Single(q)'
  <2>1. \A u \in Thread : thr'[u].pc \notin Opening
    BY <1>4, <1>8 DEF Others, Opening
  <2>2. \A u, v \in Thread : thr'[u].pc \in Pushing /\ thr'[v].pc \in Pushing => u = v
    <3>1. thr'[t].pc \notin Pushing
      BY <1>8 DEF Pushing
    <3> QED
      BY <1>5, <1>8, <3>1 DEF Single, Others
  <2>3. \A w \in WS : q[w] # "fill"
    BY <1>4, <1>12
  <2> QED
    BY <2>1, <2>2, <2>3 DEF Single
<1>23. \A u \in Thread \ {t} : /\ AtWs(u, q, s)' /\ Opens(u, q, s, g)' /\ Inside(u, q, s)'
                               /\ Frees(u, q, s)' /\ Leaves(u, D, s)'
  <2>1. StillLive(p, r, q, s)
    BY <1>13, <1>14 DEF StillLive
  <2>2. SamePlaces(t, q)
    <3> SUFFICES ASSUME NEW u \in Thread \ {t}
                 PROVE  SamePlaces(t, q)!(u)
      BY DEF SamePlaces
    <3>1. thr[u].pc \notin Opening /\ thr[u].pc # "fill" /\ thr[u].pc # "cut" /\ thr[u].pc # "init"
      BY <1>4 DEF Opening
    <3>2. Frees(u, p, r)
      BY DEF IInv
    <3>3. thr[u].pc \in Pushing => q[thr[u].loc] = "push" /\ ws'[thr[u].loc].free = ws[thr[u].loc].free
      BY <1>9, <1>13, <3>2 DEF Frees
    <3>4. thr[u].pc = "cas" => thr[u].pc \in Pushing
      BY DEF Pushing
    <3> QED
      BY <3>1, <3>3, <3>4
  <2>3. team' \in TeamType /\ kinds' = kinds
    BY <1>1, <1>2
  <2> QED
    BY <1>4, <1>8, <1>11, <1>16, <2>1, <2>2, <2>3, OtherThreads
<1>24. Mine(t, q, s, g, D)'
  <2>1. AtWs(t, q, s)'
    BY <1>8, <1>12 DEF AtWs
  <2>2. Opens(t, q, s, g)' /\ Frees(t, q, s)'
    BY <1>8 DEF Opens, Opening, Frees, Pushing
  <2>3. Inside(t, q, s)'
    <3>1. q[l] = "live" /\ s[l] = hi
      BY <1>6, <1>13
    <3>2. Keeps(t, q, s)'
      BY <1>6, <1>7, <1>8, <1>14, <3>1 DEF Keeps
    <3> QED
      BY <1>7, <1>8, <3>2 DEF Inside
  <2>4. Leaves(t, D, s)'
    BY <1>1, <1>2, <1>4, <1>8 DEF Leaves, Left
  <2> QED
    BY <2>1, <2>2, <2>3, <2>4 DEF Mine
<1>25. \A u \in Thread : /\ AtWs(u, q, s)' /\ Opens(u, q, s, g)' /\ Inside(u, q, s)'
                         /\ Frees(u, q, s)' /\ Leaves(u, D, s)'
  BY <1>23, <1>24 DEF Mine
<1>26. IInv(q, s, g, D)'
  BY <1>1, <1>7, <1>10, <1>12, <1>15, <1>18, <1>19, <1>20, <1>21, <1>22, <1>25 DEF IInv, Memory
<1> QED
  BY <1>26
-----------------------------------------------------------------------------
(* While a thread is in a construct nobody frees a work share at a barrier.*)
LEMMA NoBarrierClosing ==
  ASSUME NEW p, NEW r, NEW hi, NEW D, NEW t \in Thread, IInv(p, r, hi, D),
         thr[t].pc \notin Left \cup {"bar"}
  PROVE  \A u \in Thread \ {t} : ~(thr[u].pc \in Pushing /\ kinds[thr[u].k] = "barrier")
<1> SUFFICES ASSUME NEW u \in Thread \ {t}, thr[u].pc \in Pushing, kinds[thr[u].k] = "barrier"
             PROVE  FALSE
  OBVIOUS
<1>1. Frees(u, p, r)
  BY DEF IInv
<1> QED
  BY <1>1 DEF Frees

(* The work share of a thread is the only one of its construct.            *)
LEMMA WsOfConstruct ==
  ASSUME NEW p, NEW r, NEW hi, NEW D, NEW t \in Thread, IInv(p, r, hi, D), thr[t].pc # "fill",
         NEW w \in WS, p[w] = "live", r[w] = thr[t].k
  PROVE  w = thr[t].ws
<1>1. AtWs(t, p, r) /\ thr[t].ws \in WS /\ Distinct(p, r)
  BY DEF IInv, TypeOK, ThrType
<1>2. p[thr[t].ws] = "live" /\ r[thr[t].ws] = thr[t].k
  BY <1>1 DEF AtWs
<1> QED
  BY <1>1, <1>2 DEF Distinct

(* A thread is done with a construct that others are still in.             *)
LEMMA EndsEarly ==
  ASSUME NEW p, NEW r, NEW hi, NEW D, NEW t \in Thread, IInv(p, r, hi, D),
         thr[t].pc = "copied" \/ (thr[t].pc = "in" /\ kinds[thr[t].k] = "nowait"),
         thr[t].last # NULL, NEW d, d = ws[thr[t].ws].completed + 1, d # TeamSize,
         ws' = [ws EXCEPT ![thr[t].ws].completed = d],
         Set(t, [thr[t] EXCEPT !.pc = "idle", !.last = NULL]), UNCHANGED <<team, kinds>>
  PROVE  IInv(p, r, hi, D)'
<1>1. /\ thr[t] \in ThrType /\ thr \in [Thread -> ThrType] /\ team \in TeamType
      /\ ws \in [WS -> WsType] /\ kinds \in [0 .. Constructs -> Kinds]
      /\ p \in [WS -> Places] /\ r \in [WS -> Int] /\ hi \in Nat /\ D \in SUBSET Thread
      /\ AtWs(t, p, r) /\ Inside(t, p, r) /\ Leaves(t, D, r)
  BY ThreadFacts
<1>2. /\ Region /\ Chained(p, r, hi) /\ Counted(p, r, D) /\ Behind(r, hi, D)
      /\ Together /\ Arrivals /\ Stored(p, r)
  BY DEF IInv
<1> PICK m : m = thr[t].ws
  OBVIOUS
<1> PICK k : k = thr[t].k
  OBVIOUS
<1>3. /\ m \in WS /\ p[m] = "live" /\ r[m] = k /\ k \in 0 .. Constructs /\ k \in Int
      /\ d \in Nat /\ ws[m].completed \in Nat
  <2>1. thr[t].ws \in WS /\ thr[t].k \in 0 .. Constructs /\ ws[thr[t].ws].completed \in Nat
    BY <1>1 DEF ThrType, WsType
  <2> QED
    BY <1>1, <2>1 DEF AtWs
<1>4. k >= 1 /\ kinds[k] # "barrier" /\ Busy(t, D)
  <2>1. kinds[k] # "barrier"
    BY <1>1 DEF Inside
  <2>2. k # 0
    BY <1>1, <1>2 DEF Inside, Region
  <2> QED
    BY <1>3, <2>1, <2>2 DEF Busy
<1> DEFINE T == [thr[t] EXCEPT !.pc = "idle", !.last = NULL]
<1>5. T \in ThrType /\ T.pc = "idle" /\ T.ws = m /\ T.k = k /\ T.last = NULL
  BY <1>1 DEF ThrType, Labels, Between
<1>6. Set(t, T)
  OBVIOUS
<1> HIDE DEF T
<1>7. /\ thr' \in [Thread -> ThrType] /\ Others(t)
      /\ thr'[t].pc = "idle" /\ thr'[t].ws = m /\ thr'[t].k = k /\ thr'[t].last = NULL
  BY <1>1, <1>5, <1>6, SetThread DEF Others
<1>8. /\ ws' \in [WS -> WsType] /\ ws'[m].completed = d
      /\ \A w \in WS : /\ ws'[w].next = ws[w].next /\ ws'[w].uses = ws[w].uses
                       /\ ws'[w].free = ws[w].free
                       /\ ws'[w].copyprivate = ws[w].copyprivate
                       /\ w # m => ws'[w].completed = ws[w].completed
  BY <1>1, <1>3 DEF WsType
<1>9. TypeOK' /\ Region'
  BY <1>1, <1>2, <1>7, <1>8 DEF TypeOK, Region
<1>10. \A u \in Thread \ {t} : /\ \A j, E : Done(u, j, E)' <=> Done(u, j, E)
                               /\ \A j : Passed(u, j)' <=> Passed(u, j)
                               /\ Waiting(u)' <=> Waiting(u)
  BY <1>7, OthersProgress
<1>11. t \notin D /\ ~team.over
  BY <1>1 DEF Leaves, Left
<1>12. ~Done(t, k, D) /\ Done(t, k, D)' /\ \A j : j # k => (Done(t, j, D)' <=> Done(t, j, D))
  <2>1. ~Busy(t, D)' /\ ~(k > k)
    BY <1>3, <1>7, <1>11 DEF Busy
  <2> QED
    BY <1>4, <1>7, <2>1 DEF Done
<1>13. /\ DoneSet(k, D)' = DoneSet(k, D) \cup {t} /\ t \notin DoneSet(k, D)
       /\ IsFiniteSet(DoneSet(k, D)) /\ IsFiniteSet(Thread)
       /\ \A j : j # k => DoneSet(j, D)' = DoneSet(j, D)
  <2>1. DoneSet(k, D)' = DoneSet(k, D) \cup {t} /\ t \notin DoneSet(k, D)
    BY <1>10, <1>12 DEF DoneSet
  <2>2. \A j : j # k => DoneSet(j, D)' = DoneSet(j, D)
    BY <1>10, <1>12 DEF DoneSet
  <2>3. IsFiniteSet(Thread) /\ DoneSet(k, D) \subseteq Thread
    BY WorkShareAssumption DEF DoneSet
  <2> QED
    BY <2>1, <2>2, <2>3, FS_Subset
<1>14. Cardinality(DoneSet(k, D)') = d
  <2>1. Cardinality(DoneSet(k, D)') = Cardinality(DoneSet(k, D)) + 1
    BY <1>13, FS_AddElement
  <2>2. ws[m].completed = Cardinality(DoneSet(k, D))
    BY <1>2, <1>3, <1>4 DEF Counted
  <2> QED
    BY <2>1, <2>2
<1>15. Counted(p, r, D)'
  <2>1. ASSUME NEW w \in WS, p[w] = "live", r[w] >= 1, kinds'[r[w]] # "barrier"
        PROVE  ws'[w].completed = Cardinality(DoneSet(r[w], D)')
    <3>1. CASE w = m
      BY <1>3, <1>8, <1>14, <3>1
    <3>2. CASE w # m
      <4>1. r[w] # k
        BY <2>1, <3>2, WsOfConstruct
      <4>2. ws[w].completed = Cardinality(DoneSet(r[w], D))
        BY <1>2, <2>1 DEF Counted
      <4> QED
        BY <1>8, <1>13, <3>2, <4>1, <4>2
    <3> QED
      BY <3>1, <3>2
  <2> QED
    BY <2>1 DEF Counted
<1>16. Behind(r, hi, D)'
  <2>1. ASSUME NEW j \in 1 .. hi, j > r[team'.to_free]
        PROVE  \E u \in Thread : ~Done(u, j, D)'
    <3>1. CASE j = k
      <4>1. DoneSet(k, D)' # Thread
        BY <1>14 DEF TeamSize
      <4> QED
        BY <3>1, <4>1 DEF DoneSet
    <3>2. CASE j # k
      <4>1. PICK u \in Thread : ~Done(u, j, D)
        BY <1>2, <2>1 DEF Behind
      <4> QED
        BY <1>10, <1>12, <3>2, <4>1
    <3> QED
      BY <3>1, <3>2
  <2> QED
    BY <2>1 DEF Behind
<1>17. SamePassed
  <2>1. ASSUME NEW j \in 1 .. Constructs, kinds[j] # "nowait"
        PROVE  Passed(t, j)' <=> Passed(t, j)
    <3>1. j = k => Past(t) /\ Past(t)'
      BY <1>7, <2>1 DEF Past, Between
    <3> QED
      BY <1>7, <3>1 DEF Passed
  <2>2. thr[t].pc \notin Left
    BY DEF Left
  <2> QED
    BY <1>7, <1>10, <2>1, <2>2 DEF SamePassed, Others
<1>18. SameWaiting
  <2>1. ~Waiting(t) /\ ~Waiting(t)'
    BY <1>7 DEF Waiting, Pushing
  <2> QED
    BY <1>10, <2>1 DEF SameWaiting
<1>19. Together' /\ Arrivals'
  BY <1>2, <1>17, <1>18, TogetherFrame, ArrivalsFrame
<1>20. Stored(p, r)'
  <2>1. SameLive(p, r, p, r) /\ SameCopies(p, r)
    BY <1>7, <1>8 DEF SameLive, SameCopies, Others
  <2> QED
    BY <1>2, <2>1, StoredFrame
<1>21. SameBarrier(t)
  <2>1. thr[t].pc \notin Left \cup {"bar"}
    BY DEF Left
  <2> QED
    BY <2>1, NoBarrierClosing DEF SameBarrier
<1>22. SameMemory(p) /\ SameFree(t) /\ Onward
  BY <1>1, <1>8 DEF SameMemory, SameFree, Onward, TeamType
<1>23. \A w \in WS : p[w] = "fill" => ws'[w].completed = ws[w].completed
  BY <1>3, <1>8
<1>24. SameRoles(t, p, p)
  BY <1>7, <1>8 DEF SameRoles, Opening, Pushing
<1>25. Mine(t, p, r, hi, D)'
  <2>1. AtWs(t, p, r)'
    BY <1>3, <1>7 DEF AtWs
  <2>2. Opens(t, p, r, hi)' /\ Frees(t, p, r)' /\ Inside(t, p, r)'
    BY <1>7 DEF Opens, Opening, Frees, Pushing, Inside
  <2>3. Leaves(t, D, r)'
    BY <1>7, <1>11 DEF Leaves, Left
  <2> QED
    BY <2>1, <2>2, <2>3 DEF Mine
<1> QED
  BY <1>1, <1>7, <1>9, <1>15, <1>16, <1>19, <1>20, <1>21, <1>22, <1>23, <1>24, <1>25, PlainStep
-----------------------------------------------------------------------------
(* A thread comes to the barrier of its construct, no earlier than any     *)
(* other thread has passed it.                                             *)
LEMMA AtTheBarrier ==
  ASSUME NEW p, NEW r, NEW hi, NEW D, NEW t \in Thread, IInv(p, r, hi, D),
         thr[t].pc = "in", kinds[thr[t].k] # "nowait", ~team.cancelled
  PROVE  /\ thr[t].k > 0 /\ thr[t].k \in 1 .. Constructs /\ Keeps(t, p, r) /\ ~Waiting(t)
         /\ \A u \in Thread : u \notin D /\ ~Passed(u, thr[t].k)
         /\ \A u \in Thread \ {t} : Waiting(u) =>
              thr[u].pc = "bar" /\ thr[u].gen = team.gen /\ thr[u].k = thr[t].k
<1>1. thr[t].k \in 0 .. Constructs /\ Inside(t, p, r) /\ Region /\ Together
  BY DEF IInv, TypeOK, ThrType
<1>2. thr[t].k > 0 /\ thr[t].k \in 1 .. Constructs /\ Keeps(t, p, r)
  BY <1>1 DEF Region, Inside
<1>3. \A u \in Thread : u \notin D
  <2>1. \A u \in Thread : Leaves(u, D, r)
    BY DEF IInv
  <2> QED
    BY <2>1 DEF Leaves
<1>4. ~Passed(t, thr[t].k) /\ thr[t].pc \notin Left /\ ~Waiting(t)
  <2>1. ~Past(t) /\ ~(thr[t].k > thr[t].k)
    BY <1>1 DEF Past, Between, Opening, Pushing, Left
  <2> QED
    BY <2>1 DEF Passed, Left, Waiting, Pushing
<1>5. \A u \in Thread : ~Passed(u, thr[t].k)
  BY <1>1, <1>4 DEF Together
<1>6. ASSUME NEW u \in Thread \ {t}, Waiting(u)
      PROVE  thr[u].pc = "bar" /\ thr[u].gen = team.gen /\ thr[u].k = thr[t].k
  <2>1. ~(thr[u].pc \in Pushing /\ kinds[thr[u].k] = "barrier")
    <3>1. thr[t].pc \notin Left \cup {"bar"}
      BY DEF Left
    <3> QED
      BY <3>1, NoBarrierClosing
  <2>2. thr[u].pc = "bar" /\ thr[u].gen = team.gen
    BY <1>6, <2>1 DEF Waiting
  <2>3. thr[u].k \in 0 .. Constructs /\ kinds[thr[u].k] # "nowait"
    <3>1. Inside(u, p, r) /\ thr[u].k \in 0 .. Constructs
      BY DEF IInv, TypeOK, ThrType
    <3> QED
      BY <2>2, <3>1 DEF Inside
  <2>4. ~(thr[u].k > thr[t].k)
    BY <1>5 DEF Passed
  <2>5. ~(thr[t].k > thr[u].k)
    <3> SUFFICES ASSUME thr[t].k > thr[u].k
                 PROVE  FALSE
      OBVIOUS
    <3>1. Passed(t, thr[u].k)
      BY DEF Passed
    <3>2. Passed(u, thr[u].k) \/ thr[u].pc \in Left
      BY <1>1, <2>3, <3>1 DEF Together
    <3>3. ~Past(u) /\ ~(thr[u].k > thr[u].k)
      BY <2>2, <2>3 DEF Past, Between, Opening, Pushing, Left
    <3> QED
      BY <2>2, <3>2, <3>3 DEF Passed, Left
  <2> QED
    BY <1>1, <2>2, <2>3, <2>4, <2>5
<1> QED
  BY <1>2, <1>3, <1>4, <1>5, <1>6

(* The last one to arrive finds all others waiting there.                  *)
LEMMA AllArrived ==
  ASSUME NEW p, NEW r, NEW hi, NEW D, NEW t \in Thread, IInv(p, r, hi, D),
         thr[t].pc = "in", kinds[thr[t].k] # "nowait", ~team.cancelled,
         team.arrived = TeamSize - 1
  PROVE  \A u \in Thread \ {t} : thr[u].pc = "bar" /\ thr[u].gen = team.gen /\ thr[u].k = thr[t].k
<1>1. /\ ~Waiting(t)
      /\ \A u \in Thread \ {t} : Waiting(u) =>
           thr[u].pc = "bar" /\ thr[u].gen = team.gen /\ thr[u].k = thr[t].k
  BY AtTheBarrier
<1>2. team.arrived = Cardinality(WaitSet)
  BY DEF IInv, Arrivals
<1>3. WaitSet \subseteq Thread \ {t}
  BY <1>1 DEF WaitSet
<1>4. IsFiniteSet(Thread \ {t}) /\ Cardinality(Thread \ {t}) = TeamSize - 1
  BY WorkShareAssumption, FS_RemoveElement DEF TeamSize
<1>5. WaitSet = Thread \ {t}
  BY <1>2, <1>3, <1>4, FS_Subset
<1> QED
  BY <1>1, <1>5 DEF WaitSet

(* What a step leaves of the team as it is, but for the barrier.           *)
SameTeam ==
  /\ team'.alloc = team.alloc /\ team'.free = team.free /\ team'.chunk = team.chunk
  /\ team'.used = team.used /\ team'.to_free = team.to_free /\ team'.over = team.over
  /\ team'.cancelled = team.cancelled /\ team'.cancellable = team.cancellable

(* The thread that got a copying single stores the data before it arrives. *)
StoresCopy(t) ==
  /\ ws' \in [WS -> WsType]
  /\ \A w \in WS : /\ ws'[w].next = ws[w].next /\ ws'[w].uses = ws[w].uses
                   /\ ws'[w].free = ws[w].free /\ ws'[w].completed = ws[w].completed
                   /\ w # thr[t].ws => ws'[w].copyprivate = ws[w].copyprivate
  /\ kinds[thr[t].k] = "copy" =>
       ws'[thr[t].ws].copyprivate = IF thr[t].first THEN thr[t].k ELSE ws[thr[t].ws].copyprivate

(* The barrier of a copying single opens only after its data is stored.    *)
LEMMA CopyIsStored ==
  ASSUME NEW p, NEW r, NEW hi, NEW D, NEW t \in Thread, IInv(p, r, hi, D), Others(t),
         thr[t].pc = "in", StoresCopy(t), kinds' = kinds
  PROVE  Stored(p, r)'
<1> SUFFICES ASSUME NEW w \in WS, p[w] = "live", kinds[r[w]] = "copy"
             PROVE  \/ ws'[w].copyprivate = r[w]
                    \/ \E u \in Thread : thr'[u].pc = "in" /\ thr'[u].k = r[w] /\ thr'[u].first
  BY DEF Stored
<1>1. \/ ws[w].copyprivate = r[w]
      \/ \E u \in Thread : thr[u].pc = "in" /\ thr[u].k = r[w] /\ thr[u].first
  BY DEF IInv, Stored
<1>2. AtWs(t, p, r)
  BY DEF IInv
<1>3. CASE w = thr[t].ws
  <2>1. r[w] = thr[t].k
    BY <1>2, <1>3 DEF AtWs
  <2>2. CASE thr[t].first
    BY <1>3, <2>1, <2>2 DEF StoresCopy
  <2>3. CASE ~thr[t].first
    BY <1>1, <1>3, <2>1, <2>3 DEF StoresCopy, Others
  <2> QED
    BY <2>2, <2>3
<1>4. CASE w # thr[t].ws
  <2>1. r[w] # thr[t].k
    BY <1>4, WsOfConstruct
  <2> QED
    BY <1>1, <1>4, <2>1 DEF StoresCopy, Others
<1> QED
  BY <1>3, <1>4

(* Any other than the last thread at the barrier of a construct.           *)
LEMMA ArrivesEarly ==
  ASSUME NEW p, NEW r, NEW hi, NEW D, NEW t \in Thread, IInv(p, r, hi, D),
         thr[t].pc = "in", kinds[thr[t].k] # "nowait", ~team.cancelled,
         team.arrived # TeamSize - 1, team' \in TeamType, SameTeam, team'.gen = team.gen,
         team'.arrived = team.arrived + 1, kinds' = kinds, StoresCopy(t),
         Set(t, [thr[t] EXCEPT !.pc = "bar", !.gen = team.gen])
  PROVE  IInv(p, r, hi, D)'
<1>1. /\ thr[t] \in ThrType /\ thr \in [Thread -> ThrType] /\ team \in TeamType
      /\ ws \in [WS -> WsType] /\ kinds \in [0 .. Constructs -> Kinds]
      /\ p \in [WS -> Places] /\ r \in [WS -> Int] /\ hi \in Nat /\ D \in SUBSET Thread
      /\ AtWs(t, p, r) /\ Inside(t, p, r) /\ Leaves(t, D, r)
  BY ThreadFacts
<1>2. /\ Region /\ Chained(p, r, hi) /\ Counted(p, r, D) /\ Behind(r, hi, D)
      /\ Together /\ Arrivals /\ Stored(p, r)
  BY DEF IInv
<1> PICK k : k = thr[t].k
  OBVIOUS
<1>3. /\ k > 0 /\ k \in 1 .. Constructs /\ Keeps(t, p, r) /\ ~Waiting(t)
      /\ \A u \in Thread : u \notin D /\ ~Passed(u, k)
  BY AtTheBarrier
<1> DEFINE T == [thr[t] EXCEPT !.pc = "bar", !.gen = team.gen]
<1>4. T \in ThrType /\ T.pc = "bar" /\ T.ws = thr[t].ws /\ T.k = k /\ T.last = thr[t].last /\ T.gen = team.gen
  BY <1>1 DEF ThrType, Labels, TeamType
<1>5. Set(t, T)
  OBVIOUS
<1> HIDE DEF T
<1>6. /\ thr' \in [Thread -> ThrType] /\ Others(t) /\ thr'[t].pc = "bar" /\ thr'[t].ws = thr[t].ws
      /\ thr'[t].k = k /\ thr'[t].last = thr[t].last /\ thr'[t].gen = team.gen
  BY <1>1, <1>4, <1>5, SetThread DEF Others
<1>7. TypeOK' /\ Region'
  BY <1>1, <1>2, <1>6 DEF TypeOK, Region, SameTeam, StoresCopy
<1>8. \A u \in Thread \ {t} : /\ \A j, E : Done(u, j, E)' <=> Done(u, j, E)
                              /\ \A j : Passed(u, j)' <=> Passed(u, j)
                              /\ Waiting(u)' <=> Waiting(u)
  BY <1>6, OthersProgress DEF SameTeam
<1>9. /\ Waiting(t)' /\ ~Past(t) /\ ~Past(t)' /\ Busy(t, D)
      /\ Busy(t, D)' <=> kinds[k] = "copy"
  BY <1>3, <1>6 DEF Waiting, Past, Busy, Between, Opening, Pushing, Left
<1>10. \A j : (j # k \/ kinds[k] = "copy") => (Done(t, j, D)' <=> Done(t, j, D))
  BY <1>6, <1>9 DEF Done
<1>11. WaitSet' = WaitSet \cup {t} /\ t \notin WaitSet /\ IsFiniteSet(WaitSet)
  <2>1. WaitSet' = WaitSet \cup {t} /\ t \notin WaitSet
    BY <1>3, <1>8, <1>9 DEF WaitSet
  <2>2. WaitSet \subseteq Thread /\ IsFiniteSet(Thread)
    BY WorkShareAssumption DEF WaitSet
  <2> QED
    BY <2>1, <2>2, FS_Subset
<1>12. /\ team.arrived = Cardinality(WaitSet) /\ team.arrived \in Nat
       /\ Cardinality(WaitSet') = team.arrived + 1
  <2>1. team.arrived = Cardinality(WaitSet) /\ team.arrived \in Nat
    BY <1>1, <1>2 DEF Arrivals, TeamType
  <2>2. Cardinality(WaitSet') = Cardinality(WaitSet) + 1
    BY <1>11, FS_AddElement
  <2> QED
    BY <2>1, <2>2
<1>13. Arrivals'
  BY <1>12 DEF Arrivals
<1>14. Counted(p, r, D)'
  <2>1. ASSUME NEW w \in WS, p[w] = "live", r[w] >= 1, kinds'[r[w]] # "barrier"
        PROVE  ws'[w].completed = Cardinality(DoneSet(r[w], D)')
    <3>1. r[w] # k \/ kinds[k] = "copy"
      BY <1>1, <1>3, <2>1, WorkShareAssumption
    <3>2. DoneSet(r[w], D)' = DoneSet(r[w], D)
      BY <1>8, <1>10, <3>1 DEF DoneSet
    <3>3. ws[w].completed = Cardinality(DoneSet(r[w], D)) /\ ws'[w].completed = ws[w].completed
      BY <1>2, <2>1 DEF Counted, StoresCopy
    <3> QED
      BY <3>2, <3>3
  <2> QED
    BY <2>1 DEF Counted
<1>15. Behind(r, hi, D)'
  <2>1. ASSUME NEW j \in 1 .. hi, j > r[team'.to_free]
        PROVE  \E u \in Thread : ~Done(u, j, D)'
    <3>1. CASE j = k
      <4>1. WaitSet' # Thread
        BY <1>1, <1>12, WorkShareAssumption, FS_CardinalityType DEF TeamSize
      <4>2. PICK u \in Thread : ~Waiting(u)'
        BY <4>1 DEF WaitSet
      <4>3. u # t /\ ~Waiting(u) /\ ~Passed(u, k) /\ u \notin D /\ thr[u].pc \in Labels
        BY <1>3, <1>8, <1>9, <4>2 DEF IInv, TypeOK, ThrType
      <4>4. thr[u].k = k /\ ~Past(u) => thr[u].pc \in {"in", "copied"}
        BY <4>3 DEF Waiting, Past, Labels
      <4>5. ~Done(u, k, D)
        BY <4>3, <4>4 DEF Done, Passed, Busy
      <4> QED
        BY <1>8, <3>1, <4>3, <4>5
    <3>2. CASE j # k
      <4>1. PICK u \in Thread : ~Done(u, j, D)
        BY <1>2, <2>1 DEF Behind, SameTeam
      <4> QED
        BY <1>8, <1>10, <3>2, <4>1
    <3> QED
      BY <3>1, <3>2
  <2> QED
    BY <2>1 DEF Behind
<1>16. Together'
  <2>1. \A j : Passed(t, j)' <=> Passed(t, j)
    BY <1>6, <1>9 DEF Passed
  <2>2. thr[t].pc \notin Left
    BY DEF Left
  <2>3. SamePassed
    BY <1>6, <1>8, <2>1, <2>2 DEF SamePassed, Others
  <2> QED
    BY <1>2, <2>3, TogetherFrame
<1>17. Stored(p, r)'
  BY <1>6, CopyIsStored
<1>18. SameBarrier(t)
  <2>1. thr[t].pc \notin Left \cup {"bar"}
    BY DEF Left
  <2> QED
    BY <2>1, NoBarrierClosing DEF SameBarrier
<1>19. SameMemory(p) /\ SameFree(t) /\ Onward
  BY <1>1 DEF SameMemory, SameFree, Onward, TeamType, StoresCopy, SameTeam
<1>20. \A w \in WS : p[w] = "fill" => ws'[w].completed = ws[w].completed
  BY DEF StoresCopy
<1>21. SameRoles(t, p, p)
  BY <1>6 DEF SameRoles, Opening, Pushing, StoresCopy
<1>22. Mine(t, p, r, hi, D)'
  <2>1. AtWs(t, p, r)'
    BY <1>1, <1>6 DEF AtWs
  <2>2. Opens(t, p, r, hi)' /\ Frees(t, p, r)'
    BY <1>6 DEF Opens, Opening, Frees, Pushing
  <2>3. Inside(t, p, r)'
    <3>1. Keeps(t, p, r)' /\ team'.gen \in Nat
      BY <1>1, <1>3, <1>6 DEF Keeps, SameTeam, TeamType
    <3> QED
      BY <1>3, <1>6, <3>1 DEF Inside
  <2>4. Leaves(t, D, r)'
    BY <1>1, <1>3, <1>6 DEF Leaves, Left, SameTeam
  <2> QED
    BY <2>1, <2>2, <2>3, <2>4 DEF Mine
<1> QED
  BY <1>1, <1>6, <1>7, <1>13, <1>14, <1>15, <1>16, <1>17, <1>18, <1>19, <1>20, <1>21, <1>22, PlainStep

(* The last thread at the barrier of a copying single opens it.            *)
LEMMA OpensCopy ==
  ASSUME NEW p, NEW r, NEW hi, NEW D, NEW t \in Thread, IInv(p, r, hi, D),
         thr[t].pc = "in", kinds[thr[t].k] = "copy", ~team.cancelled,
         team.arrived = TeamSize - 1, team' \in TeamType, SameTeam, team'.gen = team.gen + 1,
         team'.arrived = 0, kinds' = kinds, StoresCopy(t),
         Set(t, [thr[t] EXCEPT !.pc = "copied"])
  PROVE  IInv(p, r, hi, D)'
<1>1. /\ thr[t] \in ThrType /\ thr \in [Thread -> ThrType] /\ team \in TeamType
      /\ ws \in [WS -> WsType] /\ kinds \in [0 .. Constructs -> Kinds]
      /\ p \in [WS -> Places] /\ r \in [WS -> Int] /\ hi \in Nat /\ D \in SUBSET Thread
      /\ AtWs(t, p, r) /\ Inside(t, p, r) /\ Leaves(t, D, r)
  BY ThreadFacts
<1>2. /\ Region /\ Chained(p, r, hi) /\ Counted(p, r, D) /\ Behind(r, hi, D)
      /\ team.to_free \in WS
  BY <1>1 DEF IInv, TeamType
<1> PICK k : k = thr[t].k
  OBVIOUS
<1>3. k > 0 /\ k \in 1 .. Constructs /\ Keeps(t, p, r) /\ \A u \in Thread : u \notin D
  BY AtTheBarrier
<1>4. \A u \in Thread \ {t} : thr[u].pc = "bar" /\ thr[u].gen = team.gen /\ thr[u].k = k
  BY AllArrived
<1> DEFINE T == [thr[t] EXCEPT !.pc = "copied"]
<1>5. T \in ThrType /\ T.pc = "copied" /\ T.ws = thr[t].ws /\ T.k = k /\ T.last = thr[t].last
  BY <1>1 DEF ThrType, Labels
<1>6. Set(t, T)
  OBVIOUS
<1> HIDE DEF T
<1>7. /\ thr' \in [Thread -> ThrType] /\ Others(t) /\ thr'[t].pc = "copied"
      /\ thr'[t].ws = thr[t].ws /\ thr'[t].k = k /\ thr'[t].last = thr[t].last
  BY <1>1, <1>5, <1>6, SetThread DEF Others
<1>8. TypeOK' /\ Region'
  BY <1>1, <1>2, <1>7 DEF TypeOK, Region, SameTeam, StoresCopy
<1>9. team.gen \in Nat /\ team'.gen # team.gen /\ team'.gen >= team.gen
  <2>1. team.gen \in Nat
    BY <1>1 DEF TeamType
  <2> QED
    BY <2>1
<1>10. \A u \in Thread \ {t} : thr'[u] = thr[u]
  BY <1>7 DEF Others
<1>11. \A u \in Thread : thr'[u].k = k /\ thr[u].k = k /\ Busy(u, D) /\ Busy(u, D)' /\ Past(u)' /\ ~Waiting(u)'
  <2>1. ASSUME NEW u \in Thread \ {t}
        PROVE  thr'[u].k = k /\ thr[u].k = k /\ Busy(u, D) /\ Busy(u, D)' /\ Past(u)' /\ ~Waiting(u)'
    BY <1>4, <1>9, <1>10 DEF Busy, Past, Waiting, Pushing
  <2>2. /\ thr'[t].k = k /\ thr[t].k = k /\ Busy(t, D) /\ Busy(t, D)' /\ Past(t)' /\ ~Waiting(t)'
    BY <1>7 DEF Busy, Past, Waiting, Pushing
  <2> QED
    BY <2>1, <2>2
<1>12. SameDone(D, D)
  BY <1>11 DEF SameDone, Done
<1>13. SameLive(p, r, p, r) /\ SameCompleted(p)
  BY DEF SameLive, SameCompleted, StoresCopy, SameTeam
<1>14. Counted(p, r, D)' /\ Behind(r, hi, D)'
  BY <1>1, <1>2, <1>12, <1>13, CountedFrame, BehindFrame
<1>15. Together'
  BY <1>11 DEF Together, Passed
<1>16. Arrivals'
  <2>1. WaitSet' = {}
    BY <1>11 DEF WaitSet
  <2> QED
    BY <2>1, FS_EmptySet DEF Arrivals
<1>17. Stored(p, r)'
  BY <1>7, CopyIsStored
<1>18. SameBarrier(t)
  <2>1. thr[t].pc \notin Left \cup {"bar"}
    BY DEF Left
  <2> QED
    BY <2>1, NoBarrierClosing DEF SameBarrier
<1>19. SameMemory(p) /\ SameFree(t) /\ Onward
  BY <1>9 DEF SameMemory, SameFree, Onward, StoresCopy, SameTeam
<1>20. \A w \in WS : p[w] = "fill" => ws'[w].completed = ws[w].completed
  BY DEF StoresCopy
<1>21. SameRoles(t, p, p)
  BY <1>7 DEF SameRoles, Opening, Pushing, StoresCopy
<1>22. Mine(t, p, r, hi, D)'
  <2>1. AtWs(t, p, r)'
    BY <1>1, <1>7 DEF AtWs
  <2>2. Opens(t, p, r, hi)' /\ Frees(t, p, r)'
    BY <1>7 DEF Opens, Opening, Frees, Pushing
  <2>3. Inside(t, p, r)'
    <3>1. Keeps(t, p, r)'
      BY <1>3, <1>7 DEF Keeps, SameTeam
    <3> QED
      BY <1>7, <3>1 DEF Inside
  <2>4. Leaves(t, D, r)'
    BY <1>1, <1>3, <1>7 DEF Leaves, Left, SameTeam
  <2> QED
    BY <2>1, <2>2, <2>3, <2>4 DEF Mine
<1> QED
  BY <1>1, <1>7, <1>8, <1>14, <1>15, <1>16, <1>17, <1>18, <1>19, <1>20, <1>21, <1>22, PlainStep

(* A thread arrives at the barrier of a copying single.                    *)
LEMMA CopyBarrierStep ==
  ASSUME NEW p, NEW r, NEW hi, NEW D, NEW t \in Thread, IInv(p, r, hi, D), CopyBarrier(t)
  PROVE  IInv(p, r, hi, D)'
<1>1. /\ thr[t] \in ThrType /\ team \in TeamType /\ ws \in [WS -> WsType]
  BY ThreadFacts
<1>2. /\ thr[t].pc = "in" /\ kinds[thr[t].k] = "copy" /\ ~team.cancelled /\ kinds' = kinds
      /\ ws' = IF thr[t].first THEN [ws EXCEPT ![thr[t].ws].copyprivate = thr[t].k] ELSE ws
  BY DEF CopyBarrier
<1>3. StoresCopy(t)
  <2>1. thr[t].ws \in WS /\ thr[t].k \in Nat
    BY <1>1 DEF ThrType
  <2>2. CASE thr[t].first
    BY <1>1, <1>2, <2>1, <2>2 DEF StoresCopy, WsType
  <2>3. CASE ~thr[t].first
    BY <1>1, <1>2, <2>1, <2>3 DEF StoresCopy
  <2> QED
    BY <2>2, <2>3
<1>4. CASE team.arrived = TeamSize - 1
  <2>1. PICK g : g = team.gen + 1
    OBVIOUS
  <2>2. g \in Nat
    BY <1>1, <2>1 DEF TeamType
  <2>3. /\ team' = [team EXCEPT !.arrived = 0, !.gen = g]
        /\ Set(t, [thr[t] EXCEPT !.pc = "copied"])
    BY <1>1, <1>4, <2>1 DEF CopyBarrier, TeamType
  <2>4. team' \in TeamType /\ SameTeam /\ team'.gen = g /\ team'.arrived = 0
    BY <1>1, <2>2, <2>3 DEF TeamType, SameTeam
  <2> QED
    BY <1>2, <1>3, <1>4, <2>1, <2>3, <2>4, OpensCopy
<1>5. CASE team.arrived # TeamSize - 1
  <2>1. PICK a : a = team.arrived + 1
    OBVIOUS
  <2>2. a \in Nat
    BY <1>1, <2>1 DEF TeamType
  <2>3. /\ team' = [team EXCEPT !.arrived = a, !.gen = team.gen]
        /\ Set(t, [thr[t] EXCEPT !.pc = "bar", !.gen = team.gen])
    BY <1>1, <1>5, <2>1 DEF CopyBarrier, TeamType
  <2>4. team' \in TeamType /\ SameTeam /\ team'.gen = team.gen /\ team'.arrived = a
    BY <1>1, <2>2, <2>3 DEF TeamType, SameTeam
  <2> QED
    BY <1>2, <1>3, <1>5, <2>1, <2>3, <2>4, ArrivesEarly
<1> QED
  BY <1>4, <1>5
-----------------------------------------------------------------------------
(* When all others are done with a construct, the work share of the one    *)
(* before is the only one left of the constructs before.                   *)
LEMMA OldestIsLast ==
  ASSUME NEW p, NEW r, NEW hi, NEW D, NEW t \in Thread, IInv(p, r, hi, D),
         thr[t].pc # "fill", Keeps(t, p, r), \A u \in Thread \ {t} : Done(u, thr[t].k, D)
  PROVE  r[team.to_free] = thr[t].k - 1 /\ team.to_free = thr[t].last /\ thr[t].k >= 1
<1>1. /\ thr[t] \in ThrType /\ team \in TeamType /\ r \in [WS -> Int] /\ hi \in Nat /\ AtWs(t, p, r)
      /\ \A u \in Thread : thr[u].k \in 0 .. Constructs
  BY DEF IInv, TypeOK, ThrType
<1>2. Chained(p, r, hi) /\ Behind(r, hi, D) /\ Distinct(p, r)
  BY DEF IInv
<1> PICK k : k = thr[t].k
  OBVIOUS
<1> PICK lo : lo = r[team.to_free]
  OBVIOUS
<1>3. k \in Int /\ lo \in Int /\ lo >= 0 /\ k > lo /\ thr[t].ws \in WS /\ team.to_free \in WS
  BY <1>1, <1>2 DEF Keeps, ThrType, TeamType, Chained
<1>4. k <= hi
  <2>1. p[thr[t].ws] = "live" /\ r[thr[t].ws] = k
    BY <1>1 DEF AtWs
  <2> QED
    BY <1>2, <1>3, <2>1 DEF Chained
<1>5. ~(k - 1 > lo)
  <2> SUFFICES ASSUME k - 1 > lo
               PROVE  FALSE
    OBVIOUS
  <2> PICK j : j = k - 1
    OBVIOUS
  <2>1. j \in 1 .. hi /\ j > lo /\ k > j /\ j \in Int
    BY <1>1, <1>3, <1>4
  <2>2. PICK u \in Thread : ~Done(u, j, D)
    BY <1>2, <2>1 DEF Behind
  <2>3. thr[u].k \in Int /\ ~(thr[u].k > j)
    BY <1>1, <2>2 DEF Done
  <2>4. u # t
    BY <2>1, <2>3
  <2>5. Done(u, k, D)
    BY <2>4
  <2>6. thr[u].k >= k
    BY <1>3, <2>3, <2>5 DEF Done
  <2> QED
    BY <1>3, <2>1, <2>3, <2>6
<1>6. lo = k - 1 /\ k >= 1
  BY <1>3, <1>5
<1>7. team.to_free = thr[t].last
  <2>1. p[team.to_free] = "live" /\ r[team.to_free] = k - 1
    BY <1>2, <1>6 DEF Chained
  <2>2. thr[t].last \in WS /\ p[thr[t].last] = "live" /\ r[thr[t].last] = k - 1
    BY DEF Keeps
  <2> QED
    BY <1>2, <1>3, <2>1, <2>2 DEF Distinct
<1> QED
  BY <1>6, <1>7

(* The work share before is freed, and the construct of the thread is the  *)
(* oldest whose work share is kept.                                        *)
FreesLast(t) ==
  /\ ws' \in [WS -> WsType]
  /\ \A w \in WS : /\ ws'[w].next = ws[w].next /\ ws'[w].free = ws[w].free
                   /\ ws'[w].copyprivate = ws[w].copyprivate
                   /\ w # thr[t].last => ws'[w].uses = ws[w].uses
                   /\ w # thr[t].ws => ws'[w].completed = ws[w].completed
  /\ ws'[thr[t].last].uses = ws[thr[t].last].uses - 1
  /\ kinds[thr[t].k] # "barrier" => ws'[thr[t].ws].completed = TeamSize
  /\ team' \in TeamType /\ team'.to_free = thr[t].ws
  /\ team'.alloc = team.alloc /\ team'.free = team.free /\ team'.chunk = team.chunk
  /\ team'.used = team.used /\ team'.over = team.over /\ team'.gen = team.gen
  /\ team'.cancelled = team.cancelled /\ team'.cancellable = team.cancellable
  /\ kinds' = kinds
  /\ thr' \in [Thread -> ThrType] /\ Others(t)
  /\ thr'[t].pc = "push" /\ thr'[t].ws = thr[t].ws /\ thr'[t].k = thr[t].k
  /\ thr'[t].loc = thr[t].last

(* When the last thread is done with a construct nobody needs the one      *)
(* before: its work share can be freed.                                    *)
LEMMA Advance ==
  ASSUME NEW p, NEW r, NEW hi, NEW D, NEW t \in Thread, IInv(p, r, hi, D),
         thr[t].pc \in {"in", "copied"}, thr[t].pc = "in" => kinds[thr[t].k] # "copy",
         Keeps(t, p, r), \A u \in Thread \ {t} : Done(u, thr[t].k, D),
         kinds[thr[t].k] = "barrier" => \A u \in Thread \ {t} :
           thr[u].pc = "bar" /\ thr[u].gen = team.gen /\ thr[u].k = thr[t].k,
         FreesLast(t), Together', Arrivals'
  PROVE  \E q : IInv(q, r, hi, D)'
<1>1. /\ thr[t] \in ThrType /\ thr \in [Thread -> ThrType] /\ team \in TeamType
      /\ ws \in [WS -> WsType] /\ kinds \in [0 .. Constructs -> Kinds]
      /\ p \in [WS -> Places] /\ r \in [WS -> Int] /\ hi \in Nat /\ D \in SUBSET Thread
      /\ AtWs(t, p, r) /\ Inside(t, p, r) /\ Leaves(t, D, r)
  BY ThreadFacts
<1>2. /\ Region /\ Lists(p, r) /\ Distinct(p, r) /\ Raw(p) /\ Uses(p) /\ Chained(p, r, hi)
      /\ Counted(p, r, D) /\ Behind(r, hi, D) /\ Single(p) /\ Stored(p, r)
  BY DEF IInv
<1> PICK k : k = thr[t].k
  OBVIOUS
<1> PICK l : l = thr[t].last
  OBVIOUS
<1> PICK m : m = thr[t].ws
  OBVIOUS
<1>3. r[team.to_free] = k - 1 /\ team.to_free = l /\ k >= 1
  BY OldestIsLast
<1>4. /\ k \in 1 .. Constructs /\ k \in Int /\ l \in WS /\ p[l] = "live" /\ r[l] = k - 1
      /\ m \in WS /\ p[m] = "live" /\ r[m] = k /\ m # l
  <2>1. k \in 0 .. Constructs /\ m \in WS
    BY <1>1 DEF ThrType
  <2>2. l \in WS /\ p[l] = "live" /\ r[l] = k - 1
    BY DEF Keeps
  <2>3. p[m] = "live" /\ r[m] = k
    BY <1>1 DEF AtWs
  <2>4. k \in 1 .. Constructs /\ k \in Int /\ k # k - 1
    BY <1>3, <2>1
  <2> QED
    BY <2>1, <2>2, <2>3, <2>4
<1>5. /\ thr' \in [Thread -> ThrType] /\ Others(t) /\ thr'[t].pc = "push" /\ thr'[t].ws = m
      /\ thr'[t].k = k /\ thr'[t].loc = l /\ kinds' = kinds
  BY DEF FreesLast
<1>6. /\ ws' \in [WS -> WsType] /\ ws'[l].uses = ws[l].uses - 1
      /\ kinds[k] # "barrier" => ws'[m].completed = TeamSize
      /\ \A w \in WS : /\ ws'[w].next = ws[w].next /\ ws'[w].free = ws[w].free
                       /\ ws'[w].copyprivate = ws[w].copyprivate
                       /\ w # l => ws'[w].uses = ws[w].uses
                       /\ w # m => ws'[w].completed = ws[w].completed
  BY DEF FreesLast
<1>7. /\ team' \in TeamType /\ team'.to_free = m
      /\ team'.alloc = team.alloc /\ team'.free = team.free /\ team'.chunk = team.chunk
      /\ team'.used = team.used /\ team'.over = team.over /\ team'.gen = team.gen
      /\ team'.cancelled = team.cancelled /\ team'.cancellable = team.cancellable
  BY DEF FreesLast
<1>8. TypeOK' /\ Region'
  BY <1>1, <1>2, <1>5, <1>6, <1>7 DEF TypeOK, Region
<1>9. t \notin D /\ ~team.over
  BY <1>1 DEF Leaves, Left
<1> PICK q : q = [p EXCEPT ![l] = "push"]
  OBVIOUS
<1>10. q \in [WS -> Places] /\ q[l] = "push" /\ (\A w \in WS : w # l => q[w] = p[w])
  BY <1>1, <1>4 DEF Places
<1>11. \A w \in WS : /\ q[w] \in {"alloc", "free", "fill", "new", "none"} \/
                        p[w] \in {"alloc", "free", "fill", "new", "none"} => q[w] = p[w] /\ w # l
                     /\ q[w] = "live" <=> p[w] = "live" /\ w # l
  BY <1>4, <1>10
<1>12. \A w \in WS : p[w] = "live" => /\ r[w] \in Int /\ r[w] >= k - 1 /\ r[w] <= hi
                                      /\ w # l => r[w] >= k
                                      /\ r[w] >= k => w # l
  <2> SUFFICES ASSUME NEW w \in WS, p[w] = "live"
               PROVE  /\ r[w] \in Int /\ r[w] >= k - 1 /\ r[w] <= hi
                      /\ w # l => r[w] >= k
                      /\ r[w] >= k => w # l
    OBVIOUS
  <2>1. r[w] \in Int /\ r[w] >= k - 1 /\ r[w] <= hi
    <3>1. r[w] \in Int
      BY <1>1
    <3>2. r[team.to_free] <= r[w] /\ r[w] <= hi
      BY <1>2 DEF Chained
    <3> QED
      BY <1>3, <1>4, <3>1, <3>2
  <2>2. w # l => r[w] # k - 1
    BY <1>2, <1>4 DEF Distinct
  <2> QED
    BY <1>4, <2>1, <2>2
<1>24. \A w \in WS : /\ p[w] = "live" /\ r[w] >= k => q[w] = "live"
                     /\ q[w] = "live" => /\ p[w] = "live" /\ w # l /\ r[w] \in Int
                                         /\ r[w] >= k /\ r[w] <= hi
  <2> SUFFICES ASSUME NEW w \in WS
               PROVE  /\ p[w] = "live" /\ r[w] >= k => q[w] = "live"
                      /\ q[w] = "live" => /\ p[w] = "live" /\ w # l /\ r[w] \in Int
                                          /\ r[w] >= k /\ r[w] <= hi
    OBVIOUS
  <2>1. q[w] = "live" <=> p[w] = "live" /\ w # l
    BY <1>11
  <2>2. p[w] = "live" => /\ r[w] \in Int /\ r[w] >= k - 1 /\ r[w] <= hi
                         /\ w # l => r[w] >= k
                         /\ r[w] >= k => w # l
    BY <1>12
  <2> QED
    BY <2>1, <2>2
<1>13. Memory(q, r, hi)'
  <2>1. \A w \in WS : ws'[w].free = ws[w].free /\ ws[w].free \in WS \cup {NULL}
    BY <1>1, <1>6 DEF WsType
  <2>2. Lists(q, r)'
    <3>1. team.alloc \in WS \cup {NULL} /\ team.free \in WS \cup {NULL}
      BY <1>1 DEF TeamType
    <3>2. \A w \in WS : (q[w] = "alloc" <=> p[w] = "alloc") /\ (q[w] = "free" <=> p[w] = "free")
      BY <1>11
    <3> QED
      BY <1>2, <1>7, <2>1, <3>1, <3>2 DEF Lists, IsList
  <2>3. Distinct(q, r)'
    <3>1. \A w \in WS : q[w] \in {"alloc", "free", "live"} => q[w] = p[w]
      BY <1>11
    <3> QED
      BY <1>2, <3>1 DEF Distinct
  <2>4. Raw(q)'
    BY <1>2, <1>7, <1>11, <2>1 DEF Raw
  <2>5. Uses(q)'
    <3>1. ws[l].uses = 1
      BY <1>2, <1>4, <1>9 DEF Uses
    <3>2. ws'[l].uses = 0
      BY <1>6, <3>1
    <3>3. ASSUME NEW w \in WS \ {l}
          PROVE  ws'[w].uses = IF ~team'.over /\ q[w] \in {"live", "fill"} THEN 1 ELSE 0
      BY <1>2, <1>6, <1>7, <1>10 DEF Uses
    <3> QED
      BY <1>10, <3>2, <3>3 DEF Uses
  <2>6. Chained(q, r, hi)'
    <3>1. ASSUME NEW w \in WS, q[w] = "live"
          PROVE  /\ k <= r[w] /\ r[w] <= hi
                 /\ r[w] = hi => ws'[w].next \in {Unset, Claimed}
                 /\ r[w] < hi => /\ ws'[w].next \in WS /\ q[ws'[w].next] = "live"
                                 /\ r[ws'[w].next] = r[w] + 1
      <4>1. p[w] = "live" /\ w # l /\ r[w] \in Int /\ r[w] >= k /\ r[w] <= hi
        BY <1>24, <3>1
      <4>2. ws'[w].next = ws[w].next
        BY <1>6
      <4>3. r[w] = hi => ws[w].next \in {Unset, Claimed}
        BY <1>2, <4>1 DEF Chained
      <4>4. ASSUME r[w] < hi
            PROVE  ws[w].next \in WS /\ q[ws[w].next] = "live" /\ r[ws[w].next] = r[w] + 1
        <5> PICK v : v = ws[w].next
          OBVIOUS
        <5>1. v \in WS /\ p[v] = "live" /\ r[v] = r[w] + 1
          BY <1>2, <4>1, <4>4 DEF Chained
        <5>2. r[v] >= k
          BY <1>4, <4>1, <5>1
        <5>3. q[v] = "live"
          BY <1>24, <5>1, <5>2
        <5> QED
          BY <5>1, <5>3
      <4> QED
        BY <1>4, <4>1, <4>2, <4>3, <4>4
    <3>2. ASSUME NEW j \in k .. hi
          PROVE  \E w \in WS : q[w] = "live" /\ r[w] = j
      <4>1. j \in r[team.to_free] .. hi /\ j >= k
        BY <1>1, <1>3, <1>4, <3>2
      <4>2. PICK w \in WS : p[w] = "live" /\ r[w] = j
        BY <1>2, <4>1 DEF Chained
      <4> QED
        BY <1>24, <4>1, <4>2
    <3>3. hi <= Constructs /\ k >= 0
      BY <1>2, <1>4 DEF Chained
    <3>4. q[m] = "live"
      BY <1>4, <1>11
    <3> QED
      BY <1>4, <1>7, <3>1, <3>2, <3>3, <3>4 DEF Chained
  <2> QED
    BY <2>2, <2>3, <2>4, <2>5, <2>6 DEF Memory
<1>14. \A u \in Thread \ {t} : \A j, E : Done(u, j, E)' <=> Done(u, j, E)
  BY <1>5, <1>7, OthersProgress
<1>15. Done(t, k, D)' /\ \A j : j # k => (Done(t, j, D)' <=> Done(t, j, D))
  <2>1. ~Busy(t, D)'
    BY <1>5, <1>9 DEF Busy
  <2> QED
    BY <1>5, <2>1 DEF Done
<1>16. Counted(q, r, D)'
  <2>1. ASSUME NEW w \in WS, q[w] = "live", r[w] >= 1, kinds'[r[w]] # "barrier"
        PROVE  ws'[w].completed = Cardinality(DoneSet(r[w], D)')
    <3>1. CASE w = m
      <4>1. DoneSet(k, D)' = Thread
        BY <1>14, <1>15 DEF DoneSet
      <4> QED
        BY <1>4, <1>5, <1>6, <2>1, <3>1, <4>1 DEF TeamSize
    <3>2. CASE w # m
      <4>1. p[w] = "live" /\ r[w] # k
        BY <1>2, <1>4, <1>11, <2>1, <3>2 DEF Distinct
      <4>2. DoneSet(r[w], D)' = DoneSet(r[w], D)
        BY <1>14, <1>15, <4>1 DEF DoneSet
      <4>3. ws[w].completed = Cardinality(DoneSet(r[w], D))
        BY <1>2, <1>5, <2>1, <4>1 DEF Counted
      <4> QED
        BY <1>6, <3>2, <4>2, <4>3
    <3> QED
      BY <3>1, <3>2
  <2> QED
    BY <2>1 DEF Counted
<1>17. Behind(r, hi, D)'
  <2>1. ASSUME NEW j \in 1 .. hi, j > k
        PROVE  ~Done(t, j, D)'
    <3>1. ~(k > j) /\ k # j
      BY <1>1, <1>4, <2>1
    <3> QED
      BY <1>5, <3>1 DEF Done
  <2> QED
    BY <1>4, <1>7, <2>1 DEF Behind
<1>18. ASSUME NEW u \in Thread \ {t}
       PROVE  Mine(u, q, r, hi, D)'
  <2>1. /\ thr'[u] = thr[u] /\ thr[u] \in ThrType
        /\ AtWs(u, p, r) /\ Opens(u, p, r, hi) /\ Inside(u, p, r)
        /\ Frees(u, p, r) /\ Leaves(u, D, r)
    BY <1>5 DEF Others, IInv, TypeOK
  <2>2. thr[u].k \in Int /\ thr[u].k >= k /\ (Busy(u, D) => thr[u].k > k)
    <3>1. Done(u, k, D) /\ thr[u].k \in Int
      BY <2>1 DEF ThrType
    <3> QED
      BY <1>4, <3>1 DEF Done
  <2>3. AtWs(u, q, r)'
    <3>1. thr[u].ws \in WS
      BY <2>1 DEF ThrType
    <3>2. CASE thr[u].pc # "fill"
      <4>1. p[thr[u].ws] = "live" /\ r[thr[u].ws] = thr[u].k
        BY <2>1, <3>2 DEF AtWs
      <4>2. q[thr[u].ws] = "live"
        BY <1>24, <2>2, <3>1, <4>1
      <4> QED
        BY <2>1, <3>2, <4>1, <4>2 DEF AtWs
    <3>3. CASE thr[u].pc = "fill"
      <4>1. p[thr[u].ws] = "fill" /\ ws[thr[u].ws].next = Unset /\ ws[thr[u].ws].completed = 0
        BY <2>1, <3>3 DEF AtWs
      <4>2. q[thr[u].ws] = "fill" /\ thr[u].ws # m
        BY <1>4, <1>11, <3>1, <4>1
      <4> QED
        BY <1>6, <2>1, <3>1, <3>3, <4>1, <4>2 DEF AtWs
    <3> QED
      BY <3>2, <3>3
  <2>4. Opens(u, q, r, hi)'
    <3>1. ASSUME thr[u].pc \in Opening \cup {"wait"}
          PROVE  /\ thr[u].last \in WS /\ q[thr[u].last] = "live" /\ r[thr[u].last] = thr[u].k
                 /\ thr[u].k < Constructs /\ ws'[thr[u].last].next = ws[thr[u].last].next
      <4>1. /\ thr[u].last \in WS /\ p[thr[u].last] = "live" /\ r[thr[u].last] = thr[u].k
            /\ thr[u].k < Constructs
        BY <2>1, <3>1 DEF Opens
      <4>2. q[thr[u].last] = "live"
        BY <1>24, <2>2, <4>1
      <4> QED
        BY <1>6, <4>1, <4>2
    <3>2. thr[u].pc = "cut" => team'.alloc = NULL /\ (thr[u].loc # NULL => q[thr[u].loc] = "free")
      BY <1>7, <1>11, <2>1 DEF Opens, ThrType
    <3>3. thr[u].pc = "init" => thr[u].loc \in WS /\ q[thr[u].loc] = "new"
      BY <1>11, <2>1 DEF Opens
    <3>4. thr[u].pc \in Opening => thr[u].k = hi /\ ws'[thr[u].last].next = Claimed /\ thr[u].first
      BY <2>1, <3>1 DEF Opens
    <3> QED
      BY <2>1, <3>1, <3>2, <3>3, <3>4 DEF Opens
  <2>5. ASSUME Busy(u, D), Keeps(u, p, r)
        PROVE  Keeps(u, q, r)'
    <3>1. /\ thr[u].last \in WS /\ p[thr[u].last] = "live" /\ r[thr[u].last] = thr[u].k - 1
      BY <2>5 DEF Keeps
    <3>2. thr[u].k > k /\ thr[u].k - 1 >= k
      BY <1>4, <2>2, <2>5
    <3>3. q[thr[u].last] = "live"
      BY <1>24, <3>1, <3>2
    <3> QED
      BY <1>4, <1>7, <2>1, <3>1, <3>2, <3>3 DEF Keeps
  <2>6. Inside(u, q, r)'
    <3>1. thr[u].pc = "in" => IF thr[u].k = 0 THEN thr[u].last = NULL ELSE Keeps(u, q, r)'
      BY <2>1, <2>5 DEF Inside, Busy
    <3>2. thr[u].pc = "copied" => Keeps(u, q, r)' /\ kinds[thr[u].k] = "copy"
      BY <2>1, <2>5 DEF Inside, Busy
    <3>3. thr[u].pc = "bar" =>
            /\ thr[u].k > 0 /\ thr[u].gen <= team'.gen /\ kinds[thr[u].k] # "nowait"
            /\ kinds[thr[u].k] = "copy" => Keeps(u, q, r)'
      BY <1>7, <2>1, <2>5 DEF Inside, Busy
    <3>4. thr[u].pc = "idle" => thr[u].last = NULL
      BY <2>1 DEF Inside
    <3> QED
      BY <1>5, <2>1, <3>1, <3>2, <3>3, <3>4 DEF Inside
  <2>7. Frees(u, q, r)'
    <3>1. thr[u].pc \notin Pushing
      <4>1. thr[u].pc \in Pushing => thr[u].k = k - 1
        BY <1>3, <2>1 DEF Frees
      <4>2. thr[u].k # k - 1
        BY <1>4, <2>2
      <4> QED
        BY <4>1, <4>2
    <3> QED
      BY <2>1, <3>1 DEF Frees, Pushing
  <2>8. Leaves(u, D, r)'
    <3>1. u \in D => thr[u].k > k
      BY <2>2 DEF Busy
    <3> QED
      BY <1>4, <1>7, <2>1, <3>1 DEF Leaves
  <2> QED
    BY <2>3, <2>4, <2>6, <2>7, <2>8 DEF Mine
<1>19. Mine(t, q, r, hi, D)'
  <2>1. AtWs(t, q, r)'
    BY <1>4, <1>5, <1>11 DEF AtWs
  <2>2. Opens(t, q, r, hi)' /\ Inside(t, q, r)'
    BY <1>5 DEF Opens, Opening, Inside
  <2>3. Frees(t, q, r)'
    <3>1. /\ thr'[t].k = r[team'.to_free] /\ thr'[t].k > 0
          /\ thr'[t].loc \in WS /\ q[thr'[t].loc] = "push"
      BY <1>4, <1>5, <1>7, <1>10
    <3>2. kinds'[k] = "barrier" => \A u \in Thread \ {t} :
            thr'[u].k = k /\ thr'[u].pc = "bar" /\ thr'[u].gen = team'.gen
      BY <1>5, <1>7 DEF Others
    <3> QED
      BY <1>5, <3>1, <3>2 DEF Frees
  <2>4. Leaves(t, D, r)'
    BY <1>5, <1>7, <1>9 DEF Leaves, Left
  <2> QED
    BY <2>1, <2>2, <2>3, <2>4 DEF Mine
<1>20. Single(q)'
  <2>1. \A u \in Thread : thr'[u].pc \in Opening => thr[u].pc \in Opening
    BY <1>5 DEF Others, Opening
  <2>2. \A u, v \in Thread : thr'[u].pc \in Opening /\ thr'[v].pc \in Opening => u = v
    BY <1>2, <2>1 DEF Single
  <2>3. \A u, v \in Thread : thr'[u].pc \in Pushing /\ thr'[v].pc \in Pushing => u = v
    <3>1. \A u \in Thread \ {t} : thr'[u].pc \notin Pushing
      <4> SUFFICES ASSUME NEW u \in Thread \ {t}, thr[u].pc \in Pushing
                   PROVE  FALSE
        BY <1>5 DEF Others
      <4>1. Frees(u, p, r) /\ thr[u].k \in Int
        BY DEF IInv, TypeOK, ThrType
      <4>2. thr[u].k = k - 1
        BY <1>3, <4>1 DEF Frees
      <4>3. Done(u, k, D)
        OBVIOUS
      <4> QED
        BY <1>4, <4>1, <4>2, <4>3 DEF Done
    <3> QED
      BY <3>1
  <2>4. \A w \in WS : q[w] = "live" /\ ws'[w].next = Unset => \A u \in Thread : thr'[u].pc \notin Opening
    BY <1>2, <1>6, <1>11, <2>1 DEF Single
  <2>5. \A w \in WS : q[w] = "fill" => \E u \in Thread : thr'[u].pc = "fill" /\ thr'[u].ws = w
    <3>1. \A w \in WS : q[w] = "fill" => \E u \in Thread : thr[u].pc = "fill" /\ thr[u].ws = w
      BY <1>2, <1>11 DEF Single
    <3> QED
      BY <1>5, <3>1 DEF Others
  <2> QED
    BY <2>2, <2>3, <2>4, <2>5 DEF Single
<1>21. Stored(q, r)'
  <2>1. ASSUME NEW w \in WS, q[w] = "live", kinds'[r[w]] = "copy"
        PROVE  \/ ws'[w].copyprivate = r[w]
               \/ \E u \in Thread : thr'[u].pc = "in" /\ thr'[u].k = r[w] /\ thr'[u].first
    <3>1. \/ ws[w].copyprivate = r[w]
          \/ \E u \in Thread : thr[u].pc = "in" /\ thr[u].k = r[w] /\ thr[u].first
      BY <1>2, <1>5, <1>11, <2>1 DEF Stored
    <3> QED
      BY <1>5, <1>6, <2>1, <3>1 DEF Others
  <2> QED
    BY <2>1 DEF Stored
<1>22. \A u \in Thread : Mine(u, q, r, hi, D)'
  BY <1>18, <1>19
<1>23. IInv(q, r, hi, D)'
  BY <1>1, <1>8, <1>10, <1>13, <1>16, <1>17, <1>20, <1>21, <1>22 DEF IInv, Memory, Mine
<1> QED
  BY <1>23

(* The types are kept when threads_completed is counted.                   *)
LEMMA CompletedTyped ==
  ASSUME NEW v \in [WS -> WsType], NEW m \in WS, NEW d \in Nat
  PROVE  [v EXCEPT ![m].completed = d] \in [WS -> WsType]
BY DEF WsType

(* The last of all threads to be done with a construct that does not end   *)
(* in a barrier.                                                           *)
LEMMA EndsLast ==
  ASSUME NEW p, NEW r, NEW hi, NEW D, NEW t \in Thread, IInv(p, r, hi, D),
         thr[t].pc = "copied" \/ (thr[t].pc = "in" /\ kinds[thr[t].k] = "nowait"),
         thr[t].last # NULL, NEW d, d = ws[thr[t].ws].completed + 1, d = TeamSize,
         NEW n, n = ws[thr[t].last].uses - 1,
         team' = [team EXCEPT !.to_free = thr[t].ws],
         ws' = [ws EXCEPT ![thr[t].last].uses = n, ![thr[t].ws].completed = d],
         Set(t, [thr[t] EXCEPT !.pc = "push", !.loc = thr[t].last]), kinds' = kinds
  PROVE  \E q : IInv(q, r, hi, D)'
<1>1. /\ thr[t] \in ThrType /\ thr \in [Thread -> ThrType] /\ team \in TeamType
      /\ ws \in [WS -> WsType] /\ kinds \in [0 .. Constructs -> Kinds]
      /\ AtWs(t, p, r) /\ Inside(t, p, r) /\ Leaves(t, D, r)
  BY ThreadFacts
<1>2. Region /\ Counted(p, r, D) /\ Together /\ Arrivals
  BY DEF IInv
<1> PICK k : k = thr[t].k
  OBVIOUS
<1> PICK l : l = thr[t].last
  OBVIOUS
<1> PICK m : m = thr[t].ws
  OBVIOUS
<1>3. Keeps(t, p, r) /\ kinds[k] # "barrier" /\ (thr[t].pc = "in" => kinds[k] # "copy")
  BY <1>1 DEF Inside
<1>4. /\ m \in WS /\ p[m] = "live" /\ r[m] = k /\ k \in 0 .. Constructs /\ k \in Int
      /\ l \in WS /\ n \in Int /\ d \in Nat
  <2>1. m \in WS /\ k \in 0 .. Constructs /\ l \in WS
    BY <1>1, <1>3 DEF ThrType, Keeps
  <2>2. ws[m].completed \in Nat /\ ws[l].uses \in Int
    BY <1>1, <2>1 DEF WsType
  <2> QED
    BY <1>1, <2>1, <2>2 DEF AtWs
<1>5. k >= 1
  BY <1>1, <1>2, <1>4 DEF Inside, Region
<1>6. Busy(t, D) /\ t \notin D
  BY <1>1 DEF Busy, Leaves, Left
<1>7. \A u \in Thread \ {t} : Done(u, k, D)
  <2>1. ws[m].completed = Cardinality(DoneSet(k, D))
    BY <1>2, <1>3, <1>4, <1>5 DEF Counted
  <2>2. ~Done(t, k, D)
    BY <1>4, <1>6 DEF Done
  <2>3. DoneSet(k, D) \subseteq Thread \ {t}
    BY <2>2 DEF DoneSet
  <2>4. IsFiniteSet(Thread \ {t}) /\ Cardinality(Thread \ {t}) = TeamSize - 1
    BY WorkShareAssumption, FS_RemoveElement DEF TeamSize
  <2>5. ws[m].completed \in Nat
    BY <1>1, <1>4 DEF WsType
  <2>6. Cardinality(DoneSet(k, D)) = Cardinality(Thread \ {t})
    BY <2>1, <2>4, <2>5
  <2>7. DoneSet(k, D) = Thread \ {t}
    BY <2>3, <2>4, <2>6, FS_Subset
  <2> QED
    BY <2>7 DEF DoneSet
<1> DEFINE T == [thr[t] EXCEPT !.pc = "push", !.loc = thr[t].last]
<1>8. T \in ThrType /\ T.pc = "push" /\ T.ws = m /\ T.k = k /\ T.loc = l
  BY <1>1 DEF ThrType, Labels, Pushing
<1>9. Set(t, T)
  OBVIOUS
<1> HIDE DEF T
<1>10. /\ thr' \in [Thread -> ThrType] /\ Others(t)
       /\ thr'[t].pc = "push" /\ thr'[t].ws = m /\ thr'[t].k = k /\ thr'[t].loc = l
  BY <1>1, <1>8, <1>9, SetThread DEF Others
<1>11. /\ ws' \in [WS -> WsType] /\ ws'[m].completed = d /\ ws'[l].uses = n
       /\ \A w \in WS : /\ ws'[w].next = ws[w].next /\ ws'[w].free = ws[w].free
                        /\ ws'[w].copyprivate = ws[w].copyprivate
                        /\ w # l => ws'[w].uses = ws[w].uses
                        /\ w # m => ws'[w].completed = ws[w].completed
  <2>1. ws' = [ws EXCEPT ![l].uses = n, ![m].completed = d]
    OBVIOUS
  <2>2. ws' \in [WS -> WsType]
    <3> PICK v : v = [ws EXCEPT ![l].uses = n]
      OBVIOUS
    <3>1. v \in [WS -> WsType]
      BY <1>1, <1>4 DEF WsType
    <3>2. ws' = [v EXCEPT ![m].completed = d]
      BY <2>1, Zenon
    <3>3. m \in WS /\ d \in Nat
      BY <1>4
    <3>4. [v EXCEPT ![m].completed = d] \in [WS -> WsType]
      BY <3>1, <3>3, CompletedTyped, Zenon
    <3> QED
      BY <3>2, <3>4, Zenon
  <2>3. ws'[m].completed = d /\ ws'[l].uses = n
    BY <1>1, <1>4, <2>1 DEF WsType
  <2>4. ASSUME NEW w \in WS
        PROVE  /\ ws'[w].next = ws[w].next /\ ws'[w].free = ws[w].free
               /\ ws'[w].copyprivate = ws[w].copyprivate
               /\ w # l => ws'[w].uses = ws[w].uses
               /\ w # m => ws'[w].completed = ws[w].completed
    BY <1>1, <1>4, <2>1 DEF WsType
  <2> QED
    BY <2>2, <2>3, <2>4
<1>12. /\ team' \in TeamType /\ team'.to_free = m
       /\ team'.alloc = team.alloc /\ team'.free = team.free /\ team'.chunk = team.chunk
       /\ team'.used = team.used /\ team'.over = team.over /\ team'.gen = team.gen
       /\ team'.cancelled = team.cancelled /\ team'.cancellable = team.cancellable
       /\ team'.arrived = team.arrived
  BY <1>1, <1>4 DEF TeamType
<1>13. FreesLast(t)
  BY <1>10, <1>11, <1>12 DEF FreesLast
<1>14. \A u \in Thread \ {t} : /\ \A j : Passed(u, j)' <=> Passed(u, j)
                               /\ Waiting(u)' <=> Waiting(u)
  BY <1>10, <1>12, OthersProgress
<1>15. SamePassed
  <2>1. ASSUME NEW j \in 1 .. Constructs, kinds[j] # "nowait"
        PROVE  Passed(t, j)' <=> Passed(t, j)
    <3>1. j = k => Past(t) /\ Past(t)'
      BY <1>3, <1>10, <2>1 DEF Past, Pushing
    <3> QED
      BY <1>10, <3>1 DEF Passed
  <2>2. thr[t].pc \notin Left
    BY DEF Left
  <2> QED
    BY <1>10, <1>14, <2>1, <2>2 DEF SamePassed, Others
<1>16. SameWaiting
  <2>1. ~Waiting(t) /\ ~Waiting(t)'
    BY <1>3, <1>10 DEF Waiting, Pushing
  <2> QED
    BY <1>12, <1>14, <2>1 DEF SameWaiting
<1>17. Together' /\ Arrivals'
  BY <1>2, <1>15, <1>16, TogetherFrame, ArrivalsFrame
<1>18. thr[t].pc \in {"in", "copied"}
  OBVIOUS
<1> QED
  BY <1>3, <1>7, <1>13, <1>17, <1>18, Advance

(* gomp_work_share_end_nowait, by the last thread or by another.           *)
LEMMA EndNowaitStep ==
  ASSUME NEW p, NEW r, NEW hi, NEW D, NEW t \in Thread, IInv(p, r, hi, D), EndNowait(t)
  PROVE  \E q : IInv(q, r, hi, D)'
<1> PICK d : d = ws[thr[t].ws].completed + 1
  OBVIOUS
<1> PICK n : n = ws[thr[t].last].uses - 1
  OBVIOUS
<1>1. thr[t].pc = "copied" \/ (thr[t].pc = "in" /\ kinds[thr[t].k] = "nowait")
  BY DEF EndNowait
<1>2. kinds' = kinds
  BY DEF EndNowait
<1>3. CASE thr[t].last = NULL
  <2>1. Set(t, [thr[t] EXCEPT !.pc = "idle"]) /\ UNCHANGED <<ws, team, kinds>>
    BY <1>3 DEF EndNowait
  <2>2. thr[t].pc \in {"in", "copied"} /\ (kinds[thr[t].k] # "copy" \/ thr[t].pc = "copied")
    BY <1>1
  <2>3. IInv(p, r, hi, D)'
    BY <1>3, <2>1, <2>2, FirstEnds
  <2> QED
    BY <2>3
<1>4. CASE thr[t].last # NULL /\ d # TeamSize
  <2>1. ws' = [ws EXCEPT ![thr[t].ws].completed = d]
    BY <1>4, Zenon DEF EndNowait
  <2>2. Set(t, [thr[t] EXCEPT !.pc = "idle", !.last = NULL]) /\ UNCHANGED <<team, kinds>>
    BY <1>4 DEF EndNowait
  <2>3. IInv(p, r, hi, D)'
    BY <1>1, <1>4, <2>1, <2>2, EndsEarly
  <2> QED
    BY <2>3
<1>5. CASE thr[t].last # NULL /\ d = TeamSize
  <2>1. /\ team' = [team EXCEPT !.to_free = thr[t].ws]
        /\ ws' = [ws EXCEPT ![thr[t].last].uses = n, ![thr[t].ws].completed = d]
        /\ Set(t, [thr[t] EXCEPT !.pc = "push", !.loc = thr[t].last])
    BY <1>5, Zenon DEF EndNowait
  <2> QED
    BY <1>1, <1>2, <1>5, <2>1, EndsLast
<1> QED
  BY <1>3, <1>4, <1>5

(* The last thread at the barrier of a construct, which is still closed.   *)
LEMMA ArrivesLast ==
  ASSUME NEW p, NEW r, NEW hi, NEW D, NEW t \in Thread, IInv(p, r, hi, D),
         thr[t].pc = "in", kinds[thr[t].k] = "barrier", ~team.cancelled,
         team.arrived = TeamSize - 1, NEW n, n = ws[thr[t].last].uses - 1,
         team' = [team EXCEPT !.to_free = thr[t].ws, !.arrived = TeamSize],
         ws' = [ws EXCEPT ![thr[t].last].uses = n],
         Set(t, [thr[t] EXCEPT !.pc = "push", !.loc = thr[t].last]), kinds' = kinds
  PROVE  \E q : IInv(q, r, hi, D)'
<1>1. /\ thr[t] \in ThrType /\ thr \in [Thread -> ThrType] /\ team \in TeamType
      /\ ws \in [WS -> WsType]
  BY ThreadFacts
<1> PICK k : k = thr[t].k
  OBVIOUS
<1> PICK l : l = thr[t].last
  OBVIOUS
<1> PICK m : m = thr[t].ws
  OBVIOUS
<1>2. /\ Keeps(t, p, r) /\ \A u \in Thread : u \notin D
  BY AtTheBarrier
<1>3. \A u \in Thread \ {t} : thr[u].pc = "bar" /\ thr[u].gen = team.gen /\ thr[u].k = k
  BY AllArrived
<1>4. \A u \in Thread \ {t} : Done(u, k, D)
  BY <1>2, <1>3 DEF Done, Busy
<1>5. m \in WS /\ l \in WS /\ n \in Int /\ k \in Int
  <2>1. m \in WS /\ l \in WS /\ k \in Int
    BY <1>1, <1>2 DEF ThrType, Keeps
  <2>2. ws[l].uses \in Int
    BY <1>1, <2>1 DEF WsType
  <2> QED
    BY <2>1, <2>2
<1> DEFINE T == [thr[t] EXCEPT !.pc = "push", !.loc = thr[t].last]
<1>6. T \in ThrType /\ T.pc = "push" /\ T.ws = m /\ T.k = k /\ T.loc = l
  BY <1>1 DEF ThrType, Labels, Pushing
<1>7. Set(t, T)
  OBVIOUS
<1> HIDE DEF T
<1>8. /\ thr' \in [Thread -> ThrType] /\ Others(t)
      /\ thr'[t].pc = "push" /\ thr'[t].ws = m /\ thr'[t].k = k /\ thr'[t].loc = l
  BY <1>1, <1>6, <1>7, SetThread DEF Others
<1>9. /\ ws' \in [WS -> WsType] /\ ws'[l].uses = n
      /\ \A w \in WS : /\ ws'[w].next = ws[w].next /\ ws'[w].free = ws[w].free
                       /\ ws'[w].copyprivate = ws[w].copyprivate
                       /\ w # l => ws'[w].uses = ws[w].uses
                       /\ ws'[w].completed = ws[w].completed
  BY <1>1, <1>5 DEF WsType
<1>10. TeamSize \in Nat
  BY WorkShareAssumption, FS_CardinalityType DEF TeamSize
<1>11. /\ team' \in TeamType /\ team'.to_free = m
       /\ team'.alloc = team.alloc /\ team'.free = team.free /\ team'.chunk = team.chunk
       /\ team'.used = team.used /\ team'.over = team.over /\ team'.gen = team.gen
       /\ team'.cancelled = team.cancelled /\ team'.cancellable = team.cancellable
       /\ team'.arrived = TeamSize
  BY <1>1, <1>5, <1>10 DEF TeamType
<1>12. FreesLast(t)
  BY <1>8, <1>9, <1>11 DEF FreesLast
<1>13. Together'
  <2>1. \A u \in Thread \ {t} : \A j : Passed(u, j)' <=> Passed(u, j)
    BY <1>8, <1>11, OthersProgress
  <2>2. \A j : Passed(t, j)' <=> Passed(t, j)
    BY <1>8, <1>11 DEF Passed, Past, Between, Opening, Pushing, Left
  <2>3. thr[t].pc \notin Left
    BY DEF Left
  <2>4. SamePassed
    BY <1>8, <2>1, <2>2, <2>3 DEF SamePassed, Others
  <2> QED
    BY <2>4, TogetherFrame DEF IInv
<1>14. Arrivals'
  <2>1. \A u \in Thread : Waiting(u)'
    BY <1>3, <1>8, <1>11 DEF Waiting, Others, Pushing
  <2>2. WaitSet' = Thread
    BY <2>1 DEF WaitSet
  <2> QED
    BY <1>11, <2>2 DEF Arrivals, TeamSize
<1>15. thr[t].pc \in {"in", "copied"} /\ kinds[thr[t].k] # "copy"
  OBVIOUS
<1> QED
  BY <1>2, <1>3, <1>4, <1>12, <1>13, <1>14, <1>15, Advance

(* gomp_work_share_end and gomp_work_share_end_cancel.                     *)
LEMMA EndBarrierStep ==
  ASSUME NEW p, NEW r, NEW hi, NEW D, NEW t \in Thread, IInv(p, r, hi, D), EndBarrier(t)
  PROVE  \E q : IInv(q, r, hi, D)'
<1>1. /\ thr[t] \in ThrType /\ team \in TeamType /\ ws \in [WS -> WsType]
  BY ThreadFacts
<1>2. thr[t].pc = "in" /\ kinds[thr[t].k] = "barrier" /\ ~team.cancelled /\ kinds' = kinds
  BY DEF EndBarrier
<1>3. thr[t].last # NULL
  <2>1. Keeps(t, p, r)
    BY <1>2, AtTheBarrier
  <2>2. NULL \notin WS
    BY WorkShareAssumption DEF WS
  <2> QED
    BY <2>1, <2>2 DEF Keeps
<1>4. CASE team.arrived = TeamSize - 1
  <2>1. PICK n : n = ws[thr[t].last].uses - 1
    OBVIOUS
  <2>2. /\ team' = [team EXCEPT !.to_free = thr[t].ws, !.arrived = TeamSize]
        /\ ws' = [ws EXCEPT ![thr[t].last].uses = n]
        /\ Set(t, [thr[t] EXCEPT !.pc = "push", !.loc = thr[t].last])
    BY <1>3, <1>4, <2>1, Zenon DEF EndBarrier
  <2> QED
    BY <1>2, <1>4, <2>1, <2>2, ArrivesLast
<1>5. CASE team.arrived # TeamSize - 1
  <2>1. PICK a : a = team.arrived + 1
    OBVIOUS
  <2>2. a \in Nat
    BY <1>1, <2>1 DEF TeamType
  <2>3. /\ team' = [team EXCEPT !.arrived = a, !.gen = team.gen] /\ ws' = ws
        /\ Set(t, [thr[t] EXCEPT !.pc = "bar", !.gen = team.gen])
    BY <1>1, <1>5, <2>1 DEF EndBarrier, TeamType
  <2>4. team' \in TeamType /\ SameTeam /\ team'.gen = team.gen /\ team'.arrived = a
    BY <1>1, <2>2, <2>3 DEF TeamType, SameTeam
  <2>5. StoresCopy(t)
    BY <1>1, <1>2, <2>3 DEF StoresCopy
  <2>6. IInv(p, r, hi, D)'
    BY <1>2, <1>5, <2>1, <2>3, <2>4, <2>5, ArrivesEarly
  <2> QED
    BY <2>6
<1> QED
  BY <1>4, <1>5
-----------------------------------------------------------------------------
(* What a thread pushes becomes the head of work_share_list_free.          *)
Pushed(h, p, r, q, s) ==
  /\ p[h] = "push" /\ ws[h].free = team.free /\ ws' = ws
  /\ team'.alloc = team.alloc /\ team'.free = h /\ q[h] = "free"
  /\ s[h] = IF team.free = NULL THEN 0 ELSE r[team.free] + 1
  /\ \A w \in WS : w # h => q[w] = p[w] /\ s[w] = r[w]

(* The list of freed work shares with a new head.                          *)
LEMMA PushedList ==
  ASSUME NEW p \in [WS -> Places], NEW r \in [WS -> Int], ws \in [WS -> WsType],
         Lists(p, r), Distinct(p, r), team \in TeamType,
         NEW h \in WS, NEW q, NEW s, Pushed(h, p, r, q, s)
  PROVE  Lists(q, s)' /\ Distinct(q, s)'
<1> USE DEF Pushed
<1> PICK e : e = team.free
  OBVIOUS
<1> PICK x : x = IF e = NULL THEN 0 ELSE r[e] + 1
  OBVIOUS
<1>1. e \in WS \cup {NULL} /\ x \in Int /\ team.alloc \in WS \cup {NULL} /\ h # NULL
  <2>1. e \in WS \cup {NULL} /\ team.alloc \in WS \cup {NULL}
    BY DEF TeamType
  <2>2. e # NULL => r[e] \in Int
    BY <2>1
  <2>3. x \in Int
    BY <2>2
  <2> QED
    BY <2>1, <2>3, WorkShareAssumption DEF WS
<1>2. q[h] = "free" /\ s[h] = x /\ \A w \in WS : w # h => q[w] = p[w] /\ s[w] = r[w]
  OBVIOUS
<1>3. IsList("alloc", team.alloc, p, r) /\ IsList("free", e, p, r)
  BY DEF Lists
<1>4. \A w \in WS : /\ q[w] = "alloc" <=> p[w] = "alloc"
                    /\ p[w] \in {"alloc", "free"} => w # h /\ q[w] = p[w] /\ s[w] = r[w]
                    /\ q[w] = "free" => w = h \/ p[w] = "free"
                    /\ ws[w].free \in WS \cup {NULL}
  BY <1>2 DEF WsType
<1>5. IsList("alloc", team.alloc, q, s)'
  BY <1>1, <1>3, <1>4 DEF IsList
<1>6. \A w \in WS : p[w] = "free" => e # NULL /\ r[w] <= r[e] /\ r[w] < x /\ r[w] \in Int
  <2> SUFFICES ASSUME NEW w \in WS, p[w] = "free"
               PROVE  e # NULL /\ r[w] <= r[e] /\ r[w] < x /\ r[w] \in Int
    OBVIOUS
  <2>1. e # NULL /\ r[w] <= r[e] /\ r[w] \in Int
    BY <1>3 DEF IsList
  <2>2. e \in WS /\ r[e] \in Int /\ x = r[e] + 1
    BY <1>1, <2>1
  <2> QED
    BY <2>1, <2>2
<1>7. IsList("free", team.free, q, s)'
  <2>1. q[h] = "free" /\ \A w \in WS : q[w] = "free" => s[w] <= s[h]
    <3> SUFFICES ASSUME NEW w \in WS, q[w] = "free"
                 PROVE  s[w] <= s[h]
      BY <1>2
    <3>1. CASE w = h
      BY <1>1, <1>2, <3>1
    <3>2. CASE w # h
      <4>1. p[w] = "free" /\ s[w] = r[w] /\ r[w] < x /\ r[w] \in Int
        BY <1>2, <1>6, <3>2
      <4> QED
        BY <1>1, <1>2, <4>1
    <3> QED
      BY <3>1, <3>2
  <2>2. ASSUME NEW w \in WS, q[w] = "free"
        PROVE  IF ws[w].free = NULL THEN \A v \in WS : q[v] = "free" => s[v] >= s[w]
               ELSE q[ws[w].free] = "free" /\ s[ws[w].free] = s[w] - 1
    <3>1. CASE w = h /\ e = NULL
      <4>1. \A v \in WS : q[v] = "free" => v = h
        BY <1>4, <1>6, <3>1
      <4> QED
        BY <1>1, <1>2, <3>1, <4>1
    <3>2. CASE w = h /\ e # NULL
      <4>1. e \in WS /\ p[e] = "free" /\ r[e] \in Int
        BY <1>1, <1>3, <3>2 DEF IsList
      <4>2. q[e] = "free" /\ s[e] = r[e]
        BY <1>4, <4>1
      <4>3. x = r[e] + 1 /\ r[e] = x - 1
        BY <3>2, <4>1
      <4> QED
        BY <1>2, <3>2, <4>2, <4>3
    <3>3. CASE w # h
      <4>1. p[w] = "free" /\ s[w] = r[w] /\ r[w] < x /\ r[w] \in Int
        BY <1>2, <1>6, <2>2, <3>3
      <4>2. CASE ws[w].free = NULL
        <5>1. \A v \in WS : p[v] = "free" => r[v] >= r[w]
          BY <1>3, <4>1, <4>2 DEF IsList
        <5> SUFFICES ASSUME NEW v \in WS, q[v] = "free"
                     PROVE  s[v] >= s[w]
          BY <4>2
        <5>2. CASE v = h
          BY <1>1, <1>2, <4>1, <5>2
        <5>3. CASE v # h
          BY <1>2, <4>1, <5>1, <5>3
        <5> QED
          BY <5>2, <5>3
      <4>3. CASE ws[w].free # NULL
        <5>1. p[ws[w].free] = "free" /\ r[ws[w].free] = r[w] - 1 /\ ws[w].free \in WS
          BY <1>3, <1>4, <4>1, <4>3 DEF IsList
        <5>2. q[ws[w].free] = "free" /\ s[ws[w].free] = r[ws[w].free]
          BY <1>4, <5>1
        <5> QED
          BY <4>1, <4>3, <5>1, <5>2
      <4> QED
        BY <4>2, <4>3
    <3> QED
      BY <3>1, <3>2, <3>3
  <2> QED
    BY <1>1, <2>1, <2>2 DEF IsList
<1>8. Distinct(q, s)'
  <2>1. ASSUME NEW v \in WS, NEW w \in WS, q[v] = q[w], s[v] = s[w],
               q[v] \in {"alloc", "free", "live"}
        PROVE  v = w
    <3>1. CASE v = h /\ w # h
      BY <1>1, <1>2, <1>6, <2>1, <3>1
    <3>2. CASE v # h /\ w = h
      BY <1>1, <1>2, <1>6, <2>1, <3>2
    <3>3. CASE v # h /\ w # h
      BY <1>2, <2>1, <3>3 DEF Distinct
    <3> QED
      BY <3>1, <3>2, <3>3
  <2> QED
    BY <2>1 DEF Distinct
<1> QED
  BY <1>2, <1>5, <1>7, <1>8 DEF Lists

(* The compare-and-swap succeeds; if this was a barrier, it opens.         *)
LEMMA CasSucceeds ==
  ASSUME NEW p, NEW r, NEW hi, NEW D, NEW t \in Thread, IInv(p, r, hi, D),
         thr[t].pc = "cas", team.free = thr[t].seen, UNCHANGED <<ws, kinds>>,
         Set(t, [thr[t] EXCEPT !.pc = "idle", !.last = NULL, !.loc = NULL, !.seen = NULL]),
         NEW g, NEW a, g = (IF kinds[thr[t].k] = "barrier" THEN team.gen + 1 ELSE team.gen),
         a = (IF kinds[thr[t].k] = "barrier" THEN 0 ELSE team.arrived),
         team' = [team EXCEPT !.free = thr[t].loc, !.gen = g, !.arrived = a]
  PROVE  \E q, s : IInv(q, s, hi, D)'
<1>1. /\ thr[t] \in ThrType /\ thr \in [Thread -> ThrType] /\ team \in TeamType
      /\ ws \in [WS -> WsType] /\ kinds \in [0 .. Constructs -> Kinds]
      /\ p \in [WS -> Places] /\ r \in [WS -> Int] /\ hi \in Nat /\ D \in SUBSET Thread
      /\ AtWs(t, p, r) /\ Frees(t, p, r) /\ Leaves(t, D, r)
  BY ThreadFacts
<1>2. /\ Region /\ Lists(p, r) /\ Distinct(p, r) /\ Raw(p) /\ Uses(p) /\ Chained(p, r, hi)
      /\ Counted(p, r, D) /\ Behind(r, hi, D) /\ Single(p) /\ Together /\ Arrivals /\ Stored(p, r)
  BY DEF IInv
<1> PICK h : h = thr[t].loc
  OBVIOUS
<1> PICK k : k = thr[t].k
  OBVIOUS
<1>3. h \in WS /\ p[h] = "push" /\ ws[h].free = team.free /\ k \in Int
  BY <1>1 DEF Frees, Pushing, ThrType
<1>4. g \in Nat /\ a \in Nat /\ g >= team.gen /\ team.gen \in Nat
  <2>1. team.gen \in Nat /\ team.arrived \in Nat
    BY <1>1 DEF TeamType
  <2> QED
    BY <2>1
<1>5. /\ team' \in TeamType /\ team'.free = h /\ team'.gen = g /\ team'.arrived = a
      /\ team'.alloc = team.alloc /\ team'.chunk = team.chunk /\ team'.used = team.used
      /\ team'.to_free = team.to_free /\ team'.over = team.over
      /\ team'.cancelled = team.cancelled /\ team'.cancellable = team.cancellable
  BY <1>1, <1>3, <1>4 DEF TeamType
<1> DEFINE T == [thr[t] EXCEPT !.pc = "idle", !.last = NULL, !.loc = NULL, !.seen = NULL]
<1>6. T \in ThrType /\ T.pc = "idle" /\ T.ws = thr[t].ws /\ T.k = k /\ T.last = NULL
  BY <1>1 DEF ThrType, Labels, Between
<1>7. Set(t, T)
  OBVIOUS
<1> HIDE DEF T
<1>8. /\ thr' \in [Thread -> ThrType] /\ Others(t)
      /\ thr'[t].pc = "idle" /\ thr'[t].ws = thr[t].ws /\ thr'[t].k = k /\ thr'[t].last = NULL
  BY <1>1, <1>6, <1>7, SetThread DEF Others
<1>9. TypeOK' /\ Region'
  BY <1>1, <1>2, <1>5, <1>8 DEF TypeOK, Region
<1>10. t \notin D /\ ~team.over
  BY <1>1 DEF Leaves, Left
<1>11. SameDone(D, D)
  <2>1. \A u \in Thread \ {t} : thr'[u].k = thr[u].k /\ (Busy(u, D)' <=> Busy(u, D))
    BY <1>8 DEF Others, Busy
  <2>2. thr'[t].k = thr[t].k /\ (Busy(t, D)' <=> Busy(t, D))
    BY <1>8 DEF Busy
  <2> QED
    BY <2>1, <2>2 DEF SameDone, Done
<1>12. Together' /\ Arrivals'
  <2>1. CASE kinds[k] = "barrier"
    <3>1. ASSUME NEW u \in Thread
          PROVE  thr'[u].k = k /\ (Past(u)' \/ thr'[u].pc \in Left) /\ ~Waiting(u)'
      <4>1. CASE u = t
        BY <1>8, <4>1 DEF Past, Between, Waiting, Pushing
      <4>2. CASE u # t
        <5>1. /\ thr'[u] = thr[u] /\ thr[u].k = k
              /\ thr[u].pc \in Left \/ (thr[u].pc = "bar" /\ thr[u].gen = team.gen)
          BY <1>1, <1>8, <2>1, <4>2 DEF Frees, Pushing, Others
        <5>2. g # team.gen
          BY <1>4, <2>1
        <5> QED
          BY <1>5, <5>1, <5>2 DEF Past, Waiting, Left, Pushing
      <4> QED
        BY <4>1, <4>2
    <3>2. Together'
      BY <3>1 DEF Together, Passed
    <3>3. WaitSet' = {}
      BY <3>1 DEF WaitSet
    <3> QED
      BY <1>5, <2>1, <3>2, <3>3, FS_EmptySet DEF Arrivals
  <2>2. CASE kinds[k] # "barrier"
    <3>1. team'.gen = team.gen /\ team'.arrived = team.arrived
      BY <1>5, <2>2
    <3>2. \A u \in Thread \ {t} : /\ \A j : Passed(u, j)' <=> Passed(u, j)
                                  /\ Waiting(u)' <=> Waiting(u)
      BY <1>5, <1>8, <3>1, OthersProgress
    <3>3. Past(t) /\ Past(t)' /\ ~Waiting(t) /\ ~Waiting(t)' /\ thr[t].pc \notin Left
      BY <1>8, <2>2 DEF Past, Waiting, Between, Pushing, Left
    <3>4. SamePassed
      <4>1. \A j : Passed(t, j)' <=> Passed(t, j)
        BY <1>8, <3>3 DEF Passed
      <4> QED
        BY <1>8, <3>2, <3>3, <4>1 DEF SamePassed, Others
    <3>5. SameWaiting
      BY <1>5, <3>1, <3>2, <3>3 DEF SameWaiting
    <3> QED
      BY <1>2, <3>4, <3>5, TogetherFrame, ArrivalsFrame
  <2> QED
    BY <2>1, <2>2
<1> PICK q : q = [p EXCEPT ![h] = "free"]
  OBVIOUS
<1> PICK x : x = IF team.free = NULL THEN 0 ELSE r[team.free] + 1
  OBVIOUS
<1> PICK s : s = [r EXCEPT ![h] = x]
  OBVIOUS
<1>27. /\ q \in [WS -> Places] /\ s \in [WS -> Int] /\ q[h] = "free" /\ s[h] = x
       /\ \A w \in WS : w # h => q[w] = p[w] /\ s[w] = r[w]
  <2>1. q \in [WS -> Places] /\ q[h] = "free" /\ \A w \in WS : w # h => q[w] = p[w]
    BY <1>1, <1>3 DEF Places
  <2>2. x \in Int
    <3>1. team.free \in WS \cup {NULL}
      BY <1>1 DEF TeamType
    <3> QED
      BY <1>1, <3>1
  <2>3. s \in [WS -> Int] /\ s[h] = x /\ \A w \in WS : w # h => s[w] = r[w]
    BY <1>1, <1>3, <2>2
  <2> QED
    BY <2>1, <2>3
<1>13. Lists(q, s)' /\ Distinct(q, s)' /\ q \in [WS -> Places] /\ s \in [WS -> Int]
  <2>1. Pushed(h, p, r, q, s)
    BY <1>3, <1>5, <1>27 DEF Pushed
  <2> QED
    BY <1>1, <1>2, <1>3, <1>27, <2>1, PushedList
<1>14. \A w \in WS : /\ w # h => q[w] = p[w]
                     /\ q[w] = "live" <=> p[w] = "live"
                     /\ q[w] = "fill" <=> p[w] = "fill"
                     /\ q[w] = "none" <=> p[w] = "none"
                     /\ p[w] = "new" => q[w] = "new"
                     /\ p[w] = "free" => q[w] = "free"
                     /\ p[w] = "live" => s[w] = r[w]
  BY <1>3, <1>27
<1>15. SameLive(p, r, q, s) /\ StillLive(p, r, q, s) /\ SameCompleted(p)
  BY <1>5, <1>14 DEF SameLive, StillLive, SameCompleted
<1>16. Memory(q, s, hi)'
  <2>1. Raw(q)' /\ Uses(q)'
    BY <1>2, <1>5, <1>14 DEF Raw, Uses
  <2>2. Chained(q, s, hi)'
    <3>1. team.to_free \in WS /\ \A w \in WS : p[w] = "live" => ws'[w].next = ws[w].next
      BY <1>1 DEF TeamType
    <3> QED
      BY <1>2, <1>15, <3>1, ChainedFrame
  <2> QED
    BY <1>13, <2>1, <2>2 DEF Memory
<1>17. Counted(q, s, D)' /\ Behind(s, hi, D)'
  <2>1. team.to_free \in WS
    BY <1>1 DEF TeamType
  <2> QED
    BY <1>1, <1>2, <1>11, <1>15, <2>1, CountedFrame, BehindFrame
<1>18. Stored(q, s)'
  <2>1. SameCopies(p, r)
    BY <1>8 DEF SameCopies, Others
  <2> QED
    BY <1>2, <1>15, <2>1, StoredFrame
<1>19. Single(q)'
  <2>1. SameRoles(t, p, q)
    BY <1>8, <1>14 DEF SameRoles, Opening, Pushing
  <2> QED
    BY <1>2, <1>8, <2>1, SingleFrame
<1>20. \A u \in Thread \ {t} : thr[u].pc \notin Pushing
  BY <1>2 DEF Single, Pushing
<1>21. SamePlaces(t, q)
  <2> SUFFICES ASSUME NEW u \in Thread \ {t}
               PROVE  SamePlaces(t, q)!(u)
    BY DEF SamePlaces
  <2>1. AtWs(u, p, r) /\ Opens(u, p, r, hi) /\ thr[u] \in ThrType
    BY DEF IInv, TypeOK
  <2>2. thr[u].pc = "fill" => q[thr[u].ws] = "fill"
    BY <1>14, <2>1 DEF AtWs, ThrType
  <2>3. thr[u].pc = "cut" => team'.alloc = team.alloc /\ (thr[u].loc # NULL => q[thr[u].loc] = "free")
    BY <1>5, <1>14, <2>1 DEF Opens, ThrType
  <2>4. thr[u].pc = "init" => q[thr[u].loc] = "new"
    BY <1>14, <2>1 DEF Opens
  <2>5. thr[u].pc # "cas" /\ thr[u].pc \notin Pushing
    BY <1>20 DEF Pushing
  <2> QED
    BY <2>2, <2>3, <2>4, <2>5
<1>22. SameBarrier(t) /\ Onward
  BY <1>4, <1>5, <1>20 DEF SameBarrier, Onward
<1>23. \A u \in Thread \ {t} : /\ AtWs(u, q, s)' /\ Opens(u, q, s, hi)' /\ Inside(u, q, s)'
                               /\ Frees(u, q, s)' /\ Leaves(u, D, s)'
  BY <1>5, <1>8, <1>15, <1>21, <1>22, OtherThreads
<1>24. Mine(t, q, s, hi, D)'
  <2>1. AtWs(t, q, s)'
    BY <1>1, <1>8, <1>14 DEF AtWs, ThrType
  <2>2. Opens(t, q, s, hi)' /\ Inside(t, q, s)' /\ Frees(t, q, s)'
    BY <1>8 DEF Opens, Opening, Inside, Frees, Pushing
  <2>3. Leaves(t, D, s)'
    BY <1>5, <1>8, <1>10 DEF Leaves, Left
  <2> QED
    BY <2>1, <2>2, <2>3 DEF Mine
<1>25. \A u \in Thread : /\ AtWs(u, q, s)' /\ Opens(u, q, s, hi)' /\ Inside(u, q, s)'
                         /\ Frees(u, q, s)' /\ Leaves(u, D, s)'
  BY <1>23, <1>24 DEF Mine
<1>26. IInv(q, s, hi, D)'
  BY <1>1, <1>9, <1>12, <1>13, <1>16, <1>17, <1>18, <1>19, <1>25 DEF IInv, Memory
<1> QED
  BY <1>26

(* The compare-and-swap of free_work_share. As only the thread that opens  *)
(* a construct takes from this list, and it leaves the head, a head that   *)
(* is the same as before stands for the same list.                         *)
LEMMA CasStep ==
  ASSUME NEW p, NEW r, NEW hi, NEW D, NEW t \in Thread, IInv(p, r, hi, D), Cas(t)
  PROVE  \E q, s : IInv(q, s, hi, D)'
<1>1. thr[t].pc = "cas" /\ UNCHANGED <<ws, kinds>>
  BY DEF Cas
<1>2. CASE team.free = thr[t].seen
  <2>1. PICK g : g = (IF kinds[thr[t].k] = "barrier" THEN team.gen + 1 ELSE team.gen)
    OBVIOUS
  <2>2. PICK a : a = (IF kinds[thr[t].k] = "barrier" THEN 0 ELSE team.arrived)
    OBVIOUS
  <2>3. Set(t, [thr[t] EXCEPT !.pc = "idle", !.last = NULL, !.loc = NULL, !.seen = NULL])
    BY <1>2, Zenon DEF Cas
  <2>4. team' = [team EXCEPT !.free = thr[t].loc, !.gen = g, !.arrived = a]
    <3>1. team \in TeamType
      BY DEF IInv, TypeOK
    <3> QED
      BY <1>2, <2>1, <2>2, <3>1 DEF Cas, TeamType
  <2> QED
    BY <1>1, <1>2, <2>1, <2>2, <2>3, <2>4, CasSucceeds
<1>3. CASE team.free # thr[t].seen
  <2>1. Set(t, [thr[t] EXCEPT !.pc = "push"]) /\ UNCHANGED team
    BY <1>3, Zenon DEF Cas
  <2>2. IInv(p, r, hi, D)'
    BY <1>1, <2>1, CasFails
  <2> QED
    BY <2>2
<1> QED
  BY <1>2, <1>3
-----------------------------------------------------------------------------
(* There are no more constructs with a work share than work shares.        *)
LEMMA ChainIsShort ==
  ASSUME NEW p, NEW r \in [WS -> Int], NEW hi \in Nat, Chained(p, r, hi), team.to_free \in WS
  PROVE  hi <= r[team.to_free] + MaxWs
<1> PICK lo : lo = r[team.to_free]
  OBVIOUS
<1>1. lo \in Int /\ hi \in Int /\ MaxWs \in Nat /\ \A j \in lo .. hi : \E w \in WS : r[w] = j
  BY WorkShareAssumption DEF Chained
<1> SUFFICES ASSUME hi > lo + MaxWs
             PROVE  FALSE
  BY <1>1
<1>2. IsFiniteSet(lo .. hi) /\ Cardinality(lo .. hi) = hi - lo + 1
  <2>1. /\ IsFiniteSet(lo .. hi)
        /\ Cardinality(lo .. hi) = IF lo > hi THEN 0 ELSE hi - lo + 1
    BY <1>1, FS_Interval, Zenon
  <2> QED
    BY <1>1, <2>1
<1>3. IsFiniteSet(WS) /\ Cardinality(WS) = MaxWs
  <2> PICK b : b = MaxWs - 1
    OBVIOUS
  <2>1. 0 \in Int /\ b \in Int
    BY <1>1
  <2>2. IsFiniteSet(0 .. b) /\ Cardinality(0 .. b) = IF 0 > b THEN 0 ELSE b - 0 + 1
    BY <2>1, FS_Interval, Zenon
  <2>3. WS = 0 .. b
    BY DEF WS
  <2> QED
    BY <1>1, <2>1, <2>2, <2>3
<1>4. Cardinality(WS) < Cardinality(lo .. hi)
  BY <1>1, <1>2, <1>3
<1> DEFINE c == [j \in lo .. hi |-> CHOOSE w \in WS : r[w] = j]
<1>5. \A j \in lo .. hi : c[j] \in WS /\ r[c[j]] = j
  BY <1>1
<1>6. c \in [lo .. hi -> WS]
  BY <1>5
<1> HIDE DEF c
<1>7. \E x, y \in lo .. hi : x # y /\ c[x] = c[y]
  BY <1>2, <1>3, <1>4, <1>6, FS_PigeonHole
<1> QED
  BY <1>5, <1>7

(* gomp_team_end finishes what the constructs have left.                   *)
LEMMA LeftAreLive ==
  ASSUME NEW p, NEW r, NEW hi, NEW D, IInv(p, r, hi, D), \A t \in Thread : thr[t].pc = "final",
         NEW left, left = IF team.cancelled THEN Chain(team.to_free) ELSE {thr[Master].ws}
  PROVE  \A w \in WS : w \in left <=> p[w] = "live"
<1>1. /\ p \in [WS -> Places] /\ r \in [WS -> Int] /\ hi \in Nat /\ team \in TeamType
      /\ thr \in [Thread -> ThrType] /\ Chained(p, r, hi) /\ Distinct(p, r) /\ Behind(r, hi, D)
      /\ Master \in Thread /\ team.to_free \in WS
  BY WorkShareAssumption DEF IInv, TypeOK, TeamType
<1>2. CASE team.cancelled
  <2> DEFINE S == {w \in WS : p[w] = "live"}
             succ == [v \in WS |-> ws[v].next]
  <2>1. /\ S \in SUBSET WS /\ team.to_free \in S /\ \A v \in S : r[v] <= hi
        /\ \A v, w \in S : r[v] = r[w] => v = w
        /\ \A v \in S : r[team.to_free] <= r[v]
    BY <1>1 DEF Chained, Distinct
  <2>2. \A v \in S : r[v] < hi => succ[v] \in S /\ r[succ[v]] = r[v] + 1
    BY <1>1 DEF Chained
  <2>3. \A v \in S : succ[v] \in WS => succ[v] \in S
    <3> SUFFICES ASSUME NEW v \in S, succ[v] \in WS
                 PROVE  succ[v] \in S
      OBVIOUS
    <3>1. r[v] = hi => succ[v] \notin WS
      BY <1>1 DEF Chained, Unset, Claimed, WS
    <3>2. r[v] \in Int /\ r[v] <= hi
      BY <1>1, <2>1
    <3> QED
      BY <1>1, <2>2, <3>1, <3>2
  <2>4. left = Reached(succ, team.to_free)
    BY <1>2 DEF Chain
  <2> HIDE DEF succ
  <2>5. Reached(succ, team.to_free) \subseteq S
    BY <2>1, <2>3, ReachedInside
  <2>6. ASSUME NEW u \in S
        PROVE  u \in Reached(succ, team.to_free)
    <3>1. r[u] \in Int /\ r[team.to_free] \in Int /\ MaxWs \in Nat /\ hi \in Int
      BY <1>1, WorkShareAssumption
    <3>2. r[u] <= hi /\ hi <= r[team.to_free] + MaxWs
      BY <1>1, <2>1, ChainIsShort
    <3>3. r[team.to_free] <= r[u] /\ r[u] <= r[team.to_free] + MaxWs
      BY <2>1, <3>1, <3>2
    <3> HIDE DEF S
    <3> QED
      BY <1>1, <2>1, <2>2, <3>1, <3>3, ReachedAll
  <2> QED
    BY <2>4, <2>5, <2>6
<1>3. CASE ~team.cancelled
  <2>1. \A t \in Thread : thr[t].k = Constructs /\ t \notin D /\ AtWs(t, p, r) /\ thr[t].ws \in WS
    <3>1. \A t \in Thread : Leaves(t, D, r) /\ AtWs(t, p, r) /\ thr[t] \in ThrType
      BY DEF IInv, TypeOK
    <3> QED
      BY <1>3, <3>1 DEF Leaves, ThrType
  <2>2. p[thr[Master].ws] = "live" /\ r[thr[Master].ws] = Constructs /\ thr[Master].ws \in WS
    BY <1>1, <2>1 DEF AtWs
  <2>3. hi = Constructs
    <3>1. Constructs <= hi /\ hi <= Constructs
      BY <1>1, <2>2 DEF Chained
    <3> QED
      BY <1>1, <3>1, WorkShareAssumption
  <2>4. \A t \in Thread : Done(t, Constructs, D)
    BY <2>1 DEF Done, Busy
  <2>5. ~(Constructs > r[team.to_free])
    <3> SUFFICES ASSUME Constructs > r[team.to_free]
                 PROVE  FALSE
      OBVIOUS
    <3>1. r[team.to_free] >= 0 /\ r[team.to_free] \in Int
      BY <1>1 DEF Chained
    <3>2. Constructs \in 1 .. hi
      BY <2>3, <3>1, WorkShareAssumption
    <3> QED
      BY <1>1, <2>4, <3>2 DEF Behind
  <2>6. \A w \in WS : p[w] = "live" => r[w] = Constructs
    <3> SUFFICES ASSUME NEW w \in WS, p[w] = "live"
                 PROVE  r[w] = Constructs
      OBVIOUS
    <3>1. r[team.to_free] <= r[w] /\ r[w] <= hi
      BY <1>1 DEF Chained
    <3>2. r[team.to_free] \in Int /\ r[w] \in Int
      BY <1>1
    <3> QED
      BY <2>3, <2>5, <3>1, <3>2, WorkShareAssumption
  <2>7. \A w \in WS : p[w] = "live" => w = thr[Master].ws
    BY <1>1, <2>2, <2>6 DEF Distinct
  <2> QED
    BY <1>3, <2>2, <2>7
<1> QED
  BY <1>2, <1>3

(* gomp_team_end.                                                          *)
LEMMA TeamEndStep ==
  ASSUME NEW p, NEW r, NEW hi, NEW D, IInv(p, r, hi, D), TeamEnd
  PROVE  IInv(p, r, hi, D)'
<1>1. /\ p \in [WS -> Places] /\ r \in [WS -> Int] /\ hi \in Nat /\ D \in SUBSET Thread
      /\ TypeOK /\ Region /\ Lists(p, r) /\ Distinct(p, r) /\ Raw(p) /\ Uses(p)
      /\ Chained(p, r, hi) /\ Counted(p, r, D) /\ Behind(r, hi, D)
      /\ Single(p) /\ Together /\ Arrivals /\ Stored(p, r)
  BY DEF IInv
<1>2. /\ ws \in [WS -> WsType] /\ thr \in [Thread -> ThrType] /\ team \in TeamType
      /\ kinds \in [0 .. Constructs -> Kinds] /\ team.to_free \in WS
  BY <1>1 DEF TypeOK, TeamType
<1> PICK left : left = IF team.cancelled THEN Chain(team.to_free) ELSE {thr[Master].ws}
  OBVIOUS
<1>3. /\ \A t \in Thread : thr[t].pc = "final" /\ thr[t].pc \in Left
      /\ ws' = [w \in WS |-> IF w \in left THEN [ws[w] EXCEPT !.uses = @ - 1] ELSE ws[w]]
      /\ thr' = [t \in Thread |-> [thr[t] EXCEPT !.pc = "over"]]
      /\ team' = [team EXCEPT !.over = TRUE] /\ kinds' = kinds
  BY DEF TeamEnd, Left
<1>4. \A w \in WS : w \in left <=> p[w] = "live"
  BY <1>3, LeftAreLive
<1>5. /\ team' \in TeamType /\ team'.over /\ team'.alloc = team.alloc /\ team'.free = team.free
      /\ team'.chunk = team.chunk /\ team'.used = team.used /\ team'.to_free = team.to_free
      /\ team'.arrived = team.arrived /\ team'.gen = team.gen /\ team'.cancelled = team.cancelled
      /\ team'.cancellable = team.cancellable
  BY <1>2, <1>3 DEF TeamType
<1>6. \A t \in Thread : /\ thr'[t] \in ThrType /\ thr'[t].pc = "over" /\ thr'[t].ws = thr[t].ws
                        /\ thr'[t].k = thr[t].k /\ thr'[t].pc \in Left
  BY <1>2, <1>3 DEF ThrType, Labels, Left
<1>7. thr' \in [Thread -> ThrType]
  BY <1>3, <1>6
<1>8. ~team.over
  <2>1. Leaves(Master, D, r) /\ thr[Master].pc = "final"
    BY <1>3, WorkShareAssumption DEF IInv
  <2> QED
    BY <2>1 DEF Leaves
<1>9. \A w \in WS : p[w] # "fill"
  BY <1>1, <1>3 DEF Single
<1>10. ASSUME NEW w \in WS
       PROVE  /\ ws'[w] \in WsType /\ ws'[w].next = ws[w].next /\ ws'[w].free = ws[w].free
              /\ ws'[w].completed = ws[w].completed /\ ws'[w].copyprivate = ws[w].copyprivate
              /\ ws'[w].uses = 0
  <2>1. ws[w] \in WsType /\ ws[w].uses = IF p[w] = "live" THEN 1 ELSE 0
    BY <1>1, <1>2, <1>8, <1>9 DEF Uses
  <2>2. CASE p[w] = "live"
    <3>1. PICK n : n = ws[w].uses - 1
      OBVIOUS
    <3>2. n = 0 /\ n \in Int
      BY <2>1, <2>2, <3>1
    <3>3. ws'[w] = [ws[w] EXCEPT !.uses = n]
      BY <1>3, <1>4, <2>2, <3>1
    <3> QED
      BY <2>1, <3>2, <3>3 DEF WsType
  <2>3. CASE p[w] # "live"
    <3>1. ws'[w] = ws[w]
      BY <1>3, <1>4, <2>3
    <3> QED
      BY <2>1, <2>3, <3>1
  <2> QED
    BY <2>2, <2>3
<1>11. ws' \in [WS -> WsType]
  BY <1>3, <1>10
<1>12. TypeOK' /\ Region'
  BY <1>1, <1>2, <1>3, <1>5, <1>7, <1>11 DEF TypeOK, Region
<1>13. SameLive(p, r, p, r) /\ SameCompleted(p)
  BY <1>5, <1>10 DEF SameLive, SameCompleted
<1>14. Memory(p, r, hi)'
  <2>1. \A w \in WS : ws[w].free \in WS \cup {NULL}
    BY <1>2 DEF WsType
  <2>2. team.alloc \in WS \cup {NULL} /\ team.free \in WS \cup {NULL}
    BY <1>2 DEF TeamType
  <2>3. Lists(p, r)'
    BY <1>1, <1>5, <1>10, <2>1, <2>2 DEF Lists, IsList
  <2>4. Distinct(p, r)' /\ Raw(p)'
    BY <1>1, <1>5, <1>10 DEF Distinct, Raw
  <2>5. Uses(p)'
    BY <1>5, <1>10 DEF Uses
  <2>6. Chained(p, r, hi)'
    BY <1>1, <1>2, <1>10, <1>13, ChainedFrame
  <2> QED
    BY <2>3, <2>4, <2>5, <2>6 DEF Memory
<1>15. \A t \in Thread : /\ Busy(t, D)' <=> Busy(t, D)
                         /\ Past(t)' <=> Past(t)
                         /\ ~Waiting(t) /\ ~Waiting(t)'
  BY <1>3, <1>5, <1>6 DEF Busy, Past, Waiting, Between, Opening, Pushing, Left
<1>16. SameDone(D, D) /\ SamePassed /\ SameWaiting
  <2>1. SameDone(D, D)
    BY <1>6, <1>15 DEF SameDone, Done
  <2>2. SamePassed
    BY <1>3, <1>6, <1>15 DEF SamePassed, Passed
  <2>3. SameWaiting
    BY <1>5, <1>15 DEF SameWaiting
  <2> QED
    BY <2>1, <2>2, <2>3
<1>17. Counted(p, r, D)' /\ Behind(r, hi, D)'
  BY <1>1, <1>2, <1>3, <1>13, <1>16, CountedFrame, BehindFrame
<1>18. Together' /\ Arrivals'
  BY <1>1, <1>3, <1>16, TogetherFrame, ArrivalsFrame
<1>19. Stored(p, r)'
  <2>1. SameCopies(p, r)
    BY <1>3, <1>10 DEF SameCopies
  <2> QED
    BY <1>1, <1>3, <1>13, <2>1, StoredFrame
<1>20. Single(p)'
  BY <1>6, <1>9 DEF Single, Opening, Pushing
<1>21. ASSUME NEW t \in Thread
       PROVE  /\ AtWs(t, p, r)' /\ Opens(t, p, r, hi)' /\ Inside(t, p, r)'
              /\ Frees(t, p, r)' /\ Leaves(t, D, r)'
  <2>1. AtWs(t, p, r) /\ Leaves(t, D, r)
    BY DEF IInv
  <2>2. AtWs(t, p, r)'
    BY <1>3, <1>6, <2>1 DEF AtWs
  <2>3. Opens(t, p, r, hi)' /\ Inside(t, p, r)' /\ Frees(t, p, r)'
    BY <1>6 DEF Opens, Opening, Inside, Frees, Pushing
  <2>4. Leaves(t, D, r)'
    BY <1>5, <1>6, <2>1 DEF Leaves
  <2> QED
    BY <2>2, <2>3, <2>4
<1> QED
  BY <1>1, <1>12, <1>14, <1>17, <1>18, <1>19, <1>20, <1>21 DEF IInv, Memory
-----------------------------------------------------------------------------
(* gomp_work_share_start, for each answer of gomp_ptrlock_get.             *)
LEMMA StartStep ==
  ASSUME NEW p, NEW r, NEW hi, NEW D, NEW t \in Thread, IInv(p, r, hi, D), Start(t)
  PROVE  IInv(p, r, hi, D)'
<1>1. thr[t] \in ThrType
  BY ThreadFacts
<1> DEFINE T == [thr[t] EXCEPT !.last = thr[t].ws, !.first = FALSE]
<1>2. T.pc = thr[t].pc /\ T.k = thr[t].k /\ T.ws = thr[t].ws
  BY <1>1 DEF ThrType
<1> HIDE DEF T
<1>3. /\ thr[t].pc = "idle" /\ thr[t].k < Constructs /\ UNCHANGED <<team, kinds>>
      /\ \/ /\ ws[thr[t].ws].next \in WS /\ UNCHANGED ws
            /\ Set(t, Entered(T, ws[thr[t].ws].next))
         \/ /\ ws[thr[t].ws].next = Unset
            /\ ws' = [ws EXCEPT ![thr[t].ws].next = Claimed]
            /\ Set(t, [T EXCEPT !.pc = "alloc", !.first = TRUE])
         \/ Set(t, [T EXCEPT !.pc = "wait"]) /\ UNCHANGED ws
  <2>1. T = [thr[t] EXCEPT !.last = thr[t].ws, !.first = FALSE]
    BY DEF T
  <2> QED
    BY <1>2, <2>1, Zenon DEF Start
<1>4. CASE ws[thr[t].ws].next \in WS /\ UNCHANGED ws /\ Set(t, Entered(T, ws[thr[t].ws].next))
  BY <1>3, <1>4, StartEnters DEF T
<1>5. CASE /\ ws[thr[t].ws].next = Unset /\ ws' = [ws EXCEPT ![thr[t].ws].next = Claimed]
           /\ Set(t, [T EXCEPT !.pc = "alloc", !.first = TRUE])
  BY <1>3, <1>5, StartClaims DEF T
<1>6. CASE Set(t, [T EXCEPT !.pc = "wait"]) /\ UNCHANGED ws
  BY <1>3, <1>6, StartWaits DEF T
<1> QED
  BY <1>3, <1>4, <1>5, <1>6

(* alloc_work_share: a work share from its own list, or a look at the      *)
(* other.                                                                  *)
LEMMA AllocStep ==
  ASSUME NEW p, NEW r, NEW hi, NEW D, NEW t \in Thread, IInv(p, r, hi, D), Alloc(t)
  PROVE  \E q, s : IInv(q, s, hi, D)'
<1>1. thr[t].pc = "alloc" /\ UNCHANGED <<ws, kinds>>
  BY DEF Alloc
<1>2. CASE /\ team.alloc # NULL /\ Set(t, [thr[t] EXCEPT !.pc = "init", !.loc = team.alloc])
           /\ team' = [team EXCEPT !.alloc = ws[team.alloc].free]
  BY <1>1, <1>2, AllocTakes
<1>3. CASE /\ team.alloc = NULL /\ Set(t, [thr[t] EXCEPT !.pc = "cut", !.loc = team.free])
           /\ UNCHANGED team
  BY <1>1, <1>3, AllocLooks
<1> QED
  BY <1>2, <1>3 DEF Alloc

(* GOMP_cancel of the region.                                              *)
LEMMA CancelStep ==
  ASSUME NEW p, NEW r, NEW hi, NEW D, NEW t \in Thread, IInv(p, r, hi, D), Cancel(t)
  PROVE  \E E : IInv(p, r, hi, E)'
<1>1. team \in TeamType
  BY ThreadFacts
<1>2. /\ team.cancellable /\ team' = [team EXCEPT !.cancelled = TRUE] /\ UNCHANGED <<ws, kinds>>
      /\ thr[t].pc \in {"idle", "in"} /\ Set(t, [thr[t] EXCEPT !.pc = "final"])
  BY DEF Cancel
<1>3. team'.cancelled
  BY <1>1, <1>2 DEF TeamType
<1> QED
  BY <1>2, <1>3, GoesToTheEnd

(* A thread leaves a cancelled region, or has done all constructs.         *)
LEMMA LeaveStep ==
  ASSUME NEW p, NEW r, NEW hi, NEW D, NEW t \in Thread, IInv(p, r, hi, D), Leave(t)
  PROVE  \E E : IInv(p, r, hi, E)'
<1>1. /\ thr[t].pc \in {"idle", "in"} /\ Set(t, [thr[t] EXCEPT !.pc = "final"]) /\ team' = team
      /\ team'.cancelled \/ (thr[t].pc = "idle" /\ thr[t].k = Constructs)
      /\ UNCHANGED <<ws, kinds>>
  BY DEF Leave
<1> QED
  BY <1>1, GoesToTheEnd

(* Nothing happens.                                                        *)
LEMMA IdleStep ==
  ASSUME NEW p, NEW r, NEW hi, NEW D, IInv(p, r, hi, D), UNCHANGED vars
  PROVE  IInv(p, r, hi, D)'
<1>1. ws' = ws /\ thr' = thr /\ team' = team /\ kinds' = kinds
  BY DEF vars
<1>2. TypeOK' /\ Region'
  BY <1>1 DEF IInv, TypeOK, Region
<1>3. Lists(p, r)' /\ Distinct(p, r)' /\ Raw(p)' /\ Uses(p)' /\ Chained(p, r, hi)'
  BY <1>1 DEF IInv, Lists, IsList, Distinct, Raw, Uses, Chained
<1>4. Counted(p, r, D)' /\ Behind(r, hi, D)'
  BY <1>1 DEF IInv, Counted, Behind, DoneSet, Done, Busy
<1>5. \A t \in Thread : /\ AtWs(t, p, r)' /\ Opens(t, p, r, hi)' /\ Inside(t, p, r)'
                        /\ Frees(t, p, r)' /\ Leaves(t, D, r)'
  BY <1>1 DEF IInv, AtWs, Opens, Inside, Keeps, Frees, Leaves
<1>6. Single(p)' /\ Together' /\ Arrivals' /\ Stored(p, r)'
  BY <1>1 DEF IInv, Single, Together, Passed, Past, Arrivals, WaitSet, Waiting, Stored
<1> QED
  BY <1>2, <1>3, <1>4, <1>5, <1>6 DEF IInv
-----------------------------------------------------------------------------
(* gomp_new_team: one work share is in use, the rest of the chunk on the   *)
(* list.                                                                   *)
LEMMA InitHolds ==
  ASSUME Init
  PROVE  \E p, r : IInv(p, r, 0, {})
<1> DEFINE p0 == [w \in WS |-> IF w = 0 THEN "live" ELSE IF w < Chunk THEN "alloc" ELSE "none"]
           r0 == [w \in WS |-> 0 - w]
<1>1. PICK p, r : p = p0 /\ r = r0
  OBVIOUS
<1>2. /\ MaxWs \in Nat /\ Chunk \in Nat /\ 1 <= Chunk /\ Chunk <= MaxWs /\ NULL \notin Int
      /\ Constructs \in Nat
  BY WorkShareAssumption
<1>3. \A w \in WS : w \in Nat /\ w < MaxWs
  BY <1>2 DEF WS
<1>4. 0 \in WS /\ (Chunk > 1 => 1 \in WS)
  BY <1>2 DEF WS
<1>5. \A w \in WS : /\ w \in Nat /\ w < MaxWs /\ r[w] = 0 - w
                    /\ p[w] = IF w = 0 THEN "live" ELSE IF w < Chunk THEN "alloc" ELSE "none"
  BY <1>1, <1>3
<1>6. p \in [WS -> Places] /\ r \in [WS -> Int]
  <2>1. \A w \in WS : p0[w] \in Places /\ r0[w] \in Int
    BY <1>3 DEF Places
  <2> QED
    BY <1>1, <2>1
<1> HIDE DEF p0, r0
<1>7. /\ kinds \in [0 .. Constructs -> Kinds] /\ kinds[0] = "nowait"
      /\ \A w \in WS : /\ ws[w].next = Unset /\ ws[w].completed = 0 /\ ws[w].copyprivate = 0
                       /\ ws[w].free = IF w \in 1 .. Chunk - 2 THEN w + 1 ELSE NULL
                       /\ ws[w].uses = IF w = 0 THEN 1 ELSE 0
  BY DEF Init
<1>8. ws \in [WS -> WsType]
  <2>1. ws = [w \in WS |-> [next |-> Unset, completed |-> 0, copyprivate |-> 0,
                            free |-> IF w \in 1 .. Chunk - 2 THEN w + 1 ELSE NULL,
                            uses |-> IF w = 0 THEN 1 ELSE 0]]
    BY DEF Init
  <2>2. ASSUME NEW w \in WS
        PROVE  (IF w \in 1 .. Chunk - 2 THEN w + 1 ELSE NULL) \in WS \cup {NULL}
    BY <1>2, <1>3 DEF WS
  <2>3. ASSUME NEW w \in WS
        PROVE  ws[w] \in WsType
    <3>1. PICK f : f = IF w \in 1 .. Chunk - 2 THEN w + 1 ELSE NULL
      OBVIOUS
    <3>2. PICK n : n = IF w = 0 THEN 1 ELSE 0
      OBVIOUS
    <3>3. ws[w] = [next |-> Unset, completed |-> 0, copyprivate |-> 0, free |-> f, uses |-> n]
      BY <2>1, <3>1, <3>2
    <3>4. f \in WS \cup {NULL} /\ n \in Int
      BY <2>2, <3>1, <3>2
    <3> QED
      BY <3>3, <3>4 DEF WsType
  <2> QED
    BY <2>1, <2>3
<1>9. PICK l \in {"idle", "in"} :
        thr = [t \in Thread |-> [pc |-> l, ws |-> 0, last |-> NULL, k |-> 0, gen |-> 0,
                                 first |-> FALSE, loc |-> NULL, seen |-> NULL]]
  BY DEF Init
<1>10. l \in Labels
  BY DEF Labels, Between
<1>11. \A t \in Thread : /\ thr[t].pc \in {"idle", "in"} /\ thr[t].ws = 0 /\ thr[t].last = NULL
                         /\ thr[t].k = 0
  BY <1>9
<1>12. thr \in [Thread -> ThrType]
  <2>1. 0 \in 0 .. Constructs
    BY <1>2
  <2>2. \A t \in Thread : thr[t] \in ThrType
    BY <1>4, <1>9, <1>10, <2>1 DEF ThrType
  <2> QED
    BY <1>9, <2>2
<1>13. PICK c \in BOOLEAN :
         /\ c => \A k \in 0 .. Constructs : kinds[k] # "copy"
         /\ team = [alloc |-> IF Chunk > 1 THEN 1 ELSE NULL, free |-> NULL,
                    chunk |-> Chunk, used |-> Chunk, to_free |-> 0, arrived |-> 0, gen |-> 0,
                    cancellable |-> c, cancelled |-> FALSE, over |-> FALSE]
  BY DEF Init
<1>14. /\ team.alloc = (IF Chunk > 1 THEN 1 ELSE NULL) /\ team.free = NULL /\ team.chunk = Chunk
       /\ team.used = Chunk /\ team.to_free = 0 /\ team.arrived = 0 /\ team.gen = 0
       /\ team.cancellable = c /\ ~team.cancelled /\ ~team.over
  BY <1>13
<1>15. team \in TeamType
  <2>1. PICK a : a = IF Chunk > 1 THEN 1 ELSE NULL
    OBVIOUS
  <2>2. a \in WS \cup {NULL}
    BY <1>4, <2>1
  <2> QED
    BY <1>2, <1>4, <1>13, <2>1, <2>2 DEF TeamType
<1>16. TypeOK /\ Region
  BY <1>7, <1>8, <1>12, <1>13, <1>14, <1>15 DEF TypeOK, Region
<1>17. IsList("alloc", team.alloc, p, r)
  <2>1. team.alloc = NULL => \A w \in WS : p[w] # "alloc"
    BY <1>2, <1>5, <1>14
  <2>2. team.alloc # NULL =>
          p[team.alloc] = "alloc" /\ \A w \in WS : p[w] = "alloc" => r[w] <= r[team.alloc]
    BY <1>2, <1>4, <1>5, <1>14
  <2>3. ASSUME NEW w \in WS, p[w] = "alloc"
        PROVE  IF ws[w].free = NULL THEN \A v \in WS : p[v] = "alloc" => r[v] >= r[w]
               ELSE p[ws[w].free] = "alloc" /\ r[ws[w].free] = r[w] - 1
    <3>1. w \in 1 .. Chunk - 1
      BY <1>2, <1>5, <2>3
    <3>2. CASE w \in 1 .. Chunk - 2
      <4>1. ws[w].free = w + 1 /\ w + 1 \in WS /\ w + 1 # NULL /\ w + 1 < Chunk /\ w \in Int
        BY <1>2, <1>7, <3>2 DEF WS
      <4>2. p[w + 1] = "alloc" /\ r[w + 1] = r[w] - 1
        BY <1>2, <1>5, <3>2, <4>1
      <4> QED
        BY <4>1, <4>2
    <3>3. CASE w \notin 1 .. Chunk - 2
      <4>1. ws[w].free = NULL /\ w = Chunk - 1
        BY <1>2, <1>7, <3>1, <3>3
      <4>2. \A v \in WS : p[v] = "alloc" => r[v] >= r[w]
        BY <1>2, <1>5, <4>1
      <4> QED
        BY <4>1, <4>2
    <3> QED
      BY <3>2, <3>3
  <2> QED
    BY <2>1, <2>2, <2>3 DEF IsList
<1>18. IsList("free", team.free, p, r)
  BY <1>5, <1>14 DEF IsList
<1>19. Distinct(p, r)
  BY <1>5 DEF Distinct
<1>20. Raw(p)
  BY <1>2, <1>5, <1>7, <1>14 DEF Raw
<1>21. Uses(p)
  BY <1>5, <1>7, <1>14 DEF Uses
<1>22. Chained(p, r, 0)
  BY <1>2, <1>4, <1>5, <1>7, <1>14 DEF Chained
<1>23. Counted(p, r, {}) /\ Behind(r, 0, {})
  BY <1>5 DEF Counted, Behind
<1>24. \A t \in Thread : /\ AtWs(t, p, r) /\ Opens(t, p, r, 0) /\ Inside(t, p, r)
                         /\ Frees(t, p, r) /\ Leaves(t, {}, r)
  BY <1>4, <1>5, <1>11, <1>14 DEF AtWs, Opens, Opening, Inside, Frees, Pushing, Leaves, Left
<1>25. Single(p)
  BY <1>5, <1>11 DEF Single, Opening, Pushing
<1>26. Together
  BY <1>7, <1>11 DEF Together, Passed
<1>27. Arrivals
  <2>1. WaitSet = {}
    BY <1>11 DEF WaitSet, Waiting, Pushing
  <2> QED
    BY <1>14, <2>1, FS_EmptySet DEF Arrivals
<1>28. Stored(p, r)
  BY <1>5, <1>7 DEF Stored
<1> QED
  BY <1>6, <1>16, <1>17, <1>18, <1>19, <1>20, <1>21, <1>22, <1>23, <1>24, <1>25, <1>26, <1>27, <1>28
     DEF IInv, Lists

(* Some account of where the work shares are fits.                         *)
Inv == \E p, r, hi, D : IInv(p, r, hi, D)

(* Every step has an account of its own.                                   *)
LEMMA NextKeepsInv ==
  ASSUME Inv, [Next]_vars
  PROVE  Inv'
<1> PICK p, r, hi, D : IInv(p, r, hi, D)
  BY DEF Inv
<1> SUFFICES \E q, s, g, E : IInv(q, s, g, E)'
  BY DEF Inv
<1>1. ASSUME NEW t \in Thread, Step(t)
      PROVE  \E q, s, g, E : IInv(q, s, g, E)'
  <2>1. CASE Start(t) \/ Wait(t) \/ Push(t) \/ Pass(t) \/ CopyBarrier(t)
    BY <2>1, StartStep, WaitStep, PushStep, PassStep, CopyBarrierStep
  <2>2. CASE Alloc(t)
    BY <2>2, AllocStep
  <2>3. CASE Cut(t)
    BY <2>3, CutStep
  <2>4. CASE InitWs(t)
    BY <2>4, InitWsStep
  <2>5. CASE InitDone(t)
    BY <2>5, InitDoneStep
  <2>6. CASE EndNowait(t)
    BY <2>6, EndNowaitStep
  <2>7. CASE EndBarrier(t)
    BY <2>7, EndBarrierStep
  <2>8. CASE Cas(t)
    BY <2>8, CasStep
  <2>9. CASE Leave(t)
    BY <2>9, LeaveStep
  <2> QED
    BY <1>1, <2>1, <2>2, <2>3, <2>4, <2>5, <2>6, <2>7, <2>8, <2>9 DEF Step
<1>2. ASSUME NEW t \in Thread, Cancel(t)
      PROVE  \E q, s, g, E : IInv(q, s, g, E)'
  BY <1>2, CancelStep
<1>3. CASE TeamEnd
  BY <1>3, TeamEndStep
<1>4. CASE UNCHANGED vars
  BY <1>4, IdleStep
<1> QED
  BY <1>1, <1>2, <1>3, <1>4 DEF Next, Over
-----------------------------------------------------------------------------
(* A list of the team holds nothing but the work shares placed on it.      *)
LEMMA ListedInPlace ==
  ASSUME NEW p, NEW r, NEW x, NEW head, ws \in [WS -> WsType], head \in WS \cup {NULL},
         IsList(x, head, p, r)
  PROVE  List(head) \subseteq {w \in WS : p[w] = x}
<1>1. CASE head = NULL
  BY <1>1 DEF List
<1>2. CASE head # NULL
  <2> DEFINE S == {w \in WS : p[w] = x}
             succ == [v \in WS |-> ws[v].free]
  <2>1. S \in SUBSET WS /\ head \in S
    BY <1>2 DEF IsList
  <2>2. \A v \in S : succ[v] \in WS => succ[v] \in S
    <3>1. NULL \notin WS
      BY WorkShareAssumption DEF WS
    <3> QED
      BY <3>1 DEF IsList
  <2>3. List(head) = Reached(succ, head)
    BY <1>2 DEF List
  <2> HIDE DEF S, succ
  <2>4. Reached(succ, head) \subseteq S
    BY <2>1, <2>2, ReachedInside
  <2> QED
    BY <2>3, <2>4 DEF S
<1> QED
  BY <1>1, <1>2

(* No thread has a work share that is on a list or finished.               *)
LEMMA NothingFreedIsUsed ==
  ASSUME NEW p, NEW r, NEW hi, NEW D, IInv(p, r, hi, D)
  PROVE  NoUseAfterFree
<1>1. /\ ws \in [WS -> WsType] /\ team.alloc \in WS \cup {NULL} /\ team.free \in WS \cup {NULL}
      /\ IsList("alloc", team.alloc, p, r) /\ IsList("free", team.free, p, r) /\ Uses(p)
  BY DEF IInv, TypeOK, TeamType, Lists
<1>2. /\ List(team.alloc) \subseteq {w \in WS : p[w] = "alloc"}
      /\ List(team.free) \subseteq {w \in WS : p[w] = "free"}
  BY <1>1, ListedInPlace
<1>3. List(team.alloc) \cap List(team.free) = {}
  BY <1>2
<1>4. \A w : w \in List(team.alloc) \cup List(team.free) => p[w] \in {"alloc", "free"}
  BY <1>2
<1>5. ASSUME NEW w \in WS, p[w] \in {"live", "fill"}, ~team.over
      PROVE  w \notin List(team.alloc) \cup List(team.free) /\ ws[w].uses = 1
  BY <1>1, <1>4, <1>5 DEF Uses
<1>6. ASSUME NEW t \in Thread
      PROVE  /\ thr[t] \in ThrType /\ AtWs(t, p, r) /\ Opens(t, p, r, hi) /\ Inside(t, p, r)
             /\ thr[t].pc = "over" <=> team.over
  BY <1>6 DEF IInv, TypeOK, Leaves
<1>7. ASSUME NEW t \in Thread, thr[t].pc # "over"
      PROVE  /\ thr[t].ws \notin List(team.alloc) \cup List(team.free)
             /\ ws[thr[t].ws].uses = 1
  <2>1. thr[t].ws \in WS /\ p[thr[t].ws] \in {"live", "fill"}
    BY <1>6 DEF ThrType, AtWs
  <2> QED
    BY <1>5, <1>6, <1>7, <2>1
<1>8. ASSUME NEW t \in Thread, thr[t].last # NULL,
             thr[t].pc \notin {"bar", "push", "cas", "final", "over"}
      PROVE  /\ thr[t].last \notin List(team.alloc) \cup List(team.free)
             /\ ws[thr[t].last].uses = 1
  <2>1. thr[t].pc \in Opening \cup {"idle", "wait", "in", "copied"}
    BY <1>6, <1>8 DEF ThrType, Labels, Between, Pushing, Left
  <2>2. thr[t].last \in WS /\ p[thr[t].last] = "live"
    BY <1>6, <1>8, <2>1 DEF Opens, Inside, Keeps
  <2>3. ~team.over
    BY <1>6, <1>8
  <2> QED
    BY <1>5, <2>2, <2>3
<1>9. ASSUME NEW t \in Thread, thr[t].pc = "init"
      PROVE  thr[t].loc \notin List(team.alloc) \cup List(team.free) /\ ws[thr[t].loc].uses = 0
  <2>1. thr[t].loc \in WS /\ p[thr[t].loc] = "new"
    BY <1>6, <1>9 DEF Opens
  <2> QED
    BY <1>1, <1>4, <2>1 DEF Uses
<1> QED
  BY <1>3, <1>7, <1>8, <1>9 DEF NoUseAfterFree

(* Threads share a work share exactly if they are in the same construct.   *)
LEMMA WorkSharesAgree ==
  ASSUME NEW p, NEW r, NEW hi, NEW D, IInv(p, r, hi, D)
  PROVE  OneWorkShareEach
<1>1. \A t \in Thread : /\ thr[t] \in ThrType /\ thr[t].ws \in WS /\ thr[t].k \in 0 .. Constructs
                        /\ AtWs(t, p, r)
  BY DEF IInv, TypeOK, ThrType
<1>2. Distinct(p, r) /\ Stored(p, r) /\ Together /\ Uses(p)
  BY DEF IInv
<1>3. ASSUME NEW s \in Thread, NEW t \in Thread, thr[s].pc # "fill", thr[t].pc # "fill"
      PROVE  thr[s].k = thr[t].k <=> thr[s].ws = thr[t].ws
  BY <1>1, <1>2, <1>3 DEF AtWs, Distinct
<1>4. ASSUME NEW t \in Thread, thr[t].pc = "copied"
      PROVE  ws[thr[t].ws].copyprivate = thr[t].k
  <2>1. p[thr[t].ws] = "live" /\ r[thr[t].ws] = thr[t].k /\ thr[t].ws \in WS
    BY <1>1, <1>4 DEF AtWs
  <2>2. kinds[thr[t].k] = "copy"
    BY <1>4 DEF IInv, Inside
  <2>3. ASSUME NEW u \in Thread, thr[u].pc = "in", thr[u].k = thr[t].k
        PROVE  FALSE
    <3>1. Passed(t, thr[t].k)
      BY <1>4 DEF Passed, Past
    <3>2. Passed(u, thr[t].k) \/ thr[u].pc \in Left
      BY <1>1, <1>2, <2>2, <3>1 DEF Together
    <3>3. ~Past(u) /\ thr[u].pc \notin Left
      BY <2>3 DEF Past, Between, Opening, Pushing, Left
    <3>4. ~(thr[u].k > thr[t].k)
      BY <1>1, <2>3
    <3> QED
      BY <3>2, <3>3, <3>4 DEF Passed
  <2> QED
    BY <1>2, <2>1, <2>2, <2>3 DEF Stored
<1>5. ConstructsAgree
  BY <1>3, <1>4 DEF ConstructsAgree
<1>6. FinishedOnce
  BY <1>2 DEF FinishedOnce, Uses
<1> QED
  BY <1>5, <1>6 DEF OneWorkShareEach

(* In every reachable state some account of where the work shares are      *)
(* fits: what is in use is a chain from work_shares_to_free on, what is    *)
(* not is on one list, or in the hands of one thread.                      *)
THEOREM PlacesAreSound == Spec => []Inv
<1>1. Init => Inv
  BY InitHolds DEF Inv
<1>2. Inv /\ [Next]_vars => Inv'
  BY NextKeepsInv
<1> QED
  BY <1>1, <1>2, PTL DEF Spec

(* A work share that a thread is in, or has still to look up its successor *)
(* in, is on neither list of the team and not finished, and one that       *)
(* alloc_work_share returns is nobody else's.                              *)
THEOREM FreedWorkSharesUnused == Spec => []NoUseAfterFree
<1>1. Inv => NoUseAfterFree
  BY NothingFreedIsUsed DEF Inv
<1> QED
  BY <1>1, PlacesAreSound, PTL

(* Threads have the same work share exactly if they are in the same        *)
(* construct, what GOMP_single_copy_start returns is what the thread that  *)
(* got the single stored, and every work share is finished once, also in a *)
(* cancelled region.                                                       *)
THEOREM WorkShareOfEachConstruct == Spec => []OneWorkShareEach
<1>1. Inv => OneWorkShareEach
  BY WorkSharesAgree DEF Inv
<1> QED
  BY <1>1, PlacesAreSound, PTL
=============================================================================
