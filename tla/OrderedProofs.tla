--------------------------- MODULE OrderedProofs ---------------------------
(***************************************************************************)
(* Ordered regions are executed in the order of the blocks (Ordered), by   *)
(* any number of threads, in any sequence of loops that do not get at each *)
(* other's semaphores (Apart).                                             *)
(*                                                                         *)
(* The argument follows the right to execute ordered regions: of every     *)
(* loop it is in exactly one place, a unit in the semaphore of the thread  *)
(* that has the next block (Due) or that thread's name in ordered_owner,   *)
(* and a unit in a semaphore is for the loop its thread is in, or is about *)
(* to start (Turn).                                                        *)
(***************************************************************************)
EXTENDS Ordered, FiniteSetTheorems, TLAPS

Inside == {"body", "sync", "region", "nsync", "next"}
Labels == Inside \cup {"idle", "end"}

(* A thread has a block of loop l, has not started l, has no block of it   *)
(* any more.                                                               *)
Working(t, l) == member[t].loop = l /\ member[t].pc \in Inside
Before(t, l) == member[t].loop < l \/ (member[t].loop = l /\ member[t].pc = "idle")
Beyond(t, l) == member[t].loop > l \/ (member[t].loop = l /\ member[t].pc = "end")

(* The loop that a unit in a thread's semaphore is for.                    *)
Turn(t) == IF member[t].pc = "end" THEN member[t].loop + 1 ELSE member[t].loop

WsType == [created : BOOLEAN, next : Nat, cur : Team, used : 0..N,
           ids : [Team -> Team], owner : Team \cup {None}]

(* K[l] blocks of loop l are done with.                                    *)
OrdTypeOK(K) ==
  /\ loops \in Seq([static : BOOLEAN, n : Nat, nowait : BOOLEAN])
  /\ loopWs \in [DOMAIN loops -> WsType]
  /\ sem \in [Team -> Nat]
  /\ member \in [Team -> [pc : Labels, loop : 1 .. Len(loops) + 1, block : Nat]]
  /\ \A t \in Team : member[t].pc # "idle" => member[t].loop \in DOMAIN loops
  /\ K \in [DOMAIN loops -> Nat]
  /\ \A l \in DOMAIN loops : K[l] <= loops[l].n
  /\ passed = [l \in DOMAIN loops |-> 0 .. K[l] - 1]

(* Threads that passed a barrier have left all others behind it in no      *)
(* loop.                                                                   *)
BarriersHold ==
  \A l \in DOMAIN loops : (~loops[l].nowait /\ \E t \in Team : member[t].loop > l) =>
                            \A s \in Team : Beyond(s, l)

(* A static loop goes round: the blocks k, k + 1, ... belong to the thread *)
(* ids[0] and those that follow it.                                        *)
Distance(a, b) == IF b >= a THEN b - a ELSE b - a + N
StaticOK(l, k) ==
  LET W == loopWs[l]
      n == loops[l].n
      own(t) == k + Distance(W.ids[0], t)
  IN /\ IF W.created THEN \A t \in Team : Beyond(t, l - 1)
        ELSE k = 0 /\ W.ids[0] = 0 /\ W.owner = None /\ \A t \in Team : Before(t, l)
     /\ W.owner # None => k = n \/ (W.owner = W.ids[0] /\ Working(W.owner, l))
     /\ \A t \in Team :
          /\ Before(t, l) => IF k < n THEN own(t) = t ELSE t >= n
          /\ Working(t, l) => k < n /\ member[t].block = own(t) /\ own(t) < n
          /\ Beyond(t, l) => k = n \/ own(t) >= n
          /\ Working(t, l) /\ member[t].pc \in {"region", "next"} => W.owner = t

(* A dynamic loop has a queue: blocks k, k + 1, ... are those of the       *)
(* threads in the ring from cur on.                                        *)
Workers(l) == {t \in Team : Working(t, l)}
Slot(c, i) == IF c + i < N THEN c + i ELSE c + i - N
DynamicOK(l, k) ==
  LET W == loopWs[l]
  IN /\ W.next = k + W.used /\ W.next <= loops[l].n
     /\ W.used = Cardinality(Workers(l))
     /\ \A i \in 0 .. W.used - 1 : LET t == W.ids[Slot(W.cur, i)]
                                   IN Working(t, l) /\ member[t].block = k + i
     /\ W.owner # None => W.used > 0 /\ W.owner = W.ids[W.cur]
     /\ \A t \in Team : Working(t, l) =>
          /\ \E i \in 0 .. W.used - 1 : W.ids[Slot(W.cur, i)] = t
          /\ member[t].pc \in {"region", "next"} => W.owner = t

(* The thread that has the next block of l has yet to take its unit.       *)
Due(l, k, t) ==
  LET W == loopWs[l]
  IN IF loops[l].static
     THEN W.created /\ W.ids[0] = t /\ W.owner # t /\ (k < loops[l].n \/ k = 0)
     ELSE Working(t, l) /\ W.ids[W.cur] = t /\ W.owner # t

UnitsExact(K) ==
  \A t \in Team : Turn(t) \in DOMAIN loops =>
                    sem[t] = IF Due(Turn(t), K[Turn(t)], t) THEN 1 ELSE 0

LoopOK(l, k) == IF loops[l].static THEN StaticOK(l, k) ELSE DynamicOK(l, k)

OrdInv(K) == /\ OrdTypeOK(K) /\ BarriersHold /\ UnitsExact(K)
             /\ \A l \in DOMAIN loops : LoopOK(l, K[l])

RightInv == Apart(loops) /\ \E K \in [DOMAIN loops -> Nat] : OrdInv(K)
-----------------------------------------------------------------------------
(* The ring.                                                               *)
LEMMA SlotFacts ==
  /\ N \in Nat /\ N > 1 /\ None \notin Team /\ 0 \in Team
  /\ \A c \in Team, i \in 0..N : Slot(c, i) \in Team /\ (c + i) % N = Slot(c, i)
  /\ \A c \in Team : Slot(c, 0) = c /\ Slot(c, N) = c /\ Slot(c, 1) # c
  /\ \A c \in Team, i, j \in 0 .. N - 1 : Slot(c, i) = Slot(c, j) => i = j
  /\ \A c \in Team, i \in 0 .. N - 1 : Slot(Slot(c, 1), i) = Slot(c, i + 1)
<1>1. N \in Nat /\ N > 1
  BY OrderedAssumption
<1>2. ASSUME NEW a \in Nat PROVE (a < N => a % N = a) /\ (a >= N /\ a < N + N => a % N = a - N)
  BY <1>1
<1>3. ASSUME NEW c \in Team, NEW i \in 0..N PROVE (c + i) % N = Slot(c, i)
  BY <1>1, <1>2 DEF Slot, Team
<1>4. None \notin Team /\ 0 \in Team
  BY <1>1 DEF Team, None
<1>5. ASSUME NEW c \in Team
      PROVE  /\ \A i \in 0..N : Slot(c, i) \in Team
             /\ Slot(c, 0) = c /\ Slot(c, N) = c /\ Slot(c, 1) # c
  BY <1>1 DEF Slot, Team
<1>6. ASSUME NEW c \in Team, NEW i \in 0 .. N - 1
      PROVE  /\ \A j \in 0 .. N - 1 : Slot(c, i) = Slot(c, j) => i = j
             /\ Slot(Slot(c, 1), i) = Slot(c, i + 1)
  BY <1>1 DEF Slot, Team
<1> QED
  BY <1>1, <1>3, <1>4, <1>5, <1>6

(* The types of what the invariant speaks of.                              *)
LEMMA TypeFacts ==
  ASSUME NEW K, OrdTypeOK(K)
  PROVE  /\ Len(loops) \in Nat /\ DOMAIN loops = 1 .. Len(loops)
         /\ \A t \in Team : /\ member[t].pc \in Labels /\ member[t].block \in Nat
                            /\ member[t].loop \in 1 .. Len(loops) + 1
                            /\ member[t].pc # "idle" => member[t].loop \in DOMAIN loops
                            /\ sem[t] \in Nat
         /\ \A l \in DOMAIN loops :
              /\ loops[l].static \in BOOLEAN /\ loops[l].nowait \in BOOLEAN /\ loops[l].n \in Nat
              /\ K[l] \in Nat /\ K[l] <= loops[l].n /\ loopWs[l] \in WsType
<1>1. Len(loops) \in Nat /\ DOMAIN loops = 1 .. Len(loops)
  BY DEF OrdTypeOK
<1>2. \A l \in DOMAIN loops : loops[l] \in [static : BOOLEAN, n : Nat, nowait : BOOLEAN]
  <2> DEFINE S == [static : BOOLEAN, n : Nat, nowait : BOOLEAN]
  <2>1. loops \in Seq(S)
    BY DEF OrdTypeOK
  <2> HIDE DEF S
  <2>2. \A l \in DOMAIN loops : loops[l] \in S
    BY <2>1
  <2> QED
    BY <2>2 DEF S
<1>3. \A l \in DOMAIN loops : K[l] \in Nat /\ K[l] <= loops[l].n /\ loopWs[l] \in WsType
  BY DEF OrdTypeOK
<1>4. \A t \in Team : /\ member[t].pc \in Labels /\ member[t].block \in Nat
                      /\ member[t].loop \in 1 .. Len(loops) + 1
                      /\ member[t].pc # "idle" => member[t].loop \in DOMAIN loops
                      /\ sem[t] \in Nat
  BY DEF OrdTypeOK
<1> QED
  BY <1>1, <1>2, <1>3, <1>4

(* A loop that nobody touches stays as it is.                              *)
LEMMA OtherLoop ==
  ASSUME NEW K, OrdTypeOK(K), NEW m \in DOMAIN loops, LoopOK(m, K[m]),
         loops' = loops, loopWs'[m] = loopWs[m],
         \A s \in Team : /\ Working(s, m)' <=> Working(s, m)
                         /\ Before(s, m)' <=> Before(s, m)
                         /\ Beyond(s, m)' <=> Beyond(s, m)
                         /\ Beyond(s, m - 1) => Beyond(s, m - 1)'
                         /\ Working(s, m) =>
                              /\ member'[s].block = member[s].block
                              /\ member'[s].pc \in {"region", "next"} =>
                                   member[s].pc \in {"region", "next"} \/ loopWs[m].owner = s
  PROVE  LoopOK(m, K[m])'
<1>1. CASE loops[m].static
  <2>1. StaticOK(m, K[m])
    BY <1>1 DEF LoopOK
  <2>2. loopWs[m].ids[0] \in Team /\ loopWs[m].owner \in Team \cup {None}
    BY TypeFacts, SlotFacts DEF WsType
  <2>3. StaticOK(m, K[m])'
    BY <2>1, <2>2 DEF StaticOK
  <2> QED
    BY <1>1, <2>3 DEF LoopOK
<1>2. CASE ~loops[m].static
  <2>1. DynamicOK(m, K[m])
    BY <1>2 DEF LoopOK
  <2>2. Workers(m)' = Workers(m)
    BY DEF Workers
  <2>3. \A i \in 0 .. loopWs[m].used - 1 : loopWs[m].ids[Slot(loopWs[m].cur, i)] \in Team
    <3>1. /\ loopWs[m].used \in 0..N /\ loopWs[m].cur \in Team
          /\ loopWs[m].ids \in [Team -> Team] /\ N \in Nat
      BY TypeFacts, SlotFacts DEF WsType
    <3>2. \A i \in 0 .. loopWs[m].used - 1 : i \in 0..N
      BY <3>1
    <3> QED
      BY <3>1, <3>2, SlotFacts
  <2>4. DynamicOK(m, K[m])'
    BY <2>1, <2>2, <2>3 DEF DynamicOK
  <2> QED
    BY <1>2, <2>4 DEF LoopOK
<1> QED
  BY <1>1, <1>2

(* A thread goes to another place of its loop.                             *)
LEMMA Moved ==
  ASSUME NEW K, OrdTypeOK(K), NEW t \in Team, NEW p, NEW b, At(t, p, b)
  PROVE  /\ member'[t].pc = p /\ member'[t].block = b /\ member'[t].loop = member[t].loop
         /\ \A s \in Team : s # t => member'[s] = member[s]
BY DEF At, OrdTypeOK

(* What that means for the loops.                                          *)
LEMMA Statuses ==
  ASSUME NEW K, OrdTypeOK(K), NEW t \in Team, member[t].pc \in Inside \cup {"idle"},
         NEW p \in Inside \cup {"end"}, NEW b, At(t, p, b), NEW l, l = member[t].loop
  PROVE  /\ \A s \in Team, m \in Int : s # t \/ m # l =>
              /\ Working(s, m)' <=> Working(s, m)
              /\ Before(s, m)' <=> Before(s, m)
              /\ Beyond(s, m)' <=> Beyond(s, m)
         /\ \A s \in Team, m \in Int : Beyond(s, m) => Beyond(s, m)'
         /\ Working(t, l)' <=> p \in Inside
         /\ Beyond(t, l)' <=> p = "end"
         /\ ~Before(t, l)' /\ ~Beyond(t, l)
         /\ \A s \in Team : s # t => Turn(s)' = Turn(s)
         /\ Turn(t) = l
         /\ Turn(t)' = IF p = "end" THEN l + 1 ELSE l
<1>1. /\ member'[t].pc = p /\ member'[t].block = b /\ member'[t].loop = member[t].loop
      /\ \A s \in Team : s # t => member'[s] = member[s]
  BY Moved
<1>2. \A s \in Team : member[s].loop \in Int /\ member[s].pc \in Labels
  BY TypeFacts
<1> QED
  BY <1>1, <1>2 DEF Working, Before, Beyond, Turn, Inside, Labels

(* The same for its own loop alone.                                        *)
LEMMA MovedIn ==
  ASSUME NEW K, OrdTypeOK(K), NEW t \in Team, member[t].pc \in Inside \cup {"idle"},
         NEW l \in DOMAIN loops, l = member[t].loop,
         NEW p \in Inside \cup {"end"}, NEW b, At(t, p, b)
  PROVE  /\ \A s \in Team : s # t => /\ Working(s, l)' <=> Working(s, l)
                                     /\ Before(s, l)' <=> Before(s, l)
                                     /\ Beyond(s, l)' <=> Beyond(s, l)
                                     /\ member'[s] = member[s]
         /\ \A s \in Team : Beyond(s, l - 1) => Beyond(s, l - 1)'
         /\ Working(t, l)' <=> p \in Inside
         /\ Beyond(t, l)' <=> p = "end"
         /\ ~Before(t, l)' /\ ~Beyond(t, l) /\ Turn(t) = l
         /\ Working(t, l) <=> member[t].pc \in Inside
         /\ Before(t, l) <=> member[t].pc = "idle"
         /\ member'[t].block = b /\ member'[t].pc = p
<1>1. l \in Int /\ l - 1 \in Int
  BY TypeFacts
<1>2. /\ \A s \in Team : s # t => /\ Working(s, l)' <=> Working(s, l)
                                  /\ Before(s, l)' <=> Before(s, l)
                                  /\ Beyond(s, l)' <=> Beyond(s, l)
      /\ \A s \in Team : Beyond(s, l - 1) => Beyond(s, l - 1)'
  <2>1. /\ \A s \in Team, m \in Int : s # t \/ m # l =>
               /\ Working(s, m)' <=> Working(s, m)
               /\ Before(s, m)' <=> Before(s, m)
               /\ Beyond(s, m)' <=> Beyond(s, m)
        /\ \A s \in Team, m \in Int : Beyond(s, m) => Beyond(s, m)'
    BY Statuses
  <2> QED
    BY <1>1, <2>1
<1>3. /\ Working(t, l)' <=> p \in Inside
      /\ Beyond(t, l)' <=> p = "end"
      /\ ~Before(t, l)' /\ ~Beyond(t, l) /\ Turn(t) = l
  BY <1>1, Statuses
<1>4. /\ \A s \in Team : s # t => member'[s] = member[s]
      /\ member'[t].block = b /\ member'[t].pc = p
  BY Moved
<1>5. /\ Working(t, l) <=> member[t].pc \in Inside
      /\ Before(t, l) <=> member[t].pc = "idle"
  BY <1>1 DEF Working, Before
<1> QED
  BY <1>2, <1>3, <1>4, <1>5
-----------------------------------------------------------------------------
(* The step of one thread in one loop.                                     *)

(* What the semaphores have to be after it, with k blocks done with.       *)
UnitsStep(t, l, k, p) ==
  /\ \A s \in Team : s # t /\ Turn(s) # l => sem'[s] = sem[s]
  /\ \A s \in Team : s # t /\ Turn(s) = l => sem'[s] = IF Due(l, k, s)' THEN 1 ELSE 0
  /\ p # "end" => sem'[t] = IF Due(l, k, t)' THEN 1 ELSE 0
  /\ p = "end" /\ l + 1 \in DOMAIN loops => sem'[t] = 0

(* A step that leaves its own loop and the semaphores right keeps the      *)
(* invariant: no unit is for another loop.                                 *)
LEMMA LoopStep ==
  ASSUME NEW K, OrdInv(K), NEW t \in Team, member[t].pc \in Inside \cup {"idle"},
         NEW l \in DOMAIN loops, l = member[t].loop,
         NEW p \in Inside \cup {"end"}, NEW b \in Nat, At(t, p, b), loops' = loops,
         NEW V \in WsType, loopWs' = [loopWs EXCEPT ![l] = V],
         NEW k \in Nat, k <= loops[l].n, passed' = [passed EXCEPT ![l] = 0 .. k - 1],
         sem' \in [Team -> Nat], LoopOK(l, k)', UnitsStep(t, l, k, p)
  PROVE  RightInv' \/ ~Apart(loops)
<1> DEFINE K1 == [K EXCEPT ![l] = k]
<1>1. /\ OrdTypeOK(K) /\ BarriersHold /\ UnitsExact(K)
      /\ \A m \in DOMAIN loops : LoopOK(m, K[m])
  BY DEF OrdInv
<1>2. /\ K \in [DOMAIN loops -> Nat] /\ K1 \in [DOMAIN loops -> Nat] /\ K1[l] = k
      /\ \A m \in DOMAIN loops : m # l => K1[m] = K[m] /\ loopWs'[m] = loopWs[m]
      /\ loopWs'[l] = V /\ loopWs' \in [DOMAIN loops -> WsType]
  BY <1>1 DEF OrdTypeOK
<1>3. /\ Len(loops) \in Nat /\ DOMAIN loops = 1 .. Len(loops) /\ l \in Int /\ l + 1 \in Int
  BY <1>1, TypeFacts
<1>4. /\ member'[t].pc = p /\ member'[t].block = b /\ member'[t].loop = l
      /\ \A s \in Team : s # t => member'[s] = member[s]
  BY <1>1, Moved
<1>5. OrdTypeOK(K1)'
  <2>1. member' \in [Team -> [pc : Labels, loop : 1 .. Len(loops) + 1, block : Nat]]
    BY <1>1 DEF At, OrdTypeOK, Labels
  <2>2. \A s \in Team : member'[s].pc # "idle" => member'[s].loop \in DOMAIN loops
    BY <1>1, <1>4 DEF OrdTypeOK
  <2>3. \A m \in DOMAIN loops : K1[m] <= loops[m].n
    BY <1>1, <1>2 DEF OrdTypeOK
  <2>4. passed' = [m \in DOMAIN loops |-> 0 .. K1[m] - 1]
    BY <1>1, <1>2 DEF OrdTypeOK
  <2>5. loops \in Seq([static : BOOLEAN, n : Nat, nowait : BOOLEAN])
    BY <1>1 DEF OrdTypeOK
  <2> HIDE DEF K1
  <2> QED
    BY <1>2, <2>1, <2>2, <2>3, <2>4, <2>5 DEF OrdTypeOK
<1>6. BarriersHold'
  <2>1. \A s \in Team : member'[s].loop = member[s].loop
    BY <1>4
  <2>2. \A s \in Team, m \in DOMAIN loops : Beyond(s, m) => Beyond(s, m)'
    <3>1. \A s \in Team, m \in Int : Beyond(s, m) => Beyond(s, m)'
      BY <1>1, Statuses
    <3> QED
      BY <1>3, <3>1
  <2> QED
    BY <1>1, <2>1, <2>2 DEF BarriersHold
<1>7. ASSUME NEW m \in DOMAIN loops PROVE LoopOK(m, K1[m])'
  <2>1. CASE m = l
    BY <1>2, <2>1
  <2>2. CASE m # l
    <3>1. m \in Int /\ m - 1 \in Int
      BY <1>3
    <3>2. \A s \in Team : /\ Working(s, m)' <=> Working(s, m)
                          /\ Before(s, m)' <=> Before(s, m)
                          /\ Beyond(s, m)' <=> Beyond(s, m)
                          /\ Beyond(s, m - 1) => Beyond(s, m - 1)'
      BY <1>1, <2>2, <3>1, Statuses
    <3>3. \A s \in Team : Working(s, m) => member'[s] = member[s]
      BY <1>4, <2>2 DEF Working
    <3>4. LoopOK(m, K[m])'
      BY <1>1, <1>2, <2>2, <3>2, <3>3, OtherLoop
    <3> QED
      BY <1>2, <2>2, <3>4
  <2> QED
    BY <2>1, <2>2
<1>10. /\ \A u \in Team : u # t => Turn(u)' = Turn(u)
       /\ Turn(t) = l /\ Turn(t)' = IF p = "end" THEN l + 1 ELSE l
  <2>1. OrdTypeOK(K)
    BY <1>1
  <2> HIDE DEF K1
  <2> QED
    BY <2>1, Statuses
<1>8. Apart(loops) => UnitsExact(K1)'
  <2> SUFFICES ASSUME Apart(loops), NEW s \in Team, Turn(s)' \in DOMAIN loops
               PROVE  sem'[s] = IF Due(Turn(s), K1[Turn(s)], s)' THEN 1 ELSE 0
    BY DEF UnitsExact
  <2>1. CASE s # t /\ Turn(s) # l
    <3>1. Turn(s)' = Turn(s) /\ K1[Turn(s)] = K[Turn(s)] /\ Turn(s) \in Int
      BY <1>2, <1>3, <1>10, <2>1
    <3>2. Due(Turn(s), K[Turn(s)], s)' <=> Due(Turn(s), K[Turn(s)], s)
      <4>1. Working(s, Turn(s))' <=> Working(s, Turn(s))
        BY <1>4, <2>1, <3>1 DEF Working
      <4> QED
        BY <1>2, <1>10, <2>1, <3>1, <4>1 DEF Due
    <3> QED
      BY <1>1, <1>10, <2>1, <3>1, <3>2 DEF UnitsStep, UnitsExact
  <2>2. CASE s # t /\ Turn(s) = l
    BY <1>2, <1>10, <2>2 DEF UnitsStep
  <2>3. CASE s = t /\ p # "end"
    BY <1>2, <1>10, <2>3 DEF UnitsStep
  <2>4. CASE s = t /\ p = "end"
    <3>1. Turn(t)' = l + 1 /\ l + 1 \in DOMAIN loops /\ sem'[t] = 0 /\ l + 1 # l
      BY <1>3, <1>10, <2>4 DEF UnitsStep
    <3>2. ASSUME loops[l + 1].static PROVE ~loopWs[l + 1].created
      <4>1. StaticOK(l + 1, K[l + 1])
        BY <1>1, <3>1, <3>2 DEF LoopOK
      <4>2. ~Beyond(t, l)
        BY <1>1, Statuses
      <4>3. (l + 1) - 1 = l
        BY <1>3
      <4> QED
        BY <4>1, <4>2, <4>3 DEF StaticOK
    <3>3. ~Working(t, l + 1)'
      BY <1>3, <1>4 DEF Working
    <3>4. ~Due(l + 1, K1[l + 1], t)'
      BY <1>2, <3>1, <3>2, <3>3 DEF Due
    <3> QED
      BY <2>4, <3>1, <3>4
  <2> QED
    BY <2>1, <2>2, <2>3, <2>4
<1>9. Apart(loops) => OrdInv(K1)' /\ Apart(loops)'
  BY <1>5, <1>6, <1>7, <1>8 DEF OrdInv
<1> HIDE DEF K1
<1> QED
  BY <1>2, <1>9 DEF RightInv
-----------------------------------------------------------------------------
(* Static loops.                                                           *)

(* A thread that still has a block of loop l, and has left the loops       *)
(* before it, waits for a unit of l.                                       *)
LEMMA InTurn ==
  ASSUME NEW K, OrdTypeOK(K), NEW l \in DOMAIN loops, NEW s \in Team, Beyond(s, l - 1), ~Beyond(s, l)
  PROVE  Turn(s) = l
<1>1. /\ l \in Int /\ member[s].loop \in Int
  BY TypeFacts
<1> QED
  BY <1>1 DEF Beyond, Turn

(* A thread that comes to a static loop finds the others there, or at the  *)
(* end of the loop before.                                                 *)
LEMMA AllCame ==
  ASSUME NEW K, OrdTypeOK(K), BarriersHold, Apart(loops), NEW l \in DOMAIN loops, loops[l].static,
         NEW t \in Team, member[t].loop = l, NEW s \in Team
  PROVE  Beyond(s, l - 1)
<1>1. /\ Len(loops) \in Nat /\ DOMAIN loops = 1 .. Len(loops) /\ l \in Nat
      /\ member[s].loop \in Nat \ {0}
  BY TypeFacts
<1>2. CASE l = 1
  BY <1>1, <1>2 DEF Beyond
<1>3. CASE l # 1
  <2>1. l - 1 \in 1 .. Len(loops) - 1 /\ l - 1 \in DOMAIN loops /\ (l - 1) + 1 = l /\ l > l - 1
    BY <1>1, <1>3
  <2>2. ~loops[l - 1].nowait
    BY <2>1 DEF Apart
  <2> QED
    BY <2>1, <2>2 DEF BarriersHold
<1> QED
  BY <1>2, <1>3

(* What a thread that is where it is in a static loop may rely on.         *)
LEMMA StaticFacts ==
  ASSUME NEW K, OrdInv(K), NEW l \in DOMAIN loops, loops[l].static
  PROVE  /\ StaticOK(l, K[l]) /\ K[l] \in Nat /\ loops[l].n \in Nat /\ K[l] <= loops[l].n
         /\ loopWs[l] \in WsType /\ loopWs[l].ids \in [Team -> Team]
         /\ loopWs[l].owner \in Team \cup {None} /\ loopWs[l].ids[0] \in Team
         /\ \A s \in Team : Turn(s) = l => sem[s] = IF Due(l, K[l], s) THEN 1 ELSE 0
         /\ \A s \in Team : s \in Int /\ s >= 0 /\ s < N
         /\ OrdTypeOK(K) /\ BarriersHold /\ N \in Nat /\ N > 1 /\ None \notin Team /\ 0 \in Team
         /\ sem \in [Team -> Nat]
<1>1. OrdTypeOK(K) /\ BarriersHold /\ StaticOK(l, K[l]) /\ UnitsExact(K)
  BY DEF OrdInv, LoopOK
<1>2. K[l] \in Nat /\ loops[l].n \in Nat /\ K[l] <= loops[l].n /\ loopWs[l] \in WsType
  BY <1>1, TypeFacts
<1>3. loopWs[l].ids \in [Team -> Team] /\ loopWs[l].owner \in Team \cup {None}
  BY <1>2 DEF WsType
<1>4. \A s \in Team : s \in Int /\ s >= 0 /\ s < N
  BY SlotFacts DEF Team
<1> QED
  BY <1>1, <1>2, <1>3, <1>4, SlotFacts DEF UnitsExact, OrdTypeOK

(* gomp_ordered_static_init: the unit of thread 0 is the only one.         *)
LEMMA StartStaticInv ==
  ASSUME NEW K, OrdInv(K), Apart(loops), NEW t \in Team, StartStatic(t),
         NEW l, l = member[t].loop, NEW k, k = K[l]
  PROVE  RightInv'
<1> DEFINE W == loopWs[l]
           n == loops[l].n
<1>0. /\ member[t].pc = "idle" /\ l \in DOMAIN loops /\ loops[l].static
      /\ loopWs' = [loopWs EXCEPT ![l].created = TRUE]
      /\ sem' = IF W.created THEN sem ELSE Post(sem, 0)
      /\ loops' = loops /\ passed' = passed
      /\ IF t < n THEN At(t, "body", t) ELSE At(t, "end", 0)
  BY DEF StartStatic
<1>1. /\ StaticOK(l, k) /\ k \in Nat /\ n \in Nat /\ k <= n
      /\ W \in WsType /\ W.owner \in Team \cup {None} /\ W.ids[0] \in Team
      /\ \A s \in Team : Turn(s) = l => sem[s] = IF Due(l, k, s) THEN 1 ELSE 0
      /\ \A s \in Team : s \in Int /\ s >= 0 /\ s < N
      /\ OrdTypeOK(K) /\ BarriersHold /\ N \in Nat /\ N > 1 /\ None \notin Team /\ 0 \in Team
      /\ sem \in [Team -> Nat]
  BY <1>0, StaticFacts
<1>2. PICK p \in Inside \cup {"end"}, b \in Nat :
        /\ At(t, p, b)
        /\ (p = "end" <=> t >= n) /\ (p = "body" <=> t < n) /\ (p = "body" => b = t)
  BY <1>0, <1>1 DEF Inside
<1>3. PICK V \in WsType :
      /\ loopWs' = [loopWs EXCEPT ![l] = V] /\ loopWs'[l] = V
      /\ V.created /\ V.ids = W.ids /\ V.owner = W.owner
  <2> DEFINE V == [W EXCEPT !.created = TRUE]
  <2>1. V \in WsType /\ V.ids = W.ids /\ V.owner = W.owner
    BY <1>1 DEF WsType
  <2>3. V.created
    BY <1>1 DEF WsType
  <2>2. loopWs' = [loopWs EXCEPT ![l] = V] /\ loopWs'[l] = V
    BY <1>0, <1>1, <2>1 DEF OrdTypeOK
  <2> HIDE DEF V
  <2> QED
    BY <2>1, <2>2, <2>3
<1>4. passed' = [passed EXCEPT ![l] = 0 .. k - 1]
  BY <1>0, <1>1 DEF OrdTypeOK
<1>5. sem' \in [Team -> Nat]
  <2>1. PICK m \in Nat : m = sem[0] + 1
    BY <1>1
  <2> QED
    BY <1>0, <1>1, <2>1 DEF Post
<1>6. l \in Int /\ l - 1 \in Int /\ l + 1 \in Int
  BY <1>0, <1>1, TypeFacts
<1>7. \A s \in Team : Beyond(s, l - 1)
  BY <1>0, <1>1, AllCame
<1> HIDE DEF n, W
<1>8. /\ \A s \in Team : s # t => /\ Working(s, l)' <=> Working(s, l)
                                  /\ Before(s, l)' <=> Before(s, l)
                                  /\ Beyond(s, l)' <=> Beyond(s, l)
                                  /\ member'[s] = member[s]
      /\ \A s \in Team : Beyond(s, l - 1) => Beyond(s, l - 1)'
      /\ Working(t, l)' <=> p \in Inside
      /\ Beyond(t, l)' <=> p = "end"
      /\ ~Before(t, l)' /\ ~Beyond(t, l) /\ Before(t, l) /\ ~Working(t, l)
      /\ member'[t].block = b /\ member'[t].pc = p /\ Turn(t) = l
  <2>1. member[t].pc \in Inside \cup {"idle"} /\ member[t].pc \notin Inside
    BY <1>0 DEF Inside
  <2>2. OrdTypeOK(K) /\ At(t, p, b) /\ l \in DOMAIN loops /\ member[t].pc = "idle"
    BY <1>0, <1>1, <1>2
  <2> QED
    BY <2>1, <2>2, MovedIn
<1>9. k < n => k + Distance(W.ids[0], t) = t
  BY <1>1, <1>8 DEF StaticOK, W, n
<1>10. k >= n => t >= n
  BY <1>1, <1>8 DEF StaticOK, n
<1>11. StaticOK(l, k)'
  <2>1. V.owner # None => k = n \/ (V.owner = V.ids[0] /\ Working(V.owner, l)')
    BY <1>1, <1>3, <1>8 DEF StaticOK, W, n
  <2>2. ASSUME NEW s \in Team
        PROVE  /\ Before(s, l)' => IF k < n THEN k + Distance(V.ids[0], s) = s ELSE s >= n
               /\ Working(s, l)' => /\ k < n /\ member'[s].block = k + Distance(V.ids[0], s)
                                    /\ k + Distance(V.ids[0], s) < n
               /\ Beyond(s, l)' => k = n \/ k + Distance(V.ids[0], s) >= n
               /\ Working(s, l)' /\ member'[s].pc \in {"region", "next"} => V.owner = s
    <3>1. CASE s # t
      BY <1>1, <1>3, <1>8, <3>1 DEF StaticOK, W, n
    <3>2. CASE s = t
      BY <1>1, <1>2, <1>3, <1>8, <1>9, <1>10, <3>2 DEF Inside
    <3> QED
      BY <3>1, <3>2
  <2>3. (\A s \in Team : Beyond(s, l - 1)') /\ loops'[l].n = n
    BY <1>0, <1>7, <1>8 DEF n
  <2> QED
    BY <1>3, <2>1, <2>2, <2>3 DEF StaticOK
<1>12. UnitsStep(t, l, k, p)
  <2>1. CASE W.created
    <3>1. \A s \in Team : Due(l, k, s)' <=> Due(l, k, s)
      BY <1>0, <1>3, <2>1 DEF Due, W
    <3>2. p = "end" /\ l + 1 \in DOMAIN loops => sem[t] = 0
      <4> SUFFICES ASSUME p = "end", l + 1 \in DOMAIN loops PROVE ~Due(l, k, t)
        BY <1>1, <1>8
      <4>1. n > 0
        <5>1. l \in 1 .. Len(loops) - 1
          BY <1>0, <1>1, <1>6, TypeFacts
        <5> QED
          BY <1>0, <5>1 DEF Apart, n
      <4>2. Distance(t, t) = 0
        BY <1>1 DEF Distance
      <4> QED
        BY <1>0, <1>1, <1>2, <1>9, <4>1, <4>2 DEF Due, W, n
    <3>3. sem' = sem
      BY <1>0, <2>1 DEF W
    <3> QED
      BY <1>1, <1>8, <3>1, <3>2, <3>3 DEF UnitsStep
  <2>2. CASE ~W.created
    <3>1. k = 0 /\ W.ids[0] = 0 /\ W.owner = None /\ \A s \in Team : Before(s, l)
      BY <1>1, <2>2 DEF StaticOK, W
    <3>2. \A s \in Team : ~Beyond(s, l)
      BY <1>1, <1>6, <3>1, TypeFacts DEF Before, Beyond
    <3>3. \A s \in Team : Turn(s) = l
      BY <1>0, <1>1, <1>7, <3>2, InTurn
    <3>4. \A s \in Team : sem[s] = 0
      <4>1. \A s \in Team : ~Due(l, k, s)
        BY <1>0, <2>2 DEF Due, W
      <4> QED
        BY <1>1, <3>3, <4>1
    <3>5. \A s \in Team : sem'[s] = IF s = 0 THEN 1 ELSE 0
      BY <1>0, <1>1, <2>2, <3>4 DEF Post, W
    <3>6. \A s \in Team : Due(l, k, s)' <=> s = 0
      BY <1>0, <1>1, <1>3, <3>1 DEF Due
    <3>7. p = "end" /\ l + 1 \in DOMAIN loops => t # 0
      <4> SUFFICES ASSUME p = "end", l + 1 \in DOMAIN loops PROVE t # 0
        OBVIOUS
      <4>1. l \in 1 .. Len(loops) - 1
        BY <1>0, <1>1, <1>6, TypeFacts
      <4>2. n > 0
        BY <1>0, <4>1 DEF Apart, n
      <4> QED
        BY <1>1, <1>2, <4>2
    <3> QED
      BY <3>3, <3>5, <3>6, <3>7 DEF UnitsStep
  <2> QED
    BY <2>1, <2>2
<1>13. LoopOK(l, k)'
  BY <1>0, <1>11 DEF LoopOK
<1> QED
  <2>1. l \in DOMAIN loops /\ k \in Nat /\ k <= loops[l].n /\ member[t].pc \in Inside \cup {"idle"}
    BY <1>0, <1>1 DEF n
  <2> QED
    BY <1>0, <1>2, <1>3, <1>4, <1>5, <1>12, <1>13, <2>1, LoopStep
-----------------------------------------------------------------------------
(* gomp_ordered_sync.                                                      *)

(* A thread that moves within its block, with the right if it needs it.    *)
LEMMA WithinInv ==
  ASSUME NEW K, OrdInv(K), Apart(loops), NEW t \in Team, member[t].pc \in Inside,
         NEW l \in DOMAIN loops, l = member[t].loop, NEW p \in Inside, At(t, p, member[t].block),
         UNCHANGED <<loops, loopWs, sem, passed>>,
         p \in {"region", "next"} => loopWs[l].owner = t
  PROVE  RightInv'
<1>1. /\ OrdTypeOK(K) /\ UnitsExact(K) /\ LoopOK(l, K[l]) /\ K[l] \in Nat /\ K[l] <= loops[l].n
      /\ loopWs[l] \in WsType /\ member[t].block \in Nat /\ sem \in [Team -> Nat]
  BY TypeFacts DEF OrdInv, OrdTypeOK
<1>2. PICK b \in Nat : b = member[t].block /\ At(t, p, b)
  BY <1>1
<1>3. /\ \A s \in Team : /\ Working(s, l)' <=> Working(s, l)
                         /\ Before(s, l)' <=> Before(s, l)
                         /\ Beyond(s, l)' <=> Beyond(s, l)
                         /\ Beyond(s, l - 1) => Beyond(s, l - 1)'
                         /\ Working(s, l) =>
                              /\ member'[s].block = member[s].block
                              /\ member'[s].pc \in {"region", "next"} =>
                                   member[s].pc \in {"region", "next"} \/ loopWs[l].owner = s
      /\ Turn(t) = l
  <2>1. p # "end" /\ member[t].pc # "idle"
    BY DEF Inside
  <2> QED
    BY <1>1, <1>2, <2>1, MovedIn
<1>4. LoopOK(l, K[l])'
  BY <1>1, <1>3, OtherLoop
<1>5. UnitsStep(t, l, K[l], p)
  <2>1. \A s \in Team : Due(l, K[l], s)' <=> Due(l, K[l], s)
    BY <1>3 DEF Due
  <2>2. p # "end"
    BY DEF Inside
  <2> QED
    BY <1>1, <1>3, <2>1, <2>2 DEF UnitsStep, UnitsExact
<1>6. /\ loopWs' = [loopWs EXCEPT ![l] = loopWs[l]] /\ passed' = [passed EXCEPT ![l] = 0 .. K[l] - 1]
      /\ sem' \in [Team -> Nat]
  BY <1>1 DEF OrdTypeOK
<1>7. PICK V \in WsType, k \in Nat : V = loopWs[l] /\ k = K[l]
  BY <1>1
<1> QED
  BY <1>1, <1>2, <1>4, <1>5, <1>6, <1>7, LoopStep

(* Sync looks at ordered_owner only.                                       *)
LEMMA SyncInv ==
  ASSUME NEW K, OrdInv(K), Apart(loops), NEW t \in Team, Sync(t) \/ LeaveRegion(t)
  PROVE  RightInv'
<1>1. PICK l : l = member[t].loop
  OBVIOUS
<1>2. /\ member[t].pc \in Inside /\ UNCHANGED <<loops, loopWs, sem, passed>>
      /\ \E p \in Inside : /\ At(t, p, member[t].block)
                           /\ p \in {"region", "next"} => loopWs[l].owner = t
  BY <1>1 DEF Sync, LeaveRegion, Inside
<1>3. l \in DOMAIN loops
  <2>1. member[t].pc # "idle"
    BY <1>2 DEF Inside
  <2> QED
    BY <1>1, <2>1, TypeFacts DEF OrdInv
<1> QED
  BY <1>1, <1>2, <1>3, WithinInv

(* gomp_sem_wait: only the thread whose turn it is has a unit.             *)
LEMMA SyncWaitInv ==
  ASSUME NEW K, OrdInv(K), Apart(loops), NEW t \in Team, SyncWait(t),
         NEW l, l = member[t].loop, NEW k, k = K[l]
  PROVE  RightInv'
<1> DEFINE W == loopWs[l]
<1>0. /\ member[t].pc \in {"sync", "nsync"} /\ member[t].pc \in Inside /\ member[t].pc # "end" /\ sem[t] > 0
      /\ sem' = [sem EXCEPT ![t] = @ - 1]
      /\ loopWs' = [loopWs EXCEPT ![l].owner = t]
      /\ At(t, IF member[t].pc = "sync" THEN "region" ELSE "next", member[t].block)
      /\ loops' = loops /\ passed' = passed
  BY DEF SyncWait, Inside
<1>1. /\ OrdTypeOK(K) /\ UnitsExact(K) /\ l \in DOMAIN loops /\ LoopOK(l, k)
      /\ k \in Nat /\ k <= loops[l].n
      /\ W \in WsType /\ member[t].block \in Nat /\ sem \in [Team -> Nat]
  <2>1. member[t].pc # "idle"
    BY <1>0
  <2>2. OrdTypeOK(K) /\ l \in DOMAIN loops
    BY <2>1, TypeFacts DEF OrdInv
  <2> QED
    BY <2>2, TypeFacts DEF OrdInv, OrdTypeOK
<1>2. PICK p \in Inside, b \in Nat : b = member[t].block /\ At(t, p, b) /\ p # "end"
  BY <1>0, <1>1 DEF Inside
<1>3. PICK V \in WsType : /\ V.owner = t /\ V.ids = W.ids /\ V.cur = W.cur /\ V.used = W.used
                          /\ V.next = W.next /\ V.created = W.created
                          /\ loopWs' = [loopWs EXCEPT ![l] = V] /\ loopWs'[l] = V
  <2> DEFINE V == [W EXCEPT !.owner = t]
  <2>1. /\ V \in WsType /\ V.owner = t /\ V.ids = W.ids /\ V.cur = W.cur /\ V.used = W.used
        /\ V.next = W.next
    BY <1>1 DEF WsType
  <2>2. V.created = W.created
    BY <1>1 DEF WsType
  <2>3. loopWs' = [loopWs EXCEPT ![l] = V] /\ loopWs'[l] = V
    BY <1>0, <1>1 DEF OrdTypeOK
  <2> HIDE DEF V
  <2> QED
    BY <2>1, <2>2, <2>3
<1>4. /\ \A s \in Team : /\ Working(s, l)' <=> Working(s, l)
                         /\ Before(s, l)' <=> Before(s, l)
                         /\ Beyond(s, l)' <=> Beyond(s, l)
                         /\ Beyond(s, l - 1) => Beyond(s, l - 1)'
                         /\ member'[s].block = member[s].block
                         /\ s # t => member'[s] = member[s]
      /\ Turn(t) = l /\ Working(t, l)
  <2>1. p # "end" /\ member[t].pc # "idle"
    BY <1>0, <1>2
  <2> QED
    BY <1>0, <1>1, <1>2, <2>1, MovedIn
<1>5. Due(l, k, t) /\ sem[t] = 1
  BY <1>0, <1>1, <1>4 DEF UnitsExact
<1>6. \A s \in Team : ~Due(l, k, s)' /\ (s # t => ~Due(l, k, s))
  BY <1>0, <1>3, <1>5 DEF Due
<1>7. /\ sem'[t] = 0 /\ sem' \in [Team -> Nat] /\ \A s \in Team : s # t => sem'[s] = sem[s]
  <2>1. PICK m \in Nat : m = sem[t] - 1 /\ m = 0
    BY <1>5
  <2> QED
    BY <1>0, <1>1, <2>1
<1>8. UnitsStep(t, l, k, p)
  BY <1>1, <1>2, <1>6, <1>7 DEF UnitsStep, UnitsExact
<1>11. /\ W.used \in 0..N /\ W.used \in Nat /\ W.cur \in Team /\ W.ids \in [Team -> Team]
       /\ W.owner \in Team \cup {None} /\ loops[l].n \in Nat /\ N \in Nat
  <2>1. /\ W.used \in 0..N /\ W.cur \in Team /\ W.ids \in [Team -> Team]
        /\ W.owner \in Team \cup {None}
    BY <1>1 DEF WsType
  <2>2. loops[l].n \in Nat
    BY <1>1, TypeFacts
  <2> QED
    BY <2>1, <2>2, OrderedAssumption
<1>12. None \notin Team
  BY SlotFacts
<1> HIDE DEF W
<1>9. LoopOK(l, k)'
  <2>1. CASE loops[l].static
    <3>1. StaticOK(l, k) /\ W.owner # t /\ W.ids[0] = t
      BY <1>1, <1>5, <2>1 DEF LoopOK, Due, W
    <3>2. k # loops[l].n
      BY <1>1, <1>4, <1>11, <3>1 DEF StaticOK
    <3>3. \A s \in Team : s # t /\ Working(s, l) => member[s].pc \notin {"region", "next"}
      BY <3>1, <3>2, SlotFacts DEF StaticOK, W
    <3>4. StaticOK(l, k)'
      <4>1. W.created /\ (\A s \in Team : Beyond(s, l - 1)') /\ loops'[l].n = loops[l].n
        BY <1>0, <1>4, <1>5, <2>1, <3>1 DEF StaticOK, Due, W
      <4>2. ASSUME NEW s \in Team
            PROVE  /\ Before(s, l)' => IF k < loops[l].n THEN k + Distance(V.ids[0], s) = s
                                                         ELSE s >= loops[l].n
                   /\ Working(s, l)' => /\ k < loops[l].n /\ member'[s].block = k + Distance(V.ids[0], s)
                                        /\ k + Distance(V.ids[0], s) < loops[l].n
                   /\ Beyond(s, l)' => k = loops[l].n \/ k + Distance(V.ids[0], s) >= loops[l].n
        BY <1>3, <1>4, <3>1 DEF StaticOK, W
      <4>3. \A s \in Team : Working(s, l)' /\ member'[s].pc \in {"region", "next"} => V.owner = s
        BY <1>3, <1>4, <3>3
      <4>4. V.created /\ V.owner = V.ids[0] /\ Working(V.owner, l)'
        BY <1>3, <1>4, <3>1, <4>1
      <4> QED
        BY <1>3, <4>1, <4>2, <4>3, <4>4 DEF StaticOK
    <3> QED
      BY <1>0, <2>1, <3>4 DEF LoopOK
  <2>2. CASE ~loops[l].static
    <3>1. DynamicOK(l, k) /\ W.owner # t /\ W.ids[W.cur] = t
      BY <1>1, <1>5, <2>2 DEF LoopOK, Due, W
    <3>2. W.used \in Nat /\ W.used > 0
      <4>1. W.used \in Nat
        BY <1>11
      <4>2. \E i \in 0 .. W.used - 1 : TRUE
        BY <1>4, <3>1 DEF DynamicOK, W
      <4> QED
        BY <4>1, <4>2
    <3>3. \A s \in Team : s # t /\ Working(s, l) => member[s].pc \notin {"region", "next"}
      <4>1. /\ W.owner # None => W.owner = t
            /\ \A s \in Team : Working(s, l) /\ member[s].pc \in {"region", "next"} => W.owner = s
        BY <3>1 DEF DynamicOK, W
      <4> QED
        BY <1>12, <4>1
    <3>4. Workers(l)' = Workers(l)
      BY <1>4 DEF Workers
    <3>5. \A i \in 0 .. W.used - 1 : W.ids[Slot(W.cur, i)] \in Team
      <4>1. W.used \in 0..N /\ W.cur \in Team /\ W.ids \in [Team -> Team]
        BY <1>11
      <4>2. \A i \in 0 .. W.used - 1 : i \in 0..N
        BY <1>11
      <4> QED
        BY <4>1, <4>2, SlotFacts
    <3>6. DynamicOK(l, k)'
      <4>1. /\ V.next = k + V.used /\ V.next <= loops[l].n /\ V.used = Cardinality(Workers(l)')
            /\ V.used > 0 /\ V.owner = V.ids[V.cur]
        BY <1>3, <3>1, <3>2, <3>4 DEF DynamicOK, W
      <4>2. \A i \in 0 .. V.used - 1 : LET s == V.ids[Slot(V.cur, i)]
                                      IN Working(s, l)' /\ member'[s].block = k + i
        <5>1. \A i \in 0 .. W.used - 1 : /\ Working(W.ids[Slot(W.cur, i)], l)
                                        /\ member[W.ids[Slot(W.cur, i)]].block = k + i
          BY <3>1 DEF DynamicOK, W
        <5> QED
          BY <1>3, <1>4, <3>5, <5>1
      <4>3. \A s \in Team : Working(s, l)' => \E i \in 0 .. V.used - 1 : V.ids[Slot(V.cur, i)] = s
        <5>1. \A s \in Team : Working(s, l) => \E i \in 0 .. W.used - 1 : W.ids[Slot(W.cur, i)] = s
          BY <3>1 DEF DynamicOK, W
        <5> QED
          BY <1>3, <1>4, <5>1
      <4>4. \A s \in Team : Working(s, l)' /\ member'[s].pc \in {"region", "next"} => V.owner = s
        BY <1>3, <1>4, <3>3
      <4>5. loops'[l].n = loops[l].n /\ loopWs'[l] = V
        BY <1>0, <1>3
      <4> QED
        BY <4>1, <4>2, <4>3, <4>4, <4>5 DEF DynamicOK
    <3> QED
      BY <1>0, <2>2, <3>6 DEF LoopOK
  <2> QED
    BY <2>1, <2>2
<1>10. passed' = [passed EXCEPT ![l] = 0 .. k - 1]
  BY <1>0, <1>1 DEF OrdTypeOK
<1> QED
  BY <1>0, <1>1, <1>2, <1>3, <1>7, <1>8, <1>9, <1>10, LoopStep
-----------------------------------------------------------------------------
(* gomp_ordered_static_next.                                               *)

(* The round, seen from one thread and from the next.                      *)
LEMMA DistanceFacts ==
  ASSUME NEW t \in Team
  PROVE  /\ Distance(t, t) = 0 /\ Slot(t, 1) \in Team /\ Slot(t, 1) # t /\ (t + 1) % N = Slot(t, 1)
         /\ Distance(Slot(t, 1), t) = N - 1 /\ Distance(t, Slot(t, 1)) = 1
         /\ \A s \in Team : /\ Distance(t, s) \in Nat
                            /\ s # t => /\ Distance(t, s) >= 1
                                        /\ Distance(Slot(t, 1), s) = Distance(t, s) - 1
<1>1. N \in Nat /\ N > 1
  BY OrderedAssumption
<1>2. Slot(t, 1) \in Team /\ Slot(t, 1) # t /\ (t + 1) % N = Slot(t, 1)
  BY <1>1, SlotFacts
<1>3. /\ Distance(t, t) = 0 /\ Distance(Slot(t, 1), t) = N - 1 /\ Distance(t, Slot(t, 1)) = 1
      /\ \A s \in Team : /\ Distance(t, s) \in Nat
                         /\ s # t => /\ Distance(t, s) >= 1
                                     /\ Distance(Slot(t, 1), s) = Distance(t, s) - 1
  BY <1>1 DEF Distance, Slot, Team
<1> QED
  BY <1>2, <1>3

(* The holder of the right passes it to the next thread, unless it had the *)
(* last block: nobody waits for it then.                                   *)
LEMMA NextStaticInv ==
  ASSUME NEW K, OrdInv(K), Apart(loops), NEW t \in Team, NextStatic(t),
         NEW l, l = member[t].loop, NEW k, k = K[l]
  PROVE  RightInv'
<1> DEFINE W == loopWs[l]
           n == loops[l].n
           u == Slot(t, 1)
<1>0. /\ member[t].pc = "next" /\ loops[l].static /\ loops' = loops
      /\ IF member[t].block = n - 1 THEN loopWs' = loopWs /\ sem' = sem
         ELSE /\ loopWs' = [loopWs EXCEPT ![l] = StaticPass(W, t)]
              /\ sem' = Post(sem, (t + 1) % N)
      /\ IF member[t].block + N < n THEN At(t, "body", member[t].block + N) ELSE At(t, "end", 0)
      /\ passed' = [passed EXCEPT ![l] = passed[l] \cup {member[t].block}]
  <2>1. passed' = [passed EXCEPT ![l] = @ \cup {member[t].block}]
    BY DEF NextStatic, Done
  <2>2. [passed EXCEPT ![l] = @ \cup {member[t].block}] = [passed EXCEPT ![l] = passed[l] \cup {member[t].block}]
    OBVIOUS
  <2>3. [loopWs EXCEPT ![l] = StaticPass(@, t)] = [loopWs EXCEPT ![l] = StaticPass(W, t)]
    BY DEF StaticPass
  <2>4. /\ member[t].pc = "next" /\ loops[l].static /\ loops' = loops
        /\ IF member[t].block = n - 1 THEN UNCHANGED <<loopWs, sem>>
           ELSE /\ loopWs' = [loopWs EXCEPT ![l] = StaticPass(@, t)]
                /\ sem' = Post(sem, (t + 1) % N)
        /\ IF member[t].block + N < n THEN At(t, "body", member[t].block + N) ELSE At(t, "end", 0)
    BY DEF NextStatic
  <2> QED
    BY <2>1, <2>2, <2>3, <2>4
<1>1. l \in DOMAIN loops
  BY <1>0, TypeFacts DEF OrdInv
<1>2. /\ StaticOK(l, k) /\ k \in Nat /\ n \in Nat /\ k <= n
      /\ W \in WsType /\ W.ids \in [Team -> Team] /\ W.owner \in Team \cup {None} /\ W.ids[0] \in Team
      /\ \A s \in Team : Turn(s) = l => sem[s] = IF Due(l, k, s) THEN 1 ELSE 0
      /\ OrdTypeOK(K) /\ BarriersHold /\ N \in Nat /\ N > 1 /\ None \notin Team /\ 0 \in Team
      /\ sem \in [Team -> Nat]
  BY <1>0, <1>1, StaticFacts
<1>3. /\ Distance(t, t) = 0 /\ u \in Team /\ u # t /\ (t + 1) % N = u
      /\ Distance(u, t) = N - 1 /\ Distance(t, u) = 1
      /\ \A s \in Team : /\ Distance(t, s) \in Nat
                         /\ s # t => /\ Distance(t, s) >= 1
                                     /\ Distance(u, s) = Distance(t, s) - 1
  BY DistanceFacts
<1>4. /\ Working(t, l) /\ ~Before(t, l) /\ l \in Int /\ l - 1 \in Int
  BY <1>0, <1>1, <1>2, TypeFacts DEF Working, Before, Inside
<1>5. /\ W.created /\ (\A s \in Team : Beyond(s, l - 1)) /\ k < n
      /\ W.owner = t /\ W.ids[0] = t /\ member[t].block = k
  <2>1. W.created /\ \A s \in Team : Beyond(s, l - 1)
    BY <1>2, <1>4 DEF StaticOK
  <2>2. W.owner = t /\ k < n /\ member[t].block = k + Distance(W.ids[0], t)
    BY <1>0, <1>2, <1>4 DEF StaticOK
  <2>3. W.owner # None => k = n \/ W.owner = W.ids[0]
    BY <1>2 DEF StaticOK
  <2>4. W.ids[0] = t
    BY <1>2, <2>2, <2>3
  <2> QED
    BY <1>2, <1>3, <2>1, <2>2, <2>4
<1>6. \A s \in Team :
        /\ Before(s, l) => k + Distance(t, s) = s
        /\ Working(s, l) => member[s].block = k + Distance(t, s) /\ k + Distance(t, s) < n
        /\ Beyond(s, l) => k + Distance(t, s) >= n
        /\ Working(s, l) /\ member[s].pc \in {"region", "next"} => s = t
  BY <1>2, <1>5 DEF StaticOK
<1>7. PICK p \in Inside \cup {"end"}, b \in Nat :
        /\ At(t, p, b)
        /\ (p = "end" <=> k + N >= n) /\ (p # "end" => p = "body" /\ b = k + N)
  BY <1>0, <1>2, <1>5 DEF Inside
<1>8. PICK k1 \in Nat : k1 = k + 1 /\ k1 <= n /\ k1 > 0 /\ passed' = [passed EXCEPT ![l] = 0 .. k1 - 1]
  <2>1. (0 .. k - 1) \cup {k} = 0 .. (k + 1) - 1
    BY <1>2
  <2>2. passed[l] = 0 .. k - 1
    BY <1>1, <1>2 DEF OrdTypeOK
  <2>3. passed' = [passed EXCEPT ![l] = 0 .. (k + 1) - 1]
    BY <1>0, <1>5, <2>1, <2>2
  <2>4. k + 1 \in Nat /\ k + 1 <= n /\ k + 1 > 0
    BY <1>2, <1>5
  <2> QED
    BY <2>3, <2>4
<1>9. PICK V \in WsType :
        /\ loopWs' = [loopWs EXCEPT ![l] = V] /\ loopWs'[l] = V /\ V.created
        /\ k1 = n => V.owner = t /\ V.ids[0] = t
        /\ k1 # n => V.owner = None /\ V.ids[0] = u
  <2>1. CASE k1 = n
    <3>1. member[t].block = n - 1
      BY <1>2, <1>5, <1>8, <2>1
    <3>2. loopWs' = [loopWs EXCEPT ![l] = W] /\ loopWs'[l] = W
      BY <1>0, <1>1, <1>2, <3>1 DEF OrdTypeOK
    <3> QED
      BY <1>2, <1>5, <2>1, <3>2
  <2>2. CASE k1 # n
    <3> DEFINE V == StaticPass(W, t)
    <3>1. member[t].block # n - 1
      BY <1>2, <1>5, <1>8, <2>2
    <3>2. loopWs' = [loopWs EXCEPT ![l] = V] /\ loopWs'[l] = V
      BY <1>0, <1>1, <1>2, <3>1 DEF OrdTypeOK
    <3>6. PICK X \in [Team -> Team] : X = [W.ids EXCEPT ![0] = u] /\ X[0] = u
      <4>1. W.ids \in [Team -> Team] /\ 0 \in Team /\ u \in Team
        BY <1>2, <1>3
      <4>2. [W.ids EXCEPT ![0] = u] \in [Team -> Team]
        BY <4>1
      <4>3. [W.ids EXCEPT ![0] = u][0] = u
        BY <4>1
      <4> QED
        BY <4>2, <4>3, Zenon
    <3>3. V = [W EXCEPT !.owner = None, !.ids = X]
      BY <1>2, <1>3, <3>6 DEF StaticPass, WsType
    <3>4. V \in WsType /\ V.owner = None /\ V.ids[0] = u
      <4>1. W \in WsType /\ None \in Team \cup {None}
        BY <1>2
      <4> HIDE DEF W, V
      <4>2. V \in WsType
        BY <3>3, <3>6, <4>1 DEF WsType
      <4>3. V.owner = None /\ V.ids = X
        BY <3>3, <4>1 DEF WsType
      <4> QED
        BY <3>6, <4>2, <4>3
    <3>5. V.created
      BY <1>2, <1>5, <3>3 DEF WsType
    <3> HIDE DEF V
    <3> QED
      BY <2>2, <3>2, <3>4, <3>5
  <2> QED
    BY <2>1, <2>2
<1>10. /\ \A s \in Team : s # t => /\ Working(s, l)' <=> Working(s, l)
                                   /\ Before(s, l)' <=> Before(s, l)
                                   /\ Beyond(s, l)' <=> Beyond(s, l)
                                   /\ member'[s] = member[s]
       /\ \A s \in Team : Beyond(s, l - 1)'
       /\ Working(t, l)' <=> p \in Inside
       /\ Beyond(t, l)' <=> p = "end"
       /\ ~Before(t, l)' /\ Turn(t) = l
       /\ member'[t].block = b /\ member'[t].pc = p
  <2>1. member[t].pc \in Inside \cup {"idle"}
    BY <1>0 DEF Inside
  <2>2. OrdTypeOK(K) /\ At(t, p, b) /\ \A s \in Team : Beyond(s, l - 1)
    BY <1>2, <1>5, <1>7
  <2> QED
    BY <1>1, <2>1, <2>2, MovedIn
<1> HIDE DEF W, n, u
<1>16. /\ k \in Nat /\ n \in Nat /\ N \in Nat /\ k1 \in Nat /\ k1 = k + 1 /\ k1 <= n
       /\ \A s \in Team : s \in Int
  BY <1>2, <1>8 DEF Team
<1>11. p # "end" <=> p \in Inside
  BY DEF Inside
<1>12. StaticOK(l, k1)'
  <2>1. ASSUME NEW s \in Team
        PROVE  /\ Before(s, l)' => IF k1 < n THEN k1 + Distance(V.ids[0], s) = s ELSE s >= n
               /\ Working(s, l)' => /\ k1 < n /\ member'[s].block = k1 + Distance(V.ids[0], s)
                                    /\ k1 + Distance(V.ids[0], s) < n
               /\ Beyond(s, l)' => k1 = n \/ k1 + Distance(V.ids[0], s) >= n
               /\ Working(s, l)' /\ member'[s].pc \in {"region", "next"} => V.owner = s
    <3>1. CASE s # t
      <4>1. k + Distance(t, s) \in Nat /\ k + Distance(t, s) >= k1 /\ s \in Int
        BY <1>3, <1>16, <3>1
      <4>2. k1 # n => k1 + Distance(V.ids[0], s) = k + Distance(t, s)
        <5>1. Distance(t, s) \in Nat /\ Distance(u, s) = Distance(t, s) - 1
          BY <1>3, <3>1
        <5> QED
          BY <1>9, <1>16, <5>1
      <4>3. CASE k1 = n
        BY <1>2, <1>6, <1>8, <1>10, <3>1, <4>1, <4>3
      <4>4. CASE k1 # n
        <5>1. k1 < n
          BY <1>2, <1>8, <4>4
        <5> QED
          BY <1>6, <1>10, <3>1, <4>2, <4>4, <5>1
      <4> QED
        BY <4>3, <4>4
    <3>2. CASE s = t
      <4>1. CASE k1 = n
        <5>1. p = "end"
          BY <1>2, <1>7, <1>8, <4>1
        <5> QED
          BY <1>10, <1>11, <3>2, <4>1, <5>1
      <4>2. CASE k1 # n
        <5>1. k1 + Distance(V.ids[0], t) = k + N /\ k1 < n
          <6>1. Distance(V.ids[0], t) = N - 1
            BY <1>3, <1>9, <4>2
          <6> QED
            BY <1>16, <4>2, <6>1
        <5> QED
          BY <1>7, <1>16, <1>10, <1>11, <3>2, <5>1
      <4> QED
        BY <4>1, <4>2
    <3> QED
      BY <3>1, <3>2
  <2>2. loops'[l].n = n /\ (V.owner # None => k1 = n)
    BY <1>0, <1>9 DEF n
  <2> QED
    BY <1>9, <1>10, <2>1, <2>2 DEF StaticOK
<1>13. LoopOK(l, k1)'
  BY <1>0, <1>12 DEF LoopOK
<1>14. /\ sem' \in [Team -> Nat]
       /\ k1 = n => sem' = sem
       /\ k1 # n => \A s \in Team : sem'[s] = IF s = u THEN sem[u] + 1 ELSE sem[s]
  <2>1. PICK m \in Nat : m = sem[u] + 1
    BY <1>2, <1>3
  <2>2. sem' = IF k1 = n THEN sem ELSE Post(sem, u)
    <3>1. member[t].block = n - 1 <=> k1 = n
      BY <1>5, <1>16
    <3> QED
      BY <1>0, <1>3, <3>1 DEF n
  <2> QED
    BY <1>2, <1>3, <2>1, <2>2 DEF Post
<1>15. UnitsStep(t, l, k1, p)
  <2>1. \A s \in Team : Turn(s) = l => sem[s] = 0
    <3>1. \A s \in Team : ~Due(l, k, s)
      BY <1>0, <1>5 DEF Due, W
    <3> QED
      BY <1>2, <3>1
  <2>2. CASE k1 = n
    <3>1. \A s \in Team : ~Due(l, k1, s)'
      BY <1>0, <1>2, <1>8, <2>2 DEF Due, n
    <3> QED
      BY <1>10, <1>14, <2>1, <2>2, <3>1 DEF UnitsStep
  <2>3. CASE k1 # n
    <3>1. \A s \in Team : Due(l, k1, s)' <=> s = u
      <4>1. k1 < n
        BY <1>2, <1>8, <2>3
      <4> QED
        BY <1>0, <1>2, <1>9, <2>3, <4>1 DEF Due, n
    <3>2. Turn(u) = l
      <4>1. ~Beyond(u, l)
        BY <1>2, <1>3, <1>6, <1>8, <2>3
      <4> QED
        BY <1>1, <1>2, <1>3, <1>5, <4>1, InTurn
    <3> QED
      BY <1>3, <1>10, <1>14, <2>1, <2>3, <3>1, <3>2 DEF UnitsStep
  <2> QED
    BY <2>2, <2>3
<1> QED
  <2>1. k1 <= loops[l].n /\ member[t].pc \in Inside \cup {"idle"}
    BY <1>0, <1>8 DEF n, Inside
  <2> QED
    BY <1>0, <1>1, <1>7, <1>8, <1>9, <1>13, <1>14, <1>15, <2>1, LoopStep
-----------------------------------------------------------------------------
(* Dynamic loops.                                                          *)

(* Threads and their number.                                               *)
LEMMA TeamSets ==
  ASSUME NEW S \in SUBSET Team
  PROVE  /\ Cardinality(S) \in 0..N /\ (Cardinality(S) = 0 <=> S = {})
         /\ \A t \in Team : /\ t \notin S => Cardinality(S) < N /\ Cardinality(S \cup {t}) = Cardinality(S) + 1
                            /\ t \in S => Cardinality(S \ {t}) = Cardinality(S) - 1
<1>1. N \in Nat /\ N > 1
  BY OrderedAssumption
<1>2. IsFiniteSet(Team) /\ Cardinality(Team) = N
  <2>1. IsFiniteSet(0 .. N - 1) /\ Cardinality(0 .. N - 1) = IF 0 > N - 1 THEN 0 ELSE (N - 1) - 0 + 1
    BY <1>1, FS_Interval
  <2> QED
    BY <1>1, <2>1 DEF Team
<1>3. \A R \in SUBSET Team : /\ IsFiniteSet(R) /\ Cardinality(R) \in Nat /\ Cardinality(R) <= N
                             /\ (Cardinality(R) = 0 <=> R = {})
  <2> TAKE R \in SUBSET Team
  <2>1. IsFiniteSet(R) /\ Cardinality(R) <= N
    BY <1>2, FS_Subset
  <2> QED
    BY <2>1, FS_CardinalityType, FS_EmptySet
<1>4. ASSUME NEW t \in Team, t \notin S
      PROVE  Cardinality(S) < N /\ Cardinality(S \cup {t}) = Cardinality(S) + 1
  <2>1. Cardinality(S \cup {t}) = Cardinality(S) + 1
    BY <1>3, <1>4, FS_AddElement
  <2>2. Cardinality(S \cup {t}) <= N /\ Cardinality(S) \in Nat
    BY <1>3
  <2> QED
    BY <1>1, <2>1, <2>2
<1>5. ASSUME NEW t \in Team, t \in S PROVE Cardinality(S \ {t}) = Cardinality(S) - 1
  BY <1>3, <1>5, FS_RemoveElement
<1> QED
  BY <1>1, <1>3, <1>4, <1>5

(* X is the ring ids after t is written to place c.                        *)
Written(ids, X, c, t) == /\ ids \in [Team -> Team] /\ X \in [Team -> Team] /\ X[c] = t
                         /\ \A d \in Team : d # c => X[d] = ids[d]

(* A thread joins the queue in the ring.                                   *)
LEMMA RingJoin ==
  ASSUME NEW ids, NEW cur \in Team, NEW used \in 0 .. N - 1, NEW t \in Team,
         NEW X, Written(ids, X, Slot(cur, used), t)
  PROVE  /\ \A i \in 0 .. used - 1 : X[Slot(cur, i)] = ids[Slot(cur, i)]
         /\ X[cur] = IF used = 0 THEN t ELSE ids[cur]
<1>1. N \in Nat /\ N > 1
  BY OrderedAssumption
<1>2. /\ \A i \in 0 .. N : Slot(cur, i) \in Team
      /\ \A i, j \in 0 .. N - 1 : Slot(cur, i) = Slot(cur, j) => i = j
      /\ Slot(cur, 0) = cur
  BY <1>1, SlotFacts
<1>3. /\ \A i \in 0 .. used - 1 : i \in 0 .. N - 1 /\ i \in 0 .. N /\ i # used
      /\ 0 \in 0 .. N - 1 /\ used \in 0 .. N
  BY <1>1
<1>6. \A i \in 0 .. used - 1 : X[Slot(cur, i)] = ids[Slot(cur, i)]
  BY <1>2, <1>3 DEF Written
<1>7. X[cur] = IF used = 0 THEN t ELSE ids[cur]
  BY <1>2, <1>3 DEF Written
<1> QED
  BY <1>6, <1>7

(* The first of the queue goes to its end.                                 *)
LEMMA RingTurn ==
  ASSUME NEW ids, NEW cur \in Team, NEW used \in 2 .. N, NEW t \in Team,
         NEW X, Written(ids, X, Slot(cur, used), t)
  PROVE  /\ X[Slot(Slot(cur, 1), used - 1)] = t
         /\ \A i \in 0 .. used - 2 : X[Slot(Slot(cur, 1), i)] = ids[Slot(cur, i + 1)]
<1>1. N \in Nat /\ N > 1
  BY OrderedAssumption
<1>2. /\ \A i \in 0 .. N : Slot(cur, i) \in Team
      /\ \A i, j \in 0 .. N - 1 : Slot(cur, i) = Slot(cur, j) => i = j
      /\ Slot(cur, 0) = cur /\ Slot(cur, N) = cur
      /\ \A i \in 0 .. N - 1 : Slot(Slot(cur, 1), i) = Slot(cur, i + 1)
  BY <1>1, SlotFacts
<1>5. ASSUME NEW i \in 0 .. used - 1
      PROVE  X[Slot(Slot(cur, 1), i)] = IF i = used - 1 THEN t ELSE ids[Slot(cur, i + 1)]
  <2>1. i \in 0 .. N - 1 /\ i + 1 \in 0 .. N
    BY <1>1
  <2>2. Slot(Slot(cur, 1), i) = Slot(cur, i + 1) /\ Slot(cur, i + 1) \in Team
    BY <1>2, <2>1
  <2>3. CASE i = used - 1
    <3>1. i + 1 = used
      BY <2>3
    <3> QED
      BY <2>2, <2>3, <3>1 DEF Written
  <2>4. CASE i # used - 1
    <3>1. i + 1 \in 0 .. N - 1 /\ i + 1 # used /\ i + 1 # 0 /\ 0 \in 0 .. N - 1
      BY <1>1, <2>4
    <3>2. Slot(cur, i + 1) # Slot(cur, used)
      <4>1. CASE used = N
        BY <1>2, <3>1, <4>1
      <4>2. CASE used # N
        <5>1. used \in 0 .. N - 1
          BY <1>1, <4>2
        <5> QED
          BY <1>2, <3>1, <5>1
      <4> QED
        BY <4>1, <4>2
    <3> QED
      BY <2>2, <2>4, <3>2 DEF Written
  <2> QED
    BY <2>3, <2>4
<1>6. used - 1 \in 0 .. used - 1 /\ \A i \in 0 .. used - 2 : i \in 0 .. used - 1 /\ i # used - 1
  BY <1>1
<1> QED
  BY <1>5, <1>6

(* What a thread in a dynamic loop may rely on.                            *)
LEMMA DynamicFacts ==
  ASSUME NEW K, OrdInv(K), NEW l \in DOMAIN loops, ~loops[l].static, NEW k, k = K[l],
         NEW W, W = loopWs[l]
  PROVE  /\ k \in Nat /\ loops[l].n \in Nat /\ k <= loops[l].n /\ W \in WsType
         /\ W.ids \in [Team -> Team] /\ W.cur \in Team /\ W.used \in 0..N /\ W.next \in Nat
         /\ W.next = k + W.used /\ W.next <= loops[l].n /\ W.used = Cardinality(Workers(l))
         /\ \A i \in 0 .. W.used - 1 : /\ Slot(W.cur, i) \in Team /\ W.ids[Slot(W.cur, i)] \in Team
                                       /\ Working(W.ids[Slot(W.cur, i)], l)
                                       /\ member[W.ids[Slot(W.cur, i)]].block = k + i
         /\ W.owner # None => W.used > 0 /\ W.owner = W.ids[W.cur]
         /\ \A s \in Team : Working(s, l) =>
              /\ \E i \in 0 .. W.used - 1 : W.ids[Slot(W.cur, i)] = s
              /\ member[s].pc \in {"region", "next"} => W.owner = s
         /\ \A s \in Team : Turn(s) = l =>
              sem[s] = IF Working(s, l) /\ W.ids[W.cur] = s /\ W.owner # s THEN 1 ELSE 0
         /\ OrdTypeOK(K) /\ N \in Nat /\ N > 1 /\ None \notin Team /\ Slot(W.cur, 0) = W.cur
         /\ sem \in [Team -> Nat]
<1>1. OrdTypeOK(K) /\ DynamicOK(l, k) /\ UnitsExact(K)
  BY DEF OrdInv, LoopOK
<1>2. k \in Nat /\ loops[l].n \in Nat /\ k <= loops[l].n /\ W \in WsType
  BY <1>1, TypeFacts
<1>3. W.ids \in [Team -> Team] /\ W.cur \in Team /\ W.used \in 0..N /\ W.next \in Nat
  BY <1>2 DEF WsType
<1>4. \A i \in 0 .. W.used - 1 : Slot(W.cur, i) \in Team /\ W.ids[Slot(W.cur, i)] \in Team
  <2>1. \A i \in 0 .. W.used - 1 : i \in 0..N
    BY <1>3, OrderedAssumption
  <2> QED
    BY <1>3, <2>1, SlotFacts
<1>5. /\ W.next = k + W.used /\ W.next <= loops[l].n /\ W.used = Cardinality(Workers(l))
      /\ \A i \in 0 .. W.used - 1 : /\ Working(W.ids[Slot(W.cur, i)], l)
                                    /\ member[W.ids[Slot(W.cur, i)]].block = k + i
      /\ W.owner # None => W.used > 0 /\ W.owner = W.ids[W.cur]
      /\ \A s \in Team : Working(s, l) =>
           /\ \E i \in 0 .. W.used - 1 : W.ids[Slot(W.cur, i)] = s
           /\ member[s].pc \in {"region", "next"} => W.owner = s
  BY <1>1 DEF DynamicOK
<1>6. \A s \in Team : Turn(s) = l =>
        sem[s] = IF Working(s, l) /\ W.ids[W.cur] = s /\ W.owner # s THEN 1 ELSE 0
  BY <1>1 DEF UnitsExact, Due
<1>7. N \in Nat /\ N > 1 /\ None \notin Team /\ Slot(W.cur, 0) = W.cur /\ sem \in [Team -> Nat]
  BY <1>1, <1>3, SlotFacts DEF OrdTypeOK
<1> QED
  BY <1>1, <1>2, <1>3, <1>4, <1>5, <1>6, <1>7

(* A queue made right.                                                     *)
LEMMA DynamicMade ==
  ASSUME NEW l, NEW k, NEW V, loopWs'[l] = V,
         V.next = k + V.used, V.next <= loops'[l].n, V.used = Cardinality(Workers(l)'),
         \A i \in 0 .. V.used - 1 : LET s == V.ids[Slot(V.cur, i)]
                                   IN Working(s, l)' /\ member'[s].block = k + i,
         V.owner # None => V.used > 0 /\ V.owner = V.ids[V.cur],
         \A s \in Team : Working(s, l)' =>
           /\ \E i \in 0 .. V.used - 1 : V.ids[Slot(V.cur, i)] = s
           /\ member'[s].pc \in {"region", "next"} => V.owner = s
  PROVE  DynamicOK(l, k)'
BY DEF DynamicOK

(* gomp_ordered_first: a thread comes with the block that is next, and is  *)
(* the last of the queue.                                                  *)
LEMMA StartDynamicInv ==
  ASSUME NEW K, OrdInv(K), Apart(loops), NEW t \in Team, StartDynamic(t),
         NEW l, l = member[t].loop, NEW k, k = K[l], NEW W, W = loopWs[l]
  PROVE  RightInv'
<1> DEFINE n == loops[l].n
<1>0. /\ member[t].pc = "idle" /\ l \in DOMAIN loops /\ ~loops[l].static
      /\ IF W.next < n
         THEN /\ loopWs' = [loopWs EXCEPT ![l] = First([W EXCEPT !.next = @ + 1], t)]
              /\ sem' = FirstPost(W, sem, t)
              /\ At(t, "body", W.next)
         ELSE At(t, "end", 0) /\ loopWs' = loopWs /\ sem' = sem
      /\ loops' = loops /\ passed' = passed
  BY DEF StartDynamic
<1>a. PICK ids, cur, used, next, owner :
        ids = W.ids /\ cur = W.cur /\ used = W.used /\ next = W.next /\ owner = W.owner
  OBVIOUS
<1>b. /\ k \in Nat /\ n \in Nat /\ k <= n /\ N \in Nat /\ N > 1
      /\ cur \in Team /\ used \in 0..N /\ next \in Nat /\ next = k + used /\ next <= n
  BY <1>0, <1>a, DynamicFacts
<1>c. /\ W \in WsType /\ ids \in [Team -> Team] /\ OrdTypeOK(K) /\ sem \in [Team -> Nat]
      /\ used = Cardinality(Workers(l))
  BY <1>0, <1>a, DynamicFacts
<1>d. /\ \A i \in 0 .. used - 1 : /\ ids[Slot(cur, i)] \in Team
                                  /\ Working(ids[Slot(cur, i)], l)
                                  /\ member[ids[Slot(cur, i)]].block = k + i
      /\ Slot(cur, 0) = cur
  BY <1>0, <1>a, DynamicFacts
<1>e. (owner # None => used > 0 /\ owner = ids[cur]) /\ None \notin Team
  BY <1>0, <1>a, DynamicFacts
<1>f. \A s \in Team : Working(s, l) =>
        /\ \E i \in 0 .. used - 1 : ids[Slot(cur, i)] = s
        /\ member[s].pc \in {"region", "next"} => owner = s
  BY <1>0, <1>a, DynamicFacts
<1>g. \A s \in Team : Turn(s) = l =>
        sem[s] = IF Working(s, l) /\ ids[cur] = s /\ owner # s THEN 1 ELSE 0
  BY <1>0, <1>a, DynamicFacts
<1>2. ~Working(t, l) /\ t \notin Workers(l) /\ Workers(l) \in SUBSET Team /\ Turn(t) = l
  BY <1>0 DEF Working, Workers, Inside, Turn
<1>3. passed' = [passed EXCEPT ![l] = 0 .. k - 1]
  BY <1>0, <1>c DEF OrdTypeOK
<1>4. /\ k <= loops[l].n /\ member[t].pc \in Inside \cup {"idle"} /\ l \in DOMAIN loops
      /\ OrdTypeOK(K) /\ sem[t] = 0
  BY <1>0, <1>b, <1>c, <1>g, <1>2 DEF n
<1> HIDE DEF n
<1>5. CASE next < n
  <2>1. PICK b \in Nat : b = k + used /\ b = next /\ At(t, "body", b)
    BY <1>0, <1>a, <1>b, <1>5 DEF n
  <2>2. /\ \A s \in Team : s # t => (Working(s, l)' <=> Working(s, l)) /\ member'[s] = member[s]
        /\ Working(t, l)' /\ member'[t].block = b /\ member'[t].pc = "body"
    <3>1. "body" \in Inside \cup {"end"} /\ "body" \in Inside
      BY DEF Inside
    <3> QED
      BY <1>4, <2>1, <3>1, MovedIn
  <2>3. used \in 0 .. N - 1 /\ Workers(l)' = Workers(l) \cup {t} /\ Cardinality(Workers(l)') = used + 1
    <3>1. Workers(l)' = Workers(l) \cup {t}
      BY <2>2 DEF Workers
    <3>2. Cardinality(Workers(l)) < N /\ Cardinality(Workers(l) \cup {t}) = Cardinality(Workers(l)) + 1
      BY <1>2, TeamSets
    <3> QED
      BY <1>b, <1>c, <3>1, <3>2
  <2>4. PICK X : X = [ids EXCEPT ![Slot(cur, used)] = t]
    OBVIOUS
  <2>5. /\ X \in [Team -> Team] /\ X[Slot(cur, used)] = t
        /\ \A i \in 0 .. used - 1 : X[Slot(cur, i)] = ids[Slot(cur, i)]
        /\ X[cur] = IF used = 0 THEN t ELSE ids[cur]
    <3>1. ids \in [Team -> Team] /\ cur \in Team /\ used \in 0 .. N - 1
      BY <1>b, <1>c, <2>3
    <3>2. Slot(cur, used) \in Team
      BY <1>b, SlotFacts
    <3>3. Written(ids, X, Slot(cur, used), t)
      BY <2>4, <3>1, <3>2 DEF Written
    <3>4. X \in [Team -> Team] /\ X[Slot(cur, used)] = t
      BY <3>3 DEF Written
    <3> QED
      BY <3>1, <3>3, <3>4, RingJoin
  <2>6. PICK V \in WsType :
          /\ loopWs' = [loopWs EXCEPT ![l] = V] /\ loopWs'[l] = V
          /\ V.owner = owner /\ V.cur = cur /\ V.ids = X
          /\ V.used = used + 1 /\ V.next = next + 1
    <3>1. PICK x \in Nat : x = next + 1
      BY <1>b
    <3>2. PICK y \in 0..N : y = used + 1
      BY <1>b, <2>3
    <3>3. (cur + used) % N = Slot(cur, used)
      BY <1>b, SlotFacts
    <3> DEFINE V == [W EXCEPT !.next = x, !.ids = X, !.used = y]
    <3>4. First([W EXCEPT !.next = @ + 1], t) = V
      <4>1. [W EXCEPT !.next = @ + 1] = [W EXCEPT !.next = x]
        BY <1>a, <1>c, <3>1 DEF WsType
      <4>2. PICK U : U = [W EXCEPT !.next = x]
        OBVIOUS
      <4>3. U.cur = cur /\ U.used = used /\ U.ids = ids
        BY <1>a, <1>c, <4>2 DEF WsType
      <4>4. First(U, t) = [U EXCEPT !.ids = X, !.used = y]
        BY <1>c, <2>4, <3>2, <3>3, <4>2, <4>3 DEF First, WsType
      <4> QED
        BY <1>c, <4>1, <4>2, <4>4 DEF WsType
    <3>5. /\ V \in WsType /\ V.owner = owner /\ V.cur = cur /\ V.ids = X
          /\ V.used = y /\ V.next = x
      BY <1>a, <1>c, <2>5 DEF WsType
    <3>6. loopWs' = [loopWs EXCEPT ![l] = V] /\ loopWs'[l] = V
      BY <1>0, <1>a, <1>c, <1>5, <3>4 DEF OrdTypeOK, n
    <3> HIDE DEF V
    <3> QED
      BY <3>1, <3>2, <3>5, <3>6
  <2>7. DynamicOK(l, k)'
    <3>1. V.next = k + V.used /\ V.next <= n /\ V.used = Cardinality(Workers(l)')
      BY <1>b, <1>5, <2>3, <2>6
    <3>2. ASSUME NEW i \in 0 .. V.used - 1
          PROVE  LET s == V.ids[Slot(V.cur, i)] IN Working(s, l)' /\ member'[s].block = k + i
      <4>1. i \in 0 .. used - 1 \/ i = used
        BY <1>b, <2>6
      <4> QED
        BY <1>d, <1>2, <2>1, <2>2, <2>5, <2>6, <4>1
    <3>3. V.owner # None => V.used > 0 /\ V.owner = V.ids[V.cur]
      BY <1>b, <1>e, <2>5, <2>6
    <3>4. ASSUME NEW s \in Team, Working(s, l)'
          PROVE  /\ \E i \in 0 .. V.used - 1 : V.ids[Slot(V.cur, i)] = s
                 /\ member'[s].pc \in {"region", "next"} => V.owner = s
      <4>1. CASE s = t
        <5>1. used \in 0 .. V.used - 1
          BY <1>b, <2>6
        <5> QED
          BY <2>2, <2>5, <2>6, <4>1, <5>1
      <4>2. CASE s # t
        <5>1. \A i \in 0 .. used - 1 : i \in 0 .. V.used - 1
          BY <1>b, <2>6
        <5> QED
          BY <1>f, <2>2, <2>5, <2>6, <3>4, <4>2, <5>1
      <4> QED
        BY <4>1, <4>2
    <3>5. loops'[l].n = n
      BY <1>0 DEF n
    <3> QED
      BY <2>6, <3>1, <3>2, <3>3, <3>4, <3>5, DynamicMade
  <2>8. /\ sem' \in [Team -> Nat]
        /\ \A s \in Team : sem'[s] = IF s = t /\ used = 0 THEN 1 ELSE sem[s]
    <3>1. sem' = IF used = 0 THEN [sem EXCEPT ![t] = 1] ELSE sem
      BY <1>0, <1>a, <1>4, <1>5 DEF FirstPost, Post, n
    <3> QED
      BY <1>c, <3>1
  <2>9. UnitsStep(t, l, k, "body")
    <3>1. \A s \in Team : Due(l, k, s)' <=> Working(s, l)' /\ X[cur] = s /\ owner # s
      BY <1>0, <2>6 DEF Due
    <3>2. \A s \in Team : s # t /\ Turn(s) = l => sem'[s] = IF Due(l, k, s)' THEN 1 ELSE 0
      <4>1. CASE used = 0
        <5>1. \A s \in Team : ~Working(s, l)
          BY <1>f, <4>1
        <5> QED
          BY <1>g, <2>2, <2>8, <3>1, <5>1
      <4>2. CASE used # 0
        BY <1>g, <2>2, <2>5, <2>8, <3>1, <4>2
      <4> QED
        BY <4>1, <4>2
    <3>3. sem'[t] = IF Due(l, k, t)' THEN 1 ELSE 0
      <4>1. CASE used = 0
        BY <1>e, <2>2, <2>5, <2>8, <3>1, <4>1
      <4>2. CASE used # 0
        <5>1. 0 \in 0 .. used - 1
          BY <1>b, <4>2
        <5>2. Working(ids[cur], l)
          BY <1>d, <5>1
        <5> QED
          BY <1>2, <1>4, <2>5, <2>8, <3>1, <4>2, <5>2
      <4> QED
        BY <4>1, <4>2
    <3> QED
      BY <1>2, <2>8, <3>2, <3>3 DEF UnitsStep
  <2>10. LoopOK(l, k)'
    BY <1>0, <2>7 DEF LoopOK
  <2>11. "body" \in Inside \cup {"end"}
    BY DEF Inside
  <2> QED
    BY <1>0, <1>b, <1>3, <1>4, <2>1, <2>6, <2>8, <2>9, <2>10, <2>11, LoopStep
<1>6. CASE ~(next < n)
  <2>1. At(t, "end", 0) /\ loopWs' = loopWs /\ sem' = sem
    BY <1>0, <1>a, <1>6 DEF n
  <2>2. \A s \in Team : (Working(s, l)' <=> Working(s, l)) /\ (s # t => member'[s] = member[s])
    <3>1. "end" \notin Inside
      BY DEF Inside
    <3> QED
      BY <1>2, <1>4, <2>1, <3>1, MovedIn
  <2>3. LoopOK(l, k)'
    <3>1. Workers(l)' = Workers(l) /\ loopWs'[l] = W /\ loops'[l].n = n
      BY <1>0, <2>1, <2>2 DEF Workers, n
    <3>2. \A i \in 0 .. used - 1 : LET s == ids[Slot(cur, i)]
                                    IN Working(s, l)' /\ member'[s].block = k + i
      BY <1>d, <1>2, <2>2
    <3>3. \A s \in Team : Working(s, l)' =>
            /\ \E i \in 0 .. used - 1 : ids[Slot(cur, i)] = s
            /\ member'[s].pc \in {"region", "next"} => owner = s
      BY <1>f, <1>2, <2>2
    <3>4. DynamicOK(l, k)'
      <4>1. /\ W.next = k + W.used /\ W.next <= n /\ W.used = Cardinality(Workers(l)')
            /\ W.owner # None => W.used > 0 /\ W.owner = W.ids[W.cur]
        BY <1>a, <1>b, <1>c, <1>e, <3>1
      <4>2. \A i \in 0 .. W.used - 1 : LET s == W.ids[Slot(W.cur, i)]
                                      IN Working(s, l)' /\ member'[s].block = k + i
        BY <1>a, <3>2
      <4>3. \A s \in Team : Working(s, l)' =>
              /\ \E i \in 0 .. W.used - 1 : W.ids[Slot(W.cur, i)] = s
              /\ member'[s].pc \in {"region", "next"} => W.owner = s
        BY <1>a, <3>3
      <4> QED
        BY <3>1, <4>1, <4>2, <4>3, DynamicMade
    <3> QED
      BY <1>0, <3>4 DEF LoopOK
  <2>4. UnitsStep(t, l, k, "end")
    <3>1. \A s \in Team : Due(l, k, s)' <=> Working(s, l) /\ ids[cur] = s /\ owner # s
      BY <1>0, <1>a, <2>1, <2>2 DEF Due
    <3> QED
      BY <1>g, <1>4, <2>1, <3>1 DEF UnitsStep
  <2>5. loopWs' = [loopWs EXCEPT ![l] = W] /\ sem' \in [Team -> Nat]
    BY <1>0, <1>c, <2>1 DEF OrdTypeOK
  <2> QED
    BY <1>0, <1>b, <1>c, <1>3, <1>4, <2>1, <2>3, <2>4, <2>5, LoopStep
<1> QED
  BY <1>5, <1>6

(* The holder of the right knows its place: it is the first of the queue.  *)
(* The next one gets the right, which is the holder itself if it is alone  *)
(* and takes another block.                                                *)
LEMMA NextDynamicInv ==
  ASSUME NEW K, OrdInv(K), Apart(loops), NEW t \in Team, NextDynamic(t),
         NEW l, l = member[t].loop, NEW k, k = K[l], NEW W, W = loopWs[l]
  PROVE  RightInv'
<1> DEFINE n == loops[l].n
<1>0. /\ member[t].pc = "next" /\ ~loops[l].static
      /\ IF W.next < n
         THEN /\ loopWs' = [loopWs EXCEPT ![l] = Requeue([W EXCEPT !.next = @ + 1], t)]
              /\ sem' = RequeuePost(W, sem, t)
              /\ At(t, "body", W.next)
         ELSE /\ loopWs' = [loopWs EXCEPT ![l] = Last(W)]
              /\ sem' = LastPost(W, sem)
              /\ At(t, "end", 0)
      /\ passed' = [passed EXCEPT ![l] = passed[l] \cup {member[t].block}]
      /\ loops' = loops
  <2>1. passed' = [passed EXCEPT ![l] = @ \cup {member[t].block}]
    BY DEF NextDynamic, Done
  <2>2. [passed EXCEPT ![l] = @ \cup {member[t].block}] = [passed EXCEPT ![l] = passed[l] \cup {member[t].block}]
    OBVIOUS
  <2> QED
    BY <2>1, <2>2 DEF NextDynamic
<1>1. l \in DOMAIN loops
  BY <1>0, TypeFacts DEF OrdInv
<1>a. PICK ids, cur, used, next, owner :
        ids = W.ids /\ cur = W.cur /\ used = W.used /\ next = W.next /\ owner = W.owner
  OBVIOUS
<1>b. /\ k \in Nat /\ n \in Nat /\ k <= n /\ N \in Nat /\ N > 1
      /\ cur \in Team /\ used \in 0..N /\ next \in Nat /\ next = k + used /\ next <= n
  BY <1>0, <1>1, <1>a, DynamicFacts
<1>c. /\ W \in WsType /\ ids \in [Team -> Team] /\ OrdTypeOK(K) /\ sem \in [Team -> Nat]
      /\ used = Cardinality(Workers(l))
  BY <1>0, <1>1, <1>a, DynamicFacts
<1>d. /\ \A i \in 0 .. used - 1 : /\ ids[Slot(cur, i)] \in Team
                                  /\ Working(ids[Slot(cur, i)], l)
                                  /\ member[ids[Slot(cur, i)]].block = k + i
      /\ Slot(cur, 0) = cur
  BY <1>0, <1>1, <1>a, DynamicFacts
<1>e. (owner # None => used > 0 /\ owner = ids[cur]) /\ None \notin Team
  BY <1>0, <1>1, <1>a, DynamicFacts
<1>f. \A s \in Team : Working(s, l) =>
        /\ \E i \in 0 .. used - 1 : ids[Slot(cur, i)] = s
        /\ member[s].pc \in {"region", "next"} => owner = s
  BY <1>0, <1>1, <1>a, DynamicFacts
<1>g. \A s \in Team : Turn(s) = l =>
        sem[s] = IF Working(s, l) /\ ids[cur] = s /\ owner # s THEN 1 ELSE 0
  BY <1>0, <1>1, <1>a, DynamicFacts
<1>2. /\ Working(t, l) /\ t \in Workers(l) /\ Workers(l) \in SUBSET Team
      /\ Turn(t) = l /\ member[t].pc \in Inside \cup {"idle"}
  BY <1>0 DEF Working, Workers, Inside, Turn
<1>3. owner = t /\ ids[cur] = t /\ used > 0 /\ member[t].block = k
  <2>1. owner = t /\ ids[cur] = t /\ used > 0
    BY <1>0, <1>e, <1>f, <1>2
  <2>2. 0 \in 0 .. used - 1
    BY <1>b, <2>1
  <2> QED
    BY <1>b, <1>d, <2>1, <2>2
<1>4. \A s \in Team : Turn(s) = l => sem[s] = 0
  BY <1>g, <1>3
<1>5. \A s \in Team : s # t /\ Working(s, l) => /\ \E i \in 1 .. used - 1 : ids[Slot(cur, i)] = s
                                               /\ member[s].pc \notin {"region", "next"}
  <2> SUFFICES ASSUME NEW s \in Team, s # t, Working(s, l)
               PROVE  /\ \E i \in 1 .. used - 1 : ids[Slot(cur, i)] = s
                      /\ member[s].pc \notin {"region", "next"}
    OBVIOUS
  <2>1. PICK i \in 0 .. used - 1 : ids[Slot(cur, i)] = s
    BY <1>f
  <2>2. i # 0
    BY <1>d, <1>3, <2>1
  <2>3. i \in 1 .. used - 1
    BY <1>b, <2>2
  <2> QED
    BY <1>f, <1>3, <2>1, <2>3
<1>6. PICK k1 \in Nat : k1 = k + 1 /\ k1 <= n /\ passed' = [passed EXCEPT ![l] = 0 .. k1 - 1]
  <2>1. (0 .. k - 1) \cup {k} = 0 .. (k + 1) - 1
    BY <1>b
  <2>2. passed[l] = 0 .. k - 1
    BY <1>1, <1>c DEF OrdTypeOK
  <2>3. passed' = [passed EXCEPT ![l] = 0 .. (k + 1) - 1]
    BY <1>0, <1>3, <2>1, <2>2
  <2>4. k + 1 \in Nat /\ k + 1 <= n
    BY <1>b, <1>3
  <2> QED
    BY <2>3, <2>4
<1>7. \A i \in 0 .. used - 2 : /\ ids[Slot(cur, i + 1)] \in Team /\ ids[Slot(cur, i + 1)] # t
                              /\ Working(ids[Slot(cur, i + 1)], l)
                              /\ member[ids[Slot(cur, i + 1)]].block = k1 + i
                              /\ Slot(Slot(cur, 1), i) = Slot(cur, i + 1)
  <2> TAKE i \in 0 .. used - 2
  <2>1. i + 1 \in 0 .. used - 1 /\ i \in 0 .. N - 1 /\ i + 1 # 0 /\ k + (i + 1) = k1 + i /\ k + (i + 1) # k
    BY <1>b, <1>6
  <2>2. Slot(Slot(cur, 1), i) = Slot(cur, i + 1)
    BY <1>b, <2>1, SlotFacts
  <2> QED
    BY <1>d, <1>3, <2>1, <2>2
<1> HIDE DEF n
<1>8. CASE next < n
  <2>1. PICK b \in Nat : b = k1 + (used - 1) /\ b = next /\ At(t, "body", b)
    BY <1>0, <1>a, <1>b, <1>6, <1>8 DEF n
  <2>2. /\ \A s \in Team : s # t => (Working(s, l)' <=> Working(s, l)) /\ member'[s] = member[s]
        /\ Working(t, l)' /\ member'[t].block = b /\ member'[t].pc = "body"
    <3>1. "body" \in Inside \cup {"end"} /\ "body" \in Inside
      BY DEF Inside
    <3> QED
      BY <1>1, <1>2, <1>c, <2>1, <3>1, MovedIn
  <2>3. Workers(l)' = Workers(l)
    BY <1>2, <2>2 DEF Workers
  <2>4. PICK h \in Team, V \in WsType :
          /\ loopWs' = [loopWs EXCEPT ![l] = V] /\ loopWs'[l] = V
          /\ V.owner = None /\ V.used = used /\ V.next = next + 1
          /\ V.ids[V.cur] = h /\ sem' = Post(sem, h) /\ (h # t => Working(h, l))
          /\ \A i \in 0 .. used - 1 :
               V.ids[Slot(V.cur, i)] = IF i = used - 1 THEN t ELSE ids[Slot(cur, i + 1)]
    <3>1. PICK x \in Nat : x = next + 1
      BY <1>b
    <3>2. PICK U : U = [W EXCEPT !.next = x]
      OBVIOUS
    <3>3. /\ U \in WsType /\ U.ids = ids /\ U.cur = cur /\ U.used = used /\ U.next = x
          /\ loopWs' = [loopWs EXCEPT ![l] = Requeue(U, t)]
      <4>1. [W EXCEPT !.next = @ + 1] = U
        BY <1>a, <1>c, <3>1, <3>2 DEF WsType
      <4>2. U \in WsType /\ U.ids = ids /\ U.cur = cur /\ U.used = used /\ U.next = x
        BY <1>a, <1>c, <3>2 DEF WsType
      <4> QED
        BY <1>0, <1>a, <1>8, <4>1, <4>2 DEF n
    <3>4. CASE used = 1
      <4>1. PICK V : V = [U EXCEPT !.owner = None]
        OBVIOUS
      <4>2. /\ V \in WsType /\ V.owner = None /\ V.used = used /\ V.next = next + 1
            /\ V.ids = ids /\ V.cur = cur
        BY <3>1, <3>3, <4>1 DEF WsType
      <4>3. Requeue(U, t) = V /\ Requeue(W, t).ids = ids /\ Requeue(W, t).cur = cur
        BY <1>a, <1>c, <3>3, <3>4, <4>1 DEF Requeue, WsType
      <4>4. loopWs' = [loopWs EXCEPT ![l] = V] /\ loopWs'[l] = V
        BY <1>1, <1>c, <3>3, <4>3 DEF OrdTypeOK
      <4>5. sem' = Post(sem, t)
        BY <1>0, <1>a, <1>c, <1>8, <3>4 DEF RequeuePost, n
      <4>6. \A i \in 0 .. used - 1 : i = 0 /\ i = used - 1
        BY <3>4
      <4>7. \A i \in 0 .. used - 1 :
              V.ids[Slot(V.cur, i)] = IF i = used - 1 THEN t ELSE ids[Slot(cur, i + 1)]
        BY <1>d, <1>3, <4>2, <4>6
      <4> QED
        BY <1>3, <4>2, <4>4, <4>5, <4>7
    <3>5. CASE used # 1
      <4>1. used \in 2 .. N /\ Slot(cur, used) \in Team /\ Slot(cur, 1) \in Team
            /\ (cur + used) % N = Slot(cur, used) /\ (cur + 1) % N = Slot(cur, 1)
            /\ (used = N => Slot(cur, used) = cur)
        <5>1. used \in 2 .. N /\ used \in 0 .. N /\ 1 \in 0 .. N
          BY <1>b, <1>3, <3>5
        <5> QED
          BY <1>b, <5>1, SlotFacts
      <4>2. PICK X : X = [ids EXCEPT ![Slot(cur, used)] = t]
        OBVIOUS
      <4>3. X \in [Team -> Team] /\ Written(ids, X, Slot(cur, used), t)
        BY <1>c, <4>1, <4>2 DEF Written
      <4>4. X = [ids EXCEPT ![Slot(cur, used)] = IF used < N THEN t ELSE @]
        <5>1. (IF used < N THEN t ELSE ids[Slot(cur, used)]) = t
          BY <1>b, <1>3, <4>1
        <5> QED
          BY <4>2, <5>1
      <4>5. PICK V : V = [U EXCEPT !.owner = None, !.cur = Slot(cur, 1), !.ids = X]
        OBVIOUS
      <4>6. /\ V \in WsType /\ V.owner = None /\ V.used = used /\ V.next = next + 1
            /\ V.ids = X /\ V.cur = Slot(cur, 1)
        BY <3>1, <3>3, <4>1, <4>3, <4>5 DEF WsType
      <4>7. Requeue(U, t) = V
        BY <3>3, <3>5, <4>1, <4>4, <4>5 DEF Requeue, WsType
      <4>8. Requeue(W, t).ids = X /\ Requeue(W, t).cur = Slot(cur, 1)
        BY <1>a, <1>c, <3>5, <4>1, <4>4 DEF Requeue, WsType
      <4>9. loopWs' = [loopWs EXCEPT ![l] = V] /\ loopWs'[l] = V
        BY <1>1, <1>c, <3>3, <4>7 DEF OrdTypeOK
      <4>10. \A i \in 0 .. used - 1 :
               X[Slot(Slot(cur, 1), i)] = IF i = used - 1 THEN t ELSE ids[Slot(cur, i + 1)]
        <5>1. cur \in Team /\ used \in 2 .. N
          BY <1>b, <4>1
        <5>2. /\ X[Slot(Slot(cur, 1), used - 1)] = t
              /\ \A i \in 0 .. used - 2 : X[Slot(Slot(cur, 1), i)] = ids[Slot(cur, i + 1)]
          BY <4>3, <5>1, RingTurn
        <5>3. \A i \in 0 .. used - 1 : i = used - 1 \/ i \in 0 .. used - 2
          BY <5>1
        <5> QED
          BY <5>2, <5>3
      <4>11. X[Slot(cur, 1)] \in Team /\ X[Slot(cur, 1)] # t /\ Working(X[Slot(cur, 1)], l)
        <5>1. 0 \in 0 .. used - 2 /\ 0 \in 0 .. used - 1 /\ 0 # used - 1
          BY <4>1
        <5>2. Slot(Slot(cur, 1), 0) = Slot(cur, 1)
          BY <4>1, SlotFacts
        <5> QED
          BY <1>7, <4>10, <5>1, <5>2
      <4>12. sem' = Post(sem, X[Slot(cur, 1)])
        BY <1>0, <1>a, <1>c, <1>8, <3>5, <4>8 DEF RequeuePost, n
      <4> QED
        BY <4>6, <4>9, <4>10, <4>11, <4>12
    <3> QED
      BY <3>4, <3>5
  <2>5. DynamicOK(l, k1)'
    <3>1. V.next = k1 + V.used /\ V.next <= n /\ V.used = Cardinality(Workers(l)')
      BY <1>b, <1>c, <1>6, <1>8, <2>3, <2>4
    <3>2. ASSUME NEW i \in 0 .. V.used - 1
          PROVE  LET s == V.ids[Slot(V.cur, i)] IN Working(s, l)' /\ member'[s].block = k1 + i
      <4>1. i \in 0 .. used - 2 \/ i = used - 1
        BY <1>b, <2>4
      <4>2. i \in 0 .. used - 2 => i # used - 1
        BY <1>b
      <4> QED
        BY <1>7, <2>1, <2>2, <2>4, <4>1, <4>2
    <3>3. ASSUME NEW s \in Team, Working(s, l)'
          PROVE  /\ \E i \in 0 .. V.used - 1 : V.ids[Slot(V.cur, i)] = s
                 /\ member'[s].pc \notin {"region", "next"}
      <4>1. CASE s = t
        <5>1. used - 1 \in 0 .. V.used - 1
          BY <1>b, <1>3, <2>4
        <5> QED
          BY <2>2, <2>4, <4>1, <5>1
      <4>2. CASE s # t
        <5>1. PICK j \in 1 .. used - 1 : ids[Slot(cur, j)] = s
          BY <1>5, <2>2, <3>3, <4>2
        <5>2. j - 1 \in 0 .. V.used - 1 /\ j - 1 # used - 1 /\ (j - 1) + 1 = j
          BY <1>b, <2>4
        <5>3. V.ids[Slot(V.cur, j - 1)] = s
          BY <2>4, <5>1, <5>2
        <5> QED
          BY <1>5, <2>2, <3>3, <4>2, <5>2, <5>3
      <4> QED
        BY <4>1, <4>2
    <3>4. loops'[l].n = n
      BY <1>0 DEF n
    <3> QED
      BY <2>4, <3>1, <3>2, <3>3, <3>4, DynamicMade
  <2>6. sem' \in [Team -> Nat] /\ \A s \in Team : sem'[s] = IF s = h THEN sem[h] + 1 ELSE sem[s]
    <3>1. PICK m \in Nat : m = sem[h] + 1
      BY <1>c
    <3> QED
      BY <1>c, <2>4, <3>1 DEF Post
  <2>7. UnitsStep(t, l, k1, "body")
    <3>1. \A s \in Team : Due(l, k1, s)' <=> s = h
      BY <1>0, <1>e, <2>2, <2>4 DEF Due
    <3>2. Turn(h) = l
      <4>1. Working(h, l)
        BY <1>2, <2>4
      <4> QED
        BY <4>1 DEF Working, Turn, Inside
    <3> QED
      BY <1>2, <1>4, <2>6, <3>1, <3>2 DEF UnitsStep
  <2>8. LoopOK(l, k1)' /\ k1 <= loops[l].n
    BY <1>0, <1>6, <2>5 DEF LoopOK, n
  <2>9. "body" \in Inside \cup {"end"}
    BY DEF Inside
  <2> QED
    BY <1>0, <1>1, <1>2, <1>6, <2>1, <2>4, <2>6, <2>7, <2>8, <2>9, LoopStep
<1>9. CASE ~(next < n)
  <2>1. At(t, "end", 0) /\ loopWs' = [loopWs EXCEPT ![l] = Last(W)] /\ sem' = LastPost(W, sem)
    BY <1>0, <1>a, <1>9 DEF n
  <2>2. /\ \A s \in Team : s # t => (Working(s, l)' <=> Working(s, l)) /\ member'[s] = member[s]
        /\ ~Working(t, l)'
    <3>1. "end" \notin Inside
      BY DEF Inside
    <3> QED
      BY <1>1, <1>2, <1>c, <2>1, <3>1, MovedIn
  <2>3. Cardinality(Workers(l)') = used - 1
    <3>1. Workers(l)' = Workers(l) \ {t}
      BY <1>2, <2>2 DEF Workers
    <3> QED
      BY <1>2, <1>c, <3>1, TeamSets
  <2>4. PICK V \in WsType :
          /\ loopWs' = [loopWs EXCEPT ![l] = V] /\ loopWs'[l] = V
          /\ V.owner = None /\ V.used = used - 1 /\ V.next = next
          /\ V.ids = ids /\ V.cur = IF used > 1 THEN Slot(cur, 1) ELSE cur
    <3>1. PICK y \in 0..N : y = used - 1
      BY <1>b, <1>3
    <3>3. (cur + 1) % N = Slot(cur, 1) /\ Slot(cur, 1) \in Team
      <4>1. 1 \in 0..N /\ cur \in Team
        BY <1>b
      <4> QED
        BY <4>1, SlotFacts
    <3>2. PICK c \in Team : c = IF used > 1 THEN Slot(cur, 1) ELSE cur
      BY <1>b, <3>3
    <3>4. PICK V : V = [W EXCEPT !.owner = None, !.used = y, !.cur = c]
      OBVIOUS
    <3>5. V = Last(W)
      BY <1>a, <1>c, <3>1, <3>2, <3>3, <3>4 DEF Last, WsType
    <3>6. /\ V \in WsType /\ V.owner = None /\ V.used = y /\ V.next = next
          /\ V.ids = ids /\ V.cur = c
      BY <1>a, <1>c, <3>4 DEF WsType
    <3>7. loopWs' = [loopWs EXCEPT ![l] = V] /\ loopWs'[l] = V
      BY <1>1, <1>c, <2>1, <3>5 DEF OrdTypeOK
    <3> QED
      BY <3>1, <3>2, <3>6, <3>7
  <2>5. DynamicOK(l, k1)'
    <3>1. V.next = k1 + V.used /\ V.next <= n /\ V.used = Cardinality(Workers(l)')
      BY <1>b, <1>6, <2>3, <2>4
    <3>2. ASSUME NEW i \in 0 .. V.used - 1
          PROVE  LET s == V.ids[Slot(V.cur, i)] IN Working(s, l)' /\ member'[s].block = k1 + i
      <4>1. i \in 0 .. used - 2 /\ used > 1
        BY <1>b, <2>4
      <4> QED
        BY <1>7, <2>2, <2>4, <4>1
    <3>3. ASSUME NEW s \in Team, Working(s, l)'
          PROVE  /\ \E i \in 0 .. V.used - 1 : V.ids[Slot(V.cur, i)] = s
                 /\ member'[s].pc \notin {"region", "next"}
      <4>1. s # t /\ Working(s, l)
        BY <2>2, <3>3
      <4>2. PICK j \in 1 .. used - 1 : ids[Slot(cur, j)] = s
        BY <1>5, <4>1
      <4>3. j - 1 \in 0 .. V.used - 1 /\ j - 1 \in 0 .. used - 2 /\ (j - 1) + 1 = j /\ used > 1
        BY <1>b, <2>4
      <4>4. V.ids[Slot(V.cur, j - 1)] = s
        BY <1>7, <2>4, <4>2, <4>3
      <4> QED
        BY <1>5, <2>2, <4>1, <4>3, <4>4
    <3>4. loops'[l].n = n
      BY <1>0 DEF n
    <3> QED
      BY <2>4, <3>1, <3>2, <3>3, <3>4, DynamicMade
  <2>6. UnitsStep(t, l, k1, "end") /\ sem' \in [Team -> Nat]
    <3>1. CASE used > 1
      <4>1. PICK h : h = ids[Slot(cur, 1)]
        OBVIOUS
      <4>2. h \in Team /\ h # t /\ Working(h, l)
        <5>1. 0 \in 0 .. used - 2 /\ 0 + 1 = 1
          BY <1>b, <3>1
        <5> QED
          BY <1>7, <4>1, <5>1
      <4>3. sem' = Post(sem, h)
        <5>1. Last(W).cur = Slot(cur, 1)
          <6>1. (cur + 1) % N = Slot(cur, 1)
            BY <1>b, SlotFacts
          <6> QED
            BY <1>a, <1>c, <3>1, <6>1 DEF Last, WsType
        <5> QED
          BY <1>a, <2>1, <3>1, <4>1, <5>1 DEF LastPost
      <4>4. sem' \in [Team -> Nat] /\ \A s \in Team : sem'[s] = IF s = h THEN sem[h] + 1 ELSE sem[s]
        <5>1. PICK m \in Nat : m = sem[h] + 1
          BY <1>c, <4>2
        <5> QED
          BY <1>c, <4>2, <4>3, <5>1 DEF Post
      <4>5. \A s \in Team : s # t => (Due(l, k1, s)' <=> s = h)
        BY <1>0, <1>e, <2>2, <2>4, <3>1, <4>1, <4>2 DEF Due
      <4>6. Turn(h) = l
        BY <4>2 DEF Working, Turn, Inside
      <4> QED
        BY <1>2, <1>4, <4>2, <4>4, <4>5, <4>6 DEF UnitsStep
    <3>2. CASE ~(used > 1)
      <4>1. sem' = sem
        BY <1>a, <2>1, <3>2 DEF LastPost
      <4>2. \A s \in Team : ~Working(s, l)'
        <5>1. \A j \in 1 .. used - 1 : FALSE
          BY <1>b, <3>2
        <5> QED
          BY <1>5, <2>2, <5>1
      <4>3. \A s \in Team : ~Due(l, k1, s)'
        BY <1>0, <4>2 DEF Due
      <4> QED
        BY <1>2, <1>4, <1>c, <4>1, <4>3 DEF UnitsStep
    <3> QED
      BY <3>1, <3>2
  <2>7. LoopOK(l, k1)' /\ k1 <= loops[l].n
    BY <1>0, <1>6, <2>5 DEF LoopOK, n
  <2> QED
    BY <1>0, <1>1, <1>2, <1>6, <2>1, <2>4, <2>6, <2>7, LoopStep
<1> QED
  BY <1>8, <1>9
-----------------------------------------------------------------------------
(* A thread leaves a loop.  Its blocks are behind it already (Beyond), and *)
(* where it has to wait at the barrier all the others are there.           *)
LEMMA EndInv ==
  ASSUME NEW K, OrdInv(K), Apart(loops), NEW t \in Team, End(t), NEW l, l = member[t].loop
  PROVE  RightInv'
<1>1. OrdTypeOK(K) /\ BarriersHold /\ UnitsExact(K) /\ \A m \in DOMAIN loops : LoopOK(m, K[m])
  BY DEF OrdInv
<1>2. /\ Len(loops) \in Nat /\ DOMAIN loops = 1 .. Len(loops)
      /\ \A s \in Team : member[s].loop \in Int /\ member[s].pc \in Labels
  BY <1>1, TypeFacts
<1>3. /\ member[t].pc = "end" /\ UNCHANGED <<loops, loopWs, sem, passed>>
      /\ loops[l].nowait \/ \A s \in Team : Beyond(s, l)
      /\ member' = [member EXCEPT ![t].pc = "idle", ![t].loop = @ + 1]
  BY DEF End, Beyond
<1>4. l \in 1 .. Len(loops) /\ l + 1 \in 1 .. Len(loops) + 1
  BY <1>1, <1>2, <1>3, TypeFacts
<1>5. /\ member'[t].pc = "idle" /\ member'[t].loop = l + 1 /\ member'[t].block = member[t].block
      /\ \A s \in Team : s # t => member'[s] = member[s]
  BY <1>1, <1>3 DEF OrdTypeOK
<1>6. \A s \in Team, m \in Int : /\ Working(s, m)' <=> Working(s, m)
                                 /\ Before(s, m)' <=> Before(s, m)
                                 /\ Beyond(s, m)' <=> Beyond(s, m)
  <2>1. ASSUME NEW s \in Team, s # t, NEW m \in Int
        PROVE  /\ Working(s, m)' <=> Working(s, m)
               /\ Before(s, m)' <=> Before(s, m)
               /\ Beyond(s, m)' <=> Beyond(s, m)
    <3>1. member'[s] = member[s]
      BY <1>5, <2>1
    <3> QED
      BY <3>1 DEF Working, Before, Beyond
  <2>2. ASSUME NEW m \in Int
        PROVE  /\ ~Working(t, m)' /\ ~Working(t, m)
               /\ Before(t, m)' <=> Before(t, m)
               /\ Beyond(t, m)' <=> Beyond(t, m)
    <3>1. member[t].pc = "end" /\ member[t].loop = l /\ l \in Int
      BY <1>3, <1>4
    <3> QED
      BY <1>5, <3>1 DEF Working, Before, Beyond, Inside
  <2> QED
    BY <2>1, <2>2
<1>7. \A s \in Team : Turn(s)' = Turn(s)
  <2>1. member[t].pc = "end" /\ member[t].loop = l
    BY <1>3
  <2> QED
    BY <1>5, <2>1 DEF Turn
<1>8. OrdTypeOK(K)'
  <2>1. PICK m \in 1 .. Len(loops) + 1 : m = member[t].loop + 1
    BY <1>4
  <2>2. member' \in [Team -> [pc : Labels, loop : 1 .. Len(loops) + 1, block : Nat]]
    BY <1>1, <1>3, <2>1 DEF OrdTypeOK, Labels
  <2>3. \A s \in Team : member'[s].pc # "idle" => member'[s].loop \in DOMAIN loops
    BY <1>1, <1>5 DEF OrdTypeOK
  <2> QED
    BY <1>1, <1>3, <2>2, <2>3 DEF OrdTypeOK
<1>9. BarriersHold'
  <2> SUFFICES ASSUME NEW m \in DOMAIN loops, ~loops[m].nowait,
                      NEW s \in Team, member'[s].loop > m, NEW u \in Team
               PROVE  Beyond(u, m)'
    BY <1>3 DEF BarriersHold
  <2>1. m \in Int
    BY <1>2
  <2>2. Beyond(u, m)
    <3>1. CASE member[s].loop > m
      BY <1>1, <3>1 DEF BarriersHold
    <3>2. CASE ~(member[s].loop > m)
      <4>1. s = t /\ m = l
        BY <1>2, <1>4, <1>5, <2>1, <3>2
      <4> QED
        BY <1>3, <4>1
    <3> QED
      BY <3>1, <3>2
  <2> QED
    BY <1>6, <2>1, <2>2
<1>10. UnitsExact(K)'
  <2>1. \A s \in Team, m \in DOMAIN loops : Due(m, K[m], s)' <=> Due(m, K[m], s)
    <3>1. \A m \in DOMAIN loops : m \in Int
      BY <1>2
    <3> QED
      BY <1>3, <1>6, <3>1 DEF Due
  <2> QED
    BY <1>1, <1>3, <1>7, <2>1 DEF UnitsExact
<1>11. ASSUME NEW m \in DOMAIN loops PROVE LoopOK(m, K[m])'
  <2>1. m \in Int /\ m - 1 \in Int
    BY <1>2
  <2>2. \A s \in Team : /\ Working(s, m)' <=> Working(s, m)
                        /\ Before(s, m)' <=> Before(s, m)
                        /\ Beyond(s, m)' <=> Beyond(s, m)
                        /\ Beyond(s, m - 1) => Beyond(s, m - 1)'
    BY <1>6, <2>1
  <2>3. \A s \in Team : Working(s, m) => member'[s] = member[s]
    BY <1>3, <1>5 DEF Working, Inside
  <2> QED
    BY <1>1, <1>3, <2>2, <2>3, OtherLoop
<1> QED
  <2>1. OrdInv(K)'
    BY <1>3, <1>8, <1>9, <1>10, <1>11 DEF OrdInv
  <2>2. K \in [DOMAIN loops' -> Nat] /\ Apart(loops)'
    BY <1>1, <1>3 DEF OrdTypeOK
  <2> QED
    BY <2>1, <2>2 DEF RightInv
-----------------------------------------------------------------------------
LEMMA InitInv ==
  ASSUME OrdInit, Apart(loops)
  PROVE  RightInv
<1>1. PICK K : K = [l \in DOMAIN loops |-> 0]
  OBVIOUS
<1>2. /\ loops \in Seq([static : BOOLEAN, n : Nat, nowait : BOOLEAN])
      /\ N \in Nat /\ N > 1 /\ Team # {} /\ 0 \in Team /\ None \notin Team
  BY OrderedAssumption, SlotFacts DEF OrdInit
<1>3. Len(loops) \in Nat /\ DOMAIN loops = 1 .. Len(loops) /\ 1 \in 1 .. Len(loops) + 1
  BY <1>2
<1>4. \A l \in DOMAIN loops : loops[l].n \in Nat /\ loops[l].static \in BOOLEAN
  <2> DEFINE S == [static : BOOLEAN, n : Nat, nowait : BOOLEAN]
  <2>1. loops \in Seq(S)
    BY <1>2
  <2> HIDE DEF S
  <2>2. \A l \in DOMAIN loops : loops[l] \in S
    BY <2>1
  <2> QED
    BY <2>2 DEF S
<1>5. /\ FreshWs \in WsType /\ FreshWs.next = 0 /\ FreshWs.cur = 0 /\ FreshWs.used = 0
      /\ FreshWs.ids[0] = 0 /\ FreshWs.owner = None /\ ~FreshWs.created
  BY <1>2 DEF FreshWs, WsType
<1>6. \A t \in Team : member[t].pc = "idle" /\ member[t].loop = 1
  BY DEF OrdInit
<1>7. OrdTypeOK(K)
  <2>1. member \in [Team -> [pc : Labels, loop : 1 .. Len(loops) + 1, block : Nat]]
    BY <1>3 DEF OrdInit, Labels
  <2>2. loopWs \in [DOMAIN loops -> WsType] /\ sem \in [Team -> Nat]
    BY <1>5 DEF OrdInit
  <2>3. K \in [DOMAIN loops -> Nat] /\ \A l \in DOMAIN loops : K[l] = 0 /\ K[l] <= loops[l].n
    BY <1>1, <1>4
  <2>4. passed = [l \in DOMAIN loops |-> 0 .. K[l] - 1]
    <3>1. 0 .. 0 - 1 = {}
      OBVIOUS
    <3> QED
      BY <1>1, <3>1 DEF OrdInit
  <2> QED
    BY <1>2, <1>6, <2>1, <2>2, <2>3, <2>4 DEF OrdTypeOK
<1>8. /\ \A t \in Team, l \in DOMAIN loops : ~Working(t, l) /\ Before(t, l) /\ ~Beyond(t, l)
      /\ \A t \in Team : Turn(t) = 1
  BY <1>3, <1>6 DEF Working, Before, Beyond, Turn, Inside
<1>9. BarriersHold
  BY <1>3, <1>6 DEF BarriersHold
<1>10. \A l \in DOMAIN loops : K[l] = 0 /\ loopWs[l] = FreshWs
  BY <1>1 DEF OrdInit
<1>11. UnitsExact(K)
  BY <1>5, <1>8, <1>10 DEF UnitsExact, Due, OrdInit
<1>12. ASSUME NEW l \in DOMAIN loops PROVE LoopOK(l, K[l])
  <2>1. StaticOK(l, 0)
    <3>1. \A t \in Team : Distance(0, t) = t /\ t \in Nat
      BY <1>2 DEF Distance, Team
    <3> QED
      BY <1>4, <1>5, <1>8, <1>10, <3>1 DEF StaticOK
  <2>2. DynamicOK(l, 0)
    <3>1. Workers(l) = {}
      BY <1>8 DEF Workers
    <3>2. Cardinality({}) = 0
      BY FS_EmptySet
    <3> QED
      BY <1>4, <1>5, <1>8, <1>10, <3>1, <3>2 DEF DynamicOK
  <2> QED
    BY <1>10, <2>1, <2>2 DEF LoopOK
<1> QED
  BY <1>1, <1>7, <1>9, <1>11, <1>12 DEF RightInv, OrdInv

LEMMA NextInv ==
  ASSUME RightInv, [OrdNext]_ordVars
  PROVE  RightInv'
<1>1. PICK K \in [DOMAIN loops -> Nat] : OrdInv(K)
  BY DEF RightInv
<1>2. Apart(loops)
  BY DEF RightInv
<1>3. ASSUME NEW t \in Team, OrdStep(t) \/ Sync(t) PROVE RightInv'
  <2>1. PICK l : l = member[t].loop
    OBVIOUS
  <2>2. PICK k, W : k = K[l] /\ W = loopWs[l]
    OBVIOUS
  <2>3. CASE StartStatic(t)
    BY <1>1, <1>2, <2>1, <2>2, <2>3, StartStaticInv
  <2>4. CASE StartDynamic(t)
    BY <1>1, <1>2, <2>1, <2>2, <2>4, StartDynamicInv
  <2>5. CASE SyncWait(t)
    BY <1>1, <1>2, <2>1, <2>2, <2>5, SyncWaitInv
  <2>6. CASE LeaveRegion(t) \/ Sync(t)
    BY <1>1, <1>2, <2>6, SyncInv
  <2>7. CASE NextStatic(t)
    BY <1>1, <1>2, <2>1, <2>2, <2>7, NextStaticInv
  <2>8. CASE NextDynamic(t)
    BY <1>1, <1>2, <2>1, <2>2, <2>8, NextDynamicInv
  <2>9. CASE End(t)
    BY <1>1, <1>2, <2>1, <2>9, EndInv
  <2> QED
    BY <1>3, <2>3, <2>4, <2>5, <2>6, <2>7, <2>8, <2>9 DEF OrdStep
<1>4. CASE UNCHANGED ordVars
  <2>1. /\ loops' = loops /\ loopWs' = loopWs /\ sem' = sem /\ member' = member /\ passed' = passed
        /\ OrdTypeOK(K) /\ BarriersHold /\ UnitsExact(K) /\ \A l \in DOMAIN loops : LoopOK(l, K[l])
    BY <1>1, <1>4 DEF ordVars, OrdInv
  <2>2. \A s, m : /\ Working(s, m)' <=> Working(s, m)
                  /\ Before(s, m)' <=> Before(s, m)
                  /\ Beyond(s, m)' <=> Beyond(s, m)
                  /\ Turn(s)' = Turn(s)
    BY <2>1 DEF Working, Before, Beyond, Turn
  <2>3. OrdTypeOK(K)'
    BY <2>1 DEF OrdTypeOK
  <2>4. BarriersHold'
    BY <2>1, <2>2 DEF BarriersHold
  <2>5. UnitsExact(K)'
    BY <2>1, <2>2 DEF UnitsExact, Due
  <2>6. \A l \in DOMAIN loops : LoopOK(l, K[l])'
    BY <2>1, <2>2, OtherLoop
  <2> QED
    BY <1>1, <1>2, <2>1, <2>3, <2>4, <2>5, <2>6 DEF RightInv, OrdInv
<1> QED
  BY <1>3, <1>4 DEF OrdNext

(* A thread in an ordered region has the right, and the blocks before its  *)
(* own are those that are done with.                                       *)
LEMMA InvInOrder ==
  ASSUME RightInv
  PROVE  InOrder
<1> SUFFICES ASSUME NEW t \in Team, member[t].pc = "region"
             PROVE  0 .. member[t].block - 1 \subseteq passed[member[t].loop]
  BY DEF InOrder
<1>1. PICK K \in [DOMAIN loops -> Nat] : OrdInv(K)
  BY DEF RightInv
<1>2. PICK l : l = member[t].loop
  OBVIOUS
<1>3. OrdTypeOK(K) /\ l \in DOMAIN loops
  BY <1>1, <1>2, TypeFacts DEF OrdInv
<1>4. Working(t, l)
  BY <1>2 DEF Working, Inside
<1>5. member[t].block = K[l]
  <2>1. CASE loops[l].static
    <3>1. PICK W, k, n : W = loopWs[l] /\ k = K[l] /\ n = loops[l].n
      OBVIOUS
    <3>2. StaticOK(l, k) /\ k \in Nat /\ n \in Nat /\ None \notin Team
      BY <1>1, <1>3, <2>1, <3>1, StaticFacts
    <3>3. W.owner = t /\ k < n /\ member[t].block = k + Distance(W.ids[0], t)
      BY <1>4, <3>1, <3>2 DEF StaticOK
    <3>4. W.owner # None => k = n \/ W.owner = W.ids[0]
      BY <3>1, <3>2 DEF StaticOK
    <3>5. W.ids[0] = t
      BY <3>2, <3>3, <3>4
    <3> QED
      BY <3>1, <3>2, <3>3, <3>5, DistanceFacts
  <2>2. CASE ~loops[l].static
    <3>1. PICK W, k : W = loopWs[l] /\ k = K[l]
      OBVIOUS
    <3>2. /\ k \in Nat /\ W.used \in 0..N /\ Slot(W.cur, 0) = W.cur /\ N \in Nat /\ None \notin Team
          /\ \A i \in 0 .. W.used - 1 : member[W.ids[Slot(W.cur, i)]].block = k + i
          /\ W.owner # None => W.used > 0 /\ W.owner = W.ids[W.cur]
          /\ \A s \in Team : Working(s, l) /\ member[s].pc \in {"region", "next"} => W.owner = s
      BY <1>1, <1>3, <2>2, <3>1, DynamicFacts
    <3>3. W.owner = t /\ W.used > 0 /\ W.ids[W.cur] = t
      BY <1>4, <3>2
    <3>4. 0 \in 0 .. W.used - 1
      BY <3>2, <3>3
    <3> QED
      BY <3>1, <3>2, <3>3, <3>4
  <2> QED
    BY <2>1, <2>2
<1> QED
  BY <1>2, <1>3, <1>5 DEF OrdTypeOK

(* GOMP_ordered_start: in a sequence of loops that keep apart, with any    *)
(* number of threads, blocks and loops, static and dynamic ones mixed and  *)
(* with or without barriers, the threads execute their ordered regions in  *)
(* the order of the blocks.                                                *)
THEOREM OrderedInOrder == OrdSpec /\ Apart(loops) => []InOrder
<1>1. OrdInit /\ Apart(loops) => RightInv
  BY InitInv
<1>2. RightInv /\ [OrdNext]_ordVars => RightInv'
  BY NextInv
<1>3. RightInv => InOrder
  BY InvInOrder
<1> QED
  BY <1>1, <1>2, <1>3, PTL DEF OrdSpec
=============================================================================
