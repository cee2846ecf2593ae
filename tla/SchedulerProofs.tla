------------------------- MODULE SchedulerProofs ----------------------------
(***************************************************************************)
(* The chains of the threads, their lists of tied tasks, and the theorems  *)
(* of TaskScheduler.                                                       *)
(***************************************************************************)
EXTENDS SchedulerQueues

(* The chain of h over the tasks D, up to top: to leads down to h and from *)
(* up to top, and whoever starts at h and follows from reaches all of D.   *)
Chain(h, D, top, to, from) ==
  /\ h \in D /\ top \in D
  /\ to[h] = None /\ from[top] = None
  /\ \A t \in D \ {h} : to[t] \in D /\ from[to[t]] = t
  /\ \A t \in D \ {top} : from[t] \in D /\ to[from[t]] = t
  /\ \A A \in SUBSET D : h \in A /\ (\A t \in A \ {top} : from[t] \in A) => D \subseteq A

(* A chain whose links stay is still a chain.                              *)
LEMMA ChainFrame ==
  ASSUME NEW h, NEW D, NEW top, NEW to, NEW from, NEW to2, NEW from2,
         Chain(h, D, top, to, from),
         \A t \in D : to2[t] = to[t] /\ from2[t] = from[t]
  PROVE  Chain(h, D, top, to2, from2)
BY DEF Chain

(* A task on top.                                                          *)
LEMMA ChainPush ==
  ASSUME NEW h, NEW D, NEW top, NEW to, NEW from, NEW to2, NEW from2, NEW n,
         Chain(h, D, top, to, from), n \notin D, None \notin D,
         \A t \in D : to2[t] = to[t] /\ from2[t] = IF t = top THEN n ELSE from[t],
         to2[n] = top, from2[n] = None, NEW E, E = D \cup {n}
  PROVE  Chain(h, E, n, to2, from2)
<1>1. /\ h \in E /\ n \in E /\ to2[h] = None /\ from2[n] = None
      /\ \A t \in E \ {h} : to2[t] \in E /\ from2[to2[t]] = t
      /\ \A t \in E \ {n} : from2[t] \in E /\ to2[from2[t]] = t
  BY DEF Chain
<1>2. ASSUME NEW A \in SUBSET E, h \in A, \A t \in A \ {n} : from2[t] \in A
      PROVE  E \subseteq A
  <2>1. \A t \in (A \cap D) \ {top} : from[t] \in A \cap D
    BY <1>2 DEF Chain
  <2>2. D \subseteq A \cap D
    <3>1. A \cap D \in SUBSET D /\ h \in A \cap D
      BY <1>2 DEF Chain
    <3> QED
      BY <2>1, <3>1 DEF Chain
  <2>3. from2[top] = n /\ top \in A /\ top # n
    BY <2>2 DEF Chain
  <2> QED
    BY <1>2, <2>2, <2>3
<1> QED
  BY <1>1, <1>2 DEF Chain

(* The task on top goes.                                                   *)
Popped(D, top, to, from, E, b, to2, from2) ==
  /\ E = D \ {top} /\ b = to[top] /\ None \notin D
  /\ \A t \in E : to2[t] = to[t] /\ from2[t] = IF t = b THEN None ELSE from[t]

(* The task on top leaves.                                                 *)
LEMMA ChainPop ==
  ASSUME NEW h, NEW D, NEW top, NEW to, NEW from, NEW E, NEW b, NEW to2, NEW from2,
         Chain(h, D, top, to, from), top # h, Popped(D, top, to, from, E, b, to2, from2)
  PROVE  Chain(h, E, b, to2, from2)
<1> USE DEF Popped
<1>1. b \in E /\ from[b] = top
  BY DEF Chain
<1>2. /\ h \in E /\ to2[h] = None /\ from2[b] = None
      /\ \A t \in E \ {h} : to2[t] \in E /\ from2[to2[t]] = t
      /\ \A t \in E \ {b} : from2[t] \in E /\ to2[from2[t]] = t
  BY <1>1 DEF Chain
<1>3. ASSUME NEW A \in SUBSET E, h \in A, \A t \in A \ {b} : from2[t] \in A
      PROVE  E \subseteq A
  <2> DEFINE B == A \cup {top}
  <2>1. \A t \in B \ {top} : from[t] \in B
    BY <1>1, <1>3
  <2>2. B \in SUBSET D /\ h \in B
    BY <1>3 DEF Chain
  <2>3. D \subseteq B
    BY <2>1, <2>2 DEF Chain
  <2> QED
    BY <2>3
<1> QED
  BY <1>1, <1>2, <1>3 DEF Chain

(* A task from the middle goes: LeaveChain.                                *)
LEMMA ChainDrop ==
  ASSUME NEW h, NEW D, NEW top, NEW to, NEW from, NEW to2, NEW from2, NEW c \in D,
         Chain(h, D, top, to, from), c # h, c # top, None \notin D,
         \A t \in D \ {c} : /\ to2[t] = IF t = from[c] THEN to[c] ELSE to[t]
                            /\ from2[t] = IF t = to[c] THEN from[c] ELSE from[t]
  PROVE  Chain(h, D \ {c}, top, to2, from2)
<1> DEFINE E == D \ {c}
           b == to[c]
           f == from[c]
<1>1. b \in D /\ from[b] = c /\ f \in D /\ to[f] = c
  BY DEF Chain
<1>2. b # c /\ f # c
  <2>1. ASSUME b = c \/ f = c
        PROVE  FALSE
    <3>1. b = c /\ f = c
      BY <1>1, <2>1 DEF Chain
    <3>2. \A t \in E \ {top} : from[t] \in E
      BY <3>1 DEF Chain
    <3>3. D \subseteq E
      <4>1. E \in SUBSET D /\ h \in E
        BY DEF Chain
      <4> QED
        BY <3>2, <4>1 DEF Chain
    <3> QED
      BY <3>3
  <2> QED
    BY <2>1
<1>3. b # top /\ f # h
  BY <1>1 DEF Chain
<1>4. h \in E /\ top \in E /\ to2[h] = None /\ from2[top] = None
  BY <1>3 DEF Chain
<1>5. \A t \in E \ {h} : to2[t] \in E /\ from2[to2[t]] = t
  BY <1>1, <1>2 DEF Chain
<1>6. \A t \in E \ {top} : from2[t] \in E /\ to2[from2[t]] = t
  BY <1>1, <1>2 DEF Chain
<1>7. ASSUME NEW A \in SUBSET E, h \in A, \A t \in A \ {top} : from2[t] \in A
      PROVE  E \subseteq A
  <2> DEFINE B == IF b \in A THEN A \cup {c} ELSE A
  <2>1. B \in SUBSET D /\ h \in B
    BY <1>7
  <2>2. \A t \in B \ {top} : from[t] \in B
    <3> SUFFICES ASSUME NEW t \in B \ {top} PROVE from[t] \in B
      OBVIOUS
    <3>1. CASE t = c
      <4>1. b \in A /\ from2[b] = f
        BY <1>1, <1>2, <3>1
      <4> QED
        BY <1>3, <1>7, <3>1, <4>1
    <3>2. CASE t # c
      <4>1. t \in A /\ from2[t] \in A
        BY <1>7, <3>2
      <4> QED
        BY <1>1, <4>1
    <3> QED
      BY <3>1, <3>2
  <2>3. D \subseteq B
    BY <2>1, <2>2 DEF Chain
  <2> QED
    BY <2>3
<1> QED
  BY <1>4, <1>5, <1>6, <1>7 DEF Chain

(* Another task takes the place of the one on top.                         *)
LEMMA ChainReplace ==
  ASSUME NEW h, NEW D, NEW top, NEW to, NEW from, NEW to2, NEW from2, NEW n,
         Chain(h, D, top, to, from), top # h, None \notin D, n \notin D,
         \A t \in D \ {top} : to2[t] = to[t] /\ from2[t] = IF t = to[top] THEN n ELSE from[t],
         to2[n] = to[top], from2[n] = None, NEW F, F = (D \ {top}) \cup {n}
  PROVE  Chain(h, F, n, to2, from2)
<1> DEFINE b == to[top]
           E == D \ {top}
           from1 == [t \in D |-> IF t = b THEN None ELSE from[t]]
<1>1. Chain(h, E, b, to, from1)
  <2>1. Popped(D, top, to, from, E, b, to, from1)
    BY DEF Popped
  <2> QED
    BY <2>1, ChainPop
<1> HIDE DEF E, b
<1>2. \A t \in E : to2[t] = to[t] /\ from2[t] = IF t = b THEN n ELSE from1[t]
  BY DEF E, b
<1>3. n \notin E /\ None \notin E
  BY DEF E
<1>4. to2[n] = b
  BY DEF b
<1> HIDE DEF from1
<1>5. Chain(h, E \cup {n}, n, to2, from2)
  BY <1>1, <1>2, <1>3, <1>4, ChainPush
<1> QED
  BY <1>5 DEF E

(* A thread that runs its implicit task has no other; one whose task will  *)
(* return to the implicit task has just those two.                         *)
LEMMA ChainEnds ==
  ASSUME NEW h, NEW D, NEW top, NEW to, NEW from, Chain(h, D, top, to, from), None \notin D
  PROVE  /\ top = h => D = {h}
         /\ top # h /\ to[top] = h => D = {h, top}
<1>1. top = h => D = {h}
  <2> DEFINE A == {h}
  <2>1. A \in SUBSET D /\ h \in A
    BY DEF Chain
  <2>2. top = h => \A t \in A \ {top} : from[t] \in A
    OBVIOUS
  <2>3. top = h => D \subseteq A
    BY <2>1, <2>2 DEF Chain
  <2> QED
    BY <2>1, <2>3
<1>2. top # h /\ to[top] = h => D = {h, top}
  <2> DEFINE A == {h, top}
  <2>1. A \in SUBSET D /\ h \in A
    BY DEF Chain
  <2>2. top # h /\ to[top] = h => \A t \in A \ {top} : from[t] \in A
    BY DEF Chain
  <2>3. top # h /\ to[top] = h => D \subseteq A
    BY <2>1, <2>2 DEF Chain
  <2> QED
    BY <2>1, <2>3
<1> QED
  BY <1>1, <1>2
-----------------------------------------------------------------------------
(* The tied list over the tasks D: the task before and the task after each *)
(* one in the order of creation, and the last.                             *)
TiedList(D, last, prev, next) ==
  /\ IF D = {} THEN last = None ELSE last \in D /\ \A s \in D : s <= last
  /\ \A d \in D : \/ prev[d] = None /\ \A s \in D : s >= d
                  \/ prev[d] \in D /\ prev[d] < d /\ \A s \in D : s <= prev[d] \/ s >= d
  /\ \A d \in D : \/ next[d] = None /\ \A s \in D : s <= d
                  \/ next[d] \in D /\ d < next[d] /\ \A s \in D : s <= d \/ s >= next[d]

(* A list whose links stay is still a list.                                *)
LEMMA TiedListFrame ==
  ASSUME NEW D, NEW last, NEW prev, NEW next, NEW prev2, NEW next2,
         TiedList(D, last, prev, next), \A d \in D : prev2[d] = prev[d] /\ next2[d] = next[d]
  PROVE  TiedList(D, last, prev2, next2)
BY DEF TiedList

(* The ends of the list.                                                   *)
LEMMA TiedListEnds ==
  ASSUME NEW D, NEW last, NEW prev, NEW next, TiedList(D, last, prev, next), None \notin D,
         NEW n \in D
  PROVE  /\ prev[n] = None => \A s \in D : s >= n
         /\ next[n] = None => \A s \in D : s <= n
         /\ next[n] # None => next[n] \in D /\ n < next[n]
         /\ last \in D /\ \A s \in D : s <= last
BY DEF TiedList

(* A younger task joins at the end.                                        *)
LEMMA TiedListAppend ==
  ASSUME NEW D \in SUBSET Nat, NEW last, NEW prev, NEW next, NEW prev2, NEW next2, NEW n \in Nat,
         TiedList(D, last, prev, next), \A s \in D : s < n, None \notin D,
         \A d \in D : prev2[d] = prev[d] /\ next2[d] = IF d = last THEN n ELSE next[d],
         next2[n] = None, prev2[n] = last
  PROVE  TiedList(D \cup {n}, n, prev2, next2)
<1>1. CASE D = {}
  BY <1>1 DEF TiedList
<1>2. CASE D # {}
  <2>1. last \in D /\ last \in Nat /\ \A s \in D : s <= last
    BY <1>2 DEF TiedList
  <2>2. \A d \in D : \/ prev2[d] = None /\ \A s \in D \cup {n} : s >= d
                     \/ /\ prev2[d] \in D /\ prev2[d] < d
                        /\ \A s \in D \cup {n} : s <= prev2[d] \/ s >= d
    BY DEF TiedList
  <2>3. \A d \in D : \/ next2[d] \in D /\ d < next2[d] /\ \A s \in D \cup {n} : s <= d \/ s >= next2[d]
                     \/ next2[d] = n /\ d < n /\ \A s \in D \cup {n} : s <= d \/ s >= n
    <3> SUFFICES ASSUME NEW d \in D
                 PROVE  \/ /\ next2[d] \in D /\ d < next2[d]
                           /\ \A s \in D \cup {n} : s <= d \/ s >= next2[d]
                        \/ next2[d] = n /\ d < n /\ \A s \in D \cup {n} : s <= d \/ s >= n
      OBVIOUS
    <3>1. CASE d = last
      BY <2>1, <3>1
    <3>2. CASE d # last
      <4>1. next2[d] = next[d]
        BY <3>2
      <4>2. ~ \A s \in D : s <= d
        BY <2>1, <3>2
      <4>3. next[d] \in D /\ d < next[d] /\ \A s \in D : s <= d \/ s >= next[d]
        BY <4>2 DEF TiedList
      <4>4. next[d] \in Nat /\ next[d] < n
        BY <4>3
      <4> QED
        BY <4>1, <4>3, <4>4
    <3> QED
      BY <3>1, <3>2
  <2>4. prev2[n] \in D /\ prev2[n] < n /\ \A s \in D \cup {n} : s <= prev2[n] \/ s >= n
    BY <2>1
  <2> QED
    BY <2>2, <2>3, <2>4 DEF TiedList
<1> QED
  BY <1>1, <1>2

(* A task leaves the list.                                                 *)
LEMMA TiedListRemove ==
  ASSUME NEW D \in SUBSET Nat, NEW last, NEW prev, NEW next, NEW prev2, NEW next2, NEW n \in D,
         TiedList(D, last, prev, next), None \notin D,
         \A d \in D \ {n} : /\ prev2[d] = IF d = next[n] THEN prev[n] ELSE prev[d]
                            /\ next2[d] = IF d = prev[n] THEN next[n] ELSE next[d]
  PROVE  TiedList(D \ {n}, IF last = n THEN prev[n] ELSE last, prev2, next2)
<1> DEFINE E == D \ {n}
<1>0. D \subseteq Nat /\ E \subseteq D
  OBVIOUS
<1>1. /\ \/ prev[n] = None /\ \A s \in D : s >= n
         \/ prev[n] \in D /\ prev[n] < n /\ \A s \in D : s <= prev[n] \/ s >= n
      /\ \/ next[n] = None /\ \A s \in D : s <= n
         \/ next[n] \in D /\ n < next[n] /\ \A s \in D : s <= n \/ s >= next[n]
  BY DEF TiedList
<1>2. ASSUME NEW d \in E
      PROVE  \/ prev2[d] = None /\ \A s \in E : s >= d
             \/ prev2[d] \in E /\ prev2[d] < d /\ \A s \in E : s <= prev2[d] \/ s >= d
  <2>1. \/ prev[d] = None /\ \A s \in D : s >= d
        \/ prev[d] \in D /\ prev[d] < d /\ \A s \in D : s <= prev[d] \/ s >= d
    BY DEF TiedList
  <2>2. CASE d = next[n]
    <3>1. d \in Nat /\ n \in Nat /\ n < d /\ \A s \in E : s \in Nat /\ (s < n \/ s >= d)
      BY <1>0, <1>1, <2>2
    <3>2. prev2[d] = prev[n]
      BY <2>2
    <3>3. CASE prev[n] = None /\ \A s \in D : s >= n
      BY <3>1, <3>2, <3>3
    <3>4. CASE prev[n] \in D /\ prev[n] < n /\ \A s \in D : s <= prev[n] \/ s >= n
      <4>1. PICK p \in D : p = prev[n]
        BY <3>4
      <4>2. p \in Nat /\ p < n /\ p \in E
        BY <1>0, <3>4, <4>1
      <4>3. \A s \in E : s <= p \/ s >= d
        BY <1>0, <3>1, <3>4, <4>1, <4>2
      <4> QED
        BY <3>1, <3>2, <4>1, <4>2, <4>3
    <3> QED
      BY <1>1, <3>3, <3>4
  <2>3. CASE d # next[n]
    <3>1. prev[d] # n
      <4> SUFFICES ASSUME prev[d] = n PROVE FALSE
        OBVIOUS
      <4>1. d \in Nat /\ n \in Nat /\ n < d /\ \A s \in D : s <= n \/ s >= d
        BY <1>0, <2>1
      <4>2. ~ \A s \in D : s <= n
        BY <4>1
      <4>3. PICK q \in D : q = next[n] /\ n < q /\ \A s \in D : s <= n \/ s >= q
        BY <1>1, <4>2
      <4>4. q \in Nat /\ d >= q /\ q >= d
        BY <1>0, <4>1, <4>3
      <4> QED
        BY <2>3, <4>1, <4>3, <4>4
    <3> QED
      BY <2>1, <2>3, <3>1
  <2> QED
    BY <2>2, <2>3
<1>3. ASSUME NEW d \in E
      PROVE  \/ next2[d] = None /\ \A s \in E : s <= d
             \/ next2[d] \in E /\ d < next2[d] /\ \A s \in E : s <= d \/ s >= next2[d]
  <2>1. \/ next[d] = None /\ \A s \in D : s <= d
        \/ next[d] \in D /\ d < next[d] /\ \A s \in D : s <= d \/ s >= next[d]
    BY DEF TiedList
  <2>2. CASE d = prev[n]
    <3>1. d \in Nat /\ n \in Nat /\ d < n /\ \A s \in E : s \in Nat /\ (s > n \/ s <= d)
      BY <1>0, <1>1, <2>2
    <3>2. next2[d] = next[n]
      BY <2>2
    <3>3. CASE next[n] = None /\ \A s \in D : s <= n
      BY <3>1, <3>2, <3>3
    <3>4. CASE next[n] \in D /\ n < next[n] /\ \A s \in D : s <= n \/ s >= next[n]
      <4>1. PICK p \in D : p = next[n]
        BY <3>4
      <4>2. p \in Nat /\ n < p /\ p \in E
        BY <1>0, <3>4, <4>1
      <4>3. \A s \in E : s <= d \/ s >= p
        BY <1>0, <3>1, <3>4, <4>1, <4>2
      <4> QED
        BY <3>1, <3>2, <4>1, <4>2, <4>3
    <3> QED
      BY <1>1, <3>3, <3>4
  <2>3. CASE d # prev[n]
    <3>1. next[d] # n
      <4> SUFFICES ASSUME next[d] = n PROVE FALSE
        OBVIOUS
      <4>1. d \in Nat /\ n \in Nat /\ d < n /\ \A s \in D : s <= d \/ s >= n
        BY <1>0, <2>1
      <4>2. ~ \A s \in D : s >= n
        BY <4>1
      <4>3. PICK q \in D : q = prev[n] /\ q < n /\ \A s \in D : s <= q \/ s >= n
        BY <1>1, <4>2
      <4>4. q \in Nat /\ d >= q /\ q >= d
        BY <1>0, <4>1, <4>3
      <4> QED
        BY <2>3, <4>1, <4>3, <4>4
    <3> QED
      BY <2>1, <2>3, <3>1
  <2> QED
    BY <2>2, <2>3
<1>4. LET l == IF last = n THEN prev[n] ELSE last
      IN IF E = {} THEN l = None ELSE l \in E /\ \A s \in E : s <= l
  <2>1. last \in D /\ \A s \in D : s <= last
    BY DEF TiedList
  <2>2. CASE last # n
    BY <2>1, <2>2
  <2>3. CASE last = n
    <3>1. \A s \in E : s \in Nat /\ n \in Nat /\ s < n
      BY <1>0, <2>1, <2>3
    <3>2. CASE prev[n] = None /\ \A s \in D : s >= n
      <4>1. E = {}
        BY <3>1, <3>2
      <4> QED
        BY <2>3, <3>2, <4>1
    <3>3. CASE prev[n] \in D /\ prev[n] < n /\ \A s \in D : s <= prev[n] \/ s >= n
      <4>1. PICK p \in D : p = prev[n]
        BY <3>3
      <4>2. p \in Nat /\ p < n /\ p \in E
        BY <1>0, <3>1, <3>3, <4>1
      <4>3. \A s \in E : s <= p
        BY <1>0, <3>1, <3>3, <4>1, <4>2
      <4> QED
        BY <2>3, <4>1, <4>2, <4>3
    <3> QED
      BY <1>1, <3>2, <3>3
  <2> QED
    BY <2>2, <2>3
<1> QED
  BY <1>2, <1>3, <1>4 DEF TiedList

(* switch_task and switch_from_task.                                       *)
To(S) == [t \in Task |-> S.task[t].to]
From(S) == [t \in Task |-> S.task[t].from]

(* The tasks suspended or running on h, its implicit task included.        *)
On(S, h) ==
  {h} \cup {t \in Explicit : \/ S.thr[h].task = t
                             \/ S.task[t].kind = "TIED_SUSPENDED" /\ S.task[t].susp = h}

(* The chains of all threads; the tasks of X have been picked and are not  *)
(* yet on a chain.                                                         *)
Chains(S, X) ==
  /\ \A h \in Thread : Chain(h, On(S, h), S.thr[h].task, To(S), From(S))
  /\ \A h \in Thread : S.thr[h].task \in Explicit =>
       S.task[S.thr[h].task].kind = "TIED" /\ S.thr[h].task \notin X
  /\ \A g, h \in Thread : S.thr[g].task = S.thr[h].task => g = h
  /\ \A t \in Explicit \ X : S.task[t].kind = "TIED" => \E h \in Thread : S.thr[h].task = t
  /\ \A t \in Explicit \ X : S.task[t].kind \notin {"TIED", "TIED_SUSPENDED"} =>
       S.task[t].to = None /\ S.task[t].from = None
  /\ \A t \in X : t \in Explicit /\ S.task[t].kind = "TIED"

(* The names of the tasks.                                                 *)
LEMMA Names ==
  /\ Explicit \subseteq Task /\ Thread \subseteq Task /\ None \notin Task
  /\ \A h \in Thread : h \notin Explicit
BY SchedAssumption DEF Task

(* A task is on one thread only.                                           *)
LEMMA OnOne ==
  ASSUME NEW S, NEW X, Chains(S, X), NEW g \in Thread, NEW h \in Thread, g # h
  PROVE  On(S, g) \cap On(S, h) = {}
<1> SUFFICES ASSUME NEW t \in On(S, g), t \in On(S, h)
             PROVE  FALSE
  OBVIOUS
<1>1. t \in Explicit
  BY Names DEF On
<1>2. CASE S.thr[g].task = t
  <2>1. S.task[t].kind = "TIED"
    BY <1>1, <1>2 DEF Chains
  <2>2. S.thr[h].task = t
    BY <1>1, <2>1, Names DEF On
  <2> QED
    BY <1>2, <2>2 DEF Chains
<1>3. CASE S.thr[g].task # t
  <2>1. S.task[t].kind = "TIED_SUSPENDED" /\ S.task[t].susp = g
    BY <1>1, <1>3, Names DEF On
  <2>2. S.thr[h].task = t
    BY <1>1, <2>1, Names DEF On
  <2> QED
    BY <1>1, <2>1, <2>2 DEF Chains
<1> QED
  BY <1>2, <1>3

(* What is on a thread is a task.                                          *)
LEMMA OnTasks ==
  ASSUME NEW S, NEW h \in Thread
  PROVE  On(S, h) \subseteq Task /\ None \notin On(S, h)
BY Names DEF On

(* The running task t of a thread, and the one below it.                   *)
Below(S, h, t) ==
  /\ S.task[t].kind = "TIED"
  /\ S.task[t].to \in On(S, h) /\ S.task[t].to # t /\ S.task[t].to \in Task
  /\ S.task[S.task[t].to].from = t
  /\ S.task[t].to # h =>
       /\ S.task[t].to \in Explicit /\ S.task[S.task[t].to].kind = "TIED_SUSPENDED"
       /\ S.task[S.task[t].to].susp = h

(* The running task is on top of its thread's chain.                       *)
LEMMA Current ==
  ASSUME NEW S \in StateRec, NEW X, Chains(S, X), NEW h \in Thread, NEW t, t = S.thr[h].task
  PROVE  /\ t = h \/ t \in Explicit
         /\ t \in Task /\ t \in On(S, h)
         /\ t \in Explicit => Below(S, h, t)
         /\ S.task[t].from = None /\ S.task[h].to = None
<1>1. Chain(h, On(S, h), t, To(S), From(S))
  BY DEF Chains
<1>2. t \in On(S, h) /\ (t = h \/ t \in Explicit) /\ t \in Task
  <2>1. t \in On(S, h)
    BY <1>1 DEF Chain
  <2> QED
    BY <2>1, Names DEF On
<1>3. S.task[t].from = None /\ S.task[h].to = None
  BY <1>1, <1>2, Names DEF Chain, To, From
<1>4. ASSUME t \in Explicit
      PROVE  /\ S.task[t].kind = "TIED" /\ S.task[t].to \in On(S, h) /\ S.task[t].to \in Task
             /\ S.task[S.task[t].to].from = t
  <2>1. t # h
    BY <1>4, Names
  <2>2. To(S)[t] \in On(S, h) /\ From(S)[To(S)[t]] = t
    BY <1>1, <1>2, <2>1 DEF Chain
  <2>3. To(S)[t] = S.task[t].to /\ S.task[t].to \in Task
    BY <1>2, <2>2, OnTasks DEF To
  <2> QED
    BY <1>4, <2>2, <2>3 DEF From, Chains
<1>5. ASSUME t \in Explicit
      PROVE  S.task[t].to # t
  BY <1>2, <1>3, <1>4, <1>5, Names
<1>6. ASSUME t \in Explicit, S.task[t].to # h
      PROVE  /\ S.task[t].to \in Explicit /\ S.task[S.task[t].to].kind = "TIED_SUSPENDED"
             /\ S.task[S.task[t].to].susp = h
  BY <1>4, <1>5, <1>6 DEF On
<1> QED
  BY <1>2, <1>3, <1>4, <1>5, <1>6 DEF Below

(* What leaves the chains alone.                                           *)
SameChain(S, R, c) ==
  \/ /\ R.task[c].kind = S.task[c].kind /\ R.task[c].susp = S.task[c].susp
     /\ R.task[c].to = S.task[c].to /\ R.task[c].from = S.task[c].from
  \/ /\ S.task[c].kind \notin {"TIED", "TIED_SUSPENDED"}
     /\ R.task[c].kind \notin {"TIED", "TIED_SUSPENDED"}
     /\ R.task[c].to = None /\ R.task[c].from = None

(* Chains whose tasks and links stay are still chains.                     *)
LEMMA ChainsFrame ==
  ASSUME NEW S, NEW R, NEW X, Chains(S, X),
         \A h \in Thread : R.thr[h].task = S.thr[h].task,
         \A c \in Explicit : SameChain(S, R, c),
         \A h \in Thread : R.task[h].to = S.task[h].to /\ R.task[h].from = S.task[h].from
  PROVE  Chains(R, X) /\ \A h \in Thread : On(R, h) = On(S, h)
<1>1. ASSUME NEW h \in Thread
      PROVE  On(R, h) = On(S, h)
  <2>1. \A c \in Explicit : S.task[c].kind = "TIED_SUSPENDED" /\ S.task[c].susp = h <=>
                            R.task[c].kind = "TIED_SUSPENDED" /\ R.task[c].susp = h
    BY DEF SameChain
  <2> QED
    BY <2>1 DEF On
<1>2. ASSUME NEW h \in Thread
      PROVE  Chain(h, On(R, h), R.thr[h].task, To(R), From(R))
  <2>1. Chain(h, On(S, h), S.thr[h].task, To(S), From(S))
    BY DEF Chains
  <2>2. \A c \in On(S, h) : To(R)[c] = To(S)[c] /\ From(R)[c] = From(S)[c]
    <3> SUFFICES ASSUME NEW c \in On(S, h)
                 PROVE  R.task[c].to = S.task[c].to /\ R.task[c].from = S.task[c].from
      BY OnTasks DEF To, From
    <3>1. CASE c = h
      BY <3>1
    <3>2. CASE c # h
      <4>1. c \in Explicit /\ S.task[c].kind \in {"TIED", "TIED_SUSPENDED"}
        BY <3>2 DEF On, Chains
      <4> QED
        BY <4>1 DEF SameChain
    <3> QED
      BY <3>1, <3>2
  <2> QED
    BY <1>1, <2>1, <2>2, ChainFrame
<1>3. \A t \in Explicit : S.task[t].kind = "TIED" <=> R.task[t].kind = "TIED"
  BY DEF SameChain
<1>4. \A t \in Explicit \ X : R.task[t].kind \notin {"TIED", "TIED_SUSPENDED"} =>
       R.task[t].to = None /\ R.task[t].from = None
  BY DEF SameChain, Chains
<1>5. \A t \in X : t \in Explicit /\ R.task[t].kind = "TIED"
  BY <1>3 DEF Chains
<1> QED
  BY <1>1, <1>2, <1>3, <1>4, <1>5 DEF Chains

(* gomp_task_run_pre takes a suspended tied task off its chain.            *)
LEMMA PreChains ==
  ASSUME NEW S, NEW R, NEW n \in Explicit, InStep(S, {}), Chains(S, {}), Pickable(S, n),
         PreEffect(S, R, n)
  PROVE  Chains(R, {n}) /\ \A h \in Thread : On(R, h) = On(S, h) \ {n}
<1> DEFINE N == S.task[n]
<1>1. \A h \in Thread : R.thr[h].task = S.thr[h].task /\ S.thr[h].task # n
  <2>1. N.kind # "TIED"
    BY DEF Pickable
  <2> QED
    BY <2>1 DEF PreEffect, Chains
<1>2. \A c \in Explicit : /\ R.task[c].kind = IF c = n THEN "TIED" ELSE S.task[c].kind
                          /\ R.task[c].susp = S.task[c].susp
  BY Names DEF PreEffect, PreRec
<1>3. ASSUME NEW h \in Thread
      PROVE  On(R, h) = On(S, h) \ {n}
  BY <1>1, <1>2, Names DEF On
<1>4. ASSUME NEW h \in Thread
      PROVE  Chain(h, On(R, h), R.thr[h].task, To(R), From(R))
  <2> DEFINE D == On(S, h)
  <2>1. Chain(h, D, S.thr[h].task, To(S), From(S)) /\ None \notin D /\ D \subseteq Task
    BY OnTasks DEF Chains
  <2>2. \A c \in Task :
          /\ To(R)[c] = IF N.kind = "TIED_SUSPENDED" /\ c = From(S)[n] THEN To(S)[n] ELSE To(S)[c]
          /\ From(R)[c] = IF N.kind = "TIED_SUSPENDED" /\ c = To(S)[n] THEN From(S)[n] ELSE From(S)[c]
    BY Names DEF PreEffect, To, From
  <2>3. CASE N.kind # "TIED_SUSPENDED"
    <3>1. n \notin D
      BY <1>1, <2>3, Names DEF On
    <3>2. D \ {n} = D
      BY <3>1
    <3>3. \A c \in D : To(R)[c] = To(S)[c] /\ From(R)[c] = From(S)[c]
      BY <2>1, <2>2, <2>3
    <3>4. Chain(h, D, S.thr[h].task, To(R), From(R))
      BY <2>1, <3>3, ChainFrame
    <3> QED
      BY <1>1, <1>3, <3>2, <3>4
  <2>4. CASE N.kind = "TIED_SUSPENDED" /\ N.susp = h
    <3>1. n \in D /\ n # h /\ n # S.thr[h].task
      BY <1>1, <2>4, Names DEF On
    <3>2. \A c \in D \ {n} : /\ To(R)[c] = IF c = From(S)[n] THEN To(S)[n] ELSE To(S)[c]
                             /\ From(R)[c] = IF c = To(S)[n] THEN From(S)[n] ELSE From(S)[c]
      BY <2>1, <2>2, <2>4
    <3>3. Chain(h, D \ {n}, S.thr[h].task, To(R), From(R))
      BY <2>1, <3>1, <3>2, ChainDrop
    <3> QED
      BY <1>1, <1>3, <3>3
  <2>5. CASE N.kind = "TIED_SUSPENDED" /\ N.susp # h
    <3>1. PICK g \in Thread : g = N.susp
      <4>1. N.susp # None /\ N.susp \in Thread \cup {None}
        BY <2>5, Names DEF InStep, Alone, StateRec, TaskRec
      <4> QED
        BY <4>1
    <3>2. n \in On(S, g) /\ n # g /\ n # S.thr[g].task
      BY <1>1, <2>5, <3>1, Names DEF On
    <3>3. To(S)[n] \in On(S, g) /\ From(S)[n] \in On(S, g)
      BY <3>2 DEF Chains, Chain
    <3>4. On(S, g) \cap D = {}
      BY <2>5, <3>1, OnOne
    <3>5. n \notin D
      BY <3>2, <3>4
    <3>6. D \ {n} = D
      BY <3>5
    <3>7. \A c \in D : To(R)[c] = To(S)[c] /\ From(R)[c] = From(S)[c]
      BY <2>1, <2>2, <3>3, <3>4
    <3>8. Chain(h, D, S.thr[h].task, To(R), From(R))
      BY <2>1, <3>7, ChainFrame
    <3> QED
      BY <1>1, <1>3, <3>6, <3>8
  <2> QED
    BY <2>3, <2>4, <2>5
<1>5. \A t \in Explicit \ {n} : R.task[t].kind = "TIED" => \E h \in Thread : R.thr[h].task = t
  BY <1>1, <1>2 DEF Chains
<1>6. \A t \in Explicit \ {n} : R.task[t].kind \notin {"TIED", "TIED_SUSPENDED"} =>
       R.task[t].to = None /\ R.task[t].from = None
  <2> SUFFICES ASSUME NEW t \in Explicit \ {n}, R.task[t].kind \notin {"TIED", "TIED_SUSPENDED"}
               PROVE  R.task[t].to = None /\ R.task[t].from = None
    OBVIOUS
  <2>1. S.task[t].kind = R.task[t].kind /\ S.task[t].to = None /\ S.task[t].from = None
    BY <1>2 DEF Chains
  <2>2. CASE N.kind # "TIED_SUSPENDED"
    BY <2>1, <2>2, Names DEF PreEffect
  <2>3. CASE N.kind = "TIED_SUSPENDED"
    <3>1. PICK g \in Thread : g = N.susp
      <4>1. N.susp # None /\ N.susp \in Thread \cup {None}
        BY <2>3, Names DEF InStep, Alone, StateRec, TaskRec
      <4> QED
        BY <4>1
    <3>2. n \in On(S, g) /\ n # g /\ n # S.thr[g].task
      BY <1>1, <2>3, <3>1, Names DEF On
    <3>3. To(S)[n] \in On(S, g) /\ From(S)[n] \in On(S, g)
      BY <3>2 DEF Chains, Chain
    <3>4. t \notin On(S, g)
      BY <2>1, Names DEF On, Chains
    <3>5. t # N.to /\ t # N.from
      BY <3>3, <3>4, Names DEF To, From
    <3> QED
      BY <2>1, <3>5, Names DEF PreEffect
  <2> QED
    BY <2>2, <2>3
<1>7. R.task[n].kind = "TIED"
  BY <1>2
<1>8. \A h \in Thread : R.thr[h].task \in Explicit =>
       R.task[R.thr[h].task].kind = "TIED" /\ R.thr[h].task \notin {n}
  BY <1>1, <1>2 DEF Chains
<1>9. \A g, h \in Thread : R.thr[g].task = R.thr[h].task => g = h
  BY <1>1 DEF Chains
<1>10. Chains(R, {n})
  BY <1>4, <1>5, <1>6, <1>7, <1>8, <1>9 DEF Chains
<1> QED
  BY <1>3, <1>10

(* The picked task n comes on top of t, or in its place.                   *)
LEMMA LandOn ==
  ASSUME NEW S, NEW R, NEW h \in Thread, NEW t \in Task, NEW n \in Explicit,
         Chains(S, {n}), S.thr[h].task = t, NEW E,
         \A g \in Thread : R.thr[g].task = IF g = h THEN n ELSE S.thr[g].task,
         \A c \in Explicit \ {t} : R.task[c].kind = S.task[c].kind /\ R.task[c].susp = S.task[c].susp,
         t \in Explicit => IF t \in E THEN R.task[t].kind = "TIED_SUSPENDED" /\ R.task[t].susp = h
                           ELSE R.task[t].kind = "WAITING",
         E \cup {t} = On(S, h), n \notin E, h \in E
  PROVE  On(R, h) = E \cup {n} /\ \A g \in Thread \ {h} : On(R, g) = On(S, g)
<1>0. t = h \/ t \in Explicit
  BY DEF On
<1>1. \A c \in Explicit \ {t} : S.task[c].kind = "TIED_SUSPENDED" /\ S.task[c].susp = h <=> c \in E
  BY <1>0, Names DEF On
<1>2. \A c \in Explicit : c \in On(R, h) <=> c \in E \cup {n}
  <2> SUFFICES ASSUME NEW c \in Explicit PROVE c \in On(R, h) <=> c \in E \cup {n}
    OBVIOUS
  <2>1. CASE c = n
    BY <2>1 DEF On
  <2>2. CASE c # n /\ c = t
    BY <2>2, Names DEF On
  <2>3. CASE c # n /\ c # t
    BY <1>1, <2>3, Names DEF On
  <2> QED
    BY <2>1, <2>2, <2>3
<1>3. On(R, h) = E \cup {n}
  BY <1>2, Names DEF On
<1>4. ASSUME NEW g \in Thread \ {h}
      PROVE  On(R, g) = On(S, g)
  <2>1. \A c \in Explicit : c \in On(R, g) <=> c \in On(S, g)
    <3> SUFFICES ASSUME NEW c \in Explicit PROVE c \in On(R, g) <=> c \in On(S, g)
      OBVIOUS
    <3>1. CASE c = t
      <4>1. c \notin On(S, g)
        BY <3>1, OnOne DEF On
      <4>2. R.thr[g].task # c
        BY <3>1 DEF Chains
      <4> QED
        BY <3>1, <4>1, <4>2, Names DEF On
    <3>2. CASE c # t
      BY <3>2, Names DEF On
    <3> QED
      BY <3>1, <3>2
  <2> QED
    BY <2>1, Names DEF On
<1> QED
  BY <1>3, <1>4

(* The tasks on the threads after n has been put on h.                     *)
LEMMA Landed ==
  ASSUME NEW S, NEW R, NEW h \in Thread, NEW t \in Task, NEW n \in Explicit,
         Chains(S, {n}), S.thr[h].task = t, NEW E,
         \A g \in Thread : R.thr[g].task = IF g = h THEN n ELSE S.thr[g].task,
         \A c \in Explicit \ {t} : R.task[c].kind = S.task[c].kind /\ R.task[c].susp = S.task[c].susp,
         t \in Explicit => IF t \in E THEN R.task[t].kind = "TIED_SUSPENDED" /\ R.task[t].susp = h
                           ELSE /\ R.task[t].kind = "WAITING"
                                /\ R.task[t].to = None /\ R.task[t].from = None,
         E \cup {t} = On(S, h), n \notin E, h \in E,
         Chain(h, E \cup {n}, n, To(R), From(R)),
         \A c \in Task \ (On(S, h) \cup {n}) :
            R.task[c].to = S.task[c].to /\ R.task[c].from = S.task[c].from
  PROVE  Chains(R, {})
<1>1. On(R, h) = E \cup {n} /\ \A g \in Thread \ {h} : On(R, g) = On(S, g)
  BY LandOn
<1>2. n \notin On(S, h) /\ t # n /\ S.task[n].kind = "TIED"
  <2>1. t # n /\ S.task[n].kind = "TIED"
    BY DEF Chains
  <2> QED
    BY <2>1, Names DEF On
<1>3. ASSUME NEW g \in Thread
      PROVE  Chain(g, On(R, g), R.thr[g].task, To(R), From(R))
  <2>1. CASE g = h
    BY <1>1, <2>1
  <2>2. CASE g # h
    <3>1. On(S, g) \cap On(S, h) = {} /\ On(S, g) \subseteq Task
      BY <2>2, OnOne, OnTasks
    <3>2. n \notin On(S, g)
      BY <1>2, Names DEF On, Chains
    <3>3. \A c \in On(S, g) : To(R)[c] = To(S)[c] /\ From(R)[c] = From(S)[c]
      BY <3>1, <3>2 DEF To, From
    <3>4. Chain(g, On(S, g), S.thr[g].task, To(S), From(S))
      BY DEF Chains
    <3> QED
      BY <1>1, <2>2, <3>3, <3>4, ChainFrame
  <2> QED
    BY <2>1, <2>2
<1>4. \A g \in Thread : R.thr[g].task \in Explicit => R.task[R.thr[g].task].kind = "TIED"
  <2> SUFFICES ASSUME NEW g \in Thread, R.thr[g].task \in Explicit
               PROVE  R.task[R.thr[g].task].kind = "TIED"
    OBVIOUS
  <2>1. CASE g = h
    BY <1>2, <2>1
  <2>2. CASE g # h
    <3>1. R.thr[g].task = S.thr[g].task /\ S.thr[g].task # t
      BY <2>2 DEF Chains
    <3> QED
      BY <3>1 DEF Chains
  <2> QED
    BY <2>1, <2>2
<1>5. \A g, f \in Thread : R.thr[g].task = R.thr[f].task => g = f
  BY DEF Chains
<1>6. \A c \in Explicit : R.task[c].kind = "TIED" => \E g \in Thread : R.thr[g].task = c
  <2> SUFFICES ASSUME NEW c \in Explicit, R.task[c].kind = "TIED"
               PROVE  \E g \in Thread : R.thr[g].task = c
    OBVIOUS
  <2>1. CASE c = n
    BY <2>1
  <2>2. CASE c # n
    <3>1. c # t /\ S.task[c].kind = "TIED"
      OBVIOUS
    <3>2. PICK g \in Thread : S.thr[g].task = c
      BY <2>2, <3>1 DEF Chains
    <3> QED
      BY <3>1, <3>2
  <2> QED
    BY <2>1, <2>2
<1>7. \A c \in Explicit : R.task[c].kind \notin {"TIED", "TIED_SUSPENDED"} =>
        R.task[c].to = None /\ R.task[c].from = None
  <2> SUFFICES ASSUME NEW c \in Explicit, R.task[c].kind \notin {"TIED", "TIED_SUSPENDED"}
               PROVE  R.task[c].to = None /\ R.task[c].from = None
    OBVIOUS
  <2>1. CASE c = t
    BY <2>1
  <2>2. CASE c # t
    <3>1. S.task[c].kind = R.task[c].kind /\ c # n
      BY <1>2, <2>2
    <3>2. S.task[c].to = None /\ S.task[c].from = None
      BY <3>1 DEF Chains
    <3>3. c \notin On(S, h)
      BY <2>2, <3>1, Names DEF On
    <3> QED
      BY <3>1, <3>2, <3>3, Names
  <2> QED
    BY <2>1, <2>2
<1> QED
  BY <1>3, <1>4, <1>5, <1>6, <1>7 DEF Chains

(* The chain of h with n on top.                                           *)
LEMMA PushedChain ==
  ASSUME NEW S, NEW R, NEW h \in Thread, NEW t, NEW n \in Explicit,
         Chain(h, On(S, h), t, To(S), From(S)), n \notin On(S, h), PushLinks(S, R, t, n)
  PROVE  Chain(h, On(S, h) \cup {n}, n, To(R), From(R))
<1> DEFINE E == On(S, h)
           F == E \cup {n}
<1>1. E \subseteq Task /\ None \notin E /\ n # t /\ n \in Task
  BY OnTasks, Names DEF Chain
<1>2. \A c \in E : To(R)[c] = To(S)[c] /\ From(R)[c] = IF c = t THEN n ELSE From(S)[c]
  BY <1>1 DEF PushLinks, To, From
<1>3. To(R)[n] = t /\ From(R)[n] = None
  BY <1>1 DEF PushLinks, To, From
<1>4. F = E \cup {n}
  OBVIOUS
<1> HIDE DEF E, F
<1>5. Chain(h, E, t, To(S), From(S)) /\ n \notin E
  BY DEF E
<1>6. Chain(h, F, n, To(R), From(R))
  BY <1>1, <1>2, <1>3, <1>4, <1>5, ChainPush
<1> QED
  BY <1>6 DEF E, F

(* The chains after n was put on top of t.                                 *)
LEMMA PushChains ==
  ASSUME NEW S, NEW R, NEW h \in Thread, NEW t \in Task, NEW n \in Explicit,
         Chains(S, {n}), S.thr[h].task = t, PushLinks(S, R, t, n),
         \A g \in Thread : R.thr[g].task = IF g = h THEN n ELSE S.thr[g].task,
         \A c \in Explicit \ {t} : R.task[c].kind = S.task[c].kind /\ R.task[c].susp = S.task[c].susp,
         t \in Explicit => R.task[t].kind = "TIED_SUSPENDED" /\ R.task[t].susp = h
  PROVE  /\ Chains(R, {})
         /\ On(R, h) = On(S, h) \cup {n} /\ \A g \in Thread \ {h} : On(R, g) = On(S, g)
<1> DEFINE E == On(S, h)
<1>1. n \notin E /\ t # n
  BY Names DEF On, Chains
<1>2. Chain(h, E, t, To(S), From(S)) /\ None \notin E /\ E \subseteq Task /\ t \in E /\ h \in E
  BY OnTasks DEF Chains, Chain
<1>5. Chain(h, E \cup {n}, n, To(R), From(R))
  BY <1>1, <1>2, PushedChain
<1>6. \A c \in Task \ (On(S, h) \cup {n}) :
            R.task[c].to = S.task[c].to /\ R.task[c].from = S.task[c].from
  BY <1>2 DEF PushLinks
<1>7. E \cup {t} = On(S, h)
  BY <1>2
<1> HIDE DEF E
<1>8. Chains(R, {})
  BY <1>1, <1>2, <1>5, <1>6, <1>7, Landed
<1>9. On(R, h) = E \cup {n} /\ \A g \in Thread \ {h} : On(R, g) = On(S, g)
  BY <1>1, <1>2, <1>7, LandOn
<1> QED
  BY <1>8, <1>9 DEF E

(* The chains after n took the place of the untied task t.                 *)
LEMMA PlaceChains ==
  ASSUME NEW S \in StateRec, NEW R, NEW h \in Thread, NEW t \in Explicit, NEW n \in Explicit,
         Chains(S, {n}), S.thr[h].task = t, PlaceLinks(S, R, t, n),
         \A g \in Thread : R.thr[g].task = IF g = h THEN n ELSE S.thr[g].task,
         \A c \in Explicit \ {t} : R.task[c].kind = S.task[c].kind /\ R.task[c].susp = S.task[c].susp,
         R.task[t].kind = "WAITING"
  PROVE  /\ Chains(R, {})
         /\ On(R, h) = (On(S, h) \ {t}) \cup {n} /\ \A g \in Thread \ {h} : On(R, g) = On(S, g)
<1> DEFINE E == On(S, h) \ {t}
           D == On(S, h)
<1>1. n \notin D /\ t # n
  BY Names DEF On, Chains
<1>2. /\ Chain(h, D, t, To(S), From(S)) /\ None \notin D /\ D \subseteq Task /\ t \in D /\ h \in D
      /\ t # h /\ t \in Task
  BY OnTasks, Names DEF Chains, Chain
<1>3. S.task[t].to \in D /\ S.task[t].to # t /\ S.task[t].to # n
  <2>1. Below(S, h, t)
    BY Current
  <2> QED
    BY <1>1, <2>1 DEF Below
<1>4. \A c \in D \ {t} : To(R)[c] = To(S)[c] /\ From(R)[c] = IF c = To(S)[t] THEN n ELSE From(S)[c]
  BY <1>1, <1>2 DEF PlaceLinks, To, From
<1>5. To(R)[n] = To(S)[t] /\ From(R)[n] = None
  BY <1>1, <1>2, <1>3, Names DEF PlaceLinks, To, From
<1>6. Chain(h, (D \ {t}) \cup {n}, n, To(R), From(R))
  <2> DEFINE F == (D \ {t}) \cup {n}
  <2>1. F = (D \ {t}) \cup {n}
    OBVIOUS
  <2> HIDE DEF D, F
  <2>2. Chain(h, F, n, To(R), From(R))
    BY <1>1, <1>2, <1>4, <1>5, <2>1, ChainReplace
  <2> QED
    BY <2>2 DEF F
<1>7. \A c \in Task \ (On(S, h) \cup {n}) :
            R.task[c].to = S.task[c].to /\ R.task[c].from = S.task[c].from
  BY <1>2, <1>3 DEF PlaceLinks
<1>8. E \cup {t} = On(S, h) /\ n \notin E /\ h \in E /\ t \notin E
  BY <1>1, <1>2
<1>9. R.task[t].to = None /\ R.task[t].from = None
  BY <1>2 DEF PlaceLinks
<1>10. Chain(h, E \cup {n}, n, To(R), From(R))
  BY <1>6
<1> HIDE DEF E
<1>11. Chains(R, {})
  BY <1>2, <1>7, <1>8, <1>9, <1>10, Landed
<1>12. On(R, h) = E \cup {n} /\ \A g \in Thread \ {h} : On(R, g) = On(S, g)
  <2>1. t \in Task /\ t \notin E
    BY <1>2, <1>8
  <2> QED
    BY <1>8, <2>1, LandOn
<1> QED
  BY <1>11, <1>12 DEF E

(* Nothing has come to or left the threads other than h.                   *)
OnElse(S, R, h) == \A g \in Thread \ {h} : On(R, g) = On(S, g)

(* gomp_suspend_*_task_for_successor: the picked task runs.                *)
LEMMA SuspChains ==
  ASSUME NEW S \in StateRec, NEW R, NEW h \in Thread, NEW t \in Task, NEW n \in Explicit, NEW k,
         Chains(S, {n}), S.thr[h].task = t, InStep(S, {}), SuspEffect(S, R, h, t, n, k)
  PROVE  /\ Chains(R, {})
         /\ OnElse(S, R, h)
         /\ On(R, h) = (IF S.task[t].type = "TIED" THEN On(S, h) ELSE On(S, h) \ {t}) \cup {n}
<1>1. t = h \/ t \in Explicit
  BY Current
<1>2. \A c \in Explicit : c # t => R.task[c].kind = S.task[c].kind /\ R.task[c].susp = S.task[c].susp
  BY Names DEF SuspEffect, SuspRec
<1>3. \A g \in Thread : R.thr[g].task = IF g = h THEN n ELSE S.thr[g].task
  BY DEF SuspEffect
<1>4. CASE S.task[t].type = "TIED"
  <2>1. t \in Explicit => R.task[t].kind = "TIED_SUSPENDED" /\ R.task[t].susp = h
    <3>1. t \in Explicit => S.task[t].kind # "IMPLICIT"
      BY DEF InStep, Alone
    <3> QED
      BY <1>4, <3>1 DEF SuspEffect, SuspRec, SuspKind
  <2>2. PushLinks(S, R, t, n)
    BY <1>4 DEF SuspEffect
  <2> QED
    BY <1>2, <1>3, <1>4, <2>1, <2>2, PushChains DEF OnElse
<1>5. CASE S.task[t].type # "TIED"
  <2>1. t \in Explicit
    BY <1>1, <1>5 DEF InStep
  <2>2. R.task[t].kind = "WAITING"
    <3>1. S.task[t].kind # "IMPLICIT"
      BY <2>1 DEF InStep, Alone
    <3> QED
      BY <1>5, <3>1 DEF SuspEffect, SuspRec, SuspKind
  <2>3. PlaceLinks(S, R, t, n)
    BY <1>5 DEF SuspEffect
  <2> QED
    BY <1>2, <1>3, <1>5, <2>1, <2>2, <2>3, PlaceChains DEF OnElse
<1> QED
  BY <1>4, <1>5

(* gomp_barrier_handle_tasks runs the picked task.                         *)
LEMMA StartChains ==
  ASSUME NEW S, NEW R, NEW h \in Thread, NEW n \in Explicit,
         Chains(S, {n}), S.thr[h].task = h, StartEffect(S, R, h, n)
  PROVE  /\ Chains(R, {})
         /\ On(R, h) = On(S, h) \cup {n} /\ \A g \in Thread \ {h} : On(R, g) = On(S, g)
<1>1. h \in Task /\ h \notin Explicit
  BY Names
<1>2. \A c \in Explicit \ {h} : R.task[c].kind = S.task[c].kind /\ R.task[c].susp = S.task[c].susp
  BY Names DEF StartEffect, SameButStart
<1>3. \A g \in Thread : R.thr[g].task = IF g = h THEN n ELSE S.thr[g].task
  BY DEF StartEffect
<1>4. PushLinks(S, R, h, n)
  BY DEF StartEffect
<1> QED
  BY <1>1, <1>2, <1>3, <1>4, PushChains

(* The end of n on h: control goes back to the task below.                 *)
Ends(S, R, h, t, n) ==
  /\ InStep(S, {}) /\ Chains(S, {}) /\ S.thr[h].task = n /\ S.task[n].to = t
  /\ EndEffect(S, R, h, t, n)

(* The tasks on the threads after n has ended.                             *)
LEMMA EndOn ==
  ASSUME NEW S, NEW R, NEW h \in Thread, NEW t \in Task, NEW n \in Explicit,
         Ends(S, R, h, t, n)
  PROVE  On(R, h) = On(S, h) \ {n} /\ \A g \in Thread \ {h} : On(R, g) = On(S, g)
<1>0. /\ InStep(S, {}) /\ Chains(S, {}) /\ S.thr[h].task = n /\ S.task[n].to = t
      /\ EndEffect(S, R, h, t, n)
  BY DEF Ends
<1> USE <1>0
<1>1. S \in StateRec
  BY DEF InStep
<1>2. Below(S, h, n) /\ n # h
  BY <1>1, Current, Names
<1>3. \A c \in Explicit \ {n} :
        /\ R.task[c].susp = S.task[c].susp
        /\ R.task[c].kind = IF c = t /\ S.task[c].kind = "TIED_SUSPENDED" THEN "TIED" ELSE S.task[c].kind
  BY Names DEF EndEffect, EndRec
<1>4. R.task[n].kind = "freed"
  BY BlankRecords DEF EndEffect
<1>5. \A g \in Thread : R.thr[g].task = IF g = h THEN t ELSE S.thr[g].task
  BY DEF EndEffect
<1>6. \A c \in Explicit : c \in On(R, h) <=> c \in On(S, h) \ {n}
  <2> SUFFICES ASSUME NEW c \in Explicit PROVE c \in On(R, h) <=> c \in On(S, h) \ {n}
    OBVIOUS
  <2>1. CASE c = n
    BY <1>2, <1>4, <1>5, <2>1, Names DEF On, Below
  <2>2. CASE c = t
    BY <1>2, <1>5, <2>2 DEF On, Below
  <2>3. CASE c # n /\ c # t
    BY <1>3, <1>5, <2>3, Names DEF On
  <2> QED
    BY <2>1, <2>2, <2>3
<1>7. On(R, h) = On(S, h) \ {n}
  BY <1>2, <1>6 DEF On
<1>8. ASSUME NEW g \in Thread \ {h}
      PROVE  On(R, g) = On(S, g)
  <2>1. On(S, g) \cap On(S, h) = {} /\ n \in On(S, h) /\ t \in On(S, h)
    BY <1>2, OnOne DEF On, Below
  <2>2. S.thr[g].task # n
    BY DEF Chains
  <2>3. \A c \in Explicit : c \in On(R, g) <=> c \in On(S, g)
    <3> SUFFICES ASSUME NEW c \in Explicit PROVE c \in On(R, g) <=> c \in On(S, g)
      OBVIOUS
    <3>1. CASE c = n
      BY <1>4, <1>5, <2>1, <2>2, <3>1, Names DEF On
    <3>2. CASE c = t
      <4>1. c # h /\ S.task[c].susp = h /\ S.task[c].kind = "TIED_SUSPENDED"
        BY <1>2, <3>2, Names DEF Below
      <4>2. S.thr[g].task # c
        BY <4>1 DEF Chains
      <4> QED
        BY <1>2, <1>3, <1>5, <2>1, <3>2, <4>1, <4>2, Names DEF On, Below
    <3>3. CASE c # n /\ c # t
      BY <1>3, <1>5, <3>3, Names DEF On
    <3> QED
      BY <3>1, <3>2, <3>3
  <2> QED
    BY <2>3, Names DEF On
<1> QED
  BY <1>7, <1>8

(* The chain of h without the task that ended.                             *)
LEMMA PoppedChain ==
  ASSUME NEW S, NEW R, NEW h \in Thread, NEW t, NEW n \in Explicit,
         Chain(h, On(S, h), n, To(S), From(S)), To(S)[n] = t,
         \A c \in Task \ {n} : /\ R.task[c].to = S.task[c].to
                               /\ R.task[c].from = IF c = t THEN None ELSE S.task[c].from
  PROVE  Chain(h, On(S, h) \ {n}, t, To(R), From(R))
<1> DEFINE D == On(S, h)
           E == D \ {n}
<1>1. D \subseteq Task /\ None \notin D /\ n # h /\ t = To(S)[n]
  BY OnTasks, Names DEF To
<1>2. \A c \in E : To(R)[c] = To(S)[c] /\ From(R)[c] = IF c = t THEN None ELSE From(S)[c]
  BY <1>1 DEF To, From
<1>3. E = D \ {n} /\ Chain(h, D, n, To(S), From(S))
  OBVIOUS
<1>4. Popped(D, n, To(S), From(S), E, t, To(R), From(R))
  BY <1>1, <1>2 DEF Popped
<1> HIDE DEF D, E
<1>5. Chain(h, E, t, To(R), From(R))
  BY <1>1, <1>3, <1>4, ChainPop
<1> QED
  BY <1>5 DEF D, E

(* The chains after n has ended.                                           *)
LEMMA EndChains ==
  ASSUME NEW S, NEW R, NEW h \in Thread, NEW t \in Task, NEW n \in Explicit,
         Ends(S, R, h, t, n)
  PROVE  Chains(R, {})
<1>0. /\ InStep(S, {}) /\ Chains(S, {}) /\ S.thr[h].task = n /\ S.task[n].to = t
      /\ EndEffect(S, R, h, t, n)
  BY DEF Ends
<1> USE <1>0
<1>1. On(R, h) = On(S, h) \ {n} /\ \A g \in Thread \ {h} : On(R, g) = On(S, g)
  BY EndOn
<1>2. Below(S, h, n) /\ n # h
  <2>1. S \in StateRec
    BY DEF InStep
  <2> QED
    BY <2>1, Current, Names
<1>3. \A c \in Task \ {n} : /\ R.task[c].to = S.task[c].to
                            /\ R.task[c].from = IF c = t THEN None ELSE S.task[c].from
  BY DEF EndEffect, EndRec
<1>4. \A c \in Explicit \ {n} :
        R.task[c].kind = IF c = t /\ S.task[c].kind = "TIED_SUSPENDED" THEN "TIED" ELSE S.task[c].kind
  BY Names DEF EndEffect, EndRec
<1>5. R.task[n].kind = "freed" /\ R.task[n].to = None /\ R.task[n].from = None
  BY BlankRecords DEF EndEffect
<1>6. \A g \in Thread : R.thr[g].task = IF g = h THEN t ELSE S.thr[g].task
  BY DEF EndEffect
<1>7. ASSUME NEW g \in Thread
      PROVE  Chain(g, On(R, g), R.thr[g].task, To(R), From(R))
  <2>1. CASE g = h
    <3>1. Chain(h, On(S, h), n, To(S), From(S))
      BY DEF Chains
    <3>2. To(S)[n] = t
      BY Names DEF To
    <3>3. Chain(h, On(S, h) \ {n}, t, To(R), From(R))
      BY <1>3, <3>1, <3>2, PoppedChain
    <3> QED
      BY <1>1, <1>6, <2>1, <3>3
  <2>2. CASE g # h
    <3>1. On(S, g) \cap On(S, h) = {} /\ On(S, g) \subseteq Task
      BY <2>2, OnOne, OnTasks
    <3>2. n \in On(S, h) /\ t \in On(S, h)
      BY <1>2 DEF On, Below
    <3>3. \A c \in On(S, g) : To(R)[c] = To(S)[c] /\ From(R)[c] = From(S)[c]
      BY <1>3, <3>1, <3>2 DEF To, From
    <3>4. Chain(g, On(S, g), S.thr[g].task, To(S), From(S))
      BY DEF Chains
    <3> QED
      BY <1>1, <1>6, <2>2, <3>3, <3>4, ChainFrame
  <2> QED
    BY <2>1, <2>2
<1>8. \A g \in Thread : R.thr[g].task \in Explicit => R.task[R.thr[g].task].kind = "TIED"
  <2> SUFFICES ASSUME NEW g \in Thread, R.thr[g].task \in Explicit
               PROVE  R.task[R.thr[g].task].kind = "TIED"
    OBVIOUS
  <2>1. CASE g = h
    BY <1>2, <1>4, <1>6, <2>1, Names DEF Below
  <2>2. CASE g # h
    <3>1. S.thr[g].task # n /\ S.task[S.thr[g].task].kind = "TIED"
      BY <1>6, <2>2 DEF Chains
    <3> QED
      BY <1>4, <1>6, <2>2, <3>1
  <2> QED
    BY <2>1, <2>2
<1>9. \A g, f \in Thread : R.thr[g].task = R.thr[f].task => g = f
  <2>1. \A g \in Thread \ {h} : S.thr[g].task # t
    <3> SUFFICES ASSUME NEW g \in Thread \ {h}, S.thr[g].task = t PROVE FALSE
      OBVIOUS
    <3>1. CASE t = h
      <4>1. g \in On(S, g) /\ h \notin On(S, g) /\ S.thr[g].task \in On(S, g)
        BY Names DEF On, Chains, Chain
      <4> QED
        BY <3>1, <4>1
    <3>2. CASE t # h
      BY <1>2, <3>2 DEF Chains, Below
    <3> QED
      BY <3>1, <3>2
  <2> QED
    BY <1>6, <2>1 DEF Chains
<1>10. \A c \in Explicit : R.task[c].kind = "TIED" => \E g \in Thread : R.thr[g].task = c
  <2> SUFFICES ASSUME NEW c \in Explicit, R.task[c].kind = "TIED"
               PROVE  \E g \in Thread : R.thr[g].task = c
    OBVIOUS
  <2>1. CASE c = t
    BY <1>6, <2>1
  <2>2. CASE c # t
    <3>1. c # n /\ S.task[c].kind = "TIED"
      BY <1>4, <1>5, <2>2
    <3>2. PICK g \in Thread : S.thr[g].task = c
      BY <3>1 DEF Chains
    <3> QED
      BY <1>6, <3>1, <3>2
  <2> QED
    BY <2>1, <2>2
<1>11. \A c \in Explicit : R.task[c].kind \notin {"TIED", "TIED_SUSPENDED"} =>
        R.task[c].to = None /\ R.task[c].from = None
  <2> SUFFICES ASSUME NEW c \in Explicit, R.task[c].kind \notin {"TIED", "TIED_SUSPENDED"}
               PROVE  R.task[c].to = None /\ R.task[c].from = None
    OBVIOUS
  <2>1. CASE c = n
    BY <1>5, <2>1
  <2>2. CASE c # n
    <3>1. S.task[c].kind \notin {"TIED", "TIED_SUSPENDED"}
      BY <1>4, <2>2
    <3>2. S.task[c].to = None /\ S.task[c].from = None
      BY <3>1 DEF Chains
    <3> QED
      BY <1>3, <2>2, <3>2, Names
  <2> QED
    BY <2>1, <2>2
<1> QED
  BY <1>7, <1>8, <1>9, <1>10, <1>11 DEF Chains

(* previous_tied_task and next_tied_task.                                  *)
Prevs(S) == [t \in Task |-> S.task[t].prev]
Nexts(S) == [t \in Task |-> S.task[t].next]

(* The tied tasks that have started on h and not finished.                 *)
Tied(S, h) == {t \in Explicit : t \in On(S, h) /\ S.task[t].type = "TIED"}

(* gomp_insert_task_in_tied_list puts n at the end of the list, or leaves  *)
(* it where it is.                                                         *)
LEMMA InsertedList ==
  ASSUME NEW S, NEW R, NEW h \in Thread, NEW t \in Task, NEW n \in Explicit, NEW D \in SUBSET Explicit,
         TiedList(D, S.thr[h].last, Prevs(S), Nexts(S)), Inserted(S, R, h, t, n),
         S.task[t].kind = "IMPLICIT" => D = {},
         n \notin D => S.task[n].prev = None /\ S.task[n].next = None,
         n \notin D /\ S.task[n].type = "TIED" => S.thr[h].last = None \/ S.thr[h].last < n,
         n \in D => S.task[n].type = "TIED",
         NEW E, E = IF S.task[n].type = "TIED" THEN D \cup {n} ELSE D
  PROVE  TiedList(E, R.thr[h].last, Prevs(R), Nexts(R))
<1> DEFINE last == S.thr[h].last
           N == S.task[n]
<1>0. Explicit \subseteq Nat /\ None \notin D /\ D \subseteq Task /\ n \in Task /\ n # None /\ D \in SUBSET Nat
      /\ n \in Nat
  BY ExplicitFinite, Names
<1>1. CASE N.type # "TIED"
  <2>1. SameLists(S, R) /\ R.thr[h].last = last
    BY <1>1 DEF Inserted
  <2>2. \A d \in D : Prevs(R)[d] = Prevs(S)[d] /\ Nexts(R)[d] = Nexts(S)[d]
    BY <1>0, <2>1 DEF SameLists, Prevs, Nexts
  <2> QED
    BY <1>1, <2>1, <2>2, TiedListFrame
<1>2. CASE N.type = "TIED" /\ n \in D
  <2>1. E = D /\ S.task[t].kind # "IMPLICIT"
    BY <1>2
  <2>2. SameLists(S, R) /\ R.thr[h].last = last
    <3>1. CASE N.prev # None \/ N.next # None
      BY <1>2, <2>1, <3>1 DEF Inserted
    <3>2. CASE N.prev = None /\ N.next = None
      <4>1. Prevs(S)[n] = None /\ Nexts(S)[n] = None
        BY <1>0, <3>2 DEF Prevs, Nexts
      <4>2. last \in D /\ \A s \in D : s >= n /\ s <= n
        <5>1. TiedList(D, last, Prevs(S), Nexts(S)) /\ None \notin D /\ n \in D
          BY <1>0, <1>2
        <5> HIDE DEF last
        <5> QED
          BY <4>1, <5>1, TiedListEnds
      <4>3. \A s \in D : s \in Nat /\ s = n
        BY <1>0, <4>2
      <4> QED
        BY <1>2, <2>1, <3>2, <4>2, <4>3 DEF Inserted
    <3> QED
      BY <3>1, <3>2
  <2>3. \A d \in D : Prevs(R)[d] = Prevs(S)[d] /\ Nexts(R)[d] = Nexts(S)[d]
    BY <1>0, <2>2 DEF SameLists, Prevs, Nexts
  <2>4. TiedList(D, last, Prevs(R), Nexts(R))
    BY <2>3, TiedListFrame
  <2> QED
    BY <2>1, <2>2, <2>4
<1>3. CASE N.type = "TIED" /\ n \notin D
  <2>1. R.thr[h].last = n /\ E = D \cup {n} /\ N.prev = None /\ N.next = None
    BY <1>3 DEF Inserted
  <2>2. \A s \in D : s < n
    <3>1. CASE D = {}
      BY <3>1
    <3>2. CASE D # {}
      <4>1. last \in D /\ \A s \in D : s <= last
        BY <3>2 DEF TiedList
      <4>2. last < n
        BY <1>0, <1>3, <4>1
      <4>3. \A s \in D : s \in Nat /\ last \in Nat
        BY <1>0, <4>1
      <4> QED
        BY <1>0, <4>1, <4>2, <4>3
    <3> QED
      BY <3>1, <3>2
  <2>3. /\ \A d \in D : /\ Prevs(R)[d] = Prevs(S)[d]
                        /\ Nexts(R)[d] = IF d = last THEN n ELSE Nexts(S)[d]
        /\ Nexts(R)[n] = None /\ Prevs(R)[n] = last
    <3>1. CASE D = {}
      <4>1. last = None
        BY <3>1 DEF TiedList
      <4>2. SameLists(S, R)
        BY <2>1, <4>1, Names DEF Inserted
      <4> QED
        BY <1>0, <2>1, <3>1, <4>1, <4>2 DEF SameLists, Prevs, Nexts
    <3>2. CASE D # {}
      <4>1. last \in D
        BY <3>2 DEF TiedList
      <4>2. \A c \in Task : /\ R.task[c].next = IF c = last THEN n ELSE S.task[c].next
                            /\ R.task[c].prev = IF c = n THEN last ELSE S.task[c].prev
        BY <1>0, <1>3, <2>1, <3>2, <4>1 DEF Inserted
      <4>3. \A d \in D : d # n /\ d \in Task
        BY <1>0, <1>3
      <4>4. n # last
        BY <1>3, <4>1
      <4> QED
        BY <1>0, <2>1, <4>2, <4>3, <4>4 DEF Prevs, Nexts
    <3> QED
      BY <3>1, <3>2
  <2>4. TiedList(D \cup {n}, n, Prevs(R), Nexts(R))
    <3> HIDE DEF last
    <3>1. TiedList(D, last, Prevs(S), Nexts(S))
      BY DEF last
    <3> QED
      BY <1>0, <2>2, <2>3, <3>1, TiedListAppend
  <2> QED
    BY <2>1, <2>4
<1> QED
  BY <1>2, <1>1, <1>3

(* gomp_remove_task_from_tied_list takes n out of the list.                *)
LEMMA RemovedList ==
  ASSUME NEW S, NEW R, NEW h \in Thread, NEW t \in Task, NEW n \in Explicit, NEW D \in SUBSET Explicit,
         TiedList(D, S.thr[h].last, Prevs(S), Nexts(S)), Removed(S, R, h, t, n),
         S.task[t].kind = "IMPLICIT" => D \subseteq {n},
         n \in D <=> S.task[n].type = "TIED",
         NEW E, E = D \ {n}
  PROVE  TiedList(E, R.thr[h].last, Prevs(R), Nexts(R))
<1> DEFINE last == S.thr[h].last
           N == S.task[n]
<1>0. Explicit \subseteq Nat /\ None \notin D /\ D \subseteq Task /\ n \in Task /\ n # None /\ D \in SUBSET Nat
      /\ n \in Nat
  BY ExplicitFinite, Names
<1>1. CASE N.type # "TIED"
  <2>1. SameListsBut(S, R, n) /\ R.thr[h].last = last /\ E = D
    BY <1>1 DEF Removed
  <2>2. \A d \in D : Prevs(R)[d] = Prevs(S)[d] /\ Nexts(R)[d] = Nexts(S)[d]
    BY <1>0, <1>1, <2>1 DEF SameListsBut, Prevs, Nexts
  <2>3. TiedList(D, last, Prevs(R), Nexts(R))
    BY <2>2, TiedListFrame
  <2> QED
    BY <2>1, <2>3
<1>2. CASE N.type = "TIED" /\ R.thr[h].last = None /\ E = {}
  BY <1>2 DEF TiedList
<1>3. CASE /\ N.type = "TIED" /\ n \in D
           /\ \A d \in E : /\ Prevs(R)[d] = IF d = Nexts(S)[n] THEN Prevs(S)[n] ELSE Prevs(S)[d]
                           /\ Nexts(R)[d] = IF d = Prevs(S)[n] THEN Nexts(S)[n] ELSE Nexts(S)[d]
           /\ R.thr[h].last = IF last = n THEN Prevs(S)[n] ELSE last
  <2> HIDE DEF last
  <2>1. TiedList(D, last, Prevs(S), Nexts(S))
    BY DEF last
  <2>2. TiedList(D \ {n}, IF last = n THEN Prevs(S)[n] ELSE last, Prevs(R), Nexts(R))
    BY <1>0, <1>3, <2>1, TiedListRemove
  <2> QED
    BY <1>3, <2>2
<1>4. CASE N.type = "TIED"
  <2>0. n \in D /\ last \in D /\ \A s \in D : s <= last
    BY <1>4 DEF TiedList
  <2>1. CASE S.task[t].kind = "IMPLICIT"
    BY <1>2, <1>4, <2>1 DEF Removed
  <2>2. CASE S.task[t].kind # "IMPLICIT" /\ last = n /\ N.prev = None
    <3>1. Prevs(S)[n] = None
      BY <1>0, <2>2 DEF Prevs
    <3>2. \A s \in D : s >= n
      BY <1>0, <2>0, <3>1 DEF TiedList
    <3>3. \A s \in D : s = n
      BY <1>0, <2>0, <2>2, <3>2
    <3>4. E = {}
      BY <3>3
    <3>5. R.thr[h].last = None
      BY <1>4, <2>2, Names DEF Removed
    <3> QED
      BY <1>2, <1>4, <3>4, <3>5
  <2>3. CASE S.task[t].kind # "IMPLICIT" /\ last = n /\ N.prev # None
    <3>1. /\ \A c \in Task \ {n} :
               /\ R.task[c].next = IF c = N.prev THEN None ELSE S.task[c].next
               /\ R.task[c].prev = S.task[c].prev
          /\ R.thr[h].last = N.prev
      BY <1>4, <2>3 DEF Removed
    <3>2. Nexts(S)[n] = None
      <4> SUFFICES ASSUME Nexts(S)[n] # None PROVE FALSE
        OBVIOUS
      <4>1. PICK d \in D : n < d
        <5>1. TiedList(D, last, Prevs(S), Nexts(S)) /\ None \notin D /\ n \in D
          BY <1>0, <2>0
        <5> HIDE DEF last
        <5>2. Nexts(S)[n] \in D /\ n < Nexts(S)[n]
          BY <5>1, TiedListEnds
        <5> QED
          BY <5>2
      <4>2. d \in Nat /\ d <= n
        BY <1>0, <2>0, <2>3, <4>1
      <4> QED
        BY <1>0, <4>1, <4>2
    <3>3. \A d \in E : d \in Task \ {n} /\ d # None
      BY <1>0
    <3>4. Prevs(S)[n] = N.prev
      BY <1>0 DEF Prevs
    <3>5. \A d \in E : /\ Prevs(R)[d] = IF d = Nexts(S)[n] THEN Prevs(S)[n] ELSE Prevs(S)[d]
                       /\ Nexts(R)[d] = IF d = Prevs(S)[n] THEN Nexts(S)[n] ELSE Nexts(S)[d]
      BY <3>1, <3>2, <3>3, <3>4 DEF Prevs, Nexts
    <3> QED
      BY <1>3, <1>4, <2>0, <2>3, <3>1, <3>4, <3>5
  <2>4. CASE S.task[t].kind # "IMPLICIT" /\ last # n
    <3>1. /\ \A c \in Task \ {n} :
               /\ R.task[c].next = IF c = N.prev THEN N.next ELSE S.task[c].next
               /\ R.task[c].prev = IF c = N.next THEN N.prev ELSE S.task[c].prev
          /\ R.thr[h].last = last
      BY <1>4, <2>4 DEF Removed
    <3>2. Nexts(S)[n] = N.next /\ Prevs(S)[n] = N.prev
      BY <1>0 DEF Prevs, Nexts
    <3>3. \A d \in E : d \in Task \ {n}
      BY <1>0
    <3>4. \A d \in E : /\ Prevs(R)[d] = IF d = Nexts(S)[n] THEN Prevs(S)[n] ELSE Prevs(S)[d]
                       /\ Nexts(R)[d] = IF d = Prevs(S)[n] THEN Nexts(S)[n] ELSE Nexts(S)[d]
      BY <3>1, <3>2, <3>3 DEF Prevs, Nexts
    <3> QED
      BY <1>3, <1>4, <2>0, <2>4, <3>1, <3>4
  <2> QED
    BY <2>1, <2>2, <2>3, <2>4
<1> QED
  BY <1>1, <1>4

(* The tied list of every thread; a task on no list has no links.          *)
Lists(S) ==
  /\ \A h \in Thread : TiedList(Tied(S, h), S.thr[h].last, Prevs(S), Nexts(S))
  /\ \A t \in Explicit : (\A h \in Thread : t \notin Tied(S, h)) =>
       S.task[t].prev = None /\ S.task[t].next = None

(* The tasks t descends from, its parent and ascending tied task among     *)
(* them.                                                                   *)
Descends(S, t) ==
  LET T == S.task[t]
  IN /\ \A s \in T.creators : s \in Thread \/ (s \in Explicit /\ s < t)
     /\ \A p \in T.creators : S.task[p].creators \subseteq T.creators
     /\ T.parent # None => T.parent \in T.creators
     /\ T.asc # None => T.asc \in T.creators
     /\ T.kind = "none" => T.creators = {}

(* The same for all tasks.                                                 *)
Descent(S) ==
  /\ \A h \in Thread : S.task[h].creators = {} /\ S.task[h].asc = None
  /\ \A t \in Explicit : Descends(S, t)

(* The tied tasks of a thread are in one line of descent.                  *)
OneLine(S) ==
  \A h \in Thread : \A s, t \in Tied(S, h) : s < t => s \in S.task[t].creators

(* n may start on h: it is untied, or was there before, or descends from   *)
(* the youngest tied task of h.                                            *)
Fits(S, h, n) ==
  S.task[n].type = "TIED" =>
    \/ n \in Tied(S, h) \/ S.thr[h].last = None
    \/ S.thr[h].last \in S.task[n].creators

(* A tied task is on one thread only.                                      *)
LEMMA TiedOne ==
  ASSUME NEW S, NEW X, Chains(S, X), NEW g \in Thread, NEW h \in Thread, g # h
  PROVE  Tied(S, g) \cap Tied(S, h) = {}
BY OnOne DEF Tied

(* The tied lists after n has been put on h.                               *)
LEMMA LandLists ==
  ASSUME NEW S, NEW R, NEW h \in Thread, NEW t \in Task, NEW n \in Explicit, NEW X,
         Chains(S, X), Lists(S), Descent(S), Inserted(S, R, h, t, n),
         S.task[t].kind = "IMPLICIT" => Tied(S, h) = {},
         \A g \in Thread \ {h} : n \notin Tied(S, g),
         Fits(S, h, n),
         \A g \in Thread \ {h} : R.thr[g].last = S.thr[g].last,
         \A g \in Thread \ {h} : Tied(R, g) = Tied(S, g),
         Tied(R, h) = IF S.task[n].type = "TIED" THEN Tied(S, h) \cup {n} ELSE Tied(S, h)
  PROVE  Lists(R)
<1> DEFINE D == Tied(S, h)
           last == S.thr[h].last
<1>0. D \subseteq Explicit /\ Explicit \subseteq Task /\ n \in Task /\ None \notin Task
  BY Names DEF Tied
<1>1. TiedList(D, last, Prevs(S), Nexts(S))
  BY DEF Lists
<1>2. n \notin D => S.task[n].prev = None /\ S.task[n].next = None
  BY DEF Lists
<1>3. n \notin D /\ S.task[n].type = "TIED" => last = None \/ last < n
  <2> SUFFICES ASSUME n \notin D, S.task[n].type = "TIED", last # None
               PROVE  last < n
    OBVIOUS
  <2>1. last \in D
    BY <1>1 DEF TiedList
  <2>2. last \in S.task[n].creators /\ last \in Explicit
    BY <1>0, <2>1 DEF Fits
  <2> QED
    BY <2>2, Names DEF Descent, Descends
<1>4. n \in D => S.task[n].type = "TIED"
  BY DEF Tied
<1>5. TiedList(Tied(R, h), R.thr[h].last, Prevs(R), Nexts(R))
  <2>1. S.task[t].kind = "IMPLICIT" => D = {}
    OBVIOUS
  <2>2. Tied(R, h) = IF S.task[n].type = "TIED" THEN D \cup {n} ELSE D
    OBVIOUS
  <2>3. D \in SUBSET Explicit
    BY <1>0
  <2>4. TiedList(D, S.thr[h].last, Prevs(S), Nexts(S))
    BY <1>1
  <2> HIDE DEF D, last
  <2>5. n \notin D /\ S.task[n].type = "TIED" => S.thr[h].last = None \/ S.thr[h].last < n
    BY <1>3 DEF last
  <2> QED
    BY <1>2, <1>4, <2>1, <2>2, <2>3, <2>4, <2>5, InsertedList
<1>6. \A c \in Task : c # n /\ (c # last \/ last \notin Task) =>
        R.task[c].prev = S.task[c].prev /\ R.task[c].next = S.task[c].next
  BY DEF Inserted, SameLists
<1>7. last \in Task => last \in D
  BY <1>0, <1>1 DEF TiedList
<1>8. ASSUME NEW g \in Thread \ {h}
      PROVE  TiedList(Tied(R, g), R.thr[g].last, Prevs(R), Nexts(R))
  <2>1. Tied(S, g) \cap D = {} /\ n \notin Tied(S, g) /\ Tied(S, g) \subseteq Task
    BY <1>0, TiedOne DEF Tied
  <2>2. \A c \in Tied(S, g) : R.task[c].prev = S.task[c].prev /\ R.task[c].next = S.task[c].next
    BY <1>6, <1>7, <2>1
  <2>3. \A c \in Tied(S, g) : Prevs(R)[c] = Prevs(S)[c] /\ Nexts(R)[c] = Nexts(S)[c]
    BY <2>1, <2>2 DEF Prevs, Nexts
  <2>4. TiedList(Tied(S, g), S.thr[g].last, Prevs(S), Nexts(S))
    BY DEF Lists
  <2>5. TiedList(Tied(S, g), S.thr[g].last, Prevs(R), Nexts(R))
    BY <2>3, <2>4, TiedListFrame
  <2> QED
    BY <2>5
<1>9. ASSUME NEW c \in Explicit, \A g \in Thread : c \notin Tied(R, g)
      PROVE  R.task[c].prev = None /\ R.task[c].next = None
  <2>1. \A g \in Thread : c \notin Tied(S, g)
    BY <1>9
  <2>2. S.task[c].prev = None /\ S.task[c].next = None
    BY <2>1 DEF Lists
  <2>3. CASE c # n
    BY <1>0, <1>6, <1>7, <2>1, <2>2, <2>3
  <2>4. CASE c = n
    <3>1. S.task[n].type # "TIED"
      BY <1>9, <2>4
    <3>2. SameLists(S, R)
      BY <3>1 DEF Inserted
    <3> QED
      BY <1>0, <2>2, <2>4, <3>2 DEF SameLists
  <2> QED
    BY <2>3, <2>4
<1> QED
  BY <1>5, <1>8, <1>9 DEF Lists

(* The line of descent after n has been put on h.                          *)
LEMMA LandLine ==
  ASSUME NEW S, NEW R, NEW h \in Thread, NEW n \in Explicit,
         Lists(S), Descent(S), OneLine(S), Fits(S, h, n),
         \A c \in Explicit : R.task[c].creators = S.task[c].creators,
         \A g \in Thread \ {h} : Tied(R, g) = Tied(S, g),
         Tied(R, h) = IF S.task[n].type = "TIED" THEN Tied(S, h) \cup {n} ELSE Tied(S, h)
  PROVE  OneLine(R)
<1> DEFINE D == Tied(S, h)
           last == S.thr[h].last
<1>0. D \subseteq Explicit /\ Explicit \subseteq Nat /\ None \notin D
  BY Names, ExplicitFinite DEF Tied
<1>1. TiedList(D, last, Prevs(S), Nexts(S))
  BY DEF Lists
<1>2. \A g \in Thread : \A s, d \in Tied(S, g) : s < d => s \in R.task[d].creators
  BY DEF OneLine, Tied
<1>3. ASSUME n \notin D, S.task[n].type = "TIED", NEW s \in D
      PROVE  s \in S.task[n].creators /\ s < n
  <2>1. last \in D /\ \A r \in D : r <= last
    BY <1>1, <1>3 DEF TiedList
  <2>2. last \in S.task[n].creators
    BY <1>0, <1>3, <2>1 DEF Fits
  <2>3. S.task[last].creators \subseteq S.task[n].creators /\ last < n
    <3>1. Descends(S, n) /\ last \in Explicit /\ last \notin Thread
      BY <1>0, <2>1, Names DEF Descent
    <3> HIDE DEF last
    <3> QED
      BY <2>2, <3>1 DEF Descends
  <2>4. s \in Nat /\ last \in Nat /\ n \in Nat /\ s <= last
    <3> HIDE DEF last, D
    <3> QED
      BY <1>0, <1>3, <2>1
  <2>5. s = last \/ s < last
    <3> HIDE DEF last
    <3> QED
      BY <2>4
  <2>6. s < last => s \in S.task[last].creators
    BY <2>1 DEF OneLine
  <2> QED
    BY <2>2, <2>3, <2>4, <2>5, <2>6
<1>4. ASSUME NEW s \in Tied(R, h), NEW d \in Tied(R, h), s < d
      PROVE  s \in R.task[d].creators
  <2>1. CASE s \in D /\ d \in D
    BY <1>2, <1>4, <2>1
  <2>2. CASE s \in D /\ d \notin D
    <3>1. d = n /\ S.task[n].type = "TIED"
      BY <2>2
    <3> QED
      BY <1>3, <2>2, <3>1
  <2>3. CASE s \notin D
    <3>1. s = n /\ S.task[n].type = "TIED" /\ n \in Nat
      BY <1>0, <2>3
    <3>2. CASE d = n
      BY <1>4, <3>1, <3>2
    <3>3. CASE d # n
      <4>1. d \in D /\ d \in Nat
        BY <1>0, <3>1, <3>3
      <4>2. d < n
        BY <1>3, <2>3, <3>1, <4>1
      <4> QED
        BY <1>4, <3>1, <4>1, <4>2
    <3> QED
      BY <3>2, <3>3
  <2> QED
    BY <2>1, <2>2, <2>3
<1>5. ASSUME NEW g \in Thread, NEW s \in Tied(R, g), NEW d \in Tied(R, g), s < d
      PROVE  s \in R.task[d].creators
  BY <1>2, <1>4, <1>5
<1> QED
  BY <1>5 DEF OneLine

(* The end of n: it leaves the list, its children lose their parent.       *)
LEMMA EndTied ==
  ASSUME NEW S, NEW R, NEW h \in Thread, NEW t \in Task, NEW n \in Explicit,
         Ends(S, R, h, t, n)
  PROVE  /\ Tied(R, h) = Tied(S, h) \ {n} /\ \A g \in Thread \ {h} : Tied(R, g) = Tied(S, g)
         /\ n \in Tied(S, h) <=> S.task[n].type = "TIED"
<1>0. /\ InStep(S, {}) /\ Chains(S, {}) /\ S.thr[h].task = n /\ S.task[n].to = t
      /\ EndEffect(S, R, h, t, n)
  BY DEF Ends
<1> USE <1>0
<1>1. On(R, h) = On(S, h) \ {n} /\ \A g \in Thread \ {h} : On(R, g) = On(S, g)
  BY EndOn
<1>2. \A c \in Explicit \ {n} : R.task[c].type = S.task[c].type
  BY Names DEF EndEffect, EndRec
<1>3. n \in On(S, h)
  BY DEF On
<1>4. \A g \in Thread \ {h} : n \notin On(S, g)
  BY <1>3, OnOne
<1>5. Tied(R, h) = Tied(S, h) \ {n}
  BY <1>1, <1>2 DEF Tied
<1>6. \A g \in Thread \ {h} : Tied(R, g) = Tied(S, g)
  BY <1>1, <1>2, <1>4 DEF Tied
<1>7. n \in Tied(S, h) <=> S.task[n].type = "TIED"
  BY <1>3 DEF Tied
<1> QED
  BY <1>5, <1>6, <1>7

(* If the implicit task is next, n was the only tied task of h.            *)
LEMMA EndLast ==
  ASSUME NEW S, NEW R, NEW h \in Thread, NEW t \in Task, NEW n \in Explicit,
         Ends(S, R, h, t, n), S.task[t].kind = "IMPLICIT"
  PROVE  Tied(S, h) \subseteq {n}
<1>1. /\ InStep(S, {}) /\ Chains(S, {}) /\ S.thr[h].task = n /\ S.task[n].to = t
      /\ S \in StateRec
  BY DEF Ends, InStep
<1>2. Below(S, h, n) /\ n # h
  BY <1>1, Current, Names
<1>3. t = h
  BY <1>1, <1>2 DEF Below
<1>4. Chain(h, On(S, h), n, To(S), From(S)) /\ None \notin On(S, h) /\ To(S)[n] = h
  BY <1>1, <1>3, OnTasks, Names DEF Chains, To
<1>5. On(S, h) = {h, n}
  BY <1>2, <1>4, ChainEnds
<1> QED
  BY <1>5, Names DEF Tied

(* The tied lists after n has ended.                                       *)
LEMMA EndLists ==
  ASSUME NEW S, NEW R, NEW h \in Thread, NEW t \in Task, NEW n \in Explicit, Lists(S),
         Ends(S, R, h, t, n)
  PROVE  Lists(R)
<1> DEFINE D == Tied(S, h)
<1>0. /\ InStep(S, {}) /\ Chains(S, {}) /\ S.thr[h].task = n /\ S.task[n].to = t
      /\ EndEffect(S, R, h, t, n)
  BY DEF Ends
<1>a. D \subseteq Explicit /\ Explicit \subseteq Task /\ n \in Task /\ None \notin Task /\ None \notin D
  BY Names DEF Tied
<1>1. /\ Tied(R, h) = D \ {n} /\ \A g \in Thread \ {h} : Tied(R, g) = Tied(S, g)
      /\ n \in D <=> S.task[n].type = "TIED"
  BY EndTied
<1>b. S.task[t].kind = "IMPLICIT" => D \subseteq {n}
  BY EndLast
<1> USE <1>0
<1>2. TiedList(D, S.thr[h].last, Prevs(S), Nexts(S))
  BY DEF Lists
<1>3. Removed(S, R, h, t, n)
  BY DEF EndEffect
<1>4. TiedList(Tied(R, h), R.thr[h].last, Prevs(R), Nexts(R))
  <2>1. D \in SUBSET Explicit
    BY <1>a
  <2> HIDE DEF D
  <2> QED
    BY <1>1, <1>b, <1>2, <1>3, <2>1, RemovedList
<1>5. S.task[n].type = "TIED" => /\ S.task[n].prev \in D \/ S.task[n].prev = None
                                 /\ S.task[n].next \in D \/ S.task[n].next = None
  <2>1. S.task[n].prev = Prevs(S)[n] /\ S.task[n].next = Nexts(S)[n]
    BY <1>a DEF Prevs, Nexts
  <2> QED
    BY <1>1, <1>2, <2>1 DEF TiedList
<1>6. \A c \in Task \ {n} : c \notin D =>
        R.task[c].prev = S.task[c].prev /\ R.task[c].next = S.task[c].next
  BY <1>a, <1>3, <1>5 DEF Removed, SameListsBut
<1>7. ASSUME NEW g \in Thread \ {h}
      PROVE  TiedList(Tied(R, g), R.thr[g].last, Prevs(R), Nexts(R))
  <2>1. Tied(S, g) \cap D = {} /\ Tied(S, g) \subseteq Task
    BY <1>a, TiedOne DEF Tied
  <2>2. n \notin Tied(S, g)
    BY <1>1, <2>1 DEF Tied
  <2>3. \A c \in Tied(S, g) : R.task[c].prev = S.task[c].prev /\ R.task[c].next = S.task[c].next
    BY <1>6, <2>1, <2>2
  <2>4. \A c \in Tied(S, g) : Prevs(R)[c] = Prevs(S)[c] /\ Nexts(R)[c] = Nexts(S)[c]
    BY <2>1, <2>3 DEF Prevs, Nexts
  <2>5. TiedList(Tied(S, g), S.thr[g].last, Prevs(S), Nexts(S))
    BY DEF Lists
  <2>6. TiedList(Tied(S, g), S.thr[g].last, Prevs(R), Nexts(R))
    BY <2>4, <2>5, TiedListFrame
  <2>7. R.thr[g].last = S.thr[g].last
    BY DEF EndEffect
  <2> QED
    BY <1>1, <2>6, <2>7
<1>8. ASSUME NEW c \in Explicit, \A g \in Thread : c \notin Tied(R, g)
      PROVE  R.task[c].prev = None /\ R.task[c].next = None
  <2>1. CASE c = n
    BY <2>1, BlankRecords DEF EndEffect
  <2>2. CASE c # n
    <3>1. \A g \in Thread : c \notin Tied(S, g)
      BY <1>1, <1>8, <2>2
    <3>2. S.task[c].prev = None /\ S.task[c].next = None
      BY <3>1 DEF Lists
    <3> QED
      BY <1>a, <1>6, <2>2, <3>1, <3>2
  <2> QED
    BY <2>1, <2>2
<1> QED
  BY <1>4, <1>7, <1>8 DEF Lists

(* Its children go on without it in the line of descent.                   *)
LEMMA EndDescent ==
  ASSUME NEW S, NEW R, NEW h \in Thread, NEW t \in Task, NEW n \in Explicit,
         Descent(S), InStep(S, {}), EndEffect(S, R, h, t, n)
  PROVE  Descent(R)
<1>1. \A c \in Task \ {n} : /\ R.task[c].creators = S.task[c].creators
                            /\ R.task[c].kind = "none" => S.task[c].kind = "none"
  BY DEF EndEffect, EndRec
<1>2. R.task[n].creators = {} /\ R.task[n].kind = "freed" /\ R.task[n].parent = None /\ R.task[n].asc = None
  BY BlankRecords DEF EndEffect
<1>3. \A h1 \in Thread : R.task[h1].creators = {} /\ R.task[h1].asc = None
  <2> SUFFICES ASSUME NEW g \in Thread PROVE R.task[g].creators = {} /\ R.task[g].asc = None
    OBVIOUS
  <2>1. g \in Task \ {n} /\ S.task[g].parent = None /\ None # n
    BY Names DEF InStep
  <2> QED
    BY <1>1, <2>1 DEF Descent, EndEffect, EndRec
<1>4. ASSUME NEW c \in Explicit
      PROVE  Descends(R, c)
  <2>1. CASE c = n
    BY <1>2, <2>1 DEF Descends
  <2>2. CASE c # n
    <3>1. c \in Task \ {n} /\ Descends(S, c) /\ Descends(S, n)
      BY <2>2, Names DEF Descent
    <3>2. R.task[c].creators = S.task[c].creators
      BY <1>1, <3>1
    <3>3. \A s \in R.task[c].creators : s \in Thread \/ (s \in Explicit /\ s < c)
      BY <3>1, <3>2 DEF Descends
    <3>4. \A p \in R.task[c].creators : R.task[p].creators \subseteq R.task[c].creators
      <4> SUFFICES ASSUME NEW p \in S.task[c].creators
                   PROVE  R.task[p].creators \subseteq S.task[c].creators
        BY <3>2
      <4>1. CASE p = n
        BY <1>2, <4>1
      <4>2. CASE p # n
        BY <1>1, <3>1, <4>2, Names DEF Descends
      <4> QED
        BY <4>1, <4>2
    <3>5. EndRec(S, R, t, n, c)
      BY <3>1 DEF EndEffect
    <3>6. R.task[c].parent # None => R.task[c].parent \in R.task[c].creators
      BY <3>1, <3>2, <3>5 DEF EndRec, Descends
    <3>7. R.task[c].asc # None => R.task[c].asc \in R.task[c].creators
      <4>1. CASE R.task[c].asc = S.task[c].asc
        BY <3>1, <3>2, <4>1 DEF Descends
      <4>2. CASE R.task[c].asc # S.task[c].asc
        <5>1. S.task[c].parent = n /\ R.task[c].asc = S.task[n].asc
          BY <3>5, <4>2 DEF EndRec
        <5>2. n \in S.task[c].creators
          BY <3>1, <5>1, Names DEF Descends
        <5>3. S.task[n].creators \subseteq S.task[c].creators
          BY <3>1, <5>2 DEF Descends
        <5> QED
          BY <3>1, <3>2, <5>1, <5>3 DEF Descends
      <4> QED
        BY <4>1, <4>2
    <3>8. R.task[c].kind = "none" => R.task[c].creators = {}
      BY <1>1, <3>1, <3>2 DEF Descends
    <3> QED
      BY <3>3, <3>4, <3>6, <3>7, <3>8 DEF Descends
  <2> QED
    BY <2>1, <2>2
<1> QED
  BY <1>3, <1>4 DEF Descent

(* The line of descent after n has ended.                                  *)
LEMMA EndLine ==
  ASSUME NEW S, NEW R, NEW h \in Thread, NEW t \in Task, NEW n \in Explicit, OneLine(S),
         Ends(S, R, h, t, n)
  PROVE  OneLine(R)
<1>0. /\ InStep(S, {}) /\ Chains(S, {}) /\ S.thr[h].task = n /\ S.task[n].to = t
      /\ EndEffect(S, R, h, t, n)
  BY DEF Ends
<1> USE <1>0
<1>1. Tied(R, h) = Tied(S, h) \ {n} /\ \A g \in Thread \ {h} : Tied(R, g) = Tied(S, g)
  BY EndTied
<1>2. \A g \in Thread : Tied(R, g) \subseteq Tied(S, g) \ {n}
  <2>1. n \in On(S, h)
    BY DEF On
  <2>2. \A g \in Thread \ {h} : n \notin Tied(S, g)
    BY <2>1, OnOne DEF Tied
  <2> QED
    BY <1>1, <2>2
<1>3. \A c \in Explicit \ {n} : R.task[c].creators = S.task[c].creators
  BY Names DEF EndEffect, EndRec
<1>4. ASSUME NEW g \in Thread, NEW s \in Tied(R, g), NEW d \in Tied(R, g), s < d
      PROVE  s \in R.task[d].creators
  <2>1. s \in Tied(S, g) /\ d \in Tied(S, g) /\ d \in Explicit \ {n}
    BY <1>2 DEF Tied
  <2> QED
    BY <1>3, <1>4, <2>1 DEF OneLine
<1> QED
  BY <1>4 DEF OneLine

(* The chains, the tied lists and the lines of descent.                    *)
Structure(S) == Chains(S, {}) /\ Lists(S) /\ Descent(S) /\ OneLine(S)

(* No tied task leaves its thread, unless it ends.                         *)
Stay(S, R) ==
  \A h \in Thread : \A t \in Tied(S, h) : t \in Tied(R, h) \/ R.task[t].kind = "freed"

(* What leaves the structure alone.                                        *)
SameStructure(T, U) ==
  /\ U.kind = T.kind /\ U.type = T.type /\ U.susp = T.susp /\ U.to = T.to /\ U.from = T.from
  /\ U.prev = T.prev /\ U.next = T.next /\ U.creators = T.creators
  /\ U.parent = T.parent /\ U.asc = T.asc

(* Tied lists whose tasks and links stay.                                  *)
LEMMA ListsFrame ==
  ASSUME NEW S, NEW R, Lists(S),
         \A h \in Thread : Tied(R, h) = Tied(S, h) /\ R.thr[h].last = S.thr[h].last,
         \A c \in Explicit : R.task[c].prev = S.task[c].prev /\ R.task[c].next = S.task[c].next
  PROVE  Lists(R)
<1>1. ASSUME NEW h \in Thread
      PROVE  TiedList(Tied(R, h), R.thr[h].last, Prevs(R), Nexts(R))
  <2>1. Tied(S, h) \subseteq Explicit
    BY DEF Tied
  <2>2. \A c \in Tied(S, h) : Prevs(R)[c] = Prevs(S)[c] /\ Nexts(R)[c] = Nexts(S)[c]
    BY <2>1, Names DEF Prevs, Nexts
  <2>3. TiedList(Tied(S, h), S.thr[h].last, Prevs(S), Nexts(S))
    BY DEF Lists
  <2>4. TiedList(Tied(S, h), S.thr[h].last, Prevs(R), Nexts(R))
    BY <2>2, <2>3, TiedListFrame
  <2> QED
    BY <2>4
<1> QED
  BY <1>1 DEF Lists

(* The line of descent depends on few fields.                              *)
LEMMA DescentFrame ==
  ASSUME NEW S, NEW R, Descent(S),
         \A c \in Task : /\ R.task[c].creators = S.task[c].creators
                         /\ R.task[c].parent = S.task[c].parent /\ R.task[c].asc = S.task[c].asc
                         /\ R.task[c].kind = "none" => S.task[c].kind = "none"
  PROVE  Descent(R)
<1>1. ASSUME NEW c \in Explicit
      PROVE  Descends(R, c)
  <2>1. Descends(S, c) /\ c \in Task
    BY Names DEF Descent
  <2>2. \A p \in S.task[c].creators : p \in Task
    BY <2>1, Names DEF Descends
  <2> QED
    BY <2>1, <2>2 DEF Descends
<1>2. \A h \in Thread : R.task[h].creators = {} /\ R.task[h].asc = None
  BY Names DEF Descent
<1> QED
  BY <1>1, <1>2 DEF Descent

(* A step that leaves those fields alone keeps the structure.              *)
LEMMA StructureFrame ==
  ASSUME NEW S, NEW R, Structure(S), R.thr = S.thr,
         \A c \in Task : SameStructure(S.task[c], R.task[c])
  PROVE  Structure(R) /\ Stay(S, R) /\ \A h \in Thread : On(R, h) = On(S, h)
<1>1. Chains(R, {}) /\ \A h \in Thread : On(R, h) = On(S, h)
  <2>1. \A c \in Explicit : SameChain(S, R, c)
    BY Names DEF SameStructure, SameChain
  <2>2. \A h \in Thread : R.task[h].to = S.task[h].to /\ R.task[h].from = S.task[h].from
    BY Names DEF SameStructure
  <2> QED
    BY <2>1, <2>2, ChainsFrame DEF Structure
<1>2. ASSUME NEW h \in Thread
      PROVE  Tied(R, h) = Tied(S, h) /\ R.thr[h].last = S.thr[h].last
  BY <1>1, Names DEF Tied, SameStructure
<1>3. Lists(R)
  <2>1. \A c \in Explicit : R.task[c].prev = S.task[c].prev /\ R.task[c].next = S.task[c].next
    BY Names DEF SameStructure
  <2> QED
    BY <1>2, <2>1, ListsFrame DEF Structure
<1>4. Descent(R)
  BY DescentFrame DEF Structure, SameStructure
<1>5. OneLine(R)
  <2>1. \A h \in Thread : \A c \in Tied(S, h) : c \in Task /\ R.task[c].creators = S.task[c].creators
    BY Names DEF Tied, SameStructure
  <2> QED
    BY <1>2, <2>1 DEF Structure, OneLine
<1>6. Stay(S, R)
  BY <1>2 DEF Stay
<1> QED
  BY <1>1, <1>3, <1>4, <1>5, <1>6 DEF Structure

(* What a thread picks to run instead of its current task.                 *)
Pick(S, h, n) ==
  /\ n \in Explicit /\ Pickable(S, n) /\ Fits(S, h, n)
  /\ S.task[n].kind = "TIED_SUSPENDED" => S.task[n].susp = h

(* The picked task is on no other thread.                                  *)
LEMMA PickedOn ==
  ASSUME NEW S, NEW h \in Thread, NEW n, Chains(S, {}), Pick(S, h, n)
  PROVE  /\ \A g \in Thread \ {h} : n \notin On(S, g)
         /\ S.thr[h].task # n
<1>1. n \in Explicit /\ S.task[n].kind # "TIED"
  BY DEF Pick, Pickable
<1>2. \A g \in Thread : S.thr[g].task # n
  BY <1>1 DEF Chains
<1>3. \A g \in Thread \ {h} : n \notin On(S, g)
  BY <1>1, <1>2, Names DEF On, Pick
<1> QED
  BY <1>2, <1>3

(* The implicit task runs only when nothing else is on its thread.         *)
LEMMA ImplicitAlone ==
  ASSUME NEW S, NEW X, NEW h \in Thread, Chains(S, X), S.thr[h].task = h
  PROVE  On(S, h) = {h} /\ Tied(S, h) = {}
<1>1. Chain(h, On(S, h), h, To(S), From(S)) /\ None \notin On(S, h)
  BY OnTasks DEF Chains
<1>2. On(S, h) = {h}
  BY <1>1, ChainEnds
<1> QED
  BY <1>2, Names DEF Tied

(* The picked task n has come to h in the place of t, and nothing else has *)
(* moved.                                                                  *)
Lands(S, R, h, t, n) ==
  /\ \A g \in Thread \ {h} : On(R, g) = On(S, g) \ {n}
  /\ On(R, h) = (IF S.task[t].type = "TIED" THEN On(S, h) ELSE On(S, h) \ {t}) \cup {n}
  /\ \A g \in Thread \ {h} : R.thr[g].last = S.thr[g].last
  /\ Inserted(S, R, h, t, n)
  /\ \A c \in Task : /\ R.task[c].creators = S.task[c].creators /\ R.task[c].type = S.task[c].type
                     /\ R.task[c].parent = S.task[c].parent /\ R.task[c].asc = S.task[c].asc
                     /\ R.task[c].kind = "none" => S.task[c].kind = "none"

(* What is on the other threads after n has been put on h.                 *)
LEMMA LandsElsewhere ==
  ASSUME NEW S, NEW R, NEW h \in Thread, NEW t, NEW n \in Explicit, Lands(S, R, h, t, n),
         \A g \in Thread \ {h} : n \notin On(S, g)
  PROVE  \A g \in Thread \ {h} : Tied(R, g) = Tied(S, g)
<1> TAKE g \in Thread \ {h}
<1>1. On(R, g) = On(S, g) \ {n} /\ \A c \in Task : R.task[c].type = S.task[c].type
  BY DEF Lands
<1>2. On(R, g) = On(S, g)
  BY <1>1
<1>3. \A c \in Explicit : R.task[c].type = S.task[c].type
  BY <1>1, Names
<1> QED
  BY <1>2, <1>3 DEF Tied

(* What is on h after n has been put there.                                *)
LEMMA LandsHere ==
  ASSUME NEW S, NEW R, NEW h \in Thread, NEW t, NEW n \in Explicit, Lands(S, R, h, t, n)
  PROVE  Tied(R, h) = IF S.task[n].type = "TIED" THEN Tied(S, h) \cup {n} ELSE Tied(S, h)
<1>1. \A c \in Explicit : R.task[c].type = S.task[c].type
  <2>1. \A c \in Task : R.task[c].type = S.task[c].type
    BY DEF Lands
  <2> QED
    BY <2>1, Names
<1>2. On(R, h) = (IF S.task[t].type = "TIED" THEN On(S, h) ELSE On(S, h) \ {t}) \cup {n}
  BY DEF Lands
<1>3. \A c \in Explicit :
        c \in Tied(R, h) <=> IF S.task[n].type = "TIED" THEN c \in Tied(S, h) \cup {n} ELSE c \in Tied(S, h)
  BY <1>1, <1>2 DEF Tied
<1>4. Tied(R, h) \subseteq Explicit /\ Tied(S, h) \cup {n} \subseteq Explicit
  BY DEF Tied
<1> QED
  BY <1>3, <1>4

(* All but the chain of h fits n already.                                  *)
MayLand(S, X, h, t, n) ==
  /\ Chains(S, X) /\ Lists(S) /\ Descent(S) /\ OneLine(S) /\ Fits(S, h, n)
  /\ \A g \in Thread \ {h} : n \notin On(S, g)
  /\ S.task[t].kind = "IMPLICIT" => Tied(S, h) = {}

(* Putting a task on a thread that it fits keeps the structure.            *)
LEMMA LandStructure ==
  ASSUME NEW S, NEW R, NEW X, NEW h \in Thread, NEW t \in Task, NEW n \in Explicit,
         MayLand(S, X, h, t, n), Chains(R, {}), Lands(S, R, h, t, n)
  PROVE  Structure(R) /\ Stay(S, R)
<1>1. \A g \in Thread \ {h} : n \notin On(S, g)
  BY DEF MayLand
<1>2. \A g \in Thread \ {h} : Tied(R, g) = Tied(S, g)
  BY <1>1, LandsElsewhere
<1>a. \A g \in Thread \ {h} : n \notin Tied(S, g)
  BY <1>1 DEF Tied
<1>b. Tied(R, h) = IF S.task[n].type = "TIED" THEN Tied(S, h) \cup {n} ELSE Tied(S, h)
  BY LandsHere
<1>3. S.task[t].kind = "IMPLICIT" => Tied(S, h) = {}
  BY DEF MayLand
<1>4. Lists(R)
  <2>1. Fits(S, h, n) /\ Chains(S, X) /\ Lists(S) /\ Descent(S)
    BY DEF MayLand
  <2>2. Inserted(S, R, h, t, n) /\ \A g \in Thread \ {h} : R.thr[g].last = S.thr[g].last
    BY DEF Lands
  <2> QED
    BY <1>2, <1>a, <1>b, <1>3, <2>1, <2>2, LandLists
<1>5. OneLine(R)
  <2>1. Fits(S, h, n) /\ OneLine(S) /\ Lists(S) /\ Descent(S)
    BY DEF MayLand
  <2>2. \A c \in Explicit : R.task[c].creators = S.task[c].creators
    <3>1. \A c \in Task : R.task[c].creators = S.task[c].creators
      BY DEF Lands
    <3> QED
      BY <3>1, Names
  <2> QED
    BY <1>2, <1>b, <2>1, <2>2, LandLine
<1>6. Descent(R)
  <2>1. \A c \in Task : /\ R.task[c].creators = S.task[c].creators
                        /\ R.task[c].parent = S.task[c].parent /\ R.task[c].asc = S.task[c].asc
                        /\ R.task[c].kind = "none" => S.task[c].kind = "none"
    BY DEF Lands
  <2>2. Descent(S)
    BY DEF MayLand
  <2> QED
    BY <2>1, <2>2, DescentFrame
<1>7. Stay(S, R)
  BY <1>2, <1>b DEF Stay
<1> QED
  BY <1>4, <1>5, <1>6, <1>7 DEF Structure

(* A picked task that leaves its chain keeps the structure.                *)
LEMMA PickedStructure ==
  ASSUME NEW S, NEW R, NEW h \in Thread, NEW t \in Task, NEW n \in Explicit,
         InStep(S, {}), Structure(S), Pick(S, h, n), S.thr[h].task = t, Chains(R, {}),
         Lands(S, R, h, t, n)
  PROVE  Structure(R) /\ Stay(S, R)
<1>1. \A g \in Thread \ {h} : n \notin On(S, g)
  BY PickedOn DEF Structure
<1>2. S.task[t].kind = "IMPLICIT" => Tied(S, h) = {}
  <2> SUFFICES ASSUME S.task[t].kind = "IMPLICIT" PROVE Tied(S, h) = {}
    OBVIOUS
  <2>1. t \notin Explicit
    BY DEF InStep, Alone
  <2>2. t = h
    <3>1. S \in StateRec /\ Chains(S, {})
      BY DEF InStep, Structure
    <3> QED
      BY <2>1, <3>1, Current
  <2> QED
    BY <2>2, ImplicitAlone DEF Structure
<1>3. MayLand(S, {}, h, t, n)
  BY <1>1, <1>2 DEF MayLand, Structure, Pick
<1> QED
  BY <1>3, LandStructure

(* n has been picked, and is not yet on h again.                           *)
Picked(S, R, h, n) ==
  InStep(S, {}) /\ Structure(S) /\ Pick(S, h, n) /\ PreEffect(S, R, n)

(* gomp_task_run_pre picks n.                                              *)
LEMMA PickedPre ==
  ASSUME NEW S, NEW R, NEW h \in Thread, NEW n \in Explicit, Picked(S, R, h, n)
  PROVE  Chains(R, {n}) /\ \A g \in Thread : On(R, g) = On(S, g) \ {n}
<1>1. Chains(S, {}) /\ Pickable(S, n) /\ InStep(S, {}) /\ PreEffect(S, R, n)
  BY DEF Structure, Pick, Picked
<1> QED
  BY <1>1, PreChains

(* A switch keeps the structure.                                           *)
LEMMA SwitchStructure ==
  ASSUME NEW S, NEW S1, NEW R, NEW h \in Thread, NEW t \in Task, NEW n \in Explicit, NEW k,
         InStep(S, {}), InStep(S1, {}), Structure(S), Pick(S, h, n), S.thr[h].task = t,
         PreEffect(S, S1, n), SuspEffect(S1, R, h, t, n, k)
  PROVE  Structure(R) /\ Stay(S, R)
<1>1. Chains(S1, {n}) /\ \A g \in Thread : On(S1, g) = On(S, g) \ {n}
  <2>1. Picked(S, S1, h, n)
    BY DEF Picked
  <2> QED
    BY <2>1, PickedPre
<1>2. S1.thr = S.thr /\ S1.thr[h].task = t /\ S1 \in StateRec /\ n # t
  <2>1. n # t
    BY PickedOn DEF Structure
  <2> QED
    BY <2>1 DEF PreEffect
<1>3. \A c \in Task : /\ PreRec(S.task[c], S1.task[c])
                      /\ S1.task[c].kind = IF c = n THEN "TIED" ELSE S.task[c].kind
  BY DEF PreEffect
<1>4. \A c \in Task : /\ SuspRec(S1, R, h, t, k, c)
  BY DEF SuspEffect
<1>5. /\ Chains(R, {})
      /\ On(R, h) = (IF S1.task[t].type = "TIED" THEN On(S1, h) ELSE On(S1, h) \ {t}) \cup {n}
      /\ \A g \in Thread \ {h} : On(R, g) = On(S1, g)
  <2>1. Chains(S1, {n}) /\ S1 \in StateRec /\ S1.thr[h].task = t
    BY <1>1, <1>2
  <2> QED
    BY <2>1, SuspChains DEF OnElse
<1>6. On(R, h) = (IF S.task[t].type = "TIED" THEN On(S, h) ELSE On(S, h) \ {t}) \cup {n}
  <2>1. S1.task[t].type = S.task[t].type
    BY <1>3 DEF PreRec, SameStatic
  <2> QED
    BY <1>1, <1>2, <1>5, <2>1
<1>7. \A g \in Thread \ {h} : On(R, g) = On(S, g) \ {n}
  BY <1>1, <1>5
<1>8. \A c \in Task : /\ R.task[c].creators = S.task[c].creators /\ R.task[c].type = S.task[c].type
                      /\ R.task[c].parent = S.task[c].parent /\ R.task[c].asc = S.task[c].asc
                      /\ R.task[c].kind = "none" => S.task[c].kind = "none"
  BY <1>3, <1>4 DEF PreRec, SuspRec, SameStatic, SuspKind
<1>9. Inserted(S, R, h, t, n)
  <2>1. SameLists(S, S1) /\ SameLists(R, R)
    BY <1>3 DEF PreRec, SameLists
  <2>2. S1.task[n].type = S.task[n].type /\ S1.task[t].kind = S.task[t].kind
    BY <1>2, <1>3, Names DEF PreRec, SameStatic
  <2>3. Inserted(S1, R, h, t, n) /\ n \in Task
    BY Names DEF SuspEffect
  <2> QED
    BY <1>2, <2>1, <2>2, <2>3, InsertedFrame
<1>10. \A g \in Thread \ {h} : R.thr[g].last = S.thr[g].last
  BY <1>2 DEF SuspEffect
<1> QED
  BY <1>5, <1>6, <1>7, <1>8, <1>9, <1>10, PickedStructure DEF Lands

(* The start of a task by the barrier keeps the structure.                 *)
LEMMA StartStructure ==
  ASSUME NEW S, NEW S1, NEW R, NEW h \in Thread, NEW n \in Explicit,
         InStep(S, {}), InStep(S1, {}), Structure(S), Pick(S, h, n), S.thr[h].task = h,
         PreEffect(S, S1, n), StartEffect(S1, R, h, n)
  PROVE  Structure(R) /\ Stay(S, R)
<1>1. Chains(S1, {n}) /\ \A g \in Thread : On(S1, g) = On(S, g) \ {n}
  <2>1. Picked(S, S1, h, n)
    BY DEF Picked
  <2> QED
    BY <2>1, PickedPre
<1>2. S1.thr = S.thr /\ S1.thr[h].task = h /\ S1 \in StateRec /\ n # h /\ h \in Task /\ n \in Task
  BY Names DEF PreEffect
<1>3. \A c \in Task : /\ PreRec(S.task[c], S1.task[c])
                      /\ S1.task[c].kind = IF c = n THEN "TIED" ELSE S.task[c].kind
  BY DEF PreEffect
<1>4. \A c \in Task : SameButStart(S1.task[c], R.task[c])
  BY DEF StartEffect
<1>5. /\ Chains(R, {}) /\ On(R, h) = On(S1, h) \cup {n}
      /\ \A g \in Thread \ {h} : On(R, g) = On(S1, g)
  <2>1. Chains(S1, {n}) /\ S1.thr[h].task = h
    BY <1>1, <1>2
  <2> QED
    BY <2>1, StartChains
<1>6. On(R, h) = (IF S.task[h].type = "TIED" THEN On(S, h) ELSE On(S, h) \ {h}) \cup {n}
  <2>1. S.task[h].type = "TIED"
    BY DEF InStep
  <2> QED
    BY <1>1, <1>5, <2>1
<1>7. \A g \in Thread \ {h} : On(R, g) = On(S, g) \ {n}
  BY <1>1, <1>5
<1>8. \A c \in Task : /\ R.task[c].creators = S.task[c].creators /\ R.task[c].type = S.task[c].type
                      /\ R.task[c].parent = S.task[c].parent /\ R.task[c].asc = S.task[c].asc
                      /\ R.task[c].kind = "none" => S.task[c].kind = "none"
  BY <1>3, <1>4 DEF PreRec, SameButStart, SameStatic
<1>9. Inserted(S, R, h, h, n)
  <2>1. SameLists(S, S1) /\ SameLists(R, R)
    BY <1>3 DEF PreRec, SameLists
  <2>2. S1.task[n].type = S.task[n].type /\ S1.task[h].kind = S.task[h].kind
    BY <1>2, <1>3 DEF PreRec, SameStatic
  <2>3. Inserted(S1, R, h, h, n)
    BY DEF StartEffect
  <2> QED
    BY <1>2, <2>1, <2>2, <2>3, InsertedFrame
<1>10. \A g \in Thread \ {h} : R.thr[g].last = S.thr[g].last
  BY <1>2 DEF StartEffect
<1> QED
  BY <1>2, <1>5, <1>6, <1>7, <1>8, <1>9, <1>10, PickedStructure DEF Lands

(* The end of n leaves the structure of the other tasks alone.             *)
LEMMA EndStructure ==
  ASSUME NEW S, NEW R, NEW h \in Thread, NEW t \in Task, NEW n \in Explicit,
         Structure(S), Ends(S, R, h, t, n)
  PROVE  Structure(R) /\ Stay(S, R)
<1>1. Chains(R, {})
  BY EndChains
<1>2. Lists(R)
  BY EndLists DEF Structure
<1>3. OneLine(R)
  BY EndLine DEF Structure
<1>4. Descent(R)
  <2>1. Descent(S) /\ InStep(S, {}) /\ EndEffect(S, R, h, t, n)
    BY DEF Structure, Ends
  <2> QED
    BY <2>1, EndDescent
<1>5. Stay(S, R)
  <2>1. R.task[n].kind = "freed"
    BY BlankRecords DEF Ends, EndEffect
  <2>2. Tied(R, h) = Tied(S, h) \ {n}
    BY EndTied
  <2>3. \A g \in Thread \ {h} : Tied(R, g) = Tied(S, g)
    BY EndTied
  <2> QED
    BY <2>1, <2>2, <2>3 DEF Stay
<1> QED
  BY <1>1, <1>2, <1>3, <1>4, <1>5 DEF Structure

(* Task t has created c, the next unused task.                             *)
News(S, R, t, c, k) ==
  /\ InStep(S, {}) /\ Structure(S)
  /\ S.task[c].kind = "none" /\ CreateEffect(S, R, c)
  /\ \E type, prio : NewRec(R.task[c], k, type, prio, t, AscOf(S, t), S.task[t].creators \cup {t})
  /\ t \in Explicit => t < c
  /\ \A d \in Explicit : c < d => S.task[d].kind = "none"

(* What is on the threads after c was created.                             *)
LEMMA NewOn ==
  ASSUME NEW S, NEW R, NEW t \in Task, NEW c \in Explicit, NEW k \in {"WAITING", "TIED"},
         News(S, R, t, c, k)
  PROVE  \A h \in Thread : On(R, h) = On(S, h) /\ c \notin On(S, h) /\ S.thr[h].task # c
<1> TAKE h \in Thread
<1>1. S.task[c].kind = "none" /\ R.task[c].kind = k /\ R.thr = S.thr /\ Chains(S, {})
  BY DEF News, CreateEffect, NewRec, Structure
<1>2. \A d \in Explicit \ {c} : R.task[d] = S.task[d]
  BY Names DEF News, CreateEffect
<1>3. S.thr[h].task # c
  BY <1>1 DEF Chains
<1>4. c # h
  BY Names
<1> QED
  BY <1>1, <1>2, <1>3, <1>4 DEF On

(* The chain of a thread after c was created.                              *)
LEMMA NewChain ==
  ASSUME NEW S, NEW R, NEW t \in Task, NEW c \in Explicit, NEW k \in {"WAITING", "TIED"},
         News(S, R, t, c, k), NEW h \in Thread
  PROVE  Chain(h, On(R, h), R.thr[h].task, To(R), From(R))
<1>1. Chain(h, On(S, h), S.thr[h].task, To(S), From(S)) /\ R.thr = S.thr
  BY DEF News, CreateEffect, Structure, Chains
<1>2. \A d \in Task \ {c} : R.task[d] = S.task[d]
  BY DEF News, CreateEffect
<1>3. On(R, h) = On(S, h) /\ c \notin On(S, h)
  BY NewOn
<1>4. \A d \in On(S, h) : To(R)[d] = To(S)[d] /\ From(R)[d] = From(S)[d]
  <2>1. \A d \in On(S, h) : d \in Task \ {c}
    BY <1>3, OnTasks
  <2> QED
    BY <1>2, <2>1 DEF To, From
<1>5. Chain(h, On(S, h), S.thr[h].task, To(R), From(R))
  BY <1>1, <1>4, ChainFrame
<1> QED
  BY <1>1, <1>3, <1>5

(* The chains after c was created.                                         *)
LEMMA NewChains ==
  ASSUME NEW S, NEW R, NEW t \in Task, NEW c \in Explicit, NEW k \in {"WAITING", "TIED"},
         News(S, R, t, c, k)
  PROVE  Chains(R, IF k = "TIED" THEN {c} ELSE {})
<1>1. \A h \in Thread : Chain(h, On(R, h), R.thr[h].task, To(R), From(R))
  BY NewChain
<1>2. /\ S.task[c].kind = "none" /\ R.task[c].kind = k /\ R.thr = S.thr /\ Chains(S, {})
      /\ R.task[c].to = None /\ R.task[c].from = None
  BY DEF News, CreateEffect, NewRec, Structure
<1>3. \A d \in Explicit \ {c} : R.task[d] = S.task[d]
  BY Names DEF News, CreateEffect
<1>4. \A h \in Thread : S.thr[h].task # c
  BY <1>2 DEF Chains
<1>5. \A h \in Thread : R.thr[h].task \in Explicit =>
        R.task[R.thr[h].task].kind = "TIED" /\ R.thr[h].task # c
  BY <1>2, <1>3, <1>4 DEF Chains
<1>6. \A g, h \in Thread : R.thr[g].task = R.thr[h].task => g = h
  BY <1>2 DEF Chains
<1>7. \A d \in Explicit \ {c} : R.task[d].kind = "TIED" => \E h \in Thread : R.thr[h].task = d
  BY <1>2, <1>3 DEF Chains
<1>8. \A d \in Explicit \ {c} : R.task[d].kind \notin {"TIED", "TIED_SUSPENDED"} =>
        R.task[d].to = None /\ R.task[d].from = None
  BY <1>2, <1>3 DEF Chains
<1>9. CASE k = "TIED"
  <2>1. Chains(R, {c})
    BY <1>1, <1>2, <1>5, <1>6, <1>7, <1>8, <1>9 DEF Chains
  <2> QED
    BY <1>9, <2>1
<1>10. CASE k = "WAITING"
  <2>1. Chains(R, {})
    BY <1>1, <1>2, <1>5, <1>6, <1>7, <1>8, <1>10 DEF Chains
  <2> QED
    BY <1>10, <2>1
<1> QED
  BY <1>9, <1>10

(* The tied tasks of the threads after c was created.                      *)
LEMMA NewTied ==
  ASSUME NEW S, NEW R, NEW t \in Task, NEW c \in Explicit, NEW k \in {"WAITING", "TIED"},
         News(S, R, t, c, k)
  PROVE  \A h \in Thread : Tied(R, h) = Tied(S, h) /\ c \notin Tied(S, h)
<1> TAKE h \in Thread
<1>1. On(R, h) = On(S, h) /\ c \notin On(S, h)
  BY NewOn
<1>2. \A d \in Explicit \ {c} : R.task[d] = S.task[d]
  BY Names DEF News, CreateEffect
<1> QED
  BY <1>1, <1>2 DEF Tied

(* The tied lists after c was created.                                     *)
LEMMA NewLists ==
  ASSUME NEW S, NEW R, NEW t \in Task, NEW c \in Explicit, NEW k \in {"WAITING", "TIED"},
         News(S, R, t, c, k)
  PROVE  Lists(R) /\ OneLine(R)
<1>1. \A d \in Explicit \ {c} : R.task[d] = S.task[d]
  BY Names DEF News, CreateEffect
<1>2. R.task[c].prev = None /\ R.task[c].next = None /\ R.thr = S.thr /\ Lists(S) /\ OneLine(S)
  BY DEF News, CreateEffect, NewRec, Structure
<1>3. \A h \in Thread : Tied(R, h) = Tied(S, h) /\ c \notin Tied(S, h)
  BY NewTied
<1>4. S.task[c].prev = None /\ S.task[c].next = None
  BY <1>2, <1>3 DEF Lists
<1>5. Lists(R)
  <2>1. \A h \in Thread : Tied(R, h) = Tied(S, h) /\ R.thr[h].last = S.thr[h].last
    BY <1>2, <1>3
  <2>2. \A d \in Explicit : R.task[d].prev = S.task[d].prev /\ R.task[d].next = S.task[d].next
    BY <1>1, <1>2, <1>4
  <2> QED
    BY <1>2, <2>1, <2>2, ListsFrame
<1>6. OneLine(R)
  <2>1. \A h \in Thread : \A s \in Tied(R, h) : s \in Explicit \ {c} /\ s \in Tied(S, h)
    BY <1>3 DEF Tied
  <2> QED
    BY <1>1, <1>2, <2>1 DEF OneLine
<1> QED
  BY <1>5, <1>6

(* The lines of descent after c was created.                               *)
LEMMA NewDescent ==
  ASSUME NEW S, NEW R, NEW t \in Task, NEW c \in Explicit, NEW k \in {"WAITING", "TIED"},
         News(S, R, t, c, k)
  PROVE  Descent(R)
<1>1. \A d \in Task \ {c} : R.task[d] = S.task[d]
  BY DEF News, CreateEffect
<1>2. /\ R.task[c].creators = S.task[t].creators \cup {t} /\ R.task[c].parent = t
      /\ R.task[c].asc = AscOf(S, t) /\ R.task[c].kind # "none"
  BY DEF News, NewRec
<1>3. Descent(S) /\ S.task[c].kind = "none" /\ (t \in Explicit => t < c)
      /\ \A d \in Explicit : c < d => S.task[d].kind = "none"
  BY DEF News, Structure
<1>4. t # c /\ c \in Nat
  BY <1>3, ExplicitFinite
<1>5. \A d \in Task : c \notin S.task[d].creators
  <2> SUFFICES ASSUME NEW d \in Task, c \in S.task[d].creators PROVE FALSE
    OBVIOUS
  <2>1. d \in Explicit /\ Descends(S, d)
    BY <1>3 DEF Descent, Task
  <2>2. c < d
    BY <2>1, Names DEF Descends
  <2>3. S.task[d].kind = "none"
    BY <1>3, <2>1, <2>2
  <2> QED
    BY <2>1, <2>3 DEF Descends
<1>6. \A d \in Explicit \ {c} : Descends(R, d)
  <2> TAKE d \in Explicit \ {c}
  <2>1. Descends(S, d) /\ R.task[d] = S.task[d] /\ c \notin S.task[d].creators
    BY <1>1, <1>3, <1>5, Names DEF Descent
  <2>2. \A p \in S.task[d].creators : p \in Task \ {c}
    BY <2>1, Names DEF Descends
  <2> QED
    BY <1>1, <2>1, <2>2 DEF Descends
<1>7. Descends(R, c)
  <2>1. \A s \in R.task[c].creators : s \in Thread \/ (s \in Explicit /\ s < c)
    <3>1. CASE t \in Thread
      BY <1>2, <1>3, <3>1 DEF Descent
    <3>2. CASE t \in Explicit
      <4>1. Descends(S, t) /\ t < c /\ t \in Nat /\ c \in Nat
        BY <1>3, <3>2, ExplicitFinite DEF Descent
      <4>2. \A s \in S.task[t].creators : s \in Thread \/ (s \in Explicit /\ s < t)
        BY <4>1 DEF Descends
      <4> SUFFICES ASSUME NEW s \in R.task[c].creators, s \notin Thread
                   PROVE  s \in Explicit /\ s < c
        OBVIOUS
      <4>3. s = t \/ (s \in Explicit /\ s < t)
        BY <1>2, <4>2
      <4>4. s \in Explicit /\ s \in Nat
        BY <3>2, <4>3, ExplicitFinite
      <4> QED
        BY <4>1, <4>3, <4>4
    <3> QED
      BY <3>1, <3>2 DEF Task
  <2>2. \A p \in R.task[c].creators : R.task[p].creators \subseteq R.task[c].creators
    <3>1. CASE t \in Thread
      BY <1>1, <1>2, <1>3, <1>4, <3>1 DEF Descent
    <3>2. CASE t \in Explicit
      <4>1. Descends(S, t)
        BY <1>3, <3>2 DEF Descent
      <4>2. \A p \in S.task[t].creators : p \in Task \ {c} /\ S.task[p].creators \subseteq S.task[t].creators
        BY <1>5, <4>1, Names DEF Descends
      <4> QED
        BY <1>1, <1>2, <1>4, <4>2
    <3> QED
      BY <3>1, <3>2 DEF Task
  <2>3. R.task[c].asc # None => R.task[c].asc \in R.task[c].creators
    <3>1. CASE t \in Thread
      BY <1>2, <1>3, <3>1 DEF Descent, AscOf
    <3>2. CASE t \in Explicit
      <4>1. Descends(S, t)
        BY <1>3, <3>2 DEF Descent
      <4>2. S.task[t].asc # None => S.task[t].asc \in S.task[t].creators
        BY <4>1 DEF Descends
      <4> QED
        BY <1>2, <4>2 DEF AscOf
    <3> QED
      BY <3>1, <3>2 DEF Task
  <2> QED
    BY <1>2, <2>1, <2>2, <2>3 DEF Descends
<1>8. \A h \in Thread : R.task[h].creators = {} /\ R.task[h].asc = None
  BY <1>1, <1>3, Names DEF Descent
<1> QED
  BY <1>6, <1>7, <1>8 DEF Descent

(* The creation of a task keeps the structure.                             *)
LEMMA NewStructure ==
  ASSUME NEW S, NEW R, NEW t \in Task, NEW c \in Explicit, News(S, R, t, c, "WAITING")
  PROVE  Structure(R) /\ Stay(S, R)
<1>1. Chains(R, {})
  BY NewChains
<1>2. Lists(R) /\ OneLine(R)
  BY NewLists
<1>3. Descent(R)
  BY NewDescent
<1>4. Stay(S, R)
  <2>1. \A h \in Thread : Tied(R, h) = Tied(S, h)
    BY NewTied
  <2> QED
    BY <2>1 DEF Stay
<1> QED
  BY <1>1, <1>2, <1>3, <1>4 DEF Structure

(* On h, n runs on top of the tied t or in the place of the untied t.      *)
OnHere(S, R, h, t, n) ==
  On(R, h) = (IF S.task[t].type = "TIED" THEN On(S, h) ELSE On(S, h) \ {t}) \cup {n}

(* t has been suspended for n.                                             *)
Suspends(S, R, h, t, n, k) ==
  /\ S \in StateRec /\ Chains(S, {n}) /\ S.thr[h].task = t /\ InStep(S, {})
  /\ SuspEffect(S, R, h, t, n, k)

(* Suspending t for a task that was on no chain keeps the chains.          *)
LEMMA SuspendsChains ==
  ASSUME NEW S, NEW R, NEW h \in Thread, NEW t \in Task, NEW n \in Explicit, NEW k,
         Suspends(S, R, h, t, n, k)
  PROVE  Chains(R, {}) /\ OnHere(S, R, h, t, n) /\ OnElse(S, R, h)
<1>1. /\ S \in StateRec /\ Chains(S, {n}) /\ S.thr[h].task = t /\ InStep(S, {})
      /\ SuspEffect(S, R, h, t, n, k)
  BY DEF Suspends
<1>2. Chains(R, {})
  BY <1>1, SuspChains
<1>3. OnElse(S, R, h)
  BY <1>1, SuspChains
<1>4. On(R, h) = (IF S.task[t].type = "TIED" THEN On(S, h) ELSE On(S, h) \ {t}) \cup {n}
  BY <1>1, SuspChains
<1> QED
  BY <1>2, <1>3, <1>4 DEF OnHere

(* Work-first: the new task c runs at once in the place of t.              *)
LEMMA FirstStructure ==
  ASSUME NEW S, NEW S1, NEW R, NEW h \in Thread, NEW t \in Task, NEW c \in Explicit,
         News(S, S1, t, c, "TIED"), InStep(S1, {}), S.thr[h].task = t,
         S.task[t].type = "UNTIED", Fits(S1, h, c),
         SuspEffect(S1, R, h, t, c, FALSE)
  PROVE  Structure(R) /\ Stay(S, R)
<1>1. Chains(S1, {c})
  BY NewChains
<1>2. \A g \in Thread : On(S1, g) = On(S, g) /\ c \notin On(S, g)
  BY NewOn
<1>3. S1 \in StateRec /\ S1.thr[h].task = t
  BY DEF News, CreateEffect
<1>4. /\ Chains(R, {})
      /\ On(R, h) = (IF S1.task[t].type = "TIED" THEN On(S1, h) ELSE On(S1, h) \ {t}) \cup {c}
      /\ \A g \in Thread \ {h} : On(R, g) = On(S1, g)
  <2>1. Suspends(S1, R, h, t, c, FALSE)
    BY <1>1, <1>3 DEF Suspends
  <2> QED
    <3>1. OnElse(S1, R, h) /\ OnHere(S1, R, h, t, c) /\ Chains(R, {})
      BY <2>1, SuspendsChains
    <3> QED
      BY <3>1 DEF OnElse, OnHere
<1>5. \A d \in Task : SuspRec(S1, R, h, t, FALSE, d)
  BY DEF SuspEffect
<1>6. Lands(S1, R, h, t, c)
  <2>1. \A g \in Thread \ {h} : On(R, g) = On(S1, g) \ {c}
    BY <1>2, <1>4
  <2>2. Inserted(S1, R, h, t, c) /\ \A g \in Thread \ {h} : R.thr[g].last = S1.thr[g].last
    BY DEF SuspEffect
  <2>3. \A d \in Task : /\ R.task[d].creators = S1.task[d].creators /\ R.task[d].type = S1.task[d].type
                        /\ R.task[d].parent = S1.task[d].parent /\ R.task[d].asc = S1.task[d].asc
                        /\ R.task[d].kind = "none" => S1.task[d].kind = "none"
    BY <1>5 DEF SuspRec, SameStatic, SuspKind
  <2> QED
    BY <1>4, <2>1, <2>2, <2>3 DEF Lands
<1>7. MayLand(S1, {c}, h, t, c)
  <2>1. Lists(S1) /\ OneLine(S1)
    BY NewLists
  <2>2. Descent(S1)
    BY NewDescent
  <2>3. S1.task[t].kind # "IMPLICIT"
    <3>1. S.task[t].kind # "IMPLICIT"
      BY DEF News, InStep, Alone, Task
    <3>2. t # c /\ \A d \in Task \ {c} : S1.task[d] = S.task[d]
      BY ExplicitFinite DEF News, CreateEffect
    <3> QED
      BY <3>1, <3>2
  <2>4. \A g \in Thread \ {h} : c \notin On(S1, g)
    BY <1>2
  <2> QED
    BY <1>1, <2>1, <2>2, <2>3, <2>4 DEF MayLand
<1>8. Structure(R) /\ Stay(S1, R)
  BY <1>4, <1>6, <1>7, LandStructure
<1>9. \A g \in Thread : Tied(S1, g) = Tied(S, g)
  BY NewTied
<1> QED
  BY <1>8, <1>9 DEF Stay

(* Where a thread is in the barrier.                                       *)
BarrierLabels == {"bwait", "bsleep", "bloop", "brun"}

(* The threads that run a task of gomp_barrier_handle_tasks.               *)
RunSet(S) == {h \in Thread : S.task[h].pc = "brun"}

(* Children are in the queue of their parent until they end; tasks are     *)
(* created in the order of their numbers; only a thread's own task is in   *)
(* the barrier, and not in a taskwait there.                               *)
Linked(S) ==
  /\ \A t \in Explicit : S.task[t].parent # None => S.task[t].child # "out"
  /\ \A c, d \in Explicit : c < d /\ S.task[c].kind = "none" => S.task[d].kind = "none"
  /\ \A h \in Thread : S.task[h].tw => S.task[h].pc \in {"wait", "poll", "try"}
  /\ \A t \in Explicit : S.task[t].pc \notin BarrierLabels

(* The lock names the task inside the critical section.                    *)
Exclusive(S) == \A t \in Task : S.task[t].pc = "critical" => S.team.lock = t

(* What the barrier counts.                                                *)
Barrier(S) ==
  /\ S.team.count = Cardinality(LiveIn(S))
  /\ S.team.running = Cardinality(RunSet(S))
  /\ \A h \in Thread : h \in S.team.arrived <=> S.task[h].pc \in BarrierLabels
  /\ S.team.waiting => S.team.arrived = Thread
  /\ S.team.over => S.team.count = 0 /\ S.team.arrived = Thread

(* The tasks do what the program allows.                                   *)
Program(S) ==
  /\ \A t \in LiveIn(S) : S.task[t].type \in Types
  /\ \A t \in Task : S.task[t].done \subseteq Ops
  /\ \A t \in Task : S.task[t].pc \in {"trylock", "contend"} => "critical" \in Ops
  /\ S.team.fault => "TIED" \in Types /\ "critical" \in Ops

(* Those facts together.                                                   *)
Facts(S) == Linked(S) /\ Exclusive(S) /\ Barrier(S) /\ Program(S)

(* What leaves these facts alone.                                          *)
Quiet(T, U) ==
  /\ U.type = T.type /\ U.parent = T.parent /\ (U.child = "out" <=> T.child = "out")
  /\ U.kind = "none" <=> T.kind = "none"
  /\ U.kind = "freed" <=> T.kind = "freed"
  /\ U.tw = T.tw /\ U.done = T.done
  /\ U.pc = T.pc \/ (T.pc = "bsleep" /\ U.pc = "bwait")

(* Two such changes in a row.                                              *)
LEMMA QuietTwice ==
  ASSUME NEW T, NEW U, NEW V, Quiet(T, U), Quiet(U, V)
  PROVE  Quiet(T, V)
BY DEF Quiet

(* A change of the queues alone keeps these facts.                         *)
LEMMA FactsFrame ==
  ASSUME NEW S, NEW R, Facts(S), \A c \in Task : Quiet(S.task[c], R.task[c]),
         R.team.count = S.team.count, R.team.running = S.team.running,
         R.team.arrived = S.team.arrived, R.team.waiting = S.team.waiting,
         R.team.over = S.team.over, R.team.lock = S.team.lock, R.team.fault = S.team.fault
  PROVE  Facts(R)
<1>1. \A c \in Explicit : Quiet(S.task[c], R.task[c])
  BY Names
<1>2. \A h \in Thread : Quiet(S.task[h], R.task[h])
  BY Names
<1>3. LiveIn(R) = LiveIn(S)
  <2>1. \A c \in Explicit : R.task[c].kind \notin {"none", "freed"} <=> S.task[c].kind \notin {"none", "freed"}
    BY <1>1 DEF Quiet
  <2> QED
    BY <2>1 DEF LiveIn
<1>4. RunSet(R) = RunSet(S)
  <2>1. \A h \in Thread : R.task[h].pc = "brun" <=> S.task[h].pc = "brun"
    BY <1>2 DEF Quiet
  <2> QED
    BY <2>1 DEF RunSet
<1>5. Linked(R)
  <2>0. Linked(S)
    BY DEF Facts
  <2>1. \A t \in Explicit : R.task[t].parent # None => R.task[t].child # "out"
    BY <2>0, <1>1 DEF Linked, Quiet
  <2>2. \A c, d \in Explicit : c < d /\ R.task[c].kind = "none" => R.task[d].kind = "none"
    BY <2>0, <1>1 DEF Linked, Quiet
  <2>3. \A h \in Thread : R.task[h].tw => R.task[h].pc \in {"wait", "poll", "try"}
    BY <2>0, <1>2 DEF Linked, Quiet
  <2>4. \A t \in Explicit : R.task[t].pc \notin BarrierLabels
    BY <2>0, <1>1 DEF Linked, Quiet, BarrierLabels
  <2> QED
    BY <2>1, <2>2, <2>3, <2>4 DEF Linked
<1>6. Exclusive(R)
  BY DEF Facts, Exclusive, Quiet
<1>7. Barrier(R)
  <2>1. \A h \in Thread : R.task[h].pc \in BarrierLabels <=> S.task[h].pc \in BarrierLabels
    BY <1>2 DEF Quiet, BarrierLabels
  <2> QED
    BY <1>3, <1>4, <2>1 DEF Facts, Barrier
<1>8. Program(R)
  <2>1. \A t \in LiveIn(S) : R.task[t].type = S.task[t].type
    BY <1>1 DEF Quiet, LiveIn
  <2>2. \A t \in Task : R.task[t].done = S.task[t].done
    BY DEF Quiet
  <2>3. \A t \in Task : R.task[t].pc \in {"trylock", "contend"} => S.task[t].pc \in {"trylock", "contend"}
    BY DEF Quiet
  <2> QED
    BY <1>3, <2>1, <2>2, <2>3 DEF Facts, Program
<1> QED
  BY <1>5, <1>6, <1>7, <1>8 DEF Facts

(* Picking, suspending and waking are quiet.                               *)
LEMMA SwitchFacts ==
  ASSUME NEW S, NEW S1, NEW S2, NEW R, NEW h, NEW t \in Task, NEW n \in Explicit, NEW k,
         InStep(S, {}), Facts(S), Pickable(S, n), PreEffect(S, S1, n),
         S1.task[t].kind \in {"IMPLICIT", "TIED"},
         SuspEffect(S1, S2, h, t, n, k), WakeEffect(S2, R)
  PROVE  Facts(R)
<1>1. \A c \in Task : Quiet(S.task[c], S1.task[c])
  BY DEF PreEffect, PreRec, SameStatic, Quiet, Pickable
<1>2. \A c \in Task : Quiet(S1.task[c], S2.task[c])
  BY DEF SuspEffect, SuspRec, SameStatic, Quiet, SuspKind
<1>3. \A c \in Task : Quiet(S2.task[c], R.task[c])
  <2>1. \A c \in Explicit : Quiet(S2.task[c], R.task[c])
    BY DEF WakeEffect, Quiet
  <2>2. \A g \in Thread : Quiet(S2.task[g], R.task[g])
    BY DEF WakeEffect, Awoken, SameButRun, Quiet
  <2> QED
    BY <2>1, <2>2 DEF Task
<1>4. \A c \in Task : Quiet(S.task[c], R.task[c])
  BY <1>1, <1>2, <1>3, QuietTwice
<1>5. /\ R.team.count = S.team.count /\ R.team.running = S.team.running
      /\ R.team.arrived = S.team.arrived /\ R.team.waiting = S.team.waiting
      /\ R.team.over = S.team.over /\ R.team.lock = S.team.lock /\ R.team.fault = S.team.fault
  BY DEF PreEffect, SuspEffect, WakeEffect, SameTeam
<1> QED
  BY <1>4, <1>5, FactsFrame

(* What every step keeps, but for the parked contenders.                   *)
Core(S) == InStep(S, {}) /\ Structure(S) /\ Facts(S)

(* A tied task that stays in each of two steps stays.                      *)
LEMMA StayTwice ==
  ASSUME NEW S, NEW R, NEW Q, Stay(S, R), Stay(R, Q),
         \A c \in Explicit : R.task[c].kind = "freed" => Q.task[c].kind = "freed"
  PROVE  Stay(S, Q)
<1>1. \A h \in Thread : Tied(S, h) \subseteq Explicit
  BY DEF Tied
<1> QED
  BY <1>1 DEF Stay

(* The task a thread runs.                                                 *)
Runs(S, h, t) == Core(S) /\ S.thr[h].task = t

(* What is known of the running task.                                      *)
LEMMA RunsTask ==
  ASSUME NEW S, NEW h \in Thread, NEW t, Runs(S, h, t)
  PROVE  /\ t \in Task /\ (t = h \/ t \in Explicit)
         /\ S.task[t].kind \in {"IMPLICIT", "TIED"}
         /\ t \in Explicit => S.task[t].kind = "TIED" /\ S.task[t].to \in Task
         /\ S.task[t].type = "UNTIED" => S.task[t].to \in Task
         /\ S.task[t].parent # None => S.task[t].child # "out"
         /\ S.task[t].tw => S.task[t].pc \in {"wait", "poll", "try"}
<1>1. S \in StateRec /\ Chains(S, {}) /\ t = S.thr[h].task
  BY DEF Runs, Core, InStep, Structure
<1>2. t \in Task /\ (t = h \/ t \in Explicit) /\ (t \in Explicit => Below(S, h, t))
  BY <1>1, Current
<1>3. /\ S.task[h].kind = "IMPLICIT" /\ S.task[h].type = "TIED" /\ S.task[h].parent = None
      /\ S.task[h].tw => S.task[h].pc \in {"wait", "poll", "try"}
      /\ h \notin Explicit
  BY Names DEF Runs, Core, InStep, Facts, Linked
<1>4. CASE t = h
  BY <1>2, <1>3, <1>4
<1>5. CASE t \in Explicit
  <2>1. S.task[t].kind = "TIED" /\ S.task[t].to \in Task
    BY <1>2, <1>5 DEF Below
  <2>2. S.task[t].parent # None => S.task[t].child # "out"
    BY <1>5 DEF Runs, Core, Facts, Linked
  <2>3. S.task[t].tw => S.task[t].pc \in {"wait", "poll", "try"}
    BY <1>5 DEF Runs, Core, InStep, Alone
  <2> QED
    BY <1>2, <1>5, <2>1, <2>2, <2>3
<1> QED
  BY <1>2, <1>4, <1>5

(* A picked suspended task is on the chain of its thread.                  *)
LEMMA PickedTo ==
  ASSUME NEW S, NEW h \in Thread, NEW n, Core(S), Pick(S, h, n), S.task[n].kind = "TIED_SUSPENDED"
  PROVE  S.task[n].to \in Task
<1>1. n \in Explicit /\ n \in On(S, h) /\ n # h
  BY Names DEF Pick, On
<1>2. Chain(h, On(S, h), S.thr[h].task, To(S), From(S))
  BY DEF Core, Structure, Chains
<1>3. To(S)[n] \in On(S, h)
  BY <1>1, <1>2 DEF Chain
<1>4. To(S)[n] = S.task[n].to
  BY <1>1, Names DEF To
<1> QED
  BY <1>3, <1>4, OnTasks

(* A switch keeps the structure and the facts, and moves no tied task.     *)
LEMMA SwitchStays ==
  ASSUME NEW S, NEW R, NEW h \in Thread, NEW t \in Task, NEW n \in Explicit, NEW k,
         Runs(S, h, t), Pick(S, h, n), SwitchEffect(S, R, h, t, n, k)
  PROVE  Structure(R) /\ Facts(R) /\ Stay(S, R)
<1>1. PICK S1, S2 : /\ InStep(S1, {}) /\ PreEffect(S, S1, n)
                    /\ InStep(S2, {}) /\ SuspEffect(S1, S2, h, t, n, k)
                    /\ WakeEffect(S2, R)
  BY DEF SwitchEffect
<1>2. InStep(S, {}) /\ Structure(S) /\ Facts(S) /\ S.thr[h].task = t
  BY DEF Runs, Core
<1>3. Structure(S2) /\ Stay(S, S2)
  BY <1>1, <1>2, SwitchStructure
<1>4. Structure(R) /\ Stay(S2, R)
  <2>1. \A c \in Explicit : SameStructure(S2.task[c], R.task[c])
    BY <1>1 DEF WakeEffect, SameStructure
  <2>2. \A g \in Thread : SameStructure(S2.task[g], R.task[g])
    BY <1>1 DEF WakeEffect, Awoken, SameButRun, SameStructure
  <2>3. \A c \in Task : SameStructure(S2.task[c], R.task[c])
    BY <2>1, <2>2 DEF Task
  <2>4. R.thr = S2.thr
    BY <1>1 DEF WakeEffect
  <2> QED
    BY <1>3, <2>3, <2>4, StructureFrame
<1>5. Stay(S, R)
  <2>1. \A c \in Explicit : S2.task[c].kind = "freed" => R.task[c].kind = "freed"
    BY <1>1 DEF WakeEffect
  <2> QED
    BY <1>3, <1>4, <2>1, StayTwice
<1>6. Facts(R)
  <2>1. Pickable(S, n)
    BY DEF Pick
  <2>2. S.task[t].kind \in {"IMPLICIT", "TIED"}
    BY RunsTask
  <2>3. S1.task[t].kind \in {"IMPLICIT", "TIED"}
    BY <1>1, <2>2 DEF PreEffect
  <2> QED
    BY <1>1, <1>2, <2>1, <2>3, SwitchFacts
<1> QED
  BY <1>4, <1>5, <1>6

(* A switch keeps all of it.                                               *)
LEMMA SwitchCore ==
  ASSUME NEW S, NEW h \in Thread, NEW t \in Task, NEW n \in Explicit, NEW k \in BOOLEAN,
         Runs(S, h, t), Pick(S, h, n), k => S.task[t].pc = "contend",
         NEW R \in Switch(S, h, t, n, k)
  PROVE  Core(R) /\ Stay(S, R) /\ SwitchEffect(S, R, h, t, n, k)
<1>1. InStep(R, {}) /\ SwitchEffect(S, R, h, t, n, k)
  <2>1. InStep(S, {}) /\ Pickable(S, n)
    BY DEF Runs, Core, Pick
  <2>2. /\ S.task[t].kind \in {"IMPLICIT", "TIED"}
        /\ S.task[t].type = "UNTIED" => S.task[t].to \in Task
        /\ S.task[t].parent # None => S.task[t].child # "out"
    BY RunsTask
  <2>3. S.task[n].kind = "TIED_SUSPENDED" => S.task[n].to \in Task
    BY PickedTo DEF Runs
  <2> QED
    BY <2>1, <2>2, <2>3, SwitchInStep
<1>2. Structure(R) /\ Facts(R) /\ Stay(S, R)
  BY <1>1, SwitchStays
<1> QED
  BY <1>1, <1>2 DEF Core

(* A task parked in front of the critical section, and who will wake it.   *)
Wakes(S, t) ==
  \/ S.task[t].pc = "unlocked"
  \/ S.task[t].pc \in {"trylock", "contend"} /\ S.task[t].lq = "out"

(* A parked contender has a waker.                                         *)
Waker(S) ==
  (\E t \in Explicit : S.task[t].lq = "list") =>
    S.team.lock # None \/ \E t \in Task : Wakes(S, t)

(* A waker that still is one.                                              *)
LEMMA WakerFrame ==
  ASSUME NEW S, NEW R, Waker(S), R.team.lock = S.team.lock,
         \A c \in Task : R.task[c].lq = S.task[c].lq /\ (Wakes(S, c) => Wakes(R, c))
  PROVE  Waker(R)
<1>1. \A c \in Explicit : R.task[c].lq = S.task[c].lq
  BY Names
<1> QED
  BY <1>1 DEF Waker

(* A switch loses no waker: a task parks only while the lock is held.      *)
LEMMA SwitchWaker ==
  ASSUME NEW S, NEW R, NEW h, NEW t \in Task, NEW n \in Explicit, NEW k \in BOOLEAN,
         SwitchEffect(S, R, h, t, n, k), Waker(S), k => S.team.lock # None
  PROVE  Waker(R)
<1>1. PICK S1, S2 : /\ PreEffect(S, S1, n) /\ SuspEffect(S1, S2, h, t, n, k) /\ WakeEffect(S2, R)
  BY DEF SwitchEffect
<1>2. R.team.lock = S.team.lock
  BY <1>1 DEF PreEffect, SuspEffect, WakeEffect, SameTeam
<1>3. CASE k
  BY <1>2, <1>3 DEF Waker
<1>4. CASE ~k
  <2>1. \A c \in Task : S1.task[c].lq = S.task[c].lq /\ S1.task[c].pc = S.task[c].pc
    BY <1>1 DEF PreEffect, PreRec, SameStatic
  <2>2. \A c \in Task : S2.task[c].lq = S1.task[c].lq /\ S2.task[c].pc = S1.task[c].pc
    BY <1>1, <1>4 DEF SuspEffect, SuspRec, SameStatic
  <2>3. \A c \in Explicit : R.task[c].lq = S2.task[c].lq /\ R.task[c].pc = S2.task[c].pc
    BY <1>1 DEF WakeEffect
  <2>4. \A g \in Thread : R.task[g].lq = S2.task[g].lq /\ (R.task[g].pc = S2.task[g].pc \/ S2.task[g].pc = "bsleep")
    BY <1>1 DEF WakeEffect, Awoken, SameButRun
  <2>5. \A c \in Task : R.task[c].lq = S.task[c].lq /\ (R.task[c].pc = S.task[c].pc \/ S.task[c].pc = "bsleep")
    BY <2>1, <2>2, <2>3, <2>4 DEF Task
  <2>6. \A c \in Task : R.task[c].lq = S.task[c].lq /\ (Wakes(S, c) => Wakes(R, c))
    BY <2>5 DEF Wakes
  <2> QED
    BY <1>2, <2>6, WakerFrame
<1> QED
  BY <1>3, <1>4

(* A step of the running task t that leaves the queues alone.              *)
Acts(S, R, t) ==
  /\ RunStep(S, R, t)
  /\ R.task[t].tw => R.task[t].pc \in {"wait", "poll", "try"}
  /\ S.task[t].pc \notin BarrierLabels /\ R.task[t].pc \notin BarrierLabels
  /\ R.task[t].done \subseteq Ops
  /\ R.task[t].pc \in {"trylock", "contend"} => "critical" \in Ops
  /\ R.task[t].pc = "critical" => R.team.lock = t
  /\ R.team.lock = S.team.lock \/ S.team.lock = None \/ S.task[t].pc = "critical"

(* Such a step keeps the facts ...                                         *)
LEMMA ActsFacts ==
  ASSUME NEW S, NEW R, NEW t \in Task, S.task[t].kind \in {"IMPLICIT", "TIED"}, Facts(S), Acts(S, R, t)
  PROVE  Facts(R)
<1>1. /\ \A c \in Task \ {t} : R.task[c] = S.task[c]
      /\ SameButRun(S.task[t], R.task[t])
      /\ R.team.count = S.team.count /\ R.team.running = S.team.running
      /\ R.team.arrived = S.team.arrived /\ R.team.waiting = S.team.waiting
      /\ R.team.over = S.team.over /\ R.team.fault = S.team.fault
  BY DEF Acts, RunStep
<1>2. \A c \in Task : /\ R.task[c].kind = S.task[c].kind /\ R.task[c].type = S.task[c].type
                      /\ R.task[c].parent = S.task[c].parent /\ R.task[c].child = S.task[c].child
  BY <1>1 DEF SameButRun
<1>3. \A c \in Explicit : /\ R.task[c].kind = S.task[c].kind /\ R.task[c].type = S.task[c].type
                          /\ R.task[c].parent = S.task[c].parent /\ R.task[c].child = S.task[c].child
  BY <1>2, Names
<1>4. LiveIn(R) = LiveIn(S)
  BY <1>3 DEF LiveIn
<1>5. \A h \in Thread : R.task[h].pc \in BarrierLabels <=> S.task[h].pc \in BarrierLabels
  BY <1>1, Names DEF Acts
<1>6. RunSet(R) = RunSet(S)
  <2>1. \A h \in Thread : R.task[h].pc = "brun" <=> S.task[h].pc = "brun"
    BY <1>1, Names DEF Acts, BarrierLabels
  <2> QED
    BY <2>1 DEF RunSet
<1>7. Linked(R)
  <2>0. Linked(S)
    BY DEF Facts
  <2>1. \A c \in Explicit : R.task[c].parent # None => R.task[c].child # "out"
    BY <2>0, <1>3 DEF Linked
  <2>2. \A c, d \in Explicit : c < d /\ R.task[c].kind = "none" => R.task[d].kind = "none"
    BY <2>0, <1>3 DEF Linked
  <2>3. \A h \in Thread : R.task[h].tw => R.task[h].pc \in {"wait", "poll", "try"}
    BY <2>0, <1>1, Names DEF Linked, Acts
  <2>4. \A c \in Explicit : R.task[c].pc \notin BarrierLabels
    BY <2>0, <1>1, Names DEF Linked, Acts
  <2> QED
    BY <2>1, <2>2, <2>3, <2>4 DEF Linked
<1>8. Exclusive(R)
  <2>1. \A c \in Task : S.task[c].pc = "critical" => S.team.lock = c
    BY DEF Facts, Exclusive
  <2> SUFFICES ASSUME NEW c \in Task, R.task[c].pc = "critical" PROVE R.team.lock = c
    BY DEF Exclusive
  <2>2. CASE c = t
    BY <2>2 DEF Acts
  <2>3. CASE c # t
    <3>1. S.task[c].pc = "critical" /\ S.team.lock = c /\ c # None
      BY <1>1, <2>1, <2>3, Names
    <3> QED
      BY <2>1, <2>3, <3>1 DEF Acts
  <2> QED
    BY <2>2, <2>3
<1>9. Barrier(R)
  BY <1>1, <1>4, <1>5, <1>6 DEF Facts, Barrier
<1>10. Program(R)
  <2>0. Program(S)
    BY DEF Facts
  <2>1. \A c \in LiveIn(S) : R.task[c].type = S.task[c].type
    BY <1>3 DEF LiveIn
  <2>2. \A c \in Task : R.task[c].done \subseteq Ops
    BY <2>0, <1>1 DEF Program, Acts
  <2>3. \A c \in Task : R.task[c].pc \in {"trylock", "contend"} => "critical" \in Ops
    BY <2>0, <1>1 DEF Program, Acts
  <2> QED
    BY <2>0, <1>1, <1>4, <2>1, <2>2, <2>3 DEF Program
<1> QED
  BY <1>7, <1>8, <1>9, <1>10 DEF Facts

(* ... and all the rest.                                                   *)
LEMMA ActsCore ==
  ASSUME NEW S, NEW R, NEW h \in Thread, NEW t \in Task, Runs(S, h, t), Acts(S, R, t)
  PROVE  Runs(R, h, t) /\ Stay(S, R)
<1>1. InStep(S, {}) /\ Structure(S) /\ Facts(S) /\ S.thr[h].task = t
  BY DEF Runs, Core
<1>2. S.task[t].kind \in {"IMPLICIT", "TIED"}
  BY RunsTask
<1>3. RunStep(S, R, t) /\ (R.task[t].tw => R.task[t].pc \in {"wait", "poll", "try"})
  BY DEF Acts
<1>4. InStep(R, {})
  BY <1>1, <1>2, <1>3, RunInStep
<1>5. Structure(R) /\ Stay(S, R)
  <2>1. R.thr = S.thr /\ \A c \in Task : SameStructure(S.task[c], R.task[c])
    BY <1>3 DEF RunStep, SameButRun, SameStructure
  <2> QED
    BY <1>1, <2>1, StructureFrame
<1>6. Facts(R)
  BY <1>1, <1>2, ActsFacts
<1>7. R.thr[h].task = t
  BY <1>1, <1>3 DEF RunStep
<1> QED
  BY <1>4, <1>5, <1>6, <1>7 DEF Runs, Core

(* One task of the locked queue may run again.                             *)
LEMMA HandleLockingCore ==
  ASSUME NEW S, NEW c \in Explicit, Core(S), S.task[c].lq = "list",
         NEW R, R = HandleLocking(S, c)
  PROVE  Core(R) /\ Stay(S, R) /\ Waker(R)
<1>1. InStep(S, {}) /\ Structure(S) /\ Facts(S)
  BY DEF Core
<1>2. InStep(R, {}) /\ UnlockEffect(S, R, c)
  BY <1>1, HandleLockingInStep
<1>3. Structure(R) /\ Stay(S, R)
  <2>1. R.thr = S.thr /\ \A d \in Task : SameStructure(S.task[d], R.task[d])
    BY <1>2 DEF UnlockEffect, SameLq, SameStatic, SameStructure
  <2> QED
    BY <1>1, <2>1, StructureFrame
<1>4. Facts(R)
  <2>1. \A d \in Task : Quiet(S.task[d], R.task[d])
    BY <1>2 DEF UnlockEffect, SameLq, SameStatic, Quiet
  <2>2. /\ R.team.count = S.team.count /\ R.team.running = S.team.running
        /\ R.team.arrived = S.team.arrived /\ R.team.waiting = S.team.waiting
        /\ R.team.over = S.team.over /\ R.team.lock = S.team.lock /\ R.team.fault = S.team.fault
    BY <1>2 DEF UnlockEffect, SameTeam
  <2> QED
    BY <1>1, <2>1, <2>2, FactsFrame
<1>5. Waker(R)
  <2>1. S.task[c].pc = "contend"
    BY <1>1 DEF InStep, Alone
  <2>2. R.task[c].pc = "contend" /\ R.task[c].lq = "out" /\ c \in Task
    BY <1>2, <2>1, Names DEF UnlockEffect, SameLq, SameStatic
  <2> QED
    BY <2>2 DEF Waker, Wakes
<1> QED
  BY <1>2, <1>3, <1>4, <1>5 DEF Core

(* The end of n frees one live task.                                       *)
LEMMA EndFacts ==
  ASSUME NEW S, NEW R, NEW h \in Thread, NEW t \in Task, NEW n \in Explicit,
         InStep(S, {}), Facts(S), S.task[n].kind = "TIED", EndEffect(S, R, h, t, n)
  PROVE  Facts(R) /\ R.team.over = FALSE
<1>1. \A c \in Task \ {n} : EndRec(S, R, t, n, c)
  BY DEF EndEffect
<1>2. R.task[n] = Freed
  BY DEF EndEffect
<1>3. \A c \in Explicit \ {n} : EndRec(S, R, t, n, c)
  BY <1>1, Names
<1>4. \A g \in Thread : EndRec(S, R, t, n, g) /\ g # n
  BY <1>1, Names
<1>5. Linked(R)
  <2>0. Linked(S)
    BY DEF Facts
  <2>1. \A c \in Explicit : R.task[c].parent # None => R.task[c].child # "out"
    BY <2>0, <1>2, <1>3, BlankRecords DEF Linked, EndRec
  <2>2. \A c \in Explicit : R.task[c].kind = "none" <=> S.task[c].kind = "none"
    BY <1>2, <1>3, BlankRecords DEF EndRec
  <2>3. \A g \in Thread : R.task[g].tw => R.task[g].pc \in {"wait", "poll", "try"}
    BY <2>0, <1>4 DEF Linked, EndRec
  <2>4. \A c \in Explicit : R.task[c].pc \notin BarrierLabels
    BY <2>0, <1>2, <1>3, BlankRecords DEF Linked, EndRec, BarrierLabels
  <2>5. \A c, d \in Explicit : c < d /\ R.task[c].kind = "none" => R.task[d].kind = "none"
    BY <2>0, <2>2 DEF Linked
  <2> QED
    BY <2>1, <2>3, <2>4, <2>5 DEF Linked
<1>6. \A c \in Task : /\ R.task[c].pc = S.task[c].pc \/ R.task[c].pc = "run"
                      /\ R.task[c].done = S.task[c].done \/ R.task[c].done = {}
  BY <1>1, <1>2, BlankRecords DEF EndRec
<1>7. /\ R.team.count = S.team.count - 1 /\ R.team.running = S.team.running
      /\ R.team.arrived = S.team.arrived /\ R.team.waiting = S.team.waiting
      /\ R.team.over = S.team.over /\ R.team.lock = S.team.lock
      /\ R.team.fault => S.team.fault \/ (S.task[t].kind = "TIED_SUSPENDED" /\ S.task[t].pc = "contend")
  BY DEF EndEffect
<1>8. Exclusive(R)
  <2>1. \A c \in Task : S.task[c].pc = "critical" => S.team.lock = c
    BY DEF Facts, Exclusive
  <2> QED
    BY <1>6, <1>7, <2>1 DEF Exclusive
<1>9. n \in LiveIn(S) /\ LiveIn(R) = LiveIn(S) \ {n}
  <2>1. \A c \in Explicit \ {n} : R.task[c].kind \in {"none", "freed"} <=> S.task[c].kind \in {"none", "freed"}
    BY <1>3 DEF EndRec
  <2>2. R.task[n].kind = "freed"
    BY <1>2, BlankRecords
  <2> QED
    BY <2>1, <2>2 DEF LiveIn
<1>10. Barrier(R) /\ R.team.over = FALSE
  <2>0. Barrier(S) /\ S \in StateRec
    BY DEF Facts, InStep
  <2>1. IsFiniteSet(LiveIn(S)) /\ Cardinality(LiveIn(S)) \in Nat
    <3>1. IsFiniteSet(LiveIn(S))
      BY ExplicitFinite, FS_Subset DEF LiveIn
    <3> QED
      BY <3>1, FS_CardinalityType
  <2>2. Cardinality(LiveIn(R)) = Cardinality(LiveIn(S)) - 1 /\ Cardinality(LiveIn(R)) \in Nat
    <3>1. Cardinality(LiveIn(S) \ {n}) = Cardinality(LiveIn(S)) - 1
      BY <1>9, <2>1, FS_RemoveElement
    <3>2. IsFiniteSet(LiveIn(R))
      BY <1>9, <2>1, FS_Subset
    <3>3. Cardinality(LiveIn(R)) \in Nat
      BY <3>2, FS_CardinalityType
    <3> QED
      BY <1>9, <3>1, <3>3
  <2>3. S.team.count # 0
    BY <2>0, <2>1, <2>2 DEF Barrier
  <2>4. S.team.over = FALSE
    BY <2>0, <2>3 DEF Barrier, StateRec, TeamRec
  <2>5. \A g \in Thread : R.task[g].pc = S.task[g].pc
    BY <1>4 DEF EndRec
  <2>6. RunSet(R) = RunSet(S)
    BY <2>5 DEF RunSet
  <2> QED
    BY <1>7, <2>0, <2>2, <2>4, <2>5, <2>6 DEF Barrier
<1>11. Program(R)
  <2>0. Program(S)
    BY DEF Facts
  <2>1. \A c \in LiveIn(R) : c \in LiveIn(S) /\ R.task[c].type = S.task[c].type
    BY <1>3, <1>9 DEF EndRec, LiveIn
  <2>2. \A c \in Task : R.task[c].done \subseteq Ops
    BY <2>0, <1>6 DEF Program
  <2>3. \A c \in Task : R.task[c].pc \in {"trylock", "contend"} => "critical" \in Ops
    BY <2>0, <1>6 DEF Program
  <2>4. R.team.fault => "TIED" \in Types /\ "critical" \in Ops
    <3>1. ASSUME S.task[t].kind = "TIED_SUSPENDED", S.task[t].pc = "contend"
          PROVE  "TIED" \in Types /\ "critical" \in Ops
      <4>1. t \in Explicit
        BY <3>1 DEF InStep, Task
      <4>2. S.task[t].type = "TIED" /\ t \in LiveIn(S)
        BY <3>1, <4>1 DEF InStep, Alone, LiveIn
      <4> QED
        BY <2>0, <3>1, <4>2 DEF Program
    <3> QED
      BY <1>7, <2>0, <3>1 DEF Program
  <2> QED
    BY <2>0, <2>1, <2>2, <2>3, <2>4 DEF Program
<1> QED
  BY <1>5, <1>8, <1>10, <1>11 DEF Facts

(* The thread goes on in gomp_barrier_handle_tasks; the last task of the   *)
(* region ends it.                                                         *)
LEMMA BarrierFacts ==
  ASSUME NEW S, NEW R, NEW h \in Thread, S \in StateRec, Facts(S), S.task[h].pc = "brun",
         BarrierEffect(S, R, h)
  PROVE  Facts(R)
<1>1. /\ \A c \in Task \ {h} : R.task[c] = S.task[c]
      /\ SameButRun(S.task[h], R.task[h]) /\ R.task[h].pc = "bloop"
      /\ R.task[h].tw = S.task[h].tw /\ R.task[h].done = S.task[h].done
  BY DEF BarrierEffect
<1>2. /\ R.team.running = S.team.running - 1 /\ R.team.over = AllTasksDone(S)
      /\ R.team.count = S.team.count /\ R.team.arrived = S.team.arrived
      /\ R.team.waiting = S.team.waiting /\ R.team.lock = S.team.lock
      /\ R.team.fault = S.team.fault
  BY DEF BarrierEffect
<1>3. h \in Task /\ h \notin Explicit
  BY Names
<1>4. \A c \in Explicit : R.task[c] = S.task[c]
  BY <1>1, Names
<1>5. LiveIn(R) = LiveIn(S)
  BY <1>4 DEF LiveIn
<1>6. ~S.task[h].tw
  BY DEF Facts, Linked
<1>7. Linked(R)
  <2>0. Linked(S)
    BY DEF Facts
  <2>1. \A g \in Thread : R.task[g].tw => R.task[g].pc \in {"wait", "poll", "try"}
    BY <2>0, <1>1, <1>6, Names DEF Linked
  <2> QED
    BY <2>0, <2>1, <1>4 DEF Linked
<1>8. Exclusive(R)
  <2>1. \A c \in Task : R.task[c].pc = "critical" => S.task[c].pc = "critical"
    BY <1>1
  <2> QED
    BY <2>1, <1>2 DEF Facts, Exclusive
<1>9. Barrier(R)
  <2>0. Barrier(S)
    BY DEF Facts
  <2>1. IsFiniteSet(RunSet(S)) /\ h \in RunSet(S)
    BY SchedAssumption, FS_Subset DEF RunSet
  <2>2. RunSet(R) = RunSet(S) \ {h}
    <3>1. \A g \in Thread : R.task[g].pc = "brun" <=> S.task[g].pc = "brun" /\ g # h
      BY <1>1, Names
    <3> QED
      BY <3>1 DEF RunSet
  <2>3. Cardinality(RunSet(R)) = Cardinality(RunSet(S)) - 1
    BY <2>1, <2>2, FS_RemoveElement
  <2>4. \A g \in Thread : R.task[g].pc \in BarrierLabels <=> S.task[g].pc \in BarrierLabels
    BY <1>1, Names DEF BarrierLabels
  <2>5. R.team.over => R.team.count = 0 /\ R.team.arrived = Thread
    BY <1>2, <2>0 DEF AllTasksDone, Barrier
  <2> QED
    BY <1>2, <1>5, <2>0, <2>3, <2>4, <2>5 DEF Barrier
<1>10. Program(R)
  <2>1. \A c \in LiveIn(S) : R.task[c].type = S.task[c].type
    BY <1>4 DEF LiveIn
  <2>2. \A c \in Task : R.task[c].done = S.task[c].done
    BY <1>1
  <2>3. \A c \in Task : R.task[c].pc \in {"trylock", "contend"} => S.task[c].pc \in {"trylock", "contend"}
    BY <1>1
  <2> QED
    BY <1>2, <1>5, <2>1, <2>2, <2>3 DEF Facts, Program
<1> QED
  BY <1>7, <1>8, <1>9, <1>10 DEF Facts

(* Task n, which runs on h, may end, and t runs next.                      *)
EndsOn(S, h, t, n) ==
  Runs(S, h, n) /\ n \in Explicit /\ S.task[n].pc = "run" /\ S.task[n].to = t

(* What is known of the task t that is next.                               *)
LEMMA EndsOnTask ==
  ASSUME NEW S, NEW h \in Thread, NEW t, NEW n, EndsOn(S, h, t, n)
  PROVE  /\ t \in Task /\ S.task[t].from = n /\ S.task[n].kind = "TIED"
         /\ S.task[t].kind \in {"IMPLICIT", "TIED_SUSPENDED"}
         /\ S.task[n].parent # None => S.task[n].child # "out"
         /\ S.task[t].pc = "brun" => t = h /\ ~S.task[t].tw
<1>1. S \in StateRec /\ Chains(S, {}) /\ n = S.thr[h].task /\ n \in Explicit
  BY DEF EndsOn, Runs, Core, InStep, Structure
<1>2. Below(S, h, n)
  BY <1>1, Current
<1>3. t = S.task[n].to /\ Runs(S, h, n)
  BY DEF EndsOn
<1>4. t \in Task /\ S.task[t].from = n /\ S.task[n].kind = "TIED"
  BY <1>2, <1>3 DEF Below
<1>5. t # h => t \in Explicit /\ S.task[t].kind = "TIED_SUSPENDED"
  BY <1>2, <1>3 DEF Below
<1>6. S.task[h].kind = "IMPLICIT"
  BY <1>3 DEF Runs, Core, InStep
<1>7. S.task[n].parent # None => S.task[n].child # "out"
  BY <1>1, <1>3 DEF Runs, Core, Facts, Linked
<1>8. S.task[t].pc = "brun" => t = h /\ ~S.task[t].tw
  <2>1. t \in Explicit => S.task[t].pc # "brun"
    BY <1>3 DEF Runs, Core, Facts, Linked, BarrierLabels
  <2>2. S.task[h].tw => S.task[h].pc # "brun"
    BY <1>3 DEF Runs, Core, Facts, Linked
  <2> QED
    BY <1>5, <2>1, <2>2
<1> QED
  BY <1>4, <1>5, <1>6, <1>7, <1>8

(* The end of a task loses no waker.                                       *)
LEMMA EndsWaker ==
  ASSUME NEW S, NEW R, NEW h, NEW t \in Task, NEW n \in Explicit,
         S.task[n].pc = "run", Waker(S), EndEffect(S, R, h, t, n)
  PROVE  Waker(R)
<1>1. R.team.lock = S.team.lock /\ R.task[n].lq = "out"
  BY BlankRecords DEF EndEffect
<1>2. \A c \in Task \ {n} : R.task[c].pc = S.task[c].pc /\ R.task[c].lq \in {S.task[c].lq, "out"}
  BY DEF EndEffect, EndRec
<1>3. \A c \in Task : Wakes(S, c) => Wakes(R, c)
  BY <1>2 DEF Wakes
<1>4. \A c \in Explicit : R.task[c].lq = "list" => S.task[c].lq = "list"
  BY <1>1, <1>2, Names
<1> QED
  BY <1>1, <1>3, <1>4 DEF Waker

(* The end of a task that lets another one go on keeps all of it.          *)
LEMMA ResumeCore ==
  ASSUME NEW S, NEW h \in Thread, NEW t, NEW n, EndsOn(S, h, t, n), Waker(S), NEW R,
         R = ResumeAfter(S, h, t, n)
  PROVE  Core(R) /\ Stay(S, R) /\ Waker(R)
<1>1. n \in Explicit /\ S.task[n].pc = "run" /\ Core(S) /\ S.thr[h].task = n /\ S.task[n].to = t
  BY DEF EndsOn, Runs
<1>2. /\ t \in Task /\ S.task[n].kind = "TIED"
      /\ S.task[t].kind \in {"IMPLICIT", "TIED_SUSPENDED"}
      /\ S.task[n].parent # None => S.task[n].child # "out"
  BY EndsOnTask
<1>3. InStep(S, {}) /\ Structure(S) /\ Facts(S) /\ Chains(S, {})
  BY <1>1 DEF Core, Structure
<1>4. InStep(R, {}) /\ EndEffect(S, R, h, t, n)
  BY <1>1, <1>2, <1>3, ResumeAfterInStep
<1>5. Ends(S, R, h, t, n)
  BY <1>1, <1>3, <1>4 DEF Ends
<1>6. Structure(R) /\ Stay(S, R)
  <2>1. n \in Explicit /\ t \in Task /\ Structure(S)
    BY <1>1, <1>2, <1>3
  <2> QED
    BY <2>1, <1>5, EndStructure
<1>7. Facts(R)
  <2>1. n \in Explicit /\ t \in Task /\ InStep(S, {}) /\ Facts(S) /\ S.task[n].kind = "TIED"
    BY <1>1, <1>2, <1>3
  <2> QED
    BY <2>1, <1>4, EndFacts
<1>8. Waker(R)
  BY <1>1, <1>2, <1>4, EndsWaker
<1> QED
  BY <1>4, <1>6, <1>7, <1>8 DEF Core

(* So does the end of a task of gomp_barrier_handle_tasks.                 *)
LEMMA BarrierCore ==
  ASSUME NEW S, NEW h \in Thread, NEW t, NEW n, EndsOn(S, h, t, n), S.task[t].pc = "brun",
         Waker(S), NEW R, R = BarrierAfter(S, h, t, n)
  PROVE  Core(R) /\ Stay(S, R) /\ Waker(R)
<1>1. n \in Explicit /\ S.task[n].pc = "run" /\ Core(S) /\ S.thr[h].task = n /\ S.task[n].to = t
  BY DEF EndsOn, Runs
<1>2. /\ t \in Task /\ S.task[n].kind = "TIED" /\ t = h /\ ~S.task[t].tw
      /\ S.task[n].parent # None => S.task[n].child # "out"
  BY EndsOnTask
<1>3. InStep(S, {}) /\ Structure(S) /\ Facts(S) /\ Chains(S, {})
  BY <1>1 DEF Core, Structure
<1>4. InStep(R, {}) /\ \E Q : EndEffect(S, Q, h, t, n) /\ BarrierEffect(Q, R, t)
  BY <1>1, <1>2, <1>3, BarrierAfterInStep
<1>5. PICK Q : EndEffect(S, Q, h, t, n) /\ BarrierEffect(Q, R, t)
  BY <1>4
<1>6. Ends(S, Q, h, t, n)
  BY <1>1, <1>3, <1>5 DEF Ends
<1>7. Structure(Q) /\ Stay(S, Q)
  <2>1. n \in Explicit /\ t \in Task /\ Structure(S)
    BY <1>1, <1>2, <1>3
  <2> QED
    BY <2>1, <1>6, EndStructure
<1>8. Facts(Q)
  <2>1. n \in Explicit /\ t \in Task /\ InStep(S, {}) /\ Facts(S) /\ S.task[n].kind = "TIED"
    BY <1>1, <1>2, <1>3
  <2> QED
    BY <2>1, <1>5, EndFacts
<1>9. Q \in StateRec /\ Q.task[h].pc = "brun"
  <2>1. h \in Task \ {n}
    BY <1>1, Names
  <2> QED
    BY <1>2, <1>5, <2>1 DEF EndEffect, EndRec
<1>10. Facts(R)
  BY <1>2, <1>5, <1>8, <1>9, BarrierFacts
<1>11. Structure(R) /\ Stay(Q, R)
  <2>1. R.thr = Q.thr /\ \A c \in Task : SameStructure(Q.task[c], R.task[c])
    BY <1>5 DEF BarrierEffect, SameButRun, SameStructure
  <2> QED
    BY <1>7, <2>1, StructureFrame
<1>12. Stay(S, R)
  <2>1. \A c \in Explicit : Q.task[c].kind = "freed" => R.task[c].kind = "freed"
    BY <1>2, <1>5, Names DEF BarrierEffect
  <2> QED
    BY <1>7, <1>11, <2>1, StayTwice
<1>13. Waker(R)
  <2>1. Waker(Q)
    BY <1>1, <1>2, <1>5, EndsWaker
  <2>2. R.team.lock = Q.team.lock
    BY <1>5 DEF BarrierEffect
  <2>3. \A c \in Task : R.task[c].lq = Q.task[c].lq /\ (Wakes(Q, c) => Wakes(R, c))
    BY <1>2, <1>5, <1>9 DEF BarrierEffect, SameButRun, Wakes
  <2> QED
    BY <2>1, <2>2, <2>3, WakerFrame
<1> QED
  BY <1>4, <1>10, <1>11, <1>12, <1>13 DEF Core

(* A region in which a task runs is not over.                              *)
LEMMA NotOver ==
  ASSUME NEW S, NEW h \in Thread, NEW t, Runs(S, h, t), S.task[t].pc \notin BarrierLabels
  PROVE  ~S.team.over
<1> SUFFICES ASSUME S.team.over PROVE FALSE
  OBVIOUS
<1>1. S.team.count = 0 /\ S.team.arrived = Thread /\ S.team.count = Cardinality(LiveIn(S))
      /\ \A g \in Thread : g \in S.team.arrived <=> S.task[g].pc \in BarrierLabels
  BY DEF Runs, Core, Facts, Barrier
<1>2. IsFiniteSet(LiveIn(S))
  BY ExplicitFinite, FS_Subset DEF LiveIn
<1>3. LiveIn(S) = {}
  BY <1>1, <1>2, FS_EmptySet
<1>4. t = h \/ t \in Explicit
  BY RunsTask
<1>5. t \in Explicit => S.task[t].kind = "TIED"
  BY RunsTask
<1>6. t = h
  BY <1>3, <1>4, <1>5 DEF LiveIn
<1> QED
  BY <1>1, <1>6

(* Task t, running on h, creates c.                                        *)
NewsOn(S, R, h, t, c, k) ==
  /\ Runs(S, h, t) /\ S.task[t].pc = "run" /\ News(S, R, t, c, k)
  /\ R.task[c].type \in Types
  /\ \A d \in Explicit : d < c => S.task[d].kind # "none"

(* The creation of a task keeps the facts.                                 *)
LEMMA NewFacts ==
  ASSUME NEW S, NEW R, NEW h \in Thread, NEW t \in Task, NEW c \in Explicit,
         NEW k \in {"WAITING", "TIED"}, NewsOn(S, R, h, t, c, k)
  PROVE  Facts(R)
<1>0. Facts(S) /\ S \in StateRec
  BY DEF NewsOn, Runs, Core, InStep
<1>1. \A d \in Task \ {c} : R.task[d] = S.task[d]
  BY DEF NewsOn, News, CreateEffect
<1>2. /\ R.team.count = S.team.count + 1 /\ R.team.running = S.team.running
      /\ R.team.arrived = S.team.arrived /\ R.team.waiting = S.team.waiting
      /\ R.team.over = S.team.over /\ R.team.lock = S.team.lock /\ R.team.fault = S.team.fault
  BY DEF NewsOn, News, CreateEffect
<1>3. /\ R.task[c].kind = k /\ R.task[c].child = "list" /\ R.task[c].pc = "run"
      /\ R.task[c].done = {} /\ R.task[c].type \in Types
  BY DEF NewsOn, News, NewRec
<1>4. \A d \in Explicit \ {c} : R.task[d] = S.task[d]
  BY <1>1, Names
<1>5. \A g \in Thread : R.task[g] = S.task[g]
  BY <1>1, Names
<1>6. /\ S.task[c].kind = "none" /\ \A d \in Explicit : d < c => S.task[d].kind # "none"
  BY DEF NewsOn, News
<1>7. Linked(R)
  <2>0. Linked(S)
    BY <1>0 DEF Facts
  <2>1. \A d \in Explicit : R.task[d].parent # None => R.task[d].child # "out"
    BY <2>0, <1>3, <1>4 DEF Linked
  <2>2. \A x, d \in Explicit : x < d /\ R.task[x].kind = "none" => R.task[d].kind = "none"
    <3> SUFFICES ASSUME NEW x \in Explicit, NEW d \in Explicit, x < d, R.task[x].kind = "none"
                 PROVE  R.task[d].kind = "none"
      OBVIOUS
    <3>1. x # c
      BY <1>3
    <3>2. S.task[x].kind = "none"
      BY <1>4, <3>1
    <3>3. d # c
      BY <1>6, <3>2
    <3> QED
      BY <2>0, <1>4, <3>2, <3>3 DEF Linked
  <2>3. \A d \in Explicit : R.task[d].pc \notin BarrierLabels
    BY <2>0, <1>3, <1>4 DEF Linked, BarrierLabels
  <2> QED
    BY <2>0, <2>1, <2>2, <2>3, <1>5 DEF Linked
<1>8. Exclusive(R)
  <2>1. \A d \in Task : R.task[d].pc = "critical" => S.task[d].pc = "critical"
    BY <1>1, <1>3
  <2> QED
    BY <2>1, <1>0, <1>2 DEF Facts, Exclusive
<1>9. Barrier(R)
  <2>0. Barrier(S)
    BY <1>0 DEF Facts
  <2>1. IsFiniteSet(LiveIn(S)) /\ c \notin LiveIn(S)
    BY <1>6, ExplicitFinite, FS_Subset DEF LiveIn
  <2>2. LiveIn(R) = LiveIn(S) \cup {c}
    <3>1. \A d \in Explicit : R.task[d].kind \notin {"none", "freed"} <=>
                                S.task[d].kind \notin {"none", "freed"} \/ d = c
      BY <1>3, <1>4
    <3> QED
      BY <3>1 DEF LiveIn
  <2>3. Cardinality(LiveIn(R)) = Cardinality(LiveIn(S)) + 1
    BY <2>1, <2>2, FS_AddElement
  <2>4. RunSet(R) = RunSet(S)
    BY <1>5 DEF RunSet
  <2>5. ~S.team.over
    <3>1. Runs(S, h, t) /\ S.task[t].pc \notin BarrierLabels
      BY DEF NewsOn, BarrierLabels
    <3> QED
      BY <3>1, NotOver
  <2> QED
    BY <1>2, <1>5, <2>0, <2>3, <2>4, <2>5 DEF Barrier
<1>10. Program(R)
  <2>0. Program(S)
    BY <1>0 DEF Facts
  <2>1. \A d \in LiveIn(R) : R.task[d].type \in Types
    <3> SUFFICES ASSUME NEW d \in LiveIn(R) PROVE R.task[d].type \in Types
      OBVIOUS
    <3>1. CASE d = c
      BY <1>3, <3>1
    <3>2. CASE d # c
      <4>1. d \in LiveIn(S) /\ R.task[d] = S.task[d]
        BY <1>4, <3>2 DEF LiveIn
      <4> QED
        BY <2>0, <4>1 DEF Program
    <3> QED
      BY <3>1, <3>2
  <2>2. \A d \in Task : R.task[d].done \subseteq Ops
    BY <2>0, <1>1, <1>3 DEF Program
  <2>3. \A d \in Task : R.task[d].pc \in {"trylock", "contend"} => "critical" \in Ops
    BY <2>0, <1>1, <1>3 DEF Program
  <2> QED
    BY <2>0, <2>1, <2>2, <2>3, <1>2 DEF Program
<1> QED
  BY <1>7, <1>8, <1>9, <1>10 DEF Facts

(* The creation of a task loses no waker.                                  *)
LEMMA NewWaker ==
  ASSUME NEW S, NEW R, NEW h, NEW t \in Task, NEW c \in Explicit,
         NEW k \in {"WAITING", "TIED"}, NewsOn(S, R, h, t, c, k), Waker(S)
  PROVE  Waker(R)
<1>1. \A d \in Task \ {c} : R.task[d] = S.task[d]
  BY DEF NewsOn, News, CreateEffect
<1>2. R.team.lock = S.team.lock /\ R.task[c].lq = "out" /\ R.task[c].pc = "run"
  BY DEF NewsOn, News, CreateEffect, NewRec
<1>3. S.task[c].lq = "out" /\ S.task[c].pc = "run"
  BY DEF NewsOn, News, InStep, Alone
<1>4. \A d \in Task : R.task[d].lq = S.task[d].lq /\ (Wakes(S, d) => Wakes(R, d))
  BY <1>1, <1>2, <1>3 DEF Wakes
<1> QED
  BY <1>2, <1>4, WakerFrame

(* Waking a thread is quiet.                                               *)
LEMMA WakeCore ==
  ASSUME NEW S, NEW R, Structure(S), Facts(S), Waker(S), WakeEffect(S, R)
  PROVE  Structure(R) /\ Facts(R) /\ Waker(R) /\ Stay(S, R)
<1>1. \A c \in Explicit : R.task[c] = S.task[c]
  BY DEF WakeEffect
<1>2. \A g \in Thread : /\ SameStructure(S.task[g], R.task[g]) /\ Quiet(S.task[g], R.task[g])
                        /\ R.task[g].lq = S.task[g].lq
                        /\ R.task[g].pc = S.task[g].pc \/ S.task[g].pc = "bsleep"
  BY DEF WakeEffect, Awoken, SameButRun, SameStructure, Quiet
<1>3. R.thr = S.thr /\ R.team = S.team
  BY DEF WakeEffect
<1>4. \A c \in Task : SameStructure(S.task[c], R.task[c])
  BY <1>1, <1>2 DEF Task, SameStructure
<1>5. \A c \in Task : Quiet(S.task[c], R.task[c])
  BY <1>1, <1>2 DEF Task, Quiet
<1>6. \A c \in Task : R.task[c].lq = S.task[c].lq /\ (Wakes(S, c) => Wakes(R, c))
  BY <1>1, <1>2 DEF Task, Wakes
<1>7. Structure(R) /\ Stay(S, R)
  BY <1>3, <1>4, StructureFrame
<1>8. Facts(R)
  BY <1>3, <1>5, FactsFrame
<1>9. Waker(R)
  BY <1>3, <1>6, WakerFrame
<1> QED
  BY <1>7, <1>8, <1>9

(* A new task, not yet in the queue of the team.                           *)
Blank(U, k, type, prio, t, asc, creators) ==
  /\ U.kind = k /\ U.type = type /\ U.prio = prio
  /\ U.parent = t /\ U.asc = asc /\ U.creators = creators
  /\ U.blocked = FALSE /\ U.susp = None /\ U.tw = FALSE /\ U.to = None /\ U.from = None
  /\ U.prev = None /\ U.next = None /\ U.child = "list" /\ U.tq = "out"
  /\ U.sq = "out" /\ U.lq = "out" /\ U.pc = "run" /\ U.done = {}

(* The record of a new task.                                               *)
LEMMA NewbornRec ==
  ASSUME NEW S \in StateRec, NEW t \in Task, NEW type \in {"TIED", "UNTIED"}, NEW prio \in Nat
  PROVE  /\ Newborn(S, t, type, prio) \in TaskRec
         /\ Blank(Newborn(S, t, type, prio), "WAITING", type, prio, t, AscOf(S, t),
                  S.task[t].creators \cup {t})
<1>1. AscOf(S, t) \in MaybeTask
  BY DEF AscOf, StateRec, TaskRec, MaybeTask
<1>2. S.task[t].creators \cup {t} \in SUBSET Task /\ S.task[t].inTied \in BOOLEAN
  BY DEF StateRec, TaskRec
<1>3. "WAITING" \in Kinds /\ "list" \in Places /\ "out" \in Places /\ "run" \in Labels
  BY DEF Kinds, Places, Labels
<1>4. t \in MaybeTask /\ None \in MaybeTask
  BY DEF MaybeTask
<1> QED
  BY <1>1, <1>2, <1>3, <1>4 DEF Newborn, InitTask, TaskRec, Blank

(* The new task is added and counted.                                      *)
LEMMA AddTask ==
  ASSUME NEW S \in StateRec, NEW c \in Task, NEW U \in TaskRec
  PROVE  LET R == WithTask(S, c, U)
         IN /\ CreateEffect(S, R, c) /\ R.task[c] = U
            /\ R.team.queued = S.team.queued /\ R.team.pending = S.team.pending
<1> DEFINE Q == [S EXCEPT !.task[c] = U]
<1> DEFINE V == [S.team EXCEPT !.count = S.team.count + 1]
<1> DEFINE R == [Q EXCEPT !.team = V]
<1>1. /\ Q \in StateRec /\ Q.thr = S.thr /\ Q.team = S.team /\ Q.task[c] = U
      /\ \A d \in Task \ {c} : Q.task[d] = S.task[d]
  BY SetTask
<1>2. /\ V \in TeamRec /\ V.count = S.team.count + 1 /\ V.running = S.team.running
      /\ V.arrived = S.team.arrived /\ V.waiting = S.team.waiting
      /\ V.over = S.team.over /\ V.lock = S.team.lock /\ V.fault = S.team.fault
      /\ V.queued = S.team.queued /\ V.pending = S.team.pending
  BY DEF StateRec, TeamRec
<1>3. WithTask(S, c, U) = R
  BY DEF StateRec, TeamRec, WithTask
<1> HIDE DEF Q, V
<1>4. R \in StateRec /\ R.thr = Q.thr /\ R.task = Q.task /\ R.team = V
  BY <1>1, <1>2, SetTeam
<1> HIDE DEF R
<1>5. CreateEffect(S, R, c) /\ R.task[c] = U /\ R.team.queued = S.team.queued /\ R.team.pending = S.team.pending
  BY <1>1, <1>2, <1>4 DEF CreateEffect
<1> QED
  BY <1>3, <1>5

(* The new task, run before its parent goes on.                            *)
LEMMA FirstEffect ==
  ASSUME NEW S \in StateRec, NEW c \in Task, NEW U \in TaskRec,
         NEW type, NEW prio, NEW t, NEW asc, NEW creators,
         Blank(U, "WAITING", type, prio, t, asc, creators)
  PROVE  LET R == [WithTask(S, c, U) EXCEPT !.task[c].kind = "TIED"]
         IN /\ CreateEffect(S, R, c) /\ NewRec(R.task[c], "TIED", type, prio, t, asc, creators)
            /\ R.team.queued = S.team.queued /\ R.team.pending = S.team.pending
<1> DEFINE Q == WithTask(S, c, U)
<1> DEFINE R == [Q EXCEPT !.task[c].kind = "TIED"]
<1> DEFINE W == [U EXCEPT !.kind = "TIED"]
<1> DEFINE P == [Q EXCEPT !.task[c] = W]
<1>1. /\ CreateEffect(S, Q, c) /\ Q.task[c] = U
      /\ Q.team.queued = S.team.queued /\ Q.team.pending = S.team.pending
  BY AddTask
<1>2. Q \in StateRec
  BY <1>1 DEF CreateEffect
<1>3. W \in TaskRec /\ NewRec(W, "TIED", type, prio, t, asc, creators)
  BY DEF TaskRec, Kinds, Blank, NewRec
<1> HIDE DEF Q
<1>4. R = P
  BY <1>1, <1>2 DEF StateRec
<1> HIDE DEF W, R
<1>5. /\ P \in StateRec /\ P.thr = Q.thr /\ P.team = Q.team /\ P.task[c] = W
      /\ \A d \in Task \ {c} : P.task[d] = Q.task[d]
  BY <1>2, <1>3, SetTask
<1> HIDE DEF P
<1>6. /\ CreateEffect(S, P, c) /\ NewRec(P.task[c], "TIED", type, prio, t, asc, creators)
      /\ P.team.queued = S.team.queued /\ P.team.pending = S.team.pending
  BY <1>1, <1>3, <1>5 DEF CreateEffect
<1> QED
  BY <1>4, <1>6 DEF R, Q

(* The new task, put into the queue of the team.                           *)
LEMMA LaterEffect ==
  ASSUME NEW S \in StateRec, NEW c \in Task, NEW U \in TaskRec,
         NEW type, NEW prio, NEW t, NEW asc, NEW creators,
         Blank(U, "WAITING", type, prio, t, asc, creators)
  PROVE  LET R == Queued([WithTask(S, c, U) EXCEPT !.task[c].tq = "list"])
         IN /\ CreateEffect(S, R, c) /\ NewRec(R.task[c], "WAITING", type, prio, t, asc, creators)
            /\ R.team.queued = S.team.queued + 1 /\ R.team.pending
<1> DEFINE Q == WithTask(S, c, U)
<1> DEFINE R == [Q EXCEPT !.task[c].tq = "list"]
<1> DEFINE W == [U EXCEPT !.tq = "list"]
<1> DEFINE P == [Q EXCEPT !.task[c] = W]
<1>1. /\ CreateEffect(S, Q, c) /\ Q.task[c] = U
      /\ Q.team.queued = S.team.queued /\ Q.team.pending = S.team.pending
  BY AddTask
<1>2. Q \in StateRec
  BY <1>1 DEF CreateEffect
<1>3. W \in TaskRec /\ NewRec(W, "WAITING", type, prio, t, asc, creators)
  BY DEF TaskRec, Places, Blank, NewRec
<1> HIDE DEF Q
<1>4. R = P
  BY <1>1, <1>2 DEF StateRec
<1> HIDE DEF W, R
<1>5. /\ P \in StateRec /\ P.thr = Q.thr /\ P.team = Q.team /\ P.task[c] = W
      /\ \A d \in Task \ {c} : P.task[d] = Q.task[d]
  BY <1>2, <1>3, SetTask
<1> HIDE DEF P
<1>6. PICK V \in TeamRec : /\ Queued(P) = [P EXCEPT !.team = V]
                           /\ V.queued = P.team.queued + 1 /\ V.pending /\ SameTeam(P.team, V)
  BY <1>5, QueuedEffect
<1> DEFINE N == [P EXCEPT !.team = V]
<1>7. N \in StateRec /\ N.thr = P.thr /\ N.team = V /\ N.task = P.task
  BY <1>5, SetTeam
<1> HIDE DEF N
<1>8. CreateEffect(S, N, c)
  <2>1. \A d \in Task \ {c} : N.task[d] = S.task[d]
    BY <1>1, <1>5, <1>7 DEF CreateEffect
  <2> QED
    BY <1>1, <1>5, <1>6, <1>7, <2>1 DEF CreateEffect, SameTeam
<1>9. /\ NewRec(N.task[c], "WAITING", type, prio, t, asc, creators)
      /\ N.team.queued = S.team.queued + 1 /\ N.team.pending
  BY <1>1, <1>3, <1>5, <1>6, <1>7
<1>10. Queued(R) = N
  BY <1>4, <1>6 DEF N
<1> QED
  BY <1>8, <1>9, <1>10 DEF R, Q

(* Task t, which runs on h, may create c.                                  *)
MayCreate(S, h, t, c, type, prio) ==
  /\ Runs(S, h, t) /\ Waker(S) /\ S.task[t].pc = "run"
  /\ S.task[c].kind = "none" /\ \A d \in 1..(c - 1) : S.task[d].kind # "none"
  /\ type \in Types /\ type \in {"TIED", "UNTIED"} /\ prio \in Nat

(* What the two ways to create a task have in common.                      *)
LEMMA CreateNews ==
  ASSUME NEW S, NEW R, NEW h \in Thread, NEW t \in Task, NEW c \in Explicit, NEW type, NEW prio,
         NEW k, MayCreate(S, h, t, c, type, prio), CreateEffect(S, R, c),
         NewRec(R.task[c], k, type, prio, t, AscOf(S, t), S.task[t].creators \cup {t})
  PROVE  NewsOn(S, R, h, t, c, k) /\ (t \in Explicit => t < c)
<1>1. /\ Runs(S, h, t) /\ S.task[t].pc = "run" /\ S.task[c].kind = "none" /\ type \in Types
      /\ \A d \in 1..(c - 1) : S.task[d].kind # "none"
  BY DEF MayCreate
<1>2. InStep(S, {}) /\ Structure(S) /\ Facts(S)
  BY <1>1 DEF Runs, Core
<1>3. \A d \in Explicit : c < d => S.task[d].kind = "none"
  BY <1>1, <1>2 DEF Facts, Linked
<1>4. t \in Explicit => t < c
  <2> SUFFICES ASSUME t \in Explicit PROVE t < c
    OBVIOUS
  <2>1. S.task[t].kind = "TIED"
    BY <1>1, RunsTask
  <2>2. t # c /\ ~(c < t)
    BY <1>1, <1>3, <2>1
  <2> QED
    BY <2>2, ExplicitFinite
<1>5. \A d \in Explicit : d < c => S.task[d].kind # "none"
  <2> SUFFICES ASSUME NEW d \in Explicit, d < c PROVE S.task[d].kind # "none"
    OBVIOUS
  <2>1. d \in 1..(c - 1)
    BY SchedAssumption DEF Explicit
  <2> QED
    BY <1>1, <2>1
<1>6. R.task[c].type \in Types
  BY <1>1 DEF NewRec
<1>7. News(S, R, t, c, k)
  BY <1>1, <1>2, <1>3, <1>4 DEF News
<1> QED
  BY <1>1, <1>4, <1>5, <1>6, <1>7 DEF NewsOn

(* The new task is queued.                                                 *)
LEMMA CreateLater ==
  ASSUME NEW S, NEW h \in Thread, NEW t \in Task, NEW c \in Explicit, NEW type, NEW prio,
         MayCreate(S, h, t, c, type, prio), NEW x,
         NEW R \in WakeOne(Queued([WithTask(S, c, Newborn(S, t, type, prio))
                                     EXCEPT !.task[c].tq = "list"]), x)
  PROVE  Core(R) /\ Stay(S, R) /\ Waker(R)
<1> DEFINE N == Newborn(S, t, type, prio)
<1> DEFINE Q == Queued([WithTask(S, c, N) EXCEPT !.task[c].tq = "list"])
<1>1. /\ S \in StateRec /\ c \in Task /\ type \in {"TIED", "UNTIED"} /\ prio \in Nat
      /\ Runs(S, h, t) /\ Waker(S)
  BY Names DEF MayCreate, Runs, Core, InStep
<1>2. N \in TaskRec /\ Blank(N, "WAITING", type, prio, t, AscOf(S, t), S.task[t].creators \cup {t})
  BY <1>1, NewbornRec
<1> HIDE DEF N
<1>3. /\ CreateEffect(S, Q, c)
      /\ NewRec(Q.task[c], "WAITING", type, prio, t, AscOf(S, t), S.task[t].creators \cup {t})
      /\ Q.team.queued = S.team.queued + 1 /\ Q.team.pending
  BY <1>1, <1>2, LaterEffect
<1>0. R \in WakeOne(Q, x)
  BY DEF N
<1> HIDE DEF Q
<1>4. NewsOn(S, Q, h, t, c, "WAITING") /\ (t \in Explicit => t < c)
  BY <1>3, CreateNews
<1>5. InStep(Q, {})
  <2>1. InStep(S, {}) /\ S.task[c].kind = "none"
    BY <1>4 DEF NewsOn, News
  <2>2. S.task[t].kind \in {"IMPLICIT", "TIED"}
    BY <1>1, RunsTask
  <2> QED
    BY <1>3, <1>4, <2>1, <2>2, NewTaskInStep
<1>6. Structure(Q) /\ Stay(S, Q)
  <2>1. News(S, Q, t, c, "WAITING")
    BY <1>4 DEF NewsOn
  <2> QED
    BY <2>1, NewStructure
<1>7. Facts(Q)
  BY <1>4, NewFacts
<1>8. Waker(Q)
  BY <1>1, <1>4, NewWaker
<1>9. InStep(R, {}) /\ WakeEffect(Q, R)
  BY <1>0, <1>5, WakeOneInStep
<1>10. Structure(R) /\ Facts(R) /\ Waker(R) /\ Stay(Q, R)
  BY <1>6, <1>7, <1>8, <1>9, WakeCore
<1>11. Stay(S, R)
  <2>1. \A d \in Explicit : Q.task[d].kind = "freed" => R.task[d].kind = "freed"
    BY <1>9 DEF WakeEffect
  <2> QED
    BY <1>6, <1>10, <2>1, StayTwice
<1> QED
  BY <1>9, <1>10, <1>11 DEF Core

(* The new task runs first.                                                *)
LEMMA CreateFirst ==
  ASSUME NEW S, NEW h \in Thread, NEW t \in Task, NEW c \in Explicit, NEW type, NEW prio,
         MayCreate(S, h, t, c, type, prio), S.task[t].type = "UNTIED",
         type = "UNTIED" \/ S.thr[h].last \in {None, AscOf(S, t)}, NEW x,
         NEW R \in WakeOne(SuspendUntied([WithTask(S, c, Newborn(S, t, type, prio))
                                            EXCEPT !.task[c].kind = "TIED"], h, t, c, FALSE), x)
  PROVE  Core(R) /\ Stay(S, R) /\ Waker(R)
<1> DEFINE N == Newborn(S, t, type, prio)
<1> DEFINE Q == [WithTask(S, c, N) EXCEPT !.task[c].kind = "TIED"]
<1> DEFINE P == SuspendUntied(Q, h, t, c, FALSE)
<1>1. /\ S \in StateRec /\ c \in Task /\ type \in {"TIED", "UNTIED"} /\ prio \in Nat
      /\ Runs(S, h, t) /\ Waker(S)
  BY Names DEF MayCreate, Runs, Core, InStep
<1>2. N \in TaskRec /\ Blank(N, "WAITING", type, prio, t, AscOf(S, t), S.task[t].creators \cup {t})
  BY <1>1, NewbornRec
<1> HIDE DEF N
<1>3. /\ CreateEffect(S, Q, c)
      /\ NewRec(Q.task[c], "TIED", type, prio, t, AscOf(S, t), S.task[t].creators \cup {t})
      /\ Q.team.queued = S.team.queued /\ Q.team.pending = S.team.pending
  BY <1>1, <1>2, FirstEffect
<1>0. R \in WakeOne(P, x)
  BY DEF N
<1> HIDE DEF Q
<1>4. NewsOn(S, Q, h, t, c, "TIED") /\ (t \in Explicit => t < c)
  BY <1>3, CreateNews
<1>5. InStep(Q, {})
  <2>1. InStep(S, {}) /\ S.task[c].kind = "none"
    BY <1>4 DEF NewsOn, News
  <2>2. S.task[t].kind \in {"IMPLICIT", "TIED"}
    BY <1>1, RunsTask
  <2> QED
    BY <1>3, <1>4, <2>1, <2>2, NewTaskInStep
<1>6. /\ t \in Explicit /\ t # c /\ Q.task[t] = S.task[t]
      /\ S.task[t].kind = "TIED" /\ S.task[t].to \in Task
      /\ S.task[t].parent # None => S.task[t].child # "out"
  <2>1. t = h \/ t \in Explicit
    BY <1>1, RunsTask
  <2>2. S.task[h].type = "TIED"
    BY <1>1 DEF Runs, Core, InStep
  <2>3. t \in Explicit
    BY <2>1, <2>2
  <2>4. t # c
    BY <1>4, <2>3, ExplicitFinite
  <2>5. Q.task[t] = S.task[t]
    BY <1>3, <2>4 DEF CreateEffect
  <2>6. S.task[t].kind = "TIED" /\ S.task[t].to \in Task
    BY <1>1, <2>3, RunsTask
  <2>7. S.task[t].parent # None => S.task[t].child # "out"
    BY <1>1, RunsTask
  <2> QED
    BY <2>3, <2>4, <2>5, <2>6, <2>7
<1>7. InStep(P, {}) /\ SuspEffect(Q, P, h, t, c, FALSE)
  <2>1. /\ Q.task[t].type = "UNTIED" /\ Q.task[t].kind = "TIED" /\ Q.task[t].to \in Task
        /\ Q.task[t].parent # None => Q.task[t].child # "out"
    BY <1>6
  <2> QED
    BY <1>1, <1>5, <1>6, <2>1, SuspendUntiedInStep
<1> HIDE DEF P
<1>8. Fits(Q, h, c)
  <2>1. Q.thr = S.thr /\ Q.task[c].type = type
    BY <1>3 DEF CreateEffect, NewRec
  <2>2. Q.task[c].asc = AscOf(S, t)
    BY <1>3 DEF NewRec
  <2>3. Descent(Q)
    BY <1>4, NewDescent DEF NewsOn
  <2>4. AscOf(S, t) # None => AscOf(S, t) \in Q.task[c].creators
    BY <2>2, <2>3 DEF Descent, Descends
  <2> QED
    BY <2>1, <2>4 DEF Fits
<1>9. Structure(P) /\ Stay(S, P)
  <2>1. News(S, Q, t, c, "TIED") /\ S.thr[h].task = t
    BY <1>1, <1>4 DEF NewsOn, Runs
  <2> QED
    BY <1>5, <1>7, <1>8, <2>1, FirstStructure
<1>10. Facts(P) /\ Waker(P)
  <2>1. Facts(Q)
    BY <1>4, NewFacts
  <2>2. Waker(Q)
    BY <1>1, <1>4, NewWaker
  <2>3. \A d \in Task : SuspRec(Q, P, h, t, FALSE, d) /\ Q.task[t].kind = "TIED"
    BY <1>6, <1>7 DEF SuspEffect
  <2>4. \A d \in Task : Quiet(Q.task[d], P.task[d])
    BY <2>3 DEF SuspRec, SameStatic, Quiet, SuspKind
  <2>5. /\ P.team.count = Q.team.count /\ P.team.running = Q.team.running
        /\ P.team.arrived = Q.team.arrived /\ P.team.waiting = Q.team.waiting
        /\ P.team.over = Q.team.over /\ P.team.lock = Q.team.lock /\ P.team.fault = Q.team.fault
    BY <1>7 DEF SuspEffect, SameTeam
  <2>6. \A d \in Task : P.task[d].lq = Q.task[d].lq /\ (Wakes(Q, d) => Wakes(P, d))
    BY <2>3 DEF SuspRec, SameStatic, Wakes
  <2>7. Facts(P)
    BY <2>1, <2>4, <2>5, FactsFrame
  <2>8. Waker(P)
    BY <2>2, <2>5, <2>6, WakerFrame
  <2> QED
    BY <2>7, <2>8
<1>11. InStep(R, {}) /\ WakeEffect(P, R)
  BY <1>0, <1>7, WakeOneInStep
<1>12. Structure(R) /\ Facts(R) /\ Waker(R) /\ Stay(P, R)
  BY <1>9, <1>10, <1>11, WakeCore
<1>13. Stay(S, R)
  <2>1. \A d \in Explicit : P.task[d].kind = "freed" => R.task[d].kind = "freed"
    BY <1>11 DEF WakeEffect
  <2> QED
    BY <1>9, <1>12, <2>1, StayTwice
<1> QED
  BY <1>11, <1>12, <1>13 DEF Core

(* gomp_barrier_handle_tasks runs the picked task n.                       *)
LEMMA StartFacts ==
  ASSUME NEW S, NEW R, NEW h \in Thread, NEW n \in Explicit, S \in StateRec, Facts(S),
         S.task[h].pc = "bloop", StartEffect(S, R, h, n)
  PROVE  Facts(R)
<1>1. \A c \in Task : /\ SameButStart(S.task[c], R.task[c])
                      /\ R.task[c].pc = IF c = h THEN "brun" ELSE S.task[c].pc
  BY DEF StartEffect
<1>2. /\ R.team.running = S.team.running + 1 /\ R.team.count = S.team.count
      /\ R.team.arrived = S.team.arrived /\ R.team.waiting = S.team.waiting
      /\ R.team.over = S.team.over /\ R.team.lock = S.team.lock /\ R.team.fault = S.team.fault
  BY DEF StartEffect
<1>3. \A c \in Explicit : SameButStart(S.task[c], R.task[c]) /\ R.task[c].pc = S.task[c].pc
  BY <1>1, Names
<1>4. \A g \in Thread : /\ SameButStart(S.task[g], R.task[g])
                        /\ R.task[g].pc = IF g = h THEN "brun" ELSE S.task[g].pc
  BY <1>1, Names
<1>5. LiveIn(R) = LiveIn(S)
  <2>1. \A c \in Explicit : R.task[c].kind = S.task[c].kind
    BY <1>3 DEF SameButStart
  <2> QED
    BY <2>1 DEF LiveIn
<1>6. Linked(R)
  <2>0. Linked(S)
    BY DEF Facts
  <2>1. ~S.task[h].tw
    BY <2>0 DEF Linked
  <2>2. \A c \in Explicit : R.task[c].parent # None => R.task[c].child # "out"
    BY <2>0, <1>3 DEF Linked, SameButStart
  <2>3. \A c, d \in Explicit : c < d /\ R.task[c].kind = "none" => R.task[d].kind = "none"
    BY <2>0, <1>3 DEF Linked, SameButStart
  <2>4. \A g \in Thread : R.task[g].tw => R.task[g].pc \in {"wait", "poll", "try"}
    BY <2>0, <2>1, <1>4 DEF Linked, SameButStart
  <2>5. \A c \in Explicit : R.task[c].pc \notin BarrierLabels
    BY <2>0, <1>3 DEF Linked
  <2> QED
    BY <2>2, <2>3, <2>4, <2>5 DEF Linked
<1>7. Exclusive(R)
  BY <1>1, <1>2 DEF Facts, Exclusive
<1>8. Barrier(R)
  <2>0. Barrier(S)
    BY DEF Facts
  <2>1. IsFiniteSet(RunSet(S)) /\ h \notin RunSet(S)
    BY SchedAssumption, FS_Subset DEF RunSet
  <2>2. RunSet(R) = RunSet(S) \cup {h}
    <3>1. \A g \in Thread : R.task[g].pc = "brun" <=> S.task[g].pc = "brun" \/ g = h
      BY <1>4
    <3> QED
      BY <3>1 DEF RunSet
  <2>3. Cardinality(RunSet(R)) = Cardinality(RunSet(S)) + 1
    BY <2>1, <2>2, FS_AddElement
  <2>4. \A g \in Thread : R.task[g].pc \in BarrierLabels <=> S.task[g].pc \in BarrierLabels
    BY <1>4 DEF BarrierLabels
  <2> QED
    BY <1>2, <1>5, <2>0, <2>3, <2>4 DEF Barrier
<1>9. Program(R)
  <2>0. Program(S)
    BY DEF Facts
  <2>1. \A c \in LiveIn(S) : R.task[c].type = S.task[c].type
    BY <1>3 DEF LiveIn, SameButStart
  <2>2. \A c \in Task : R.task[c].done = S.task[c].done
    BY <1>1 DEF SameButStart
  <2>3. \A c \in Task : R.task[c].pc \in {"trylock", "contend"} => S.task[c].pc \in {"trylock", "contend"}
    BY <1>1
  <2> QED
    BY <2>0, <1>2, <1>5, <2>1, <2>2, <2>3 DEF Program
<1> QED
  BY <1>6, <1>7, <1>8, <1>9 DEF Facts

(* The start of a task by the barrier keeps all of it.                     *)
LEMMA StartCore ==
  ASSUME NEW S, NEW h \in Thread, NEW n \in Explicit, Runs(S, h, h), Waker(S),
         S.task[h].pc = "bloop", Pick(S, h, n), NEW R, R = StartTask(RunPre(S, n), h, n)
  PROVE  Core(R) /\ Stay(S, R) /\ Waker(R)
<1>1. InStep(S, {}) /\ Structure(S) /\ Facts(S) /\ S.thr[h].task = h /\ Pickable(S, n)
  BY DEF Runs, Core, Pick
<1>2. S.task[h].pc \in Labels
  BY DEF Labels
<1>3. InStep(R, {}) /\ \E Q : InStep(Q, {}) /\ PreEffect(S, Q, n) /\ StartEffect(Q, R, h, n)
  BY <1>1, <1>2, StartInStep
<1>4. PICK Q : InStep(Q, {}) /\ PreEffect(S, Q, n) /\ StartEffect(Q, R, h, n)
  BY <1>3
<1>5. Structure(R) /\ Stay(S, R)
  BY <1>1, <1>4, StartStructure
<1>6. \A c \in Task : Quiet(S.task[c], Q.task[c])
  BY <1>1, <1>4 DEF PreEffect, PreRec, SameStatic, Quiet, Pickable
<1>7. Facts(Q)
  <2>1. /\ Q.team.count = S.team.count /\ Q.team.running = S.team.running
        /\ Q.team.arrived = S.team.arrived /\ Q.team.waiting = S.team.waiting
        /\ Q.team.over = S.team.over /\ Q.team.lock = S.team.lock /\ Q.team.fault = S.team.fault
    BY <1>4 DEF PreEffect, SameTeam
  <2> QED
    BY <1>1, <1>6, <2>1, FactsFrame
<1>8. Facts(R)
  <2>1. Q.task[h].pc = "bloop" /\ Q \in StateRec
    BY <1>4, Names DEF PreEffect, PreRec, SameStatic
  <2> QED
    BY <1>4, <1>7, <2>1, StartFacts
<1>9. Waker(R)
  <2>1. \A c \in Task : Q.task[c].lq = S.task[c].lq /\ Q.task[c].pc = S.task[c].pc
    BY <1>4 DEF PreEffect, PreRec, SameStatic
  <2>2. \A c \in Task : R.task[c].lq = Q.task[c].lq /\ R.task[c].pc = IF c = h THEN "brun" ELSE Q.task[c].pc
    BY <1>4 DEF StartEffect, SameButStart
  <2>3. \A c \in Task : R.task[c].lq = S.task[c].lq /\ (Wakes(S, c) => Wakes(R, c))
    BY <2>1, <2>2 DEF Wakes
  <2>4. R.team.lock = S.team.lock
    BY <1>4 DEF PreEffect, StartEffect, SameTeam
  <2> QED
    BY <2>3, <2>4, WakerFrame
<1> QED
  BY <1>3, <1>5, <1>8, <1>9 DEF Core

(* A step of the thread's own task in the barrier.                         *)
BarrierMove(S, R, h) ==
  /\ R \in StateRec /\ R.thr = S.thr /\ \A c \in Task \ {h} : R.task[c] = S.task[c]
  /\ SameButRun(S.task[h], R.task[h])
  /\ R.task[h].tw = S.task[h].tw /\ R.task[h].done = S.task[h].done
  /\ S.task[h].pc \in {"run", "bwait", "bloop"} /\ R.task[h].pc \in {"bwait", "bsleep", "bloop"}
  /\ R.team.count = S.team.count /\ R.team.running = S.team.running
  /\ R.team.queued = S.team.queued /\ R.team.pending = S.team.pending
  /\ R.team.lock = S.team.lock /\ R.team.fault = S.team.fault
  /\ R.team.arrived = S.team.arrived \cup {h}
  /\ R.team.waiting => R.team.arrived = Thread
  /\ R.team.over => R.team.count = 0 /\ R.team.arrived = Thread

(* Such a step keeps the facts ...                                         *)
LEMMA MoveFacts ==
  ASSUME NEW S, NEW R, NEW h \in Thread, Facts(S), BarrierMove(S, R, h)
  PROVE  Facts(R)
<1>1. /\ \A c \in Task \ {h} : R.task[c] = S.task[c]
      /\ SameButRun(S.task[h], R.task[h])
      /\ R.task[h].tw = S.task[h].tw /\ R.task[h].done = S.task[h].done
      /\ S.task[h].pc \in {"run", "bwait", "bloop"} /\ R.task[h].pc \in {"bwait", "bsleep", "bloop"}
  BY DEF BarrierMove
<1>2. /\ R.team.count = S.team.count /\ R.team.running = S.team.running
      /\ R.team.lock = S.team.lock /\ R.team.fault = S.team.fault
      /\ R.team.arrived = S.team.arrived \cup {h}
      /\ R.team.waiting => R.team.arrived = Thread
      /\ R.team.over => R.team.count = 0 /\ R.team.arrived = Thread
  BY DEF BarrierMove
<1>3. \A c \in Explicit : R.task[c] = S.task[c]
  BY <1>1, Names
<1>4. \A g \in Thread \ {h} : R.task[g] = S.task[g]
  BY <1>1, Names
<1>5. LiveIn(R) = LiveIn(S)
  BY <1>3 DEF LiveIn
<1>6. Linked(R)
  <2>0. Linked(S)
    BY DEF Facts
  <2>1. ~S.task[h].tw
    BY <2>0, <1>1 DEF Linked
  <2>2. \A g \in Thread : R.task[g].tw => R.task[g].pc \in {"wait", "poll", "try"}
    BY <2>0, <2>1, <1>1, <1>4 DEF Linked
  <2> QED
    BY <2>0, <2>2, <1>3 DEF Linked
<1>7. Exclusive(R)
  <2>1. \A c \in Task : R.task[c].pc = "critical" => S.task[c].pc = "critical"
    BY <1>1
  <2> QED
    BY <2>1, <1>2 DEF Facts, Exclusive
<1>8. Barrier(R)
  <2>0. Barrier(S)
    BY DEF Facts
  <2>1. RunSet(R) = RunSet(S)
    <3>1. \A g \in Thread : R.task[g].pc = "brun" <=> S.task[g].pc = "brun"
      BY <1>1, <1>4
    <3> QED
      BY <3>1 DEF RunSet
  <2>2. \A g \in Thread : R.task[g].pc \in BarrierLabels <=> S.task[g].pc \in BarrierLabels \/ g = h
    BY <1>1, <1>4 DEF BarrierLabels
  <2>3. \A g \in Thread : g \in R.team.arrived <=> R.task[g].pc \in BarrierLabels
    BY <1>2, <2>0, <2>2 DEF Barrier
  <2> QED
    BY <1>2, <1>5, <2>0, <2>1, <2>3 DEF Barrier
<1>9. Program(R)
  <2>0. Program(S)
    BY DEF Facts
  <2>1. \A c \in LiveIn(S) : R.task[c].type = S.task[c].type
    BY <1>3 DEF LiveIn
  <2>2. \A c \in Task : R.task[c].done = S.task[c].done
    BY <1>1
  <2>3. \A c \in Task : R.task[c].pc \in {"trylock", "contend"} => S.task[c].pc \in {"trylock", "contend"}
    BY <1>1
  <2> QED
    BY <2>0, <1>2, <1>5, <2>1, <2>2, <2>3 DEF Program
<1> QED
  BY <1>6, <1>7, <1>8, <1>9 DEF Facts

(* ... and all the rest.                                                   *)
LEMMA MoveCore ==
  ASSUME NEW S, NEW R, NEW h \in Thread, Core(S), Waker(S), BarrierMove(S, R, h)
  PROVE  Core(R) /\ Stay(S, R) /\ Waker(R)
<1>1. InStep(S, {}) /\ Structure(S) /\ Facts(S)
  BY DEF Core
<1>2. /\ R \in StateRec /\ R.thr = S.thr /\ \A c \in Task \ {h} : R.task[c] = S.task[c]
      /\ SameButRun(S.task[h], R.task[h])
      /\ R.team.queued = S.team.queued /\ R.team.pending = S.team.pending
      /\ R.team.lock = S.team.lock
      /\ S.task[h].pc \in {"run", "bwait", "bloop"} /\ R.task[h].pc \in {"bwait", "bsleep", "bloop"}
  BY DEF BarrierMove
<1>3. InStep(R, {})
  <2>1. \A c \in Explicit : SameQ(S.task[c], R.task[c])
    BY <1>2, Names DEF SameQ
  <2>2. SameImplicit(S, R)
    BY <1>2, Names DEF SameImplicit, SameButRun
  <2> QED
    BY <1>1, <1>2, <2>1, <2>2, InStepFrame
<1>4. Structure(R) /\ Stay(S, R)
  <2>1. \A c \in Task : SameStructure(S.task[c], R.task[c])
    BY <1>2 DEF SameButRun, SameStructure
  <2> QED
    BY <1>1, <1>2, <2>1, StructureFrame
<1>5. Facts(R)
  BY <1>1, MoveFacts
<1>6. Waker(R)
  <2>1. \A c \in Task : R.task[c].lq = S.task[c].lq /\ (Wakes(S, c) => Wakes(R, c))
    BY <1>2 DEF SameButRun, Wakes
  <2> QED
    BY <1>2, <2>1, WakerFrame
<1> QED
  BY <1>3, <1>4, <1>5, <1>6 DEF Core

(* What priority_queue_next_task and the choice between slots return is in *)
(* one of the queues they look at.                                         *)
LEMMA BestIn ==
  ASSUME NEW S, NEW slots, DOMAIN slots \subseteq 1..5, NEW n \in Best(S, slots)
  PROVE  \E i \in DOMAIN slots : n \in slots[i]
<1> DEFINE Beats(i, j) == \A c \in slots[i], d \in Top(S, slots[j]) :
                            c \in Top(S, slots[i]) => S.task[c].prio >= S.task[d].prio
           I == {i \in DOMAIN slots : slots[i] # {} /\ \A j \in DOMAIN slots : Beats(i, j)}
           m == CHOOSE i \in I : \A j \in I : i <= j
<1>1. I # {} /\ n \in Top(S, slots[m])
  BY DEF Best
<1>2. I \subseteq 1..5 /\ I \subseteq DOMAIN slots
  OBVIOUS
<1> HIDE DEF I
<1>3. \E i \in I : \A j \in I : i <= j
  <2>1. CASE 1 \in I
    BY <1>2, <2>1
  <2>2. CASE 1 \notin I /\ 2 \in I
    BY <1>2, <2>2
  <2>3. CASE 1 \notin I /\ 2 \notin I /\ 3 \in I
    BY <1>2, <2>3
  <2>4. CASE 1 \notin I /\ 2 \notin I /\ 3 \notin I /\ 4 \in I
    BY <1>2, <2>4
  <2>5. CASE 1 \notin I /\ 2 \notin I /\ 3 \notin I /\ 4 \notin I /\ 5 \in I
    BY <1>2, <2>5
  <2>6. 1 \in I \/ 2 \in I \/ 3 \in I \/ 4 \in I \/ 5 \in I
    <3> HIDE DEF m
    <3>1. PICK i : i \in I /\ i \in 1..5
      BY <1>1, <1>2
    <3>2. i = 1 \/ i = 2 \/ i = 3 \/ i = 4 \/ i = 5
      BY <3>1
    <3> QED
      BY <3>1, <3>2
  <2> QED
    BY <2>1, <2>2, <2>3, <2>4, <2>5, <2>6
<1>4. m \in I
  BY <1>3
<1> QED
  BY <1>1, <1>2, <1>4 DEF Top

(* So it is for two queues.                                                *)
LEMMA NextTaskIn ==
  ASSUME NEW S, NEW Q1, NEW Q2, NEW n \in NextTask(S, Q1, Q2)
  PROVE  n \in Q1 \/ n \in Q2
<1> DEFINE slots == <<Q1, Q2>>
<1>1. DOMAIN slots = 1..2 /\ slots[1] = Q1 /\ slots[2] = Q2
  OBVIOUS
<1>2. n \in Best(S, slots)
  BY DEF NextTask
<1> HIDE DEF slots
<1>3. \E i \in DOMAIN slots : n \in slots[i]
  BY <1>1, <1>2, BestIn
<1> QED
  BY <1>1, <1>3

(* The queues a thread that runs t may pick its next task from.            *)
Offered(S, h, t, n) ==
  LET last == S.thr[h].last
      Kids(p, ty) == ReadyChildren(S, p, ty)
  IN \/ n \in ReadySuspended(S, h, "TIED") \/ n \in ReadySuspended(S, h, "UNTIED")
     \/ last # None /\ n \in Kids(last, "TIED")
     \/ last # None /\ n \in Kids(last, "UNTIED")
     \/ S.task[t].type = "UNTIED" /\ last = S.task[t].asc /\ n \in Kids(t, "TIED")
     \/ n \in Kids(t, "UNTIED") \/ n \in ReadyTeam(S, "UNTIED")
     \/ last = None /\ n \in Kids(t, "TIED")
     \/ last = None /\ n \in ReadyTeam(S, "TIED")

(* Every slot of gomp_get_runnable_tasks holds tasks of these queues.      *)
LEMMA SlotOffered ==
  ASSUME NEW S, NEW h, NEW t, NEW n, NEW i \in DOMAIN RunnableSlots(S, h, t),
         n \in RunnableSlots(S, h, t)[i]
  PROVE  Offered(S, h, t, n)
<1> DEFINE last == S.thr[h].last
           A == ReadySuspended(S, h, "TIED")
           B == ReadySuspended(S, h, "UNTIED")
           C == ReadyChildren(S, last, "TIED")
           D == ReadyChildren(S, last, "UNTIED")
           E == ReadyChildren(S, t, "TIED")
           F == ReadyChildren(S, t, "UNTIED")
           G == ReadyTeam(S, "TIED")
           H == ReadyTeam(S, "UNTIED")
           mine == S.task[t].type = "UNTIED" /\ last = S.task[t].asc
<1>1. last # None => RunnableSlots(S, h, t) =
        <<Top(S, A), Top(S, B), NextTask(S, C, D), IF mine THEN E ELSE {}, NextTask(S, F, H)>>
  BY DEF RunnableSlots
<1>2. last = None => RunnableSlots(S, h, t) =
        <<Top(S, A), Top(S, B), NextTask(S, E, F), NextTask(S, G, H)>>
  BY DEF RunnableSlots
<1>3. Top(S, A) \subseteq A /\ Top(S, B) \subseteq B
  BY DEF Top
<1>4. NextTask(S, C, D) \subseteq C \cup D /\ NextTask(S, F, H) \subseteq F \cup H
      /\ NextTask(S, E, F) \subseteq E \cup F /\ NextTask(S, G, H) \subseteq G \cup H
  BY NextTaskIn
<1>5. Offered(S, h, t, n) <=>
        \/ n \in A \/ n \in B
        \/ last # None /\ n \in C
        \/ last # None /\ n \in D
        \/ mine /\ n \in E
        \/ n \in F \/ n \in H
        \/ last = None /\ n \in E
        \/ last = None /\ n \in G
  BY DEF Offered
<1>6. CASE last # None
  <2> HIDE DEF A, B, C, D, E, F, G, H, mine, last
  <2>1. i \in 1..5
    BY <1>1, <1>6
  <2>2. n \in Top(S, A) \/ n \in Top(S, B) \/ n \in NextTask(S, C, D)
        \/ (mine /\ n \in E) \/ n \in NextTask(S, F, H)
    BY <1>1, <1>6, <2>1
  <2> QED
    BY <1>3, <1>4, <1>5, <1>6, <2>2
<1>7. CASE last = None
  <2> HIDE DEF A, B, C, D, E, F, G, H, mine, last
  <2>1. i \in 1..4
    BY <1>2, <1>7
  <2>2. n \in Top(S, A) \/ n \in Top(S, B) \/ n \in NextTask(S, E, F) \/ n \in NextTask(S, G, H)
    BY <1>2, <1>7, <2>1
  <2> QED
    BY <1>3, <1>4, <1>5, <1>7, <2>2
<1> QED
  BY <1>6, <1>7

(* So does what the thread finally picks.                                  *)
LEMMA RunnableOffered ==
  ASSUME NEW S, NEW h, NEW t, NEW n \in Best(S, RunnableSlots(S, h, t))
  PROVE  Offered(S, h, t, n)
<1>1. DOMAIN RunnableSlots(S, h, t) \subseteq 1..5
  <2>1. CASE S.thr[h].last # None
    BY <2>1 DEF RunnableSlots
  <2>2. CASE S.thr[h].last = None
    BY <2>2 DEF RunnableSlots
  <2> QED
    BY <2>1, <2>2
<1>2. PICK i \in DOMAIN RunnableSlots(S, h, t) : n \in RunnableSlots(S, h, t)[i]
  BY <1>1, BestIn
<1> QED
  BY <1>2, SlotOffered

(* What is in the ready list of a queue can be picked.                     *)
LEMMA ReadyPickable ==
  ASSUME NEW S, InStep(S, {}), NEW n \in Explicit
  PROVE  /\ S.task[n].tq = "list" => Pickable(S, n) /\ S.task[n].kind = "WAITING"
         /\ S.task[n].sq = "list" => Pickable(S, n)
         /\ S.task[n].child = "list" /\ S.task[n].kind = "WAITING" => Pickable(S, n)
<1>1. Alone(S.task[n], n) /\ S.task[n] \in TaskRec
  BY Names DEF InStep, StateRec
<1>2. S.task[n].kind \in Kinds /\ S.task[n].blocked \in BOOLEAN
  BY <1>1 DEF TaskRec
<1>3. ListOf(S.task[n].blocked) = "list" => ~S.task[n].blocked
  BY DEF ListOf
<1>4. S.task[n].tq = "list" => S.task[n].kind = "WAITING" /\ ~S.task[n].blocked
  BY <1>1, <1>2, <1>3 DEF Alone, Kinds
<1>5. S.task[n].sq = "list" => S.task[n].kind \in {"WAITING", "TIED_SUSPENDED"} /\ ~S.task[n].blocked
  BY <1>1, <1>2, <1>3 DEF Alone, Kinds
<1>6. S.task[n].child = "list" /\ S.task[n].kind = "WAITING" => ~S.task[n].blocked
  BY <1>1, <1>2, <1>3 DEF Alone
<1> QED
  BY <1>4, <1>5, <1>6 DEF Pickable

(* A suspended tied task that is ready is on its thread already.           *)
LEMMA ReadySuspendedPick ==
  ASSUME NEW S, NEW h \in Thread, NEW n, NEW ty, Core(S), n \in ReadySuspended(S, h, ty)
  PROVE  Pick(S, h, n)
<1>1. n \in Explicit /\ S.task[n].sq = "list" /\ S.task[n].susp = h
  BY DEF ReadySuspended, OfType
<1>2. InStep(S, {}) /\ Alone(S.task[n], n) /\ h # None
  BY <1>1, Names DEF Core, InStep
<1>3. Pickable(S, n)
  BY <1>1, <1>2, ReadyPickable
<1>4. S.task[n].type = "TIED" => S.task[n].kind = "TIED_SUSPENDED"
  BY <1>1, <1>2, <1>3 DEF Alone, Pickable
<1>5. Fits(S, h, n)
  BY <1>1, <1>4 DEF Fits, Tied, On
<1> QED
  BY <1>1, <1>3, <1>5 DEF Pick

(* So is a waiting task that descends from the last tied task, or any, if  *)
(* it is untied or there is no tied task.                                  *)
LEMMA WaitingPick ==
  ASSUME NEW S, NEW h \in Thread, NEW n \in Explicit, Core(S), S.task[n].kind = "WAITING",
         Pickable(S, n),
         \/ S.task[n].type = "UNTIED" \/ S.thr[h].last = None
         \/ S.thr[h].last \in S.task[n].creators
  PROVE  Pick(S, h, n)
BY DEF Pick, Fits

(* A child of p may run if its tied parent is the last tied task, or there *)
(* is none.                                                                *)
LEMMA ChildPick ==
  ASSUME NEW S, NEW h \in Thread, NEW n, NEW p, NEW ty, Core(S), n \in ReadyChildren(S, p, ty),
         p # None,
         ty = "UNTIED" \/ S.thr[h].last = None \/ S.thr[h].last = p
           \/ (p \in Explicit /\ S.thr[h].last = S.task[p].asc)
  PROVE  Pick(S, h, n)
<1>1. /\ n \in Explicit /\ S.task[n].child = "list" /\ S.task[n].kind = "WAITING"
      /\ S.task[n].parent = p /\ S.task[n].type = ty
  BY DEF ReadyChildren, OfType, Waiting, Children
<1>2. InStep(S, {}) /\ Descent(S)
  BY DEF Core, Structure
<1>3. Pickable(S, n)
  BY <1>1, <1>2, ReadyPickable
<1>4. p \in S.task[n].creators /\ S.task[p].creators \subseteq S.task[n].creators
  BY <1>1, <1>2 DEF Descent, Descends
<1>5. p \in Explicit /\ S.task[p].asc # None => S.task[p].asc \in S.task[p].creators
  BY <1>2 DEF Descent, Descends
<1>6. \/ S.task[n].type = "UNTIED" \/ S.thr[h].last = None
      \/ S.thr[h].last \in S.task[n].creators
  BY <1>1, <1>4, <1>5
<1> QED
  BY <1>1, <1>3, <1>6, WaitingPick

(* A task of the team's queue may run if it is untied or no tied task is   *)
(* there.                                                                  *)
LEMMA TeamPick ==
  ASSUME NEW S, NEW h \in Thread, NEW n, NEW ty, Core(S), n \in ReadyTeam(S, ty),
         ty = "UNTIED" \/ S.thr[h].last = None
  PROVE  Pick(S, h, n)
<1>1. n \in Explicit /\ S.task[n].tq = "list" /\ S.task[n].type = ty
  BY DEF ReadyTeam, OfType
<1>2. InStep(S, {})
  BY DEF Core
<1>3. Pickable(S, n) /\ S.task[n].kind = "WAITING"
  BY <1>1, <1>2, ReadyPickable
<1> QED
  BY <1>1, <1>3, WaitingPick

(* Whatever gomp_get_runnable_tasks offers keeps the task scheduling       *)
(* constraint.                                                             *)
LEMMA OfferedPick ==
  ASSUME NEW S, NEW h \in Thread, NEW t, NEW n, Runs(S, h, t), Offered(S, h, t, n)
  PROVE  Pick(S, h, n)
<1> DEFINE last == S.thr[h].last
<1>1. Core(S) /\ t \in Task /\ t # None /\ (t = h \/ t \in Explicit)
  BY RunsTask, Names DEF Runs
<1>2. S.task[t].type = "UNTIED" => t \in Explicit
  BY <1>1 DEF Core, InStep
<1>3. ASSUME NEW ty, n \in ReadySuspended(S, h, ty) PROVE Pick(S, h, n)
  BY <1>1, <1>3, ReadySuspendedPick
<1>4. ASSUME NEW ty, n \in ReadyChildren(S, last, ty), last # None PROVE Pick(S, h, n)
  BY <1>1, <1>4, ChildPick
<1>5. ASSUME NEW ty, n \in ReadyChildren(S, t, ty),
             ty = "UNTIED" \/ last = None \/ (S.task[t].type = "UNTIED" /\ last = S.task[t].asc)
      PROVE  Pick(S, h, n)
  BY <1>1, <1>2, <1>5, ChildPick
<1>6. ASSUME NEW ty, n \in ReadyTeam(S, ty), ty = "UNTIED" \/ last = None PROVE Pick(S, h, n)
  BY <1>1, <1>6, TeamPick
<1> QED
  BY <1>3, <1>4, <1>5, <1>6 DEF Offered

(* What a running task does next does not matter for it.                   *)
LEMMA PickFrame ==
  ASSUME NEW S, NEW R, NEW h \in Thread, NEW t, NEW n, Pick(S, h, n), RunStep(S, R, t)
  PROVE  Pick(R, h, n)
<1>1. R.thr = S.thr /\ n \in Explicit
  BY DEF RunStep, Pick
<1>2. \A c \in Explicit : /\ R.task[c].kind = S.task[c].kind /\ R.task[c].susp = S.task[c].susp
                          /\ R.task[c].type = S.task[c].type /\ R.task[c].blocked = S.task[c].blocked
                          /\ R.task[c].creators = S.task[c].creators
  BY Names DEF RunStep, SameButRun
<1>3. Tied(R, h) = Tied(S, h)
  BY <1>1, <1>2, Names DEF Tied, On
<1> QED
  BY <1>1, <1>2, <1>3 DEF Pick, Pickable, Fits

(* GOMP_taskwait runs a child only if the constraint allows it.            *)
LEMMA TaskwaitPick ==
  ASSUME NEW h \in Thread, NEW t, NEW n, Runs(State, h, t), n \in TaskwaitNext(h, t)
  PROVE  Pick(State, h, n)
<1>0. State.thr = thr /\ State.task = task
  BY DEF State
<1> DEFINE last == State.thr[h].last
           own == IF State.task[t].type = "TIED" THEN t ELSE State.task[t].asc
           E == ReadyChildren(State, t, "TIED")
           F == ReadyChildren(State, t, "UNTIED")
<1>1. Core(State) /\ t \in Task /\ t # None /\ (t = h \/ t \in Explicit)
  BY RunsTask, Names DEF Runs
<1>2. State.task[t].type # "TIED" => t \in Explicit
  BY <1>1 DEF Core, InStep
<1>3. TaskwaitNext(h, t) = IF last # None /\ last # own THEN Top(State, F) ELSE NextTask(State, E, F)
  BY <1>0 DEF TaskwaitNext
<1>4. n \in F \/ (n \in E /\ (last = None \/ last = own))
  BY <1>3, NextTaskIn DEF Top
<1>5. CASE n \in F
  BY <1>1, <1>5, ChildPick
<1>6. CASE n \in E /\ (last = None \/ last = own)
  <2> HIDE DEF E
  <2>1. last = None \/ last = t \/ (t \in Explicit /\ last = State.task[t].asc)
    BY <1>2, <1>6
  <2>2. n \in ReadyChildren(State, t, "TIED")
    BY <1>6 DEF E
  <2> QED
    BY <1>1, <2>1, <2>2, ChildPick
<1> QED
  BY <1>4, <1>5, <1>6

(* So does gomp_barrier_handle_tasks.                                      *)
LEMMA BarrierPick ==
  ASSUME NEW S, NEW h \in Thread, Runs(S, h, h), NEW n,
         \/ n \in NextTask(S, ReadySuspended(S, h, "TIED"), ReadySuspended(S, h, "UNTIED"))
         \/ n \in NextTask(S, ReadyTeam(S, "TIED"), ReadyTeam(S, "UNTIED"))
  PROVE  Pick(S, h, n)
<1>1. Core(S) /\ Chains(S, {}) /\ S.thr[h].task = h /\ Lists(S)
  BY DEF Runs, Core, Structure
<1>2. Tied(S, h) = {}
  BY <1>1, ImplicitAlone
<1>3. S.thr[h].last = None
  BY <1>1, <1>2 DEF Lists, TiedList
<1>4. \/ n \in ReadySuspended(S, h, "TIED") \/ n \in ReadySuspended(S, h, "UNTIED")
      \/ n \in ReadyTeam(S, "TIED") \/ n \in ReadyTeam(S, "UNTIED")
  BY NextTaskIn
<1> QED
  BY <1>1, <1>3, <1>4, ReadySuspendedPick, TeamPick

(* What every step keeps.                                                  *)
Kept(S, R) == Core(R) /\ Stay(S, R) /\ Waker(R)

(* t goes on, on h.                                                        *)
Goes(S, R, h, t) == Runs(S, h, t) /\ Acts(S, R, t) /\ Waker(R)

(* Such a step keeps all of it.                                            *)
LEMMA GoesKept ==
  ASSUME NEW S, NEW R, NEW h \in Thread, NEW t, Goes(S, R, h, t)
  PROVE  Kept(S, R) /\ Runs(R, h, t)
<1>1. Runs(S, h, t) /\ Acts(S, R, t) /\ Waker(R)
  BY DEF Goes
<1>2. t \in Task
  BY <1>1, RunsTask
<1>3. Runs(R, h, t) /\ Stay(S, R)
  BY <1>1, <1>2, ActsCore
<1> QED
  BY <1>1, <1>3 DEF Kept, Runs

(* It moves no tied task.                                                  *)
LEMMA RunStepTied ==
  ASSUME NEW S, NEW R, NEW t, RunStep(S, R, t), NEW h \in Thread
  PROVE  Tied(R, h) = Tied(S, h)
<1>1. R.thr = S.thr
  BY DEF RunStep
<1>2. \A c \in Explicit : /\ R.task[c].kind = S.task[c].kind /\ R.task[c].susp = S.task[c].susp
                          /\ R.task[c].type = S.task[c].type
  BY Names DEF RunStep, SameButRun
<1> QED
  BY <1>1, <1>2, Names DEF Tied, On

(* Thread h may switch from t to n.                                        *)
MaySwitch(S, h, t, n, k) ==
  /\ Runs(S, h, t) /\ Waker(S) /\ Pick(S, h, n)
  /\ k \in BOOLEAN /\ (k => S.task[t].pc = "contend" /\ S.team.lock # None)

(* Every switch keeps all of it.                                           *)
LEMMA SwitchKept ==
  ASSUME NEW S, NEW h \in Thread, NEW t, NEW n, NEW k, MaySwitch(S, h, t, n, k),
         NEW R \in Switch(S, h, t, n, k)
  PROVE  Kept(S, R)
<1>1. /\ Runs(S, h, t) /\ Waker(S) /\ Pick(S, h, n)
      /\ k \in BOOLEAN /\ (k => S.task[t].pc = "contend") /\ (k => S.team.lock # None)
      /\ n \in Explicit
  BY DEF MaySwitch, Pick
<1>2. t \in Task
  BY <1>1, RunsTask
<1>3. Core(R) /\ Stay(S, R) /\ SwitchEffect(S, R, h, t, n, k)
  BY <1>1, <1>2, SwitchCore
<1>4. Waker(R)
  BY <1>1, <1>2, <1>3, SwitchWaker
<1> QED
  BY <1>3, <1>4 DEF Kept

(* t notes what it does, then switches.                                    *)
LEMMA GoesSwitch ==
  ASSUME NEW S, NEW Q, NEW h \in Thread, NEW t, NEW n, Goes(S, Q, h, t),
         Pick(S, h, n) \/ Pick(Q, h, n), NEW R \in Switch(Q, h, t, n, FALSE)
  PROVE  Kept(S, R)
<1>1. Kept(S, Q) /\ Runs(Q, h, t) /\ RunStep(S, Q, t)
  BY GoesKept DEF Goes, Acts
<1>2. Pick(Q, h, n)
  BY <1>1, PickFrame
<1>3. MaySwitch(Q, h, t, n, FALSE)
  BY <1>1, <1>2 DEF MaySwitch, Kept
<1>4. Kept(Q, R)
  BY <1>3, SwitchKept
<1>5. \A g \in Thread : Tied(Q, g) = Tied(S, g)
  BY <1>1, RunStepTied
<1> QED
  BY <1>4, <1>5 DEF Kept, Stay

(* The calls that note something: pc, done, tw.                            *)
Notes(S, R, h, t, l, d, b) ==
  /\ Runs(S, h, t) /\ Waker(S) /\ RunStep(S, R, t) /\ R.team.lock = S.team.lock
  /\ R.task[t].pc = l /\ R.task[t].tw = b /\ R.task[t].done = S.task[t].done \cup d

(* Such a call keeps all of it, if its target fits its source.             *)
LEMMA NotesGoes ==
  ASSUME NEW S, NEW R, NEW h \in Thread, NEW t, NEW l, NEW d, NEW b, Notes(S, R, h, t, l, d, b),
         b => l \in {"wait", "poll", "try"}, d \subseteq Ops,
         S.task[t].pc \notin BarrierLabels,
         l \in {"run", "wait", "poll", "try", "trylock", "contend"},
         l \in {"trylock", "contend"} => "critical" \in Ops,
         S.task[t].pc \in {"trylock", "contend"} => l \in {"trylock", "contend"} \/ S.team.lock # None,
         S.task[t].pc # "unlocked" \/ \A c \in Explicit : S.task[c].lq # "list"
  PROVE  Goes(S, R, h, t)
<1>1. /\ Runs(S, h, t) /\ Waker(S) /\ RunStep(S, R, t) /\ R.team.lock = S.team.lock
      /\ R.task[t].pc = l /\ R.task[t].tw = b /\ R.task[t].done = S.task[t].done \cup d
  BY DEF Notes
<1>2. t \in Task
  BY <1>1, RunsTask
<1>3. S.task[t].done \subseteq Ops
  BY <1>1, <1>2 DEF Runs, Core, Facts, Program
<1>4. l \notin BarrierLabels /\ l # "critical"
  BY DEF BarrierLabels
<1>5. Acts(S, R, t)
  BY <1>1, <1>3, <1>4 DEF Acts
<1>6. \A c \in Task : R.task[c].lq = S.task[c].lq
  BY <1>1 DEF RunStep, SameButRun
<1>7. \A c \in Task \ {t} : R.task[c] = S.task[c]
  BY <1>1 DEF RunStep
<1>8. Waker(R)
  <2>1. CASE S.team.lock # None
    BY <1>1, <2>1 DEF Waker
  <2>2. CASE \A c \in Explicit : S.task[c].lq # "list"
    BY <1>6, <2>2, Names DEF Waker
  <2>3. CASE S.team.lock = None /\ S.task[t].pc # "unlocked"
    <3>1. \A c \in Task : Wakes(S, c) => Wakes(R, c)
      BY <1>1, <1>6, <1>7, <2>3 DEF Wakes
    <3> QED
      BY <1>1, <1>6, <3>1, WakerFrame
  <2> QED
    BY <2>1, <2>2, <2>3
<1> QED
  BY <1>1, <1>5, <1>8 DEF Goes

(* Doing nothing is such a step.                                           *)
LEMMA RunStepItself ==
  ASSUME NEW S \in StateRec, NEW t
  PROVE  RunStep(S, S, t)
BY DEF RunStep, SameButRun

(* The program counter is set after what has been noted.                   *)
LEMMA NoteGoto ==
  ASSUME NEW S, NEW Q, NEW h \in Thread, NEW t, NEW k, NEW l, NEW d, NEW b,
         Notes(S, Q, h, t, k, d, b), l \in Labels
  PROVE  Notes(S, Goto(Q, t, l), h, t, l, d, b)
<1>1. /\ Runs(S, h, t) /\ Waker(S) /\ RunStep(S, Q, t) /\ Q.team.lock = S.team.lock
      /\ Q.task[t].tw = b /\ Q.task[t].done = S.task[t].done \cup d
  BY DEF Notes
<1>2. t \in Task /\ Q \in StateRec
  BY <1>1, RunsTask DEF RunStep
<1> DEFINE R == Goto(Q, t, l)
<1>3. /\ RunStep(Q, R, t) /\ R.team = Q.team /\ R.task[t].pc = l
      /\ R.task[t].tw = Q.task[t].tw /\ R.task[t].done = Q.task[t].done
  BY <1>2, GotoEffect
<1> HIDE DEF R
<1>4. RunStep(S, R, t)
  BY <1>1, <1>3, RunStepTwice
<1>5. Notes(S, R, h, t, l, d, b)
  BY <1>1, <1>3, <1>4 DEF Notes
<1> QED
  BY <1>5 DEF R

(* Nothing is noted.                                                       *)
LEMMA NoteNothing ==
  ASSUME NEW S, NEW h \in Thread, NEW t, Runs(S, h, t), Waker(S)
  PROVE  Notes(S, S, h, t, S.task[t].pc, {}, S.task[t].tw)
<1>1. S \in StateRec
  BY DEF Runs, Core, InStep
<1> QED
  BY <1>1, RunStepItself DEF Notes

(* An operation is noted.                                                  *)
LEMMA NoteOnce ==
  ASSUME NEW S, NEW h \in Thread, NEW t, NEW op \in AllOps, Runs(S, h, t), Waker(S)
  PROVE  Notes(S, Once(S, t, op), h, t, S.task[t].pc, {op}, S.task[t].tw)
<1>1. t \in Task /\ S \in StateRec
  BY RunsTask DEF Runs, Core, InStep
<1> DEFINE R == Once(S, t, op)
<1>2. /\ RunStep(S, R, t) /\ R.team = S.team /\ R.task[t].pc = S.task[t].pc
      /\ R.task[t].tw = S.task[t].tw /\ R.task[t].done = S.task[t].done \cup {op}
  BY <1>1, OnceEffect
<1> HIDE DEF R
<1>3. Notes(S, R, h, t, S.task[t].pc, {op}, S.task[t].tw)
  BY <1>2 DEF Notes
<1> QED
  BY <1>3 DEF R

(* The taskwait flag is noted.                                             *)
LEMMA NoteTw ==
  ASSUME NEW S, NEW h \in Thread, NEW t, NEW b \in BOOLEAN, Runs(S, h, t), Waker(S)
  PROVE  Notes(S, [S EXCEPT !.task[t].tw = b], h, t, S.task[t].pc, {}, b)
<1>1. t \in Task /\ S \in StateRec
  BY RunsTask DEF Runs, Core, InStep
<1> DEFINE R == [S EXCEPT !.task[t].tw = b]
<1>2. /\ RunStep(S, R, t) /\ R.team = S.team /\ R.task[t].pc = S.task[t].pc
      /\ R.task[t].tw = b /\ R.task[t].done = S.task[t].done
  BY <1>1, TwEffect
<1> HIDE DEF R
<1>3. Notes(S, R, h, t, S.task[t].pc, {}, b)
  BY <1>2 DEF Notes
<1> QED
  BY <1>3 DEF R
-----------------------------------------------------------------------------
(* What holds in every state.                                              *)
Sound == Core(State) /\ Waker(State) /\ prog \in Programs

(* A step to a state that keeps it.                                        *)
Keeps == \E R : Becomes(R) /\ Kept(State, R)

(* The state is made of the three variables.                               *)
LEMMA StateIs == State.task = task /\ State.thr = thr /\ State.team = team
BY DEF State

(* What is known of the task a thread runs.                                *)
LEMMA ThreadRuns ==
  ASSUME NEW h \in Thread, Sound, NEW t, thr[h].task = t
  PROVE  Runs(State, h, t) /\ Waker(State) /\ t \in Task /\ State \in StateRec
<1>1. Runs(State, h, t) /\ Waker(State)
  BY StateIs DEF Sound, Runs
<1> QED
  BY <1>1, RunsTask DEF Runs, Core, InStep

(* GOMP_taskwait, the first test.                                          *)
LEMMA TaskwaitCallKeeps ==
  ASSUME NEW h \in Thread, Sound, TaskwaitCall(h)
  PROVE  Keeps
<1>1. PICK t : t = thr[h].task
  OBVIOUS
<1> DEFINE R == Goto(Once(State, t, "wait"), t, "wait")
<1>2. task[t].pc = "run" /\ "wait" \in Ops /\ Becomes(R)
  BY <1>1 DEF TaskwaitCall, Running, May
<1>3. Runs(State, h, t) /\ Waker(State)
  BY <1>1, ThreadRuns
<1>4. Notes(State, Once(State, t, "wait"), h, t, State.task[t].pc, {"wait"}, State.task[t].tw)
  BY <1>3, NoteOnce DEF AllOps
<1>5. Notes(State, R, h, t, "wait", {"wait"}, State.task[t].tw)
  BY <1>4, NoteGoto DEF Labels
<1> HIDE DEF R
<1>6. Goes(State, R, h, t)
  BY <1>2, <1>5, StateIs, NotesGoes DEF BarrierLabels
<1> QED
  BY <1>2, <1>6, GoesKept DEF Keeps

(* The poll of gomp_blocked_task_switch.                                   *)
LEMMA TaskwaitPollKeeps ==
  ASSUME NEW h \in Thread, Sound, TaskwaitPoll(h)
  PROVE  Keeps
<1>1. PICK t : t = thr[h].task
  OBVIOUS
<1>2. PICK l \in {"wait", "try"} : task[t].pc = "poll" /\ Becomes(Goto(State, t, l))
  BY <1>1 DEF TaskwaitPoll
<1> DEFINE R == Goto(State, t, l)
<1>3. Runs(State, h, t) /\ Waker(State)
  BY <1>1, ThreadRuns
<1>4. Notes(State, State, h, t, State.task[t].pc, {}, State.task[t].tw)
  BY <1>3, NoteNothing
<1>5. Notes(State, R, h, t, l, {}, State.task[t].tw)
  BY <1>4, NoteGoto DEF Labels
<1> HIDE DEF R
<1>6. Goes(State, R, h, t)
  BY <1>2, <1>5, StateIs, NotesGoes DEF BarrierLabels
<1> QED
  BY <1>2, <1>6, GoesKept DEF Keeps, R

(* blocked_task_try_to_schedule.                                           *)
LEMMA TaskwaitTryKeeps ==
  ASSUME NEW h \in Thread, Sound, TaskwaitTry(h)
  PROVE  Keeps
<1>1. PICK t : t = thr[h].task
  OBVIOUS
<1> DEFINE Q == Goto(State, t, "wait")
<1>2. /\ task[t].pc = "try"
      /\ Becomes(Q) \/ \E n \in Runnable(State, h, t) : \E R \in Switch(Q, h, t, n, FALSE) : Becomes(R)
  BY <1>1 DEF TaskwaitTry
<1>3. Runs(State, h, t) /\ Waker(State)
  BY <1>1, ThreadRuns
<1>4. Notes(State, State, h, t, State.task[t].pc, {}, State.task[t].tw)
  BY <1>3, NoteNothing
<1>5. Notes(State, Q, h, t, "wait", {}, State.task[t].tw)
  BY <1>4, NoteGoto DEF Labels
<1> HIDE DEF Q
<1>6. Goes(State, Q, h, t)
  BY <1>2, <1>5, StateIs, NotesGoes DEF BarrierLabels
<1>7. CASE Becomes(Q)
  BY <1>6, <1>7, GoesKept DEF Keeps
<1>8. CASE ~Becomes(Q)
  <2>1. PICK n \in Runnable(State, h, t) : \E R \in Switch(Q, h, t, n, FALSE) : Becomes(R)
    BY <1>2, <1>8
  <2>2. PICK R \in Switch(Q, h, t, n, FALSE) : Becomes(R)
    BY <2>1
  <2>3. Offered(State, h, t, n)
    BY RunnableOffered DEF Runnable
  <2>4. Pick(State, h, n)
    BY <1>3, <2>3, OfferedPick
  <2>5. Kept(State, R)
    BY <1>6, <2>4, GoesSwitch
  <2> QED
    BY <2>2, <2>5 DEF Keeps
<1> QED
  BY <1>7, <1>8

(* The loop of GOMP_taskwait.                                              *)
LEMMA TaskwaitLoopKeeps ==
  ASSUME NEW h \in Thread, Sound, TaskwaitLoop(h)
  PROVE  Keeps
<1>1. PICK t : t = thr[h].task
  OBVIOUS
<1>a. PICK no \in BOOLEAN, yes \in BOOLEAN : no = FALSE /\ yes = TRUE
  OBVIOUS
<1> DEFINE P == [State EXCEPT !.task[t].tw = no]
           Q == [State EXCEPT !.task[t].tw = yes]
<1>2. /\ task[t].pc = "wait"
      /\ \/ Becomes(Goto(P, t, "run")) \/ Becomes(Goto(Q, t, "poll"))
         \/ \E n \in TaskwaitNext(h, t) \cup Runnable(Q, h, t) :
              \E R \in Switch(Q, h, t, n, FALSE) : Becomes(R)
  BY <1>1, <1>a DEF TaskwaitLoop
<1>3. Runs(State, h, t) /\ Waker(State)
  BY <1>1, ThreadRuns
<1>4. Notes(State, P, h, t, State.task[t].pc, {}, no) /\ Notes(State, Q, h, t, State.task[t].pc, {}, yes)
  BY <1>3, NoteTw
<1> HIDE DEF P, Q
<1>0. State.task[t].pc = "wait"
  BY <1>2, StateIs
<1>5. Notes(State, Goto(P, t, "run"), h, t, "run", {}, no)
  BY <1>4, NoteGoto DEF Labels
<1>6. Notes(State, Goto(Q, t, "poll"), h, t, "poll", {}, yes)
  BY <1>4, NoteGoto DEF Labels
<1>7. Goes(State, Goto(P, t, "run"), h, t)
  BY <1>0, <1>a, <1>5, NotesGoes DEF BarrierLabels
<1>8. Goes(State, Goto(Q, t, "poll"), h, t)
  BY <1>0, <1>6, NotesGoes DEF BarrierLabels
<1>9. Goes(State, Q, h, t)
  BY <1>0, <1>4, NotesGoes DEF BarrierLabels
<1>10. CASE Becomes(Goto(P, t, "run"))
  BY <1>7, <1>10, GoesKept DEF Keeps
<1>11. CASE Becomes(Goto(Q, t, "poll"))
  BY <1>8, <1>11, GoesKept DEF Keeps
<1>12. ASSUME NEW n \in TaskwaitNext(h, t) \cup Runnable(Q, h, t),
              NEW R \in Switch(Q, h, t, n, FALSE), Becomes(R)
       PROVE  Keeps
  <2>1. CASE n \in TaskwaitNext(h, t)
    <3>1. Pick(State, h, n)
      BY <1>3, <2>1, TaskwaitPick
    <3>2. Kept(State, R)
      BY <1>9, <3>1, GoesSwitch
    <3> QED
      BY <1>12, <3>2 DEF Keeps
  <2>2. CASE n \in Runnable(Q, h, t)
    <3>1. Offered(Q, h, t, n)
      BY <2>2, RunnableOffered DEF Runnable
    <3>2. Pick(Q, h, n)
      BY <1>9, <3>1, GoesKept, OfferedPick
    <3>3. Kept(State, R)
      BY <1>9, <3>2, GoesSwitch
    <3> QED
      BY <1>12, <3>3 DEF Keeps
  <2> QED
    BY <2>1, <2>2
<1> QED
  BY <1>2, <1>10, <1>11, <1>12

(* t notes an operation and switches to n.                                 *)
LEMMA OnceSwitchKeeps ==
  ASSUME NEW h \in Thread, Sound, NEW t, thr[h].task = t, task[t].pc = "run",
         NEW op \in AllOps, op \in Ops, NEW n, Offered(State, h, t, n),
         NEW R \in Switch(Once(State, t, op), h, t, n, FALSE), Becomes(R)
  PROVE  Keeps
<1> DEFINE Q == Once(State, t, op)
<1>1. Runs(State, h, t) /\ Waker(State)
  BY ThreadRuns
<1>2. Notes(State, Q, h, t, State.task[t].pc, {op}, State.task[t].tw)
  BY <1>1, NoteOnce
<1>3. R \in Switch(Q, h, t, n, FALSE)
  OBVIOUS
<1> HIDE DEF Q
<1>4. State.task[t].pc = "run"
  BY StateIs
<1>5. ~State.task[t].tw
  BY <1>1, <1>4, RunsTask
<1>6. Goes(State, Q, h, t)
  BY <1>2, <1>4, <1>5, NotesGoes DEF BarrierLabels
<1>7. Pick(State, h, n)
  BY <1>1, OfferedPick
<1>8. Kept(State, R)
  BY <1>3, <1>6, <1>7, GoesSwitch
<1> QED
  BY <1>8 DEF Keeps

(* GOMP_taskyield.                                                         *)
LEMMA TaskyieldKeeps ==
  ASSUME NEW h \in Thread, Sound, Taskyield(h)
  PROVE  Keeps
<1>1. PICK t : t = thr[h].task
  OBVIOUS
<1>2. task[t].pc = "run" /\ "yield" \in Ops
  BY <1>1 DEF Taskyield, Running, May
<1>3. PICK n \in Runnable(State, h, t) :
        \E R \in Switch(Once(State, t, "yield"), h, t, n, FALSE) : Becomes(R)
  BY <1>1 DEF Taskyield
<1>4. PICK R \in Switch(Once(State, t, "yield"), h, t, n, FALSE) : Becomes(R)
  BY <1>3
<1>5. Offered(State, h, t, n)
  BY RunnableOffered DEF Runnable
<1> QED
  BY <1>1, <1>2, <1>4, <1>5, OnceSwitchKeeps DEF AllOps

(* gomp_interrupt_task_scheduling_pre.                                     *)
LEMMA InterruptKeeps ==
  ASSUME NEW h \in Thread, Sound, Interrupt(h)
  PROVE  Keeps
<1>1. PICK t : t = thr[h].task
  OBVIOUS
<1> DEFINE slots == RunnableSlots(State, h, t)
<1>2. task[t].pc = "run" /\ "interrupt" \in Ops
  BY <1>1 DEF Interrupt, Running, May
<1>3. PICK n : /\ n \in Best(State, slots) \/ n \in UNION {slots[i] : i \in DOMAIN slots}
               /\ \E R \in Switch(Once(State, t, "interrupt"), h, t, n, FALSE) : Becomes(R)
  BY <1>1 DEF Interrupt
<1>4. PICK R \in Switch(Once(State, t, "interrupt"), h, t, n, FALSE) : Becomes(R)
  BY <1>3
<1>5. Offered(State, h, t, n)
  <2>1. CASE n \in Best(State, slots)
    BY <2>1, RunnableOffered
  <2>2. CASE n \in UNION {slots[i] : i \in DOMAIN slots}
    <3>1. PICK i \in DOMAIN slots : n \in slots[i]
      BY <2>2
    <3> QED
      BY <3>1, SlotOffered
  <2> QED
    BY <1>3, <2>1, <2>2
<1> HIDE DEF slots
<1> QED
  BY <1>1, <1>2, <1>4, <1>5, OnceSwitchKeeps DEF AllOps

(* A set of tasks has one of the highest priority.                         *)
LEMMA TopSome ==
  ASSUME NEW S \in StateRec, NEW L \in SUBSET Explicit, L # {}
  PROVE  Top(S, L) # {}
<1> DEFINE G == {Q \in SUBSET Explicit : Q # {} => Top(S, Q) # {}}
<1>1. {} \in G
  OBVIOUS
<1>2. ASSUME NEW Q \in SUBSET Explicit, Q # {}, Rest(Q) \in G
      PROVE  Q \in G
  <2>1. PICK x \in Q : Rest(Q) = Q \ {x}
    BY <1>2, ChosenInside DEF Rest
  <2>2. \A c \in Q : S.task[c].prio \in Nat
    BY Names DEF StateRec, TaskRec
  <2>3. CASE Rest(Q) = {}
    <3>1. Q = {x}
      BY <2>1, <2>3
    <3>2. x \in Top(S, Q)
      BY <2>2, <3>1 DEF Top
    <3> QED
      BY <3>2
  <2>4. CASE Rest(Q) # {}
    <3>1. PICK y \in Rest(Q) : \A d \in Rest(Q) : S.task[y].prio >= S.task[d].prio
      BY <1>2, <2>4 DEF Top
    <3>2. y \in Q /\ \A d \in Q : d = x \/ d \in Rest(Q)
      BY <2>1, <3>1
    <3>3. CASE S.task[y].prio >= S.task[x].prio
      <4>1. y \in Top(S, Q)
        BY <3>1, <3>2, <3>3 DEF Top
      <4> QED
        BY <4>1
    <3>4. CASE ~(S.task[y].prio >= S.task[x].prio)
      <4>1. \A d \in Q : S.task[x].prio >= S.task[d].prio
        BY <2>1, <2>2, <3>1, <3>2, <3>4
      <4>2. x \in Top(S, Q)
        BY <4>1 DEF Top
      <4> QED
        BY <4>2
    <3> QED
      BY <3>3, <3>4
  <2> QED
    BY <2>3, <2>4
<1> HIDE DEF G
<1>3. SUBSET Explicit \subseteq G
  BY <1>1, <1>2, ExplicitFinite, SubsetInduction
<1> QED
  BY <1>3 DEF G

(* t takes or gives up the lock of the critical section.                   *)
Locks(S, Q, h, t, v, l) ==
  /\ Runs(S, h, t) /\ RunStep(S, Q, t) /\ ~Q.task[t].tw /\ Q.task[t].done \subseteq Ops
  /\ \/ v = t /\ l = "critical" /\ S.team.lock = None /\ S.task[t].pc \in {"run", "trylock"}
     \/ v = None /\ l = "unlocked" /\ S.task[t].pc = "critical"

(* Taking a free lock and giving it up keep all of it.                     *)
LEMMA LockGoes ==
  ASSUME NEW S, NEW Q, NEW h \in Thread, NEW t, NEW v, NEW l, Locks(S, Q, h, t, v, l)
  PROVE  Goes(S, Goto([Q EXCEPT !.team.lock = v], t, l), h, t)
<1> DEFINE P == [Q EXCEPT !.team.lock = v]
           R == Goto(P, t, l)
<1>1. /\ Runs(S, h, t) /\ RunStep(S, Q, t) /\ ~Q.task[t].tw /\ Q.task[t].done \subseteq Ops
      /\ \/ v = t /\ l = "critical" /\ S.team.lock = None /\ S.task[t].pc \in {"run", "trylock"}
         \/ v = None /\ l = "unlocked" /\ S.task[t].pc = "critical"
  BY DEF Locks
<1>2. t \in Task /\ Q \in StateRec /\ v \in MaybeTask /\ l \in Labels /\ t # None
  BY <1>1, RunsTask, Names DEF RunStep, MaybeTask, Labels
<1>3. RunStep(Q, P, t) /\ P.task = Q.task /\ P.team.lock = v
  BY <1>2, LockEffect
<1> HIDE DEF P
<1>4. P \in StateRec
  BY <1>3 DEF RunStep
<1>5. /\ RunStep(P, R, t) /\ R.team = P.team /\ R.task[t].pc = l
      /\ R.task[t].tw = P.task[t].tw /\ R.task[t].done = P.task[t].done
  BY <1>2, <1>4, GotoEffect
<1> HIDE DEF R
<1>6. RunStep(S, R, t)
  BY <1>1, <1>3, <1>5, RunStepTwice
<1>7. /\ R.task[t].pc = l /\ ~R.task[t].tw /\ R.task[t].done \subseteq Ops
      /\ R.team.lock = v
  BY <1>1, <1>3, <1>5
<1>9. l \notin BarrierLabels /\ S.task[t].pc \notin BarrierLabels
  BY <1>1 DEF BarrierLabels
<1>10. Acts(S, R, t)
  BY <1>1, <1>6, <1>7, <1>9 DEF Acts
<1>11. Waker(R)
  <2>1. CASE v = None
    <3>1. Wakes(R, t)
      BY <1>1, <1>2, <1>7, <2>1 DEF Wakes
    <3> QED
      BY <1>2, <3>1 DEF Waker
  <2>2. CASE v # None
    BY <1>7, <2>2 DEF Waker
  <2> QED
    BY <2>1, <2>2
<1>12. Goes(S, R, h, t)
  BY <1>1, <1>10, <1>11 DEF Goes
<1> QED
  BY <1>12 DEF R, P

(* gomp_mutex_trylock by t, on h.                                          *)
LEMMA TryLockKeeps ==
  ASSUME NEW h \in Thread, Sound, NEW t, thr[h].task = t, NEW Q, NEW d,
         Notes(State, Q, h, t, task[t].pc, d, task[t].tw), d \subseteq Ops, "critical" \in Ops,
         task[t].pc \in {"run", "trylock"}, task[t].pc # "run" => d = {}, TryLock(Q, t)
  PROVE  Keeps
<1>1. Runs(State, h, t) /\ Waker(State) /\ t \in Task /\ t # None
  BY ThreadRuns, Names
<1>2. State.task[t].pc = task[t].pc /\ State.task[t].tw = task[t].tw /\ State.team.lock = team.lock
  BY StateIs
<1>3. ~task[t].tw
  BY <1>1, <1>2, RunsTask
<1>4. CASE team.lock = None
  <2> DEFINE R == Goto([Q EXCEPT !.team.lock = t], t, "critical")
  <2>1. Becomes(R)
    BY <1>4 DEF TryLock
  <2>2. State.task[t].done \subseteq Ops
    BY <1>1 DEF Runs, Core, Facts, Program
  <2>3. Locks(State, Q, h, t, t, "critical")
    BY <1>1, <1>2, <1>3, <1>4, <2>2 DEF Notes, Locks
  <2>4. Goes(State, R, h, t)
    BY <2>3, LockGoes
  <2> HIDE DEF R
  <2> QED
    BY <2>1, <2>4, GoesKept DEF Keeps
<1>5. CASE team.lock # None
  <2> DEFINE R == Goto(Q, t, "contend")
  <2>1. Becomes(R)
    BY <1>5 DEF TryLock
  <2>2. Notes(State, R, h, t, "contend", d, task[t].tw)
    BY NoteGoto DEF Labels
  <2> HIDE DEF R
  <2>3. Goes(State, R, h, t)
    BY <1>2, <1>3, <1>5, <2>2, NotesGoes DEF BarrierLabels
  <2> QED
    BY <2>1, <2>3, GoesKept DEF Keeps
<1> QED
  BY <1>4, <1>5

(* GOMP_critical_start.                                                    *)
LEMMA CriticalStartKeeps ==
  ASSUME NEW h \in Thread, Sound, CriticalStart(h)
  PROVE  Keeps
<1>1. PICK t : t = thr[h].task
  OBVIOUS
<1> DEFINE Q == Once(State, t, "critical")
<1>2. task[t].pc = "run" /\ "critical" \in Ops /\ TryLock(Q, t)
  BY <1>1 DEF CriticalStart, Running, May
<1>3. Runs(State, h, t) /\ Waker(State)
  BY <1>1, ThreadRuns
<1>4. Notes(State, Q, h, t, State.task[t].pc, {"critical"}, State.task[t].tw)
  BY <1>3, NoteOnce DEF AllOps
<1> HIDE DEF Q
<1>5. Notes(State, Q, h, t, task[t].pc, {"critical"}, task[t].tw)
  BY <1>4, StateIs
<1> QED
  BY <1>1, <1>2, <1>5, TryLockKeeps

(* The retry after the lock was seen free.                                 *)
LEMMA CriticalRetryKeeps ==
  ASSUME NEW h \in Thread, Sound, CriticalRetry(h)
  PROVE  Keeps
<1>1. PICK t : t = thr[h].task
  OBVIOUS
<1>2. task[t].pc = "trylock" /\ TryLock(State, t)
  BY <1>1 DEF CriticalRetry
<1>3. Runs(State, h, t) /\ Waker(State) /\ t \in Task
  BY <1>1, ThreadRuns
<1>4. Notes(State, State, h, t, State.task[t].pc, {}, State.task[t].tw)
  BY <1>3, NoteNothing
<1>5. Notes(State, State, h, t, task[t].pc, {}, task[t].tw)
  BY <1>4, StateIs
<1>6. "critical" \in Ops
  BY <1>2, <1>3, StateIs DEF Runs, Core, Facts, Program
<1> QED
  BY <1>1, <1>2, <1>5, <1>6, TryLockKeeps

(* gomp_locked_task_switch.                                                *)
LEMMA CriticalContendKeeps ==
  ASSUME NEW h \in Thread, Sound, CriticalContend(h)
  PROVE  Keeps
<1>1. PICK t : t = thr[h].task
  OBVIOUS
<1>2. /\ task[t].pc = "contend"
      /\ \/ team.lock = None /\ Becomes(Goto(State, t, "trylock"))
         \/ /\ team.lock # None
            /\ \E n \in Runnable(State, h, t) : \E R \in Switch(State, h, t, n, TRUE) : Becomes(R)
  BY <1>1 DEF CriticalContend
<1>3. Runs(State, h, t) /\ Waker(State) /\ t \in Task
  BY <1>1, ThreadRuns
<1>4. State.task[t].pc = "contend" /\ State.team.lock = team.lock
  BY <1>2, StateIs
<1>5. "critical" \in Ops
  BY <1>3, <1>4 DEF Runs, Core, Facts, Program
<1>6. ~State.task[t].tw
  BY <1>3, <1>4, RunsTask
<1>7. CASE Becomes(Goto(State, t, "trylock"))
  <2> DEFINE R == Goto(State, t, "trylock")
  <2>1. Notes(State, State, h, t, State.task[t].pc, {}, State.task[t].tw)
    BY <1>3, NoteNothing
  <2>2. Notes(State, R, h, t, "trylock", {}, State.task[t].tw)
    BY <2>1, NoteGoto DEF Labels
  <2>3. Becomes(R)
    BY <1>7
  <2> HIDE DEF R
  <2>4. Goes(State, R, h, t)
    BY <1>4, <1>5, <1>6, <2>2, NotesGoes DEF BarrierLabels
  <2> QED
    BY <2>3, <2>4, GoesKept DEF Keeps
<1>8. ASSUME team.lock # None, NEW n \in Runnable(State, h, t),
             NEW R \in Switch(State, h, t, n, TRUE), Becomes(R)
      PROVE  Keeps
  <2>1. Offered(State, h, t, n)
    BY RunnableOffered DEF Runnable
  <2>2. Pick(State, h, n)
    BY <1>3, <2>1, OfferedPick
  <2>3. MaySwitch(State, h, t, n, TRUE)
    BY <1>3, <1>4, <1>8, <2>2 DEF MaySwitch
  <2>4. Kept(State, R)
    BY <2>3, SwitchKept
  <2> QED
    BY <1>8, <2>4 DEF Keeps
<1> QED
  BY <1>2, <1>7, <1>8

(* The first half of GOMP_critical_end ...                                 *)
LEMMA CriticalUnlockKeeps ==
  ASSUME NEW h \in Thread, Sound, CriticalUnlock(h)
  PROVE  Keeps
<1>1. PICK t : t = thr[h].task
  OBVIOUS
<1> DEFINE R == Goto([State EXCEPT !.team.lock = None], t, "unlocked")
<1>2. task[t].pc = "critical" /\ Becomes(R)
  BY <1>1 DEF CriticalUnlock
<1>3. Runs(State, h, t) /\ Waker(State) /\ t \in Task
  BY <1>1, ThreadRuns
<1>4. State.task[t].pc = "critical"
  BY <1>2, StateIs
<1>5. ~State.task[t].tw
  BY <1>3, <1>4, RunsTask
<1>6. Notes(State, State, h, t, State.task[t].pc, {}, State.task[t].tw)
  BY <1>3, NoteNothing
<1>7. State.task[t].done \subseteq Ops
  BY <1>3 DEF Runs, Core, Facts, Program
<1>8. Locks(State, State, h, t, None, "unlocked")
  BY <1>3, <1>4, <1>5, <1>6, <1>7 DEF Notes, Locks
<1>9. Goes(State, R, h, t)
  BY <1>8, LockGoes
<1> HIDE DEF R
<1> QED
  BY <1>2, <1>9, GoesKept DEF Keeps

(* ... and the second: a parked contender is passed on to, if there is     *)
(* one.                                                                    *)
LEMMA CriticalEndKeeps ==
  ASSUME NEW h \in Thread, Sound, CriticalEnd(h)
  PROVE  Keeps
<1>1. PICK t : t = thr[h].task
  OBVIOUS
<1> DEFINE Q == Goto(State, t, "run")
           L == {c \in Explicit : task[c].lq = "list"}
<1>2. /\ task[t].pc = "unlocked"
      /\ \/ Top(State, L) = {} /\ Becomes(Q)
         \/ \E c \in Top(State, L) : Becomes(HandleLocking(Q, c))
  BY <1>1 DEF CriticalEnd
<1>3. Runs(State, h, t) /\ Waker(State) /\ t \in Task /\ State \in StateRec
  BY <1>1, ThreadRuns
<1>4. State.task[t].pc = "unlocked"
  BY <1>2, StateIs
<1>5. ~State.task[t].tw
  BY <1>3, <1>4, RunsTask
<1>6. Notes(State, State, h, t, State.task[t].pc, {}, State.task[t].tw)
  BY <1>3, NoteNothing
<1>7. Notes(State, Q, h, t, "run", {}, State.task[t].tw)
  BY <1>6, NoteGoto DEF Labels
<1> HIDE DEF Q
<1>8. CASE Top(State, L) = {} /\ Becomes(Q)
  <2>1. L = {}
    BY <1>3, <1>8, TopSome
  <2>2. \A c \in Explicit : State.task[c].lq # "list"
    BY <2>1, StateIs
  <2>3. Goes(State, Q, h, t)
    BY <1>4, <1>5, <1>7, <2>2, NotesGoes DEF BarrierLabels
  <2> QED
    BY <1>8, <2>3, GoesKept DEF Keeps
<1>9. ASSUME NEW c \in Top(State, L), Becomes(HandleLocking(Q, c))
      PROVE  Keeps
  <2>1. c \in Explicit /\ State.task[c].lq = "list"
    BY StateIs DEF Top
  <2>2. RunStep(State, Q, t) /\ Q.team.lock = State.team.lock /\ Q.task[t].pc = "run"
        /\ Q.task[t].tw = State.task[t].tw /\ Q.task[t].done = State.task[t].done
    BY <1>7 DEF Notes
  <2>3. State.task[t].done \subseteq Ops
    BY <1>3 DEF Runs, Core, Facts, Program
  <2>4. Acts(State, Q, t)
    BY <1>4, <1>5, <2>2, <2>3 DEF Acts, BarrierLabels
  <2>5. Runs(Q, h, t)
    BY <1>3, <2>4, ActsCore
  <2>6. Q.task[c].lq = "list"
    BY <2>1, <2>2, Names DEF RunStep, SameButRun
  <2> DEFINE R == HandleLocking(Q, c)
  <2>7. Core(R) /\ Stay(Q, R) /\ Waker(R)
    BY <2>1, <2>5, <2>6, HandleLockingCore DEF Runs
  <2>8. Becomes(R)
    BY <1>9
  <2> HIDE DEF R
  <2>9. \A g \in Thread : Tied(Q, g) = Tied(State, g)
    BY <2>2, RunStepTied
  <2>10. Kept(State, R)
    BY <2>7, <2>9 DEF Kept, Stay
  <2> QED
    BY <2>8, <2>10 DEF Keeps
<1> QED
  BY <1>2, <1>8, <1>9

(* The end of a task.                                                      *)
LEMMA EndTaskKeeps ==
  ASSUME NEW h \in Thread, Sound, EndTask(h)
  PROVE  Keeps
<1>1. PICK n : n = thr[h].task
  OBVIOUS
<1>2. PICK t : t = task[n].to
  OBVIOUS
<1>3. /\ n \in Explicit /\ task[n].pc = "run"
      /\ Becomes(IF task[t].pc = "brun" THEN BarrierAfter(State, h, t, task[t].from)
                 ELSE ResumeAfter(State, h, t, task[t].from))
  BY <1>1, <1>2 DEF EndTask
<1>4. Runs(State, h, n) /\ Waker(State)
  BY <1>1, ThreadRuns
<1>5. EndsOn(State, h, t, n)
  BY <1>2, <1>3, <1>4, StateIs DEF EndsOn
<1>6. task[t].from = n /\ State.task[t].pc = task[t].pc
  BY <1>5, EndsOnTask, StateIs
<1>7. CASE task[t].pc = "brun"
  <2> DEFINE R == BarrierAfter(State, h, t, n)
  <2>1. Becomes(R)
    BY <1>3, <1>6, <1>7
  <2>2. Core(R) /\ Stay(State, R) /\ Waker(R)
    BY <1>4, <1>5, <1>6, <1>7, BarrierCore
  <2> HIDE DEF R
  <2> QED
    BY <2>1, <2>2 DEF Keeps, Kept
<1>8. CASE task[t].pc # "brun"
  <2> DEFINE R == ResumeAfter(State, h, t, n)
  <2>1. Becomes(R)
    BY <1>3, <1>6, <1>8
  <2>2. Core(R) /\ Stay(State, R) /\ Waker(R)
    BY <1>4, <1>5, ResumeCore
  <2> HIDE DEF R
  <2> QED
    BY <2>1, <2>2 DEF Keeps, Kept
<1> QED
  BY <1>7, <1>8

(* GOMP_task.                                                              *)
LEMMA CreateKeeps ==
  ASSUME NEW h \in Thread, Sound, Create(h)
  PROVE  Keeps
<1>1. PICK c \in Explicit, ty \in Types, p \in Prios : CreateTask(h, c, ty, p)
  BY DEF Create
<1>2. PICK t : t = thr[h].task
  OBVIOUS
<1> DEFINE Q == WithTask(State, c, Newborn(State, t, ty, p))
           First == WakeOne(SuspendUntied([Q EXCEPT !.task[c].kind = "TIED"], h, t, c, FALSE), c)
           Later == WakeOne(Queued([Q EXCEPT !.task[c].tq = "list"]), t)
<1>3. /\ task[t].pc = "run" /\ task[c].kind = "none" /\ \A d \in 1..(c - 1) : task[d].kind # "none"
  BY <1>1, <1>2 DEF CreateTask, Running
<1>4. \/ /\ task[t].type = "UNTIED" /\ (ty = "UNTIED" \/ thr[h].last \in {None, AscOf(State, t)})
         /\ \E R \in First : Becomes(R)
      \/ \E R \in Later : Becomes(R)
  BY <1>1, <1>2 DEF CreateTask
<1>5. Runs(State, h, t) /\ Waker(State) /\ t \in Task
  BY <1>2, ThreadRuns
<1>6. ty \in {"TIED", "UNTIED"} /\ p \in Nat
  BY SchedAssumption DEF Sound, Types, Prios
<1>7. MayCreate(State, h, t, c, ty, p)
  BY <1>3, <1>5, <1>6, StateIs DEF MayCreate
<1>8. ASSUME task[t].type = "UNTIED", ty = "UNTIED" \/ thr[h].last \in {None, AscOf(State, t)},
             NEW R \in First, Becomes(R)
      PROVE  Keeps
  <2>1. State.task[t].type = "UNTIED" /\ (ty = "UNTIED" \/ State.thr[h].last \in {None, AscOf(State, t)})
    BY <1>8, StateIs
  <2>2. Core(R) /\ Stay(State, R) /\ Waker(R)
    BY <1>5, <1>7, <2>1, CreateFirst
  <2> QED
    BY <1>8, <2>2 DEF Keeps, Kept
<1>9. ASSUME NEW R \in Later, Becomes(R)
      PROVE  Keeps
  <2>2. Core(R) /\ Stay(State, R) /\ Waker(R)
    BY <1>5, <1>7, CreateLater
  <2> QED
    BY <1>9, <2>2 DEF Keeps, Kept
<1> HIDE DEF First, Later
<1> QED
  BY <1>4, <1>8, <1>9

(* Thread h arrives; the last one sets over or waiting.                    *)
Arrives(S, R, h, w, o) ==
  /\ R \in StateRec /\ R.thr = S.thr /\ R.task = S.task
  /\ R.team.count = S.team.count /\ R.team.running = S.team.running
  /\ R.team.queued = S.team.queued /\ R.team.pending = S.team.pending
  /\ R.team.lock = S.team.lock /\ R.team.fault = S.team.fault
  /\ R.team.arrived = S.team.arrived \cup {h}
  /\ (R.team.waiting => S.team.waiting \/ w) /\ (R.team.over => S.team.over \/ o)

(* The three outcomes of an arrival.                                       *)
LEMMA ArrivedEffect ==
  ASSUME NEW S \in StateRec, NEW h \in Thread
  PROVE  LET R == [S EXCEPT !.team.arrived = @ \cup {h}]
         IN /\ Arrives(S, R, h, FALSE, FALSE)
            /\ Arrives(S, [R EXCEPT !.team.over = TRUE], h, FALSE, TRUE)
            /\ Arrives(S, [R EXCEPT !.team.waiting = TRUE], h, TRUE, FALSE)
<1> PICK a \in SUBSET Thread : a = S.team.arrived \cup {h}
  BY DEF StateRec, TeamRec
<1> DEFINE V == [S.team EXCEPT !.arrived = a]
           R == [S EXCEPT !.team.arrived = a]
           W == [V EXCEPT !.over = TRUE]
           X == [V EXCEPT !.waiting = TRUE]
<1>1. [S EXCEPT !.team.arrived = @ \cup {h}] = R
  BY Zenon
<1>2. S.team \in TeamRec
  BY DEF StateRec
<1>3. V \in TeamRec /\ W \in TeamRec /\ X \in TeamRec
  BY <1>2 DEF TeamRec
<1>4. /\ R = [S EXCEPT !.team = V] /\ [R EXCEPT !.team.over = TRUE] = [S EXCEPT !.team = W]
      /\ [R EXCEPT !.team.waiting = TRUE] = [S EXCEPT !.team = X]
  BY DEF StateRec
<1>5. Arrives(S, [S EXCEPT !.team = V], h, FALSE, FALSE)
  BY <1>2, <1>3, SetTeam DEF TeamRec, Arrives
<1>6. Arrives(S, [S EXCEPT !.team = W], h, FALSE, TRUE)
  <2>1. /\ W.count = S.team.count /\ W.running = S.team.running /\ W.queued = S.team.queued
        /\ W.pending = S.team.pending /\ W.lock = S.team.lock /\ W.fault = S.team.fault
        /\ W.arrived = S.team.arrived \cup {h} /\ W.waiting = S.team.waiting
    BY <1>2 DEF TeamRec
  <2> HIDE DEF W
  <2> QED
    BY <1>3, <2>1, SetTeam DEF Arrives
<1>7. Arrives(S, [S EXCEPT !.team = X], h, TRUE, FALSE)
  <2>1. /\ X.count = S.team.count /\ X.running = S.team.running /\ X.queued = S.team.queued
        /\ X.pending = S.team.pending /\ X.lock = S.team.lock /\ X.fault = S.team.fault
        /\ X.arrived = S.team.arrived \cup {h} /\ X.over = S.team.over
    BY <1>2 DEF TeamRec
  <2> HIDE DEF X
  <2> QED
    BY <1>3, <2>1, SetTeam DEF Arrives
<1> HIDE DEF V, W, X, R
<1> QED
  BY <1>1, <1>4, <1>5, <1>6, <1>7

(* An arrival is a move in the barrier.                                    *)
LEMMA ArriveMove ==
  ASSUME NEW S, NEW Q, NEW h \in Thread, NEW w, NEW o, Core(S), Arrives(S, Q, h, w, o),
         NEW l, l \in {"bwait", "bsleep", "bloop"}, S.task[h].pc \in {"run", "bwait", "bloop"},
         w \/ o => S.team.arrived \cup {h} = Thread, o => S.team.count = 0
  PROVE  BarrierMove(S, Goto(Q, h, l), h)
<1> DEFINE R == Goto(Q, h, l)
<1>1. h \in Task /\ l \in Labels /\ Q \in StateRec
  BY Names DEF Labels, Arrives
<1>2. /\ RunStep(Q, R, h) /\ R.team = Q.team /\ R.task[h].pc = l
      /\ R.task[h].tw = Q.task[h].tw /\ R.task[h].done = Q.task[h].done
  BY <1>1, GotoEffect
<1> HIDE DEF R
<1>3. /\ S.team.waiting => S.team.arrived = Thread
      /\ S.team.over => S.team.count = 0 /\ S.team.arrived = Thread
  BY DEF Core, Facts, Barrier
<1>4. /\ Q.team.waiting => Q.team.arrived = Thread
      /\ Q.team.over => Q.team.count = 0 /\ Q.team.arrived = Thread
  BY <1>3 DEF Arrives
<1>5. BarrierMove(S, R, h)
  BY <1>2, <1>4 DEF BarrierMove, RunStep, Arrives
<1> QED
  BY <1>5 DEF R

(* A thread arrives at the barrier.                                        *)
LEMMA BarrierArriveKeeps ==
  ASSUME NEW h \in Thread, Sound, BarrierArrive(h)
  PROVE  Keeps
<1> DEFINE Q == [State EXCEPT !.team.arrived = @ \cup {h}]
           P == [Q EXCEPT !.team.over = TRUE]
           O == [Q EXCEPT !.team.waiting = TRUE]
<1>1. /\ task[h].pc = "run"
      /\ \/ Becomes(Goto(Q, h, "bwait"))
         \/ team.arrived \cup {h} = Thread /\ team.count = 0 /\ Becomes(Goto(P, h, "bwait"))
         \/ team.arrived \cup {h} = Thread /\ Becomes(Goto(O, h, "bloop"))
  BY DEF BarrierArrive, Running
<1>2. Core(State) /\ Waker(State) /\ State \in StateRec
  BY DEF Sound, Core, InStep
<1>3. Arrives(State, Q, h, FALSE, FALSE) /\ Arrives(State, P, h, FALSE, TRUE) /\ Arrives(State, O, h, TRUE, FALSE)
  BY <1>2, ArrivedEffect
<1> HIDE DEF Q, P, O
<1>4. State.task[h].pc = "run" /\ State.team.arrived = team.arrived /\ State.team.count = team.count
  BY <1>1, StateIs
<1>5. CASE Becomes(Goto(Q, h, "bwait"))
  <2>1. BarrierMove(State, Goto(Q, h, "bwait"), h)
    BY <1>2, <1>3, <1>4, ArriveMove
  <2> QED
    BY <1>2, <1>5, <2>1, MoveCore DEF Keeps, Kept
<1>6. CASE team.arrived \cup {h} = Thread /\ team.count = 0 /\ Becomes(Goto(P, h, "bwait"))
  <2>1. BarrierMove(State, Goto(P, h, "bwait"), h)
    BY <1>2, <1>3, <1>4, <1>6, ArriveMove
  <2> QED
    BY <1>2, <1>6, <2>1, MoveCore DEF Keeps, Kept
<1>7. CASE team.arrived \cup {h} = Thread /\ Becomes(Goto(O, h, "bloop"))
  <2>1. BarrierMove(State, Goto(O, h, "bloop"), h)
    BY <1>2, <1>3, <1>4, <1>7, ArriveMove
  <2> QED
    BY <1>2, <1>7, <2>1, MoveCore DEF Keeps, Kept
<1> QED
  BY <1>1, <1>5, <1>6, <1>7

(* Moves inside the barrier.                                               *)
LEMMA InsideMove ==
  ASSUME NEW S, NEW h \in Thread, Core(S), NEW l, l \in {"bwait", "bsleep", "bloop"},
         S.task[h].pc \in {"bwait", "bloop"}
  PROVE  BarrierMove(S, Goto(S, h, l), h)
<1> DEFINE R == Goto(S, h, l)
<1>1. h \in Task /\ l \in Labels /\ S \in StateRec
  BY Names DEF Labels, Core, InStep
<1>2. /\ RunStep(S, R, h) /\ R.team = S.team /\ R.task[h].pc = l
      /\ R.task[h].tw = S.task[h].tw /\ R.task[h].done = S.task[h].done
  BY <1>1, GotoEffect
<1> HIDE DEF R
<1>3. /\ S.team.waiting => S.team.arrived = Thread
      /\ S.team.over => S.team.count = 0 /\ S.team.arrived = Thread
      /\ h \in S.team.arrived
  BY DEF Core, Facts, Barrier, BarrierLabels
<1>4. BarrierMove(S, R, h)
  BY <1>2, <1>3 DEF BarrierMove, RunStep
<1> QED
  BY <1>4 DEF R

(* do_wait.                                                                *)
LEMMA BarrierSpinKeeps ==
  ASSUME NEW h \in Thread, Sound, BarrierSpin(h)
  PROVE  Keeps
<1>1. PICK l : l \in {"bsleep", "bloop"} /\ task[h].pc = "bwait" /\ Becomes(Goto(State, h, l))
  BY DEF BarrierSpin
<1>2. Core(State) /\ Waker(State) /\ State.task[h].pc = "bwait"
  BY <1>1, StateIs DEF Sound
<1>3. BarrierMove(State, Goto(State, h, l), h)
  BY <1>1, <1>2, InsideMove
<1> QED
  BY <1>1, <1>2, <1>3, MoveCore DEF Keeps, Kept

(* One turn of gomp_barrier_handle_tasks.                                  *)
LEMMA BarrierLoopKeeps ==
  ASSUME NEW h \in Thread, Sound, BarrierLoop(h)
  PROVE  Keeps
<1> DEFINE A == NextTask(State, ReadySuspended(State, h, "TIED"), ReadySuspended(State, h, "UNTIED"))
           B == NextTask(State, ReadyTeam(State, "TIED"), ReadyTeam(State, "UNTIED"))
<1>1. /\ thr[h].task = h /\ task[h].pc = "bloop"
      /\ \/ Becomes(Goto(State, h, "bwait"))
         \/ \E n \in A \cup B : Becomes(StartTask(RunPre(State, n), h, n))
  BY DEF BarrierLoop
<1>2. Runs(State, h, h) /\ Waker(State)
  BY <1>1, ThreadRuns
<1>3. Core(State) /\ State.task[h].pc = "bloop"
  BY <1>1, StateIs DEF Sound
<1>4. CASE Becomes(Goto(State, h, "bwait"))
  <2>1. BarrierMove(State, Goto(State, h, "bwait"), h)
    BY <1>3, InsideMove
  <2> QED
    BY <1>2, <1>3, <1>4, <2>1, MoveCore DEF Keeps, Kept
<1>5. ASSUME NEW n \in A \cup B, Becomes(StartTask(RunPre(State, n), h, n))
      PROVE  Keeps
  <2>1. Pick(State, h, n)
    BY <1>2, BarrierPick
  <2>2. n \in Explicit
    BY <2>1 DEF Pick
  <2> DEFINE R == StartTask(RunPre(State, n), h, n)
  <2>3. Core(R) /\ Stay(State, R) /\ Waker(R)
    BY <1>2, <1>3, <2>1, <2>2, StartCore
  <2>4. Becomes(R)
    BY <1>5
  <2> HIDE DEF R
  <2> QED
    BY <2>3, <2>4 DEF Keeps, Kept
<1> QED
  BY <1>1, <1>4, <1>5

(* The next state is the one the action names.                             *)
LEMMA BecomesState ==
  ASSUME NEW R \in StateRec, Becomes(R)
  PROVE  State' = R /\ prog' = prog
BY DEF Becomes, State, StateRec

(* The settings do not change.                                             *)
LEMMA CoreNext ==
  ASSUME NEW R, Core(R), State' = R, prog' = prog
  PROVE  Core(State)'
<1>1. \A t \in Explicit : Reason(State, t)'
  <2> SUFFICES ASSUME NEW t \in Explicit PROVE Reason(State, t)'
    OBVIOUS
  <2>1. Reason(R, t)
    BY DEF Core, InStep
  <2>2. IsBlockedUntied(R, t) <=> IsBlockedUntied(State, t)'
    BY DEF IsBlockedUntied, UntiedBlock
  <2>3. Held(R, t) <=> Held(State, t)'
    BY <2>2 DEF Held
  <2> QED
    BY <2>1, <2>3 DEF Reason
<1>2. InStep(State, {})'
  <2>1. InStep(R, {})
    BY DEF Core
  <2> QED
    BY <1>1, <2>1 DEF InStep
<1>3. Program(State)'
  <2>1. Program(R)
    BY DEF Core, Facts
  <2> QED
    BY <2>1 DEF Program, Types, Ops
<1>4. Facts(State)'
  <2>1. Facts(R)
    BY DEF Core
  <2> QED
    BY <1>3, <2>1 DEF Facts
<1>5. Structure(State)'
  BY DEF Core
<1> QED
  BY <1>2, <1>4, <1>5 DEF Core

(* A step that keeps all of it keeps the invariant.                        *)
LEMMA KeepsSound ==
  ASSUME Sound, Keeps
  PROVE  Sound' /\ \E R : State' = R /\ Stay(State, R)
<1>1. PICK R : Becomes(R) /\ Kept(State, R)
  BY DEF Keeps
<1>2. Core(R) /\ Stay(State, R) /\ Waker(R) /\ R \in StateRec
  BY <1>1 DEF Kept, Core, InStep
<1>3. State' = R /\ prog' = prog
  BY <1>1, <1>2, BecomesState
<1>4. Core(State)'
  BY <1>2, <1>3, CoreNext
<1>5. Waker(State)'
  BY <1>2, <1>3
<1> QED
  BY <1>2, <1>3, <1>4, <1>5 DEF Sound

(* Every action keeps it.                                                  *)
LEMMA NextKeeps ==
  ASSUME Sound, NEW h \in Thread, Call(h) \/ Step(h)
  PROVE  Keeps
<1>1. CASE Call(h)
  BY <1>1, CreateKeeps, TaskwaitCallKeeps, TaskyieldKeeps, InterruptKeeps, CriticalStartKeeps DEF Call
<1>2. CASE Step(h)
  <2>1. CASE EndTask(h) \/ TaskwaitLoop(h) \/ TaskwaitPoll(h) \/ TaskwaitTry(h)
    BY <2>1, EndTaskKeeps, TaskwaitLoopKeeps, TaskwaitPollKeeps, TaskwaitTryKeeps
  <2>2. CASE CriticalRetry(h) \/ CriticalContend(h) \/ CriticalUnlock(h) \/ CriticalEnd(h)
    BY <2>2, CriticalRetryKeeps, CriticalContendKeeps, CriticalUnlockKeeps, CriticalEndKeeps
  <2>3. CASE BarrierArrive(h) \/ BarrierSpin(h) \/ BarrierLoop(h)
    BY <2>3, BarrierArriveKeeps, BarrierSpinKeeps, BarrierLoopKeeps
  <2> QED
    BY <1>2, <2>1, <2>2, <2>3 DEF Step
<1> QED
  BY <1>1, <1>2

(* The initial state ...                                                   *)
LEMMA InitialRecords ==
  ASSUME Init
  PROVE  /\ State \in StateRec
         /\ \A h \in Thread : /\ State.task[h] = InitTask("IMPLICIT", "TIED", 0, None, None, {})
                              /\ State.thr[h].task = h /\ State.thr[h].last = None
         /\ \A t \in Explicit : State.task[t] = Uncreated
<1>1. InitTask("IMPLICIT", "TIED", 0, None, None, {}) \in TaskRec
  <2>1. None \in MaybeTask /\ "out" \in Places /\ "IMPLICIT" \in Kinds /\ "run" \in Labels
    BY DEF MaybeTask, Places, Kinds, Labels
  <2> QED
    BY <2>1 DEF InitTask, TaskRec
<1>2. Uncreated \in TaskRec
  BY BlankRecords
<1>3. task \in [Task -> TaskRec]
  BY <1>1, <1>2 DEF Init
<1>4. thr \in [Thread -> ThrRec]
  BY Names DEF Init, ThrRec, MaybeTask
<1>5. team \in TeamRec
  BY DEF Init, TeamRec, MaybeTask
<1>6. State \in StateRec
  BY <1>3, <1>4, <1>5 DEF State, StateRec
<1>7. \A h \in Thread : /\ State.task[h] = InitTask("IMPLICIT", "TIED", 0, None, None, {})
                        /\ State.thr[h].task = h /\ State.thr[h].last = None
  BY Names DEF Init, State
<1>8. \A t \in Explicit : State.task[t] = Uncreated
  BY Names DEF Init, State
<1> QED
  BY <1>6, <1>7, <1>8

(* ... field by field ...                                                  *)
LEMMA InitialFields ==
  ASSUME Init
  PROVE  /\ \A t \in Task : LET T == State.task[t]
                            IN /\ T.child = "out" /\ T.tq = "out" /\ T.sq = "out" /\ T.lq = "out"
                               /\ ~T.tw /\ T.pc = "run" /\ T.to = None /\ T.from = None
                               /\ T.prev = None /\ T.next = None /\ T.parent = None /\ T.asc = None
                               /\ T.done = {} /\ T.creators = {} /\ T.type = "TIED" /\ T.susp = None
         /\ \A h \in Thread : State.task[h].kind = "IMPLICIT"
         /\ \A t \in Explicit : State.task[t].kind = "none"
<1>1. \A h \in Thread : State.task[h] = InitTask("IMPLICIT", "TIED", 0, None, None, {})
  BY InitialRecords
<1>2. \A t \in Explicit : State.task[t] = InitTask("none", "TIED", 0, None, None, {})
  BY InitialRecords DEF Uncreated
<1>3. ASSUME NEW t \in Task
      PROVE  \E k : State.task[t] = InitTask(k, "TIED", 0, None, None, {})
  BY <1>1, <1>2 DEF Task
<1>4. ASSUME NEW t \in Task
      PROVE  LET T == State.task[t]
             IN /\ T.child = "out" /\ T.tq = "out" /\ T.sq = "out" /\ T.lq = "out"
                /\ ~T.tw /\ T.pc = "run" /\ T.to = None /\ T.from = None
                /\ T.prev = None /\ T.next = None /\ T.parent = None /\ T.asc = None
                /\ T.done = {} /\ T.creators = {} /\ T.type = "TIED" /\ T.susp = None
  <2>1. PICK k : State.task[t] = InitTask(k, "TIED", 0, None, None, {})
    BY <1>3
  <2> QED
    BY <2>1 DEF InitTask
<1>5. \A h \in Thread : State.task[h].kind = "IMPLICIT"
  BY <1>1 DEF InitTask
<1>6. \A t \in Explicit : State.task[t].kind = "none"
  BY <1>2 DEF InitTask
<1> QED
  BY <1>4, <1>5, <1>6

(* ... satisfies the invariant.                                            *)
LEMMA InitSound ==
  ASSUME Init
  PROVE  Sound
<1>1. State \in StateRec /\ \A h \in Thread : State.thr[h].task = h /\ State.thr[h].last = None
  BY InitialRecords
<1>2. \A t \in Task : LET T == State.task[t]
                      IN /\ T.child = "out" /\ T.tq = "out" /\ T.sq = "out" /\ T.lq = "out"
                         /\ ~T.tw /\ T.pc = "run" /\ T.to = None /\ T.from = None
                         /\ T.prev = None /\ T.next = None /\ T.parent = None /\ T.asc = None
                         /\ T.done = {} /\ T.creators = {} /\ T.type = "TIED" /\ T.susp = None
  BY InitialFields
<1>3. /\ \A h \in Thread : State.task[h].kind = "IMPLICIT"
      /\ \A t \in Explicit : State.task[t].kind = "none"
  BY InitialFields
<1>4. /\ State.team.count = 0 /\ State.team.queued = 0 /\ State.team.running = 0
      /\ State.team.pending = FALSE /\ State.team.arrived = {} /\ State.team.waiting = FALSE
      /\ State.team.over = FALSE /\ State.team.fault = FALSE
  BY DEF Init, State
<1>5. InStep(State, {})
  <2>1. \A t \in Explicit : Alone(State.task[t], t)
    BY <1>2, <1>3, Names DEF Alone
  <2>2. \A t \in Explicit : Reason(State, t)
    BY <1>3 DEF Reason
  <2>3. QueuedIn(State) = {}
    BY <1>2, Names DEF QueuedIn
  <2>4. Counted(State)
    BY <1>4, <2>3, FS_EmptySet DEF Counted
  <2> QED
    BY <1>1, <1>2, <1>3, <2>1, <2>2, <2>4, Names DEF InStep
<1>6. ASSUME NEW h \in Thread
      PROVE  On(State, h) = {h} /\ Tied(State, h) = {}
  <2>1. On(State, h) = {h}
    BY <1>1, <1>3, Names DEF On
  <2> QED
    BY <2>1, Names DEF Tied
<1>7. Chains(State, {})
  <2>1. ASSUME NEW h \in Thread
        PROVE  Chain(h, On(State, h), State.thr[h].task, To(State), From(State))
    <3>1. To(State)[h] = None /\ From(State)[h] = None
      BY <1>2, Names DEF To, From
    <3> QED
      BY <1>1, <1>6, <3>1 DEF Chain
  <2> QED
    BY <1>1, <1>2, <1>3, <2>1, Names DEF Chains
<1>8. Lists(State)
  BY <1>1, <1>2, <1>6, Names DEF Lists, TiedList
<1>9. Descent(State)
  BY <1>2, Names DEF Descent, Descends
<1>10. OneLine(State)
  BY <1>6 DEF OneLine
<1>11. Linked(State)
  BY <1>2, <1>3, Names DEF Linked, BarrierLabels
<1>12. Exclusive(State)
  BY <1>2 DEF Exclusive
<1>13. Barrier(State)
  <2>1. LiveIn(State) = {} /\ RunSet(State) = {}
    BY <1>2, <1>3, Names DEF LiveIn, RunSet
  <2>2. \A h \in Thread : h \in State.team.arrived <=> State.task[h].pc \in BarrierLabels
    BY <1>2, <1>4, Names DEF BarrierLabels
  <2> QED
    BY <1>4, <2>1, <2>2, FS_EmptySet DEF Barrier
<1>14. Program(State)
  <2>1. LiveIn(State) = {}
    BY <1>3 DEF LiveIn
  <2> QED
    BY <1>2, <1>4, <2>1 DEF Program
<1>15. Waker(State)
  BY <1>2, Names DEF Waker
<1>16. prog \in Programs
  BY DEF Init
<1> QED
  BY <1>5, <1>7, <1>8, <1>9, <1>10, <1>11, <1>12, <1>13, <1>14, <1>15, <1>16 DEF Sound, Core, Structure, Facts

(* The parts of the invariant.                                             *)
LEMMA SoundParts ==
  ASSUME Sound
  PROVE  /\ InStep(State, {}) /\ Chains(State, {}) /\ Lists(State) /\ Descent(State) /\ OneLine(State)
         /\ Linked(State) /\ Exclusive(State) /\ Barrier(State) /\ Program(State)
         /\ State \in StateRec /\ Live = LiveIn(State)
<1>1. Live = LiveIn(State)
  BY StateIs DEF Live, LiveIn
<1> QED
  BY <1>1 DEF Sound, Core, Structure, Facts, InStep

(* The tied tasks of a thread, in the words of the model.                  *)
LEMMA LiveTied ==
  ASSUME Sound, NEW h \in Thread
  PROVE  TiedOn(h) = Tied(State, h)
<1>1. \A t \in Explicit : thr[h].task = t => task[t].kind = "TIED"
  BY SoundParts, StateIs DEF Chains
<1> QED
  BY <1>1, StateIs, Names DEF TiedOn, Live, Tied, On

(* The invariant implies the type invariant ...                            *)
LEMMA SoundType ==
  ASSUME Sound
  PROVE  TypeOK
<1>1. State \in StateRec /\ prog \in Programs
  BY SoundParts DEF Sound
<1>2. task \in [Task -> TaskRec] /\ thr \in [Thread -> ThrRec] /\ team \in TeamRec
  BY <1>1, StateIs DEF StateRec
<1>3. \A t \in Task : task[t].done \subseteq Ops
  BY SoundParts, StateIs DEF Program
<1>4. team.count \in Nat
  <2>1. IsFiniteSet(LiveIn(State))
    BY ExplicitFinite, FS_Subset DEF LiveIn
  <2> QED
    BY <2>1, SoundParts, StateIs, FS_CardinalityType DEF Barrier
<1>5. team.queued \in Nat
  <2>1. IsFiniteSet(QueuedIn(State))
    BY ExplicitFinite, FS_Subset DEF QueuedIn
  <2> QED
    BY <2>1, SoundParts, StateIs, FS_CardinalityType DEF InStep, Counted
<1>6. team.running \in Nat
  <2>1. IsFiniteSet(RunSet(State))
    BY SchedAssumption, FS_Subset DEF RunSet
  <2> QED
    BY <2>1, SoundParts, StateIs, FS_CardinalityType DEF Barrier
<1> DEFINE Rec == [kind : Kinds, type : {"TIED", "UNTIED"}, prio : Nat, parent : MaybeTask,
                   asc : MaybeTask, blocked : BOOLEAN, susp : Thread \cup {None},
                   tw : BOOLEAN, inTied : BOOLEAN, to : MaybeTask, from : MaybeTask,
                   prev : MaybeTask, next : MaybeTask, child : Places, tq : Places,
                   sq : Places, lq : Places, pc : Labels, done : SUBSET Ops,
                   creators : SUBSET Task]
<1>7. ASSUME NEW t \in Task PROVE task[t] \in Rec
  <2>1. task[t] \in TaskRec /\ task[t].done \in SUBSET Ops
    BY <1>2, <1>3
  <2> QED
    BY <2>1 DEF TaskRec
<1>8. task \in [Task -> Rec]
  <2> HIDE DEF Rec
  <2> QED
    BY <1>2, <1>7
<1>9. thr \in [Thread -> [task : Task, last : MaybeTask]]
  BY <1>2 DEF ThrRec
<1>10. team \in [count : Nat, queued : Nat, running : Nat, pending : BOOLEAN,
                 arrived : SUBSET Thread, waiting : BOOLEAN, over : BOOLEAN,
                 lock : MaybeTask, fault : BOOLEAN]
  BY <1>2, <1>4, <1>5, <1>6 DEF TeamRec
<1> QED
  BY <1>1, <1>8, <1>9, <1>10 DEF TypeOK

(* ... that the queues and the blocked flags agree ...                     *)
LEMMA SoundQueues ==
  ASSUME Sound
  PROVE  QueuesAgree /\ BlockedForAReason
<1>1. \A t \in Explicit : Alone(State.task[t], t) /\ Reason(State, t)
  BY SoundParts DEF InStep
<1>2. Live \subseteq Explicit
  BY DEF Live
<1>3. QueuesAgree
  <2> SUFFICES ASSUME NEW t \in Live
               PROVE  LET T == task[t]
                          here == ListOf(T.blocked)
                      IN /\ T.kind = "WAITING" =>
                              /\ T.tq = here
                              /\ T.parent # None => T.child = here
                              /\ T.sq = IF T.susp = None THEN "out" ELSE here
                         /\ T.kind = "TIED" => T.tq = "out" /\ T.sq = "out" /\ T.child # "blocked"
                         /\ T.kind = "TIED_SUSPENDED" =>
                              T.type = "TIED" /\ T.tq = "out" /\ T.sq = here /\ T.child # "blocked"
                         /\ T.lq # "out" => T.blocked /\ T.kind \in {"WAITING", "TIED_SUSPENDED"}
    BY DEF QueuesAgree
  <2>1. Alone(task[t], t)
    BY <1>1, <1>2, StateIs
  <2> QED
    BY <2>1 DEF Alone
<1>4. BlockedForAReason
  <2> SUFFICES ASSUME NEW t \in Live, task[t].kind \in {"WAITING", "TIED_SUSPENDED"}
               PROVE  task[t].blocked <=>
                        \/ task[t].lq = "list"
                        \/ /\ task[t].tw
                           /\ IF task[t].type = "TIED" THEN IsBlockedTied(State, t)
                              ELSE IsBlockedUntied(State, t)
    BY DEF BlockedForAReason
  <2>1. Reason(State, t)
    BY <1>1, <1>2
  <2> QED
    BY <2>1, StateIs DEF Reason, Held
<1> QED
  BY <1>3, <1>4

(* ... that the counters are exact ...                                     *)
LEMMA SoundCounters ==
  ASSUME Sound
  PROVE  CountersExact
<1>1. QueuedIn(State) = ReadyTeam(State, "TIED") \cup ReadyTeam(State, "UNTIED")
  <2>1. \A t \in Explicit : State.task[t].type \in {"TIED", "UNTIED"}
    BY SoundParts, Names DEF StateRec, TaskRec
  <2> QED
    BY <2>1 DEF QueuedIn, ReadyTeam, OfType
<1>2. RunSet(State) = {h \in Thread : task[h].pc = "brun"}
  BY StateIs DEF RunSet
<1> QED
  BY <1>1, <1>2, SoundParts, StateIs DEF InStep, Counted, Barrier, CountersExact

(* Every task that has links is on a chain.                                *)
LEMMA OnSome ==
  ASSUME Sound, NEW t \in Task,
         t \in Thread \/ task[t].kind \in {"TIED", "TIED_SUSPENDED"}
  PROVE  \E h \in Thread : t \in On(State, h)
<1>1. CASE t \in Thread
  BY <1>1 DEF On
<1>2. CASE t \in Explicit /\ task[t].kind = "TIED"
  <2>1. \E h \in Thread : State.thr[h].task = t
    BY <1>2, SoundParts, StateIs DEF Chains
  <2> QED
    BY <1>2, <2>1 DEF On
<1>3. CASE t \in Explicit /\ task[t].kind = "TIED_SUSPENDED"
  <2>1. Alone(State.task[t], t) /\ State.task[t] \in TaskRec
    BY <1>3, SoundParts DEF InStep, StateRec
  <2>2. State.task[t].susp \in Thread
    BY <1>3, <2>1, StateIs DEF Alone, TaskRec
  <2> QED
    BY <1>3, <2>2, StateIs DEF On
<1> QED
  BY <1>1, <1>2, <1>3 DEF Task

(* ... that the chains are sound ...                                       *)
LEMMA SoundChains ==
  ASSUME Sound
  PROVE  ChainsSound
<1>1. \A h \in Thread : Chain(h, On(State, h), State.thr[h].task, To(State), From(State))
  BY SoundParts DEF Chains
<1>2. \A t \in Task : To(State)[t] = task[t].to /\ From(State)[t] = task[t].from
  BY StateIs DEF To, From
<1>3. \A h \in Thread : On(State, h) \subseteq Task /\ None \notin On(State, h)
  BY OnTasks
<1>4. \A t \in Explicit : task[t].kind \notin {"TIED", "TIED_SUSPENDED"} => task[t].to = None /\ task[t].from = None
  BY SoundParts, StateIs DEF Chains
<1>5. ASSUME NEW t \in Task, NEW n \in Task, task[t].from = n
      PROVE  task[n].to = t
  <2>1. t \in Thread \/ task[t].kind \in {"TIED", "TIED_SUSPENDED"}
    BY <1>4, <1>5, Names DEF Task
  <2>2. PICK h \in Thread : t \in On(State, h)
    BY <2>1, OnSome
  <2>3. Chain(h, On(State, h), State.thr[h].task, To(State), From(State))
    BY <1>1
  <2>4. From(State)[t] = n /\ n # None
    BY <1>2, <1>5, Names
  <2>5. To(State)[n] = t
    BY <2>2, <2>3, <2>4 DEF Chain
  <2> QED
    BY <1>2, <2>5
<1>6. ASSUME NEW n \in Live, task[n].to # None
      PROVE  task[task[n].to].from = n
  <2>1. n \in Explicit /\ n \in Task /\ n \notin Thread
    BY Names DEF Live
  <2>2. PICK h \in Thread : n \in On(State, h)
    BY <1>4, <1>6, <2>1, OnSome
  <2>3. Chain(h, On(State, h), State.thr[h].task, To(State), From(State)) /\ n # h
    BY <1>1, <2>1
  <2>4. To(State)[n] \in On(State, h) /\ From(State)[To(State)[n]] = n
    BY <2>2, <2>3 DEF Chain
  <2>5. task[n].to \in Task
    BY <1>2, <1>3, <2>1, <2>4
  <2> QED
    BY <1>2, <2>1, <2>4, <2>5
<1>7. ASSUME NEW h \in Thread
      PROVE  task[thr[h].task].from = None
  <2>1. State.task[State.thr[h].task].from = None
    BY SoundParts, Current
  <2> QED
    BY <2>1, StateIs
<1>8. \A g, h \in Thread : thr[g].task = thr[h].task => g = h
  BY SoundParts, StateIs DEF Chains
<1>9. ASSUME NEW t \in Live
      PROVE  task[t].to # None <=> task[t].kind \in {"TIED", "TIED_SUSPENDED"}
  <2>1. t \in Explicit /\ t \in Task /\ t \notin Thread
    BY Names DEF Live
  <2>2. CASE task[t].kind \in {"TIED", "TIED_SUSPENDED"}
    <3>1. PICK h \in Thread : t \in On(State, h)
      BY <2>1, <2>2, OnSome
    <3>2. Chain(h, On(State, h), State.thr[h].task, To(State), From(State)) /\ t # h
      BY <1>1, <2>1
    <3>3. To(State)[t] \in On(State, h)
      BY <3>1, <3>2 DEF Chain
    <3> QED
      BY <1>2, <1>3, <2>1, <2>2, <3>3
  <2> QED
    BY <1>4, <2>1, <2>2
<1> QED
  BY <1>5, <1>6, <1>7, <1>8, <1>9 DEF ChainsSound

(* ... the task scheduling constraint, kept by the last tied task ...      *)
LEMMA SoundTied ==
  ASSUME Sound
  PROVE  TaskSchedulingConstraint /\ LastTiedIsYoungest
<1>1. \A h \in Thread : TiedOn(h) = Tied(State, h)
  BY LiveTied
<1>2. \A h \in Thread : Tied(State, h) \subseteq Explicit /\ Tied(State, h) \subseteq Nat
  BY ExplicitFinite DEF Tied
<1>3. \A h \in Thread : \A s, t \in Tied(State, h) : s < t => s \in task[t].creators
  BY SoundParts, StateIs DEF OneLine
<1>4. TaskSchedulingConstraint
  <2> SUFFICES ASSUME NEW h \in Thread, NEW s \in TiedOn(h), NEW t \in TiedOn(h)
               PROVE  s = t \/ s \in task[t].creators \/ t \in task[s].creators
    BY DEF TaskSchedulingConstraint
  <2>1. s \in Tied(State, h) /\ t \in Tied(State, h) /\ s \in Nat /\ t \in Nat
    BY <1>1, <1>2
  <2>2. s = t \/ s < t \/ t < s
    BY <2>1
  <2> QED
    BY <1>3, <2>1, <2>2
<1>5. LastTiedIsYoungest
  <2> SUFFICES ASSUME NEW h \in Thread
               PROVE  IF TiedOn(h) = {} THEN thr[h].last = None
                      ELSE /\ thr[h].last \in TiedOn(h)
                           /\ TiedOn(h) \ {thr[h].last} \subseteq task[thr[h].last].creators
    BY DEF LastTiedIsYoungest
  <2> DEFINE D == Tied(State, h)
             last == thr[h].last
  <2>1. TiedList(D, last, Prevs(State), Nexts(State))
    BY SoundParts, StateIs DEF Lists
  <2>2. IF D = {} THEN last = None ELSE last \in D /\ \A s \in D : s <= last
    BY <2>1 DEF TiedList
  <2>3. ASSUME NEW s \in D, s # last, D # {}
        PROVE  s \in task[last].creators
    <3>1. s \in Nat /\ last \in Nat /\ last \in D /\ s <= last
      BY <1>2, <2>2, <2>3
    <3>2. s < last
      BY <2>3, <3>1
    <3> QED
      BY <1>3, <3>1, <3>2
  <2> QED
    BY <1>1, <2>2, <2>3
<1> QED
  BY <1>4, <1>5

(* ... what the critical section promises ...                              *)
LEMMA SoundCritical ==
  ASSUME Sound
  PROVE  CriticalSound
<1>1. CriticalExclusive
  BY SoundParts, StateIs DEF Exclusive, CriticalExclusive
<1>2. ContenderHasWaker
  <2> SUFFICES ASSUME NEW t \in Live, task[t].lq = "list", team.lock = None
               PROVE  \E u \in Task : \/ task[u].pc = "unlocked"
                                      \/ task[u].pc \in {"trylock", "contend"} /\ task[u].lq = "out"
    BY DEF ContenderHasWaker
  <2>1. t \in Explicit /\ State.task[t].lq = "list" /\ State.team.lock = None
    BY StateIs DEF Live
  <2>2. \E u \in Task : Wakes(State, u)
    BY <2>1 DEF Sound, Waker
  <2> QED
    BY <2>2, StateIs DEF Wakes
<1> QED
  BY <1>1, <1>2 DEF CriticalSound

(* ... and that a region that is over is complete.                         *)
LEMMA SoundRegion ==
  ASSUME Sound
  PROVE  RegionComplete
<1> SUFFICES ASSUME team.over
             PROVE  /\ Live = {} /\ team.arrived = Thread
                    /\ \A h \in Thread : thr[h] = [task |-> h, last |-> None]
  BY DEF RegionComplete
<1>1. team.count = 0 /\ team.arrived = Thread /\ team.count = Cardinality(Live)
  BY SoundParts, StateIs DEF Barrier
<1>2. Live = {}
  <2>1. IsFiniteSet(Live)
    BY ExplicitFinite, FS_Subset DEF Live
  <2> QED
    BY <1>1, <2>1, FS_EmptySet
<1>3. ASSUME NEW h \in Thread
      PROVE  thr[h] = [task |-> h, last |-> None]
  <2>1. TiedOn(h) = {}
    BY <1>2 DEF TiedOn
  <2>2. thr[h].last = None
    BY <2>1, SoundTied DEF LastTiedIsYoungest
  <2>3. thr[h].task = h \/ thr[h].task \in Explicit
    BY SoundParts, StateIs, Current
  <2>4. thr[h].task \in Explicit => task[thr[h].task].kind = "TIED"
    BY SoundParts, StateIs DEF Chains
  <2>5. thr[h].task = h
    BY <1>2, <2>3, <2>4 DEF Live
  <2>6. thr[h] \in ThrRec
    BY SoundParts, StateIs DEF StateRec
  <2> QED
    BY <2>2, <2>5, <2>6 DEF ThrRec
<1> QED
  BY <1>1, <1>2, <1>3
-----------------------------------------------------------------------------
(* Every step keeps the inductive invariant.                               *)
LEMMA SoundStep ==
  ASSUME Sound, [Next]_vars
  PROVE  Sound'
<1>1. CASE UNCHANGED vars
  <2>1. State' = State /\ prog' = prog
    BY <1>1 DEF vars, State
  <2>2. Core(State) /\ Waker(State)
    BY DEF Sound
  <2>3. Core(State)'
    BY <2>1, <2>2, CoreNext
  <2>4. Waker(State)'
    BY <2>1, <2>2
  <2> QED
    BY <2>1, <2>3, <2>4 DEF Sound
<1>2. CASE \E h \in Thread : Call(h) \/ Step(h)
  BY <1>2, NextKeeps, KeepsSound
<1> QED
  BY <1>1, <1>2 DEF Next, RegionOver

(* Where the tied tasks are, in the words of the model and of the proofs.  *)
TiedAgree == \A h \in Thread : TiedOn(h) = Tied(State, h)

(* A tied task stays on its thread.                                        *)
LEMMA StepStay ==
  ASSUME Sound, TiedAgree, TiedAgree', [Next]_vars
  PROVE  [\A h \in Thread, t \in Explicit :
            t \in TiedOn(h) => t \in TiedOn(h)' \/ task'[t].kind = "freed"]_vars
<1>1. CASE UNCHANGED vars
  BY <1>1
<1>2. CASE \E h \in Thread : Call(h) \/ Step(h)
  <2>1. PICK R : State' = R /\ Stay(State, R)
    BY <1>2, NextKeeps, KeepsSound
  <2>2. \A h \in Thread : TiedOn(h) = Tied(State, h)
    BY DEF TiedAgree
  <2>4. \A h \in Thread : TiedOn(h)' = Tied(R, h)
    BY <2>1 DEF TiedAgree
  <2>5. R.task = task'
    BY <2>1 DEF State
  <2> QED
    BY <2>1, <2>2, <2>4, <2>5 DEF Stay
<1> QED
  BY <1>1, <1>2 DEF Next, RegionOver

(* The inductive invariant of the scheduler: in every reachable state the  *)
(* queues, the blocked flags and the counters are in step, every thread    *)
(* has a sound chain and tied list, the tied tasks of a thread are in one  *)
(* line of descent, the barrier's counts are exact and every parked        *)
(* contender has a waker.                                                  *)
THEOREM SchedulerInvariant == Spec => []Sound
<1>1. Init => Sound
  BY InitSound
<1>2. Sound /\ [Next]_vars => Sound'
  BY SoundStep
<1> QED
  BY <1>1, <1>2, PTL DEF Spec

(* Type correctness: in particular the counters of the team never become   *)
(* negative, and a task does only what the program allows.                 *)
THEOREM SchedulerType == Spec => []TypeOK
<1>1. Sound => TypeOK
  BY SoundType
<1> QED
  BY <1>1, SchedulerInvariant, PTL

(* gomp_get_runnable_tasks, GOMP_taskwait, the interrupts and the barrier  *)
(* never start a tied task on a thread that holds a tied task it does not  *)
(* descend from.                                                           *)
THEOREM SchedulerConstraint == Spec => []TaskSchedulingConstraint
<1>1. Sound => TaskSchedulingConstraint
  BY SoundTied
<1> QED
  BY <1>1, SchedulerInvariant, PTL

(* GOMP_critical_start and _end, with tasks that park themselves in the    *)
(* locked queue: one task at a time is inside, and no parked task is       *)
(* forgotten.                                                              *)
THEOREM SchedulerCritical == Spec => []CriticalSound
<1>1. Sound => CriticalSound
  BY SoundCritical
<1> QED
  BY <1>1, SchedulerInvariant, PTL

(* gomp_barrier_handle_tasks ends the region only when all tasks of the    *)
(* team have ended and every thread is back at its implicit task.          *)
THEOREM SchedulerRegion == Spec => []RegionComplete
<1>1. Sound => RegionComplete
  BY SoundRegion
<1> QED
  BY <1>1, SchedulerInvariant, PTL

(* A tied task that started on a thread leaves it only by ending, whatever *)
(* the task switches, interrupts and contended sections in between.        *)
THEOREM SchedulerStay == Spec => TiedTasksStay
<1>1. Sound /\ TiedAgree /\ TiedAgree' /\ [Next]_vars =>
        [\A h \in Thread, t \in Explicit :
           t \in TiedOn(h) => t \in TiedOn(h)' \/ task'[t].kind = "freed"]_vars
  BY StepStay
<1>2. Sound => TiedAgree
  BY LiveTied DEF TiedAgree
<1> QED
  BY <1>1, <1>2, SchedulerInvariant, PTL DEF Spec, TiedTasksStay

(* The queues of task.c agree with is_blocked and suspending_thread, a     *)
(* task is held back exactly while it has a reason, the counters of the    *)
(* barrier are exact, the chains are sound and last_tied_task is the       *)
(* youngest. No node is moved that is not where the code believes it is,   *)
(* unless tied tasks use critical sections: there                          *)
(* gomp_suspend_tied_task_for_successor removes a task from the locked     *)
(* queue a second time.                                                    *)
THEOREM SchedulerBookkeeping ==
  Spec => []( /\ QueuesAgree /\ BlockedForAReason /\ CountersExact /\ ChainsSound
              /\ LastTiedIsYoungest
              /\ Bookkeeping \/ ("TIED" \in Types /\ "critical" \in Ops))
<1>1. Sound => /\ QueuesAgree /\ BlockedForAReason /\ CountersExact /\ ChainsSound
               /\ LastTiedIsYoungest
  BY SoundQueues, SoundCounters, SoundChains, SoundTied
<1>2. Sound => NoCorruptQueue \/ ("TIED" \in Types /\ "critical" \in Ops)
  BY SoundParts, StateIs DEF Program, NoCorruptQueue
<1>3. Sound => /\ QueuesAgree /\ BlockedForAReason /\ CountersExact /\ ChainsSound
               /\ LastTiedIsYoungest
               /\ Bookkeeping \/ ("TIED" \in Types /\ "critical" \in Ops)
  BY <1>1, <1>2 DEF Bookkeeping
<1> QED
  BY <1>3, SchedulerInvariant, PTL
=============================================================================
