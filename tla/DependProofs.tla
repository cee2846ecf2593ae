---------------------------- MODULE DependProofs ----------------------------
(***************************************************************************)
(* Depend clauses are respected (TaskDepend), for any team, tasks,         *)
(* taskgroups, addresses and clauses, and with every nesting of tasks.     *)
(*                                                                         *)
(* gomp_task_handle_depend links a new task to the live entries of a chain *)
(* only, and the end of a task takes its entry away from the chain. That   *)
(* no order is lost is no property of the chains alone: a task that        *)
(* conflicts with a new one but is in no live entry is a dependee of a     *)
(* dependee of it, or has ended. The invariant is about the graph of all   *)
(* tasks (Graph), the counts of the parents that wait (Counts) and the     *)
(* stacks of the threads (Frames, Running), which say that a task that     *)
(* waits for an undeferred child does nothing else.                        *)
(***************************************************************************)
EXTENDS TaskDepend, Sums, SequenceTheorems, TLAPS

(* Types.                                                                  *)
Kinds == {"none", "depends", "waiting", "running", "new", "nested", "done"}
Entry == [task : Task, in : BOOLEAN, redundant_out : BOOLEAN]
Family == AnyTask \cup {Null}

TaskRec ==
  [kind : Kinds, parent : Family, origin : Family, type : Types, queues : Types,
   taskgroup : Group \cup {Null}, member : Group \cup {Null},
   depend : Clauses \cup {<<>>}, num_dependees : Nat, dependers : Seq(Task),
   parent_depends_on : BOOLEAN, depend_hash : [Addr -> Seq(Entry)]]

WaitRec == [on : BOOLEAN, in_taskwait : BOOLEAN, in_depend_wait : BOOLEAN,
            n_depend : Int, sem : Int]

GroupRec == [state : {"none", "open", "freed"}, owner : Family, prev : Group \cup {Null},
             num_children : Int, in_taskgroup_wait : BOOLEAN, cancelled : BOOLEAN, sem : Int]

Places == {"user", "depend", "depend_sem", "taskwait", "taskwait_sem", "taskgroup",
           "taskgroup_sem", "barrier", "arrived", "gone"}
Frame == [task : AnyTask, at : Places]

(* Tasks in the state tk: created and unfinished ones, deferred and        *)
(* undeferred ones.                                                        *)
AliveIn(tk, t) == tk[t].kind \notin {"none", "done"}
DeferredIn(tk, t) == tk[t].kind \in {"depends", "waiting", "running"}
UndeferredIn(tk, t) == tk[t].kind \in {"new", "nested"}

(* Clause c has an element with address a, or an out with it.              *)
Names(c, a) == \E i \in DOMAIN c : c[i].addr = a
NamesOut(c, a) == \E i \in DOMAIN c : c[i].addr = a /\ ~c[i].in

(* The record of a task that does not exist, or no longer.                 *)
Blank(R) ==
  /\ R.parent = Null /\ R.origin = Null /\ R.dependers = <<>> /\ R.num_dependees = 0
  /\ ~R.parent_depends_on /\ \A a \in Addr : R.depend_hash[a] = <<>>

(* Parents: only a task that is gone has lost its children, and an         *)
(* undeferred task is the youngest child of a task that waits for it.      *)
Families(tk) ==
  /\ \A th \in Thread : /\ tk[th].kind = "nested" /\ tk[th].parent = Null
                        /\ tk[th].origin = Null /\ ~tk[th].parent_depends_on
  /\ \A t \in Task : ~AliveIn(tk, t) => Blank(tk[t])
  /\ \A t \in Task : AliveIn(tk, t) =>
       /\ tk[t].origin \in AnyTask /\ tk[t].origin # t /\ tk[tk[t].origin].kind # "none"
       /\ tk[t].parent \in {Null, tk[t].origin}
       /\ tk[t].parent = Null => tk[tk[t].origin].kind = "done"
  /\ \A t \in Task : UndeferredIn(tk, t) => tk[t].parent = tk[t].origin
  /\ \A t \in Task : tk[t].parent_depends_on => DeferredIn(tk, t)
  /\ \A t, u \in Task : tk[t].kind = "none" /\ tk[u].kind # "none" => u < t
  /\ \A t, u \in Task : UndeferredIn(tk, t) /\ AliveIn(tk, u) /\ tk[u].origin = tk[t].origin
       => u <= t

(* The tasks that t depends on.                                            *)
Dependees(tk, t) == {u \in Task : t \in Range(tk[u].dependers)}

(* They are older siblings that are unfinished, and num_dependees is their *)
(* number; a task is held back exactly while it has some.                  *)
Edges(tk) ==
  /\ \A th \in Thread : tk[th].dependers = <<>>
  /\ \A t, u \in Task : t \in Range(tk[u].dependers) =>
       tk[t].kind = "depends" /\ DeferredIn(tk, u) /\ u < t /\ tk[u].origin = tk[t].origin
  /\ \A t \in Task : tk[t].num_dependees = Cardinality(Dependees(tk, t))
  /\ \A t \in Task : tk[t].kind = "depends" => tk[t].num_dependees > 0

(* Task t must not run before its older sibling u has ended.               *)
Conflicts(tk, t, u) ==
  u < t /\ tk[u].origin = tk[t].origin /\ Conflict(tk[t].depend, tk[u].depend)

(* Then t depends on u, or on a task that must not run before u has ended  *)
(* either: a redundant out is covered by the out that superseded it.       *)
Cover(tk) ==
  \A t, u \in Task : DeferredIn(tk, t) /\ DeferredIn(tk, u) /\ Conflicts(tk, t, u) =>
    \/ t \in Range(tk[u].dependers)
    \/ \E w \in Task : t \in Range(tk[w].dependers) /\ Conflicts(tk, w, u)

(* Entries that a new task has to be linked to as an out.                  *)
LiveOut(x) == ~x.in /\ ~x.redundant_out

(* The form of a chain: one entry per task, the redundant outs behind all  *)
(* others, one live out at most, younger than the redundant ones.          *)
Shape(c) ==
  /\ \A i, j \in DOMAIN c : i # j => c[i].task # c[j].task
  /\ \A i, j \in DOMAIN c : i < j /\ c[i].redundant_out => c[j].redundant_out
  /\ \A i, j \in DOMAIN c : LiveOut(c[i]) /\ LiveOut(c[j]) => i = j
  /\ \A i \in DOMAIN c : c[i].redundant_out =>
       ~c[i].in /\ \E j \in DOMAIN c : LiveOut(c[j]) /\ c[i].task < c[j].task

(* The chain of p for address a has entries of p's unfinished deferred     *)
(* children only, and says of each whether its clause has an out for a.    *)
Content(tk, p, a, c) ==
  \A i \in DOMAIN c :
     LET u == c[i].task
     IN  /\ DeferredIn(tk, u) /\ tk[u].parent = p /\ Names(tk[u].depend, a)
         /\ c[i].in = ~NamesOut(tk[u].depend, a)

(* It has an entry of each of them.                                        *)
Complete(tk, p, a, c) ==
  \A u \in Task : DeferredIn(tk, u) /\ tk[u].parent = p /\ Names(tk[u].depend, a)
    => \E i \in DOMAIN c : c[i].task = u

(* All chains; a task that is gone has empty ones (Blank).                 *)
Chains(tk) ==
  \A p \in AnyTask, a \in Addr :
    LET c == tk[p].depend_hash[a]
    IN  Shape(c) /\ Content(tk, p, a, c) /\ (AliveIn(tk, p) => Complete(tk, p, a, c))

(* The siblings that an undeferred task has to wait for are marked, and    *)
(* have ended when it runs.                                                *)
Marks(tk) ==
  \A t, u \in Task : AliveIn(tk, u) /\ Conflicts(tk, t, u) =>
    /\ tk[t].kind = "new" => tk[u].parent_depends_on
    /\ tk[t].kind # "nested"

(* n_depend counts the marked children.                                    *)
Marked(tk, p) == {t \in Task : tk[t].parent = p /\ tk[t].parent_depends_on}
Counts(tk, w) == \A p \in AnyTask : w[p].n_depend = Cardinality(Marked(tk, p))

(* A task at one of these places creates an undeferred child.              *)
Depending == {"depend", "depend_sem"}

(* The form of the stacks: a thread's own implicit task is its outermost,  *)
(* and no task is on two stacks or twice on one.                           *)
Frames(st) ==
  /\ st \in [Thread -> Seq(Frame)]
  /\ \A th \in Thread : /\ Len(st[th]) >= 1 /\ st[th][1].task = th
                        /\ \A i \in DOMAIN st[th] : i # 1 => st[th][i].task \in Task
  /\ \A th, h \in Thread : \A i \in DOMAIN st[th], j \in DOMAIN st[h] :
       st[th][i].task = st[h][j].task => th = h /\ i = j

(* Tasks whose function runs, and the places of a task that waits in a     *)
(* taskgroup.                                                              *)
Active == {"running", "nested"}
Grouped == {"taskgroup", "taskgroup_sem"}

(* A task on a stack has started, and waits for marked children only while *)
(* it creates an undeferred task.                                          *)
FrameSound(tk, w, f) ==
  /\ tk[f.task].kind \in Active
  /\ f.at \notin Depending => w[f.task].n_depend = 0
  /\ f.at \in Grouped => tk[f.task].taskgroup # Null

(* Task p is on a stack; it creates an undeferred task; it has called its  *)
(* undeferred child t.                                                     *)
Has(st, p) == \E th \in Thread : \E i \in DOMAIN st[th] : st[th][i].task = p

Depends(st, p) ==
  \E th \in Thread : \E i \in DOMAIN st[th] :
    st[th][i].task = p /\ st[th][i].at \in Depending

Calls(st, p, t) ==
  \E th \in Thread : \E i, j \in DOMAIN st[th] :
    /\ j = i + 1 /\ st[th][j].task = t
    /\ st[th][i].task = p /\ st[th][i].at = "depend"

(* How stacks and tasks agree: GOMP_taskwait runs children of its task     *)
(* only, somebody waits for the marked children, and an undeferred task    *)
(* waits or runs on top of its parent.                                     *)
Running(st, tk, w) ==
  /\ \A th \in Thread : \A i \in DOMAIN st[th] : FrameSound(tk, w, st[th][i])
  /\ \A th \in Thread : \A i, j \in DOMAIN st[th] :
       j = i + 1 /\ st[th][i].at = "taskwait" => tk[st[th][j].task].parent = st[th][i].task
  /\ \A p \in AnyTask : w[p].n_depend # 0 => Has(st, p)
  /\ \A t \in Task : tk[t].kind = "new" => Depends(st, tk[t].origin)
  /\ \A t \in Task : tk[t].kind = "nested" =>
       w[tk[t].origin].n_depend = 0 /\ Calls(st, tk[t].origin, t)

-----------------------------------------------------------------------------
(* A non-empty set of numbers from 1 to n has a greatest element.          *)
LEMMA Greatest ==
  ASSUME NEW n \in Nat, NEW S \in SUBSET (1..n), S # {}
  PROVE  \E x \in S : \A y \in S : x >= y
<1> DEFINE G == {k \in Nat : \A T \in SUBSET (1..k) : T # {} => \E x \in T : \A y \in T : x >= y}
<1>1. 0 \in G
  <2>1. 1..0 = {}
    OBVIOUS
  <2> QED
    BY <2>1
<1>2. ASSUME NEW k \in Nat, k \in G
      PROVE  k + 1 \in G
  <2> SUFFICES ASSUME NEW T \in SUBSET (1..k + 1), T # {}
               PROVE  \E x \in T : \A y \in T : x >= y
    OBVIOUS
  <2>1. CASE k + 1 \in T
    BY <2>1
  <2>2. CASE k + 1 \notin T
    <3>1. T \in SUBSET (1..k)
      BY <2>2
    <3> QED
      BY <3>1, <1>2
  <2> QED
    BY <2>1, <2>2
<1>3. Nat \subseteq G
  <2> HIDE DEF G
  <2> QED
    BY <1>1, <1>2, Induction
<1> QED
  BY <1>3

(* ... and a least one.                                                    *)
LEMMA Least ==
  ASSUME NEW n \in Nat, NEW S \in SUBSET (1..n), S # {}
  PROVE  \E x \in S : \A y \in S : x =< y
<1> DEFINE R == {n + 1 - x : x \in S}
<1>1. R \in SUBSET (1..n) /\ R # {}
  <2>1. \A x \in S : n + 1 - x \in 1..n
    OBVIOUS
  <2> QED
    BY <2>1
<1>2. PICK r \in R : \A y \in R : r >= y
  <2> HIDE DEF R
  <2> QED
    BY <1>1, Greatest
<1>3. n + 1 - r \in S /\ \A y \in S : n + 1 - r =< y
  BY <1>2
<1> QED
  BY <1>3

(* The live entries of a chain are its first ones.                         *)
LEMMA LiveEntriesAre ==
  ASSUME NEW c \in Seq(Entry), Shape(c)
  PROVE  /\ LiveEntries(c) \in 0..Len(c)
         /\ \A i \in DOMAIN c : c[i].redundant_out <=> i > LiveEntries(c)
<1> DEFINE I == {i \in 1..Len(c) : c[i].redundant_out}
           first == IF I # {} THEN Min(I) ELSE 0
<1>1. LiveEntries(c) = IF first = 0 THEN Len(c) ELSE first - 1
  BY DEF LiveEntries, SelectInSeq
<1>2. I \in SUBSET (1..Len(c)) /\ Len(c) \in Nat /\ DOMAIN c = 1..Len(c)
  OBVIOUS
<1>3. I # {} => Min(I) \in I /\ \A y \in I : Min(I) =< y
  <2> SUFFICES ASSUME I # {} PROVE Min(I) \in I /\ \A y \in I : Min(I) =< y
    OBVIOUS
  <2>1. \E x \in I : \A y \in I : x =< y
    <3> HIDE DEF I
    <3> QED
      BY <1>2, Least
  <2> QED
    BY <2>1 DEF Min
<1>4. \A i \in DOMAIN c : i \in I <=> c[i].redundant_out
  BY <1>2
<1>5. \A i, j \in DOMAIN c : i < j /\ c[i].redundant_out => c[j].redundant_out
  BY DEF Shape
<1>6. \A i \in DOMAIN c : c[i].redundant_out \in BOOLEAN
  <2>1. \A i \in DOMAIN c : c[i] \in Entry
    OBVIOUS
  <2> QED
    BY <2>1 DEF Entry
<1> HIDE DEF I
<1>7. CASE I = {}
  BY <1>1, <1>2, <1>4, <1>6, <1>7
<1>8. CASE I # {}
  <2> DEFINE m == Min(I)
  <2>1. LiveEntries(c) = m - 1 /\ m \in 1..Len(c)
    <3>1. m \in 1..Len(c)
      BY <1>2, <1>3, <1>8
    <3>2. m # 0 /\ first = m
      BY <3>1, <1>8
    <3> QED
      BY <1>1, <3>1, <3>2
  <2>2. \A i \in DOMAIN c : i \in I <=> i >= m
    BY <1>2, <1>3, <1>4, <1>5, <1>8, <2>1
  <2> QED
    BY <1>2, <1>4, <1>6, <2>1, <2>2
<1> QED
  BY <1>7, <1>8

(* At most one of them is an out.                                          *)
LEMMA LiveOutIs ==
  ASSUME NEW c \in Seq(Entry), Shape(c)
  PROVE  \/ LiveOutOf(c) = 0 /\ \A i \in DOMAIN c : ~LiveOut(c[i])
         \/ /\ LiveOutOf(c) \in 1..LiveEntries(c) /\ LiveOut(c[LiveOutOf(c)])
            /\ \A i \in DOMAIN c : LiveOut(c[i]) => i = LiveOutOf(c)
<1> DEFINE n == LiveEntries(c)
           d == SubSeq(c, 1, n)
           I == {i \in 1..Len(d) : ~d[i].in}
<1>1. n \in 0..Len(c) /\ \A i \in DOMAIN c : c[i].redundant_out <=> i > n
  BY LiveEntriesAre
<1>2. LiveOutOf(c) = IF I # {} THEN Max(I) ELSE 0
  BY DEF LiveOutOf, SelectLastInSeq
<1> HIDE DEF n
<1>3. Len(d) = n /\ (\A i \in 1..n : d[i] = c[i]) /\ DOMAIN c = 1..Len(c)
  BY <1>1
<1>4. I \in SUBSET (1..n) /\ n \in Nat
  BY <1>1, <1>3
<1>5. \A i \in DOMAIN c : i \in I <=> LiveOut(c[i])
  BY <1>1, <1>3 DEF LiveOut
<1>6. I # {} => Max(I) \in I
  <2> SUFFICES ASSUME I # {} PROVE Max(I) \in I
    OBVIOUS
  <2>1. \E x \in I : \A y \in I : x >= y
    <3> HIDE DEF I
    <3> QED
      BY <1>4, Greatest
  <2> QED
    BY <2>1 DEF Max
<1>7. \A i, j \in DOMAIN c : LiveOut(c[i]) /\ LiveOut(c[j]) => i = j
  BY DEF Shape
<1> HIDE DEF I
<1>8. CASE I = {}
  BY <1>2, <1>5, <1>8
<1>9. CASE I # {}
  <2> DEFINE m == Max(I)
  <2>1. LiveOutOf(c) = m /\ m \in I /\ m \in 1..n
    BY <1>2, <1>4, <1>6, <1>9
  <2>2. m \in DOMAIN c /\ LiveOut(c[m])
    BY <1>1, <1>3, <1>5, <2>1
  <2> QED
    BY <1>7, <2>1, <2>2 DEF n
<1> QED
  BY <1>8, <1>9

(* The entries of chain d are those of chain c, in another order perhaps,  *)
(* and perhaps redundant_out now.                                          *)
SameEntries(c, d) ==
  /\ \A i \in DOMAIN c : \E j \in DOMAIN d : d[j].task = c[i].task /\ d[j].in = c[i].in
  /\ \A j \in DOMAIN d : \E i \in DOMAIN c : d[j].task = c[i].task /\ d[j].in = c[i].in

(* What is true of a chain before the entry that supersedes its live out   *)
(* is in front of it.                                                      *)
Demoted(c, d) ==
  /\ d \in Seq(Entry) /\ Len(d) = Len(c)
  /\ \A i, j \in DOMAIN d : i # j => d[i].task # d[j].task
  /\ \A i, j \in DOMAIN d : i < j /\ d[i].redundant_out => d[j].redundant_out
  /\ \A i \in DOMAIN d : ~LiveOut(d[i])
  /\ \A i \in DOMAIN d : d[i].redundant_out => ~d[i].in
  /\ SameEntries(c, d)

(* Demoting the live out leaves none.                                      *)
LEMMA DemoteIs ==
  ASSUME NEW c \in Seq(Entry), Shape(c)
  PROVE  Demoted(c, Demote(c, LiveEntries(c), LiveOutOf(c)))
<1> DEFINE n == LiveEntries(c)
           out == LiveOutOf(c)
           d == Demote(c, n, out)
<1>1. n \in 0..Len(c) /\ \A i \in DOMAIN c : c[i].redundant_out <=> i > n
  BY LiveEntriesAre
<1>2. \/ out = 0 /\ \A i \in DOMAIN c : ~LiveOut(c[i])
      \/ /\ out \in 1..n /\ LiveOut(c[out])
         /\ \A i \in DOMAIN c : LiveOut(c[i]) => i = out
  BY LiveOutIs
<1>3. DOMAIN c = 1..Len(c) /\ Len(c) \in Nat /\ \A i \in DOMAIN c : c[i] \in Entry
  OBVIOUS
<1>4. /\ \A i, j \in DOMAIN c : i # j => c[i].task # c[j].task
      /\ \A i \in DOMAIN c : c[i].redundant_out => ~c[i].in
  BY DEF Shape
<1> HIDE DEF n, out, d
<1>5. CASE out = 0
  <2>1. d = c
    BY <1>5 DEF d, Demote
  <2> QED
    BY <1>1, <1>2, <1>3, <1>4, <1>5, <2>1 DEF Demoted, SameEntries, d, n, out
<1>6. CASE out # 0
  <2>1. out \in 1..n /\ LiveOut(c[out]) /\ \A i \in DOMAIN c : LiveOut(c[i]) => i = out
    BY <1>2, <1>6
  <2> DEFINE old(j) == IF j < out \/ j > n THEN j ELSE IF j < n THEN j + 1 ELSE out
             new(i) == IF i < out \/ i > n THEN i ELSE IF i = out THEN n ELSE i - 1
  <2>2. d = [i \in DOMAIN c |->
               CASE i < out \/ i > n -> c[i]
                 [] out <= i /\ i < n -> c[i + 1]
                 [] i = n -> [c[out] EXCEPT !.redundant_out = TRUE]]
    BY <1>6 DEF d, Demote
  <2>3. ASSUME NEW j \in DOMAIN c
        PROVE  /\ d[j] \in Entry /\ old(j) \in DOMAIN c
               /\ d[j].task = c[old(j)].task /\ d[j].in = c[old(j)].in
               /\ d[j].redundant_out <=> (j = n \/ c[old(j)].redundant_out)
    <3>1. CASE j < out \/ j > n
      <4>1. d[j] = c[j] /\ old(j) = j /\ j # n
        BY <1>1, <1>3, <2>1, <2>2, <3>1
      <4> QED
        BY <1>3, <4>1
    <3>2. CASE out <= j /\ j < n
      <4>1. d[j] = c[j + 1] /\ old(j) = j + 1 /\ j # n /\ j + 1 \in DOMAIN c
        BY <1>1, <1>3, <2>1, <2>2, <3>2
      <4> QED
        BY <1>3, <4>1
    <3>3. CASE j = n
      <4>1. d[j] = [c[out] EXCEPT !.redundant_out = TRUE] /\ old(j) = out /\ out \in DOMAIN c
        BY <1>1, <1>3, <2>1, <2>2, <3>3
      <4> QED
        BY <1>3, <4>1, <3>3 DEF Entry
    <3> QED
      BY <1>1, <1>3, <2>1, <3>1, <3>2, <3>3
  <2>4. \A i \in DOMAIN c : new(i) \in DOMAIN c /\ old(new(i)) = i
    BY <1>1, <1>3, <2>1
  <2>5. \A i, j \in DOMAIN c : i # j => old(i) # old(j)
    BY <1>1, <1>3, <2>1
  <2>6. DOMAIN d = 1..Len(c) /\ d \in Seq(Entry) /\ Len(d) = Len(c)
    <3>1. d \in [1..Len(c) -> Entry]
      BY <1>3, <2>2, <2>3
    <3> QED
      BY <1>3, <3>1
  <2>7. \A j \in DOMAIN c : d[j].redundant_out <=> j >= n
    <3> SUFFICES ASSUME NEW j \in DOMAIN c PROVE d[j].redundant_out <=> j >= n
      OBVIOUS
    <3>1. old(j) \in DOMAIN c /\ (d[j].redundant_out <=> (j = n \/ c[old(j)].redundant_out))
      BY <2>3
    <3>2. j # n => (old(j) > n <=> j >= n)
      BY <1>1, <1>3, <2>1
    <3> HIDE DEF old
    <3> QED
      BY <1>1, <1>3, <3>1, <3>2
  <2>8. \A j \in DOMAIN c : ~LiveOut(d[j])
    <3> SUFFICES ASSUME NEW j \in DOMAIN c, LiveOut(d[j]) PROVE FALSE
      OBVIOUS
    <3>1. old(j) = out
      BY <2>1, <2>3 DEF LiveOut
    <3>2. j = n
      BY <1>1, <1>3, <2>1, <3>1
    <3> QED
      BY <2>3, <3>2 DEF LiveOut
  <2>9. \A j \in DOMAIN c : d[j].redundant_out => ~d[j].in
    <3> SUFFICES ASSUME NEW j \in DOMAIN c, d[j].redundant_out PROVE ~d[j].in
      OBVIOUS
    <3>1. CASE j = n
      <4>1. old(j) = out
        BY <1>1, <1>3, <2>1, <3>1
      <4> QED
        BY <2>1, <2>3, <4>1 DEF LiveOut
    <3>2. CASE j # n
      BY <1>4, <2>3, <3>2
    <3> QED
      BY <3>1, <3>2
  <2>10. SameEntries(c, d)
    <3>1. ASSUME NEW i \in DOMAIN c
          PROVE  \E j \in DOMAIN d : d[j].task = c[i].task /\ d[j].in = c[i].in
      <4>1. new(i) \in DOMAIN c /\ old(new(i)) = i
        BY <2>4
      <4> HIDE DEF old, new
      <4>2. d[new(i)].task = c[i].task /\ d[new(i)].in = c[i].in
        BY <2>3, <4>1
      <4> QED
        BY <1>3, <2>6, <4>1, <4>2
    <3> HIDE DEF old, new
    <3>2. \A j \in DOMAIN d : \E i \in DOMAIN c : d[j].task = c[i].task /\ d[j].in = c[i].in
      BY <1>3, <2>3, <2>6
    <3> QED
      BY <3>1, <3>2 DEF SameEntries
  <2>11. \A i, j \in DOMAIN d : i # j => d[i].task # d[j].task
    <3> HIDE DEF old
    <3> QED
      BY <1>3, <1>4, <2>3, <2>5, <2>6
  <2>12. \A i, j \in DOMAIN d : i < j /\ d[i].redundant_out => d[j].redundant_out
    <3> HIDE DEF old
    <3> QED
      BY <1>1, <1>3, <2>6, <2>7
  <2> HIDE DEF old, new
  <2>13. Demoted(c, d)
    BY <1>3, <2>6, <2>8, <2>9, <2>10, <2>11, <2>12 DEF Demoted
  <2> QED
    BY <2>13 DEF d, n, out
<1> QED
  BY <1>5, <1>6

(* Pushing the entry of the youngest task keeps the chain in shape.        *)
LEMMA PushShape ==
  ASSUME NEW c \in Seq(Entry), Shape(c), NEW t \in Task, NEW in \in BOOLEAN,
         \A i \in DOMAIN c : c[i].task < t
  PROVE  /\ Push(c, t, in) \in Seq(Entry) /\ Push(c, t, in) # <<>> /\ Shape(Push(c, t, in))
         /\ Head(Push(c, t, in)).task = t /\ Head(Push(c, t, in)).in = in
         /\ \A i \in DOMAIN c : \E j \in DOMAIN Push(c, t, in) :
              Push(c, t, in)[j].task = c[i].task /\ Push(c, t, in)[j].in = c[i].in
         /\ \A j \in DOMAIN Push(c, t, in) :
              \/ Push(c, t, in)[j].task = t /\ Push(c, t, in)[j].in = in
              \/ \E i \in DOMAIN c : /\ Push(c, t, in)[j].task = c[i].task
                                      /\ Push(c, t, in)[j].in = c[i].in
<1> DEFINE e == [task |-> t, in |-> in, redundant_out |-> FALSE]
           d == Demote(c, LiveEntries(c), IF in THEN 0 ELSE LiveOutOf(c))
           b == Push(c, t, in)
<1>1. b = <<e>> \o d
  BY DEF Push
<1>2. e \in Entry
  BY DEF Entry
<1>3. /\ d \in Seq(Entry) /\ SameEntries(c, d)
      /\ \A i, j \in DOMAIN d : i # j => d[i].task # d[j].task
      /\ \A i, j \in DOMAIN d : i < j /\ d[i].redundant_out => d[j].redundant_out
      /\ \A i \in DOMAIN d : d[i].redundant_out => ~d[i].in
      /\ in => d = c
      /\ ~in => \A i \in DOMAIN d : ~LiveOut(d[i])
  <2>1. CASE in
    <3>1. d = c
      BY <2>1 DEF Demote
    <3> QED
      BY <2>1, <3>1 DEF Shape, SameEntries
  <2>2. CASE ~in
    <3>1. d = Demote(c, LiveEntries(c), LiveOutOf(c))
      BY <2>2
    <3> QED
      BY <2>2, <3>1, DemoteIs DEF Demoted
  <2> QED
    BY <2>1, <2>2
<1> HIDE DEF d
<1>4. /\ b \in Seq(Entry) /\ DOMAIN b = 1..Len(d) + 1 /\ b[1] = e /\ b # <<>> /\ Head(b) = e
      /\ DOMAIN d = 1..Len(d) /\ Len(d) \in Nat
      /\ \A i \in DOMAIN d : i + 1 \in DOMAIN b /\ b[i + 1] = d[i] /\ b[i + 1] \in Entry
  BY <1>1, <1>2, <1>3
<1> HIDE DEF b
<1>5. \A j \in DOMAIN b : j = 1 \/ \E i \in DOMAIN d : j = i + 1
  <2> SUFFICES ASSUME NEW j \in DOMAIN b, j # 1 PROVE j - 1 \in DOMAIN d /\ j = (j - 1) + 1
    OBVIOUS
  <2> QED
    BY <1>4
<1>6. \A i \in DOMAIN d : d[i].task < t /\ d[i].task # t
  <2> SUFFICES ASSUME NEW i \in DOMAIN d PROVE d[i].task < t /\ d[i].task # t
    OBVIOUS
  <2>1. PICK k \in DOMAIN c : d[i].task = c[k].task
    BY <1>3 DEF SameEntries
  <2>2. c[k].task \in Nat /\ t \in Nat
    <3>1. c[k] \in Entry
      OBVIOUS
    <3> QED
      BY <3>1, ConstantsOK DEF Entry
  <2> QED
    BY <2>1, <2>2
<1>7. \A i, j \in DOMAIN b : i # j => b[i].task # b[j].task
  <2> SUFFICES ASSUME NEW i \in DOMAIN b, NEW j \in DOMAIN b, i # j
               PROVE  b[i].task # b[j].task
    OBVIOUS
  <2>1. e.task = t
    OBVIOUS
  <2> HIDE DEF e
  <2>2. CASE i = 1
    <3>1. PICK k \in DOMAIN d : j = k + 1
      BY <1>5, <2>2
    <3> QED
      BY <1>4, <1>6, <2>1, <2>2, <3>1
  <2>3. CASE j = 1
    <3>1. PICK k \in DOMAIN d : i = k + 1
      BY <1>5, <2>3
    <3> QED
      BY <1>4, <1>6, <2>1, <2>3, <3>1
  <2>4. CASE i # 1 /\ j # 1
    <3>1. PICK k \in DOMAIN d : i = k + 1
      BY <1>5, <2>4
    <3>2. PICK l \in DOMAIN d : j = l + 1
      BY <1>5, <2>4
    <3>3. k # l /\ b[i] = d[k] /\ b[j] = d[l]
      BY <1>4, <3>1, <3>2
    <3> QED
      BY <1>3, <3>3
  <2> QED
    BY <2>2, <2>3, <2>4
<1>8. \A i, j \in DOMAIN b : i < j /\ b[i].redundant_out => b[j].redundant_out
  <2> SUFFICES ASSUME NEW i \in DOMAIN b, NEW j \in DOMAIN b, i < j, b[i].redundant_out
               PROVE  b[j].redundant_out
    OBVIOUS
  <2>1. i # 1 /\ j # 1
    BY <1>4
  <2>2. PICK k \in DOMAIN d : i = k + 1
    BY <1>5, <2>1
  <2>3. PICK l \in DOMAIN d : j = l + 1
    BY <1>5, <2>1
  <2> QED
    BY <1>3, <1>4, <2>2, <2>3
<1>9. \A i, j \in DOMAIN b : LiveOut(b[i]) /\ LiveOut(b[j]) => i = j
  <2>1. CASE in
    <3>1. \A i, j \in DOMAIN d : LiveOut(d[i]) /\ LiveOut(d[j]) => i = j
      BY <1>3, <2>1 DEF Shape
    <3>2. ~LiveOut(b[1])
      BY <1>4, <2>1 DEF LiveOut
    <3> QED
      BY <1>4, <1>5, <3>1, <3>2
  <2>2. CASE ~in
    BY <1>3, <1>4, <1>5, <2>2
  <2> QED
    BY <2>1, <2>2
<1>10. \A i \in DOMAIN b : b[i].redundant_out =>
         ~b[i].in /\ \E j \in DOMAIN b : LiveOut(b[j]) /\ b[i].task < b[j].task
  <2> SUFFICES ASSUME NEW i \in DOMAIN b, b[i].redundant_out
               PROVE  ~b[i].in /\ \E j \in DOMAIN b : LiveOut(b[j]) /\ b[i].task < b[j].task
    OBVIOUS
  <2>1. PICK k \in DOMAIN d : i = k + 1
    BY <1>4, <1>5
  <2>2. b[i] = d[k] /\ ~b[i].in
    BY <1>3, <1>4, <2>1
  <2>3. CASE in
    <3>1. PICK l \in DOMAIN d : LiveOut(d[l]) /\ d[k].task < d[l].task
      BY <1>3, <2>2, <2>3 DEF Shape
    <3>2. l + 1 \in DOMAIN b /\ b[l + 1] = d[l]
      BY <1>4
    <3> QED
      BY <2>2, <3>1, <3>2
  <2>4. CASE ~in
    <3>1. LiveOut(b[1]) /\ 1 \in DOMAIN b /\ b[1].task = t
      BY <1>4, <2>4 DEF LiveOut
    <3> QED
      BY <1>6, <2>2, <3>1
  <2> QED
    BY <2>3, <2>4
<1>11. Shape(b)
  BY <1>7, <1>8, <1>9, <1>10 DEF Shape
<1>12. Head(b).task = t /\ Head(b).in = in
  BY <1>4
<1>13. \A i \in DOMAIN c : \E j \in DOMAIN b : b[j].task = c[i].task /\ b[j].in = c[i].in
  <2> SUFFICES ASSUME NEW i \in DOMAIN c
               PROVE  \E j \in DOMAIN b : b[j].task = c[i].task /\ b[j].in = c[i].in
    OBVIOUS
  <2>1. PICK k \in DOMAIN d : d[k].task = c[i].task /\ d[k].in = c[i].in
    BY <1>3 DEF SameEntries
  <2>2. k + 1 \in DOMAIN b /\ b[k + 1] = d[k]
    BY <1>4
  <2> QED
    BY <2>1, <2>2
<1>14. \A j \in DOMAIN b : \/ b[j].task = t /\ b[j].in = in
                           \/ \E i \in DOMAIN c : b[j].task = c[i].task /\ b[j].in = c[i].in
  BY <1>3, <1>4, <1>5 DEF SameEntries
<1> QED
  BY <1>4, <1>11, <1>12, <1>13, <1>14 DEF b

(* Unlinking the entry of t keeps a chain in shape unless t is the live    *)
(* out that stands for redundant ones.                                     *)
LEMMA UnlinkShape ==
  ASSUME NEW c \in Seq(Entry), Shape(c), NEW t \in Task,
         \A i, j \in DOMAIN c : c[i].redundant_out /\ LiveOut(c[j]) => c[j].task # t
  PROVE  /\ Unlink(c, t) \in Seq(Entry) /\ Shape(Unlink(c, t))
         /\ \A i \in DOMAIN c : c[i].task # t =>
              \E j \in DOMAIN Unlink(c, t) : Unlink(c, t)[j] = c[i]
         /\ \A j \in DOMAIN Unlink(c, t) :
              \E i \in DOMAIN c : Unlink(c, t)[j] = c[i] /\ c[i].task # t
<1> DEFINE at == {i \in DOMAIN c : c[i].task = t}
           d == Unlink(c, t)
<1>1. DOMAIN c = 1..Len(c) /\ Len(c) \in Nat /\ \A i \in DOMAIN c : c[i] \in Entry
  OBVIOUS
<1>2. CASE at = {}
  <2>1. d = c
    BY <1>2 DEF Unlink
  <2>2. \A i \in DOMAIN c : c[i].task # t
    BY <1>2
  <2> QED
    BY <2>1, <2>2
<1>3. CASE at # {}
  <2>1. PICK k \in DOMAIN c : c[k].task = t /\ d = RemoveAt(c, k)
    BY <1>3 DEF Unlink
  <2> HIDE DEF d
  <2> DEFINE old(j) == IF j < k THEN j ELSE j + 1
             new(i) == IF i < k THEN i ELSE i - 1
  <2>2. /\ d \in Seq(Entry) /\ DOMAIN d = 1..Len(c) - 1
        /\ \A j \in DOMAIN d : d[j] = c[old(j)] /\ old(j) \in DOMAIN c /\ old(j) # k
    <3> DEFINE f == SubSeq(c, 1, k - 1)
               g == SubSeq(c, k + 1, Len(c))
    <3>1. k \in 1..Len(c) /\ d = f \o g
      BY <1>1, <2>1 DEF RemoveAt
    <3>2. /\ f \in Seq(Entry) /\ Len(f) = k - 1 /\ \A j \in 1..k - 1 : f[j] = c[j]
          /\ g \in Seq(Entry) /\ Len(g) = Len(c) - k /\ \A j \in 1..Len(c) - k : g[j] = c[k + j]
      <4>1. f \in Seq(Entry) /\ Len(f) = k - 1 /\ \A j \in 1..k - 1 : f[j] = c[j]
        BY <1>1, <3>1
      <4>2. g \in Seq(Entry)
        BY <1>1, <3>1
      <4>3. Len(g) = Len(c) - k
        BY <1>1, <3>1
      <4>4. \A j \in 1..Len(c) - k : g[j] = c[k + j]
        BY <1>1, <3>1
      <4> QED
        BY <4>1, <4>2, <4>3, <4>4
    <3> HIDE DEF f, g
    <3>3. /\ d \in Seq(Entry) /\ Len(d) = Len(f) + Len(g)
          /\ \A j \in 1..Len(f) + Len(g) : d[j] = IF j <= Len(f) THEN f[j] ELSE g[j - Len(f)]
      <4>1. f \in Seq(Entry) /\ g \in Seq(Entry)
        BY <3>2
      <4> QED
        BY <3>1, <4>1, ConcatProperties
    <3>4. PICK n \in Nat : n = Len(c)
      BY <1>1
    <3>5. k \in 1..n /\ Len(f) = k - 1 /\ Len(g) = n - k /\ Len(f) + Len(g) = n - 1
      BY <3>1, <3>2, <3>4
    <3>6. d \in Seq(Entry) /\ DOMAIN d = 1..n - 1
      BY <3>3, <3>5
    <3>7. ASSUME NEW j \in 1..n - 1
          PROVE  d[j] = c[old(j)] /\ old(j) \in 1..n /\ old(j) # k
      <4>1. k \in 1..n /\ d[j] = IF j <= k - 1 THEN f[j] ELSE g[j - (k - 1)]
        BY <3>3, <3>5
      <4>2. CASE j <= k - 1
        BY <3>2, <4>1, <4>2
      <4>3. CASE ~(j <= k - 1)
        <5>1. j - (k - 1) \in 1..n - k /\ k + (j - (k - 1)) = j + 1
          BY <4>1, <4>3
        <5>2. d[j] = c[j + 1]
          BY <3>2, <3>4, <4>1, <4>3, <5>1
        <5> QED
          BY <4>1, <4>3, <5>2
      <4> QED
        BY <4>2, <4>3
    <3> QED
      BY <1>1, <3>4, <3>6, <3>7
  <2>3. \A i, j \in DOMAIN c : i # j => c[i].task # c[j].task
    BY DEF Shape
  <2>4. \A i \in DOMAIN c : c[i].task # t => i # k
    BY <2>1
  <2>5. \A i \in DOMAIN c : i # k => new(i) \in DOMAIN d /\ old(new(i)) = i
    BY <1>1, <2>2
  <2>6. \A i, j \in DOMAIN d : i < j => old(i) < old(j)
    BY <1>1, <2>2
  <2>7. \A i, j \in DOMAIN d : i # j => old(i) # old(j)
    BY <1>1, <2>2
  <2> HIDE DEF old, new
  <2>8. \A i \in DOMAIN c : i # k => \E j \in DOMAIN d : d[j] = c[i]
    <3> SUFFICES ASSUME NEW i \in DOMAIN c, i # k PROVE \E j \in DOMAIN d : d[j] = c[i]
      OBVIOUS
    <3>1. new(i) \in DOMAIN d /\ old(new(i)) = i
      BY <2>5
    <3>2. d[new(i)] = c[i]
      BY <2>2, <3>1
    <3> QED
      BY <3>1, <3>2
  <2>9. \A j \in DOMAIN d : \E i \in DOMAIN c : d[j] = c[i] /\ c[i].task # t
    BY <2>1, <2>2, <2>3
  <2>10. \A i, j \in DOMAIN d : i # j => d[i].task # d[j].task
    BY <2>2, <2>3, <2>7
  <2>11. \A i, j \in DOMAIN d : i < j /\ d[i].redundant_out => d[j].redundant_out
    BY <2>2, <2>6 DEF Shape
  <2>12. \A i, j \in DOMAIN d : LiveOut(d[i]) /\ LiveOut(d[j]) => i = j
    BY <2>2, <2>7 DEF Shape
  <2>13. \A i \in DOMAIN d : d[i].redundant_out =>
           ~d[i].in /\ \E j \in DOMAIN d : LiveOut(d[j]) /\ d[i].task < d[j].task
    <3> SUFFICES ASSUME NEW i \in DOMAIN d, d[i].redundant_out
                 PROVE  ~d[i].in /\ \E j \in DOMAIN d : LiveOut(d[j]) /\ d[i].task < d[j].task
      OBVIOUS
    <3>1. d[i] = c[old(i)] /\ old(i) \in DOMAIN c
      BY <2>2
    <3>2. PICK j \in DOMAIN c : ~d[i].in /\ LiveOut(c[j]) /\ d[i].task < c[j].task
      BY <3>1 DEF Shape
    <3>3. j # k
      BY <2>1, <3>1, <3>2
    <3> QED
      BY <2>8, <3>2, <3>3
  <2>14. Shape(d)
    BY <2>10, <2>11, <2>12, <2>13 DEF Shape
  <2> QED
    BY <2>2, <2>4, <2>8, <2>9, <2>14 DEF d
<1> QED
  BY <1>2, <1>3
-----------------------------------------------------------------------------
(* The tasks B when t, with its depend clause, is new and no element of    *)
(* the clause has been handled; p is its parent.                           *)
Base(B, p, t) ==
  /\ B \in [AnyTask -> TaskRec] /\ p \in AnyTask /\ t \in Task /\ p # t
  /\ B[t].parent = p /\ B[t].num_dependees = 0 /\ DeferredIn(B, t)
  /\ \A u \in Task : t \notin Range(B[u].dependers)
  /\ \A a \in Addr : LET c == B[p].depend_hash[a]
                      IN  /\ Shape(c) /\ Content(B, p, a, c)
                          /\ \A i \in DOMAIN c : c[i].task < t
                          /\ \A u \in Task \ {t} :
                               DeferredIn(B, u) /\ B[u].parent = p /\ Names(B[u].depend, a)
                                 => \E i \in DOMAIN c : c[i].task = u

(* Everything but what gomp_task_handle_depend changes.                    *)
SameElse(R, Q) ==
  /\ R.kind = Q.kind /\ R.parent = Q.parent /\ R.origin = Q.origin /\ R.type = Q.type
  /\ R.queues = Q.queues /\ R.taskgroup = Q.taskgroup /\ R.member = Q.member
  /\ R.depend = Q.depend /\ R.parent_depends_on = Q.parent_depends_on

(* The chain of address a has the entry of t, which depends on the tasks   *)
(* of the chain, directly or through the out that follows them.            *)
Handled(B, S, p, t, a) ==
  LET c == S[p].depend_hash[a]
  IN  /\ c # <<>> /\ Head(c).task = t /\ Shape(c)
      /\ Content(B, p, a, c) /\ Complete(B, p, a, c)
      /\ \A u \in Task \ {t} :
           DeferredIn(B, u) /\ B[u].parent = p /\ Names(B[u].depend, a)
           /\ (NamesOut(B[u].depend, a) \/ NamesOut(B[t].depend, a))
           => \/ t \in Range(S[u].dependers)
              \/ \E w \in Task : /\ u < w /\ t \in Range(S[w].dependers)
                                 /\ NamesOut(B[w].depend, a) /\ NamesOut(B[u].depend, a)

(* The tasks S after the first n elements of the clause.                   *)
Building(B, S, p, t, n) ==
  /\ S \in [AnyTask -> TaskRec]
  /\ \A u \in AnyTask : /\ SameElse(S[u], B[u])
                        /\ u # t => S[u].num_dependees = B[u].num_dependees
                        /\ u # p => S[u].depend_hash = B[u].depend_hash
  /\ \A u \in AnyTask :
       \/ S[u].dependers = B[u].dependers
       \/ /\ S[u].dependers = Append(B[u].dependers, t)
          /\ u \in Task /\ DeferredIn(B, u) /\ B[u].parent = p /\ u < t
  /\ S[t].num_dependees = Cardinality(Dependees(S, t))
  /\ \A a \in Addr :
       /\ (\A j \in 1..n : B[t].depend[j].addr # a) => S[p].depend_hash[a] = B[p].depend_hash[a]
       /\ (\E j \in 1..n : B[t].depend[j].addr = a) => Handled(B, S, p, t, a)

(* What appending an element does to the set of elements.                  *)
LEMMA RangeAppend ==
  ASSUME NEW s \in Seq(Task), NEW t \in Task
  PROVE  /\ Append(s, t) \in Seq(Task) /\ Range(Append(s, t)) = Range(s) \cup {t}
         /\ t \notin Range(s) => s = <<>> \/ Last(s) # t
         /\ Append(s, t) # <<>> /\ Last(Append(s, t)) = t
<1>1. /\ Append(s, t) \in Seq(Task) /\ Len(Append(s, t)) = Len(s) + 1 /\ Append(s, t)[Len(s) + 1] = t
      /\ DOMAIN Append(s, t) = 1..Len(s) + 1 /\ \A i \in 1..Len(s) : Append(s, t)[i] = s[i]
  OBVIOUS
<1>2. DOMAIN s = 1..Len(s) /\ Len(s) \in Nat
  OBVIOUS
<1>3. Range(Append(s, t)) = Range(s) \cup {t}
  BY <1>1, <1>2 DEF Range
<1>4. s # <<>> => Len(s) \in DOMAIN s
  BY <1>2
<1>5. t \notin Range(s) => s = <<>> \/ Last(s) # t
  BY <1>4 DEF Range, Last
<1> QED
  BY <1>1, <1>3, <1>5 DEF Last

(* What an element of a depend clause does when none before it names its   *)
(* address.                                                                *)
Added(S, T, p, t, e, hits) ==
  /\ T \in [AnyTask -> TaskRec]
  /\ \A u \in AnyTask :
       /\ SameElse(T[u], S[u])
       /\ T[u].dependers = IF u \in hits THEN Append(S[u].dependers, t) ELSE S[u].dependers
       /\ u # t => T[u].num_dependees = S[u].num_dependees
       /\ u # p => T[u].depend_hash = S[u].depend_hash
  /\ T[t].num_dependees = S[t].num_dependees + Cardinality(hits)
  /\ T[p].depend_hash[e.addr] = Push(S[p].depend_hash[e.addr], t, e.in)
  /\ \A a \in Addr : a # e.addr => T[p].depend_hash[a] = S[p].depend_hash[a]

(* The tasks that task t comes to depend on through element e of its       *)
(* clause, in chain c.                                                     *)
Hits(S, c, t, e) ==
  {u \in Task : /\ \E i \in 1..LiveEntries(c) : c[i].task = u /\ ~(e.in /\ c[i].in)
                /\ t \notin Range(S[u].dependers)}

(* AddDepend does that, when the element's address is the first of its     *)
(* kind in the clause.                                                     *)
LEMMA AddIs ==
  ASSUME NEW B, NEW S, NEW p, NEW t, NEW n \in Nat, Base(B, p, t), Building(B, S, p, t, n),
         NEW e \in [addr : Addr, in : BOOLEAN],
         S[p].depend_hash[e.addr] = B[p].depend_hash[e.addr]
  PROVE  Added(S, AddDepend(S, p, t, e), p, t, e, Hits(S, B[p].depend_hash[e.addr], t, e))
<1> DEFINE a == e.addr
           c == B[p].depend_hash[a]
           hits == Hits(S, c, t, e)
           T == AddDepend(S, p, t, e)
<1>1. /\ B \in [AnyTask -> TaskRec] /\ S \in [AnyTask -> TaskRec]
      /\ p \in AnyTask /\ t \in Task /\ t \in AnyTask /\ a \in Addr /\ e.in \in BOOLEAN
  BY DEF Base, Building, AnyTask
<1>2. c \in Seq(Entry) /\ Shape(c) /\ \A i \in DOMAIN c : c[i].task < t
  BY <1>1 DEF Base, TaskRec
<1>3. ~(c # <<>> /\ Head(c).task = t)
  <2> SUFFICES ASSUME c # <<>>, Head(c).task = t PROVE FALSE
    OBVIOUS
  <2>1. 1 \in DOMAIN c /\ Head(c) = c[1]
    BY <1>2
  <2>2. t < t
    BY <1>2, <2>1
  <2> QED
    BY <1>1, <2>2, ConstantsOK
<1>4. ASSUME NEW u \in Task
      PROVE  (S[u].dependers = <<>> \/ Last(S[u].dependers) # t) <=> t \notin Range(S[u].dependers)
  <2>1. B[u].dependers \in Seq(Task) /\ t \notin Range(B[u].dependers)
    BY <1>1 DEF Base, TaskRec, AnyTask
  <2>2. S[u].dependers = B[u].dependers \/ S[u].dependers = Append(B[u].dependers, t)
    BY DEF Building, AnyTask
  <2> DEFINE s == B[u].dependers
  <2>3. /\ Range(Append(s, t)) = Range(s) \cup {t}
        /\ t \notin Range(s) => s = <<>> \/ Last(s) # t
        /\ Append(s, t) # <<>> /\ Last(Append(s, t)) = t
    <3> HIDE DEF s
    <3>1. s \in Seq(Task) /\ t \in Task
      BY <1>1, <2>1 DEF s
    <3> QED
      BY <3>1, RangeAppend
  <2> HIDE DEF s
  <2>4. CASE S[u].dependers = s
    BY <2>1, <2>3, <2>4 DEF s
  <2>5. CASE S[u].dependers = Append(s, t)
    BY <2>3, <2>5
  <2> QED
    BY <2>2, <2>4, <2>5 DEF s
<1>5. hits = {u \in Task :
                /\ \E i \in 1..LiveEntries(c) : c[i].task = u /\ ~(e.in /\ c[i].in)
                /\ S[u].dependers = <<>> \/ Last(S[u].dependers) # t}
  BY <1>4 DEF Hits
<1>6. T = [u \in AnyTask |->
             [S[u] EXCEPT !.dependers = IF u \in hits THEN Append(@, t) ELSE @,
                          !.num_dependees = IF u = t THEN @ + Cardinality(hits) ELSE @,
                          !.depend_hash = IF u = p THEN [@ EXCEPT ![a] = Push(c, t, e.in)] ELSE @]]
  <2> HIDE DEF hits
  <2>1. S[p].depend_hash[e.addr] = c
    OBVIOUS
  <2> HIDE DEF c
  <2> QED
    BY <1>3, <1>5, <2>1 DEF AddDepend
<1>7. Push(c, t, e.in) \in Seq(Entry)
  BY <1>1, <1>2, PushShape
<1>8. Cardinality(hits) \in Nat
  <2>1. hits \subseteq Task
    BY DEF Hits
  <2> QED
    BY <2>1, ConstantsOK, FS_Subset, FS_CardinalityType
<1> HIDE DEF hits, c, T
<1>9. ASSUME NEW u \in AnyTask
      PROVE  /\ T[u] \in TaskRec /\ SameElse(T[u], S[u])
             /\ T[u].dependers = IF u \in hits THEN Append(S[u].dependers, t) ELSE S[u].dependers
             /\ T[u].num_dependees = IF u = t THEN S[u].num_dependees + Cardinality(hits)
                                     ELSE S[u].num_dependees
             /\ T[u].depend_hash = IF u = p THEN [S[u].depend_hash EXCEPT ![a] = Push(c, t, e.in)]
                                   ELSE S[u].depend_hash
  <2> DEFINE R == S[u]
             dep == IF u \in hits THEN Append(R.dependers, t) ELSE R.dependers
             num == IF u = t THEN R.num_dependees + Cardinality(hits) ELSE R.num_dependees
             hash == IF u = p THEN [R.depend_hash EXCEPT ![a] = Push(c, t, e.in)] ELSE R.depend_hash
  <2>1. R \in TaskRec
    BY <1>1
  <2>2. dep \in Seq(Task)
    BY <1>1, <2>1, RangeAppend DEF TaskRec
  <2>3. num \in Nat
    BY <1>8, <2>1 DEF TaskRec
  <2>4. hash \in [Addr -> Seq(Entry)]
    <3>1. R.depend_hash \in [Addr -> Seq(Entry)]
      BY <2>1 DEF TaskRec
    <3> HIDE DEF R
    <3> QED
      BY <1>7, <3>1
  <2>5. T[u] = [R EXCEPT !.dependers = dep, !.num_dependees = num, !.depend_hash = hash]
    BY <1>6
  <2> HIDE DEF R, dep, num, hash
  <2>6. /\ T[u] \in TaskRec /\ SameElse(T[u], R) /\ T[u].dependers = dep
        /\ T[u].num_dependees = num /\ T[u].depend_hash = hash
    BY <2>1, <2>2, <2>3, <2>4, <2>5 DEF TaskRec, SameElse
  <2> QED
    BY <2>6 DEF R, dep, num, hash
<1>10. T \in [AnyTask -> TaskRec]
  <2>1. T = [u \in AnyTask |-> T[u]]
    BY <1>6
  <2> QED
    BY <1>9, <2>1
<1>11. S[p].depend_hash \in [Addr -> Seq(Entry)]
  BY <1>1 DEF TaskRec
<1>12. T[p].depend_hash = [S[p].depend_hash EXCEPT ![a] = Push(c, t, e.in)]
  BY <1>1, <1>9
<1>13. T[p].depend_hash[a] = Push(c, t, e.in) /\ \A b \in Addr : b # a => T[p].depend_hash[b] = S[p].depend_hash[b]
  BY <1>1, <1>11, <1>12
<1>14. Added(S, T, p, t, e, hits)
  <2>1. S[p].depend_hash[e.addr] = c
    BY DEF c
  <2> QED
    BY <1>1, <1>9, <1>10, <1>13, <2>1 DEF Added
<1> QED
  BY <1>14 DEF T, hits, c

(* A clause has its outs first: what its first element for an address says *)
(* it says of the address.                                                 *)
LEMMA FirstNamed ==
  ASSUME NEW cl \in Clauses, NEW n \in Nat, n + 1 \in DOMAIN cl,
         \A j \in 1..n : cl[j].addr # cl[n + 1].addr
  PROVE  Names(cl, cl[n + 1].addr) /\ (cl[n + 1].in <=> ~NamesOut(cl, cl[n + 1].addr))
<1>1. cl \in Seq([addr : Addr, in : BOOLEAN]) /\ \A i, j \in DOMAIN cl : i < j /\ cl[i].in => cl[j].in
  BY ConstantsOK
<1>2. DOMAIN cl = 1..Len(cl) /\ Len(cl) \in Nat
  BY <1>1
<1>3. \A j \in DOMAIN cl : j \in 1..n \/ j = n + 1 \/ n + 1 < j
  BY <1>2
<1> QED
  BY <1>1, <1>3 DEF Names, NamesOut

(* One more element of the depend clause of t.                             *)
LEMMA AddStep ==
  ASSUME NEW B, NEW S, NEW p, NEW t, NEW n \in Nat, Base(B, p, t), Building(B, S, p, t, n),
         n + 1 \in DOMAIN B[t].depend
  PROVE  Building(B, AddDepend(S, p, t, B[t].depend[n + 1]), p, t, n + 1)
<1> DEFINE cl == B[t].depend
           e == cl[n + 1]
           a == e.addr
           T == AddDepend(S, p, t, e)
<1>1. /\ B \in [AnyTask -> TaskRec] /\ S \in [AnyTask -> TaskRec]
      /\ p \in AnyTask /\ t \in Task /\ t \in AnyTask
  BY DEF Base, Building, AnyTask
<1>2. cl \in Clauses /\ cl \in Seq([addr : Addr, in : BOOLEAN]) /\ e \in [addr : Addr, in : BOOLEAN]
  <2>1. cl \in Clauses \cup {<<>>}
    BY <1>1 DEF TaskRec
  <2>2. cl # <<>>
    OBVIOUS
  <2>3. cl \in Clauses /\ cl \in Seq([addr : Addr, in : BOOLEAN])
    BY <2>1, <2>2, ConstantsOK
  <2>4. n + 1 \in DOMAIN cl
    OBVIOUS
  <2> HIDE DEF cl
  <2>5. cl[n + 1] \in [addr : Addr, in : BOOLEAN]
    <3> DEFINE E == [addr : Addr, in : BOOLEAN]
    <3>1. cl \in Seq(E)
      BY <2>3
    <3> HIDE DEF E
    <3>2. cl[n + 1] \in E
      BY <2>4, <3>1
    <3> QED
      BY <3>2 DEF E
  <2> QED
    BY <2>3, <2>5
<1>3. a \in Addr /\ e.in \in BOOLEAN
  BY <1>2
<1>4. \A b \in Addr : /\ (\E j \in 1..n + 1 : cl[j].addr = b) <=> b = a \/ \E j \in 1..n : cl[j].addr = b
                      /\ (\A j \in 1..n + 1 : cl[j].addr # b) <=> b # a /\ \A j \in 1..n : cl[j].addr # b
  <2>1. \A j : j \in 1..n + 1 <=> j \in 1..n \/ j = n + 1
    OBVIOUS
  <2> HIDE DEF cl
  <2> QED
    BY <2>1
<1>5. CASE \E j \in 1..n : cl[j].addr = a
  <2>1. S[p].depend_hash[a] # <<>> /\ Head(S[p].depend_hash[a]).task = t
    BY <1>3, <1>5 DEF Building, Handled
  <2>2. T = S
    BY <2>1 DEF AddDepend
  <2> HIDE DEF T
  <2>3. Building(B, T, p, t, n + 1)
    BY <1>4, <1>5, <2>2 DEF Building
  <2> QED
    BY <2>3 DEF T
<1>6. CASE \A j \in 1..n : cl[j].addr # a
  <2> DEFINE c == B[p].depend_hash[a]
             hits == Hits(S, c, t, e)
             d == Push(c, t, e.in)
  <2>1. S[p].depend_hash[a] = c
    BY <1>3, <1>6 DEF Building
  <2>2. Added(S, T, p, t, e, hits)
    <3> HIDE DEF e, hits, T
    <3>1. S[p].depend_hash[e.addr] = B[p].depend_hash[e.addr]
      BY <2>1
    <3> QED
      BY <1>2, <3>1, AddIs DEF T, hits
  <2>3. T[p].depend_hash[a] = d
    BY <2>1, <2>2 DEF Added
  <2>4. /\ c \in Seq(Entry) /\ Shape(c) /\ Content(B, p, a, c)
        /\ \A i \in DOMAIN c : c[i] \in Entry /\ c[i].task < t /\ c[i].task \in Task
        /\ \A u \in Task \ {t} : DeferredIn(B, u) /\ B[u].parent = p /\ Names(B[u].depend, a)
             => \E i \in DOMAIN c : c[i].task = u
    <3>1. c \in Seq(Entry)
      BY <1>1, <1>3 DEF TaskRec
    <3>2. /\ Shape(c) /\ Content(B, p, a, c)
          /\ \A i \in DOMAIN c : c[i].task < t
          /\ \A u \in Task \ {t} : DeferredIn(B, u) /\ B[u].parent = p /\ Names(B[u].depend, a)
             => \E i \in DOMAIN c : c[i].task = u
      BY <1>3 DEF Base
    <3>3. \A i \in DOMAIN c : c[i] \in Entry
      BY <3>1
    <3>4. \A i \in DOMAIN c : c[i].task \in Task
      BY <3>3 DEF Entry
    <3> QED
      BY <3>1, <3>2, <3>3, <3>4
  <2>5. Names(cl, a) /\ (e.in <=> ~NamesOut(cl, a))
    <3> HIDE DEF cl
    <3> QED
      BY <1>2, <1>6, FirstNamed DEF cl
  <2>6. LiveEntries(c) \in 0..Len(c) /\ \A i \in DOMAIN c : c[i].redundant_out <=> i > LiveEntries(c)
    BY <2>4, LiveEntriesAre
  <2>7. /\ d \in Seq(Entry) /\ d # <<>> /\ Shape(d) /\ Head(d).task = t
        /\ \A i \in DOMAIN c : \E j \in DOMAIN d : d[j].task = c[i].task /\ d[j].in = c[i].in
        /\ \A j \in DOMAIN d : \/ d[j].task = t /\ d[j].in = e.in
                               \/ \E i \in DOMAIN c : d[j].task = c[i].task /\ d[j].in = c[i].in
    <3> HIDE DEF e, c
    <3> QED
      BY <1>1, <1>3, <2>4, PushShape
  <2>8. DOMAIN c = 1..Len(c) /\ Len(c) \in Nat
    <3> HIDE DEF c
    <3> QED
      BY <2>4
  <2> HIDE DEF T, hits, d, c, e, cl
  <2>9. \A u \in hits : /\ u \in Task /\ DeferredIn(B, u) /\ B[u].parent = p /\ u < t
                        /\ t \notin Range(S[u].dependers)
    <3> SUFFICES ASSUME NEW u \in hits
                 PROVE  /\ u \in Task /\ DeferredIn(B, u) /\ B[u].parent = p /\ u < t
                        /\ t \notin Range(S[u].dependers)
      OBVIOUS
    <3>1. PICK i \in 1..LiveEntries(c) : c[i].task = u
      BY DEF hits, Hits
    <3>2. i \in DOMAIN c
      BY <2>6, <2>8, <3>1
    <3> QED
      BY <2>4, <3>1, <3>2 DEF hits, Hits, Content
  <2>10. \A u \in Task : B[u].dependers \in Seq(Task) /\ S[u].dependers \in Seq(Task)
    BY <1>1 DEF TaskRec, AnyTask
  <2>11. \A u \in Task : /\ u \in hits => Range(T[u].dependers) = Range(S[u].dependers) \cup {t}
                         /\ u \notin hits => T[u].dependers = S[u].dependers
    <3> SUFFICES ASSUME NEW u \in Task
                 PROVE  /\ u \in hits => Range(T[u].dependers) = Range(S[u].dependers) \cup {t}
                        /\ u \notin hits => T[u].dependers = S[u].dependers
      OBVIOUS
    <3>1. T[u].dependers = IF u \in hits THEN Append(S[u].dependers, t) ELSE S[u].dependers
      BY <2>2 DEF Added, AnyTask
    <3> DEFINE s == S[u].dependers
    <3>2. s \in Seq(Task)
      BY <2>10
    <3> HIDE DEF s
    <3>3. Range(Append(s, t)) = Range(s) \cup {t}
      BY <1>1, <3>2, RangeAppend
    <3> QED
      BY <3>1, <3>3 DEF s
  <2>12. \A u \in AnyTask : \/ T[u].dependers = B[u].dependers
                            \/ /\ T[u].dependers = Append(B[u].dependers, t)
                               /\ u \in Task /\ DeferredIn(B, u) /\ B[u].parent = p /\ u < t
    <3> SUFFICES ASSUME NEW u \in AnyTask
                 PROVE  \/ T[u].dependers = B[u].dependers
                        \/ /\ T[u].dependers = Append(B[u].dependers, t)
                           /\ u \in Task /\ DeferredIn(B, u) /\ B[u].parent = p /\ u < t
      OBVIOUS
    <3>1. T[u].dependers = IF u \in hits THEN Append(S[u].dependers, t) ELSE S[u].dependers
      BY <2>2 DEF Added
    <3>2. \/ S[u].dependers = B[u].dependers
          \/ /\ S[u].dependers = Append(B[u].dependers, t)
             /\ u \in Task /\ DeferredIn(B, u) /\ B[u].parent = p /\ u < t
      BY DEF Building
    <3>3. CASE u \notin hits
      BY <3>1, <3>2, <3>3
    <3>4. CASE u \in hits
      <4>1. /\ u \in Task /\ DeferredIn(B, u) /\ B[u].parent = p /\ u < t
            /\ t \notin Range(S[u].dependers)
        BY <2>9, <3>4
      <4>2. S[u].dependers = B[u].dependers
        <5> SUFFICES ASSUME S[u].dependers = Append(B[u].dependers, t) PROVE FALSE
          BY <3>2
        <5> DEFINE s == B[u].dependers
        <5>1. s \in Seq(Task)
          BY <2>10, <4>1
        <5> HIDE DEF s
        <5>2. t \in Range(Append(s, t))
          BY <1>1, <5>1, RangeAppend
        <5> QED
          BY <4>1, <5>2 DEF s
      <4> QED
        BY <3>1, <3>4, <4>1, <4>2
    <3> QED
      BY <3>3, <3>4
  <2>13. T[t].num_dependees = Cardinality(Dependees(T, t))
    <3>1. Dependees(T, t) = Dependees(S, t) \cup hits /\ Dependees(S, t) \cap hits = {}
      BY <2>9, <2>11 DEF Dependees
    <3>2. IsFiniteSet(Dependees(S, t)) /\ IsFiniteSet(hits)
      <4>1. Dependees(S, t) \subseteq Task /\ hits \subseteq Task
        BY <2>9 DEF Dependees
      <4> QED
        BY <4>1, ConstantsOK, FS_Subset
    <3>3. Cardinality(Dependees(S, t) \cup hits) = Cardinality(Dependees(S, t)) + Cardinality(hits)
      <4>1. Cardinality({}) = 0
        BY FS_EmptySet
      <4>2. Cardinality(Dependees(S, t)) \in Nat /\ Cardinality(hits) \in Nat
        BY <3>2, FS_CardinalityType
      <4>3. Cardinality(Dependees(S, t) \cup hits)
              = Cardinality(Dependees(S, t)) + Cardinality(hits) - Cardinality(Dependees(S, t) \cap hits)
        BY <3>2, FS_Union
      <4>4. Cardinality(Dependees(S, t) \cap hits) = 0
        BY <3>1, <4>1
      <4> QED
        BY <4>2, <4>3, <4>4
    <3>4. T[t].num_dependees = S[t].num_dependees + Cardinality(hits)
      BY <2>2 DEF Added
    <3> QED
      BY <3>1, <3>3, <3>4 DEF Building
  <2>14. \A u \in Task : Range(S[u].dependers) \subseteq Range(T[u].dependers)
    BY <2>11
  <2>15. Content(B, p, a, d)
    <3> SUFFICES ASSUME NEW j \in DOMAIN d
                 PROVE  /\ DeferredIn(B, d[j].task) /\ B[d[j].task].parent = p
                        /\ Names(B[d[j].task].depend, a)
                        /\ d[j].in = ~NamesOut(B[d[j].task].depend, a)
      BY DEF Content
    <3>1. CASE d[j].task = t /\ d[j].in = e.in
      <4>1. DeferredIn(B, t) /\ B[t].parent = p
        BY DEF Base
      <4> QED
        BY <1>3, <2>5, <3>1, <4>1 DEF cl
    <3>2. CASE \E i \in DOMAIN c : d[j].task = c[i].task /\ d[j].in = c[i].in
      BY <2>4, <3>2 DEF Content
    <3> QED
      BY <2>7, <3>1, <3>2
  <2>16. Complete(B, p, a, d)
    <3> SUFFICES ASSUME NEW u \in Task, DeferredIn(B, u), B[u].parent = p, Names(B[u].depend, a)
                 PROVE  \E i \in DOMAIN d : d[i].task = u
      BY DEF Complete
    <3>1. CASE u = t
      <4>1. 1 \in DOMAIN d /\ Head(d) = d[1]
        BY <2>7
      <4> QED
        BY <2>7, <3>1, <4>1
    <3>2. CASE u # t
      <4>1. PICK i \in DOMAIN c : c[i].task = u
        BY <2>4, <3>2
      <4> QED
        BY <2>7, <4>1
    <3> QED
      BY <3>1, <3>2
  <2>17. ASSUME NEW i \in DOMAIN c, i <= LiveEntries(c), ~(e.in /\ c[i].in)
         PROVE  t \in Range(T[c[i].task].dependers)
    <3>1. c[i].task \in Task /\ i \in 1..LiveEntries(c)
      BY <2>4, <2>6, <2>8, <2>17
    <3>2. c[i].task \in hits \/ t \in Range(S[c[i].task].dependers)
      BY <2>17, <3>1 DEF hits, Hits
    <3> QED
      BY <2>11, <2>14, <3>1, <3>2
  <2>18. ASSUME NEW u \in Task \ {t}, DeferredIn(B, u), B[u].parent = p, Names(B[u].depend, a),
                NamesOut(B[u].depend, a) \/ NamesOut(B[t].depend, a)
         PROVE  \/ t \in Range(T[u].dependers)
                \/ \E w \in Task : /\ u < w /\ t \in Range(T[w].dependers)
                                   /\ NamesOut(B[w].depend, a) /\ NamesOut(B[u].depend, a)
    <3>1. PICK i \in DOMAIN c : c[i].task = u
      BY <2>4, <2>18
    <3>2. c[i].in = ~NamesOut(B[u].depend, a)
      BY <2>4, <3>1 DEF Content
    <3>3. ~(e.in /\ c[i].in)
      BY <2>5, <2>18, <3>2 DEF cl
    <3>4. CASE i <= LiveEntries(c)
      BY <2>17, <3>1, <3>3, <3>4
    <3>5. CASE ~(i <= LiveEntries(c))
      <4>1. c[i].redundant_out
        BY <2>6, <2>8, <3>5
      <4>2. PICK j \in DOMAIN c : ~c[i].in /\ LiveOut(c[j]) /\ c[i].task < c[j].task
        BY <2>4, <4>1 DEF Shape
      <4>3. j <= LiveEntries(c) /\ ~c[j].in
        BY <2>6, <2>8, <4>2 DEF LiveOut
      <4>4. t \in Range(T[c[j].task].dependers)
        BY <2>17, <4>3
      <4>5. NamesOut(B[c[j].task].depend, a) /\ c[j].task \in Task
        BY <2>4, <4>3 DEF Content
      <4> QED
        BY <3>1, <3>2, <4>2, <4>4, <4>5
    <3> QED
      BY <3>4, <3>5
  <2>19. Handled(B, T, p, t, a)
    BY <2>3, <2>7, <2>15, <2>16, <2>18 DEF Handled
  <2>20. ASSUME NEW b \in Addr, b # a, Handled(B, S, p, t, b)
         PROVE  Handled(B, T, p, t, b)
    <3>1. T[p].depend_hash[b] = S[p].depend_hash[b]
      BY <2>2, <2>20 DEF Added
    <3> QED
      BY <2>14, <2>20, <3>1 DEF Handled
  <2>21. ASSUME NEW b \in Addr
         PROVE  /\ (\A j \in 1..n + 1 : cl[j].addr # b) => T[p].depend_hash[b] = B[p].depend_hash[b]
                /\ (\E j \in 1..n + 1 : cl[j].addr = b) => Handled(B, T, p, t, b)
    <3>1. CASE b = a
      BY <1>4, <2>19, <3>1
    <3>2. CASE b # a
      <4>1. T[p].depend_hash[b] = S[p].depend_hash[b]
        BY <2>2, <3>2 DEF Added
      <4>2. /\ (\A j \in 1..n : cl[j].addr # b) => S[p].depend_hash[b] = B[p].depend_hash[b]
            /\ (\E j \in 1..n : cl[j].addr = b) => Handled(B, S, p, t, b)
        BY DEF Building, cl
      <4> QED
        BY <1>4, <2>20, <3>2, <4>1, <4>2
    <3> QED
      BY <3>1, <3>2
  <2>22. T \in [AnyTask -> TaskRec]
    BY <2>2 DEF Added
  <2>23. \A u \in AnyTask : /\ SameElse(T[u], B[u])
                            /\ u # t => T[u].num_dependees = B[u].num_dependees
                            /\ u # p => T[u].depend_hash = B[u].depend_hash
    BY <2>2 DEF Added, Building, SameElse
  <2>24. Building(B, T, p, t, n + 1)
    BY <2>12, <2>13, <2>21, <2>22, <2>23 DEF Building, cl
  <2> QED
    BY <2>24 DEF T, e, cl
<1> QED
  BY <1>5, <1>6

(* The whole of gomp_task_handle_depend.                                   *)
LEMMA HandleDepend ==
  ASSUME NEW B, NEW p, NEW t, Base(B, p, t)
  PROVE  Building(B, gomp_task_handle_depend(B, p, t, B[t].depend), p, t, Len(B[t].depend))
<1> DEFINE cl == B[t].depend
           n == Len(cl)
           Def(g) == [i \in 0..n |-> IF i = 0 THEN B ELSE AddDepend(g[i - 1], p, t, cl[i])]
           after == CHOOSE g : g = Def(g)
           Upto(k, g) == g = [i \in 0..k |-> IF i = 0 THEN B ELSE AddDepend(g[i - 1], p, t, cl[i])]
           F == {k \in Nat : \E g : Upto(k, g)}
           G == {k \in Nat : k <= n => Building(B, after[k], p, t, k)}
<1>1. B \in [AnyTask -> TaskRec] /\ t \in Task /\ t \in AnyTask
  BY DEF Base, AnyTask
<1>2. n \in Nat /\ DOMAIN cl = 1..n
  <2>1. cl \in Clauses \cup {<<>>}
    BY <1>1 DEF TaskRec
  <2> DEFINE E == [addr : Addr, in : BOOLEAN]
  <2>2. Clauses \subseteq Seq(E)
    BY ConstantsOK
  <2> HIDE DEF cl, E
  <2>3. <<>> \in Seq(E)
    OBVIOUS
  <2>4. cl \in Seq(E)
    BY <2>1, <2>2, <2>3
  <2> QED
    BY <2>4
<1>3. gomp_task_handle_depend(B, p, t, cl) = after[n]
  BY DEF gomp_task_handle_depend
<1> HIDE DEF cl, n
<1>4. 0 \in F
  <2> DEFINE g == [i \in 0..0 |-> B]
  <2>1. \A i \in 0..0 : i = 0 /\ g[i] = B
    OBVIOUS
  <2>2. g = [i \in 0..0 |-> g[i]]
    OBVIOUS
  <2> HIDE DEF g
  <2>3. Upto(0, g)
    BY <2>1, <2>2
  <2> HIDE DEF Upto
  <2> QED
    BY <2>3
<1>5. ASSUME NEW k \in Nat, k \in F
      PROVE  k + 1 \in F
  <2>1. PICK g : Upto(k, g)
    BY <1>5
  <2> DEFINE h == [i \in 0..k + 1 |-> IF i <= k THEN g[i] ELSE AddDepend(g[k], p, t, cl[k + 1])]
  <2>2. ASSUME NEW i \in 0..k + 1
        PROVE  h[i] = IF i = 0 THEN B ELSE AddDepend(h[i - 1], p, t, cl[i])
    <3>1. CASE i <= k
      <4>1. h[i] = g[i] /\ i \in 0..k
        BY <3>1
      <4>2. i # 0 => h[i - 1] = g[i - 1]
        BY <3>1
      <4>3. g[i] = IF i = 0 THEN B ELSE AddDepend(g[i - 1], p, t, cl[i])
        BY <2>1, <4>1
      <4> HIDE DEF h
      <4> QED
        BY <4>1, <4>2, <4>3
    <3>2. CASE i = k + 1
      <4>1. h[i] = AddDepend(g[k], p, t, cl[k + 1]) /\ h[i - 1] = g[k] /\ i # 0
        BY <3>2
      <4> HIDE DEF h
      <4> QED
        BY <3>2, <4>1
    <3> QED
      BY <3>1, <3>2
  <2>3. Upto(k + 1, h)
    <3>1. h = [i \in 0..k + 1 |-> h[i]]
      OBVIOUS
    <3> HIDE DEF h
    <3> QED
      BY <2>2, <3>1
  <2> HIDE DEF Upto, h
  <2> QED
    BY <2>3
<1>6. Nat \subseteq F
  <2> HIDE DEF F
  <2> QED
    BY <1>4, <1>5, Induction
<1>7. PICK g : g = Def(g)
  BY <1>2, <1>6
<1>8. after = Def(after)
  BY <1>7
<1>9. after[0] = B /\ \A k \in Nat : k + 1 <= n => after[k + 1] = AddDepend(after[k], p, t, cl[k + 1])
  <2> HIDE DEF after
  <2>1. \A i \in 0..n : after[i] = IF i = 0 THEN B ELSE AddDepend(after[i - 1], p, t, cl[i])
    BY <1>8
  <2>2. after[0] = B
    BY <1>2, <2>1
  <2>3. ASSUME NEW k \in Nat, k + 1 <= n
        PROVE  after[k + 1] = AddDepend(after[k], p, t, cl[k + 1])
    <3>1. k + 1 \in 0..n /\ k + 1 # 0 /\ k + 1 - 1 = k
      BY <1>2, <2>3
    <3> QED
      BY <2>1, <3>1
  <2> QED
    BY <2>2, <2>3
<1> HIDE DEF after
<1>10. 0 \in G
  <2>1. Dependees(B, t) = {} /\ B[t].num_dependees = 0
    BY DEF Base, Dependees
  <2>2. B[t].num_dependees = Cardinality(Dependees(B, t))
    BY <2>1, FS_EmptySet
  <2>3. Building(B, B, p, t, 0)
    BY <1>1, <2>2 DEF Building, SameElse
  <2> QED
    BY <1>9, <2>3
<1>11. ASSUME NEW k \in Nat, k \in G
       PROVE  k + 1 \in G
  <2> SUFFICES ASSUME k + 1 <= n PROVE Building(B, after[k + 1], p, t, k + 1)
    OBVIOUS
  <2>1. Building(B, after[k], p, t, k)
    BY <1>2, <1>11
  <2>2. k + 1 \in DOMAIN cl
    BY <1>2
  <2>3. Building(B, AddDepend(after[k], p, t, cl[k + 1]), p, t, k + 1)
    BY <2>1, <2>2, AddStep DEF cl
  <2> QED
    BY <1>9, <2>3
<1>12. Nat \subseteq G
  <2> HIDE DEF G
  <2> QED
    BY <1>10, <1>11, Induction
<1> QED
  BY <1>2, <1>3, <1>12 DEF cl, n

-----------------------------------------------------------------------------
(* The tasks' part of the inductive invariant.                             *)
Graph(tk) ==
  /\ tk \in [AnyTask -> TaskRec]
  /\ Families(tk) /\ Edges(tk) /\ Cover(tk) /\ Chains(tk) /\ Marks(tk)

(* A task that may run, or does, has no unfinished earlier sibling with a  *)
(* conflicting clause.                                                     *)
LEMMA NoConflict ==
  ASSUME NEW tk, Graph(tk), NEW t \in Task, NEW u \in Task,
         tk[t].kind \in {"waiting", "running", "nested"}, AliveIn(tk, u), Conflicts(tk, t, u)
  PROVE  FALSE
<1>1. tk[t].kind # "nested"
  BY DEF Graph, Marks
<1>2. DeferredIn(tk, t)
  BY <1>1 DEF DeferredIn
<1>3. DeferredIn(tk, u)
  <2>1. tk[u].kind \in Kinds
    BY DEF Graph, TaskRec, AnyTask
  <2> SUFFICES ASSUME UndeferredIn(tk, u) PROVE FALSE
    BY <2>1 DEF AliveIn, DeferredIn, UndeferredIn, Kinds
  <2>2. t <= u /\ u < t
    BY DEF Graph, Families, AliveIn, Conflicts
  <2> QED
    BY <2>2, ConstantsOK
<1>4. \E w \in Task : t \in Range(tk[w].dependers)
  BY <1>2, <1>3 DEF Graph, Cover
<1>5. tk[t].kind = "depends"
  BY <1>4 DEF Graph, Edges
<1> QED
  BY <1>5

(* What the parts say only depends on some of the fields, and little on    *)
(* the difference between tasks that wait and tasks that run.              *)
Alike(tk, S) ==
  /\ S \in [AnyTask -> TaskRec]
  /\ \A u \in AnyTask :
       /\ S[u].parent = tk[u].parent /\ S[u].origin = tk[u].origin /\ S[u].depend = tk[u].depend
       /\ S[u].num_dependees = tk[u].num_dependees /\ S[u].dependers = tk[u].dependers
       /\ S[u].parent_depends_on = tk[u].parent_depends_on /\ S[u].depend_hash = tk[u].depend_hash
       /\ \/ S[u].kind = tk[u].kind
          \/ tk[u].kind = "waiting" /\ S[u].kind = "running"
          \/ tk[u].kind = "new" /\ S[u].kind = "nested"

(* The graph does not depend on what Alike leaves open.                    *)
LEMMA AlikeGraph ==
  ASSUME NEW tk, Graph(tk), NEW S, Alike(tk, S),
         \A t, u \in Task : tk[t].kind = "new" /\ S[t].kind = "nested" /\ AliveIn(tk, u)
           => ~Conflicts(tk, t, u)
  PROVE  Graph(S)
<1>1. \A u \in Task : u \in AnyTask
  BY DEF AnyTask
<1>2. \A u \in AnyTask : /\ AliveIn(S, u) <=> AliveIn(tk, u)
                         /\ DeferredIn(S, u) <=> DeferredIn(tk, u)
                         /\ UndeferredIn(S, u) <=> UndeferredIn(tk, u)
                         /\ S[u].kind = "none" <=> tk[u].kind = "none"
                         /\ S[u].kind = "done" <=> tk[u].kind = "done"
                         /\ S[u].kind = "depends" <=> tk[u].kind = "depends"
  BY DEF Alike, AliveIn, DeferredIn, UndeferredIn
<1>3. Families(S)
  <2>1. \A th \in Thread : /\ S[th].kind = "nested" /\ S[th].parent = Null
                           /\ S[th].origin = Null /\ ~S[th].parent_depends_on
    BY DEF Graph, Families, Alike, AnyTask
  <2>2. \A t \in Task : ~AliveIn(S, t) => Blank(S[t])
    BY <1>1, <1>2 DEF Graph, Families, Alike, Blank
  <2>3. \A t \in Task : AliveIn(S, t) =>
          /\ S[t].origin \in AnyTask /\ S[t].origin # t /\ S[S[t].origin].kind # "none"
          /\ S[t].parent \in {Null, S[t].origin}
          /\ S[t].parent = Null => S[S[t].origin].kind = "done"
    BY <1>1, <1>2 DEF Graph, Families, Alike
  <2>4. \A t \in Task : UndeferredIn(S, t) => S[t].parent = S[t].origin
    BY <1>1, <1>2 DEF Graph, Families, Alike
  <2>5. \A t \in Task : S[t].parent_depends_on => DeferredIn(S, t)
    BY <1>1, <1>2 DEF Graph, Families, Alike
  <2>6. \A t, u \in Task : S[t].kind = "none" /\ S[u].kind # "none" => u < t
    BY <1>1, <1>2 DEF Graph, Families
  <2>7. \A t, u \in Task : UndeferredIn(S, t) /\ AliveIn(S, u) /\ S[u].origin = S[t].origin => u <= t
    BY <1>1, <1>2 DEF Graph, Families, Alike
  <2> QED
    BY <2>1, <2>2, <2>3, <2>4, <2>5, <2>6, <2>7 DEF Families
<1>4. Edges(S)
  <2>1. \A th \in Thread : S[th].dependers = <<>>
    BY DEF Graph, Edges, Alike, AnyTask
  <2>2. \A t, u \in Task : t \in Range(S[u].dependers) =>
          S[t].kind = "depends" /\ DeferredIn(S, u) /\ u < t /\ S[u].origin = S[t].origin
    BY <1>1, <1>2 DEF Graph, Edges, Alike
  <2>3. \A t \in Task : Dependees(S, t) = Dependees(tk, t)
    BY <1>1 DEF Alike, Dependees
  <2>4. \A t \in Task : S[t].num_dependees = Cardinality(Dependees(S, t))
    BY <1>1, <2>3 DEF Graph, Edges, Alike
  <2>5. \A t \in Task : S[t].kind = "depends" => S[t].num_dependees > 0
    BY <1>1, <1>2 DEF Graph, Edges, Alike
  <2> QED
    BY <2>1, <2>2, <2>4, <2>5 DEF Edges
<1>5. \A t, u \in Task : Conflicts(S, t, u) <=> Conflicts(tk, t, u)
  BY <1>1 DEF Alike, Conflicts
<1>6. Cover(S)
  BY <1>1, <1>2, <1>5 DEF Graph, Cover, Alike
<1>7. Chains(S)
  <2> SUFFICES ASSUME NEW p \in AnyTask, NEW a \in Addr
               PROVE  /\ Shape(S[p].depend_hash[a]) /\ Content(S, p, a, S[p].depend_hash[a])
                      /\ AliveIn(S, p) => Complete(S, p, a, S[p].depend_hash[a])
    BY DEF Chains
  <2> DEFINE c == tk[p].depend_hash[a]
  <2>1. S[p].depend_hash[a] = c
    BY DEF Alike
  <2>2. Shape(c) /\ Content(tk, p, a, c) /\ (AliveIn(tk, p) => Complete(tk, p, a, c))
    BY DEF Graph, Chains
  <2>3. \A i \in DOMAIN c : c[i].task \in Task
    <3>1. c \in Seq(Entry)
      BY DEF Graph, TaskRec
    <3> HIDE DEF c
    <3>2. \A i \in DOMAIN c : c[i] \in Entry
      BY <3>1
    <3> QED
      BY <3>2 DEF Entry
  <2> HIDE DEF c
  <2>4. Content(S, p, a, c)
    BY <1>1, <1>2, <2>2, <2>3 DEF Content, Alike
  <2>5. AliveIn(S, p) => Complete(S, p, a, c)
    BY <1>1, <1>2, <2>2 DEF Complete, Alike
  <2> QED
    BY <2>1, <2>2, <2>4, <2>5
<1>8. Marks(S)
  <2> SUFFICES ASSUME NEW t \in Task, NEW u \in Task, AliveIn(S, u), Conflicts(S, t, u)
               PROVE  (S[t].kind = "new" => S[u].parent_depends_on) /\ S[t].kind # "nested"
    BY DEF Marks
  <2>1. AliveIn(tk, u) /\ Conflicts(tk, t, u)
    BY <1>1, <1>2, <1>5
  <2>2. (tk[t].kind = "new" => tk[u].parent_depends_on) /\ tk[t].kind # "nested"
    BY <2>1 DEF Graph, Marks
  <2> QED
    BY <1>1, <2>1, <2>2 DEF Alike
<1> QED
  BY <1>3, <1>4, <1>6, <1>7, <1>8 DEF Graph, Alike

(* Task p, which runs, creates t.                                          *)
Fresh(tk, p, t) ==
  /\ p \in AnyTask /\ tk[p].kind \in {"running", "nested"}
  /\ t \in Task /\ tk[t].kind = "none" /\ \A u \in Task : tk[u].kind = "none" => t <= u
  /\ \A u \in Task : UndeferredIn(tk, u) => tk[u].origin # p

(* What the creation of task t by p relies on: t is the youngest of all.   *)
LEMMA FreshIs ==
  ASSUME NEW tk, NEW p, NEW t, Graph(tk), Fresh(tk, p, t)
  PROVE  /\ p \in AnyTask /\ t \in AnyTask /\ t \in Task /\ p # t /\ p # Null /\ AliveIn(tk, p)
         /\ tk[p].kind # "done"
         /\ \A u \in Task : u \in AnyTask /\ u \in Nat
         /\ \A u \in Task : tk[u].kind # "none" => u < t /\ u # t
         /\ \A u \in Task : u # t /\ tk[u].kind = "none" => t < u
         /\ \A u \in Task : tk[u].parent # t /\ tk[u].origin # t /\ t \notin Range(tk[u].dependers)
         /\ \A u \in Task : AliveIn(tk, u) => (tk[u].parent = p <=> tk[u].origin = p)
         /\ \A u \in Task : tk[u].parent = p => AliveIn(tk, u)
         /\ \A u \in Task : AliveIn(tk, u) /\ tk[u].parent = p => DeferredIn(tk, u)
<1>1. /\ p \in AnyTask /\ t \in AnyTask /\ t \in Task /\ p # t /\ p # Null /\ AliveIn(tk, p)
      /\ tk[p].kind # "done"
  BY ConstantsOK DEF Fresh, AnyTask, AliveIn
<1>2. \A u \in Task : u \in AnyTask /\ u \in Nat
  BY ConstantsOK DEF AnyTask
<1>3. \A u \in Task : tk[u].kind # "none" => u < t /\ u # t
  BY DEF Fresh, Graph, Families
<1>4. \A u \in Task : u # t /\ tk[u].kind = "none" => t < u
  BY <1>1, <1>2 DEF Fresh
<1>5. ASSUME NEW u \in Task
      PROVE  tk[u].parent # t /\ tk[u].origin # t /\ t \notin Range(tk[u].dependers)
  <2>1. t # Null
    BY <1>1, ConstantsOK
  <2>2. t \notin Range(tk[u].dependers)
    BY <1>1 DEF Graph, Edges, Fresh
  <2>3. CASE AliveIn(tk, u)
    BY <2>1, <2>2, <2>3 DEF Graph, Families, Fresh
  <2>4. CASE ~AliveIn(tk, u)
    BY <2>1, <2>2, <2>4 DEF Graph, Families, Blank
  <2> QED
    BY <2>3, <2>4
<1>6. \A u \in Task : AliveIn(tk, u) => (tk[u].parent = p <=> tk[u].origin = p)
  BY <1>1 DEF Graph, Families
<1>7. \A u \in Task : tk[u].parent = p => AliveIn(tk, u)
  BY <1>1 DEF Graph, Families, Blank
<1>8. \A u \in Task : AliveIn(tk, u) /\ tk[u].parent = p => DeferredIn(tk, u)
  <2>1. \A u \in Task : tk[u].kind \in Kinds
    BY <1>2 DEF Graph, TaskRec
  <2> QED
    BY <1>6, <2>1 DEF Fresh, AliveIn, DeferredIn, UndeferredIn, Kinds
<1> QED
  BY <1>1, <1>2, <1>3, <1>4, <1>5, <1>6, <1>7, <1>8

(* A record with fields of these types is one of a task.                   *)
LEMMA TaskRecord ==
  ASSUME NEW kind \in Kinds, NEW p \in Family, NEW o \in Family, NEW type \in Types,
         NEW queues \in Types, NEW g \in Group \cup {Null}, NEW m \in Group \cup {Null},
         NEW clause \in Clauses \cup {<<>>}, NEW n \in Nat, NEW s \in Seq(Task),
         NEW on \in BOOLEAN, NEW h \in [Addr -> Seq(Entry)]
  PROVE  [kind |-> kind, parent |-> p, origin |-> o, type |-> type, queues |-> queues,
          taskgroup |-> g, member |-> m, depend |-> clause, num_dependees |-> n, dependers |-> s,
          parent_depends_on |-> on, depend_hash |-> h] \in TaskRec
BY DEF TaskRec

(* The record of a new task.                                               *)
NewRecord(kind, p, type, g, clause) ==
  [gomp_init_task(kind, p, type, g) EXCEPT !.depend = clause]

(* What is in it.                                                          *)
LEMMA InitTask ==
  ASSUME NEW kind \in Kinds, NEW p \in Family, NEW type \in Types, NEW g \in Group \cup {Null},
         NEW clause \in Clauses \cup {<<>>}, NEW R,
         R = NewRecord(kind, p, type, g, clause)
  PROVE  /\ R \in TaskRec /\ R.kind = kind /\ R.parent = p /\ R.origin = p /\ R.depend = clause
         /\ R.type = type /\ R.taskgroup = g /\ R.member = g
         /\ R.num_dependees = 0 /\ R.dependers = <<>> /\ ~R.parent_depends_on
         /\ \A a \in Addr : R.depend_hash[a] = <<>>
<1> DEFINE h == [a \in Addr |-> <<>>]
<1>1. R = [kind |-> kind, parent |-> p, origin |-> p, type |-> type, queues |-> type,
           taskgroup |-> g, member |-> g, depend |-> clause, num_dependees |-> 0, dependers |-> <<>>,
           parent_depends_on |-> FALSE, depend_hash |-> h]
  BY DEF gomp_init_task, NewRecord
<1>2. h \in [Addr -> Seq(Entry)] /\ \A a \in Addr : h[a] = <<>>
  OBVIOUS
<1> HIDE DEF h
<1>3. <<>> \in Seq(Task)
  OBVIOUS
<1>4. R \in TaskRec
  <2>1. [kind |-> kind, parent |-> p, origin |-> p, type |-> type, queues |-> type,
         taskgroup |-> g, member |-> g, depend |-> clause, num_dependees |-> 0, dependers |-> <<>>,
         parent_depends_on |-> FALSE, depend_hash |-> h] \in TaskRec
    BY <1>2, <1>3, TaskRecord
  <2> QED
    BY <1>1, <2>1
<1> QED
  BY <1>1, <1>2, <1>4

(* The entries of a chain are tasks.                                       *)
LEMMA ChainTasks ==
  ASSUME NEW tk \in [AnyTask -> TaskRec], NEW p \in AnyTask, NEW a \in Addr
  PROVE  /\ tk[p].depend_hash[a] \in Seq(Entry)
         /\ \A i \in DOMAIN tk[p].depend_hash[a] :
              /\ tk[p].depend_hash[a][i] \in Entry /\ tk[p].depend_hash[a][i].task \in Task
              /\ tk[p].depend_hash[a][i].in \in BOOLEAN
<1> DEFINE c == tk[p].depend_hash[a]
<1>1. c \in Seq(Entry)
  BY DEF TaskRec
<1> HIDE DEF c
<1>2. \A i \in DOMAIN c : c[i] \in Entry
  BY <1>1
<1>3. \A i \in DOMAIN c : c[i].task \in Task /\ c[i].in \in BOOLEAN
  BY <1>2 DEF Entry
<1> QED
  BY <1>1, <1>2, <1>3 DEF c

(* The tasks B with the record of t, before its clause is handled.         *)
Started(tk, B, p, t, kind) ==
  /\ B \in [AnyTask -> TaskRec]
  /\ \A u \in AnyTask \ {t} : B[u] = tk[u]
  /\ B[t].kind = kind /\ B[t].parent = p /\ B[t].origin = p
  /\ B[t].num_dependees = 0 /\ B[t].dependers = <<>> /\ ~B[t].parent_depends_on
  /\ \A a \in Addr : B[t].depend_hash[a] = <<>>

(* The graph allows the clause of a task that has just been created to be  *)
(* handled.                                                                *)
LEMMA StartedBase ==
  ASSUME NEW tk, NEW B, NEW p, NEW t, Graph(tk), Fresh(tk, p, t), Started(tk, B, p, t, "waiting")
  PROVE  Base(B, p, t)
<1>1. /\ p \in AnyTask /\ t \in AnyTask /\ t \in Task /\ p # t /\ p # Null /\ AliveIn(tk, p)
      /\ \A u \in Task : u \in AnyTask /\ u \in Nat
      /\ \A u \in Task : tk[u].kind # "none" => u < t /\ u # t
      /\ \A u \in Task : tk[u].parent # t /\ tk[u].origin # t /\ t \notin Range(tk[u].dependers)
  BY FreshIs
<1>2. tk \in [AnyTask -> TaskRec] /\ B \in [AnyTask -> TaskRec]
  BY DEF Graph, Started
<1>3. B[t].parent = p /\ B[t].num_dependees = 0 /\ DeferredIn(B, t)
  BY DEF Started, DeferredIn
<1>4. \A u \in Task : t \notin Range(B[u].dependers)
  <2>1. Range(<<>>) = {}
    BY DEF Range
  <2> QED
    BY <1>1, <2>1 DEF Started
<1>5. ASSUME NEW a \in Addr
      PROVE  LET c == B[p].depend_hash[a]
             IN  /\ Shape(c) /\ Content(B, p, a, c)
                 /\ \A i \in DOMAIN c : c[i].task < t
                 /\ \A u \in Task \ {t} :
                      DeferredIn(B, u) /\ B[u].parent = p /\ Names(B[u].depend, a)
                        => \E i \in DOMAIN c : c[i].task = u
  <2> DEFINE c == tk[p].depend_hash[a]
  <2>1. B[p].depend_hash[a] = c
    BY <1>1 DEF Started
  <2>2. Shape(c) /\ Content(tk, p, a, c) /\ Complete(tk, p, a, c)
    BY <1>1 DEF Graph, Chains
  <2>3. \A i \in DOMAIN c : c[i].task \in Task
    BY <1>1, <1>2, ChainTasks
  <2> HIDE DEF c
  <2>4. \A i \in DOMAIN c : tk[c[i].task].kind # "none"
    BY <2>2 DEF Content, DeferredIn
  <2>5. \A i \in DOMAIN c : c[i].task < t /\ B[c[i].task] = tk[c[i].task]
    BY <1>1, <2>3, <2>4 DEF Started
  <2>6. Content(B, p, a, c)
    BY <2>2, <2>5 DEF Content, DeferredIn
  <2>7. \A u \in Task \ {t} : DeferredIn(B, u) /\ B[u].parent = p /\ Names(B[u].depend, a)
          => \E i \in DOMAIN c : c[i].task = u
    BY <1>1, <2>2 DEF Complete, Started, DeferredIn
  <2> QED
    BY <2>1, <2>2, <2>5, <2>6, <2>7
<1> QED
  BY <1>1, <1>2, <1>3, <1>4, <1>5 DEF Base

(* What a new deferred task t of p leaves alone.                           *)
Created(tk, F, t) ==
  /\ F[t].kind \in {"depends", "waiting"} /\ ~F[t].parent_depends_on
  /\ \A u \in AnyTask \ {t} :
       /\ F[u].kind = tk[u].kind /\ F[u].parent = tk[u].parent /\ F[u].origin = tk[u].origin
       /\ F[u].taskgroup = tk[u].taskgroup /\ F[u].parent_depends_on = tk[u].parent_depends_on

(* The tasks once t, whose clause has been handled, is ready or held.      *)
Placed(S, F, t) ==
  /\ F \in [AnyTask -> TaskRec]
  /\ \A u \in AnyTask :
       /\ F[u].parent = S[u].parent /\ F[u].origin = S[u].origin /\ F[u].depend = S[u].depend
       /\ F[u].num_dependees = S[u].num_dependees /\ F[u].dependers = S[u].dependers
       /\ F[u].parent_depends_on = S[u].parent_depends_on /\ F[u].depend_hash = S[u].depend_hash
       /\ F[u].taskgroup = S[u].taskgroup
       /\ u # t => F[u].kind = S[u].kind
  /\ F[t].kind = IF S[t].num_dependees > 0 THEN "depends" ELSE "waiting"

(* The creation of a deferred task keeps the graph sound.                  *)
LEMMA CreateDeferred ==
  ASSUME NEW tk, NEW B, NEW S, NEW F, NEW p, NEW t, Graph(tk), Fresh(tk, p, t),
         Started(tk, B, p, t, "waiting"), Building(B, S, p, t, Len(B[t].depend)), Placed(S, F, t)
  PROVE  Graph(F) /\ Created(tk, F, t)
<1> DEFINE cl == B[t].depend
<1>1. /\ p \in AnyTask /\ t \in AnyTask /\ t \in Task /\ p # t /\ p # Null /\ AliveIn(tk, p)
      /\ tk[p].kind # "done"
      /\ \A u \in Task : u \in AnyTask /\ u \in Nat
      /\ \A u \in Task : tk[u].kind # "none" => u < t /\ u # t
      /\ \A u \in Task : u # t /\ tk[u].kind = "none" => t < u
      /\ \A u \in Task : tk[u].parent # t /\ tk[u].origin # t /\ t \notin Range(tk[u].dependers)
      /\ \A u \in Task : AliveIn(tk, u) => (tk[u].parent = p <=> tk[u].origin = p)
      /\ \A u \in Task : tk[u].parent = p => AliveIn(tk, u)
      /\ \A u \in Task : AliveIn(tk, u) /\ tk[u].parent = p => DeferredIn(tk, u)
  BY FreshIs
<1>2. /\ tk \in [AnyTask -> TaskRec] /\ B \in [AnyTask -> TaskRec]
      /\ S \in [AnyTask -> TaskRec] /\ F \in [AnyTask -> TaskRec]
  BY DEF Graph, Started, Building, Placed
<1>3. \A u \in AnyTask \ {t} :
        /\ F[u].kind = tk[u].kind /\ F[u].parent = tk[u].parent /\ F[u].origin = tk[u].origin
        /\ F[u].depend = tk[u].depend /\ F[u].parent_depends_on = tk[u].parent_depends_on
        /\ F[u].taskgroup = tk[u].taskgroup /\ F[u].num_dependees = tk[u].num_dependees
        /\ u # p => F[u].depend_hash = tk[u].depend_hash
  BY DEF Started, Building, Placed, SameElse
<1>4. /\ F[t].kind = IF F[t].num_dependees > 0 THEN "depends" ELSE "waiting"
      /\ F[t].parent = p /\ F[t].origin = p /\ F[t].depend = cl /\ ~F[t].parent_depends_on
      /\ F[t].num_dependees = Cardinality(Dependees(F, t))
      /\ \A a \in Addr : F[t].depend_hash[a] = <<>>
  <2>1. Dependees(F, t) = Dependees(S, t)
    BY <1>1 DEF Placed, Dependees
  <2> QED
    BY <1>1, <2>1 DEF Started, Building, Placed, SameElse
<1>5. \A u \in AnyTask :
        \/ u # t /\ F[u].dependers = tk[u].dependers
        \/ u = t /\ F[u].dependers = <<>>
        \/ /\ F[u].dependers = Append(tk[u].dependers, t) /\ u # t
           /\ u \in Task /\ DeferredIn(tk, u) /\ tk[u].parent = p /\ u < t
  <2> SUFFICES ASSUME NEW u \in AnyTask
               PROVE  \/ u # t /\ F[u].dependers = tk[u].dependers
                      \/ u = t /\ F[u].dependers = <<>>
                      \/ /\ F[u].dependers = Append(tk[u].dependers, t) /\ u # t
                         /\ u \in Task /\ DeferredIn(tk, u) /\ tk[u].parent = p /\ u < t
    OBVIOUS
  <2>1. F[u].dependers = S[u].dependers
    BY DEF Placed
  <2>2. \/ S[u].dependers = B[u].dependers
        \/ /\ S[u].dependers = Append(B[u].dependers, t)
           /\ u \in Task /\ DeferredIn(B, u) /\ B[u].parent = p /\ u < t
    BY DEF Building
  <2>3. u # t => B[u] = tk[u]
    BY DEF Started
  <2>4. u = t => B[u].dependers = <<>> /\ ~(u < t)
    BY <1>1 DEF Started
  <2> QED
    BY <2>1, <2>2, <2>3, <2>4 DEF DeferredIn
<1>6. ASSUME NEW u \in Task
      PROVE  /\ Range(F[u].dependers) \subseteq Range(tk[u].dependers) \cup {t}
             /\ u # t => Range(tk[u].dependers) \subseteq Range(F[u].dependers)
             /\ t \in Range(F[u].dependers) =>
                  u # t /\ DeferredIn(tk, u) /\ tk[u].parent = p /\ u < t
             /\ u = t => Range(F[u].dependers) = {}
  <2> DEFINE s == tk[u].dependers
  <2>1. s \in Seq(Task)
    BY <1>1, <1>2 DEF TaskRec
  <2>2. t \notin Range(s)
    BY <1>1
  <2>3. Range(<<>>) = {}
    BY DEF Range
  <2> HIDE DEF s
  <2>4. Range(Append(s, t)) = Range(s) \cup {t}
    BY <1>1, <2>1, RangeAppend
  <2> QED
    BY <1>1, <1>5, <2>2, <2>3, <2>4 DEF s
<1>7. F[t].kind \in {"waiting", "depends"} /\ AliveIn(F, t) /\ DeferredIn(F, t) /\ ~UndeferredIn(F, t)
  BY <1>4 DEF AliveIn, DeferredIn, UndeferredIn
<1>8. \A u \in AnyTask \ {t} : /\ AliveIn(F, u) <=> AliveIn(tk, u)
                               /\ DeferredIn(F, u) <=> DeferredIn(tk, u)
                               /\ UndeferredIn(F, u) <=> UndeferredIn(tk, u)
  BY <1>3 DEF AliveIn, DeferredIn, UndeferredIn
<1>9. ~AliveIn(tk, t) /\ tk[t].kind = "none"
  BY DEF Fresh, AliveIn
<1>10. Families(F)
  <2>1. \A th \in Thread : /\ F[th].kind = "nested" /\ F[th].parent = Null
                           /\ F[th].origin = Null /\ ~F[th].parent_depends_on
    <3>1. \A th \in Thread : th \in AnyTask \ {t}
      BY <1>1, ConstantsOK DEF AnyTask
    <3> QED
      BY <1>3, <3>1 DEF Graph, Families
  <2>2. ASSUME NEW u \in Task, ~AliveIn(F, u)
        PROVE  Blank(F[u])
    <3>1. u # t /\ u \in AnyTask /\ ~AliveIn(tk, u)
      BY <1>1, <1>7, <1>8, <2>2
    <3>2. Blank(tk[u])
      BY <3>1 DEF Graph, Families
    <3>3. u # p
      BY <1>1, <3>1
    <3>4. F[u].dependers = tk[u].dependers
      BY <1>5, <3>1 DEF AliveIn, DeferredIn
    <3> QED
      BY <1>3, <3>1, <3>2, <3>3, <3>4 DEF Blank
  <2>3. ASSUME NEW u \in Task, AliveIn(F, u)
        PROVE  /\ F[u].origin \in AnyTask /\ F[u].origin # u /\ F[F[u].origin].kind # "none"
               /\ F[u].parent \in {Null, F[u].origin}
               /\ F[u].parent = Null => F[F[u].origin].kind = "done"
    <3>1. CASE u = t
      BY <1>1, <1>3, <1>4, <3>1 DEF AliveIn
    <3>2. CASE u # t
      <4>1. AliveIn(tk, u) /\ u \in AnyTask
        BY <1>1, <1>8, <2>3, <3>2
      <4>2. /\ tk[u].origin \in AnyTask /\ tk[u].origin # u /\ tk[tk[u].origin].kind # "none"
            /\ tk[u].parent \in {Null, tk[u].origin}
            /\ tk[u].parent = Null => tk[tk[u].origin].kind = "done"
        BY <4>1 DEF Graph, Families
      <4>3. tk[u].origin # t
        BY <1>1
      <4> QED
        BY <1>3, <3>2, <4>1, <4>2, <4>3
    <3> QED
      BY <3>1, <3>2
  <2>4. \A u \in Task : UndeferredIn(F, u) => F[u].parent = F[u].origin
    BY <1>1, <1>3, <1>7, <1>8 DEF Graph, Families
  <2>5. \A u \in Task : F[u].parent_depends_on => DeferredIn(F, u)
    BY <1>1, <1>3, <1>7, <1>8 DEF Graph, Families
  <2>6. \A u, v \in Task : F[u].kind = "none" /\ F[v].kind # "none" => v < u
    <3> SUFFICES ASSUME NEW u \in Task, NEW v \in Task, F[u].kind = "none", F[v].kind # "none"
                 PROVE  v < u
      OBVIOUS
    <3>1. u # t /\ tk[u].kind = "none"
      BY <1>1, <1>3, <1>7
    <3>2. CASE v = t
      BY <1>1, <3>1, <3>2
    <3>3. CASE v # t
      BY <1>1, <1>3, <3>1, <3>3 DEF Graph, Families
    <3> QED
      BY <3>2, <3>3
  <2>7. \A u, v \in Task : UndeferredIn(F, u) /\ AliveIn(F, v) /\ F[v].origin = F[u].origin => v <= u
    <3> SUFFICES ASSUME NEW u \in Task, NEW v \in Task, UndeferredIn(F, u), AliveIn(F, v),
                        F[v].origin = F[u].origin
                 PROVE  v <= u
      OBVIOUS
    <3>1. u # t /\ UndeferredIn(tk, u) /\ F[u].origin = tk[u].origin
      BY <1>1, <1>3, <1>7, <1>8
    <3>2. tk[u].origin # p
      BY <3>1 DEF Fresh
    <3>3. v # t
      BY <1>4, <3>1, <3>2
    <3> QED
      BY <1>1, <1>3, <1>8, <3>1, <3>3 DEF Graph, Families
  <2> QED
    BY <2>1, <2>2, <2>3, <2>4, <2>5, <2>6, <2>7 DEF Families
<1>11. Edges(F)
  <2>1. \A th \in Thread : F[th].dependers = <<>>
    <3>1. \A th \in Thread : th \in AnyTask /\ th \notin Task /\ th # t
      BY <1>1, ConstantsOK DEF AnyTask
    <3> QED
      BY <1>5, <3>1 DEF Graph, Edges
  <2>2. ASSUME NEW u \in Task, NEW v \in Task, v \in Range(F[u].dependers)
        PROVE  F[v].kind = "depends" /\ DeferredIn(F, u) /\ u < v /\ F[u].origin = F[v].origin
    <3>1. CASE v = t
      <4>1. u # t /\ DeferredIn(tk, u) /\ tk[u].parent = p /\ u < t
        BY <1>6, <2>2, <3>1
      <4>2. F[u].origin = p /\ DeferredIn(F, u)
        BY <1>1, <1>3, <1>8, <4>1
      <4>3. F[t].num_dependees > 0
        <5>1. u \in Dependees(F, t)
          BY <2>2, <3>1 DEF Dependees
        <5>2. IsFiniteSet(Dependees(F, t))
          <6>1. Dependees(F, t) \subseteq Task
            BY DEF Dependees
          <6> QED
            BY <6>1, ConstantsOK, FS_Subset
        <5>3. Cardinality(Dependees(F, t)) # 0 /\ Cardinality(Dependees(F, t)) \in Nat
          BY <5>1, <5>2, FS_EmptySet, FS_CardinalityType
        <5> QED
          BY <1>4, <5>3
      <4> QED
        BY <1>4, <3>1, <4>1, <4>2, <4>3
    <3>2. CASE v # t
      <4>1. v \in Range(tk[u].dependers) /\ u # t
        BY <1>6, <2>2, <3>2
      <4>2. tk[v].kind = "depends" /\ DeferredIn(tk, u) /\ u < v /\ tk[u].origin = tk[v].origin
        BY <4>1 DEF Graph, Edges
      <4> QED
        BY <1>1, <1>3, <1>8, <3>2, <4>1, <4>2
    <3> QED
      BY <3>1, <3>2
  <2>3. ASSUME NEW v \in Task
        PROVE  F[v].num_dependees = Cardinality(Dependees(F, v))
    <3>1. CASE v = t
      BY <1>4, <3>1
    <3>2. CASE v # t
      <4>1. Dependees(F, v) = Dependees(tk, v)
        <5>1. \A u \in Task : v \in Range(F[u].dependers) => v \in Range(tk[u].dependers)
          BY <1>6, <3>2
        <5>2. \A u \in Task : v \in Range(tk[u].dependers) => u # t
          BY <1>9 DEF Graph, Edges, DeferredIn
        <5>3. \A u \in Task : v \in Range(tk[u].dependers) => v \in Range(F[u].dependers)
          BY <1>6, <5>2
        <5> QED
          BY <5>1, <5>3 DEF Dependees
      <4> QED
        BY <1>1, <1>3, <3>2, <4>1 DEF Graph, Edges
    <3> QED
      BY <3>1, <3>2
  <2>4. ASSUME NEW v \in Task, F[v].kind = "depends"
        PROVE  F[v].num_dependees > 0
    <3>1. CASE v = t
      BY <1>4, <2>4, <3>1
    <3>2. CASE v # t
      BY <1>1, <1>3, <2>4, <3>2 DEF Graph, Edges
    <3> QED
      BY <3>1, <3>2
  <2> QED
    BY <2>1, <2>2, <2>3, <2>4 DEF Edges
<1>12. \A u, v \in Task : u # t /\ v # t => (Conflicts(F, u, v) <=> Conflicts(tk, u, v))
  BY <1>1, <1>3 DEF Conflicts
<1>13. ASSUME NEW a \in Addr
       PROVE  /\ Names(cl, a) => Handled(B, S, p, t, a)
              /\ ~Names(cl, a) => S[p].depend_hash[a] = B[p].depend_hash[a]
  <2>1. DOMAIN cl = 1..Len(cl)
    <3>1. cl \in Clauses \cup {<<>>}
      BY <1>1, <1>2 DEF TaskRec
    <3> DEFINE E == [addr : Addr, in : BOOLEAN]
    <3>2. Clauses \subseteq Seq(E)
      BY ConstantsOK
    <3> HIDE DEF cl, E
    <3> QED
      BY <3>1, <3>2
  <2>2. /\ (\A j \in 1..Len(cl) : cl[j].addr # a) => S[p].depend_hash[a] = B[p].depend_hash[a]
        /\ (\E j \in 1..Len(cl) : cl[j].addr = a) => Handled(B, S, p, t, a)
    BY DEF Building
  <2> HIDE DEF cl
  <2> QED
    BY <2>1, <2>2 DEF Names
<1>14. \A u \in Task \ {t} : B[u] = tk[u]
  BY <1>1 DEF Started
<1>15. \A u \in Task : /\ Range(F[u].dependers) = Range(S[u].dependers)
                       /\ F[u].depend = B[u].depend /\ F[u].parent = B[u].parent
                       /\ DeferredIn(F, u) <=> DeferredIn(B, u)
  <2>1. DeferredIn(B, t)
    BY DEF Started, DeferredIn
  <2>2. \A u \in Task \ {t} : F[u].kind = B[u].kind
    BY <1>1, <1>3, <1>14
  <2>3. \A u \in Task : F[u].depend = B[u].depend /\ F[u].parent = B[u].parent
    BY <1>1 DEF Placed, Building, SameElse
  <2>4. \A u \in Task : F[u].dependers = S[u].dependers
    BY <1>1 DEF Placed
  <2> QED
    BY <1>7, <2>1, <2>2, <2>3, <2>4 DEF DeferredIn
<1>16. Cover(F)
  <2> SUFFICES ASSUME NEW v \in Task, NEW u \in Task, DeferredIn(F, v), DeferredIn(F, u), Conflicts(F, v, u)
               PROVE  \/ v \in Range(F[u].dependers)
                      \/ \E w \in Task : v \in Range(F[w].dependers) /\ Conflicts(F, w, u)
    BY DEF Cover
  <2>1. u < v /\ F[u].origin = F[v].origin /\ Conflict(F[v].depend, F[u].depend)
    BY DEF Conflicts
  <2>2. CASE v = t
    <3>1. u # t /\ DeferredIn(tk, u) /\ tk[u].parent = p
      <4>1. u # t
        BY <1>1, <2>1, <2>2
      <4>2. DeferredIn(tk, u) /\ tk[u].origin = p
        BY <1>1, <1>3, <1>4, <1>8, <2>1, <2>2, <4>1
      <4>3. AliveIn(tk, u)
        BY <4>2 DEF AliveIn, DeferredIn
      <4> QED
        BY <1>1, <4>1, <4>2, <4>3
    <3>2. PICK i \in DOMAIN cl, j \in DOMAIN F[u].depend :
            cl[i].addr = F[u].depend[j].addr /\ ~(cl[i].in /\ F[u].depend[j].in)
      BY <1>4, <2>1, <2>2 DEF Conflict
    <3> DEFINE a == cl[i].addr
    <3>3. a \in Addr
      <4> DEFINE E == [addr : Addr, in : BOOLEAN]
      <4>1. cl \in Clauses \cup {<<>>}
        BY <1>1, <1>2 DEF TaskRec
      <4>2. Clauses \subseteq Seq(E)
        BY ConstantsOK
      <4> HIDE DEF cl, E
      <4>3. cl \in Seq(E)
        BY <4>1, <4>2
      <4>4. cl[i] \in E
        BY <4>3
      <4> QED
        BY <4>4 DEF E
    <3>4. /\ Names(cl, a) /\ Names(F[u].depend, a)
          /\ NamesOut(F[u].depend, a) \/ NamesOut(cl, a)
      BY <3>2 DEF Names, NamesOut
    <3>5. Handled(B, S, p, t, a)
      BY <1>13, <3>3, <3>4
    <3>6. B[u] = tk[u] /\ F[u].depend = B[u].depend
      BY <1>14, <1>15, <3>1
    <3> HIDE DEF a, cl
    <3>7. DeferredIn(B, u) /\ B[u].parent = p /\ Names(B[u].depend, a)
      BY <3>1, <3>4, <3>6 DEF DeferredIn
    <3>8. \/ t \in Range(S[u].dependers)
          \/ \E w \in Task : /\ u < w /\ t \in Range(S[w].dependers)
                             /\ NamesOut(B[w].depend, a) /\ NamesOut(B[u].depend, a)
      BY <3>1, <3>4, <3>5, <3>6, <3>7 DEF Handled, cl
    <3>9. CASE t \in Range(S[u].dependers)
      BY <1>15, <2>2, <3>9
    <3>10. ASSUME NEW w \in Task, u < w, t \in Range(S[w].dependers),
                  NamesOut(B[w].depend, a), NamesOut(B[u].depend, a)
           PROVE  t \in Range(F[w].dependers) /\ Conflicts(F, w, u)
      <4>1. t \in Range(F[w].dependers)
        BY <1>15, <3>10
      <4>2. F[w].origin = F[t].origin
        BY <1>1, <1>11, <4>1 DEF Edges
      <4>3. Conflict(F[w].depend, F[u].depend)
        BY <1>15, <3>10 DEF NamesOut, Conflict
      <4> QED
        BY <2>1, <2>2, <3>10, <4>1, <4>2, <4>3 DEF Conflicts
    <3> QED
      BY <2>2, <3>8, <3>9, <3>10
  <2>3. CASE v # t
    <3>1. DeferredIn(tk, v) /\ v < t
      BY <1>1, <1>8, <2>3 DEF DeferredIn
    <3>2. u # t
      BY <1>1, <2>1, <3>1
    <3>3. DeferredIn(tk, u) /\ Conflicts(tk, v, u)
      BY <1>1, <1>8, <1>12, <2>3, <3>2
    <3>4. \/ v \in Range(tk[u].dependers)
          \/ \E w \in Task : v \in Range(tk[w].dependers) /\ Conflicts(tk, w, u)
      BY <3>1, <3>3 DEF Graph, Cover
    <3>5. \A w \in Task : v \in Range(tk[w].dependers) => w # t /\ v \in Range(F[w].dependers)
      BY <1>6, <1>9 DEF Graph, Edges, DeferredIn
    <3> QED
      BY <1>12, <3>2, <3>4, <3>5
  <2> QED
    BY <2>2, <2>3
<1>17. Chains(F)
  <2> SUFFICES ASSUME NEW q \in AnyTask, NEW a \in Addr
               PROVE  /\ Shape(F[q].depend_hash[a]) /\ Content(F, q, a, F[q].depend_hash[a])
                      /\ AliveIn(F, q) => Complete(F, q, a, F[q].depend_hash[a])
    BY DEF Chains
  <2>1. CASE q = t
    <3>1. F[q].depend_hash[a] = <<>>
      BY <1>4, <2>1
    <3>2. Shape(<<>>) /\ Content(F, q, a, <<>>)
      BY DEF Shape, Content
    <3>3. \A u \in Task : F[u].parent # t
      BY <1>1, <1>3, <1>4
    <3>4. Complete(F, q, a, <<>>)
      BY <2>1, <3>3 DEF Complete
    <3> QED
      BY <3>1, <3>2, <3>4
  <2>2. CASE q = p /\ Names(cl, a)
    <3> DEFINE c == S[p].depend_hash[a]
    <3>1. F[q].depend_hash[a] = c
      BY <2>2 DEF Placed
    <3>2. Shape(c) /\ Content(B, p, a, c) /\ Complete(B, p, a, c)
      BY <1>13, <2>2 DEF Handled
    <3>3. \A i \in DOMAIN c : c[i].task \in Task
      BY <1>1, <1>2, ChainTasks
    <3> HIDE DEF c
    <3>4. Content(F, p, a, c)
      BY <1>15, <3>2, <3>3 DEF Content
    <3>5. Complete(F, p, a, c)
      BY <1>15, <3>2 DEF Complete
    <3> QED
      BY <2>2, <3>1, <3>2, <3>4, <3>5
  <2>3. CASE q # t /\ ~(q = p /\ Names(cl, a))
    <3> DEFINE c == tk[q].depend_hash[a]
    <3>1. F[q].depend_hash[a] = c
      <4>1. CASE q # p
        BY <1>3, <2>3, <4>1
      <4>2. CASE q = p
        BY <1>13, <2>3, <4>2 DEF Placed, Started
      <4> QED
        BY <4>1, <4>2
    <3>2. Shape(c) /\ Content(tk, q, a, c) /\ (AliveIn(tk, q) => Complete(tk, q, a, c))
      BY DEF Graph, Chains
    <3>3. \A i \in DOMAIN c : c[i].task \in Task
      BY <1>2, ChainTasks
    <3> HIDE DEF c
    <3>4. \A i \in DOMAIN c : c[i].task # t
      BY <1>9, <3>2 DEF Content, DeferredIn
    <3>5. Content(F, q, a, c)
      BY <1>1, <1>3, <1>8, <3>2, <3>3, <3>4 DEF Content
    <3>6. ASSUME AliveIn(F, q)
          PROVE  Complete(F, q, a, c)
      <4>1. Complete(tk, q, a, c)
        BY <1>8, <2>3, <3>2, <3>6
      <4>2. ~(F[t].parent = q /\ Names(F[t].depend, a))
        BY <1>4, <2>3
      <4> QED
        BY <1>1, <1>3, <1>8, <4>1, <4>2 DEF Complete
    <3> QED
      BY <3>1, <3>2, <3>5, <3>6
  <2> QED
    BY <1>1, <2>1, <2>2, <2>3
<1>18. Marks(F)
  <2> SUFFICES ASSUME NEW v \in Task, NEW u \in Task, AliveIn(F, u), Conflicts(F, v, u),
                      F[v].kind \in {"new", "nested"}
               PROVE  (F[v].kind = "new" => F[u].parent_depends_on) /\ F[v].kind # "nested"
    BY DEF Marks
  <2>1. v # t /\ tk[v].kind = F[v].kind /\ v < t
    BY <1>1, <1>3, <1>7
  <2>2. u # t
    BY <1>1, <2>1 DEF Conflicts
  <2>3. AliveIn(tk, u) /\ Conflicts(tk, v, u)
    BY <1>1, <1>8, <1>12, <2>1, <2>2
  <2> QED
    BY <1>1, <1>3, <2>1, <2>2, <2>3 DEF Graph, Marks
<1>19. Created(tk, F, t)
  BY <1>3, <1>4 DEF Created
<1> QED
  BY <1>2, <1>10, <1>11, <1>16, <1>17, <1>18, <1>19 DEF Graph

(* An undeferred task waits for the siblings in conflict with it, which    *)
(* all have an entry in the chain of the address.                          *)
LEMMA AwaitedIs ==
  ASSUME Graph(task), NEW p, NEW t, Fresh(task, p, t), NEW clause \in Clauses
  PROVE  /\ \A u \in Awaited(p, clause) : /\ u \in Task /\ DeferredIn(task, u)
                                          /\ task[u].parent = p /\ ~task[u].parent_depends_on
         /\ \A u \in Task : AliveIn(task, u) /\ task[u].parent = p /\ Conflict(clause, task[u].depend)
              => u \in Awaited(p, clause) \/ task[u].parent_depends_on
<1>1. /\ p \in AnyTask /\ AliveIn(task, p) /\ \A u \in Task : u \in AnyTask
      /\ \A u \in Task : AliveIn(task, u) /\ task[u].parent = p => DeferredIn(task, u)
  BY FreshIs
<1>2. task \in [AnyTask -> TaskRec]
  BY DEF Graph
<1>3. \A i \in DOMAIN clause : clause[i].addr \in Addr
  <2> DEFINE E == [addr : Addr, in : BOOLEAN]
  <2>1. clause \in Seq(E)
    BY ConstantsOK
  <2> HIDE DEF E
  <2>2. \A i \in DOMAIN clause : clause[i] \in E
    BY <2>1
  <2> QED
    BY <2>2 DEF E
<1>4. ASSUME NEW a \in Addr
      PROVE  LET c == task[p].depend_hash[a]
             IN  /\ Content(task, p, a, c) /\ Complete(task, p, a, c)
                 /\ Range(c) = {c[i] : i \in DOMAIN c} /\ \A i \in DOMAIN c : c[i].in \in BOOLEAN
  BY <1>1, <1>2, ChainTasks DEF Graph, Chains, Range
<1>5. ASSUME NEW u \in Awaited(p, clause)
      PROVE  u \in Task /\ DeferredIn(task, u) /\ task[u].parent = p /\ ~task[u].parent_depends_on
  <2>1. u \in Task /\ ~task[u].parent_depends_on
    BY DEF Awaited
  <2>2. PICK i \in DOMAIN clause : \E x \in Range(task[p].depend_hash[clause[i].addr]) : x.task = u
    BY DEF Awaited
  <2> DEFINE c == task[p].depend_hash[clause[i].addr]
  <2>3. \E k \in DOMAIN c : c[k].task = u
    <3>1. PICK x \in Range(c) : x.task = u
      BY <2>2
    <3> QED
      BY <3>1 DEF Range
  <2>4. Content(task, p, clause[i].addr, c)
    BY <1>3, <1>4
  <2> HIDE DEF c
  <2> QED
    BY <2>1, <2>3, <2>4 DEF Content
<1>6. ASSUME NEW u \in Task, AliveIn(task, u), task[u].parent = p, Conflict(clause, task[u].depend),
             ~task[u].parent_depends_on
      PROVE  u \in Awaited(p, clause)
  <2>1. PICK i \in DOMAIN clause, j \in DOMAIN task[u].depend :
          clause[i].addr = task[u].depend[j].addr /\ ~(clause[i].in /\ task[u].depend[j].in)
    BY <1>6 DEF Conflict
  <2> DEFINE a == clause[i].addr
             c == task[p].depend_hash[a]
  <2>2. DeferredIn(task, u) /\ Names(task[u].depend, a)
    BY <1>1, <1>6, <2>1 DEF Names
  <2>3. PICK k \in DOMAIN c : c[k].task = u
    BY <1>3, <1>4, <1>6, <2>2 DEF Complete
  <2>4. c[k].in = ~NamesOut(task[u].depend, a)
    BY <1>3, <1>4, <2>3 DEF Content
  <2>5. ~(clause[i].in /\ c[k].in)
    BY <2>1, <2>4 DEF NamesOut
  <2>6. c[k] \in Range(c)
    BY DEF Range
  <2> HIDE DEF c
  <2>7. \E x \in Range(c) : x.task = u /\ ~(clause[i].in /\ x.in) /\ ~task[u].parent_depends_on
    BY <1>6, <2>3, <2>5, <2>6
  <2> QED
    BY <2>7 DEF Awaited, c
<1> QED
  BY <1>5, <1>6

(* Task t is new and undeferred; p marks the tasks us it waits for.        *)
Awaiting(tk, F, p, t, us) ==
  /\ F \in [AnyTask -> TaskRec]
  /\ F[t].kind = "new" /\ F[t].parent = p /\ F[t].origin = p
  /\ F[t].num_dependees = 0 /\ F[t].dependers = <<>> /\ ~F[t].parent_depends_on
  /\ \A a \in Addr : F[t].depend_hash[a] = <<>>
  /\ \A u \in AnyTask \ {t} :
       /\ F[u].kind = tk[u].kind /\ F[u].parent = tk[u].parent /\ F[u].origin = tk[u].origin
       /\ F[u].depend = tk[u].depend /\ F[u].num_dependees = tk[u].num_dependees
       /\ F[u].dependers = tk[u].dependers /\ F[u].depend_hash = tk[u].depend_hash
       /\ F[u].taskgroup = tk[u].taskgroup
       /\ F[u].parent_depends_on <=> tk[u].parent_depends_on \/ u \in us
  /\ \A u \in us : /\ u \in Task /\ DeferredIn(tk, u)
                   /\ tk[u].parent = p /\ ~tk[u].parent_depends_on
  /\ \A u \in Task : AliveIn(tk, u) /\ tk[u].parent = p /\ Conflict(F[t].depend, tk[u].depend)
       => u \in us \/ tk[u].parent_depends_on

(* The creation of an undeferred task keeps the graph sound: the children  *)
(* that it has to wait for are marked, so it conflicts with no other.      *)
LEMMA CreateUndeferred ==
  ASSUME NEW tk, NEW F, NEW p, NEW t, NEW us, Graph(tk), Fresh(tk, p, t), Awaiting(tk, F, p, t, us)
  PROVE  Graph(F)
<1>1. /\ p \in AnyTask /\ t \in AnyTask /\ t \in Task /\ p # t /\ p # Null /\ AliveIn(tk, p)
      /\ tk[p].kind # "done"
      /\ \A u \in Task : u \in AnyTask /\ u \in Nat
      /\ \A u \in Task : tk[u].kind # "none" => u < t /\ u # t
      /\ \A u \in Task : u # t /\ tk[u].kind = "none" => t < u
      /\ \A u \in Task : tk[u].parent # t /\ tk[u].origin # t /\ t \notin Range(tk[u].dependers)
      /\ \A u \in Task : AliveIn(tk, u) => (tk[u].parent = p <=> tk[u].origin = p)
  BY FreshIs
<1>2. tk \in [AnyTask -> TaskRec] /\ F \in [AnyTask -> TaskRec]
  BY DEF Graph, Awaiting
<1>3. \A u \in AnyTask \ {t} :
        /\ F[u].kind = tk[u].kind /\ F[u].parent = tk[u].parent /\ F[u].origin = tk[u].origin
        /\ F[u].depend = tk[u].depend /\ F[u].num_dependees = tk[u].num_dependees
        /\ F[u].dependers = tk[u].dependers /\ F[u].depend_hash = tk[u].depend_hash
        /\ F[u].parent_depends_on <=> tk[u].parent_depends_on \/ u \in us
  BY DEF Awaiting
<1>4. /\ F[t].kind = "new" /\ F[t].parent = p /\ F[t].origin = p
      /\ F[t].num_dependees = 0 /\ F[t].dependers = <<>> /\ ~F[t].parent_depends_on
      /\ \A a \in Addr : F[t].depend_hash[a] = <<>>
  BY DEF Awaiting
<1>5. /\ \A u \in us : u \in Task /\ DeferredIn(tk, u) /\ tk[u].parent = p
      /\ \A u \in Task : AliveIn(tk, u) /\ tk[u].parent = p /\ Conflict(F[t].depend, tk[u].depend)
           => u \in us \/ tk[u].parent_depends_on
  BY DEF Awaiting
<1>7. AliveIn(F, t) /\ ~DeferredIn(F, t) /\ UndeferredIn(F, t)
  BY <1>4 DEF AliveIn, DeferredIn, UndeferredIn
<1>8. \A u \in AnyTask \ {t} : /\ AliveIn(F, u) <=> AliveIn(tk, u)
                               /\ DeferredIn(F, u) <=> DeferredIn(tk, u)
                               /\ UndeferredIn(F, u) <=> UndeferredIn(tk, u)
  BY <1>3 DEF AliveIn, DeferredIn, UndeferredIn
<1>9. ~AliveIn(tk, t) /\ tk[t].kind = "none" /\ ~DeferredIn(tk, t)
  BY DEF Fresh, AliveIn, DeferredIn
<1>10. Families(F)
  <2>1. \A th \in Thread : /\ F[th].kind = "nested" /\ F[th].parent = Null
                           /\ F[th].origin = Null /\ ~F[th].parent_depends_on
    <3>1. \A th \in Thread : th \in AnyTask \ {t} /\ th \notin Task
      BY <1>1, ConstantsOK DEF AnyTask
    <3> QED
      BY <1>3, <1>5, <3>1 DEF Graph, Families
  <2>2. ASSUME NEW u \in Task, ~AliveIn(F, u)
        PROVE  Blank(F[u])
    <3>1. u # t /\ u \in AnyTask /\ ~AliveIn(tk, u)
      BY <1>1, <1>7, <1>8, <2>2
    <3>2. Blank(tk[u])
      BY <3>1 DEF Graph, Families
    <3>3. u \notin us
      BY <1>5, <3>1 DEF AliveIn, DeferredIn
    <3> QED
      BY <1>3, <3>1, <3>2, <3>3 DEF Blank
  <2>3. ASSUME NEW u \in Task, AliveIn(F, u)
        PROVE  /\ F[u].origin \in AnyTask /\ F[u].origin # u /\ F[F[u].origin].kind # "none"
               /\ F[u].parent \in {Null, F[u].origin}
               /\ F[u].parent = Null => F[F[u].origin].kind = "done"
    <3>1. CASE u = t
      BY <1>1, <1>3, <1>4, <3>1 DEF AliveIn
    <3>2. CASE u # t
      <4>1. AliveIn(tk, u) /\ u \in AnyTask
        BY <1>1, <1>8, <2>3, <3>2
      <4>2. /\ tk[u].origin \in AnyTask /\ tk[u].origin # u /\ tk[tk[u].origin].kind # "none"
            /\ tk[u].parent \in {Null, tk[u].origin}
            /\ tk[u].parent = Null => tk[tk[u].origin].kind = "done"
        BY <4>1 DEF Graph, Families
      <4>3. tk[u].origin # t
        BY <1>1
      <4> QED
        BY <1>3, <3>2, <4>1, <4>2, <4>3
    <3> QED
      BY <3>1, <3>2
  <2>4. \A u \in Task : UndeferredIn(F, u) => F[u].parent = F[u].origin
    BY <1>1, <1>3, <1>4, <1>8 DEF Graph, Families
  <2>5. \A u \in Task : F[u].parent_depends_on => DeferredIn(F, u)
    BY <1>1, <1>3, <1>4, <1>5, <1>8 DEF Graph, Families
  <2>6. \A u, v \in Task : F[u].kind = "none" /\ F[v].kind # "none" => v < u
    <3> SUFFICES ASSUME NEW u \in Task, NEW v \in Task, F[u].kind = "none", F[v].kind # "none"
                 PROVE  v < u
      OBVIOUS
    <3>1. u # t /\ tk[u].kind = "none"
      BY <1>1, <1>3, <1>4
    <3>2. CASE v = t
      BY <1>1, <3>1, <3>2
    <3>3. CASE v # t
      BY <1>1, <1>3, <3>1, <3>3 DEF Graph, Families
    <3> QED
      BY <3>2, <3>3
  <2>7. \A u, v \in Task : UndeferredIn(F, u) /\ AliveIn(F, v) /\ F[v].origin = F[u].origin => v <= u
    <3> SUFFICES ASSUME NEW u \in Task, NEW v \in Task, UndeferredIn(F, u), AliveIn(F, v),
                        F[v].origin = F[u].origin
                 PROVE  v <= u
      OBVIOUS
    <3>1. CASE v = t /\ u = t
      BY <1>1, <3>1
    <3>2. CASE v # t /\ u = t
      <4>1. v < t /\ v \in Nat /\ t \in Nat
        BY <1>1, <1>8, <3>2 DEF AliveIn
      <4> QED
        BY <3>2, <4>1
    <3>3. CASE u # t
      <4>1. UndeferredIn(tk, u) /\ F[u].origin = tk[u].origin
        BY <1>1, <1>3, <1>8, <3>3
      <4>2. tk[u].origin # p
        BY <4>1 DEF Fresh
      <4>3. v # t
        BY <1>4, <4>1, <4>2
      <4> QED
        BY <1>1, <1>3, <1>8, <3>3, <4>1, <4>3 DEF Graph, Families
    <3> QED
      BY <3>1, <3>2, <3>3
  <2> QED
    BY <2>1, <2>2, <2>3, <2>4, <2>5, <2>6, <2>7 DEF Families
<1>11. Range(F[t].dependers) = {} /\ Range(tk[t].dependers) = {}
  <2>1. Range(<<>>) = {}
    BY DEF Range
  <2>2. tk[t].dependers = <<>>
    BY <1>1, <1>9 DEF Graph, Families, Blank
  <2> QED
    BY <1>4, <2>1, <2>2
<1>12. \A u \in Task : Range(F[u].dependers) = Range(tk[u].dependers)
  BY <1>1, <1>3, <1>11
<1>13. Edges(F)
  <2>1. \A th \in Thread : F[th].dependers = <<>>
    <3>1. \A th \in Thread : th \in AnyTask \ {t}
      BY <1>1, ConstantsOK DEF AnyTask
    <3> QED
      BY <1>3, <3>1 DEF Graph, Edges
  <2>2. ASSUME NEW u \in Task, NEW v \in Task, v \in Range(F[u].dependers)
        PROVE  F[v].kind = "depends" /\ DeferredIn(F, u) /\ u < v /\ F[u].origin = F[v].origin
    <3>1. v \in Range(tk[u].dependers) /\ u # t /\ v # t
      BY <1>1, <1>11, <1>12, <2>2
    <3>2. tk[v].kind = "depends" /\ DeferredIn(tk, u) /\ u < v /\ tk[u].origin = tk[v].origin
      BY <3>1 DEF Graph, Edges
    <3> QED
      BY <1>1, <1>3, <1>8, <3>1, <3>2
  <2>3. \A v \in Task : Dependees(F, v) = Dependees(tk, v)
    BY <1>12 DEF Dependees
  <2>4. ASSUME NEW v \in Task
        PROVE  F[v].num_dependees = Cardinality(Dependees(F, v))
    <3>1. CASE v = t
      <4>1. Dependees(tk, t) = {}
        BY <1>1 DEF Dependees
      <4> QED
        BY <1>4, <2>3, <3>1, <4>1, FS_EmptySet
    <3>2. CASE v # t
      BY <1>1, <1>3, <2>3, <3>2 DEF Graph, Edges
    <3> QED
      BY <3>1, <3>2
  <2>5. \A v \in Task : F[v].kind = "depends" => F[v].num_dependees > 0
    BY <1>1, <1>3, <1>4 DEF Graph, Edges
  <2> QED
    BY <2>1, <2>2, <2>4, <2>5 DEF Edges
<1>14. \A u, v \in Task : u # t /\ v # t => (Conflicts(F, u, v) <=> Conflicts(tk, u, v))
  BY <1>1, <1>3 DEF Conflicts
<1>15. Cover(F)
  <2> SUFFICES ASSUME NEW v \in Task, NEW u \in Task, DeferredIn(F, v), DeferredIn(F, u), Conflicts(F, v, u)
               PROVE  \/ v \in Range(F[u].dependers)
                      \/ \E w \in Task : v \in Range(F[w].dependers) /\ Conflicts(F, w, u)
    BY DEF Cover
  <2>1. v # t /\ u # t
    BY <1>7
  <2>2. DeferredIn(tk, v) /\ DeferredIn(tk, u) /\ Conflicts(tk, v, u)
    BY <1>1, <1>8, <1>14, <2>1
  <2>3. \/ v \in Range(tk[u].dependers)
        \/ \E w \in Task : v \in Range(tk[w].dependers) /\ Conflicts(tk, w, u)
    BY <2>2 DEF Graph, Cover
  <2> QED
    BY <1>11, <1>12, <1>14, <2>1, <2>3
<1>16. Chains(F)
  <2> SUFFICES ASSUME NEW q \in AnyTask, NEW a \in Addr
               PROVE  /\ Shape(F[q].depend_hash[a]) /\ Content(F, q, a, F[q].depend_hash[a])
                      /\ AliveIn(F, q) => Complete(F, q, a, F[q].depend_hash[a])
    BY DEF Chains
  <2>1. CASE q = t
    <3>1. F[q].depend_hash[a] = <<>>
      BY <1>4, <2>1
    <3>2. Shape(<<>>) /\ Content(F, q, a, <<>>)
      BY DEF Shape, Content
    <3>3. \A u \in Task : F[u].parent # t
      BY <1>1, <1>3, <1>4
    <3>4. Complete(F, q, a, <<>>)
      BY <2>1, <3>3 DEF Complete
    <3> QED
      BY <3>1, <3>2, <3>4
  <2>2. CASE q # t
    <3> DEFINE c == tk[q].depend_hash[a]
    <3>1. F[q].depend_hash[a] = c
      BY <1>3, <2>2
    <3>2. Shape(c) /\ Content(tk, q, a, c) /\ (AliveIn(tk, q) => Complete(tk, q, a, c))
      BY DEF Graph, Chains
    <3>3. \A i \in DOMAIN c : c[i].task \in Task
      BY <1>2, ChainTasks
    <3> HIDE DEF c
    <3>4. \A i \in DOMAIN c : c[i].task # t
      BY <1>9, <3>2 DEF Content
    <3>5. Content(F, q, a, c)
      BY <1>1, <1>3, <1>8, <3>2, <3>3, <3>4 DEF Content
    <3>6. AliveIn(F, q) => Complete(F, q, a, c)
      BY <1>1, <1>3, <1>7, <1>8, <2>2, <3>2 DEF Complete
    <3> QED
      BY <3>1, <3>2, <3>5, <3>6
  <2> QED
    BY <2>1, <2>2
<1>17. Marks(F)
  <2> SUFFICES ASSUME NEW v \in Task, NEW u \in Task, AliveIn(F, u), Conflicts(F, v, u),
                      F[v].kind \in {"new", "nested"}
               PROVE  (F[v].kind = "new" => F[u].parent_depends_on) /\ F[v].kind # "nested"
    BY DEF Marks
  <2>1. CASE v = t
    <3>1. u # t
      BY <1>1, <2>1 DEF Conflicts
    <3>2. AliveIn(tk, u) /\ tk[u].origin = p
      BY <1>1, <1>3, <1>4, <1>8, <2>1, <3>1 DEF Conflicts
    <3>3. tk[u].parent = p
      BY <1>1, <3>2
    <3>4. Conflict(F[t].depend, tk[u].depend)
      BY <1>1, <1>3, <2>1, <3>1 DEF Conflicts
    <3>5. u \in us \/ tk[u].parent_depends_on
      BY <1>5, <3>2, <3>3, <3>4
    <3> QED
      BY <1>1, <1>3, <1>4, <2>1, <3>1, <3>5
  <2>2. CASE v # t
    <3>1. tk[v].kind = F[v].kind /\ v < t
      BY <1>1, <1>3, <2>2
    <3>2. u # t
      BY <1>1, <3>1 DEF Conflicts
    <3>3. AliveIn(tk, u) /\ Conflicts(tk, v, u)
      BY <1>1, <1>8, <1>14, <2>2, <3>2
    <3> QED
      BY <1>1, <1>3, <2>2, <3>1, <3>2, <3>3 DEF Graph, Marks
  <2> QED
    BY <2>1, <2>2
<1> QED
  BY <1>2, <1>10, <1>13, <1>15, <1>16, <1>17 DEF Graph

(* Task c has ended: its record is free, its entries and its edges are     *)
(* gone, the tasks that depended on c alone are ready, and its queued      *)
(* children have no parent.                                                *)
Removed(tk, S, c) ==
  /\ S \in [AnyTask -> TaskRec]
  /\ S[c].kind = "done" /\ Blank(S[c])
  /\ \A u \in AnyTask \ {c} :
       /\ S[u].origin = tk[u].origin /\ S[u].depend = tk[u].depend
       /\ S[u].taskgroup = tk[u].taskgroup /\ S[u].dependers = tk[u].dependers
       /\ S[u].parent_depends_on <=> tk[u].parent_depends_on
       /\ S[u].parent = tk[u].parent \/ (tk[u].parent = c /\ S[u].parent = Null)
       /\ u \in Range(tk[c].dependers) => S[u].num_dependees = tk[u].num_dependees - 1
       /\ u \notin Range(tk[c].dependers) => S[u].num_dependees = tk[u].num_dependees
       /\ S[u].kind = IF u \in Range(tk[c].dependers) /\ tk[u].num_dependees = 1
                        THEN "waiting" ELSE tk[u].kind
       /\ \A a \in Addr : S[u].depend_hash[a] = IF u = tk[c].parent
                                                  THEN Unlink(tk[u].depend_hash[a], c)
                                                  ELSE tk[u].depend_hash[a]

(* A task that may end: it runs, and no undeferred task that it created is *)
(* unfinished.                                                             *)
Ending(tk, c) ==
  /\ c \in Task /\ tk[c].kind \in {"running", "nested"}
  /\ \A u \in Task : UndeferredIn(tk, u) => tk[u].origin # c

(* A live out of c supersedes nothing in its chain: the tasks that it      *)
(* supersedes have ended.                                                  *)
LEMMA NotSuperseding ==
  ASSUME NEW tk, Graph(tk), NEW c, Ending(tk, c), NEW p \in AnyTask, NEW a \in Addr,
         NEW ch, ch = tk[p].depend_hash[a]
  PROVE  \A i, j \in DOMAIN ch : ch[i].redundant_out /\ LiveOut(ch[j]) => ch[j].task # c
<1> SUFFICES ASSUME NEW i \in DOMAIN ch, NEW j \in DOMAIN ch, ch[i].redundant_out,
                    LiveOut(ch[j]), ch[j].task = c
             PROVE  FALSE
  OBVIOUS
<1>1. c \in Task /\ tk[c].kind \in {"waiting", "running", "nested"}
  BY DEF Ending
<1>2. Shape(ch) /\ Content(tk, p, a, ch)
  BY DEF Graph, Chains
<1>3. PICK k \in DOMAIN ch : LiveOut(ch[k]) /\ ch[i].task < ch[k].task
  BY <1>2 DEF Shape
<1>4. k = j
  BY <1>2, <1>3 DEF Shape
<1> DEFINE u == ch[i].task
<1>5. u \in Task
  BY ChainTasks DEF Graph
<1>6. u < c
  BY <1>3, <1>4
<1>7. DeferredIn(tk, u) /\ tk[u].parent = p /\ Names(tk[u].depend, a)
  BY <1>2 DEF Content
<1>8. tk[c].parent = p /\ DeferredIn(tk, c)
  BY <1>2 DEF Content
<1>9. ~ch[j].in /\ ch[j].in = ~NamesOut(tk[c].depend, a)
  BY <1>2 DEF Content, LiveOut
<1>10. NamesOut(tk[c].depend, a)
  BY <1>9 DEF NamesOut
<1>11. Conflict(tk[c].depend, tk[u].depend)
  BY <1>7, <1>10 DEF Names, NamesOut, Conflict
<1>12. p # Null
  BY ConstantsOK DEF AnyTask, Null
<1>13. AliveIn(tk, u) /\ AliveIn(tk, c)
  BY <1>7, <1>8 DEF AliveIn, DeferredIn
<1>14. tk[u].origin = p /\ tk[c].origin = p
  BY <1>1, <1>5, <1>7, <1>8, <1>12, <1>13 DEF Graph, Families
<1>15. Conflicts(tk, c, u)
  BY <1>6, <1>11, <1>14 DEF Conflicts
<1> QED
  BY <1>1, <1>5, <1>13, <1>15, NoConflict

(* The end of a task leaves a sound graph: what was ordered by way of c    *)
(* has nothing to wait for.                                                *)
LEMMA RemovedGraph ==
  ASSUME NEW tk, NEW S, NEW c, Graph(tk), Ending(tk, c), Removed(tk, S, c)
  PROVE  Graph(S)
<1> DEFINE D == Range(tk[c].dependers)
<1>1. /\ c \in Task /\ c \in AnyTask /\ c # Null /\ AliveIn(tk, c)
      /\ tk[c].kind \in {"running", "nested"} /\ Null \notin AnyTask
      /\ \A u \in Task : u \in AnyTask /\ u \notin Thread
      /\ \A th \in Thread : th \in AnyTask /\ th # c
      /\ \A u \in Task : UndeferredIn(tk, u) => tk[u].origin # c
  BY ConstantsOK DEF Ending, AnyTask, Null, AliveIn
<1>2. tk \in [AnyTask -> TaskRec] /\ S \in [AnyTask -> TaskRec] /\ S[c].kind = "done" /\ Blank(S[c])
  BY DEF Graph, Removed
<1>3. \A u \in AnyTask \ {c} :
       /\ S[u].origin = tk[u].origin /\ S[u].depend = tk[u].depend /\ S[u].dependers = tk[u].dependers
       /\ S[u].parent_depends_on <=> tk[u].parent_depends_on
       /\ S[u].parent = tk[u].parent \/ (tk[u].parent = c /\ S[u].parent = Null)
       /\ u \in D => S[u].num_dependees = tk[u].num_dependees - 1
       /\ u \notin D => S[u].num_dependees = tk[u].num_dependees
       /\ S[u].kind = IF u \in D /\ tk[u].num_dependees = 1 THEN "waiting" ELSE tk[u].kind
  BY DEF Removed
<1>4. \A u \in AnyTask \ {c} : \A a \in Addr :
        S[u].depend_hash[a] = IF u = tk[c].parent THEN Unlink(tk[u].depend_hash[a], c)
                              ELSE tk[u].depend_hash[a]
  BY DEF Removed
<1>5. D \subseteq Task
  <2>1. tk[c].dependers \in Seq(Task)
    BY <1>1, <1>2 DEF TaskRec
  <2> QED
    BY <2>1 DEF Range
<1>6. /\ \A u \in D : tk[u].kind = "depends" /\ u # c
      /\ \A u, v \in Task : v \in Range(tk[u].dependers) =>
           tk[v].kind = "depends" /\ DeferredIn(tk, u) /\ u < v /\ tk[u].origin = tk[v].origin
  BY <1>1, <1>5 DEF Graph, Edges
<1> HIDE DEF D
<1>7. \A u \in AnyTask \ {c} :
        /\ AliveIn(S, u) <=> AliveIn(tk, u)
        /\ DeferredIn(S, u) <=> DeferredIn(tk, u)
        /\ UndeferredIn(S, u) <=> UndeferredIn(tk, u)
        /\ S[u].kind = tk[u].kind \/ (tk[u].kind = "depends" /\ S[u].kind = "waiting")
  BY <1>3, <1>6 DEF AliveIn, DeferredIn, UndeferredIn
<1>8. ~AliveIn(S, c) /\ ~DeferredIn(S, c) /\ ~UndeferredIn(S, c)
  BY <1>2 DEF AliveIn, DeferredIn, UndeferredIn
<1>9. \A u \in Task : AliveIn(tk, u) =>
        /\ tk[u].origin \in AnyTask /\ tk[u].origin # u /\ tk[tk[u].origin].kind # "none"
        /\ tk[u].parent \in {Null, tk[u].origin}
        /\ tk[u].parent = Null => tk[tk[u].origin].kind = "done"
  BY DEF Graph, Families
<1>10. Families(S)
  <2>1. \A th \in Thread : /\ S[th].kind = "nested" /\ S[th].parent = Null
                           /\ S[th].origin = Null /\ ~S[th].parent_depends_on
    <3>1. \A th \in Thread : /\ tk[th].kind = "nested" /\ tk[th].parent = Null
                             /\ tk[th].origin = Null /\ ~tk[th].parent_depends_on
      BY DEF Graph, Families
    <3> QED
      BY <1>1, <1>3, <1>7, <3>1
  <2>2. ASSUME NEW u \in Task, ~AliveIn(S, u)
        PROVE  Blank(S[u])
    <3>1. CASE u = c
      BY <1>2, <3>1
    <3>2. CASE u # c
      <4>1. ~AliveIn(tk, u) /\ u \in AnyTask \ {c}
        BY <1>1, <1>7, <2>2, <3>2
      <4>2. Blank(tk[u])
        BY <4>1 DEF Graph, Families
      <4>4. u \notin D
        BY <1>6, <4>1 DEF AliveIn
      <4>5. ASSUME NEW a \in Addr
            PROVE  S[u].depend_hash[a] = <<>>
        <5>1. tk[u].depend_hash[a] = <<>>
          BY <4>2 DEF Blank
        <5>2. Unlink(<<>>, c) = <<>>
          BY DEF Unlink
        <5> QED
          BY <1>4, <4>1, <5>1, <5>2
      <4> QED
        BY <1>1, <1>3, <4>1, <4>2, <4>4, <4>5 DEF Blank
    <3> QED
      BY <3>1, <3>2
  <2>3. ASSUME NEW u \in Task, AliveIn(S, u)
        PROVE  /\ S[u].origin \in AnyTask /\ S[u].origin # u /\ S[S[u].origin].kind # "none"
               /\ S[u].parent \in {Null, S[u].origin}
               /\ S[u].parent = Null => S[S[u].origin].kind = "done"
    <3>1. u \in AnyTask \ {c} /\ AliveIn(tk, u)
      BY <1>1, <1>7, <1>8, <2>3
    <3>2. /\ tk[u].origin \in AnyTask /\ tk[u].origin # u /\ tk[tk[u].origin].kind # "none"
          /\ tk[u].parent \in {Null, tk[u].origin}
          /\ tk[u].parent = Null => tk[tk[u].origin].kind = "done"
      BY <1>9, <3>1
    <3> DEFINE o == tk[u].origin
    <3>3. /\ S[u].origin = o
          /\ S[u].parent = tk[u].parent \/ (tk[u].parent = c /\ S[u].parent = Null)
      BY <1>3, <3>1
    <3> HIDE DEF o
    <3>4. CASE o = c
      BY <1>1, <1>2, <3>2, <3>3, <3>4 DEF o
    <3>5. CASE o # c
      <4>1. S[o].kind = tk[o].kind \/ (tk[o].kind = "depends" /\ S[o].kind = "waiting")
        BY <1>7, <3>2, <3>5 DEF o
      <4> QED
        BY <1>1, <3>2, <3>3, <3>5, <4>1 DEF o
    <3> QED
      BY <3>4, <3>5
  <2>4. ASSUME NEW u \in Task, UndeferredIn(S, u)
        PROVE  S[u].parent = S[u].origin
    <3>1. u \in AnyTask \ {c} /\ UndeferredIn(tk, u) /\ tk[u].origin # c
      BY <1>1, <1>7, <1>8, <2>4
    <3>2. tk[u].parent = tk[u].origin
      BY <3>1 DEF Graph, Families
    <3> QED
      BY <1>3, <3>1, <3>2
  <2>5. \A u \in Task : S[u].parent_depends_on => DeferredIn(S, u)
    <3>1. ~S[c].parent_depends_on
      BY <1>2 DEF Blank
    <3>2. \A u \in Task : tk[u].parent_depends_on => DeferredIn(tk, u)
      BY DEF Graph, Families
    <3> QED
      BY <1>1, <1>3, <1>7, <3>1, <3>2
  <2>6. \A u, v \in Task : S[u].kind = "none" /\ S[v].kind # "none" => v < u
    <3>1. \A u \in Task : S[u].kind = "none" <=> tk[u].kind = "none"
      BY <1>1, <1>2, <1>7
    <3>2. \A u, v \in Task : tk[u].kind = "none" /\ tk[v].kind # "none" => v < u
      BY DEF Graph, Families
    <3> QED
      BY <3>1, <3>2
  <2>7. \A u, v \in Task : UndeferredIn(S, u) /\ AliveIn(S, v) /\ S[v].origin = S[u].origin => v <= u
    <3>1. \A u, v \in Task : UndeferredIn(tk, u) /\ AliveIn(tk, v) /\ tk[v].origin = tk[u].origin
            => v <= u
      BY DEF Graph, Families
    <3> QED
      BY <1>1, <1>3, <1>7, <1>8, <3>1
  <2> QED
    BY <2>1, <2>2, <2>3, <2>4, <2>5, <2>6, <2>7 DEF Families
<1>11. S[c].dependers = <<>> /\ S[c].num_dependees = 0 /\ Range(S[c].dependers) = {}
  <2>1. Range(<<>>) = {}
    BY DEF Range
  <2> QED
    BY <1>2, <2>1 DEF Blank
<1>12. \A u \in Task \ {c} : Range(S[u].dependers) = Range(tk[u].dependers)
  BY <1>1, <1>3
<1>13. ASSUME NEW v \in Task
       PROVE  /\ Dependees(S, v) = Dependees(tk, v) \ {c}
              /\ Dependees(tk, v) \in SUBSET Task /\ IsFiniteSet(Dependees(tk, v))
              /\ v \in D <=> c \in Dependees(tk, v)
              /\ tk[v].num_dependees = Cardinality(Dependees(tk, v))
              /\ tk[v].kind = "depends" => tk[v].num_dependees > 0
              /\ Cardinality(Dependees(tk, v)) \in Nat
  <2>1. Dependees(S, v) = Dependees(tk, v) \ {c}
    BY <1>11, <1>12 DEF Dependees
  <2>2. Dependees(tk, v) \in SUBSET Task /\ (v \in D <=> c \in Dependees(tk, v))
    BY <1>1 DEF Dependees, D
  <2>3. IsFiniteSet(Dependees(tk, v))
    BY <2>2, ConstantsOK, FS_Subset
  <2>4. Cardinality(Dependees(tk, v)) \in Nat
    BY <2>3, FS_CardinalityType
  <2> QED
    BY <2>1, <2>2, <2>3, <2>4 DEF Graph, Edges
<1>14. ASSUME NEW v \in Task
       PROVE  /\ v \in D => Cardinality(Dependees(S, v)) = tk[v].num_dependees - 1
              /\ v \notin D => Cardinality(Dependees(S, v)) = tk[v].num_dependees
  <2>1. CASE v \in D
    BY <1>13, <2>1, FS_RemoveElement
  <2>2. CASE v \notin D
    <3>1. Dependees(S, v) = Dependees(tk, v)
      BY <1>13, <2>2
    <3> QED
      BY <1>13, <2>2, <3>1
  <2> QED
    BY <2>1, <2>2
<1>15. Edges(S)
  <2>1. \A th \in Thread : S[th].dependers = <<>>
    BY <1>1, <1>3 DEF Graph, Edges
  <2>2. ASSUME NEW v \in Task, NEW u \in Task, v \in Range(S[u].dependers)
        PROVE  S[v].kind = "depends" /\ DeferredIn(S, u) /\ u < v /\ S[u].origin = S[v].origin
    <3>1. u # c /\ v \in Range(tk[u].dependers)
      BY <1>11, <1>12, <2>2
    <3>2. tk[v].kind = "depends" /\ DeferredIn(tk, u) /\ u < v /\ tk[u].origin = tk[v].origin
      BY <1>6, <3>1
    <3>3. v # c
      BY <1>1, <3>2
    <3>4. v \in D => tk[v].num_dependees # 1
      <4> SUFFICES ASSUME v \in D, tk[v].num_dependees = 1 PROVE FALSE
        OBVIOUS
      <4>1. u \in Dependees(S, v)
        BY <2>2 DEF Dependees
      <4>2. Cardinality(Dependees(S, v)) = 0 /\ IsFiniteSet(Dependees(S, v))
        BY <1>13, <1>14, FS_RemoveElement
      <4> QED
        BY <4>1, <4>2, FS_EmptySet
    <3>5. S[v].kind = tk[v].kind
      BY <1>1, <1>3, <3>3, <3>4
    <3> QED
      BY <1>1, <1>3, <1>7, <3>1, <3>2, <3>3, <3>5
  <2>3. ASSUME NEW v \in Task
        PROVE  S[v].num_dependees = Cardinality(Dependees(S, v))
    <3>1. CASE v = c
      <4>1. Dependees(S, v) = {}
        BY <1>2, <2>2, <3>1 DEF Dependees
      <4> QED
        BY <1>11, <3>1, <4>1, FS_EmptySet
    <3>2. CASE v # c
      BY <1>1, <1>3, <1>14, <3>2
    <3> QED
      BY <3>1, <3>2
  <2>4. ASSUME NEW v \in Task, S[v].kind = "depends"
        PROVE  S[v].num_dependees > 0
    <3>1. v # c /\ v \in AnyTask /\ tk[v].kind = "depends"
      BY <1>1, <1>2, <1>3, <2>4
    <3>2. tk[v].num_dependees > 0 /\ tk[v].num_dependees \in Nat
      BY <1>13, <3>1
    <3>3. CASE v \in D
      <4>1. tk[v].num_dependees # 1
        BY <1>3, <2>4, <3>1, <3>3
      <4> QED
        BY <1>3, <3>1, <3>2, <3>3, <4>1
    <3>4. CASE v \notin D
      BY <1>3, <3>1, <3>2, <3>4
    <3> QED
      BY <3>3, <3>4
  <2> QED
    BY <2>1, <2>2, <2>3, <2>4 DEF Edges
<1>16. \A u, v \in Task \ {c} : Conflicts(S, u, v) <=> Conflicts(tk, u, v)
  BY <1>1, <1>3 DEF Conflicts
<1>17. Cover(S)
  <2> SUFFICES ASSUME NEW v \in Task, NEW u \in Task, DeferredIn(S, v), DeferredIn(S, u), Conflicts(S, v, u)
               PROVE  \/ v \in Range(S[u].dependers)
                      \/ \E w \in Task : v \in Range(S[w].dependers) /\ Conflicts(S, w, u)
    BY DEF Cover
  <2>1. v # c /\ u # c
    BY <1>8
  <2>2. DeferredIn(tk, v) /\ DeferredIn(tk, u) /\ Conflicts(tk, v, u)
    BY <1>1, <1>7, <1>16, <2>1
  <2>3. CASE v \in Range(tk[u].dependers)
    BY <1>12, <2>1, <2>3
  <2>4. CASE \E w \in Task : v \in Range(tk[w].dependers) /\ Conflicts(tk, w, u)
    <3>1. PICK w \in Task : v \in Range(tk[w].dependers) /\ Conflicts(tk, w, u)
      BY <2>4
    <3>2. w # c
      <4>1. AliveIn(tk, u)
        BY <2>2 DEF DeferredIn, AliveIn
      <4>2. tk[c].kind \in {"waiting", "running", "nested"}
        BY <1>1
      <4> QED
        BY <1>1, <3>1, <4>1, <4>2, NoConflict
    <3> QED
      BY <1>12, <1>16, <2>1, <3>1, <3>2
  <2> QED
    BY <2>2, <2>3, <2>4 DEF Graph, Cover
<1>18. Chains(S)
  <2> SUFFICES ASSUME NEW q \in AnyTask, NEW a \in Addr
               PROVE  /\ Shape(S[q].depend_hash[a]) /\ Content(S, q, a, S[q].depend_hash[a])
                      /\ AliveIn(S, q) => Complete(S, q, a, S[q].depend_hash[a])
    BY DEF Chains
  <2>1. CASE q = c
    <3>1. S[q].depend_hash[a] = <<>>
      BY <1>2, <2>1 DEF Blank
    <3>2. Shape(<<>>) /\ Content(S, q, a, <<>>)
      BY DEF Shape, Content
    <3> QED
      BY <1>8, <2>1, <3>1, <3>2
  <2>2. CASE q # c
    <3> DEFINE ch == tk[q].depend_hash[a]
               d == S[q].depend_hash[a]
    <3>1. Shape(ch) /\ Content(tk, q, a, ch) /\ (AliveIn(tk, q) => Complete(tk, q, a, ch))
      BY DEF Graph, Chains
    <3>2. ch \in Seq(Entry) /\ \A i \in DOMAIN ch : ch[i].task \in Task
      BY <1>2, ChainTasks
    <3>3. /\ Shape(d)
          /\ \A i \in DOMAIN ch : ch[i].task # c => \E j \in DOMAIN d : d[j] = ch[i]
          /\ \A j \in DOMAIN d : \E i \in DOMAIN ch : d[j] = ch[i] /\ ch[i].task # c
      <4>1. CASE q = tk[c].parent
        <5>1. d = Unlink(ch, c)
          BY <1>4, <2>2, <4>1
        <5>2. \A i, j \in DOMAIN ch : ch[i].redundant_out /\ LiveOut(ch[j]) => ch[j].task # c
          BY NotSuperseding
        <5> HIDE DEF ch, d
        <5>3. /\ Shape(Unlink(ch, c))
              /\ \A i \in DOMAIN ch : ch[i].task # c =>
                   \E j \in DOMAIN Unlink(ch, c) : Unlink(ch, c)[j] = ch[i]
              /\ \A j \in DOMAIN Unlink(ch, c) :
                   \E i \in DOMAIN ch : Unlink(ch, c)[j] = ch[i] /\ ch[i].task # c
          BY <1>1, <3>1, <3>2, <5>2, UnlinkShape
        <5> QED
          BY <5>1, <5>3
      <4>2. CASE q # tk[c].parent
        <5>1. d = ch
          BY <1>4, <2>2, <4>2
        <5> HIDE DEF ch, d
        <5>2. \A i \in DOMAIN ch : ch[i].task # c
          BY <3>1, <4>2 DEF Content
        <5> QED
          BY <3>1, <5>1, <5>2
      <4> QED
        BY <4>1, <4>2
    <3> HIDE DEF ch, d
    <3>4. Content(S, q, a, d)
      <4> SUFFICES ASSUME NEW j \in DOMAIN d
                   PROVE  /\ DeferredIn(S, d[j].task) /\ S[d[j].task].parent = q
                          /\ Names(S[d[j].task].depend, a)
                          /\ d[j].in = ~NamesOut(S[d[j].task].depend, a)
        BY DEF Content
      <4>1. PICK i \in DOMAIN ch : d[j] = ch[i] /\ ch[i].task # c
        BY <3>3
      <4> DEFINE u == d[j].task
      <4>2. u \in Task /\ u # c /\ u \in AnyTask \ {c}
        BY <1>1, <3>2, <4>1
      <4>3. /\ DeferredIn(tk, u) /\ tk[u].parent = q /\ Names(tk[u].depend, a)
            /\ d[j].in = ~NamesOut(tk[u].depend, a)
        BY <3>1, <4>1 DEF Content
      <4>4. S[u].parent = q
        BY <1>3, <2>2, <4>2, <4>3
      <4>5. S[u].depend = tk[u].depend /\ DeferredIn(S, u)
        BY <1>3, <1>7, <4>2, <4>3
      <4> HIDE DEF u
      <4>6. Names(S[u].depend, a) /\ d[j].in = ~NamesOut(S[u].depend, a)
        BY <4>3, <4>5
      <4> QED
        BY <4>4, <4>5, <4>6 DEF u
    <3>5. ASSUME AliveIn(S, q)
          PROVE  Complete(S, q, a, d)
      <4> SUFFICES ASSUME NEW u \in Task, DeferredIn(S, u), S[u].parent = q, Names(S[u].depend, a)
                   PROVE  \E j \in DOMAIN d : d[j].task = u
        BY DEF Complete
      <4>1. u # c /\ u \in AnyTask \ {c}
        BY <1>1, <1>8
      <4>2. tk[u].parent = q
        BY <1>1, <1>3, <4>1
      <4>3. DeferredIn(tk, u) /\ Names(tk[u].depend, a)
        BY <1>3, <1>7, <4>1
      <4>4. Complete(tk, q, a, ch)
        BY <1>7, <2>2, <3>1, <3>5
      <4>5. PICK i \in DOMAIN ch : ch[i].task = u
        BY <4>2, <4>3, <4>4 DEF Complete
      <4> QED
        BY <3>3, <4>1, <4>5
    <3> QED
      BY <3>3, <3>4, <3>5 DEF d
  <2> QED
    BY <2>1, <2>2
<1>19. Marks(S)
  <2> SUFFICES ASSUME NEW v \in Task, NEW u \in Task, AliveIn(S, u), Conflicts(S, v, u),
                      S[v].kind \in {"new", "nested"}
               PROVE  (S[v].kind = "new" => S[u].parent_depends_on) /\ S[v].kind # "nested"
    BY DEF Marks
  <2>1. v # c /\ u # c
    BY <1>2, <1>8
  <2>2. tk[v].kind = S[v].kind
    BY <1>1, <1>7, <2>1
  <2>3. AliveIn(tk, u) /\ Conflicts(tk, v, u)
    BY <1>1, <1>7, <1>16, <2>1
  <2> QED
    BY <1>1, <1>3, <2>1, <2>2, <2>3 DEF Graph, Marks
<1> QED
  BY <1>2, <1>10, <1>15, <1>17, <1>18, <1>19 DEF Graph

(* gomp_task_run_post_handle_depend_hash removes the entries of c.         *)
LEMMA HashIs ==
  ASSUME NEW tk, Graph(tk), NEW c, Ending(tk, c), NEW T, T = run_post_handle_depend_hash(tk, c)
  PROVE  /\ T \in [AnyTask -> TaskRec]
         /\ \A u \in AnyTask :
              /\ T[u].kind = tk[u].kind /\ T[u].parent = tk[u].parent /\ T[u].origin = tk[u].origin
              /\ T[u].type = tk[u].type /\ T[u].queues = tk[u].queues
              /\ T[u].depend = tk[u].depend /\ T[u].num_dependees = tk[u].num_dependees
              /\ T[u].dependers = tk[u].dependers /\ T[u].taskgroup = tk[u].taskgroup
              /\ T[u].member = tk[u].member
              /\ T[u].parent_depends_on = tk[u].parent_depends_on
              /\ \A a \in Addr : T[u].depend_hash[a] = IF u = tk[c].parent
                                                         THEN Unlink(tk[u].depend_hash[a], c)
                                                         ELSE tk[u].depend_hash[a]
<1>1. c \in Task /\ c \in AnyTask /\ AliveIn(tk, c) /\ tk \in [AnyTask -> TaskRec] /\ Null \notin AnyTask
  BY ConstantsOK DEF Ending, AnyTask, AliveIn, Graph, Null
<1> DEFINE p == tk[c].parent
<1>2. p = Null \/ p \in AnyTask
  BY <1>1 DEF Graph, Families
<1>3. CASE p = Null
  <2>1. T = tk
    BY <1>3 DEF run_post_handle_depend_hash
  <2> QED
    BY <1>1, <1>3, <2>1
<1>4. CASE p \in AnyTask
  <2> DEFINE h == [a \in Addr |-> Unlink(tk[p].depend_hash[a], c)]
  <2>1. T = [tk EXCEPT ![p] = [tk[p] EXCEPT !.depend_hash = h]]
    BY <1>1, <1>4 DEF run_post_handle_depend_hash
  <2>2. ASSUME NEW a \in Addr
        PROVE  Unlink(tk[p].depend_hash[a], c) \in Seq(Entry)
    <3> DEFINE ch == tk[p].depend_hash[a]
    <3>1. \A i, j \in DOMAIN ch : ch[i].redundant_out /\ LiveOut(ch[j]) => ch[j].task # c
      BY <1>4, NotSuperseding
    <3>2. ch \in Seq(Entry) /\ Shape(ch)
      BY <1>1, <1>4, ChainTasks DEF Graph, Chains
    <3> HIDE DEF ch
    <3>3. Unlink(ch, c) \in Seq(Entry)
      BY <1>1, <3>1, <3>2, UnlinkShape
    <3> QED
      BY <3>3 DEF ch
  <2>3. h \in [Addr -> Seq(Entry)] /\ \A a \in Addr : h[a] = Unlink(tk[p].depend_hash[a], c)
    BY <2>2
  <2> HIDE DEF h, p
  <2>4. tk[p] \in TaskRec
    BY <1>1, <1>4
  <2> DEFINE R == [tk[p] EXCEPT !.depend_hash = h]
  <2>5. R \in TaskRec
    BY <2>3, <2>4 DEF TaskRec
  <2>6. /\ R.kind = tk[p].kind /\ R.parent = tk[p].parent /\ R.origin = tk[p].origin
        /\ R.type = tk[p].type /\ R.queues = tk[p].queues /\ R.depend = tk[p].depend
        /\ R.num_dependees = tk[p].num_dependees /\ R.dependers = tk[p].dependers
        /\ R.taskgroup = tk[p].taskgroup /\ R.member = tk[p].member
        /\ R.parent_depends_on = tk[p].parent_depends_on /\ R.depend_hash = h
    BY <2>4 DEF TaskRec
  <2> HIDE DEF R
  <2>7. T = [tk EXCEPT ![p] = R]
    BY <2>1 DEF R
  <2>8. T \in [AnyTask -> TaskRec] /\ T[p] = R /\ \A u \in AnyTask \ {p} : T[u] = tk[u]
    BY <1>1, <1>4, <2>5, <2>7
  <2>9. ASSUME NEW u \in AnyTask
        PROVE  /\ T[u].kind = tk[u].kind /\ T[u].parent = tk[u].parent /\ T[u].origin = tk[u].origin
               /\ T[u].type = tk[u].type /\ T[u].queues = tk[u].queues
               /\ T[u].depend = tk[u].depend /\ T[u].num_dependees = tk[u].num_dependees
               /\ T[u].dependers = tk[u].dependers /\ T[u].taskgroup = tk[u].taskgroup
               /\ T[u].member = tk[u].member
               /\ T[u].parent_depends_on = tk[u].parent_depends_on
               /\ \A a \in Addr : T[u].depend_hash[a] = IF u = p
                                                          THEN Unlink(tk[u].depend_hash[a], c)
                                                          ELSE tk[u].depend_hash[a]
    <3>1. CASE u = p
      BY <2>3, <2>6, <2>8, <3>1
    <3>2. CASE u # p
      BY <2>8, <3>2
    <3> QED
      BY <3>1, <3>2
  <2> QED
    BY <2>8, <2>9 DEF p
<1> QED
  BY <1>2, <1>3, <1>4

(* gomp_task_run_post_handle_dependers releases those that depend on c     *)
(* alone.                                                                  *)
LEMMA DependersIs ==
  ASSUME NEW T \in [AnyTask -> TaskRec], NEW c \in AnyTask, NEW U,
         U = run_post_handle_dependers(T, c), c \notin Range(T[c].dependers),
         \A u \in AnyTask : u \in Range(T[c].dependers) => T[u].num_dependees > 0
  PROVE  /\ U \in [AnyTask -> TaskRec]
         /\ \A u \in AnyTask \ {c} :
              /\ U[u].parent = T[u].parent /\ U[u].origin = T[u].origin
              /\ U[u].type = T[u].type
              /\ U[u].depend = T[u].depend
              /\ U[u].dependers = T[u].dependers /\ U[u].taskgroup = T[u].taskgroup
              /\ U[u].member = T[u].member
              /\ U[u].parent_depends_on = T[u].parent_depends_on
              /\ U[u].depend_hash = T[u].depend_hash
              /\ u \in Range(T[c].dependers) => U[u].num_dependees = T[u].num_dependees - 1
              /\ u \notin Range(T[c].dependers) => U[u].num_dependees = T[u].num_dependees
              /\ U[u].kind = IF u \in Range(T[c].dependers) /\ T[u].num_dependees = 1
                               THEN "waiting" ELSE T[u].kind
<1> DEFINE D == Range(T[c].dependers)
           rel == Released(T, c)
           V(u) == IF u = c THEN [T[u] EXCEPT !.dependers = <<>>]
                   ELSE IF u \in D
                     THEN [T[u] EXCEPT !.num_dependees = T[u].num_dependees - 1,
                                       !.kind = IF u \in rel THEN "waiting" ELSE T[u].kind,
                                       !.queues = IF u \in rel THEN T[c].type ELSE T[u].queues]
                     ELSE T[u]
<1>1. U = [u \in AnyTask |-> V(u)]
  BY DEF run_post_handle_dependers
<1>2. \A u \in D : u \in rel <=> T[u].num_dependees = 1
  BY DEF Released
<1> HIDE DEF rel, D
<1>3. ASSUME NEW u \in AnyTask
      PROVE  /\ V(u) \in TaskRec
             /\ u # c => 
                  /\ V(u).parent = T[u].parent /\ V(u).origin = T[u].origin
                  /\ V(u).type = T[u].type
                  /\ V(u).depend = T[u].depend
                  /\ V(u).dependers = T[u].dependers /\ V(u).taskgroup = T[u].taskgroup
                  /\ V(u).member = T[u].member
                  /\ V(u).parent_depends_on = T[u].parent_depends_on
                  /\ V(u).depend_hash = T[u].depend_hash
                  /\ u \in D => V(u).num_dependees = T[u].num_dependees - 1
                  /\ u \notin D => V(u).num_dependees = T[u].num_dependees
                  /\ V(u).kind = IF u \in D /\ T[u].num_dependees = 1 THEN "waiting" ELSE T[u].kind
  <2>1. T[u] \in TaskRec /\ T[c].type \in Types /\ T[u].queues \in Types /\ T[u].kind \in Kinds
        /\ T[u].num_dependees \in Nat /\ "waiting" \in Kinds /\ <<>> \in Seq(Task)
    BY DEF TaskRec, Kinds
  <2>2. CASE u = c
    <3>1. V(u) = [T[u] EXCEPT !.dependers = <<>>]
      BY <2>2
    <3> HIDE DEF V
    <3>2. V(u) \in TaskRec
      BY <2>1, <3>1 DEF TaskRec
    <3> QED
      BY <2>2, <3>2
  <2>3. CASE u # c /\ u \in D
    <3> DEFINE n == T[u].num_dependees - 1
               k == IF u \in rel THEN "waiting" ELSE T[u].kind
               y == IF u \in rel THEN T[c].type ELSE T[u].queues
    <3>1. n \in Nat /\ k \in Kinds /\ y \in Types
      BY <2>1, <2>3 DEF D
    <3>2. k = IF u \in D /\ T[u].num_dependees = 1 THEN "waiting" ELSE T[u].kind
      BY <1>2, <2>3
    <3>3. V(u) = [T[u] EXCEPT !.num_dependees = n, !.kind = k, !.queues = y]
      BY <2>3
    <3> HIDE DEF n, k, y
    <3>4. V(u) \in TaskRec
      BY <2>1, <3>1, <3>3 DEF TaskRec
    <3>5. n = T[u].num_dependees - 1
      BY DEF n
    <3> QED
      BY <2>1, <2>3, <3>2, <3>3, <3>4, <3>5 DEF TaskRec
  <2>4. CASE u # c /\ u \notin D
    BY <2>1, <2>4
  <2> QED
    BY <2>2, <2>3, <2>4
<1> HIDE DEF V
<1>4. U \in [AnyTask -> TaskRec] /\ \A u \in AnyTask : U[u] = V(u)
  BY <1>1, <1>3
<1> QED
  BY <1>3, <1>4 DEF D

(* gomp_clear_parent and the end of c.                                     *)
LEMMA ClearIs ==
  ASSUME NEW U \in [AnyTask -> TaskRec], NEW c \in AnyTask, NEW S, S = gomp_clear_parent(U, c)
  PROVE  /\ S \in [AnyTask -> TaskRec] /\ S[c].kind = "done" /\ Blank(S[c])
         /\ \A u \in AnyTask \ {c} :
              /\ S[u].kind = U[u].kind
              /\ S[u].parent = U[u].parent \/ (U[u].parent = c /\ S[u].parent = Null)
              /\ S[u].origin = U[u].origin
              /\ S[u].depend = U[u].depend /\ S[u].num_dependees = U[u].num_dependees
              /\ S[u].dependers = U[u].dependers /\ S[u].taskgroup = U[u].taskgroup
              /\ S[u].parent_depends_on = U[u].parent_depends_on
              /\ S[u].depend_hash = U[u].depend_hash
<1> DEFINE Z == gomp_init_task("done", Null, "TIED", Null)
           V(u) == IF u = c THEN Z
                   ELSE IF u \in ChildrenQueue(U, c) THEN [U[u] EXCEPT !.parent = Null]
                   ELSE U[u]
<1>1. S = [u \in AnyTask |-> V(u)]
  BY DEF gomp_clear_parent
<1>2. Z \in TaskRec /\ Z.kind = "done" /\ Blank(Z)
  <2> DEFINE h == [a \in Addr |-> <<>>]
  <2>1. h \in [Addr -> Seq(Entry)] /\ \A a \in Addr : h[a] = <<>>
    OBVIOUS
  <2> HIDE DEF h
  <2>2. Z = [kind |-> "done", parent |-> Null, origin |-> Null, type |-> "TIED", queues |-> "TIED",
             taskgroup |-> Null, member |-> Null, depend |-> <<>>, num_dependees |-> 0, dependers |-> <<>>,
             parent_depends_on |-> FALSE, depend_hash |-> h]
    BY DEF gomp_init_task, h
  <2>3. /\ "done" \in Kinds /\ Null \in Family /\ "TIED" \in Types /\ Null \in Group \cup {Null}
        /\ <<>> \in Clauses \cup {<<>>} /\ 0 \in Nat /\ <<>> \in Seq(Task) /\ FALSE \in BOOLEAN
    BY DEF Kinds, Family, Types
  <2>4. Z \in TaskRec
    <3>1. [kind |-> "done", parent |-> Null, origin |-> Null, type |-> "TIED", queues |-> "TIED",
           taskgroup |-> Null, member |-> Null, depend |-> <<>>, num_dependees |-> 0, dependers |-> <<>>,
           parent_depends_on |-> FALSE, depend_hash |-> h] \in TaskRec
      BY <2>1, <2>3, TaskRecord
    <3> QED
      BY <2>2, <3>1
  <2> HIDE DEF Z
  <2> QED
    BY <2>1, <2>2, <2>4 DEF Blank
<1> HIDE DEF Z
<1>3. ASSUME NEW u \in AnyTask
      PROVE  /\ V(u) \in TaskRec /\ (u = c => V(u) = Z)
             /\ u # c =>
                 /\ V(u).kind = U[u].kind
                 /\ V(u).parent = U[u].parent \/ (U[u].parent = c /\ V(u).parent = Null)
                 /\ V(u).origin = U[u].origin
                 /\ V(u).depend = U[u].depend /\ V(u).num_dependees = U[u].num_dependees
                 /\ V(u).dependers = U[u].dependers /\ V(u).taskgroup = U[u].taskgroup
                 /\ V(u).parent_depends_on = U[u].parent_depends_on
                 /\ V(u).depend_hash = U[u].depend_hash
  <2>1. U[u] \in TaskRec /\ Null \in Family
    BY DEF Family
  <2>2. CASE u = c
    BY <1>2, <2>2
  <2>3. CASE u # c /\ u \in ChildrenQueue(U, c)
    <3>1. V(u) = [U[u] EXCEPT !.parent = Null] /\ U[u].parent = c
      BY <2>3 DEF ChildrenQueue
    <3>2. V(u) \in TaskRec
      BY <2>1, <3>1 DEF TaskRec
    <3> QED
      BY <2>1, <2>3, <3>1, <3>2 DEF TaskRec
  <2>4. CASE u # c /\ u \notin ChildrenQueue(U, c)
    BY <2>1, <2>4
  <2> QED
    BY <2>2, <2>3, <2>4
<1> HIDE DEF V
<1>4. S \in [AnyTask -> TaskRec] /\ \A u \in AnyTask : S[u] = V(u)
  BY <1>1, <1>3
<1> QED
  BY <1>2, <1>3, <1>4

(* The record of c is c's no more, after the last run_post function.       *)
LEMMA FinishRemoved ==
  ASSUME NEW tk, Graph(tk), NEW c, Ending(tk, c), NEW S,
         S = gomp_clear_parent(run_post_handle_dependers(run_post_handle_depend_hash(tk, c), c), c)
  PROVE  Removed(tk, S, c)
<1> DEFINE T == run_post_handle_depend_hash(tk, c)
           U == run_post_handle_dependers(T, c)
           D == Range(tk[c].dependers)
<1>1. c \in Task /\ c \in AnyTask /\ tk[c].kind \in {"running", "nested"} /\ tk \in [AnyTask -> TaskRec]
      /\ \A u \in Task : u \in AnyTask
  BY DEF Ending, AnyTask, Graph
<1>2. /\ T \in [AnyTask -> TaskRec]
      /\ \A u \in AnyTask :
           /\ T[u].kind = tk[u].kind /\ T[u].parent = tk[u].parent /\ T[u].origin = tk[u].origin
           /\ T[u].depend = tk[u].depend /\ T[u].num_dependees = tk[u].num_dependees
           /\ T[u].dependers = tk[u].dependers /\ T[u].taskgroup = tk[u].taskgroup
           /\ T[u].parent_depends_on = tk[u].parent_depends_on
           /\ \A a \in Addr : T[u].depend_hash[a] = IF u = tk[c].parent
                                                      THEN Unlink(tk[u].depend_hash[a], c)
                                                      ELSE tk[u].depend_hash[a]
  BY HashIs
<1> HIDE DEF T
<1>3. T[c].dependers = tk[c].dependers
  BY <1>1, <1>2
<1>4. D \subseteq Task
  <2>1. tk[c].dependers \in Seq(Task)
    BY <1>1 DEF TaskRec
  <2> QED
    BY <2>1 DEF Range
<1>5. ASSUME NEW u \in D
      PROVE  u # c /\ T[u].num_dependees > 0
  <2>1. u \in Task /\ tk[u].kind = "depends"
    BY <1>1, <1>4 DEF Graph, Edges
  <2>2. tk[u].num_dependees > 0
    BY <2>1 DEF Graph, Edges
  <2> QED
    BY <1>1, <1>2, <2>1, <2>2
<1>6. c \notin Range(T[c].dependers) /\ \A u \in AnyTask : u \in Range(T[c].dependers) => T[u].num_dependees > 0
  BY <1>3, <1>5
<1>7. /\ U \in [AnyTask -> TaskRec]
      /\ \A u \in AnyTask \ {c} :
           /\ U[u].parent = T[u].parent /\ U[u].origin = T[u].origin /\ U[u].depend = T[u].depend
           /\ U[u].dependers = T[u].dependers /\ U[u].taskgroup = T[u].taskgroup
           /\ U[u].parent_depends_on = T[u].parent_depends_on
           /\ U[u].depend_hash = T[u].depend_hash
           /\ u \in Range(T[c].dependers) => U[u].num_dependees = T[u].num_dependees - 1
           /\ u \notin Range(T[c].dependers) => U[u].num_dependees = T[u].num_dependees
           /\ U[u].kind = IF u \in Range(T[c].dependers) /\ T[u].num_dependees = 1
                            THEN "waiting" ELSE T[u].kind
  BY <1>1, <1>2, <1>6, DependersIs
<1>8. S = gomp_clear_parent(U, c)
  BY DEF T
<1> HIDE DEF U, D
<1>9. /\ S \in [AnyTask -> TaskRec] /\ S[c].kind = "done" /\ Blank(S[c])
      /\ \A u \in AnyTask \ {c} :
           /\ S[u].kind = U[u].kind
           /\ S[u].parent = U[u].parent \/ (U[u].parent = c /\ S[u].parent = Null)
           /\ S[u].origin = U[u].origin
           /\ S[u].depend = U[u].depend /\ S[u].num_dependees = U[u].num_dependees
           /\ S[u].dependers = U[u].dependers /\ S[u].taskgroup = U[u].taskgroup
           /\ S[u].parent_depends_on = U[u].parent_depends_on
           /\ S[u].depend_hash = U[u].depend_hash
  BY <1>1, <1>7, <1>8, ClearIs
<1>10. Range(T[c].dependers) = D
  BY <1>3 DEF D
<1>11. ASSUME NEW u \in AnyTask \ {c}
       PROVE  /\ S[u].origin = tk[u].origin /\ S[u].depend = tk[u].depend
              /\ S[u].taskgroup = tk[u].taskgroup /\ S[u].dependers = tk[u].dependers
              /\ S[u].parent_depends_on <=> tk[u].parent_depends_on
              /\ S[u].parent = tk[u].parent \/ (tk[u].parent = c /\ S[u].parent = Null)
              /\ u \in D => S[u].num_dependees = tk[u].num_dependees - 1
              /\ u \notin D => S[u].num_dependees = tk[u].num_dependees
              /\ S[u].kind = IF u \in D /\ tk[u].num_dependees = 1 THEN "waiting" ELSE tk[u].kind
              /\ \A a \in Addr : S[u].depend_hash[a] = IF u = tk[c].parent
                                                         THEN Unlink(tk[u].depend_hash[a], c)
                                                         ELSE tk[u].depend_hash[a]
  BY <1>2, <1>7, <1>9, <1>10
<1> QED
  BY <1>9, <1>11 DEF Removed, D

(* An undeferred task has neither entries nor dependers.                   *)
LEMMA NestedRemoved ==
  ASSUME NEW tk, Graph(tk), NEW c, Ending(tk, c), tk[c].kind = "nested", NEW S,
         S = gomp_clear_parent(tk, c)
  PROVE  Removed(tk, S, c)
<1>1. c \in Task /\ c \in AnyTask /\ tk \in [AnyTask -> TaskRec] /\ \A u \in Task : u \in AnyTask
  BY DEF Ending, AnyTask, Graph
<1>2. Range(tk[c].dependers) = {}
  <2>1. tk[c].dependers \in Seq(Task)
    BY <1>1 DEF TaskRec
  <2>2. Range(tk[c].dependers) \subseteq Task
    BY <2>1 DEF Range
  <2>3. ~DeferredIn(tk, c)
    BY DEF DeferredIn
  <2> QED
    BY <1>1, <2>2, <2>3 DEF Graph, Edges
<1>3. ASSUME NEW u \in AnyTask, NEW a \in Addr
      PROVE  Unlink(tk[u].depend_hash[a], c) = tk[u].depend_hash[a]
  <2> DEFINE ch == tk[u].depend_hash[a]
  <2>1. Content(tk, u, a, ch)
    BY DEF Graph, Chains
  <2> HIDE DEF ch
  <2>2. {i \in DOMAIN ch : ch[i].task = c} = {}
    BY <2>1 DEF Content, DeferredIn
  <2>3. Unlink(ch, c) = ch
    BY <2>2 DEF Unlink
  <2> QED
    BY <2>3 DEF ch
<1>4. /\ S \in [AnyTask -> TaskRec] /\ S[c].kind = "done" /\ Blank(S[c])
      /\ \A u \in AnyTask \ {c} :
           /\ S[u].kind = tk[u].kind
           /\ S[u].parent = tk[u].parent \/ (tk[u].parent = c /\ S[u].parent = Null)
           /\ S[u].origin = tk[u].origin
           /\ S[u].depend = tk[u].depend /\ S[u].num_dependees = tk[u].num_dependees
           /\ S[u].dependers = tk[u].dependers /\ S[u].taskgroup = tk[u].taskgroup
           /\ S[u].parent_depends_on = tk[u].parent_depends_on
           /\ S[u].depend_hash = tk[u].depend_hash
  BY <1>1, ClearIs
<1> QED
  BY <1>2, <1>3, <1>4 DEF Removed

(* The children that the parents depend on, less c.                        *)
LEMMA MarkedRemoved ==
  ASSUME NEW tk, NEW S, NEW c, Graph(tk), Ending(tk, c), Removed(tk, S, c), Marked(tk, c) = {}
  PROVE  \A q \in AnyTask : Marked(S, q) = Marked(tk, q) \ {c}
<1> SUFFICES ASSUME NEW q \in AnyTask
             PROVE  Marked(S, q) = Marked(tk, q) \ {c}
  OBVIOUS
<1>1. c \in Task /\ Null \notin AnyTask /\ \A u \in Task : u \in AnyTask
  BY ConstantsOK DEF Ending, AnyTask, Null
<1>2. ~S[c].parent_depends_on
  BY DEF Removed, Blank
<1>3. \A u \in Task \ {c} :
        /\ S[u].parent_depends_on <=> tk[u].parent_depends_on
        /\ S[u].parent = tk[u].parent \/ (tk[u].parent = c /\ S[u].parent = Null)
  BY <1>1 DEF Removed
<1>4. \A u \in Task \ {c} : ~(tk[u].parent = c /\ tk[u].parent_depends_on)
  BY DEF Marked
<1>5. ASSUME NEW u \in Task
      PROVE  S[u].parent = q /\ S[u].parent_depends_on
               <=> tk[u].parent = q /\ tk[u].parent_depends_on /\ u # c
  <2>1. CASE u = c
    BY <1>2, <2>1
  <2>2. CASE u # c
    BY <1>1, <1>3, <1>4, <2>2
  <2> QED
    BY <2>1, <2>2
<1> QED
  BY <1>5 DEF Marked

(* A construct that waits in GOMP_taskwait does not count.  Elsewhere the  *)
(* parent counts what it marked.                                           *)
Woken(tk, w, c, at) ==
  LET p == tk[c].parent
  IN  IF p = Null THEN w ELSE [w EXCEPT ![p] = WakeParent(tk, w[p], c, at)]

(* The waiting parent's n_depend stays exact when a child c ends,          *)
(* whichever construct ran it: GOMP_taskwait does not count, and never     *)
(* runs a marked child.                                                    *)
LEMMA FinishCounts ==
  ASSUME NEW tk, NEW S, NEW c, NEW w \in [AnyTask -> WaitRec], NEW x, NEW at,
         Graph(tk), Ending(tk, c), Removed(tk, S, c), Counts(tk, w), w[c].n_depend = 0,
         at = "taskwait" => ~tk[c].parent_depends_on, x = Woken(tk, w, c, at)
  PROVE  /\ x \in [AnyTask -> WaitRec] /\ Counts(S, x)
         /\ \A q \in AnyTask : w[q].n_depend = 0 => x[q].n_depend = 0
<1> DEFINE p == tk[c].parent
<1>1. c \in Task /\ c \in AnyTask /\ Null \notin AnyTask /\ AliveIn(tk, c) /\ tk \in [AnyTask -> TaskRec]
  BY ConstantsOK DEF Ending, AnyTask, Null, AliveIn, Graph
<1>2. p = Null \/ p \in AnyTask
  BY <1>1 DEF Graph, Families
<1>3. tk[c].parent_depends_on \in BOOLEAN
  BY <1>1 DEF TaskRec
<1>4. \A q \in AnyTask : /\ IsFiniteSet(Marked(tk, q)) /\ Cardinality(Marked(tk, q)) \in Nat
                         /\ w[q].n_depend = Cardinality(Marked(tk, q))
  <2>1. \A q \in AnyTask : Marked(tk, q) \in SUBSET Task
    BY DEF Marked
  <2>2. \A q \in AnyTask : IsFiniteSet(Marked(tk, q))
    BY <2>1, ConstantsOK, FS_Subset
  <2> QED
    BY <2>2, FS_CardinalityType DEF Counts
<1>5. Marked(tk, c) = {}
  BY <1>1, <1>4, FS_EmptySet
<1>6. \A q \in AnyTask : Marked(S, q) = Marked(tk, q) \ {c}
  BY <1>5, MarkedRemoved
<1>7. \A q \in AnyTask : c \in Marked(tk, q) <=> q = p /\ tk[c].parent_depends_on
  BY <1>1 DEF Marked
<1>8. \A q \in AnyTask :
        /\ c \in Marked(tk, q) =>
             Cardinality(Marked(S, q)) = w[q].n_depend - 1 /\ w[q].n_depend # 0
        /\ c \notin Marked(tk, q) => Cardinality(Marked(S, q)) = w[q].n_depend
  <2> SUFFICES ASSUME NEW q \in AnyTask
               PROVE  /\ c \in Marked(tk, q) =>
                           Cardinality(Marked(S, q)) = w[q].n_depend - 1 /\ w[q].n_depend # 0
                      /\ c \notin Marked(tk, q) => Cardinality(Marked(S, q)) = w[q].n_depend
    OBVIOUS
  <2>1. CASE c \in Marked(tk, q)
    <3>1. Cardinality(Marked(S, q)) = w[q].n_depend - 1
      BY <1>4, <1>6, <2>1, FS_RemoveElement
    <3>2. w[q].n_depend # 0
      BY <1>4, <2>1, FS_EmptySet
    <3> QED
      BY <2>1, <3>1, <3>2
  <2>2. CASE c \notin Marked(tk, q)
    <3>1. Marked(S, q) = Marked(tk, q)
      BY <1>6, <2>2
    <3> QED
      BY <1>4, <2>2, <3>1
  <2> QED
    BY <2>1, <2>2
<1>9. CASE p = Null
  <2>1. x = w
    BY <1>9 DEF Woken
  <2>2. \A q \in AnyTask : c \notin Marked(tk, q)
    BY <1>1, <1>7, <1>9
  <2> QED
    BY <1>8, <2>1, <2>2 DEF Counts
<1>10. CASE p \in AnyTask
  <2> DEFINE V == WakeParent(tk, w[p], c, at)
  <2>1. x = [w EXCEPT ![p] = V]
    BY <1>1, <1>10 DEF Woken
  <2>2. /\ V \in WaitRec
        /\ V.n_depend = IF tk[c].parent_depends_on THEN w[p].n_depend - 1 ELSE w[p].n_depend
    <3>1. w[p] \in WaitRec
      BY <1>10
    <3>2. ASSUME NEW y \in WaitRec
          PROVE  Post(y) \in WaitRec /\ Post(y).n_depend = y.n_depend
      <4> DEFINE s == y.sem + 1
      <4>1. s \in Int
        BY DEF WaitRec
      <4>2. Post(y) = [y EXCEPT !.in_taskwait = FALSE, !.in_depend_wait = FALSE, !.sem = s]
        BY DEF Post, WaitRec
      <4> HIDE DEF s
      <4> QED
        BY <4>1, <4>2 DEF WaitRec
    <3>3. \A y \in WaitRec :
            /\ CountDepend(tk, y, c, at) \in WaitRec
            /\ CountDepend(tk, y, c, at).n_depend = IF tk[c].parent_depends_on THEN y.n_depend - 1
                                                    ELSE y.n_depend
      BY <1>3 DEF CountDepend, WaitRec
    <3> DEFINE w1 == IF /\ Released(tk, c) # {} /\ w[p].on
                        /\ w[p].in_taskwait \/ w[p].in_depend_wait
                       THEN Post(w[p]) ELSE w[p]
               w2 == CountDepend(tk, w1, c, at)
               w3 == IF /\ tk[c].parent_depends_on /\ at \notin {"taskwait", "depend"}
                        /\ w2.n_depend = 0 /\ w2.in_depend_wait
                       THEN Post(w2) ELSE w2
    <3>4. V \in {w3, Post(w3)}
      BY DEF WakeParent
    <3>5. w1 \in WaitRec /\ w1.n_depend = w[p].n_depend
      BY <3>1, <3>2
    <3> HIDE DEF w1, V
    <3>6. /\ w2 \in WaitRec
          /\ w2.n_depend = IF tk[c].parent_depends_on THEN w[p].n_depend - 1 ELSE w[p].n_depend
      BY <3>3, <3>5
    <3> HIDE DEF w2
    <3>7. w3 \in WaitRec /\ w3.n_depend = w2.n_depend
      BY <3>2, <3>6
    <3> HIDE DEF w3
    <3> QED
      BY <3>2, <3>4, <3>6, <3>7
  <2> HIDE DEF V, p
  <2>3. x \in [AnyTask -> WaitRec] /\ x[p] = V /\ \A q \in AnyTask \ {p} : x[q] = w[q]
    BY <1>10, <2>1, <2>2
  <2>4. ASSUME NEW q \in AnyTask
        PROVE  /\ x[q].n_depend = Cardinality(Marked(S, q))
               /\ w[q].n_depend = 0 => x[q].n_depend = 0
    <3>1. CASE q = p
      BY <1>3, <1>7, <1>8, <2>2, <2>3, <3>1
    <3>2. CASE q # p
      BY <1>7, <1>8, <2>3, <3>2
    <3> QED
      BY <3>1, <3>2
  <2> QED
    BY <2>3, <2>4 DEF Counts
<1> QED
  BY <1>2, <1>9, <1>10

(* Thread th moves to another place.                                       *)
Moved(st, s, th, place) ==
  /\ s \in [Thread -> Seq(Frame)]
  /\ \A h \in Thread :
       /\ DOMAIN s[h] = DOMAIN st[h] /\ Len(s[h]) = Len(st[h])
       /\ \A i \in DOMAIN st[h] :
            /\ s[h][i].task = st[h][i].task
            /\ s[h][i].at = IF h = th /\ i = Len(st[h]) THEN place ELSE st[h][i].at

(* It starts task c.                                                       *)
Pushed(st, s, th, c) ==
  /\ s \in [Thread -> Seq(Frame)]
  /\ \A h \in Thread :
       /\ \A i \in DOMAIN st[h] : i \in DOMAIN s[h] /\ s[h][i] = st[h][i]
       /\ h # th => Len(s[h]) = Len(st[h]) /\ DOMAIN s[h] = DOMAIN st[h]
  /\ Len(s[th]) = Len(st[th]) + 1 /\ DOMAIN s[th] = DOMAIN st[th] \cup {Len(s[th])}
  /\ s[th][Len(s[th])].task = c /\ s[th][Len(s[th])].at = "user"

(* It returns from its task to the task's caller, which is at place then.  *)
Popped(st, s, th, place) ==
  /\ s \in [Thread -> Seq(Frame)] /\ Len(st[th]) > 1
  /\ \A h \in Thread :
       /\ h # th => s[h] = st[h]
       /\ \A i \in DOMAIN s[h] :
            /\ i \in DOMAIN st[h] /\ s[h][i].task = st[h][i].task
            /\ s[h][i].at = IF h = th /\ i = Len(st[h]) - 1 THEN place ELSE st[h][i].at
  /\ Len(s[th]) = Len(st[th]) - 1 /\ DOMAIN s[th] = DOMAIN st[th] \ {Len(st[th])}

(* The innermost frame of a thread.                                        *)
LEMMA TopIs ==
  ASSUME Frames(stack), NEW th \in Thread
  PROVE  /\ stack[th] \in Seq(Frame) /\ Len(stack[th]) \in Nat /\ Len(stack[th]) >= 1
         /\ DOMAIN stack[th] = 1..Len(stack[th]) /\ Len(stack[th]) \in DOMAIN stack[th]
         /\ Top(th) = stack[th][Len(stack[th])] /\ Top(th) \in Frame
         /\ Cur(th) = stack[th][Len(stack[th])].task /\ Cur(th) \in AnyTask
         /\ Top(th).at = stack[th][Len(stack[th])].at /\ Top(th).at \in Places
         /\ \A i \in DOMAIN stack[th] : stack[th][i] \in Frame /\ stack[th][i].task \in AnyTask
<1>1. stack[th] \in Seq(Frame) /\ Len(stack[th]) \in Nat /\ Len(stack[th]) >= 1
  BY DEF Frames
<1>2. DOMAIN stack[th] = 1..Len(stack[th]) /\ Len(stack[th]) \in DOMAIN stack[th]
  BY <1>1
<1>3. \A i \in DOMAIN stack[th] : stack[th][i] \in Frame /\ stack[th][i].task \in AnyTask
  <2>1. \A i \in DOMAIN stack[th] : stack[th][i] \in Frame
    BY <1>1
  <2> QED
    BY <2>1 DEF Frame
<1>4. Top(th) = stack[th][Len(stack[th])] /\ Top(th) \in Frame
  BY <1>2, <1>3 DEF Top, Last
<1> QED
  BY <1>1, <1>2, <1>3, <1>4 DEF Cur, Frame

(* Goto moves a thread inside the task it runs.                            *)
LEMMA GotoMoved ==
  ASSUME Frames(stack), NEW th \in Thread, NEW place \in Places, Goto(th, place)
  PROVE  Moved(stack, stack', th, place)
<1>1. stack \in [Thread -> Seq(Frame)]
  BY DEF Frames
<1> DEFINE n == Len(stack[th])
           f == [stack[th][n] EXCEPT !.at = place]
           r == [stack[th] EXCEPT ![n] = f]
<1>2. /\ stack[th] \in Seq(Frame) /\ n \in Nat /\ n >= 1 /\ DOMAIN stack[th] = 1..n
      /\ n \in DOMAIN stack[th] /\ stack[th][n] \in Frame
  BY TopIs
<1>3. f \in Frame /\ f.task = stack[th][n].task /\ f.at = place
  BY <1>2 DEF Frame
<1>4. stack' = [stack EXCEPT ![th] = r]
  BY <1>1, <1>2 DEF Goto
<1> HIDE DEF f, n
<1>5. r \in Seq(Frame) /\ Len(r) = n /\ DOMAIN r = 1..n /\ r[n] = f
      /\ \A i \in 1..n : i # n => r[i] = stack[th][i]
  BY <1>2, <1>3 DEF n
<1> HIDE DEF r
<1>6. stack' \in [Thread -> Seq(Frame)] /\ stack'[th] = r /\ \A h \in Thread \ {th} : stack'[h] = stack[h]
  BY <1>1, <1>4, <1>5
<1>7. ASSUME NEW h \in Thread
      PROVE  /\ DOMAIN stack'[h] = DOMAIN stack[h] /\ Len(stack'[h]) = Len(stack[h])
             /\ \A i \in DOMAIN stack[h] :
                  /\ stack'[h][i].task = stack[h][i].task
                  /\ stack'[h][i].at = IF h = th /\ i = Len(stack[h]) THEN place ELSE stack[h][i].at
  <2>1. CASE h = th
    BY <1>2, <1>3, <1>5, <1>6, <2>1 DEF n
  <2>2. CASE h # th
    BY <1>6, <2>2
  <2> QED
    BY <2>1, <2>2
<1> QED
  BY <1>6, <1>7 DEF Moved

(* A thread that leaves the stacks alone is where it was.                  *)
LEMMA StayMoved ==
  ASSUME Frames(stack), NEW th \in Thread, stack' = stack
  PROVE  Moved(stack, stack', th, Top(th).at)
<1>1. Top(th).at = stack[th][Len(stack[th])].at
  BY TopIs
<1>2. \A h \in Thread : stack'[h] = stack[h]
  OBVIOUS
<1>3. stack' \in [Thread -> Seq(Frame)]
  BY DEF Frames
<1> QED
  BY <1>1, <1>2, <1>3 DEF Moved

(* The form of the stacks is kept by a move,                               *)
LEMMA MovedFrames ==
  ASSUME NEW st, NEW s, NEW th \in Thread, NEW place, Frames(st), Moved(st, s, th, place)
  PROVE  Frames(s)
<1>1. /\ s \in [Thread -> Seq(Frame)]
      /\ \A h \in Thread : \A i \in DOMAIN s[h] : i \in DOMAIN st[h] /\ s[h][i].task = st[h][i].task
  BY DEF Moved
<1>2. \A h \in Thread : 1 \in DOMAIN st[h] /\ Len(st[h]) >= 1
  BY DEF Frames
<1>3. \A h \in Thread : 1 \in DOMAIN s[h] /\ Len(s[h]) >= 1
  BY <1>2 DEF Moved
<1>4. \A h \in Thread : /\ Len(s[h]) >= 1 /\ s[h][1].task = h
                        /\ \A i \in DOMAIN s[h] : i # 1 => s[h][i].task \in Task
  <2>1. \A h \in Thread : /\ st[h][1].task = h
                          /\ \A i \in DOMAIN st[h] : i # 1 => st[h][i].task \in Task
    BY DEF Frames
  <2> QED
    BY <1>1, <1>2, <1>3, <2>1
<1>5. ASSUME NEW g \in Thread, NEW h \in Thread, NEW i \in DOMAIN s[g], NEW j \in DOMAIN s[h],
             s[g][i].task = s[h][j].task
      PROVE  g = h /\ i = j
  <2>1. i \in DOMAIN st[g] /\ j \in DOMAIN st[h] /\ st[g][i].task = st[h][j].task
    BY <1>1, <1>5
  <2> QED
    BY <2>1 DEF Frames
<1> QED
  BY <1>1, <1>4, <1>5 DEF Frames

(* A task that starts is pushed on the stack of its thread.                *)
LEMMA PushIs ==
  ASSUME Frames(stack), NEW th \in Thread, NEW c \in AnyTask,
         stack' = [stack EXCEPT ![th] = Append(@, [task |-> c, at |-> "user"])]
  PROVE  Pushed(stack, stack', th, c)
<1> DEFINE f == [task |-> c, at |-> "user"]
           r == Append(stack[th], f)
<1>1. stack \in [Thread -> Seq(Frame)] /\ f \in Frame
  BY DEF Frames, Frame, Places
<1>2. stack[th] \in Seq(Frame) /\ Len(stack[th]) \in Nat /\ DOMAIN stack[th] = 1..Len(stack[th])
  BY TopIs
<1>3. stack' = [stack EXCEPT ![th] = r] /\ f.task = c /\ f.at = "user"
  BY <1>1
<1> HIDE DEF f
<1>4. /\ r \in Seq(Frame) /\ Len(r) = Len(stack[th]) + 1 /\ DOMAIN r = 1..(Len(stack[th]) + 1)
      /\ r[Len(r)] = f /\ \A i \in 1..Len(stack[th]) : r[i] = stack[th][i]
  BY <1>1, <1>2
<1> HIDE DEF r
<1>5. /\ stack' \in [Thread -> Seq(Frame)] /\ stack'[th] = r
      /\ \A h \in Thread \ {th} : stack'[h] = stack[h]
  BY <1>1, <1>3, <1>4
<1>6. DOMAIN r = DOMAIN stack[th] \cup {Len(r)}
  BY <1>2, <1>4
<1> QED
  BY <1>2, <1>3, <1>4, <1>5, <1>6 DEF Pushed

(* and the form is kept if the task was on no stack.                       *)
LEMMA PushedFrames ==
  ASSUME NEW st, NEW s, NEW th \in Thread, NEW c \in Task, Frames(st), Pushed(st, s, th, c),
         \A h \in Thread : \A i \in DOMAIN st[h] : st[h][i].task # c
  PROVE  Frames(s)
<1>1. /\ s \in [Thread -> Seq(Frame)]
      /\ \A h \in Thread :
           /\ \A i \in DOMAIN st[h] : i \in DOMAIN s[h] /\ s[h][i] = st[h][i]
           /\ h # th => Len(s[h]) = Len(st[h]) /\ DOMAIN s[h] = DOMAIN st[h]
      /\ Len(s[th]) = Len(st[th]) + 1 /\ DOMAIN s[th] = DOMAIN st[th] \cup {Len(s[th])}
      /\ s[th][Len(s[th])].task = c
  BY DEF Pushed
<1>2. \A h \in Thread : 1 \in DOMAIN st[h] /\ Len(st[h]) >= 1 /\ Len(st[h]) \in Nat
  BY DEF Frames
<1>3. \A h \in Thread : /\ Len(s[h]) >= 1 /\ s[h][1].task = h
                        /\ \A i \in DOMAIN s[h] : i # 1 => s[h][i].task \in Task
  BY <1>1, <1>2 DEF Frames
<1>4. ASSUME NEW g \in Thread, NEW h \in Thread, NEW i \in DOMAIN s[g], NEW j \in DOMAIN s[h],
             s[g][i].task = s[h][j].task
      PROVE  g = h /\ i = j
  <2>1. CASE i \in DOMAIN st[g] /\ j \in DOMAIN st[h]
    BY <1>1, <1>4, <2>1 DEF Frames
  <2>2. CASE i \notin DOMAIN st[g] \/ j \notin DOMAIN st[h]
    BY <1>1, <1>4, <2>2
  <2> QED
    BY <2>1, <2>2
<1> QED
  BY <1>1, <1>3, <1>4 DEF Frames

(* The form is kept by the end of a task.                                  *)
LEMMA PoppedFrames ==
  ASSUME NEW st, NEW s, NEW th \in Thread, NEW place, Frames(st), Popped(st, s, th, place)
  PROVE  Frames(s)
<1>1. /\ s \in [Thread -> Seq(Frame)] /\ Len(st[th]) > 1
      /\ \A h \in Thread :
           /\ h # th => s[h] = st[h]
           /\ \A i \in DOMAIN s[h] : i \in DOMAIN st[h] /\ s[h][i].task = st[h][i].task
      /\ Len(s[th]) = Len(st[th]) - 1 /\ DOMAIN s[th] = DOMAIN st[th] \ {Len(st[th])}
  BY DEF Popped
<1>2. \A h \in Thread : 1 \in DOMAIN st[h] /\ Len(st[h]) >= 1 /\ Len(st[h]) \in Nat
  BY DEF Frames
<1>3. \A h \in Thread : 1 \in DOMAIN s[h] /\ Len(s[h]) >= 1
  BY <1>1, <1>2
<1>4. \A h \in Thread : /\ Len(s[h]) >= 1 /\ s[h][1].task = h
                        /\ \A i \in DOMAIN s[h] : i # 1 => s[h][i].task \in Task
  <2>1. \A h \in Thread : /\ st[h][1].task = h
                          /\ \A i \in DOMAIN st[h] : i # 1 => st[h][i].task \in Task
    BY DEF Frames
  <2> QED
    BY <1>1, <1>2, <1>3, <2>1
<1>5. ASSUME NEW g \in Thread, NEW h \in Thread, NEW i \in DOMAIN s[g], NEW j \in DOMAIN s[h],
             s[g][i].task = s[h][j].task
      PROVE  g = h /\ i = j
  <2>1. i \in DOMAIN st[g] /\ j \in DOMAIN st[h] /\ st[g][i].task = st[h][j].task
    BY <1>1, <1>5
  <2> QED
    BY <2>1 DEF Frames
<1> QED
  BY <1>1, <1>4, <1>5 DEF Frames

(* What a step may do to the tasks and their waits while task p goes to    *)
(* another place.                                                          *)
Kept(tk, S, w, x, p, place) ==
  /\ \A u \in AnyTask :
       /\ tk[u].kind \in Active => S[u].kind \in Active
       /\ \A q \in AnyTask : tk[u].kind \in Active /\ tk[q].kind \in Active /\ tk[u].parent = q
            => S[u].parent = q
       /\ tk[u].taskgroup # Null /\ tk[u].kind \in Active
            => S[u].taskgroup # Null \/ (u = p /\ place = "user")
       /\ w[u].n_depend = 0 =>
            \/ x[u].n_depend = 0
            \/ u = p /\ place \in Depending /\ \A v \in Task : tk[v].kind = "nested" => tk[v].origin # p
  /\ \A u \in Task : S[u].kind = "new" =>
       \/ tk[u].kind = "new" /\ S[u].origin = tk[u].origin
       \/ S[u].origin = p /\ place \in Depending
  /\ \A u \in Task : S[u].kind = "nested" => tk[u].kind = "nested" /\ S[u].origin = tk[u].origin
  /\ place \notin Depending => x[p].n_depend = 0
  /\ place \in Grouped => S[p].taskgroup # Null

(* Tasks and stacks still agree after a move, if the tasks on the stacks   *)
(* keep what the stacks rely on.                                           *)
LEMMA RunningMoved ==
  ASSUME NEW tk, NEW S, NEW w, NEW x, NEW th \in Thread, NEW place, Frames(stack),
         Running(stack, tk, w), \A u \in Task : S[u].kind = "nested" => tk[u].origin \in AnyTask,
         Moved(stack, stack', th, place), Kept(tk, S, w, x, Cur(th), place),
         Top(th).at \in Depending => place \in Depending
  PROVE  Running(stack', S, x)
<1> DEFINE p == Cur(th)
           n == Len(stack[th])
<1>1. /\ p = stack[th][n].task /\ p \in AnyTask /\ n \in DOMAIN stack[th] /\ Top(th).at = stack[th][n].at
      /\ \A h \in Thread : \A i \in DOMAIN stack[h] :
           stack[h][i].task \in AnyTask /\ (i # Len(stack[h]) => i + 1 \in DOMAIN stack[h])
      /\ \A h \in Thread : DOMAIN stack[h] = 1..Len(stack[h]) /\ Len(stack[h]) \in Nat
  BY TopIs
<1>2. \A h \in Thread :
        /\ DOMAIN stack'[h] = DOMAIN stack[h]
        /\ \A i \in DOMAIN stack[h] :
             /\ stack'[h][i].task = stack[h][i].task
             /\ stack'[h][i].at = IF h = th /\ i = Len(stack[h]) THEN place ELSE stack[h][i].at
  BY DEF Moved
<1>3. \A h \in Thread : \A i \in DOMAIN stack[h] : stack[h][i].task = p => h = th /\ i = n
  BY <1>1 DEF Frames
<1>4. \A u \in AnyTask :
       /\ tk[u].kind \in Active => S[u].kind \in Active
       /\ \A q \in AnyTask : tk[u].kind \in Active /\ tk[q].kind \in Active /\ tk[u].parent = q
            => S[u].parent = q
       /\ tk[u].taskgroup # Null /\ tk[u].kind \in Active
            => S[u].taskgroup # Null \/ (u = p /\ place = "user")
       /\ w[u].n_depend = 0 =>
            \/ x[u].n_depend = 0
            \/ u = p /\ place \in Depending /\ \A v \in Task : tk[v].kind = "nested" => tk[v].origin # p
  BY DEF Kept
<1>5. /\ \A u \in Task : S[u].kind = "new" =>
           \/ tk[u].kind = "new" /\ S[u].origin = tk[u].origin
           \/ S[u].origin = p /\ place \in Depending
      /\ \A u \in Task : S[u].kind = "nested" => tk[u].kind = "nested" /\ S[u].origin = tk[u].origin
      /\ place \notin Depending => x[p].n_depend = 0
      /\ place \in Grouped => S[p].taskgroup # Null
  BY DEF Kept
<1> HIDE DEF p, n
<1>6. ASSUME NEW h \in Thread, NEW i \in DOMAIN stack'[h]
      PROVE  FrameSound(S, x, stack'[h][i])
  <2>1. i \in DOMAIN stack[h] /\ stack[h][i].task \in AnyTask /\ stack'[h][i].task = stack[h][i].task
    BY <1>1, <1>2
  <2>2. FrameSound(tk, w, stack[h][i])
    BY <2>1 DEF Running
  <2>3. CASE h = th /\ i = n
    <3>1. stack'[h][i].task = p /\ stack'[h][i].at = place
      BY <1>1, <1>2, <2>1, <2>3 DEF n
    <3>2. S[p].kind \in Active
      BY <1>4, <2>1, <2>2, <3>1 DEF FrameSound
    <3> QED
      BY <1>5, <3>1, <3>2 DEF FrameSound
  <2>4. CASE ~(h = th /\ i = n)
    <3>1. stack'[h][i].at = stack[h][i].at
      BY <1>2, <2>1, <2>4 DEF n
    <3>2. stack[h][i].task # p
      BY <1>3, <2>1, <2>4
    <3> QED
      BY <1>4, <2>1, <2>2, <3>1, <3>2 DEF FrameSound
  <2> QED
    BY <2>3, <2>4
<1>7. ASSUME NEW h \in Thread, NEW i \in DOMAIN stack'[h], NEW j \in DOMAIN stack'[h],
             j = i + 1, stack'[h][i].at = "taskwait"
      PROVE  S[stack'[h][j].task].parent = stack'[h][i].task
  <2>1. i \in DOMAIN stack[h] /\ j \in DOMAIN stack[h] /\ i # Len(stack[h])
    BY <1>1, <1>2, <1>7
  <2>2. stack'[h][i].task = stack[h][i].task /\ stack'[h][j].task = stack[h][j].task
        /\ stack[h][i].at = "taskwait"
    BY <1>2, <1>7, <2>1
  <2>3. /\ tk[stack[h][j].task].parent = stack[h][i].task /\ tk[stack[h][i].task].kind \in Active
        /\ tk[stack[h][j].task].kind \in Active
    BY <1>7, <2>1, <2>2 DEF Running, FrameSound
  <2>4. stack[h][j].task \in AnyTask /\ stack[h][i].task \in AnyTask
    BY <1>1, <2>1
  <2>5. S[stack[h][j].task].parent = stack[h][i].task
    BY <1>4, <2>3, <2>4
  <2> QED
    BY <2>2, <2>5
<1>8. \A q \in AnyTask : Has(stack, q) => Has(stack', q)
  BY <1>2 DEF Has
<1>9. Has(stack, p)
  BY <1>1 DEF Has
<1>10. \A q \in AnyTask : x[q].n_depend # 0 => Has(stack', q)
  BY <1>1, <1>4, <1>8, <1>9 DEF Running
<1>11. place \in Depending => Depends(stack', p)
  BY <1>1, <1>2 DEF Depends, n
<1>12. ASSUME NEW q, Depends(stack, q)
       PROVE  Depends(stack', q)
  <2>0. PICK h \in Thread : \E i \in DOMAIN stack[h] :
                              stack[h][i].task = q /\ stack[h][i].at \in Depending
    BY <1>12 DEF Depends
  <2>1. PICK i \in DOMAIN stack[h] : stack[h][i].task = q /\ stack[h][i].at \in Depending
    BY <2>0
  <2>2. stack'[h][i].task = q /\ stack'[h][i].at \in Depending
    <3>1. CASE h = th /\ i = n
      BY <1>1, <1>2, <2>1, <3>1 DEF n
    <3>2. CASE ~(h = th /\ i = n)
      BY <1>2, <2>1, <3>2 DEF n
    <3> QED
      BY <3>1, <3>2
  <2>3. i \in DOMAIN stack'[h]
    BY <1>2, <2>1
  <2> QED
    BY <2>2, <2>3 DEF Depends
<1>13. \A t \in Task : S[t].kind = "new" => Depends(stack', S[t].origin)
  BY <1>5, <1>11, <1>12 DEF Running
<1>14. ASSUME NEW q, NEW t, Calls(stack, q, t)
       PROVE  Calls(stack', q, t)
  <2>1. PICK h \in Thread : \E i, j \in DOMAIN stack[h] :
            /\ j = i + 1 /\ stack[h][j].task = t
            /\ stack[h][i].task = q /\ stack[h][i].at = "depend"
    BY <1>14 DEF Calls
  <2>2. PICK i \in DOMAIN stack[h], j \in DOMAIN stack[h] :
            /\ j = i + 1 /\ stack[h][j].task = t
            /\ stack[h][i].task = q /\ stack[h][i].at = "depend"
    BY <2>1
  <2>3. i # Len(stack[h])
    BY <1>1, <2>2
  <2>4. /\ i \in DOMAIN stack'[h] /\ j \in DOMAIN stack'[h]
        /\ stack'[h][j].task = t /\ stack'[h][i].task = q /\ stack'[h][i].at = "depend"
    BY <1>2, <2>2, <2>3
  <2> QED
    BY <2>2, <2>4 DEF Calls
<1>15. ASSUME NEW t \in Task, S[t].kind = "nested"
       PROVE  x[S[t].origin].n_depend = 0 /\ Calls(stack', S[t].origin, t)
  <2>1. tk[t].kind = "nested" /\ S[t].origin = tk[t].origin /\ tk[t].origin \in AnyTask
    BY <1>5, <1>15
  <2>2. w[tk[t].origin].n_depend = 0 /\ Calls(stack, tk[t].origin, t)
    BY <2>1 DEF Running
  <2>3. x[tk[t].origin].n_depend = 0
    BY <1>4, <2>1, <2>2
  <2> QED
    BY <1>14, <2>1, <2>2, <2>3
<1> QED
  BY <1>6, <1>7, <1>10, <1>13, <1>15 DEF Running

(* Thread th starts c, which nobody runs.                                  *)
LEMMA RunningPushed ==
  ASSUME NEW tk, NEW S, NEW w, NEW x, NEW th \in Thread, NEW c \in Task, Frames(stack),
         Running(stack, tk, w), Pushed(stack, stack', th, c),
         \A u \in AnyTask \ {c} : /\ S[u].kind = tk[u].kind /\ S[u].origin = tk[u].origin
                                  /\ S[u].parent = tk[u].parent /\ S[u].taskgroup = tk[u].taskgroup,
         \A u \in AnyTask : w[u].n_depend = x[u].n_depend,
         tk[c].kind \notin Active, S[c].kind \in Active,
         \A u \in Task : tk[u].kind \in Active => tk[u].origin \in AnyTask,
         Top(th).at = "taskwait" => S[c].parent = Cur(th),
         S[c].kind = "nested" => /\ S[c].origin = Cur(th) /\ Top(th).at = "depend"
                                 /\ x[Cur(th)].n_depend = 0
  PROVE  Running(stack', S, x)
<1> DEFINE p == Cur(th)
           n == Len(stack[th])
<1>1. /\ p = stack[th][n].task /\ p \in AnyTask /\ n \in DOMAIN stack[th] /\ Top(th).at = stack[th][n].at
      /\ \A h \in Thread : \A i \in DOMAIN stack[h] : stack[h][i].task \in AnyTask
      /\ \A h \in Thread : DOMAIN stack[h] = 1..Len(stack[h]) /\ Len(stack[h]) \in Nat
  BY TopIs
<1>2. /\ \A h \in Thread : \A i \in DOMAIN stack[h] : i \in DOMAIN stack'[h] /\ stack'[h][i] = stack[h][i]
      /\ \A h \in Thread : h # th => DOMAIN stack'[h] = DOMAIN stack[h]
      /\ DOMAIN stack'[th] = DOMAIN stack[th] \cup {n + 1}
      /\ stack'[th][n + 1].task = c /\ stack'[th][n + 1].at = "user" /\ n + 1 \in DOMAIN stack'[th]
  BY DEF Pushed
<1>3. c \in AnyTask /\ c \notin Thread
  BY ConstantsOK DEF AnyTask
<1>4. \A h \in Thread : \A i \in DOMAIN stack[h] :
        FrameSound(tk, w, stack[h][i]) /\ stack[h][i].task # c
  BY DEF Running, FrameSound
<1>5. w[c].n_depend = 0
  <2>1. ~Has(stack, c)
    BY <1>4 DEF Has
  <2> QED
    BY <1>3, <2>1 DEF Running
<1> HIDE DEF p, n
<1>6. ASSUME NEW h \in Thread, NEW i \in DOMAIN stack'[h]
      PROVE  FrameSound(S, x, stack'[h][i])
  <2>1. CASE i \in DOMAIN stack[h]
    <3>1. stack'[h][i] = stack[h][i] /\ stack[h][i].task \in AnyTask \ {c} /\ FrameSound(tk, w, stack[h][i])
      BY <1>1, <1>2, <1>4, <2>1
    <3> QED
      BY <3>1 DEF FrameSound
  <2>2. CASE i \notin DOMAIN stack[h]
    <3>1. h = th /\ i = n + 1
      BY <1>2, <2>2
    <3>2. x[c].n_depend = 0
      BY <1>3, <1>5
    <3> QED
      BY <1>2, <3>1, <3>2 DEF FrameSound, Grouped
  <2> QED
    BY <2>1, <2>2
<1>7. ASSUME NEW h \in Thread, NEW i \in DOMAIN stack'[h], NEW j \in DOMAIN stack'[h],
             j = i + 1, stack'[h][i].at = "taskwait"
      PROVE  S[stack'[h][j].task].parent = stack'[h][i].task
  <2>1. CASE j \in DOMAIN stack[h]
    <3>1. i \in DOMAIN stack[h]
      BY <1>1, <1>2, <1>7, <2>1
    <3>2. stack'[h][i] = stack[h][i] /\ stack'[h][j] = stack[h][j]
      BY <1>2, <2>1, <3>1
    <3>3. tk[stack[h][j].task].parent = stack[h][i].task
      BY <1>7, <2>1, <3>1, <3>2 DEF Running
    <3>4. stack[h][j].task \in AnyTask \ {c}
      BY <1>1, <1>4, <2>1
    <3> QED
      BY <3>2, <3>3, <3>4
  <2>2. CASE j \notin DOMAIN stack[h]
    <3>1. h = th /\ j = n + 1 /\ n \in Nat /\ i \in Int
      BY <1>1, <1>2, <2>2 DEF n
    <3>2. i = n
      BY <1>7, <3>1
    <3>3. stack'[h][i] = stack[h][i] /\ stack'[h][j].task = c
      BY <1>1, <1>2, <3>1, <3>2
    <3> QED
      BY <1>1, <1>7, <3>1, <3>2, <3>3 DEF p
  <2> QED
    BY <2>1, <2>2
<1>8. ASSUME NEW q \in AnyTask, x[q].n_depend # 0
      PROVE  Has(stack', q)
  <2>1. Has(stack, q)
    BY <1>8 DEF Running
  <2> QED
    BY <1>2, <2>1 DEF Has
<1>9. ASSUME NEW t \in Task, S[t].kind = "new"
      PROVE  Depends(stack', S[t].origin)
  <2>1. t \in AnyTask \ {c}
    BY <1>9 DEF AnyTask, Active
  <2>2. Depends(stack, S[t].origin)
    BY <1>9, <2>1 DEF Running
  <2> QED
    BY <1>2, <2>2 DEF Depends
<1>10. ASSUME NEW t \in Task, S[t].kind = "nested"
       PROVE  x[S[t].origin].n_depend = 0 /\ Calls(stack', S[t].origin, t)
  <2>1. CASE t = c
    <3>1. stack'[th][n].task = p /\ stack'[th][n].at = "depend" /\ n \in DOMAIN stack'[th]
      BY <1>1, <1>2, <1>10, <2>1
    <3> QED
      BY <1>2, <1>10, <2>1, <3>1 DEF Calls, p
  <2>2. CASE t # c
    <3>1. S[t].origin = tk[t].origin /\ tk[t].kind = "nested" /\ tk[t].origin \in AnyTask
      BY <1>10, <2>2 DEF AnyTask, Active
    <3>2. w[tk[t].origin].n_depend = 0 /\ Calls(stack, tk[t].origin, t)
      BY <3>1 DEF Running
    <3>3. Calls(stack', tk[t].origin, t)
      BY <1>2, <3>2 DEF Calls
    <3> QED
      BY <3>1, <3>2, <3>3
  <2> QED
    BY <2>1, <2>2
<1> QED
  BY <1>6, <1>7, <1>8, <1>9, <1>10 DEF Running

(* The stack without its innermost frame.                                  *)
Fronted(r, s) ==
  /\ r \in Seq(Frame) /\ Len(r) = Len(s) - 1 /\ Len(s) > 1 /\ Len(s) \in Nat
  /\ Len(r) \in DOMAIN r /\ Len(s) - 1 \in DOMAIN s
  /\ DOMAIN r = DOMAIN s \ {Len(s)} /\ \A i \in DOMAIN r : r[i] = s[i]

LEMMA FrontIs ==
  ASSUME Frames(stack), NEW th \in Thread, Cur(th) \in Task
  PROVE  Fronted(Front(stack[th]), stack[th])
<1> DEFINE r == Front(stack[th])
<1>1. /\ stack[th] \in Seq(Frame) /\ Len(stack[th]) \in Nat /\ Len(stack[th]) >= 1
      /\ DOMAIN stack[th] = 1..Len(stack[th]) /\ Cur(th) = stack[th][Len(stack[th])].task
  BY TopIs
<1>2. Len(stack[th]) # 1
  <2>1. stack[th][1].task = th
    BY DEF Frames
  <2> QED
    BY <1>1, <2>1, ConstantsOK
<1> DEFINE n == Len(stack[th])
<1>3. n \in Nat /\ n - 1 \in Nat /\ n > 1
  <2>1. n \in Nat /\ n >= 1 /\ n # 1
    BY <1>1, <1>2
  <2> HIDE DEF n
  <2> QED
    BY <2>1
<1>4. r = SubSeq(stack[th], 1, n - 1)
  BY DEF Front
<1>5. r \in Seq(Frame) /\ Len(r) = n - 1 /\ \A i \in 1..(n - 1) : r[i] = stack[th][i]
  BY <1>1, <1>3, <1>4
<1>6. DOMAIN r = 1..(n - 1)
  BY <1>5
<1> HIDE DEF n
<1>7. 1..(n - 1) = (1..n) \ {n} /\ n - 1 \in 1..(n - 1) /\ n - 1 \in 1..n
  BY <1>3
<1> HIDE DEF r
<1>8. Fronted(r, stack[th])
  BY <1>1, <1>3, <1>5, <1>6, <1>7 DEF n, Fronted
<1> QED
  BY <1>8 DEF r

(* A task that ends returns to the construct that ran it,                  *)
LEMMA PopIs ==
  ASSUME Frames(stack), NEW th \in Thread, Cur(th) \in Task,
         stack' = [stack EXCEPT ![th] = Front(@)]
  PROVE  Popped(stack, stack', th, stack[th][Len(stack[th]) - 1].at)
<1> DEFINE r == Front(stack[th])
           n == Len(stack[th])
<1>1. /\ r \in Seq(Frame) /\ Len(r) = n - 1 /\ n > 1
      /\ DOMAIN r = DOMAIN stack[th] \ {n} /\ \A i \in DOMAIN r : r[i] = stack[th][i]
  <2>1. Fronted(r, stack[th])
    BY FrontIs
  <2> HIDE DEF r
  <2> QED
    BY <2>1 DEF Fronted
<1>2. stack \in [Thread -> Seq(Frame)]
  BY DEF Frames
<1>3. stack' = [stack EXCEPT ![th] = r]
  OBVIOUS
<1> HIDE DEF r, n
<1>4. /\ stack' \in [Thread -> Seq(Frame)] /\ stack'[th] = r
      /\ \A h \in Thread \ {th} : stack'[h] = stack[h]
  BY <1>1, <1>2, <1>3
<1>5. ASSUME NEW h \in Thread, NEW i \in DOMAIN stack'[h]
      PROVE  /\ i \in DOMAIN stack[h] /\ stack'[h][i].task = stack[h][i].task
             /\ stack'[h][i].at = IF h = th /\ i = Len(stack[h]) - 1 THEN stack[th][n - 1].at
                                  ELSE stack[h][i].at
  <2>1. stack'[h][i] = stack[h][i] /\ i \in DOMAIN stack[h]
    BY <1>1, <1>4, <1>5
  <2> QED
    BY <2>1 DEF n
<1> QED
  BY <1>1, <1>4, <1>5 DEF Popped, n

(* and an undeferred one to the user code that created it.                 *)
ToUser(s) == [Front(s) EXCEPT ![Len(s) - 1].at = "user"]

LEMMA PopToUser ==
  ASSUME Frames(stack), NEW th \in Thread, Cur(th) \in Task,
         stack' = [stack EXCEPT ![th] = ToUser(@)]
  PROVE  Popped(stack, stack', th, "user")
<1> DEFINE r == Front(stack[th])
           n == Len(stack[th])
           f == [r[n - 1] EXCEPT !.at = "user"]
           s == [r EXCEPT ![n - 1] = f]
<1>1. /\ r \in Seq(Frame) /\ Len(r) = n - 1 /\ n > 1 /\ n - 1 \in DOMAIN r
      /\ DOMAIN r = DOMAIN stack[th] \ {n} /\ \A i \in DOMAIN r : r[i] = stack[th][i]
  <2>1. Fronted(r, stack[th])
    BY FrontIs
  <2> HIDE DEF r
  <2> QED
    BY <2>1 DEF Fronted
<1>2. stack \in [Thread -> Seq(Frame)]
  BY DEF Frames
<1>3. stack' = [stack EXCEPT ![th] = s]
  <2>1. s = ToUser(stack[th])
    BY DEF ToUser
  <2> HIDE DEF s
  <2> QED
    BY <1>2, <2>1
<1> HIDE DEF r, n
<1>4. r[n - 1] \in Frame
  <2> DEFINE m == n - 1
  <2>1. r \in Seq(Frame) /\ m \in DOMAIN r
    BY <1>1
  <2> HIDE DEF m
  <2>2. r[m] \in Frame
    BY <2>1
  <2> QED
    BY <2>2 DEF m
<1>5. f \in Frame /\ f.task = r[n - 1].task /\ f.at = "user"
  BY <1>4 DEF Frame, Places
<1> HIDE DEF f
<1>6. /\ s \in Seq(Frame) /\ Len(s) = n - 1 /\ DOMAIN s = DOMAIN r /\ s[n - 1] = f
      /\ \A i \in DOMAIN r : i # n - 1 => s[i] = r[i]
  <2> DEFINE m == n - 1
  <2>1. Len(r) = m /\ m \in DOMAIN r /\ s = [r EXCEPT ![m] = f]
    BY <1>1
  <2> HIDE DEF m, s
  <2>2. /\ s \in Seq(Frame) /\ Len(s) = m /\ DOMAIN s = DOMAIN r /\ s[m] = f
        /\ \A i \in DOMAIN r : i # m => s[i] = r[i]
    BY <1>1, <1>5, <2>1
  <2> QED
    BY <2>2 DEF m
<1> HIDE DEF s
<1>7. /\ stack' \in [Thread -> Seq(Frame)] /\ stack'[th] = s
      /\ \A h \in Thread \ {th} : stack'[h] = stack[h]
  BY <1>2, <1>3, <1>6
<1>8. ASSUME NEW h \in Thread, NEW i \in DOMAIN stack'[h]
      PROVE  /\ i \in DOMAIN stack[h] /\ stack'[h][i].task = stack[h][i].task
             /\ stack'[h][i].at = IF h = th /\ i = Len(stack[h]) - 1 THEN "user" ELSE stack[h][i].at
  <2>1. CASE h # th
    BY <1>7, <2>1
  <2>2. CASE h = th /\ i # n - 1
    <3>1. i \in DOMAIN r /\ stack'[h][i] = r[i]
      BY <1>6, <1>7, <2>2
    <3> QED
      BY <1>1, <2>2, <3>1 DEF n
  <2>3. CASE h = th /\ i = n - 1
    <3>1. i \in DOMAIN r /\ stack'[h][i] = f /\ r[i] = stack[th][i]
      BY <1>1, <1>6, <1>7, <2>3
    <3> QED
      BY <1>1, <1>5, <2>3, <3>1 DEF n
  <2> QED
    BY <2>1, <2>2, <2>3
<1> QED
  BY <1>1, <1>6, <1>7, <1>8 DEF Popped, n

(* Thread th leaves task c, which ends.                                    *)
LEMMA RunningPopped ==
  ASSUME NEW tk, NEW S, NEW w, NEW x, NEW th \in Thread, NEW c, NEW place, Frames(stack),
         Running(stack, tk, w), Popped(stack, stack', th, place), c = Cur(th), Top(th).at = "user",
         Graph(tk), Ending(tk, c), Removed(tk, S, c),
         \A q \in AnyTask : w[q].n_depend = 0 => x[q].n_depend = 0,
         \/ tk[c].kind = "running" /\ place = stack[th][Len(stack[th]) - 1].at
         \/ tk[c].kind = "nested" /\ place = "user"
  PROVE  Running(stack', S, x)
<1> DEFINE n == Len(stack[th])
<1>1. /\ c = stack[th][n].task /\ c \in AnyTask /\ n \in DOMAIN stack[th] /\ stack[th][n].at = "user"
      /\ \A h \in Thread : \A i \in DOMAIN stack[h] : stack[h][i].task \in AnyTask
      /\ \A h \in Thread : DOMAIN stack[h] = 1..Len(stack[h]) /\ Len(stack[h]) \in Nat
      /\ n \in Nat
  BY TopIs
<1>2. /\ \A h \in Thread :
           /\ h # th => stack'[h] = stack[h]
           /\ \A i \in DOMAIN stack'[h] :
                /\ i \in DOMAIN stack[h] /\ stack'[h][i].task = stack[h][i].task
                /\ stack'[h][i].at = IF h = th /\ i = n - 1 THEN place ELSE stack[h][i].at
      /\ DOMAIN stack'[th] = DOMAIN stack[th] \ {n} /\ n > 1
  BY DEF Popped
<1>3. \A h \in Thread : \A i \in DOMAIN stack[h] : stack[h][i].task = c <=> h = th /\ i = n
  BY <1>1 DEF Frames
<1>4. \A h \in Thread : \A i \in DOMAIN stack[h] : i \in DOMAIN stack'[h] <=> stack[h][i].task # c
  BY <1>2, <1>3
<1>5. \A h \in Thread : \A i \in DOMAIN stack[h] : FrameSound(tk, w, stack[h][i])
  BY DEF Running
<1>6. /\ c \in Task /\ AliveIn(tk, c) /\ \A u \in Task : u \in AnyTask /\ u \in Nat
      /\ \A u \in Task : UndeferredIn(tk, u) => tk[u].origin # c
  BY ConstantsOK DEF Ending, AnyTask, AliveIn
<1>7. ASSUME NEW u \in AnyTask \ {c}
      PROVE  /\ S[u].origin = tk[u].origin /\ S[u].taskgroup = tk[u].taskgroup
             /\ S[u].parent = tk[u].parent \/ tk[u].parent = c
             /\ S[u].kind = tk[u].kind \/ (tk[u].kind = "depends" /\ S[u].kind = "waiting")
  <2>1. Range(tk[c].dependers) \subseteq Task
    <3>1. tk[c].dependers \in Seq(Task)
      BY <1>1 DEF Graph, TaskRec
    <3> QED
      BY <3>1 DEF Range
  <2>2. u \in Range(tk[c].dependers) => tk[u].kind = "depends"
    BY <1>6, <2>1 DEF Graph, Edges
  <2> QED
    BY <2>2 DEF Removed
<1>8. w[c].n_depend = 0
  BY <1>1, <1>5 DEF FrameSound, Depending
<1>9. S[c].kind = "done"
  BY DEF Removed
<1>10. ASSUME tk[c].kind = "nested"
       PROVE  /\ w[tk[c].origin].n_depend = 0 /\ stack[th][n - 1].task = tk[c].origin
              /\ tk[c].origin \in AnyTask
              /\ \A u \in Task : UndeferredIn(tk, u) /\ tk[u].origin = tk[c].origin => u = c
  <2>1. w[tk[c].origin].n_depend = 0 /\ Calls(stack, tk[c].origin, c)
    BY <1>6, <1>10 DEF Running
  <2>2. PICK h \in Thread : \E i, j \in DOMAIN stack[h] :
          j = i + 1 /\ stack[h][j].task = c /\ stack[h][i].task = tk[c].origin
    BY <2>1 DEF Calls
  <2>3. PICK i \in DOMAIN stack[h], j \in DOMAIN stack[h] :
          j = i + 1 /\ stack[h][j].task = c /\ stack[h][i].task = tk[c].origin
    BY <2>2
  <2>4. h = th /\ j = n
    BY <1>3, <2>3
  <2>5. i = n - 1
    BY <1>1, <2>3, <2>4
  <2>6. tk[c].origin \in AnyTask
    BY <1>6 DEF Graph, Families
  <2>7. ASSUME NEW u \in Task, UndeferredIn(tk, u), tk[u].origin = tk[c].origin
        PROVE  u = c
    <3>1. AliveIn(tk, u) /\ UndeferredIn(tk, c)
      BY <1>10, <2>7 DEF UndeferredIn, AliveIn
    <3>2. u <= c /\ c <= u
      BY <1>6, <2>7, <3>1 DEF Graph, Families
    <3> QED
      BY <1>6, <3>2
  <2> QED
    BY <2>1, <2>3, <2>4, <2>5, <2>6, <2>7
<1> HIDE DEF n
<1>11. place = stack[th][n - 1].at \/ (tk[c].kind = "nested" /\ place = "user")
  BY DEF n
<1>12. ASSUME NEW h \in Thread, NEW i \in DOMAIN stack'[h]
       PROVE  FrameSound(S, x, stack'[h][i])
  <2> DEFINE u == stack[h][i].task
  <2>1. /\ i \in DOMAIN stack[h] /\ stack'[h][i].task = u /\ u \in AnyTask \ {c}
        /\ stack'[h][i].at = IF h = th /\ i = n - 1 THEN place ELSE stack[h][i].at
    BY <1>1, <1>2, <1>4
  <2>2. FrameSound(tk, w, stack[h][i])
    BY <1>5, <2>1
  <2>3. S[u].kind \in Active /\ S[u].taskgroup = tk[u].taskgroup
    BY <1>7, <2>1, <2>2 DEF FrameSound, Active
  <2>4. CASE stack'[h][i].at = stack[h][i].at
    BY <2>1, <2>2, <2>3, <2>4 DEF FrameSound
  <2>5. CASE stack'[h][i].at # stack[h][i].at
    <3>1. h = th /\ i = n - 1 /\ tk[c].kind = "nested" /\ stack'[h][i].at = "user"
      BY <1>11, <2>1, <2>5
    <3>2. x[u].n_depend = 0
      BY <1>10, <3>1
    <3> QED
      BY <2>1, <2>3, <3>1, <3>2 DEF FrameSound, Grouped
  <2> QED
    BY <2>4, <2>5
<1>13. ASSUME NEW h \in Thread, NEW i \in DOMAIN stack'[h], NEW j \in DOMAIN stack'[h],
              j = i + 1, stack'[h][i].at = "taskwait"
       PROVE  S[stack'[h][j].task].parent = stack'[h][i].task
  <2>1. /\ i \in DOMAIN stack[h] /\ j \in DOMAIN stack[h]
        /\ stack'[h][i].task = stack[h][i].task /\ stack'[h][j].task = stack[h][j].task
        /\ stack[h][i].task # c /\ stack[h][j].task \in AnyTask \ {c}
    BY <1>1, <1>2, <1>4
  <2>2. ~(h = th /\ i = n - 1)
    BY <1>1, <1>2, <1>13, <2>1
  <2>3. stack[h][i].at = "taskwait"
    BY <1>2, <1>13, <2>2
  <2>4. tk[stack[h][j].task].parent = stack[h][i].task
    BY <1>13, <2>1, <2>3 DEF Running
  <2>5. S[stack[h][j].task].parent = tk[stack[h][j].task].parent
    BY <1>7, <2>1, <2>4
  <2> QED
    BY <2>1, <2>4, <2>5
<1>14. ASSUME NEW q \in AnyTask, x[q].n_depend # 0
       PROVE  Has(stack', q)
  <2>1. w[q].n_depend # 0 /\ q # c
    BY <1>8, <1>14
  <2>2. Has(stack, q)
    BY <2>1 DEF Running
  <2> QED
    BY <1>2, <1>4, <2>1, <2>2 DEF Has
<1>15. ASSUME NEW t \in Task, S[t].kind = "new"
       PROVE  Depends(stack', S[t].origin)
  <2>1. t # c /\ t \in AnyTask \ {c}
    BY <1>6, <1>9, <1>15
  <2>2. tk[t].kind = "new" /\ S[t].origin = tk[t].origin
    BY <1>7, <1>15, <2>1
  <2>3. Depends(stack, tk[t].origin)
    BY <2>2 DEF Running
  <2>4. PICK h \in Thread : \E i \in DOMAIN stack[h] :
          stack[h][i].task = tk[t].origin /\ stack[h][i].at \in Depending
    BY <2>3 DEF Depends
  <2>5. PICK i \in DOMAIN stack[h] : stack[h][i].task = tk[t].origin /\ stack[h][i].at \in Depending
    BY <2>4
  <2>6. stack[h][i].task # c /\ i \in DOMAIN stack'[h]
    BY <1>1, <1>3, <1>4, <2>5 DEF Depending
  <2>7. stack'[h][i].at = stack[h][i].at
    <3> SUFFICES ASSUME stack'[h][i].at # stack[h][i].at PROVE FALSE
      OBVIOUS
    <3>1. h = th /\ i = n - 1 /\ tk[c].kind = "nested"
      BY <1>2, <1>11, <2>6
    <3>2. tk[t].origin = tk[c].origin /\ UndeferredIn(tk, t)
      BY <1>10, <2>2, <2>5, <3>1 DEF UndeferredIn
    <3> QED
      BY <1>10, <2>1, <3>1, <3>2
  <2> QED
    BY <1>2, <2>2, <2>5, <2>6, <2>7 DEF Depends
<1>16. ASSUME NEW t \in Task, S[t].kind = "nested"
       PROVE  x[S[t].origin].n_depend = 0 /\ Calls(stack', S[t].origin, t)
  <2>1. t # c /\ t \in AnyTask \ {c}
    BY <1>6, <1>9, <1>16
  <2>2. tk[t].kind = "nested" /\ S[t].origin = tk[t].origin
    BY <1>7, <1>16, <2>1
  <2>3. w[tk[t].origin].n_depend = 0 /\ Calls(stack, tk[t].origin, t)
    BY <2>2 DEF Running
  <2>4. tk[t].origin \in AnyTask /\ tk[t].origin # c
    <3>1. AliveIn(tk, t) /\ UndeferredIn(tk, t)
      BY <2>2 DEF AliveIn, UndeferredIn
    <3> QED
      BY <1>6, <3>1 DEF Graph, Families
  <2>5. x[tk[t].origin].n_depend = 0
    BY <2>3, <2>4
  <2>6. PICK h \in Thread : \E i, j \in DOMAIN stack[h] :
            /\ j = i + 1 /\ stack[h][j].task = t
            /\ stack[h][i].task = tk[t].origin /\ stack[h][i].at = "depend"
    BY <2>3 DEF Calls
  <2>7. PICK i \in DOMAIN stack[h], j \in DOMAIN stack[h] :
            /\ j = i + 1 /\ stack[h][j].task = t
            /\ stack[h][i].task = tk[t].origin /\ stack[h][i].at = "depend"
    BY <2>6
  <2>8. i \in DOMAIN stack'[h] /\ j \in DOMAIN stack'[h] /\ ~(h = th /\ j = n)
    BY <1>3, <1>4, <2>1, <2>4, <2>7
  <2>9. ~(h = th /\ i = n - 1)
    BY <1>1, <2>7, <2>8
  <2>10. /\ stack'[h][j].task = t /\ stack'[h][i].task = tk[t].origin /\ stack'[h][i].at = "depend"
    BY <1>2, <2>7, <2>8, <2>9
  <2> QED
    BY <2>2, <2>5, <2>7, <2>8, <2>10 DEF Calls
<1> QED
  BY <1>12, <1>13, <1>14, <1>15, <1>16 DEF Running

-----------------------------------------------------------------------------
(* The inductive invariant.                                                *)
Inv ==
  /\ Graph(task) /\ wait \in [AnyTask -> WaitRec] /\ group \in [Group -> GroupRec]
  /\ Counts(task, wait) /\ Frames(stack) /\ Running(stack, task, wait)

(* The task that a thread runs, and the tasks with an innermost frame in   *)
(* user code.                                                              *)
LEMMA CurIs ==
  ASSUME Inv, NEW th \in Thread
  PROVE  /\ Cur(th) \in AnyTask /\ task[Cur(th)].kind \in Active /\ Top(th).at \in Places
         /\ Top(th).at \notin Depending =>
              /\ wait[Cur(th)].n_depend = 0
              /\ \A u \in Task : UndeferredIn(task, u) => task[u].origin # Cur(th)
         /\ Top(th).at \in Grouped => task[Cur(th)].taskgroup # Null
         /\ \A u \in Task : u \in AnyTask
         /\ \A u \in Task : task[u].kind \in Active => task[u].origin \in AnyTask
<1> DEFINE p == Cur(th)
           n == Len(stack[th])
<1>1. p \in AnyTask /\ p = stack[th][n].task /\ n \in DOMAIN stack[th] /\ Top(th).at = stack[th][n].at
      /\ Top(th).at \in Places
  BY TopIs DEF Inv
<1>2. FrameSound(task, wait, stack[th][n])
  BY <1>1 DEF Inv, Running
<1>3. \A h \in Thread : \A i \in DOMAIN stack[h] : stack[h][i].task = p => h = th /\ i = n
  BY <1>1 DEF Inv, Frames
<1>4. \A u \in Task : u \in AnyTask
  BY DEF AnyTask
<1>5. \A u \in Task : task[u].kind \in Active => task[u].origin \in AnyTask
  BY DEF Inv, Graph, Families, Active, AliveIn
<1> HIDE DEF p, n
<1>6. ASSUME Top(th).at \notin Depending, NEW u \in Task, UndeferredIn(task, u), task[u].origin = p
      PROVE  FALSE
  <2>1. CASE task[u].kind = "new"
    <3>1. Depends(stack, p)
      BY <1>6, <2>1 DEF Inv, Running
    <3> QED
      BY <1>1, <1>3, <1>6, <3>1 DEF Depends
  <2>2. CASE task[u].kind = "nested"
    <3>1. Calls(stack, p, u)
      BY <1>6, <2>2 DEF Inv, Running
    <3>2. \E h \in Thread : \E i \in DOMAIN stack[h] : stack[h][i].task = p /\ stack[h][i].at = "depend"
      BY <3>1 DEF Calls
    <3> QED
      BY <1>1, <1>3, <1>6, <3>2 DEF Depending
  <2> QED
    BY <1>6, <2>1, <2>2 DEF UndeferredIn
<1> QED
  BY <1>1, <1>2, <1>4, <1>5, <1>6 DEF FrameSound, p

(* A count of zero.                                                        *)
LEMMA MarkedCount ==
  ASSUME NEW tk, NEW w, Counts(tk, w), NEW q \in AnyTask
  PROVE  /\ IsFiniteSet(Marked(tk, q)) /\ w[q].n_depend = Cardinality(Marked(tk, q))
         /\ w[q].n_depend = 0 <=> Marked(tk, q) = {}
<1>1. Marked(tk, q) \in SUBSET Task
  BY DEF Marked
<1>2. IsFiniteSet(Marked(tk, q))
  BY <1>1, ConstantsOK, FS_Subset
<1> QED
  BY <1>2, FS_EmptySet DEF Counts

(* A step in which a thread moves, and the tasks stay as they are but for  *)
(* the taskgroup of its own.                                               *)
SameTasks(tk, S, p) ==
  /\ S \in [AnyTask -> TaskRec]
  /\ \A u \in AnyTask :
       /\ S[u].kind = tk[u].kind /\ S[u].parent = tk[u].parent /\ S[u].origin = tk[u].origin
       /\ S[u].depend = tk[u].depend /\ S[u].num_dependees = tk[u].num_dependees
       /\ S[u].dependers = tk[u].dependers /\ S[u].parent_depends_on = tk[u].parent_depends_on
       /\ S[u].depend_hash = tk[u].depend_hash
       /\ u # p => S[u].taskgroup = tk[u].taskgroup

(* A step of th inside the task it runs: no task starts or ends, and the   *)
(* counts stay.                                                            *)
InPlace(th, place) ==
  /\ Moved(stack, stack', th, place) /\ SameTasks(task, task', Cur(th))
  /\ wait' \in [AnyTask -> WaitRec] /\ \A q \in AnyTask : wait'[q].n_depend = wait[q].n_depend
  /\ group' \in [Group -> GroupRec]
  /\ Top(th).at \in Depending <=> place \in Depending
  /\ place \in Grouped => task'[Cur(th)].taskgroup # Null
  /\ task'[Cur(th)].taskgroup = Null => task[Cur(th)].taskgroup = Null \/ place = "user"

(* Such a step keeps the invariant.                                        *)
LEMMA StepInPlace ==
  ASSUME Inv, NEW th \in Thread, NEW place, InPlace(th, place)
  PROVE  Inv'
<1> DEFINE p == Cur(th)
<1>1. /\ p \in AnyTask /\ (Top(th).at \notin Depending => wait[p].n_depend = 0)
      /\ \A u \in Task : u \in AnyTask
      /\ \A u \in Task : task[u].kind \in Active => task[u].origin \in AnyTask
  BY CurIs
<1>2. \A u \in AnyTask :
       /\ task'[u].kind = task[u].kind /\ task'[u].parent = task[u].parent
       /\ task'[u].origin = task[u].origin
       /\ task'[u].parent_depends_on = task[u].parent_depends_on
       /\ u # p => task'[u].taskgroup = task[u].taskgroup
  BY DEF InPlace, SameTasks
<1>3. Graph(task')
  <2>1. Alike(task, task')
    BY DEF InPlace, SameTasks, Alike
  <2>2. \A t, u \in Task : task[t].kind = "new" /\ task'[t].kind = "nested" /\ AliveIn(task, u)
          => ~Conflicts(task, t, u)
    BY <1>1, <1>2
  <2>3. Graph(task)
    BY DEF Inv
  <2> QED
    BY <2>1, <2>2, <2>3, AlikeGraph
<1>4. Counts(task', wait')
  <2>1. \A q \in AnyTask : Marked(task', q) = Marked(task, q)
    BY <1>1, <1>2 DEF Marked
  <2> QED
    BY <2>1 DEF Counts, Inv, InPlace
<1>5. Frames(stack')
  BY MovedFrames DEF Inv, InPlace
<1>6. Kept(task, task', wait, wait', p, place)
  BY <1>1, <1>2 DEF Kept, InPlace
<1>7. Running(stack', task', wait')
  <2>1. /\ Frames(stack) /\ Running(stack, task, wait) /\ Moved(stack, stack', th, place)
        /\ \A u \in Task : task'[u].kind = "nested" => task[u].origin \in AnyTask
        /\ Top(th).at \in Depending => place \in Depending
    BY <1>1, <1>2 DEF Inv, InPlace, Active
  <2> QED
    BY <1>6, <2>1, RunningMoved
<1> QED
  BY <1>3, <1>4, <1>5, <1>7 DEF Inv, InPlace

(* Nothing changes the tasks.                                              *)
LEMMA TasksSame ==
  ASSUME Inv, NEW p, task' = task
  PROVE  SameTasks(task, task', p)
BY DEF Inv, Graph, SameTasks

(* The record of a group after a change of one field.                      *)
LEMMA GroupUpdate ==
  ASSUME NEW G \in [Group -> GroupRec], NEW g \in Group
  PROVE  /\ [G EXCEPT ![g].num_children = @ + 1] \in [Group -> GroupRec]
         /\ [G EXCEPT ![g].sem = @ - 1] \in [Group -> GroupRec]
         /\ [G EXCEPT ![g].cancelled = TRUE] \in [Group -> GroupRec]
         /\ [G EXCEPT ![g].in_taskgroup_wait = TRUE] \in [Group -> GroupRec]
<1>1. G[g] \in GroupRec
  OBVIOUS
<1>2. ASSUME NEW n \in Int
      PROVE  [G[g] EXCEPT !.num_children = n] \in GroupRec /\ [G[g] EXCEPT !.sem = n] \in GroupRec
  BY <1>1 DEF GroupRec
<1>3. G[g].num_children + 1 \in Int /\ G[g].sem - 1 \in Int
  BY <1>1 DEF GroupRec
<1>4. [G[g] EXCEPT !.num_children = G[g].num_children + 1] \in GroupRec
  BY <1>2, <1>3
<1>5. [G[g] EXCEPT !.sem = G[g].sem - 1] \in GroupRec
  BY <1>2, <1>3
<1>6. /\ [G[g] EXCEPT !.cancelled = TRUE] \in GroupRec
      /\ [G[g] EXCEPT !.in_taskgroup_wait = TRUE] \in GroupRec
  BY <1>1 DEF GroupRec
<1> QED
  BY <1>4, <1>5, <1>6

(* What GOMP_task checks makes the task that it creates fresh.             *)
LEMMA NewIsFresh ==
  ASSUME Inv, NEW th \in Thread, NEW t \in Task, NewTask(th, t)
  PROVE  /\ Fresh(task, Cur(th), t) /\ Top(th).at = "user" /\ "user" \notin Depending
         /\ task[Cur(th)].taskgroup \in Group \cup {Null} /\ Cur(th) \in Family
<1>1. Top(th).at = "user" /\ "user" \notin Depending
  BY DEF NewTask, At, Depending
<1>2. /\ Cur(th) \in AnyTask /\ task[Cur(th)].kind \in Active
      /\ \A u \in Task : UndeferredIn(task, u) => task[u].origin # Cur(th)
  BY <1>1, CurIs
<1>3. task[Cur(th)].taskgroup \in Group \cup {Null}
  BY <1>2 DEF Inv, Graph, TaskRec
<1> QED
  BY <1>1, <1>2, <1>3 DEF Fresh, NewTask, Active, Family

(* GOMP_task of a deferred task keeps the invariant.                       *)
LEMMA StepDeferred ==
  ASSUME Inv, NEW th \in Thread, NEW t \in Task, NEW type \in Types, NEW clause \in Clauses,
         GOMP_task_deferred(th, t, type, clause)
  PROVE  Inv'
<1> DEFINE p == Cur(th)
           g == task[p].taskgroup
           new == [gomp_init_task("waiting", p, type, g) EXCEPT !.depend = clause]
           B == [task EXCEPT ![t] = new]
           S == gomp_task_handle_depend(B, p, t, clause)
<1>1. NewTask(th, t)
  BY DEF GOMP_task_deferred
<1>2. /\ Fresh(task, p, t) /\ Top(th).at = "user" /\ "user" \notin Depending
      /\ g \in Group \cup {Null} /\ p \in Family
  BY <1>1, NewIsFresh
<1>3. /\ p \in AnyTask /\ wait[p].n_depend = 0 /\ \A u \in Task : u \in AnyTask
      /\ \A u \in Task : task[u].kind \in Active => task[u].origin \in AnyTask
  BY <1>2, CurIs
<1>4. /\ task' = IF S[t].num_dependees > 0 THEN [S EXCEPT ![t].kind = "depends"] ELSE S
      /\ group' = IF g = Null THEN group ELSE [group EXCEPT ![g].num_children = @ + 1]
      /\ stack' = stack /\ wait' = wait
  BY DEF GOMP_task_deferred
<1>5. task \in [AnyTask -> TaskRec] /\ Graph(task)
  BY DEF Inv, Graph
<1>6. /\ new \in TaskRec /\ new.kind = "waiting" /\ new.parent = p /\ new.origin = p
      /\ new.depend = clause /\ new.num_dependees = 0 /\ new.dependers = <<>>
      /\ ~new.parent_depends_on /\ \A a \in Addr : new.depend_hash[a] = <<>>
  <2>1. "waiting" \in Kinds /\ clause \in Clauses \cup {<<>>}
    BY DEF Kinds
  <2> HIDE DEF p, g
  <2>2. new = NewRecord("waiting", p, type, g, clause)
    BY DEF new, NewRecord
  <2> HIDE DEF new
  <2> QED
    BY <1>2, <2>1, <2>2, InitTask
<1> HIDE DEF new
<1>7. /\ B \in [AnyTask -> TaskRec] /\ B[t] = new /\ \A u \in AnyTask \ {t} : B[u] = task[u]
  BY <1>3, <1>5, <1>6
<1> HIDE DEF B
<1>8. Started(task, B, p, t, "waiting")
  BY <1>6, <1>7 DEF Started
<1>9. Building(B, S, p, t, Len(B[t].depend))
  <2>1. Base(B, p, t)
    BY <1>2, <1>5, <1>8, StartedBase
  <2>2. S = gomp_task_handle_depend(B, p, t, B[t].depend)
    BY <1>6, <1>7
  <2> HIDE DEF S
  <2> QED
    BY <2>1, <2>2, HandleDepend
<1> HIDE DEF S
<1>10. S \in [AnyTask -> TaskRec] /\ S[t].kind = "waiting"
  BY <1>3, <1>6, <1>7, <1>9 DEF Building, SameElse
<1>11. Placed(S, task', t)
  <2>1. CASE S[t].num_dependees > 0
    <3> DEFINE R == [S[t] EXCEPT !.kind = "depends"]
    <3>1. S[t] \in TaskRec
      BY <1>3, <1>10
    <3>2. R \in TaskRec
      BY <3>1 DEF TaskRec, Kinds
    <3>3. /\ R.parent = S[t].parent /\ R.origin = S[t].origin /\ R.depend = S[t].depend
          /\ R.num_dependees = S[t].num_dependees /\ R.dependers = S[t].dependers
          /\ R.parent_depends_on = S[t].parent_depends_on /\ R.depend_hash = S[t].depend_hash
          /\ R.taskgroup = S[t].taskgroup /\ R.kind = "depends"
      BY <3>1 DEF TaskRec
    <3>4. task' = [S EXCEPT ![t] = R]
      BY <1>3, <1>4, <1>10, <2>1
    <3> HIDE DEF R
    <3>5. task' \in [AnyTask -> TaskRec] /\ task'[t] = R /\ \A u \in AnyTask \ {t} : task'[u] = S[u]
      BY <1>3, <1>10, <3>2, <3>4
    <3> QED
      BY <2>1, <3>3, <3>5 DEF Placed
  <2>2. CASE ~(S[t].num_dependees > 0)
    BY <1>4, <1>10, <2>2 DEF Placed
  <2> QED
    BY <2>1, <2>2
<1>12. Graph(task') /\ Created(task, task', t)
  <2> DEFINE F == task'
  <2>1. Placed(S, F, t)
    BY <1>11
  <2> HIDE DEF F
  <2>2. Graph(F) /\ Created(task, F, t)
    BY <1>2, <1>5, <1>8, <1>9, <2>1, CreateDeferred
  <2> QED
    BY <2>2 DEF F
<1>13. group' \in [Group -> GroupRec]
  BY <1>2, <1>4, GroupUpdate DEF Inv
<1>14. /\ task'[t].kind \in {"depends", "waiting"} /\ ~task'[t].parent_depends_on
       /\ \A u \in AnyTask \ {t} :
            /\ task'[u].kind = task[u].kind /\ task'[u].parent = task[u].parent
            /\ task'[u].origin = task[u].origin
            /\ task'[u].taskgroup = task[u].taskgroup
            /\ task'[u].parent_depends_on = task[u].parent_depends_on
  BY <1>12 DEF Created
<1>15. /\ task[t].kind = "none" /\ ~task[t].parent_depends_on /\ task[t].parent = Null
       /\ Null \notin AnyTask
  BY <1>2, <1>5, ConstantsOK DEF Fresh, Graph, Families, Blank, AliveIn, AnyTask, Null
<1>16. Counts(task', wait')
  <2>1. \A q \in AnyTask : Marked(task', q) = Marked(task, q)
    BY <1>3, <1>14, <1>15 DEF Marked
  <2> QED
    BY <1>4, <2>1 DEF Counts, Inv
<1>17. Kept(task, task', wait, wait', p, "user")
  BY <1>3, <1>4, <1>14, <1>15 DEF Kept, Active, Grouped
<1>18. Running(stack', task', wait') /\ Frames(stack')
  <2>1. Moved(stack, stack', th, "user")
    BY <1>2, <1>4, StayMoved DEF Inv
  <2>2. /\ Frames(stack) /\ Running(stack, task, wait)
        /\ \A u \in Task : task'[u].kind = "nested" => task[u].origin \in AnyTask
        /\ Top(th).at \in Depending => "user" \in Depending
    BY <1>2, <1>3, <1>14 DEF Inv, Active
  <2> QED
    BY <1>4, <1>17, <2>1, <2>2, RunningMoved
<1> QED
  BY <1>4, <1>12, <1>13, <1>16, <1>18 DEF Inv

(* GOMP_task of an undeferred task keeps the invariant.                    *)
LEMMA StepUndeferred ==
  ASSUME Inv, NEW th \in Thread, NEW t \in Task, NEW type \in Types, NEW clause \in Clauses,
         GOMP_task_undeferred(th, t, type, clause)
  PROVE  Inv'
<1> DEFINE p == Cur(th)
           g == task[p].taskgroup
           ty == IF p \notin Thread /\ task[p].type = "TIED" THEN "TIED" ELSE type
           us == Awaited(p, clause)
           new == [gomp_init_task("new", p, ty, g) EXCEPT !.depend = clause]
           V(u) == IF u = t THEN new
                   ELSE [task[u] EXCEPT !.parent_depends_on = task[u].parent_depends_on \/ u \in us]
<1>1. NewTask(th, t)
  BY DEF GOMP_task_undeferred
<1>2. /\ Fresh(task, p, t) /\ Top(th).at = "user" /\ "user" \notin Depending
      /\ g \in Group \cup {Null} /\ p \in Family
  BY <1>1, NewIsFresh
<1>3. /\ p \in AnyTask /\ wait[p].n_depend = 0 /\ \A u \in Task : u \in AnyTask
      /\ \A u \in Task : task[u].kind \in Active => task[u].origin \in AnyTask
      /\ \A u \in Task : UndeferredIn(task, u) => task[u].origin # p
  BY <1>2, CurIs
<1>4. /\ task' = [u \in AnyTask |-> V(u)]
      /\ wait' = IF us = {} THEN wait
                 ELSE [wait EXCEPT ![p] = [NoWait EXCEPT !.on = TRUE, !.n_depend = Cardinality(us)]]
      /\ Goto(th, "depend") /\ group' = group
  BY DEF GOMP_task_undeferred
<1>5. task \in [AnyTask -> TaskRec] /\ Graph(task) /\ ty \in Types
  BY DEF Inv, Graph, Types
<1> HIDE DEF ty
<1>6. /\ new \in TaskRec /\ new.kind = "new" /\ new.parent = p /\ new.origin = p
      /\ new.depend = clause /\ new.num_dependees = 0 /\ new.dependers = <<>>
      /\ ~new.parent_depends_on /\ \A a \in Addr : new.depend_hash[a] = <<>>
  <2>1. "new" \in Kinds /\ clause \in Clauses \cup {<<>>}
    BY DEF Kinds
  <2> HIDE DEF p, g
  <2>2. new = NewRecord("new", p, ty, g, clause)
    BY DEF new, NewRecord
  <2> HIDE DEF new
  <2> QED
    BY <1>2, <1>5, <2>1, <2>2, InitTask
<1> HIDE DEF new
<1>7. /\ \A u \in us : u \in Task /\ DeferredIn(task, u) /\ task[u].parent = p /\ ~task[u].parent_depends_on
      /\ \A u \in Task : AliveIn(task, u) /\ task[u].parent = p /\ Conflict(clause, task[u].depend)
           => u \in us \/ task[u].parent_depends_on
  BY <1>2, <1>5, AwaitedIs
<1> HIDE DEF us
<1>8. ASSUME NEW u \in AnyTask
      PROVE  /\ V(u) \in TaskRec /\ (u = t => V(u) = new)
             /\ u # t =>
                  /\ V(u).kind = task[u].kind /\ V(u).parent = task[u].parent /\ V(u).origin = task[u].origin
                  /\ V(u).depend = task[u].depend /\ V(u).num_dependees = task[u].num_dependees
                  /\ V(u).dependers = task[u].dependers /\ V(u).depend_hash = task[u].depend_hash
                  /\ V(u).taskgroup = task[u].taskgroup
                  /\ V(u).parent_depends_on <=> task[u].parent_depends_on \/ u \in us
  <2>1. CASE u = t
    BY <1>6, <2>1
  <2>2. CASE u # t
    <3> DEFINE on == task[u].parent_depends_on \/ u \in us
    <3>1. V(u) = [task[u] EXCEPT !.parent_depends_on = on] /\ task[u] \in TaskRec
      BY <1>5, <2>2
    <3>2. on \in BOOLEAN /\ (on <=> task[u].parent_depends_on \/ u \in us)
      OBVIOUS
    <3> HIDE DEF on, V
    <3>3. V(u) \in TaskRec
      BY <3>1, <3>2 DEF TaskRec
    <3>4. /\ V(u).kind = task[u].kind /\ V(u).parent = task[u].parent /\ V(u).origin = task[u].origin
          /\ V(u).depend = task[u].depend /\ V(u).num_dependees = task[u].num_dependees
          /\ V(u).dependers = task[u].dependers /\ V(u).depend_hash = task[u].depend_hash
          /\ V(u).taskgroup = task[u].taskgroup /\ V(u).parent_depends_on = on
      BY <3>1 DEF TaskRec
    <3> QED
      BY <2>2, <3>2, <3>3, <3>4
  <2> QED
    BY <2>1, <2>2
<1> HIDE DEF V
<1>9. task' \in [AnyTask -> TaskRec] /\ \A u \in AnyTask : task'[u] = V(u)
  BY <1>4, <1>8
<1>10. /\ task'[t].kind = "new" /\ task'[t].parent = p /\ task'[t].origin = p /\ ~task'[t].parent_depends_on
       /\ \A u \in AnyTask \ {t} :
            /\ task'[u].kind = task[u].kind /\ task'[u].parent = task[u].parent
            /\ task'[u].origin = task[u].origin /\ task'[u].taskgroup = task[u].taskgroup
            /\ task'[u].parent_depends_on <=> task[u].parent_depends_on \/ u \in us
  BY <1>3, <1>6, <1>8, <1>9
<1>11. Graph(task')
  <2> DEFINE F == task'
  <2>1. Awaiting(task, F, p, t, us)
    BY <1>3, <1>6, <1>7, <1>8, <1>9 DEF Awaiting
  <2> HIDE DEF F
  <2>2. Graph(F)
    BY <1>2, <1>5, <2>1, CreateUndeferred
  <2> QED
    BY <2>2 DEF F
<1>12. /\ task[t].kind = "none" /\ ~task[t].parent_depends_on /\ task[t].parent = Null
       /\ Null \notin AnyTask
  BY <1>2, <1>5, ConstantsOK DEF Fresh, Graph, Families, Blank, AliveIn, AnyTask, Null
<1>13. Marked(task, p) = {}
  BY <1>3, MarkedCount DEF Inv
<1>14. \A q \in AnyTask : Marked(task', q) = IF q = p THEN us ELSE Marked(task, q)
  <2>1. Marked(task', p) = us
    <3>1. t \notin us
      BY <1>7, <1>12 DEF DeferredIn
    <3>2. \A u \in Task : ~(task[u].parent = p /\ task[u].parent_depends_on)
      BY <1>13 DEF Marked
    <3>3. ASSUME NEW u \in Task
          PROVE  task'[u].parent = p /\ task'[u].parent_depends_on <=> u \in us
      <4>1. CASE u = t
        BY <1>10, <3>1, <4>1
      <4>2. CASE u # t
        BY <1>3, <1>7, <1>10, <3>2, <4>2
      <4> QED
        BY <4>1, <4>2
    <3>4. us \subseteq Task
      BY <1>7
    <3> QED
      BY <3>3, <3>4 DEF Marked
  <2>2. ASSUME NEW q \in AnyTask, q # p
        PROVE  Marked(task', q) = Marked(task, q)
    BY <1>3, <1>7, <1>10, <1>12, <2>2 DEF Marked
  <2> QED
    BY <2>1, <2>2
<1>15. Cardinality(us) \in Int /\ (us = {} => Cardinality(us) = 0)
  <2>1. IsFiniteSet(us)
    BY <1>7, ConstantsOK, FS_Subset
  <2> QED
    BY <2>1, FS_CardinalityType, FS_EmptySet
<1>16. /\ wait' \in [AnyTask -> WaitRec] /\ wait'[p].n_depend = Cardinality(us)
       /\ \A q \in AnyTask \ {p} : wait'[q] = wait[q]
  <2>1. CASE us = {}
    BY <1>3, <1>4, <1>15, <2>1 DEF Inv
  <2>2. CASE us # {}
    <3> DEFINE m == Cardinality(us)
               R == [NoWait EXCEPT !.on = TRUE, !.n_depend = m]
    <3>1. m \in Int /\ wait' = [wait EXCEPT ![p] = R]
      BY <1>4, <1>15, <2>2
    <3> HIDE DEF m
    <3>2. R \in WaitRec /\ R.n_depend = m
      <4>1. NoWait \in WaitRec
        BY DEF NoWait, WaitRec
      <4> QED
        BY <3>1, <4>1 DEF WaitRec
    <3> HIDE DEF R
    <3>3. wait \in [AnyTask -> WaitRec]
      BY DEF Inv
    <3> QED
      BY <1>3, <3>1, <3>2, <3>3 DEF m
  <2> QED
    BY <2>1, <2>2
<1>17. Counts(task', wait')
  BY <1>3, <1>14, <1>16 DEF Counts, Inv
<1>18. Kept(task, task', wait, wait', p, "depend")
  <2>1. \A v \in Task : task[v].kind = "nested" => task[v].origin # p
    BY <1>3 DEF UndeferredIn
  <2> QED
    BY <1>3, <1>10, <1>12, <1>16, <2>1 DEF Kept, Active, Grouped, Depending
<1>19. Running(stack', task', wait') /\ Frames(stack')
  <2>1. "depend" \in Places /\ "depend" \in Depending
    BY DEF Places, Depending
  <2>2. Moved(stack, stack', th, "depend")
    BY <1>4, <2>1, GotoMoved DEF Inv
  <2>3. /\ Frames(stack) /\ Running(stack, task, wait)
        /\ \A u \in Task : task'[u].kind = "nested" => task[u].origin \in AnyTask
        /\ Top(th).at \in Depending => "depend" \in Depending
    BY <1>3, <1>10, <2>1 DEF Inv, Active
  <2> QED
    BY <1>18, <2>2, <2>3, RunningMoved, MovedFrames
<1> QED
  BY <1>4, <1>11, <1>16, <1>17, <1>19 DEF Inv

(* A task that is not started has no frame, and waits for nothing.         *)
LEMMA NotStarted ==
  ASSUME Inv, NEW c \in Task, task[c].kind \notin Active
  PROVE  /\ \A h \in Thread : \A i \in DOMAIN stack[h] : stack[h][i].task # c
         /\ wait[c].n_depend = 0
         /\ \A u \in Task : UndeferredIn(task, u) => task[u].origin # c
<1>1. \A h \in Thread : \A i \in DOMAIN stack[h] : stack[h][i].task # c
  BY DEF Inv, Running, FrameSound
<1>2. ~Has(stack, c) /\ ~Depends(stack, c) /\ \A u : ~Calls(stack, c, u)
  BY <1>1 DEF Has, Depends, Calls
<1>3. wait[c].n_depend = 0
  BY <1>2 DEF Inv, Running, AnyTask
<1>4. \A u \in Task : UndeferredIn(task, u) => task[u].origin # c
  BY <1>2 DEF Inv, Running, UndeferredIn
<1> QED
  BY <1>1, <1>3, <1>4

(* The fields of a taskgroup keep their types when one of its tasks ends.  *)
LEMMA WakeGroupType ==
  ASSUME NEW tk, NEW r \in GroupRec, NEW c, NEW g
  PROVE  WakeGroup(tk, r, c, g) \in GroupRec
<1>1. ASSUME NEW y \in GroupRec
      PROVE  PostGroup(y) \in GroupRec
  <2> DEFINE s == y.sem + 1
  <2>1. s \in Int
    BY DEF GroupRec
  <2>2. PostGroup(y) = [y EXCEPT !.in_taskgroup_wait = FALSE, !.sem = s]
    BY DEF PostGroup, GroupRec
  <2> HIDE DEF s
  <2> QED
    BY <2>1, <2>2 DEF GroupRec
<1> DEFINE r1 == IF (\E d \in Released(tk, c) : tk[d].taskgroup = g) /\ r.in_taskgroup_wait
                   THEN PostGroup(r) ELSE r
           r2 == [r1 EXCEPT !.num_children = IF r1.num_children > 1 THEN r1.num_children - 1 ELSE 0]
<1>2. WakeGroup(tk, r, c, g) \in {r1, r2, PostGroup(r2)}
  BY DEF WakeGroup
<1>3. r1 \in GroupRec
  BY <1>1
<1> HIDE DEF r1
<1>4. r2 \in GroupRec
  <2> DEFINE m == IF r1.num_children > 1 THEN r1.num_children - 1 ELSE 0
  <2>1. m \in Int
    BY <1>3 DEF GroupRec
  <2>2. r2 = [r1 EXCEPT !.num_children = m]
    OBVIOUS
  <2> HIDE DEF m, r2
  <2> QED
    BY <1>3, <2>1, <2>2 DEF GroupRec
<1> HIDE DEF r2
<1> QED
  BY <1>1, <1>2, <1>3, <1>4

(* The end of a deferred task c.                                           *)
LEMMA FinishIs ==
  ASSUME Inv, NEW tk, NEW tm, NEW c, NEW at, Graph(tk), Ending(tk, c), Counts(tk, wait),
         wait[c].n_depend = 0, at = "taskwait" => ~tk[c].parent_depends_on,
         FinishTask(tk, tm, c, at)
  PROVE  /\ Removed(tk, task', c) /\ Graph(task') /\ group' \in [Group -> GroupRec]
         /\ wait' \in [AnyTask -> WaitRec] /\ Counts(task', wait')
         /\ \A q \in AnyTask : wait[q].n_depend = 0 => wait'[q].n_depend = 0
<1> DEFINE S == task'
           x == wait'
<1>1. S = gomp_clear_parent(run_post_handle_dependers(run_post_handle_depend_hash(tk, c), c), c)
  BY DEF FinishTask
<1>2. x = Woken(tk, wait, c, at)
  BY DEF FinishTask, Woken
<1>3. group' \in [Group -> GroupRec]
  <2>1. group' = [g \in Group |-> WakeGroup(tk, group[g], c, g)] /\ group \in [Group -> GroupRec]
    BY DEF FinishTask, Inv
  <2> QED
    BY <2>1, WakeGroupType
<1>4. wait \in [AnyTask -> WaitRec]
  BY DEF Inv
<1> HIDE DEF S, x
<1>5. Removed(tk, S, c)
  BY <1>1, FinishRemoved
<1>6. Graph(S)
  BY <1>5, RemovedGraph
<1>7. /\ x \in [AnyTask -> WaitRec] /\ Counts(S, x)
      /\ \A q \in AnyTask : wait[q].n_depend = 0 => x[q].n_depend = 0
  BY <1>2, <1>4, <1>5, FinishCounts
<1> QED
  BY <1>3, <1>5, <1>6, <1>7 DEF S, x

(* The end of a deferred task keeps the invariant.                         *)
LEMMA StepTaskEnd ==
  ASSUME Inv, NEW th \in Thread, TaskEnd(th)
  PROVE  Inv'
<1> DEFINE c == Cur(th)
           n == Len(stack[th])
           at == stack[th][n - 1].at
<1>1. /\ Top(th).at = "user" /\ "user" \notin Depending /\ c \in Task /\ task[c].kind = "running"
      /\ FinishTask(task, team, c, at) /\ stack' = [stack EXCEPT ![th] = Front(@)]
  BY DEF TaskEnd, At, Depending
<1>2. wait[c].n_depend = 0 /\ \A u \in Task : UndeferredIn(task, u) => task[u].origin # c
  BY <1>1, CurIs
<1>3. Graph(task) /\ Counts(task, wait) /\ Ending(task, c)
  BY <1>1, <1>2 DEF Inv, Ending
<1>4. at = "taskwait" => ~task[c].parent_depends_on
  <2> SUFFICES ASSUME at = "taskwait" PROVE ~task[c].parent_depends_on
    OBVIOUS
  <2>0. Frames(stack)
    BY DEF Inv
  <2>1. n - 1 \in DOMAIN stack[th] /\ n \in DOMAIN stack[th] /\ n = n - 1 + 1 /\ c = stack[th][n].task
    <3>1. n - 1 \in DOMAIN stack[th]
      BY <1>1, <2>0, FrontIs DEF Fronted
    <3>2. n \in DOMAIN stack[th] /\ n \in Nat /\ c = stack[th][n].task
      BY <2>0, TopIs
    <3> HIDE DEF n
    <3> QED
      BY <3>1, <3>2
  <2> DEFINE q == stack[th][n - 1].task
  <2>2. task[c].parent = q
    BY <2>1 DEF Inv, Running
  <2>3. q \in AnyTask
    BY <2>1, TopIs DEF Inv
  <2>4. FrameSound(task, wait, stack[th][n - 1])
    BY <2>1 DEF Inv, Running
  <2>5. wait[q].n_depend = 0
    BY <2>4 DEF FrameSound, Depending
  <2>6. Marked(task, q) = {}
    BY <1>3, <2>3, <2>5, MarkedCount
  <2> QED
    BY <1>1, <2>2, <2>6 DEF Marked
<1>5. /\ Removed(task, task', c) /\ Graph(task') /\ group' \in [Group -> GroupRec]
      /\ wait' \in [AnyTask -> WaitRec] /\ Counts(task', wait')
      /\ \A q \in AnyTask : wait[q].n_depend = 0 => wait'[q].n_depend = 0
  <2> HIDE DEF at, c
  <2> QED
    BY <1>1, <1>2, <1>3, <1>4, FinishIs
<1>6. Popped(stack, stack', th, at)
  BY <1>1, PopIs DEF Inv
<1>7. Frames(stack) /\ Running(stack, task, wait)
  BY DEF Inv
<1>8. Frames(stack')
  BY <1>6, <1>7, PoppedFrames
<1>9. Running(stack', task', wait')
  <2>1. task[c].kind = "running" /\ at = stack[th][Len(stack[th]) - 1].at /\ c = Cur(th)
    BY <1>1
  <2> HIDE DEF at, c
  <2> QED
    BY <1>1, <1>3, <1>5, <1>6, <1>7, <2>1, RunningPopped
<1> QED
  BY <1>5, <1>8, <1>9 DEF Inv

(* The end of an undeferred task keeps the invariant.                      *)
LEMMA StepUndeferredEnd ==
  ASSUME Inv, NEW th \in Thread, UndeferredEnd(th)
  PROVE  Inv'
<1> DEFINE c == Cur(th)
<1>1. /\ Top(th).at = "user" /\ "user" \notin Depending /\ c \in Task /\ task[c].kind = "nested"
      /\ task' = gomp_clear_parent(task, c) /\ wait' = wait /\ group' = group
      /\ stack' = [stack EXCEPT ![th] = ToUser(@)]
  BY DEF UndeferredEnd, At, Depending, ToUser
<1>2. /\ wait[c].n_depend = 0 /\ c \in AnyTask
      /\ \A u \in Task : UndeferredIn(task, u) => task[u].origin # c
  BY <1>1, CurIs
<1>3. Graph(task) /\ Counts(task, wait) /\ Ending(task, c)
  BY <1>1, <1>2 DEF Inv, Ending
<1>4. Removed(task, task', c)
  <2> DEFINE S == task'
  <2>1. S = gomp_clear_parent(task, c)
    BY <1>1
  <2> HIDE DEF S, c
  <2>2. Removed(task, S, c)
    BY <1>1, <1>3, <2>1, NestedRemoved
  <2> QED
    BY <2>2 DEF S, c
<1>5. Graph(task')
  BY <1>3, <1>4, RemovedGraph
<1>6. Counts(task', wait')
  <2>1. Marked(task, c) = {}
    BY <1>2, <1>3, MarkedCount
  <2>2. \A q \in AnyTask : Marked(task', q) = Marked(task, q) \ {c}
    BY <1>3, <1>4, <2>1, MarkedRemoved
  <2>3. ~task[c].parent_depends_on
    BY <1>1, <1>3 DEF Graph, Families, DeferredIn
  <2>4. \A q \in AnyTask : Marked(task', q) = Marked(task, q)
    BY <2>2, <2>3 DEF Marked
  <2> QED
    BY <1>1, <1>3, <2>4 DEF Counts
<1>7. Popped(stack, stack', th, "user")
  BY <1>1, PopToUser DEF Inv
<1>8. Frames(stack) /\ Running(stack, task, wait)
  BY DEF Inv
<1>9. Frames(stack')
  BY <1>7, <1>8, PoppedFrames
<1>10. Running(stack', task', wait')
  <2>1. \A q \in AnyTask : wait[q].n_depend = 0 => wait'[q].n_depend = 0
    BY <1>1
  <2> DEFINE place == "user"
  <2>2. place = "user" /\ Popped(stack, stack', th, place) /\ c = Cur(th)
    BY <1>7
  <2> HIDE DEF place, c
  <2> QED
    BY <1>1, <1>3, <1>4, <1>8, <2>1, <2>2, RunningPopped
<1> QED
  BY <1>1, <1>5, <1>6, <1>9, <1>10 DEF Inv

(* Task c changes its kind to the one of a task that runs.                 *)
Begun(tk, S, c, kind) ==
  /\ S \in [AnyTask -> TaskRec]
  /\ \A u \in AnyTask :
       /\ S[u].parent = tk[u].parent /\ S[u].origin = tk[u].origin /\ S[u].depend = tk[u].depend
       /\ S[u].num_dependees = tk[u].num_dependees /\ S[u].dependers = tk[u].dependers
       /\ S[u].parent_depends_on = tk[u].parent_depends_on /\ S[u].depend_hash = tk[u].depend_hash
       /\ S[u].taskgroup = tk[u].taskgroup
       /\ u # c => S[u].kind = tk[u].kind
  /\ S[c].kind = kind

(* A change of the kind is all that a task's start changes in the graph.   *)
LEMMA BegunIs ==
  ASSUME NEW tk \in [AnyTask -> TaskRec], NEW c \in AnyTask, NEW kind \in Active, NEW S,
         S = [tk EXCEPT ![c].kind = kind]
  PROVE  Begun(tk, S, c, kind)
<1> DEFINE R == [tk[c] EXCEPT !.kind = kind]
<1>1. tk[c] \in TaskRec /\ kind \in Kinds
  BY DEF Active, Kinds
<1>2. R \in TaskRec
  BY <1>1 DEF TaskRec
<1>3. /\ R.parent = tk[c].parent /\ R.origin = tk[c].origin /\ R.depend = tk[c].depend
      /\ R.num_dependees = tk[c].num_dependees /\ R.dependers = tk[c].dependers
      /\ R.parent_depends_on = tk[c].parent_depends_on /\ R.depend_hash = tk[c].depend_hash
      /\ R.taskgroup = tk[c].taskgroup /\ R.kind = kind
  BY <1>1 DEF TaskRec
<1>4. S = [tk EXCEPT ![c] = R]
  OBVIOUS
<1> HIDE DEF R
<1>5. S \in [AnyTask -> TaskRec] /\ S[c] = R /\ \A u \in AnyTask \ {c} : S[u] = tk[u]
  BY <1>2, <1>4
<1> QED
  BY <1>3, <1>5 DEF Begun

(* A ready task starts to run.                                             *)
LEMMA BegunReady ==
  ASSUME Inv, NEW c \in Task, task[c].kind = "waiting", NEW S, Begun(task, S, c, "running")
  PROVE  Graph(S) /\ Counts(S, wait)
<1>1. Alike(task, S) /\ c \in AnyTask
  BY DEF Begun, Alike, AnyTask
<1>2. \A t, u \in Task : task[t].kind = "new" /\ S[t].kind = "nested" /\ AliveIn(task, u)
        => ~Conflicts(task, t, u)
  BY DEF Begun, AnyTask
<1>3. Graph(task)
  BY DEF Inv
<1>4. Graph(S)
  BY <1>1, <1>2, <1>3, AlikeGraph
<1>5. \A q \in AnyTask : Marked(S, q) = Marked(task, q)
  BY DEF Begun, Marked, AnyTask
<1> QED
  BY <1>4, <1>5 DEF Counts, Inv

(* A construct that waits runs c, or finishes it if it is cancelled.       *)
LEMMA StepRun ==
  ASSUME Inv, NEW th \in Thread, NEW c \in Task, task[c].kind = "waiting",
         Top(th).at = "taskwait" => task[c].parent = Cur(th), RunTask(th, c)
  PROVE  Inv'
<1> DEFINE p == Cur(th)
           tk == [task EXCEPT ![c].kind = "running"]
           tm == [team EXCEPT !.pending = @ /\ Ready(tk) # {}]
<1>1. task \in [AnyTask -> TaskRec] /\ "running" \in Active /\ c \in AnyTask
  BY DEF Inv, Graph, Active, AnyTask
<1>2. Begun(task, tk, c, "running")
  <2> DEFINE k == "running"
  <2>1. k \in Active /\ tk = [task EXCEPT ![c].kind = k]
    BY DEF Active
  <2> HIDE DEF k, tk
  <2>2. Begun(task, tk, c, k)
    BY <1>1, <2>1, BegunIs
  <2> QED
    BY <2>2 DEF k
<1>3. \/ task' = tk /\ wait' = wait /\ group' = group
         /\ stack' = [stack EXCEPT ![th] = Append(@, [task |-> c, at |-> "user"])]
      \/ FinishTask(tk, tm, c, Top(th).at) /\ stack' = stack
  BY DEF RunTask
<1> HIDE DEF tk, tm
<1>4. Graph(tk) /\ Counts(tk, wait)
  BY <1>2, BegunReady
<1>5. /\ p \in AnyTask /\ task[p].kind \in Active
      /\ Top(th).at \notin Depending => wait[p].n_depend = 0
      /\ Top(th).at \in Grouped => task[p].taskgroup # Null
      /\ \A u \in Task : u \in AnyTask
      /\ \A u \in Task : task[u].kind \in Active => task[u].origin \in AnyTask
  BY CurIs
<1>6. /\ \A h \in Thread : \A i \in DOMAIN stack[h] : stack[h][i].task # c
      /\ wait[c].n_depend = 0 /\ task[c].kind \notin Active
      /\ \A u \in Task : UndeferredIn(task, u) => task[u].origin # c
  <2>1. task[c].kind \notin Active
    BY DEF Active
  <2> QED
    BY <2>1, NotStarted
<1>7. /\ tk[c].kind = "running"
      /\ \A u \in AnyTask :
           /\ tk[u].parent = task[u].parent /\ tk[u].origin = task[u].origin
           /\ tk[u].parent_depends_on = task[u].parent_depends_on
           /\ tk[u].taskgroup = task[u].taskgroup
           /\ u # c => tk[u].kind = task[u].kind
  BY <1>2 DEF Begun
<1>8. Frames(stack) /\ Running(stack, task, wait)
  BY DEF Inv
<1>9. CASE /\ task' = tk /\ wait' = wait /\ group' = group
           /\ stack' = [stack EXCEPT ![th] = Append(@, [task |-> c, at |-> "user"])]
  <2>1. Pushed(stack, stack', th, c)
    BY <1>1, <1>8, <1>9, PushIs
  <2>2. Frames(stack')
    BY <1>6, <1>8, <2>1, PushedFrames
  <2>3. Running(stack', task', wait')
    <3>1. /\ \A u \in AnyTask \ {c} :
               /\ task'[u].kind = task[u].kind /\ task'[u].origin = task[u].origin
               /\ task'[u].parent = task[u].parent /\ task'[u].taskgroup = task[u].taskgroup
          /\ \A u \in AnyTask : wait[u].n_depend = wait'[u].n_depend
          /\ task'[c].kind \in Active
      BY <1>1, <1>7, <1>9
    <3>2. /\ Top(th).at = "taskwait" => task'[c].parent = Cur(th)
          /\ task'[c].kind = "nested" => /\ task'[c].origin = Cur(th) /\ Top(th).at = "depend"
                                         /\ wait'[Cur(th)].n_depend = 0
      BY <1>1, <1>7, <1>9
    <3> QED
      BY <1>5, <1>6, <1>8, <2>1, <3>1, <3>2, RunningPushed
  <2> QED
    BY <1>4, <1>9, <2>2, <2>3 DEF Inv
<1>10. CASE FinishTask(tk, tm, c, Top(th).at) /\ stack' = stack
  <2> DEFINE at == Top(th).at
  <2>1. Ending(tk, c)
    <3>1. \A u \in Task : UndeferredIn(tk, u) => tk[u].origin # c
      BY <1>1, <1>5, <1>6, <1>7 DEF UndeferredIn
    <3> QED
      BY <1>7, <3>1 DEF Ending
  <2>2. at = "taskwait" => ~tk[c].parent_depends_on
    <3> SUFFICES ASSUME at = "taskwait" PROVE ~tk[c].parent_depends_on
      OBVIOUS
    <3>1. task[c].parent = p /\ wait[p].n_depend = 0
      BY <1>5 DEF Depending
    <3>2. Marked(tk, p) = {}
      BY <1>4, <1>5, <3>1, MarkedCount
    <3> QED
      BY <1>1, <1>7, <3>1, <3>2 DEF Marked
  <2>3. FinishTask(tk, tm, c, at)
    BY <1>10
  <2> HIDE DEF at
  <2>4. /\ Removed(tk, task', c) /\ Graph(task') /\ group' \in [Group -> GroupRec]
        /\ wait' \in [AnyTask -> WaitRec] /\ Counts(task', wait')
        /\ \A q \in AnyTask : wait[q].n_depend = 0 => wait'[q].n_depend = 0
    BY <1>4, <1>6, <2>1, <2>2, <2>3, FinishIs
  <2>5. /\ task'[c].kind = "done"
        /\ \A u \in AnyTask \ {c} :
             /\ task'[u].origin = task[u].origin /\ task'[u].taskgroup = task[u].taskgroup
             /\ task'[u].parent = task[u].parent \/ task[u].parent = c
             /\ task'[u].kind = task[u].kind \/ (task[u].kind = "depends" /\ task'[u].kind = "waiting")
    <3>1. Range(tk[c].dependers) \subseteq Task
      <4>1. tk[c].dependers \in Seq(Task)
        BY <1>1, <1>4 DEF Graph, TaskRec
      <4> QED
        BY <4>1 DEF Range
    <3>2. \A u \in Range(tk[c].dependers) : tk[u].kind = "depends"
      BY <1>4, <3>1 DEF Graph, Edges
    <3>3. ASSUME NEW u \in AnyTask \ {c}
          PROVE  /\ task'[u].origin = tk[u].origin /\ task'[u].taskgroup = tk[u].taskgroup
                 /\ task'[u].parent = tk[u].parent \/ tk[u].parent = c
                 /\ task'[u].kind = tk[u].kind \/ (tk[u].kind = "depends" /\ task'[u].kind = "waiting")
      BY <2>4, <3>2 DEF Removed
    <3>4. task'[c].kind = "done"
      BY <2>4 DEF Removed
    <3> QED
      BY <1>7, <3>3, <3>4
  <2>6. p # c
    BY <1>5, <1>6
  <2>7. Kept(task, task', wait, wait', p, at)
    <3>1. ASSUME NEW u \in AnyTask
          PROVE  /\ task[u].kind \in Active => task'[u].kind \in Active
                 /\ \A q \in AnyTask : task[u].kind \in Active /\ task[q].kind \in Active
                                        /\ task[u].parent = q => task'[u].parent = q
                 /\ task[u].taskgroup # Null /\ task[u].kind \in Active => task'[u].taskgroup # Null
                 /\ wait[u].n_depend = 0 => wait'[u].n_depend = 0
      <4>1. CASE u = c
        BY <1>6, <2>4, <4>1
      <4>2. CASE u # c
        BY <1>6, <2>4, <2>5, <4>2 DEF Active
      <4> QED
        BY <4>1, <4>2
    <3>2. /\ \A u \in Task : task'[u].kind = "new" => task[u].kind = "new" /\ task'[u].origin = task[u].origin
          /\ \A u \in Task : task'[u].kind = "nested" => task[u].kind = "nested" /\ task'[u].origin = task[u].origin
      BY <1>5, <2>5
    <3>3. at \notin Depending => wait'[p].n_depend = 0
      BY <1>5, <2>4 DEF at
    <3>4. at \in Grouped => task'[p].taskgroup # Null
      BY <1>5, <2>5, <2>6 DEF at
    <3> QED
      BY <3>1, <3>2, <3>3, <3>4 DEF Kept
  <2>8. Moved(stack, stack', th, at)
    BY <1>8, <1>10, StayMoved DEF at
  <2>9. /\ \A u \in Task : task'[u].kind = "nested" => task[u].origin \in AnyTask
        /\ Top(th).at \in Depending => at \in Depending
    BY <1>5, <1>6, <2>5 DEF Active, at
  <2>10. Running(stack', task', wait')
    BY <1>8, <2>7, <2>8, <2>9, RunningMoved
  <2> QED
    BY <1>8, <1>10, <2>4, <2>10 DEF Inv
<1> QED
  BY <1>3, <1>9, <1>10

(* The construct of an undeferred task waits, runs a child, or starts the  *)
(* task: the parent has counted everything that is in conflict with it.    *)
LEMMA StepDependLoop ==
  ASSUME Inv, NEW th \in Thread, DependLoop(th)
  PROVE  Inv'
<1> DEFINE p == Cur(th)
           ready == ChildrenQueue(task, p) \cap Ready(task)
<1>1. Top(th).at = "depend" /\ "depend" \in Depending /\ "depend" # "taskwait"
  BY DEF DependLoop, At, Depending
<1>2. /\ p \in AnyTask /\ task[p].kind \in Active /\ \A u \in Task : u \in AnyTask
      /\ \A u \in Task : task[u].kind \in Active => task[u].origin \in AnyTask
  BY CurIs
<1>3. /\ task \in [AnyTask -> TaskRec] /\ wait \in [AnyTask -> WaitRec] /\ Graph(task)
      /\ Frames(stack) /\ Running(stack, task, wait) /\ Counts(task, wait)
  BY DEF Inv, Graph
<1>4. ASSUME NEW c \in ready, RunTask(th, c)
      PROVE  Inv'
  <2>1. c \in Task /\ task[c].kind = "waiting"
    BY DEF Ready
  <2> QED
    BY <1>1, <1>4, <2>1, StepRun
<1>5. ASSUME wait' = [wait EXCEPT ![p].in_depend_wait = TRUE], Goto(th, "depend_sem"),
             task' = task, group' = group
      PROVE  Inv'
  <2>1. "depend_sem" \in Places /\ "depend_sem" \in Depending /\ "depend_sem" \notin Grouped
    BY DEF Places, Depending, Grouped
  <2>2. wait' \in [AnyTask -> WaitRec] /\ \A q \in AnyTask : wait'[q].n_depend = wait[q].n_depend
    BY <1>2, <1>3, <1>5 DEF WaitRec
  <2>3. Moved(stack, stack', th, "depend_sem")
    BY <1>3, <1>5, <2>1, GotoMoved
  <2>4. SameTasks(task, task', p)
    BY <1>5, TasksSame
  <2>5. InPlace(th, "depend_sem")
    BY <1>1, <1>5, <2>1, <2>2, <2>3, <2>4 DEF InPlace, Inv
  <2> QED
    BY <2>5, StepInPlace
<1>6. ASSUME wait[p].n_depend = 0, NEW t \in Task, task[t].kind = "new", task[t].parent = p,
             task' = [task EXCEPT ![t].kind = "nested"],
             stack' = [stack EXCEPT ![th] = Append(@, [task |-> t, at |-> "user"])],
             wait' = [wait EXCEPT ![p] = NoWait], group' = group
      PROVE  Inv'
  <2> DEFINE S == task'
  <2>1. Begun(task, S, t, "nested")
    <3> DEFINE k == "nested"
    <3>1. k \in Active /\ S = [task EXCEPT ![t].kind = k]
      BY <1>6 DEF Active
    <3> HIDE DEF k, S
    <3>2. Begun(task, S, t, k)
      BY <1>2, <1>3, <3>1, BegunIs
    <3> QED
      BY <3>2 DEF k
  <2>2. task[t].origin = p /\ AliveIn(task, t)
    BY <1>3, <1>6 DEF Graph, Families, UndeferredIn, AliveIn
  <2>3. Marked(task, p) = {}
    BY <1>2, <1>3, <1>6, MarkedCount
  <2>4. /\ S[t].kind = "nested"
        /\ \A u \in AnyTask :
             /\ S[u].parent = task[u].parent /\ S[u].origin = task[u].origin
             /\ S[u].parent_depends_on = task[u].parent_depends_on
             /\ S[u].taskgroup = task[u].taskgroup
             /\ u # t => S[u].kind = task[u].kind
    BY <2>1 DEF Begun
  <2>5. Alike(task, S)
    <3> HIDE DEF S
    <3> QED
      BY <1>2, <1>6, <2>1 DEF Begun, Alike
  <2>6. ASSUME NEW u \in Task, AliveIn(task, u), Conflicts(task, t, u)
        PROVE  FALSE
    <3>1. task[u].parent_depends_on /\ task[u].origin = p
      BY <1>3, <1>6, <2>2, <2>6 DEF Graph, Marks, Conflicts
    <3>2. task[u].parent \in {Null, p} /\ (task[u].parent = Null => task[p].kind = "done")
      BY <1>3, <2>6, <3>1 DEF Graph, Families
    <3>3. task[u].parent = p
      BY <1>2, <3>2 DEF Active
    <3> QED
      BY <2>3, <3>1, <3>3 DEF Marked
  <2>7. Graph(task')
    <3>1. \A v, u \in Task : task[v].kind = "new" /\ S[v].kind = "nested" /\ AliveIn(task, u)
            => ~Conflicts(task, v, u)
      BY <1>2, <2>4, <2>6
    <3> HIDE DEF S
    <3>2. Graph(S)
      BY <1>3, <2>5, <3>1, AlikeGraph
    <3> QED
      BY <3>2 DEF S
  <2>8. wait' \in [AnyTask -> WaitRec] /\ \A q \in AnyTask : wait[q].n_depend = wait'[q].n_depend
    <3>1. NoWait \in WaitRec /\ NoWait.n_depend = 0
      BY DEF NoWait, WaitRec
    <3> QED
      BY <1>2, <1>3, <1>6, <3>1
  <2>9. Counts(task', wait')
    <3>1. \A q \in AnyTask : Marked(task', q) = Marked(task, q)
      BY <1>2, <2>4 DEF Marked
    <3> QED
      BY <1>3, <2>8, <3>1 DEF Counts
  <2>10. Pushed(stack, stack', th, t)
    BY <1>2, <1>3, <1>6, PushIs
  <2>11. task[t].kind \notin Active /\ task'[t].kind \in Active
    BY <1>6, <2>4 DEF Active
  <2>12. \A h \in Thread : \A i \in DOMAIN stack[h] : stack[h][i].task # t
    BY <2>11, NotStarted
  <2>13. Frames(stack')
    BY <1>3, <2>10, <2>12, PushedFrames
  <2>14. Running(stack', task', wait')
    <3>1. /\ \A u \in AnyTask \ {t} :
               /\ task'[u].kind = task[u].kind /\ task'[u].origin = task[u].origin
               /\ task'[u].parent = task[u].parent /\ task'[u].taskgroup = task[u].taskgroup
          /\ Top(th).at = "taskwait" => task'[t].parent = Cur(th)
          /\ task'[t].kind = "nested" => /\ task'[t].origin = Cur(th) /\ Top(th).at = "depend"
                                         /\ wait'[Cur(th)].n_depend = 0
      BY <1>1, <1>2, <1>6, <2>2, <2>4, <2>8
    <3> QED
      BY <1>2, <1>3, <2>8, <2>10, <2>11, <3>1, RunningPushed
  <2> QED
    BY <1>6, <2>7, <2>8, <2>9, <2>13, <2>14 DEF Inv
<1> QED
  BY <1>4, <1>5, <1>6 DEF DependLoop

(* A thread goes elsewhere, and nothing else happens to the tasks.         *)
LEMMA StepGoto ==
  ASSUME Inv, NEW th \in Thread, NEW place \in Places, Goto(th, place), task' = task,
         wait' \in [AnyTask -> WaitRec], \A q \in AnyTask : wait'[q].n_depend = wait[q].n_depend,
         group' \in [Group -> GroupRec], Top(th).at \in Depending <=> place \in Depending,
         place \in Grouped => task[Cur(th)].taskgroup # Null
  PROVE  Inv'
<1>1. Moved(stack, stack', th, place)
  BY GotoMoved DEF Inv
<1>2. SameTasks(task, task', Cur(th))
  BY TasksSame
<1>3. InPlace(th, place)
  BY <1>1, <1>2 DEF InPlace
<1> QED
  BY <1>3, StepInPlace

(* The steps of GOMP_taskwait and of its semaphore keep the invariant.     *)
LEMMA StepTaskwait ==
  ASSUME Inv, NEW th \in Thread,
         GOMP_taskwait(th) \/ TaskwaitLoop(th) \/ TaskwaitSem(th)
  PROVE  Inv'
<1> DEFINE p == Cur(th)
<1>1. /\ p \in AnyTask /\ \A u \in Task : u \in AnyTask
      /\ Top(th).at \notin Depending => wait[p].n_depend = 0
  BY CurIs
<1>2. wait \in [AnyTask -> WaitRec] /\ group \in [Group -> GroupRec]
  BY DEF Inv
<1>3. CASE GOMP_taskwait(th)
  <2>1. /\ Top(th).at = "user" /\ Goto(th, "taskwait") /\ task' = task /\ wait' = wait /\ group' = group
        /\ "taskwait" \in Places /\ "taskwait" \notin Depending /\ "user" \notin Depending
        /\ "taskwait" \notin Grouped
    BY <1>3 DEF GOMP_taskwait, At, Places, Depending, Grouped
  <2> QED
    BY <1>2, <2>1, StepGoto
<1>4. CASE TaskwaitLoop(th)
  <2>1. /\ Top(th).at = "taskwait" /\ "taskwait" \notin Depending
        /\ "user" \in Places /\ "user" \notin Depending /\ "user" \notin Grouped
        /\ "taskwait_sem" \in Places /\ "taskwait_sem" \notin Depending /\ "taskwait_sem" \notin Grouped
    BY <1>4 DEF TaskwaitLoop, At, Places, Depending, Grouped
  <2>2. ASSUME wait' = [wait EXCEPT ![p] = NoWait], Goto(th, "user"), task' = task, group' = group
        PROVE  Inv'
    <3>1. NoWait \in WaitRec /\ NoWait.n_depend = 0
      BY DEF NoWait, WaitRec
    <3>2. wait' \in [AnyTask -> WaitRec] /\ \A q \in AnyTask : wait'[q].n_depend = wait[q].n_depend
      BY <1>1, <1>2, <2>1, <2>2, <3>1
    <3> QED
      BY <1>2, <2>1, <2>2, <3>2, StepGoto
  <2>3. ASSUME NEW c \in ChildrenQueue(task, p) \cap Ready(task), RunTask(th, c)
        PROVE  Inv'
    <3>1. c \in Task /\ task[c].kind = "waiting" /\ task[c].parent = p
      BY DEF Ready, ChildrenQueue
    <3> QED
      BY <2>3, <3>1, StepRun
  <2>4. ASSUME wait' = [wait EXCEPT ![p].on = TRUE, ![p].in_taskwait = TRUE],
               Goto(th, "taskwait_sem"), task' = task, group' = group
        PROVE  Inv'
    <3>1. wait' \in [AnyTask -> WaitRec] /\ \A q \in AnyTask : wait'[q].n_depend = wait[q].n_depend
      <4> DEFINE R == [wait[p] EXCEPT !.on = TRUE, !.in_taskwait = TRUE]
      <4>1. wait[p] \in WaitRec
        BY <1>1, <1>2
      <4>2. R \in WaitRec /\ R.n_depend = wait[p].n_depend
        BY <4>1 DEF WaitRec
      <4>3. wait' = [wait EXCEPT ![p] = R]
        BY <1>1, <1>2, <2>4
      <4> HIDE DEF R
      <4> QED
        BY <1>1, <1>2, <4>2, <4>3
    <3> QED
      BY <1>2, <2>1, <2>4, <3>1, StepGoto
  <2> QED
    BY <1>4, <2>2, <2>3, <2>4 DEF TaskwaitLoop
<1>5. CASE TaskwaitSem(th)
  <2> DEFINE place == IF At(th, "depend_sem") THEN "depend" ELSE "taskwait"
  <2>1. /\ Top(th).at \in {"taskwait_sem", "depend_sem"} /\ Goto(th, place) /\ task' = task /\ group' = group
        /\ wait' = [wait EXCEPT ![p].sem = @ - 1]
    BY <1>5 DEF TaskwaitSem
  <2>2. place \in Places /\ place \notin Grouped /\ (Top(th).at \in Depending <=> place \in Depending)
    BY <2>1 DEF At, Places, Grouped, Depending
  <2>3. wait' \in [AnyTask -> WaitRec] /\ \A q \in AnyTask : wait'[q].n_depend = wait[q].n_depend
    <3> DEFINE m == wait[p].sem - 1
               R == [wait[p] EXCEPT !.sem = m]
    <3>1. wait[p] \in WaitRec
      BY <1>1, <1>2
    <3>2. m \in Int
      BY <3>1 DEF WaitRec
    <3>3. wait' = [wait EXCEPT ![p] = R]
      BY <1>1, <1>2, <2>1
    <3> HIDE DEF m
    <3>4. R \in WaitRec /\ R.n_depend = wait[p].n_depend
      BY <3>1, <3>2 DEF WaitRec
    <3> HIDE DEF R
    <3> QED
      BY <1>1, <1>2, <3>3, <3>4
  <2> HIDE DEF place
  <2> QED
    BY <1>2, <2>1, <2>2, <2>3, StepGoto
<1> QED
  BY <1>3, <1>4, <1>5

(* The current task gets another taskgroup.                                *)
LEMMA RegroupIs ==
  ASSUME NEW tk \in [AnyTask -> TaskRec], NEW p \in AnyTask, NEW g \in Group \cup {Null}, NEW S,
         S = [tk EXCEPT ![p].taskgroup = g]
  PROVE  SameTasks(tk, S, p) /\ S[p].taskgroup = g
<1> DEFINE R == [tk[p] EXCEPT !.taskgroup = g]
<1>1. tk[p] \in TaskRec
  OBVIOUS
<1>2. R \in TaskRec
  BY <1>1 DEF TaskRec
<1>3. /\ R.kind = tk[p].kind
      /\ R.parent = tk[p].parent /\ R.origin = tk[p].origin /\ R.depend = tk[p].depend
      /\ R.num_dependees = tk[p].num_dependees /\ R.dependers = tk[p].dependers
      /\ R.parent_depends_on = tk[p].parent_depends_on /\ R.depend_hash = tk[p].depend_hash
      /\ R.taskgroup = g
  BY <1>1 DEF TaskRec
<1>4. S = [tk EXCEPT ![p] = R]
  OBVIOUS
<1> HIDE DEF R
<1>5. S \in [AnyTask -> TaskRec] /\ S[p] = R /\ \A u \in AnyTask \ {p} : S[u] = tk[u]
  BY <1>2, <1>4
<1> QED
  BY <1>3, <1>5 DEF SameTasks

(* Closing a taskgroup keeps the invariant.                                *)
LEMMA StepClose ==
  ASSUME Inv, NEW th \in Thread, NEW g, g = task[Cur(th)].taskgroup, g # Null,
         Top(th).at \notin Depending, CloseGroup(th, g)
  PROVE  Inv'
<1> DEFINE p == Cur(th)
<1>1. p \in AnyTask
  BY CurIs
<1>2. task \in [AnyTask -> TaskRec] /\ wait \in [AnyTask -> WaitRec] /\ group \in [Group -> GroupRec]
  BY DEF Inv, Graph
<1>3. g \in Group
  BY <1>1, <1>2 DEF TaskRec
<1>4. /\ task' = [task EXCEPT ![p].taskgroup = group[g].prev] /\ wait' = wait
      /\ group' = [group EXCEPT ![g] = [NoGroup EXCEPT !.state = "freed"]] /\ Goto(th, "user")
  BY DEF CloseGroup
<1>5. group[g].prev \in Group \cup {Null}
  BY <1>2, <1>3 DEF GroupRec
<1>6. SameTasks(task, task', p)
  <2> DEFINE S == task'
             h == group[g].prev
  <2>1. S = [task EXCEPT ![p].taskgroup = h] /\ h \in Group \cup {Null}
    BY <1>4, <1>5
  <2> HIDE DEF S, h, p
  <2>2. SameTasks(task, S, p)
    BY <1>1, <1>2, <2>1, RegroupIs
  <2> QED
    BY <2>2 DEF S
<1>7. group' \in [Group -> GroupRec]
  <2>1. NoGroup \in GroupRec
    BY DEF NoGroup, GroupRec, Family
  <2>2. [NoGroup EXCEPT !.state = "freed"] \in GroupRec
    BY <2>1 DEF GroupRec
  <2> QED
    BY <1>2, <1>4, <2>2
<1>8. Moved(stack, stack', th, "user") /\ "user" \notin Depending /\ "user" \notin Grouped
  <2>1. "user" \in Places
    BY DEF Places
  <2> QED
    BY <1>4, <2>1, GotoMoved DEF Inv, Depending, Grouped
<1>9. InPlace(th, "user")
  BY <1>2, <1>4, <1>6, <1>7, <1>8 DEF InPlace
<1> QED
  BY <1>9, StepInPlace

(* The steps of a taskgroup keep the invariant.                            *)
LEMMA StepTaskgroup ==
  ASSUME Inv, NEW th \in Thread,
         \/ \E g \in Group : GOMP_taskgroup_start(th, g)
         \/ GOMP_cancel_taskgroup(th) \/ GOMP_taskgroup_end(th)
         \/ TaskgroupLoop(th) \/ TaskgroupSem(th)
  PROVE  Inv'
<1> DEFINE p == Cur(th)
<1>1. p \in AnyTask /\ (Top(th).at \in Grouped => task[p].taskgroup # Null)
  BY CurIs
<1>2. task \in [AnyTask -> TaskRec] /\ wait \in [AnyTask -> WaitRec] /\ group \in [Group -> GroupRec]
  BY DEF Inv, Graph
<1>3. task[p].taskgroup \in Group \cup {Null}
  BY <1>1, <1>2 DEF TaskRec
<1>4. /\ "user" \notin Depending /\ "user" \notin Grouped
      /\ "taskgroup" \notin Depending /\ "taskgroup" \in Grouped /\ "taskgroup" \in Places
      /\ "taskgroup_sem" \notin Depending /\ "taskgroup_sem" \in Grouped /\ "taskgroup_sem" \in Places
  BY DEF Depending, Grouped, Places
<1>5. ASSUME NEW g \in Group, GOMP_taskgroup_start(th, g)
      PROVE  Inv'
  <2>1. /\ Top(th).at = "user" /\ wait' = wait /\ stack' = stack
        /\ group' = [group EXCEPT ![g] = [NoGroup EXCEPT !.state = "open", !.owner = p,
                                                         !.prev = task[p].taskgroup]]
        /\ task' = [task EXCEPT ![p].taskgroup = g]
    BY <1>5 DEF GOMP_taskgroup_start, At
  <2>2. SameTasks(task, task', p) /\ task'[p].taskgroup = g
    <3> DEFINE S == task'
               h == g
    <3>1. S = [task EXCEPT ![p].taskgroup = h] /\ h \in Group \cup {Null}
      BY <2>1
    <3> HIDE DEF S, h, p
    <3>2. p \in AnyTask /\ task \in [AnyTask -> TaskRec]
      BY <1>1, <1>2
    <3>3. SameTasks(task, S, p)
      BY <3>1, <3>2, RegroupIs
    <3>4. task[p] \in TaskRec
      BY <3>2
    <3>5. S[p] = [task[p] EXCEPT !.taskgroup = h]
      BY <3>1, <3>2
    <3>6. S[p].taskgroup = h
      BY <3>4, <3>5 DEF TaskRec
    <3> QED
      BY <3>3, <3>6 DEF S, h
  <2>3. g # Null
    BY ConstantsOK
  <2>4. group' \in [Group -> GroupRec]
    <3> DEFINE h == task[p].taskgroup
               R == [NoGroup EXCEPT !.state = "open", !.owner = p, !.prev = h]
    <3>1. NoGroup \in GroupRec
      BY DEF NoGroup, GroupRec, Family
    <3>2. p \in Family /\ h \in Group \cup {Null}
      BY <1>1, <1>3 DEF Family
    <3>3. group' = [group EXCEPT ![g] = R]
      BY <2>1
    <3> HIDE DEF h, p
    <3>4. R \in GroupRec
      BY <3>1, <3>2 DEF GroupRec
    <3> HIDE DEF R
    <3> QED
      BY <1>2, <3>3, <3>4
  <2>5. Moved(stack, stack', th, "user")
    BY <2>1, StayMoved DEF Inv
  <2>6. InPlace(th, "user")
    BY <1>2, <1>4, <2>1, <2>2, <2>3, <2>4, <2>5 DEF InPlace
  <2> QED
    BY <2>6, StepInPlace
<1>6. CASE GOMP_cancel_taskgroup(th)
  <2> DEFINE g == task[p].taskgroup
  <2>1. /\ Top(th).at = "user" /\ wait' = wait /\ stack' = stack /\ task' = task /\ g # Null
        /\ group' = [group EXCEPT ![g].cancelled = TRUE]
    BY <1>6 DEF GOMP_cancel_taskgroup, At
  <2>2. group' \in [Group -> GroupRec]
    BY <1>2, <1>3, <2>1, GroupUpdate
  <2>3. Moved(stack, stack', th, "user") /\ SameTasks(task, task', p)
    BY <2>1, StayMoved, TasksSame DEF Inv
  <2>4. InPlace(th, "user")
    BY <1>2, <1>4, <2>1, <2>2, <2>3 DEF InPlace
  <2> QED
    BY <2>4, StepInPlace
<1>7. CASE GOMP_taskgroup_end(th)
  <2> DEFINE g == task[p].taskgroup
  <2>1. /\ Top(th).at = "user" /\ g # Null
        /\ \/ CloseGroup(th, g)
           \/ Goto(th, "taskgroup") /\ task' = task /\ wait' = wait /\ group' = group
    BY <1>7 DEF GOMP_taskgroup_end, At
  <2>2. CASE CloseGroup(th, g)
    BY <1>4, <2>1, <2>2, StepClose
  <2>3. CASE Goto(th, "taskgroup") /\ task' = task /\ wait' = wait /\ group' = group
    BY <1>2, <1>4, <2>1, <2>3, StepGoto
  <2> QED
    BY <2>1, <2>2, <2>3
<1>8. CASE TaskgroupLoop(th)
  <2> DEFINE g == task[p].taskgroup
  <2>1. /\ Top(th).at = "taskgroup" /\ g # Null /\ g \in Group
        /\ \/ CloseGroup(th, g)
           \/ \E c \in GroupPick(th, g) : RunTask(th, c)
           \/ /\ group' = [group EXCEPT ![g].in_taskgroup_wait = TRUE]
              /\ Goto(th, "taskgroup_sem") /\ task' = task /\ wait' = wait
    BY <1>1, <1>3, <1>4, <1>8 DEF TaskgroupLoop, At
  <2>2. CASE CloseGroup(th, g)
    BY <1>4, <2>1, <2>2, StepClose
  <2>3. ASSUME NEW c \in GroupPick(th, g), RunTask(th, c)
        PROVE  Inv'
    <3>1. c \in Task /\ task[c].kind = "waiting"
      BY DEF GroupPick, Ready
    <3>2. Top(th).at # "taskwait"
      BY <2>1
    <3> QED
      BY <2>3, <3>1, <3>2, StepRun
  <2>4. CASE /\ group' = [group EXCEPT ![g].in_taskgroup_wait = TRUE]
             /\ Goto(th, "taskgroup_sem") /\ task' = task /\ wait' = wait
    <3>1. group' \in [Group -> GroupRec]
      BY <1>2, <2>1, <2>4, GroupUpdate
    <3> QED
      BY <1>2, <1>4, <2>1, <2>4, <3>1, StepGoto
  <2> QED
    BY <2>1, <2>2, <2>3, <2>4
<1>9. CASE TaskgroupSem(th)
  <2> DEFINE g == task[p].taskgroup
  <2>1. /\ Top(th).at = "taskgroup_sem" /\ g # Null /\ g \in Group
        /\ group' = [group EXCEPT ![g].sem = @ - 1]
        /\ Goto(th, "taskgroup") /\ task' = task /\ wait' = wait
    BY <1>1, <1>3, <1>4, <1>9 DEF TaskgroupSem, At
  <2>2. group' \in [Group -> GroupRec]
    BY <1>2, <2>1, GroupUpdate
  <2> QED
    BY <1>2, <1>4, <2>1, <2>2, StepGoto
<1> QED
  BY <1>5, <1>6, <1>7, <1>8, <1>9

(* The steps of the region's last barrier keep the invariant.              *)
LEMMA StepBarrier ==
  ASSUME Inv, NEW th \in Thread,
         \/ BarrierArrive(th) \/ gomp_barrier_handle_tasks(th) \/ BarrierHelp(th) \/ BarrierLeave(th)
  PROVE  Inv'
<1>1. wait \in [AnyTask -> WaitRec] /\ group \in [Group -> GroupRec]
  BY DEF Inv
<1>2. ASSUME NEW place \in {"barrier", "arrived", "gone"}, Goto(th, place), task' = task,
             wait' = wait, group' = group, Top(th).at \in {"user", "barrier", "arrived"}
      PROVE  Inv'
  <2>1. place \in Places /\ place \notin Grouped /\ place \notin Depending /\ Top(th).at \notin Depending
    BY <1>2 DEF Places, Grouped, Depending
  <2> QED
    BY <1>1, <1>2, <2>1, StepGoto
<1>3. CASE BarrierArrive(th)
  <2> DEFINE place == IF team.arrived + 1 = Cardinality(Thread) /\ ~(team.task_count = 0)
                        THEN "barrier" ELSE "arrived"
  <2>1. /\ Top(th).at = "user" /\ Goto(th, place) /\ task' = task /\ wait' = wait /\ group' = group
    BY <1>3 DEF BarrierArrive, At
  <2>2. place \in {"barrier", "arrived", "gone"}
    OBVIOUS
  <2> HIDE DEF place
  <2> QED
    BY <1>2, <2>1, <2>2
<1>4. CASE gomp_barrier_handle_tasks(th)
  <2>1. /\ Top(th).at = "barrier"
        /\ \/ \E c \in Ready(task) : RunTask(th, c)
           \/ Goto(th, "arrived") /\ task' = task /\ wait' = wait /\ group' = group
    BY <1>4 DEF gomp_barrier_handle_tasks, At
  <2>2. ASSUME NEW c \in Ready(task), RunTask(th, c)
        PROVE  Inv'
    <3>1. c \in Task /\ task[c].kind = "waiting" /\ Top(th).at # "taskwait"
      BY <2>1 DEF Ready
    <3> QED
      BY <2>2, <3>1, StepRun
  <2> QED
    BY <1>2, <2>1, <2>2
<1>5. CASE BarrierHelp(th)
  BY <1>2, <1>5 DEF BarrierHelp, At
<1>6. CASE BarrierLeave(th)
  BY <1>2, <1>6 DEF BarrierLeave, At
<1> QED
  BY <1>3, <1>4, <1>5, <1>6

(* The records that a region begins with: its implicit tasks run, and no   *)
(* explicit one exists yet.                                                *)
LEMMA InitTasks ==
  ASSUME Init
  PROVE  /\ task \in [AnyTask -> TaskRec] /\ \A t \in AnyTask : Blank(task[t])
         /\ \A t \in AnyTask : task[t].kind = IF t \in Thread THEN "nested" ELSE "none"
         /\ Thread \cap Task = {}
<1> DEFINE k(t) == IF t \in Thread THEN "nested" ELSE "none"
<1>1. task = [t \in AnyTask |-> gomp_init_task(k(t), Null, "TIED", Null)]
  BY DEF Init
<1>2. Null \in Family /\ "TIED" \in Types /\ Null \in Group \cup {Null} /\ <<>> \in Clauses \cup {<<>>}
  BY DEF Family, Types
<1>3. ASSUME NEW t \in AnyTask
      PROVE  task[t] \in TaskRec /\ Blank(task[t]) /\ task[t].kind = k(t)
  <2> DEFINE R == task[t]
             o == Null
             kind == k(t)
             type == "TIED"
             h == [a \in Addr |-> <<>>]
  <2>1. R = [kind |-> kind, parent |-> o, origin |-> o, type |-> type, queues |-> type,
             taskgroup |-> o, member |-> o, depend |-> <<>>, num_dependees |-> 0,
             dependers |-> <<>>, parent_depends_on |-> FALSE, depend_hash |-> h]
    BY <1>1 DEF gomp_init_task
  <2>2. h \in [Addr -> Seq(Entry)] /\ \A a \in Addr : h[a] = <<>>
    OBVIOUS
  <2>3. kind \in Kinds /\ o \in Family /\ type \in Types /\ o \in Group \cup {Null} /\ o = Null
        /\ <<>> \in Clauses \cup {<<>>} /\ <<>> \in Seq(Task)
    BY <1>2 DEF Kinds
  <2> HIDE DEF R, o, kind, type, h
  <2>4. /\ R \in TaskRec /\ R.kind = kind /\ R.parent = o /\ R.origin = o
        /\ R.num_dependees = 0 /\ R.dependers = <<>> /\ ~R.parent_depends_on
        /\ \A a \in Addr : R.depend_hash[a] = <<>>
    <3>1. [kind |-> kind, parent |-> o, origin |-> o, type |-> type, queues |-> type,
           taskgroup |-> o, member |-> o, depend |-> <<>>, num_dependees |-> 0,
           dependers |-> <<>>, parent_depends_on |-> FALSE, depend_hash |-> h] \in TaskRec
      BY <2>2, <2>3, TaskRecord
    <3> QED
      BY <2>1, <2>2, <3>1
  <2>5. Blank(R)
    BY <2>3, <2>4 DEF Blank
  <2> QED
    BY <2>4, <2>5 DEF R, kind
<1>4. task \in [AnyTask -> TaskRec]
  BY <1>1, <1>3
<1>5. Thread \cap Task = {}
  BY ConstantsOK
<1> QED
  BY <1>3, <1>4, <1>5

(* The invariant is true when the region begins.                           *)
LEMMA InitInv ==
  ASSUME Init
  PROVE  Inv
<1>1. /\ task \in [AnyTask -> TaskRec] /\ \A t \in AnyTask : Blank(task[t])
      /\ \A t \in AnyTask : task[t].kind = IF t \in Thread THEN "nested" ELSE "none"
      /\ Thread \cap Task = {}
  BY InitTasks
<1>2. \A t \in Task : task[t].kind = "none" /\ t \in AnyTask /\ Blank(task[t])
  BY <1>1 DEF AnyTask
<1>3. \A th \in Thread : task[th].kind = "nested" /\ th \in AnyTask /\ Blank(task[th])
  BY <1>1 DEF AnyTask
<1>4. \A t \in Task : ~AliveIn(task, t) /\ ~DeferredIn(task, t) /\ ~UndeferredIn(task, t)
  BY <1>2 DEF AliveIn, DeferredIn, UndeferredIn
<1>5. \A t \in AnyTask : ~task[t].parent_depends_on /\ Range(task[t].dependers) = {}
                         /\ task[t].dependers = <<>> /\ task[t].num_dependees = 0
                         /\ \A a \in Addr : task[t].depend_hash[a] = <<>>
  <2>1. Range(<<>>) = {}
    BY DEF Range
  <2> QED
    BY <1>1, <2>1 DEF Blank
<1>6. Families(task)
  <2>1. \A th \in Thread : /\ task[th].kind = "nested" /\ task[th].parent = Null
                           /\ task[th].origin = Null /\ ~task[th].parent_depends_on
    BY <1>3 DEF Blank
  <2> QED
    BY <1>2, <1>4, <1>5, <2>1 DEF Families
<1>7. Edges(task)
  <2>1. \A t \in Task : Dependees(task, t) = {}
    BY <1>2, <1>5 DEF Dependees
  <2>2. Cardinality({}) = 0
    BY FS_EmptySet
  <2>3. \A th \in Thread : task[th].dependers = <<>>
    BY <1>3, <1>5
  <2>4. \A t, u \in Task : t \notin Range(task[u].dependers)
    BY <1>2, <1>5
  <2>5. \A t \in Task : task[t].num_dependees = Cardinality(Dependees(task, t))
    BY <1>2, <1>5, <2>1, <2>2
  <2>6. \A t \in Task : task[t].kind # "depends"
    BY <1>2
  <2> QED
    BY <2>3, <2>4, <2>5, <2>6 DEF Edges
<1>8. Cover(task)
  BY <1>4 DEF Cover
<1>9. Chains(task)
  <2> SUFFICES ASSUME NEW p \in AnyTask, NEW a \in Addr, NEW c, c = task[p].depend_hash[a]
               PROVE  Shape(c) /\ Content(task, p, a, c) /\ (AliveIn(task, p) => Complete(task, p, a, c))
    BY DEF Chains
  <2>1. DOMAIN c = {}
    BY <1>5
  <2> QED
    BY <1>4, <2>1 DEF Shape, Content, Complete
<1>10. Marks(task)
  BY <1>4 DEF Marks
<1>11. Graph(task)
  BY <1>1, <1>6, <1>7, <1>8, <1>9, <1>10 DEF Graph
<1>12. wait = [t \in AnyTask |-> NoWait] /\ NoWait \in WaitRec /\ NoWait.n_depend = 0
  BY DEF Init, NoWait, WaitRec
<1>13. wait \in [AnyTask -> WaitRec] /\ \A p \in AnyTask : wait[p].n_depend = 0
  BY <1>12
<1>14. group \in [Group -> GroupRec]
  <2>1. NoGroup \in GroupRec
    BY DEF NoGroup, GroupRec, Family
  <2> QED
    BY <2>1 DEF Init
<1>15. Counts(task, wait)
  <2>1. \A p \in AnyTask : Marked(task, p) = {}
    BY <1>2, <1>5 DEF Marked
  <2>2. Cardinality({}) = 0
    BY FS_EmptySet
  <2> QED
    BY <1>13, <2>1, <2>2 DEF Counts
<1>16. \A th \in Thread : /\ stack[th] \in Seq(Frame) /\ Len(stack[th]) = 1 /\ DOMAIN stack[th] = {1}
                          /\ stack[th][1].task = th /\ stack[th][1].at = "user"
  <2> SUFFICES ASSUME NEW th \in Thread
               PROVE  /\ stack[th] \in Seq(Frame) /\ Len(stack[th]) = 1 /\ DOMAIN stack[th] = {1}
                      /\ stack[th][1].task = th /\ stack[th][1].at = "user"
    OBVIOUS
  <2> DEFINE f == [task |-> th, at |-> "user"]
  <2>1. stack[th] = <<f>>
    BY DEF Init
  <2>2. f \in Frame /\ f.task = th /\ f.at = "user"
    BY DEF Frame, AnyTask, Places
  <2> HIDE DEF f
  <2> QED
    BY <2>1, <2>2
<1>17. Frames(stack)
  <2>1. stack \in [Thread -> Seq(Frame)]
    <3>1. stack = [th \in Thread |-> stack[th]]
      BY DEF Init
    <3> QED
      BY <1>16, <3>1
  <2> QED
    BY <1>16, <2>1 DEF Frames
<1>18. Running(stack, task, wait)
  <2>1. \A th \in Thread : \A i \in DOMAIN stack[th] : FrameSound(task, wait, stack[th][i])
    <3> SUFFICES ASSUME NEW th \in Thread, NEW i \in DOMAIN stack[th]
                 PROVE  FrameSound(task, wait, stack[th][i])
      OBVIOUS
    <3>1. stack[th][i].task = th /\ stack[th][i].at = "user"
      BY <1>16
    <3> QED
      BY <1>3, <1>13, <3>1 DEF FrameSound, Active, Grouped
  <2>2. \A th \in Thread : \A i, j \in DOMAIN stack[th] : j # i + 1
    BY <1>16
  <2> QED
    BY <1>2, <1>13, <2>1, <2>2 DEF Running
<1> QED
  BY <1>11, <1>13, <1>14, <1>15, <1>17, <1>18 DEF Inv

(* Every step keeps the invariant.                                         *)
LEMMA NextInv ==
  ASSUME Inv, [Next]_vars
  PROVE  Inv'
<1>1. CASE UNCHANGED vars
  <2>1. task' = task /\ wait' = wait /\ group' = group /\ stack' = stack
    BY <1>1 DEF vars
  <2>2. /\ Graph(task)' /\ (wait \in [AnyTask -> WaitRec])' /\ (group \in [Group -> GroupRec])'
        /\ Counts(task, wait)' /\ Frames(stack)' /\ Running(stack, task, wait)'
    BY <2>1 DEF Inv
  <2> QED
    BY <2>2 DEF Inv
<1>2. CASE Next
  <2>1. PICK th \in Thread : User(th, Types, Clauses) \/ Library(th) \/ BarrierHelp(th)
    BY <1>2 DEF Next
  <2>2. CASE User(th, Types, Clauses)
    <3>1. CASE \E t \in Task, type \in Types, clause \in Clauses :
                 \/ GOMP_task_deferred(th, t, type, clause)
                 \/ GOMP_task_undeferred(th, t, type, clause)
      <4>1. PICK t \in Task, type \in Types, clause \in Clauses :
                 \/ GOMP_task_deferred(th, t, type, clause)
                 \/ GOMP_task_undeferred(th, t, type, clause)
        BY <3>1
      <4> QED
        BY <4>1, StepDeferred, StepUndeferred
    <3>2. CASE GOMP_taskwait(th)
      BY <3>2, StepTaskwait
    <3>3. CASE (\E g \in Group : GOMP_taskgroup_start(th, g))
                 \/ GOMP_cancel_taskgroup(th) \/ GOMP_taskgroup_end(th)
      BY <3>3, StepTaskgroup
    <3>4. CASE TaskEnd(th)
      BY <3>4, StepTaskEnd
    <3>5. CASE UndeferredEnd(th)
      BY <3>5, StepUndeferredEnd
    <3>6. CASE BarrierArrive(th)
      BY <3>6, StepBarrier
    <3> QED
      BY <2>2, <3>1, <3>2, <3>3, <3>4, <3>5, <3>6 DEF User
  <2>3. CASE Library(th)
    <3>1. CASE DependLoop(th)
      BY <3>1, StepDependLoop
    <3>2. CASE TaskwaitLoop(th) \/ TaskwaitSem(th)
      BY <3>2, StepTaskwait
    <3>3. CASE TaskgroupLoop(th) \/ TaskgroupSem(th)
      BY <3>3, StepTaskgroup
    <3>4. CASE gomp_barrier_handle_tasks(th) \/ BarrierLeave(th)
      BY <3>4, StepBarrier
    <3> QED
      BY <2>3, <3>1, <3>2, <3>3, <3>4 DEF Library
  <2>4. CASE BarrierHelp(th)
    BY <2>4, StepBarrier
  <2> QED
    BY <2>1, <2>2, <2>3, <2>4
<1> QED
  BY <1>1, <1>2

-----------------------------------------------------------------------------
(* The graph that gomp_task_handle_depend and gomp_task_run_post_* keep is *)
(* sound in every state of every program: parents, edges, hash chains,     *)
(* dependence counts and the threads' stacks agree with each other.        *)
THEOREM DependInvariant == Spec => []Inv
<1>1. Init => Inv
  BY InitInv
<1>2. Inv /\ [Next]_vars => Inv'
  BY NextInv
<1> QED
  BY <1>1, <1>2, PTL DEF Spec

(* No task's function runs, deferred or undeferred, while an earlier       *)
(* sibling with a conflicting depend clause is unfinished, whatever the    *)
(* threads, the clauses and the nesting: gomp_task_handle_depend looks at  *)
(* the live part of a chain only, and the outs it skips are among the      *)
(* dependees of an out that it does not skip.                              *)
THEOREM DependRespected == Spec => []DependencesRespected
<1>1. Inv => DependencesRespected
  <2> SUFFICES ASSUME Inv, NEW t \in Task, NEW u \in Task,
                      task[t].kind \in {"running", "nested"},
                      u < t, Alive(u), task[u].origin = task[t].origin,
                      Conflict(task[t].depend, task[u].depend)
               PROVE  FALSE
    BY DEF DependencesRespected
  <2>1. Graph(task)
    BY DEF Inv
  <2>2. AliveIn(task, u) /\ Conflicts(task, t, u) /\ task[t].kind \in {"waiting", "running", "nested"}
    BY DEF AliveIn, Alive, Conflicts
  <2> QED
    BY <2>1, <2>2, NoConflict
<1> QED
  BY <1>1, DependInvariant, PTL

(* The chains of depend_hash keep their form through every insertion,      *)
(* demotion and removal: one live out at most, the redundant outs behind   *)
(* all live entries, and no entry of a finished task.                      *)
THEOREM DependChains == Spec => []ChainSound
<1>1. Inv => ChainSound
  <2> SUFFICES ASSUME Inv, NEW p \in AnyTask, NEW a \in Addr, NEW c, c = task[p].depend_hash[a],
                      NEW i \in DOMAIN c, NEW j \in DOMAIN c
               PROVE  /\ i < j /\ c[i].redundant_out => c[j].redundant_out
                      /\ i # j /\ ~c[i].in /\ ~c[j].in => c[i].redundant_out \/ c[j].redundant_out
                      /\ Deferred(c[i].task) /\ task[c[i].task].parent = p
    BY DEF ChainSound
  <2>1. Shape(c) /\ Content(task, p, a, c)
    BY DEF Inv, Graph, Chains
  <2>2. i < j /\ c[i].redundant_out => c[j].redundant_out
    BY <2>1 DEF Shape
  <2>3. i # j /\ ~c[i].in /\ ~c[j].in => c[i].redundant_out \/ c[j].redundant_out
    BY <2>1 DEF Shape, LiveOut
  <2>4. Deferred(c[i].task) /\ task[c[i].task].parent = p
    BY <2>1 DEF Content, DeferredIn, Deferred
  <2> QED
    BY <2>2, <2>3, <2>4
<1> QED
  BY <1>1, DependInvariant, PTL

(* n_depend is the number of unfinished children that their parent marked  *)
(* parent_depends_on, whichever construct and thread ends them: the wait   *)
(* of an undeferred task neither ends early nor waits for a task that has  *)
(* been counted already.                                                   *)
THEOREM DependCounts == Spec => []NDependExact
<1>1. Inv => NDependExact
  BY DEF Inv, Counts, Marked, NDependExact
<1> QED
  BY <1>1, DependInvariant, PTL

=============================================================================
