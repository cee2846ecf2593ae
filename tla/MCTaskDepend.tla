---------------------------- MODULE MCTaskDepend ----------------------------
(***************************************************************************)
(* Module TaskDepend for TLC, and the programs its passing run considers:  *)
(* the ones that do not meet the defects the violation runs show.          *)
(***************************************************************************)
EXTENDS TaskDepend

CONSTANTS
  Master,              \* the thread whose implicit task creates tasks
  MaxTask, MaxGroup    \* bounds on what a program creates

VARIABLE program   \* which of the kinds of programs below this one is

MCTask == 1..MaxTask
MCGroup == 1..MaxGroup
MCAddr == {"a", "b"}

In(a) == [addr |-> a, in |-> TRUE]
Out(a) == [addr |-> a, in |-> FALSE]
MCClauses == {<<>>, <<In("a")>>, <<Out("a")>>, <<Out("a"), In("a")>>,
              <<Out("a"), Out("b")>>, <<Out("b"), In("a")>>}

NoClause == {<<>>}

Unfinished(t) == task[t].kind \notin {"none", "done"}

\* Siblings that are alive together have the same type.
SameTypes ==
  \A t, u \in Task : Unfinished(t) /\ Unfinished(u) /\ task[t].origin = task[u].origin
     => task[t].type = task[u].type

\* A task does not end while a child still waits for its dependences.
ParentsStay ==
  \A t \in Task : task[t].kind = "depends" => task[task[t].parent].kind # "done"

\* A taskgroup is opened where no tied explicit task is running below.
UntiedGroups ==
  \A th \in Thread : \A i \in 2..Len(stack[th]) : \A j \in 2..i :
     (\E g \in Group : group[g].state = "open" /\ group[g].owner = stack[th][i].task)
       => task[stack[th][j].task].type = "UNTIED"

Safe == SameTypes /\ ParentsStay /\ UntiedGroups

Explicit == {t \in Task : Unfinished(t)}
Opened == {g \in Group : group[g].state # "none"}

\* One task creates siblings with all kinds of depend clauses, deferred or
\* not; or tasks create nested ones; or they use taskgroups.
Fits ==
  /\ \A t \in Explicit : task[t].origin \in Task \cup {Master}
  /\ program = "chains" =>
       Opened = {} /\ \A t \in Explicit : task[t].origin = Master
  /\ program = "nested" => Opened = {} /\ Explicit \subseteq 1..3
  /\ program = "groups" =>
       \A t \in Explicit : t + Cardinality(Opened) <= 3 /\ task[t].kind \notin {"new", "nested"}

TypesOf == IF program = "chains" THEN {"TIED"} ELSE Types
ClausesOf ==
  CASE program = "chains" -> Clauses
    [] program = "nested" -> {<<>>, <<In("a")>>, <<Out("a")>>}
    [] program = "groups" -> {<<>>, <<Out("a")>>}

SafeStep(th) ==
  /\ UNCHANGED program
  /\ User(th, TypesOf, ClausesOf) \/ Library(th)
  /\ (Safe /\ Fits)'
SafeNext ==
  \E th \in Thread : SafeStep(th) \/ (BarrierHelp(th) /\ UNCHANGED program)

\* Every program.
AnySpec == Init /\ program = "any" /\ [][Next /\ UNCHANGED program]_<<vars, program>>

SafeInit == Init /\ program \in {"chains", "nested", "groups"}

SafeSpec == SafeInit /\ [][SafeNext]_<<vars, program>>
=============================================================================
