----------------------------- MODULE TaskQueue -----------------------------
(***************************************************************************)
(* What a task queue promises: per priority, the tasks that can be picked  *)
(* stand in a line, those the parent waits for in one before it, the       *)
(* running and the blocked ones aside.  A call moves one task, to an end of*)
(* a line or aside, and leaves the order of the others alone.              *)
(***************************************************************************)
EXTENDS Naturals, Sequences, SequencesExt

CONSTANTS Item, Level

VARIABLE q       \* [Level -> [awaited, plain, running, blocked]]

Empty == [awaited |-> <<>>, plain |-> <<>>, running |-> {}, blocked |-> {}]

TQInit == q = [p \in Level |-> Empty]

Without(l, n) == [awaited |-> SelectSeq(l.awaited, LAMBDA m : m # n),
                  plain |-> SelectSeq(l.plain, LAMBDA m : m # n),
                  running |-> l.running \ {n}, blocked |-> l.blocked \ {n}]

(* The ways to put n into a level it is not in.                            *)
With(l, n) == {[l EXCEPT !.awaited = <<n>> \o @], [l EXCEPT !.awaited = Append(@, n)],
               [l EXCEPT !.plain = <<n>> \o @], [l EXCEPT !.plain = Append(@, n)],
               [l EXCEPT !.running = @ \cup {n}], [l EXCEPT !.blocked = @ \cup {n}]}

In(l, n) == Without(l, n) # l

(* From a to b item n enters a level, leaves it or moves within it.        *)
Moved(a, b, n) ==
  \E p \in Level :
    /\ \A r \in Level \ {p} : b[r] = a[r] /\ ~(In(a[r], n) /\ In(b[p], n))
    /\ b[p] \in {Without(a[p], n)} \cup With(Without(a[p], n), n)

TQNext == LET a == q
              b == q'
          IN \E n \in Item : Moved(a, b, n)

TQSpec == TQInit /\ [][TQNext]_q
=============================================================================
