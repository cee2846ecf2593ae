------------------------------ MODULE Barrier ------------------------------
(***************************************************************************)
(* What a team barrier promises: the threads pass through Rounds phases,   *)
(* and a thread passes the end of phase r only when every thread has       *)
(* arrived there and every task created until then, by a thread or by      *)
(* another task, has ended.  When the region is cancelled a thread may     *)
(* skip to the last phase, and only to that.                               *)
(***************************************************************************)
EXTENDS Naturals

CONSTANTS Thread, Rounds

VARIABLES arrived,     \* the number of phases whose end t has reached
          passed,      \* the number of phases t has left
          live,        \* the unfinished tasks of each phase
          cancelled

vars == <<arrived, passed, live, cancelled>>

Init == /\ arrived = [t \in Thread |-> 0]
        /\ passed = [t \in Thread |-> 0]
        /\ live = [r \in 1..Rounds |-> 0]
        /\ cancelled = FALSE

Arrive(t) == /\ arrived[t] = passed[t] /\ arrived[t] < Rounds
             /\ arrived' = [arrived EXCEPT ![t] = @ + 1]
             /\ UNCHANGED <<passed, live, cancelled>>

Pass(t) == /\ passed[t] < arrived[t]
           /\ \A s \in Thread : arrived[s] >= arrived[t]
           /\ \A r \in 1..arrived[t] : live[r] = 0
           /\ passed' = [passed EXCEPT ![t] = @ + 1]
           /\ UNCHANGED <<arrived, live, cancelled>>

Cancel == ~cancelled /\ cancelled' = TRUE /\ UNCHANGED <<arrived, passed, live>>

Skip(t) == /\ cancelled /\ passed[t] < Rounds - 1
           /\ arrived' = [arrived EXCEPT ![t] = Rounds - 1]
           /\ passed' = [passed EXCEPT ![t] = Rounds - 1]
           /\ UNCHANGED <<live, cancelled>>

(* A task of phase r is created while a thread is still in that phase, or  *)
(* by another task of it.                                                  *)
Create(r) == /\ live[r] > 0 \/ \E t \in Thread : arrived[t] = r - 1 /\ passed[t] = r - 1
             /\ live' = [live EXCEPT ![r] = @ + 1]
             /\ UNCHANGED <<arrived, passed, cancelled>>

End(r) == /\ live[r] > 0
          /\ live' = [live EXCEPT ![r] = @ - 1]
          /\ UNCHANGED <<arrived, passed, cancelled>>

Next == \/ \E t \in Thread : Arrive(t) \/ Pass(t) \/ Skip(t)
        \/ Cancel
        \/ \E r \in 1..Rounds : Create(r) \/ End(r)

Spec == Init /\ [][Next]_vars
=============================================================================
