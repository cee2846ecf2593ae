----------------------------- MODULE Semaphore -----------------------------
(***************************************************************************)
(* What a counting semaphore promises: a wait passes only by taking one    *)
(* unit that a post, or the initial value, has put there.                  *)
(***************************************************************************)
EXTENDS Naturals

CONSTANT Value                  \* the initial value

VARIABLE count

Init == count = Value
Post == count' = count + 1
Wait == count > 0 /\ count' = count - 1
Next == Post \/ Wait
Spec == Init /\ [][Next]_count
=============================================================================
