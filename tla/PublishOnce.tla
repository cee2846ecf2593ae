---------------------------- MODULE PublishOnce ----------------------------
(***************************************************************************)
(* What a pointer lock promises: of the threads that get it, the first is  *)
(* told to provide the value (NULL), and all the others receive the one    *)
(* value it provides.                                                      *)
(***************************************************************************)
CONSTANTS Threads, Pointers, NULL, Pending

VARIABLES value,      \* the pointer once it is published, NULL before
          result      \* what gomp_ptrlock_get returned to each thread

Init == value = NULL /\ result = [t \in Threads |-> Pending]

Claim(t) == /\ value = NULL /\ \A s \in Threads : result[s] = Pending
            /\ result' = [result EXCEPT ![t] = NULL]
            /\ UNCHANGED value

Publish(t) == /\ value = NULL /\ result[t] = NULL
              /\ value' \in Pointers
              /\ UNCHANGED result

Receive(t) == /\ value # NULL /\ result[t] = Pending
              /\ result' = [result EXCEPT ![t] = value]
              /\ UNCHANGED value

Next == \E t \in Threads : Claim(t) \/ Publish(t) \/ Receive(t)

Spec == Init /\ [][Next]_<<value, result>>
=============================================================================
