---------------------------- MODULE MCTargetMap ----------------------------
EXTENDS TargetMap, TLC

V(s, e, k) == [start |-> s, end |-> e, kind |-> k]

(* An array of two cells and a variable.                                   *)
MCCell == 0 .. 2

(* A declare target variable, or a declare target link one, or none.       *)
MCImages ==
  {{}} \cup {{[start |-> 2, end |-> 3, refcount |-> r]} : r \in {REFCOUNT_INFINITY, REFCOUNT_LINK}}

Counting ==
  [maps |-> {<<V(0, 1, "alloc")>>, <<V(0, 2, "alloc"), V(2, 3, "alloc")>>,
             <<V(0, 0, "zero_len"), V(2, 3, "firstprivate")>>, <<V(2, 3, "alloc"), V(2, 3, "alloc")>>},
   enters |-> {V(0, 2, "alloc"), V(2, 3, "alloc")},
   exits |-> {<<V(0, 2, "release")>>, <<V(0, 0, "zero_len"), V(2, 3, "delete")>>,
              <<V(0, 0, "delete_zero_len")>>},
   updates |-> {}, associates |-> {V(0, 2, "")}, writes |-> FALSE]

Copying ==
  [maps |-> {<<V(0, 2, "tofrom")>>, <<V(0, 2, "always"), V(2, 3, "tofrom")>>},
   enters |-> {V(0, 2, "tofrom"), V(2, 3, "tofrom")},
   exits |-> {<<V(0, 2, "from"), V(2, 3, "from")>>, <<V(2, 3, "always_from")>>},
   updates |-> {V(0, 1, "from")}, associates |-> {}, writes |-> TRUE]

MCPrograms == {Counting, Copying}

(* The exit data undo enter data, and delete only what no open construct   *)
(* needs; otherwise the code frees what others use, see the README.  What  *)
(* was associated is in no use when it is disassociated.                   *)
Undoes(m) ==
  \A k \in mem_map : Overlap([m EXCEPT !.end = IF m.start = @ THEN @ + 1 ELSE @], key[k]) =>
    \/ key[k].refcount = REFCOUNT_INFINITY
    \/ key[k].dyn > 0 /\ (m.kind \in {"delete", "delete_zero_len"} => OpenRefs(k) = 0)

Unused(v) == \A k \in mem_map : Overlap(v, key[k]) => OpenRefs(k) = 0

(* map(always, tofrom) asks for the host's value to be taken.              *)
HostIsCurrent(ms) == \A i \in DOMAIN ms : ms[i].kind = "always" => \A c \in Cells(ms[i]) : host[c]

SafeNext ==
  \/ \E h \in Thread :
       \/ \E ms \in program.maps :
            HostIsCurrent(ms) /\ (GOMP_target_data(h, ms) \/ GOMP_target(h, ms))
       \/ Finish(h)
       \/ \E m \in program.enters : EnterData(h, m)
       \/ \E ms \in program.exits : (\A i \in DOMAIN ms : Undoes(ms[i])) /\ ExitData(h, ms)
       \/ \E m \in program.updates : Update(h, m)
       \/ \E v \in program.associates :
            omp_target_associate_ptr(h, v) \/ (Unused(v) /\ omp_target_disassociate_ptr(h, v))
  \/ Fatal

Symmetry == Permutations(Thread)

SafeSpec == Init /\ [][SafeNext]_vars
=============================================================================
