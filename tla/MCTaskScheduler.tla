-------------------------- MODULE MCTaskScheduler --------------------------
(***************************************************************************)
(* TaskScheduler for TLC.  The threads are interchangeable: none of the    *)
(* safety properties names one, and no operator chooses among them.        *)
(***************************************************************************)
EXTENDS TaskScheduler, TLC

Symmetry == Permutations(Thread)

Program(types, prios, ops) ==
  [types |-> types, prios |-> prios, ops |-> ops,
   untied_block |-> TRUE, wf_sched |-> FALSE, signal_unblock |-> FALSE]

Cooperative == Program({"TIED", "UNTIED"}, {0}, {"wait", "yield"})

(* With interrupts, and the other value of every setting.                  *)
Preempted == [Program({"TIED", "UNTIED"}, {0, 1}, {"wait", "interrupt"})
              EXCEPT !.untied_block = FALSE, !.wf_sched = TRUE, !.signal_unblock = TRUE]

(* Tied tasks in critical sections are MCTiedCritical.                     *)
Critical == Program({"UNTIED"}, {0}, {"critical"})

MCPrograms == {Cooperative, Preempted, Critical}

MCWait == {Program({"TIED", "UNTIED"}, {0}, {"wait"})}

MCEnds == MCWait \cup {Preempted, Critical}

MCTiedCritical == {Program({"TIED"}, {0}, {"critical"})}
=============================================================================
