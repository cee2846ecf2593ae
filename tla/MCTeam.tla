------------------------------- MODULE MCTeam -------------------------------
(***************************************************************************)
(* The life of teams for model checking: the barrier of a team, the pool   *)
(* of threads that teams are made of, or the pool of task states.          *)
(***************************************************************************)
EXTENDS TeamBarrier, ThreadPool, StatePool

VARIABLE used

mcVars == <<used, vars, poolVars, stateVars>>

Program(i, l, s, r, d) == [ibs |-> i, limit |-> l, sizes |-> s, regions |-> r, depth |-> d]

(* Regions of changing size; nested regions with a limit on the threads;   *)
(* and both with interrupts.                                               *)
MCPrograms == {Program(FALSE, 0, {1, 2, 3}, 4, 1), Program(FALSE, 3, {2, 3}, 3, 2),
               Program(TRUE, 0, {2, 3}, 3, 2)}

MCInit ==
  \/ used = "barrier" /\ Init /\ StateInit /\ PoolInit /\ program = CHOOSE p \in Programs : TRUE
  \/ used = "threads" /\ PoolInit /\ StateInit /\ Init /\ region = "plain"
  \/ used = "states" /\ StateInit /\ Init /\ region = "plain"
                     /\ PoolInit /\ program = CHOOSE p \in Programs : TRUE

MCNext ==
  \/ used = "barrier" /\ Next /\ UNCHANGED <<used, poolVars, stateVars>>
  \/ used = "threads" /\ PoolNext /\ UNCHANGED <<used, vars, stateVars>>
  \/ used = "states" /\ (StateNext \/ Exhausted) /\ UNCHANGED <<used, vars, poolVars>>

(* Threads run and user code ends.                                         *)
MCSpec ==
  /\ MCInit /\ [][MCNext]_mcVars
  /\ \A t \in Thread : WF_vars(used = "barrier" /\ Step(t) /\ UNCHANGED region)
  /\ \A t \in Slots : WF_poolVars(used = "threads" /\ PoolStep(t))
  /\ WF_poolVars(used = "threads" /\ PoolEnd)

(* Every thread passes every barrier of its team, every region ends, and   *)
(* at the end of the program the threads of the pool do.                   *)
TeamsEnd == <>CASE used = "barrier" -> \A t \in Thread : thr[t].pc = "end"
                [] used = "threads" -> Gone
                [] used = "states" -> TRUE
=============================================================================
