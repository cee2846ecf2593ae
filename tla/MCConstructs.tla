---------------------------- MODULE MCConstructs ----------------------------
(***************************************************************************)
(* A team goes through a sequence of work-sharing constructs, or runs two  *)
(* loops with ordered regions one after the other, or a doacross nest.     *)
(***************************************************************************)
EXTENDS WorkShare, Ordered, Doacross

VARIABLE used

L(s, n, w) == [static |-> s, n |-> n, nowait |-> w]

Loops == {L(s, n, w) : s \in BOOLEAN, n \in {0, 2, 4}, w \in BOOLEAN}

MCRegions == {<<a, b>> \in Loops \X Loops :
                /\ b.nowait /\ b.n > 0 /\ a.n + b.n \in {4, 6} /\ a.n # 2
                /\ Apart(<<a, b>>)}

(* Two static loops with nowait, see the README.                           *)
MCNowait == {<<L(TRUE, 4, TRUE), L(TRUE, 1, TRUE)>>}

(* One, two and three loops with all schedules, that fit in a word of      *)
(* three bits or not, and fewer iterations than threads.                   *)
Nest(s, n, k) == [sched |-> s[1], chunk |-> s[2], counts |-> n, sinks |-> k]

Scheds == {<<"STATIC", 0>>, <<"STATIC", 1>>, <<"DYNAMIC", 2>>, <<"GUIDED", 1>>}

MCNests ==
  {Nest(s, <<2, 3>>, <<<<-1, 0>>, <<0, -1>>>>) : s \in Scheds}
    \cup {Nest(s, <<3, 4>>, <<<<-1, 1>>>>) : s \in Scheds}
    \cup {Nest(s, <<6>>, <<<<-2>>>>) : s \in Scheds \cup {<<"STATIC", 2>>}}
    \cup {Nest(<<"STATIC", 1>>, <<3, 2, 2>>, <<<<-1, 0, 0>>, <<0, -1, 1>>>>)}

mcVars == <<used, vars, ordVars, doaVars>>

(* What is not used is finished.                                           *)
NoWorkShares == /\ ws = [w \in WS |-> [uses |-> 0]]
                /\ thr = [t \in Thread |-> [pc |-> "over", ws |-> 0, k |-> 0, last |-> NULL]]
                /\ team = [alloc |-> NULL, free |-> NULL, over |-> TRUE] /\ kinds = <<>>
NoLoops == /\ loops = <<>> /\ loopWs = <<>> /\ passed = <<>>
           /\ sem = [t \in Team |-> 0]
           /\ member = [t \in Team |-> [pc |-> "idle", loop |-> 1, block |-> 0]]
NoNest == /\ nest = Nest(<<"STATIC", 0>>, <<0>>, <<>>) /\ next = 0 /\ array = <<>>
          /\ posted = {} /\ run = [t \in Crew |-> [Idle EXCEPT !.pc = "over"]]

(* The last construct is no copying single: what one leaves behind is only *)
(* seen in the next.                                                       *)
MCInit == \/ used = "work shares" /\ Init /\ kinds[Constructs] # "copy" /\ NoLoops /\ NoNest
          \/ used = "ordered" /\ OrdInit /\ NoWorkShares /\ NoNest
          \/ used = "doacross" /\ DoaInit /\ NoWorkShares /\ NoLoops

MCNext == \/ used = "work shares" /\ Next /\ UNCHANGED <<used, ordVars, doaVars>>
          \/ used = "ordered" /\ OrdNext /\ UNCHANGED <<used, vars, doaVars>>
          \/ used = "doacross" /\ DoaNext /\ UNCHANGED <<used, vars, ordVars>>

(* The threads go on, as FairSpec, OrdFairness and DoaFairness say; here   *)
(* threads are the same numbers in all three.                              *)
ThreadStep(t) ==
  /\ \/ used = "work shares" /\ (Step(t) \/ (t = Master /\ TeamEnd)) /\ UNCHANGED <<ordVars, doaVars>>
     \/ used = "ordered" /\ (OrdStep(t) \/ Sync(t)) /\ UNCHANGED <<vars, doaVars>>
     \/ used = "doacross" /\ DoaStep(t) /\ UNCHANGED <<vars, ordVars>>
  /\ UNCHANGED used

MCSpec == MCInit /\ [][MCNext]_mcVars
          /\ \A t \in Team : /\ WF_mcVars(ThreadStep(t))
                             /\ SF_ordVars(Sync(t) /\ member'[t].pc \in {"nsync", "next"})

(* No thread waits for ever: for a work share or a barrier, for its turn   *)
(* in an ordered loop, or for a post.                                      *)
ConstructsEnd == <>(team.over /\ Finished /\ DoaFinished)
=============================================================================
