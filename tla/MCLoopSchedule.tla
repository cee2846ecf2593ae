--------------------------- MODULE MCLoopSchedule ---------------------------
(* Loops up and down, empty ones, ones that the increment does not divide, *)
(* and ones that come close to the largest and the smallest value.         *)
EXTENDS LoopSchedule

L(s, e, i, c) == [start |-> s, end |-> e, incr |-> i, chunk |-> c, ull |-> FALSE]
U(s, e, i, c) == [start |-> s, end |-> e, incr |-> i, chunk |-> c, ull |-> TRUE]

MCLoops ==
  {L(0, 7, 1, 2), L(1, 6, 1, 1), L(1, 1, 1, 1), L(0, 5, 1, 0),
   L(3, 3, 1, 2), L(5, 2, 1, 1), L(2, 5, -1, 1),
   L(-4, 7, 3, 1), L(7, -4, -3, 2), L(6, -5, -2, 0), L(1, 9, 1, 9),
   L(112, 122, 2, 1), L(115, 123, 1, 3), L(119, 126, 1, 2), L(120, 125, 3, 1),
   L(-113, -123, -2, 1), L(-118, -126, -1, 2), L(-120, -124, -3, 1),
   L(1, 12, 1, 3), L(9, -8, -2, 4),
   U(0, 7, 1, 2), U(9, 1, -2, 1), U(5, 2, 1, 1), U(9, 2, -3, 0),
   U(120, 134, 3, 2), U(136, 126, -2, 1), U(240, 253, 2, 1), U(245, 254, 1, 2), U(12, 2, -2, 1),
   U(3, 220, 31, 2), U(250, 33, -31, 1)}

(* Close enough to the largest long for several threads, not for one.      *)
MCEdgeLoops == {L(113, 118, 1, 4)}
=============================================================================
