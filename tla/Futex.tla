------------------------------- MODULE Futex -------------------------------
(***************************************************************************)
(* What the Linux primitives of libgomp have in common: threads of one     *)
(* process that meet at an int, with two system calls.  futex_wait (addr,  *)
(* val) compares and goes to sleep in one step and returns when woken, at  *)
(* once if the int differs from val, and on a signal; futex_wake (addr,    *)
(* count) wakes up to count of the sleepers.  Between them a thread spins  *)
(* for a while (wait.h), which may also be no time at all.                 *)
(***************************************************************************)
CONSTANT Threads
=============================================================================
