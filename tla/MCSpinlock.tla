----------------------------- MODULE MCSpinlock -----------------------------
(* Two kernel threads, one user task and two nested locks. *)
EXTENDS Spinlock
=============================================================================
