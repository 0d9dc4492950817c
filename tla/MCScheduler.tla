----------------------------- MODULE MCScheduler -----------------------------
(* The scheduler of the kernel as kernel.cpp starts it: kernel_main,       *)
(* packet_handler and one program.                                         *)
EXTENDS Scheduler
=============================================================================
