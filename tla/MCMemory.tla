------------------------------ MODULE MCMemory ------------------------------
EXTENDS Memory

CONSTANTS p1, p2, t1, t2

(* The heap alone; two tasks in a memory that suffices for both, until     *)
(* they map more, and in one that is too small for the second; both        *)
(* together, in a memory that both can exhaust.                            *)
MCWorkloads ==
  {[pages |-> 12, live |-> 3, procs |-> {p1, p2}, tasks |-> {}],
   [pages |-> 15, live |-> 0, procs |-> {}, tasks |-> {t1, t2}],
   [pages |-> 21, live |-> 0, procs |-> {}, tasks |-> {t1, t2}],
   [pages |-> 14, live |-> 2, procs |-> {p1}, tasks |-> {t1}]}
=============================================================================
