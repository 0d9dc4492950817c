----------------------------- MODULE MCTaskList -----------------------------
(* Three tasks and four addresses: nodes are reused while stale pointers   *)
(* to them remain.                                                         *)
EXTENDS TaskList
=============================================================================
