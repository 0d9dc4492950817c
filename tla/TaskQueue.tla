------------------------------ MODULE TaskQueue ------------------------------
(***************************************************************************)
(* The run queue of the scheduler as a value: a sequence of tasks from     *)
(* `front` to the last node, and a cursor (`current`) that is one of them. *)
(* These operators say what the methods of Scheduler::TaskList return;     *)
(* TaskList.tla shows that the linked nodes compute them.                  *)
(***************************************************************************)
EXTENDS Naturals, Sequences

Elems(q) == {q[i] : i \in DOMAIN q}

NoDup(q) == \A i, j \in DOMAIN q : q[i] = q[j] => i = j

Position(q, t) == CHOOSE i \in DOMAIN q : q[i] = t

(* next_task: the following node, or the front after the last one. *)
NextTask(q, c) ==
  LET i == Position(q, c) IN IF i < Len(q) THEN q[i + 1] ELSE q[1]

(* add_task puts the node in front; the first one becomes `current`. *)
AddTask(q, t) == <<t>> \o q
CursorAfterAdd(q, c, t) == IF q = <<>> THEN t ELSE c

(* remove_current unlinks the node of c ... *)
Without(q, c) ==
  LET i == Position(q, c)
  IN  [j \in 1 .. Len(q) - 1 |-> IF j < i THEN q[j] ELSE q[j + 1]]

(* ... and leaves `current` on its successor, or on the front if it was    *)
(* the last one (on none when the list is now empty).                      *)
CursorAfterRemove(q, c, none) ==
  IF Len(q) = 1 THEN none ELSE NextTask(q, c)
=============================================================================
