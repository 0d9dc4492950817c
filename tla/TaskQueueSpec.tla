---------------------------- MODULE TaskQueueSpec ----------------------------
(***************************************************************************)
(* What Scheduler::TaskList promises: a sequence of tasks and a cursor,    *)
(* changed only by add_task, next_task and remove_current, each of them    *)
(* atomic.                                                                 *)
(***************************************************************************)
EXTENDS TaskQueue

CONSTANTS Task, None

VARIABLES queue, cursor

Init == queue = <<>> /\ cursor = None

Add(t) ==
  /\ t \notin Elems(queue)
  /\ queue' = AddTask(queue, t)
  /\ cursor' = CursorAfterAdd(queue, cursor, t)

Advance ==
  /\ queue # <<>>
  /\ cursor' = NextTask(queue, cursor)
  /\ UNCHANGED queue

Remove ==
  /\ queue # <<>>
  /\ queue' = Without(queue, cursor)
  /\ cursor' = CursorAfterRemove(queue, cursor, None)

Next == Advance \/ Remove \/ \E t \in Task : Add(t)

Spec == Init /\ [][Next]_<<queue, cursor>>
=============================================================================
