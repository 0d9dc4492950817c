------------------------------ MODULE TaskList ------------------------------
(***************************************************************************)
(* Scheduler::TaskList (scheduler.hpp) down to its nodes and pointers.     *)
(* next_task and remove_current run with interrupts off (in schedule() and *)
(* in sys_exit) and are single steps.  add_task is called by kernel        *)
(* threads with interrupts on: schedule() may run between any two of its   *)
(* assignments.  A removed node is freed and its memory may come back as   *)
(* the next node; the pointers others still have to it are not cleared.    *)
(***************************************************************************)
EXTENDS Naturals, Sequences, FiniteSets

CONSTANTS
  Task,
  Node,  \* the addresses nodes may have
  null

ASSUME NodeAssumption == IsFiniteSet(Node) /\ null \notin Node \cup Task

VARIABLES
  front, current,    \* TaskList::front, TaskList::current
  task, prev, next,  \* the fields of each node
  allocated,         \* the addresses in use
  adding             \* add_task in progress: its location and its node

vars == <<front, current, task, prev, next, allocated, adding>>

NotAdding == [at |-> "none", node |-> null]

Init ==
  /\ front = null /\ current = null
  /\ task = [n \in Node |-> null]
  /\ prev = [n \in Node |-> null]
  /\ next = [n \in Node |-> null]
  /\ allocated = {}
  /\ adding = NotAdding

-----------------------------------------------------------------------------
(* The nodes reached from `front` along `next`, in order. *)
NodeAt(k) ==
  LET at[i \in 0 .. k] == IF i = 0 THEN front
                          ELSE IF at[i - 1] = null THEN null
                          ELSE next[at[i - 1]]
  IN  at[k]

Length == Cardinality({k \in 0 .. Cardinality(Node) : NodeAt(k) # null})

Chain == [i \in 1 .. Length |-> NodeAt(i - 1)]
Reachable == {Chain[i] : i \in 1 .. Length}
QueuedTasks == {task[n] : n \in Reachable}

-----------------------------------------------------------------------------
(* add_task: new Node(task); no task is added twice. *)
AddNew(t, n) ==
  /\ adding.at = "none" /\ n \notin allocated /\ t \notin QueuedTasks
  /\ allocated' = allocated \cup {n}
  /\ task' = [task EXCEPT ![n] = t]
  /\ prev' = [prev EXCEPT ![n] = null]
  /\ next' = [next EXCEPT ![n] = null]
  /\ adding' = [at |-> IF front = null THEN "current" ELSE "next", node |-> n]
  /\ UNCHANGED <<front, current>>

(* The list is empty: this->current = node. *)
AddCurrent ==
  /\ adding.at = "current"
  /\ current' = adding.node
  /\ adding' = [adding EXCEPT !.at = "front"]
  /\ UNCHANGED <<front, task, prev, next, allocated>>

(* node->next = this->front *)
AddNext ==
  /\ adding.at = "next"
  /\ next' = [next EXCEPT ![adding.node] = front]
  /\ adding' = [adding EXCEPT !.at = "prev"]
  /\ UNCHANGED <<front, current, task, prev, allocated>>

(* Mutant: as in DoublyLinkedList::push, the wrong node is linked back. *)
AddPrevOfSecond ==
  /\ adding.at = "prev"
  /\ prev' = IF next[front] = null THEN prev
                                   ELSE [prev EXCEPT ![next[front]] = adding.node]
  /\ adding' = [adding EXCEPT !.at = "front"]
  /\ UNCHANGED <<front, current, task, next, allocated>>

(* this->front->prev = node *)
AddPrev ==
  /\ adding.at = "prev"
  /\ prev' = [prev EXCEPT ![front] = adding.node]
  /\ adding' = [adding EXCEPT !.at = "front"]
  /\ UNCHANGED <<front, current, task, next, allocated>>

(* this->front = node *)
AddFront ==
  /\ adding.at = "front"
  /\ front' = adding.node
  /\ adding' = NotAdding
  /\ UNCHANGED <<current, task, prev, next, allocated>>

(* next_task, called by schedule() when the list is not empty. *)
NextTask ==
  /\ front # null
  /\ current' = IF next[current] # null THEN next[current] ELSE front
  /\ UNCHANGED <<front, task, prev, next, allocated, adding>>

(* Mutant: current is left on the front whatever was removed. *)
RemoveCurrentToFront ==
  /\ front # null /\ adding.at = "none"
  /\ IF current = front
       THEN front' = next[current] /\ UNCHANGED <<prev, next>>
       ELSE /\ next' = [next EXCEPT ![prev[current]] = next[current]]
            /\ prev' = IF next[current] = null THEN prev
                         ELSE [prev EXCEPT ![next[current]] = prev[current]]
            /\ UNCHANGED front
  /\ task' = [task EXCEPT ![current] = null]
  /\ allocated' = allocated \ {current}
  /\ current' = front'
  /\ UNCHANGED adding

(* remove_current, called by kill_and_yield when the list is not empty;    *)
(* the last add_task is over when the first program runs.  Freeing the     *)
(* node overwrites its first word, the task pointer.                       *)
RemoveCurrent ==
  /\ front # null /\ adding.at = "none"
  /\ IF current = front
       THEN front' = next[current] /\ UNCHANGED <<prev, next>>
       ELSE /\ next' = [next EXCEPT ![prev[current]] = next[current]]
            /\ prev' = IF next[current] = null THEN prev
                         ELSE [prev EXCEPT ![next[current]] = prev[current]]
            /\ UNCHANGED front
  /\ task' = [task EXCEPT ![current] = null]
  /\ allocated' = allocated \ {current}
  /\ current' = IF next[current] # null THEN next[current] ELSE front'
  /\ UNCHANGED adding

Next ==
  \/ \E t \in Task, n \in Node : AddNew(t, n)
  \/ AddCurrent \/ AddNext \/ AddPrev \/ AddFront
  \/ NextTask \/ RemoveCurrent

Spec == Init /\ [][Next]_vars

-----------------------------------------------------------------------------
(* Types; and the pointers that the methods follow are sound at every      *)
(* interruptible point: the chain from `front` ends, reaches only nodes    *)
(* that are allocated, `current` is on it, and each of its nodes but the   *)
(* first points back to the one before (the first one's `prev` may dangle: *)
(* remove_current leaves it, and nothing follows it).                      *)
WellLinked ==
  /\ {front, current} \subseteq Node \cup {null}
  /\ task \in [Node -> Task \cup {null}]
  /\ {prev, next} \subseteq [Node -> Node \cup {null}]
  /\ NodeAt(Cardinality(Node)) = null
  /\ Reachable \subseteq allocated
  /\ front # null => current \in Reachable
  /\ \A i \in 2 .. Length : prev[Chain[i]] = Chain[i - 1]

(* The pointer manipulations implement the sequence with a cursor: an      *)
(* add_task takes effect at its last assignment, and next_task in the      *)
(* middle of it sees the list as it was.                                   *)
Abstract == INSTANCE TaskQueueSpec WITH
              None <- null,
              queue <- [i \in 1 .. Length |-> task[Chain[i]]],
              cursor <- IF front = null THEN null ELSE task[current]
RefinesQueue == Abstract!Spec
=============================================================================
