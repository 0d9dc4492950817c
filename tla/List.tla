-------------------------------- MODULE List --------------------------------
(***************************************************************************)
(* DoublyLinkedList (utils/list.hpp), pointer by pointer.  A list is its   *)
(* head and its nodes, which are named by their values since no value is   *)
(* pushed twice: value -> [prev, next].  A pointer that is neither Nil nor *)
(* in the domain of the nodes dangles.                                     *)
(***************************************************************************)
EXTENDS Integers, Sequences, FiniteSets

Nil == 0
Bad == -1  \* what a walk over freed memory finds

EmptyList == [head |-> Nil, nodes |-> <<>>]

IsNode(l, v) == v \in DOMAIN l.nodes
NextOf(l, v) == IF IsNode(l, v) THEN l.nodes[v].next ELSE Nil

(* Mutant: the new node is not linked to the old head. *)
PushUnlinked(l, v) ==
  [head |-> v,
   nodes |-> [w \in DOMAIN l.nodes \cup {v} |->
                IF w = v THEN [prev |-> Nil, next |-> Nil] ELSE l.nodes[w]]]

(* push: the prev pointer it sets is that of the second node of the old    *)
(* list, so that a prev pointer skips a node.                              *)
Push(l, v) ==
  LET second == NextOf(l, l.head)
  IN  [head |-> v,
       nodes |-> [w \in DOMAIN l.nodes \cup {v} |->
                    CASE w = v -> [prev |-> Nil, next |-> l.head]
                      [] w # v /\ w = second -> [l.nodes[w] EXCEPT !.prev = v]
                      [] OTHER -> l.nodes[w]]]

PushIsSafe(l) == NextOf(l, l.head) = Nil \/ IsNode(l, NextOf(l, l.head))

(* remove of a value that is in the list: the head, or the node behind     *)
(* which everything up to its prev pointer is unlinked with it.            *)
Remove(l, v) ==
  LET n == l.nodes[v]
      from == IF v = l.head THEN Nil ELSE n.prev
  IN  [head |-> IF v = l.head THEN n.next ELSE l.head,
       nodes |-> [w \in DOMAIN l.nodes \ {v} |->
                    [prev |-> IF w = n.next THEN from ELSE l.nodes[w].prev,
                     next |-> IF w = from THEN n.next ELSE l.nodes[w].next]]]

(* The nodes remove writes to exist. *)
RemoveIsSafe(l, v) ==
  /\ v # l.head => IsNode(l, l.nodes[v].prev)
  /\ l.nodes[v].next = Nil \/ IsNode(l, l.nodes[v].next)

(* The pointers a walk from the head meets, one per step. *)
Walk(l) ==
  LET at[i \in 0 .. Cardinality(DOMAIN l.nodes)] ==
        IF i = 0 THEN l.head ELSE NextOf(l, at[i - 1])
  IN  at

(* The first value that is in `wanted`: Nil when there is none, Bad when   *)
(* the walk meets a freed node, or a value not in `readable`, before.      *)
Find(l, readable, wanted) ==
  LET at == Walk(l)
      ok(i) == at[i] # Nil /\ IsNode(l, at[i]) /\ at[i] \in readable
      stops == {i \in DOMAIN at : ~ok(i) \/ at[i] \in wanted}
      last == CHOOSE i \in stops : \A j \in stops : i <= j
  IN  IF stops = {} THEN Nil ELSE IF ok(last) \/ at[last] = Nil THEN at[last] ELSE Bad

(* The values in order, for a list without dangling pointers. *)
Values(l) ==
  LET at == Walk(l)
      n == Cardinality({i \in DOMAIN at : at[i] # Nil})
  IN  [i \in 1 .. n |-> at[i - 1]]
=============================================================================
