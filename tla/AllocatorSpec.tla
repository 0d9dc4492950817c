---------------------------- MODULE AllocatorSpec ----------------------------
(***************************************************************************)
(* What kmalloc and kfree promise to the rest of the kernel: a caller that *)
(* asks for size cells gets a place of at least that many cells that no    *)
(* other caller holds a part of, until it gives the place back.  The       *)
(* machine may stop for lack of memory, and then nobody gets anything.     *)
(***************************************************************************)
EXTENDS Naturals, FiniteSets

CONSTANTS
  Procs,   \* the callers
  MaxSize  \* the largest request

VARIABLES
  wants,   \* what each caller waits for: 0, or a number of cells
  held     \* the places in use: sets of cells, with the size asked for

avars == <<wants, held>>

Init == wants = [p \in Procs |-> 0] /\ held = {}

(* A place that may be handed out for the request it is recorded with. *)
Grantable(place) ==
  /\ Cardinality(place.cells) >= place.size
  /\ \A other \in held : place.cells \cap other.cells = {}

Ask(p, size) ==
  /\ wants[p] = 0
  /\ wants' = [wants EXCEPT ![p] = size]
  /\ UNCHANGED held

(* The caller gets the place, whether it had to wait or not. *)
Grant(p, size) ==
  /\ wants[p] \in {0, size}
  /\ wants' = [wants EXCEPT ![p] = 0]
  /\ \E place \in held' \ held :
       place.size = size /\ Grantable(place) /\ held' = held \cup {place}

Return(place) ==
  /\ place \in held
  /\ held' = held \ {place}
  /\ UNCHANGED wants

Next ==
  \/ \E p \in Procs, size \in 1 .. MaxSize : Ask(p, size) \/ Grant(p, size)
  \/ \E place \in held : Return(place)

Spec == Init /\ [][Next]_avars
=============================================================================
