------------------------------ MODULE PagePool ------------------------------
(***************************************************************************)
(* The physical page allocator as its clients see it: the set of free      *)
(* pages.  Pmm models the search on the bitmap and shows that it returns a *)
(* run of free pages whenever there is one; which one it is makes no       *)
(* difference to its clients, and is left open here.  Page 0 is nullptr:   *)
(* it is never free and stands for "no memory".                            *)
(***************************************************************************)
EXTENDS Naturals

CONSTANTS
  MaxPage,   \* the pages of the machine are 1 .. MaxPage
  PAGE_SIZE  \* cells per page; a cell has the size of a pointer

ASSUME MaxPageIsNat == MaxPage \in Nat
ASSUME PageSizeIsPositive == PAGE_SIZE \in Nat \ {0}

VARIABLES
  pool,    \* the free pages
  halted   \* the machine faulted, or memory nobody allocated was freed: a
           \* failed allocation was not tested, and no step is modelled after it

poolVars == <<pool, halted>>

Pages == 1 .. MaxPage

Span(page, n) == page .. (page + n - 1)

(* The pages at which a run of n free pages starts. *)
Runs(f, n) == {p \in f : Span(p, n) \subseteq f}

(* Pmm::alloc(n) on the free pages f: null for n = 0, as when there is no run. *)
AllocPages(f, n) ==
  IF n = 0 \/ Runs(f, n) = {}
    THEN [page |-> 0, pool |-> f]
    ELSE LET page == CHOOSE p \in Runs(f, n) : TRUE
         IN  [page |-> page, pool |-> f \ Span(page, n)]
=============================================================================
