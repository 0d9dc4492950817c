------------------------------- MODULE Memory -------------------------------
(***************************************************************************)
(* The heap and the address spaces on one pool of physical pages, as       *)
(* _start sets them up: Pmm::init, Heap::init, then Vmm::init.             *)
(***************************************************************************)
EXTENDS Heap, Vmm

CONSTANT Workloads  \* bounds: [pages, live, procs, tasks] of a behaviour

(* There is memory for the first slabs, the pml4 and the higher-half pml3  *)
(* of the kernel: Heap::init and Vmm::init do not test their allocations.  *)
ASSUME WorkloadAssumption ==
  \A w \in Workloads :
    /\ w.pages \in 0 .. MaxPage /\ w.live \in Nat
    /\ Cardinality(SlabSizes) + 1 + (Fanout \div 2) <= w.pages
    /\ w.procs \subseteq Procs /\ w.tasks \subseteq Tasks

VARIABLE load       \* the workload of this behaviour

vars == <<load, poolVars, heapVars, vmmVars>>

Init ==
  /\ load \in Workloads
  /\ HeapInit
  /\ VmmInit([pool |-> (1 .. load.pages) \ DOMAIN hdr, pt |-> <<>>])
  /\ halted = FALSE

Next ==
  /\ ~halted
  /\ \/ HeapNext(load.procs, load.live) /\ UNCHANGED vmmVars
     \/ VmmNext(load.tasks) /\ UNCHANGED heapVars
  /\ UNCHANGED load

(* A thread inside kmalloc is scheduled again. *)
Fairness ==
  \A p \in Procs : WF_vars(~halted /\ Continue(p) /\ UNCHANGED <<vmmVars, load>>)

Spec == Init /\ [][Next]_vars /\ Fairness

-----------------------------------------------------------------------------
(* The pages that headers, roots, tables and cr3 name are pages of the     *)
(* machine, a thread inside Slab::alloc is at a slab that exists, and the  *)
(* CPU is always in the space of the kernel or of a task that lives.       *)
TypeOK ==
  /\ pool \subseteq Pages \cup Span(0, StackPages) /\ halted \in BOOLEAN
  /\ DOMAIN hdr \subseteq Pages
  /\ root \in [SlabSizes -> Pages]
  /\ \A p \in Procs : op[p] = Idle \/ op[p].slab \in DOMAIN hdr
  /\ \A b \in live : b.page \in Pages /\ b.off \in 0 .. PAGE_SIZE - 1
  /\ DOMAIN pt \subseteq Pages
  /\ \A p \in DOMAIN pt : pt[p] \in [Index -> Nat]
  /\ cr3 \in DOMAIN pt /\ cr3 \in Spaces
  /\ strayed \subseteq {kernel_space} \cup UserSpaces

HeapPages ==
  DOMAIN hdr \cup UNION {Span(b.page, hdr[b.page - 1].slab_size - 1) : b \in LargeBlocks}

(* Every page has exactly one use: free, heap, table or mapped memory.     *)
(* What one component frees was its own, and the other never gets a page   *)
(* that is still in use.  (The program pages of a task that exited stay in *)
(* `frames`: ~Task frees only its stack and its tables.)  The one          *)
(* exception: a task that was created without memory for its stack and     *)
(* ran on the pages from 0 on leaves these free when it exits, whether or  *)
(* not they are in use.  Page 0 is free from then on, the machine has no   *)
(* further steps here, and still no page is lost.                          *)
NullStack == IF 0 \in pool THEN Span(0, StackPages) ELSE {}
PagesPartitioned ==
  /\ pool \cup HeapPages \cup DOMAIN pt \cup frames = (1 .. load.pages) \cup NullStack
  /\ pool \cap (HeapPages \cup DOMAIN pt \cup frames) \subseteq NullStack
  /\ 0 \in pool => halted
  /\ HeapPages \cap (DOMAIN pt \cup frames) = {}
  /\ DOMAIN pt \cap frames = {}
=============================================================================
