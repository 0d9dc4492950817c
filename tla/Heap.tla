-------------------------------- MODULE Heap --------------------------------
(***************************************************************************)
(* The kernel heap (memory/heap.cpp): pages cut into blocks of one size,   *)
(* chained per size, each with a list of its free blocks; and requests     *)
(* larger than any block, which get pages of their own behind a header     *)
(* page.  Slab::alloc works on one slab under slab_lock and releases the   *)
(* lock before it goes on to the next slab of the chain, so a caller that  *)
(* is on its way can be overtaken: every critical section is one step.     *)
(*                                                                         *)
(* Sizes count cells; an address is a page and an                          *)
(* offset.  A failed page allocation is not tested: the caller writes to   *)
(* the page behind PHYS_TO_VIRT(0), which Vmm::init leaves unmapped, and   *)
(* the page fault stops the machine.                                       *)
(***************************************************************************)
EXTENDS Sequences, FiniteSets, PagePool

CONSTANTS
  Procs,        \* threads and interrupt handlers that allocate
  HEADER_SIZE,  \* cells of a SlabHeader
  SlabSizes,    \* the block sizes (8 .. 512 bytes in the code)
  Requests,     \* the sizes callers ask for
  MaxRequest    \* the largest of them

(* Every block size divides the page, and a slab holds a block. *)
ASSUME LayoutAssumption ==
  /\ HEADER_SIZE \in Nat \ {0} /\ MaxRequest \in Nat
  /\ SlabSizes \subseteq Nat \ {0} /\ IsFiniteSet(SlabSizes)
  /\ Requests \subseteq 1 .. MaxRequest
  /\ \A s \in SlabSizes : PAGE_SIZE % s = 0 /\ s + HEADER_SIZE <= PAGE_SIZE

VARIABLES
  hdr,   \* the headers: page -> [slab_size, free_block, next]
  root,  \* slab_8b .. slab_512b: block size -> page
  op,    \* where a caller is: a slab and the size it wants
  live   \* what callers hold: [page, off, size]

heapVars == <<hdr, root, op, live>>

-----------------------------------------------------------------------------
(* Mutant: the header's cells are counted as blocks. *)
MaxBlocksOfPage(s) == PAGE_SIZE \div s

(* The layout of a slab: a header padded to a block, then the blocks. *)
MAX_BLOCKS(s) == (PAGE_SIZE - HEADER_SIZE) \div s
FirstBlock(s) == IF s > HEADER_SIZE THEN s ELSE HEADER_SIZE
Blocks(s) == {FirstBlock(s) + i * s : i \in 0 .. MAX_BLOCKS(s) - 1}

(* The blocks of a new slab, linked from the first to the last. *)
NewSlab(s) ==
  [slab_size |-> s,
   free_block |-> [i \in 1 .. MAX_BLOCKS(s) |-> FirstBlock(s) + (i - 1) * s],
   next |-> 0]

WithHeader(h, page, header) ==
  [q \in DOMAIN h \cup {page} |-> IF q = page THEN header ELSE h[q]]

(* kmalloc's choice: the smallest block that is large enough. *)
IsSmall(size) == \E s \in SlabSizes : size <= s
ClassOf(size) ==
  CHOOSE s \in SlabSizes : size <= s /\ \A r \in SlabSizes : size <= r => s <= r

(* Mutant: no page for the header. *)
LargePagesNoHeader(size) == (size + PAGE_SIZE - 1) \div PAGE_SIZE

(* ... and the pages of a request that no block is large enough for. *)
LargePages(size) == ((size + PAGE_SIZE - 1) \div PAGE_SIZE) + 1

Idle == [slab |-> 0, size |-> 0]

-----------------------------------------------------------------------------
(* Heap::init, right after Pmm::init: one slab per size from the first     *)
(* pages.                                                                  *)
Rank(s) == Cardinality({r \in SlabSizes : r <= s})

HeapInit ==
  /\ root = [s \in SlabSizes |-> Rank(s)]
  /\ hdr = [p \in 1 .. Cardinality(SlabSizes) |->
              NewSlab(CHOOSE s \in SlabSizes : Rank(s) = p)]
  /\ op = [p \in Procs |-> Idle]
  /\ live = {}

(* Mutant: the block stays on the list. *)
TakeBlockNoPop(p, page, size) ==
  /\ hdr[page].free_block # <<>>
  /\ live' = live \cup {[page |-> page, off |-> Head(hdr[page].free_block), size |-> size]}
  /\ op' = [op EXCEPT ![p] = Idle]
  /\ UNCHANGED <<hdr, pool, root, halted>>

(* Slab::alloc on slab `page`, one critical section: take the first free   *)
(* block, or make sure there is a next slab and go on to it.               *)
TakeBlock(p, page, size) ==
  LET block == Head(hdr[page].free_block)
  IN  /\ hdr[page].free_block # <<>>
      /\ hdr' = [hdr EXCEPT ![page].free_block = Tail(@)]
      /\ live' = live \cup {[page |-> page, off |-> block, size |-> size]}
      /\ op' = [op EXCEPT ![p] = Idle]
      /\ UNCHANGED <<pool, root, halted>>

(* Mutant: the call is repeated on the same slab. *)
GoToNextStays(p, page, size) ==
  /\ hdr[page].free_block = <<>>
  /\ hdr[page].next # 0
  /\ op' = [op EXCEPT ![p] = [slab |-> page, size |-> size]]
  /\ UNCHANGED <<pool, hdr, root, live, halted>>

GoToNext(p, page, size) ==
  /\ hdr[page].free_block = <<>>
  /\ hdr[page].next # 0
  /\ op' = [op EXCEPT ![p] = [slab |-> hdr[page].next, size |-> size]]
  /\ UNCHANGED <<pool, hdr, root, live, halted>>

(* Mutant: whether another caller has added a slab meanwhile is not tested. *)
MayAddTo(page) == TRUE

IsLast(page) == hdr[page].next = 0

AddSlab(p, page, size) ==
  LET a == AllocPages(pool, 1)
      s == hdr[page].slab_size
  IN  /\ hdr[page].free_block = <<>>
      /\ IsLast(page)
      /\ pool' = a.pool
      /\ IF a.page = 0
           THEN halted' = TRUE /\ UNCHANGED <<hdr, op>>
           ELSE /\ hdr' = WithHeader([hdr EXCEPT ![page].next = a.page], a.page, NewSlab(s))
                /\ op' = [op EXCEPT ![p] = [slab |-> a.page, size |-> size]]
                /\ UNCHANGED halted
      /\ UNCHANGED <<root, live>>

SlabAlloc(p, page, size) ==
  TakeBlock(p, page, size) \/ GoToNext(p, page, size) \/ AddSlab(p, page, size)

(* kmalloc of a size that fits a block: the slab of the size comes first. *)
KmallocSmall(p, size) ==
  /\ op[p] = Idle /\ IsSmall(size)
  /\ SlabAlloc(p, root[ClassOf(size)], size)

Continue(p) == op[p] # Idle /\ SlabAlloc(p, op[p].slab, op[p].size)

(* kmalloc of a larger size: the header goes to the first page. *)
KmallocLarge(p, size) ==
  LET n == LargePages(size)
      a == AllocPages(pool, n)
  IN  /\ op[p] = Idle /\ ~IsSmall(size)
      /\ pool' = a.pool
      /\ IF a.page = 0
           THEN halted' = TRUE /\ UNCHANGED <<hdr, live>>
           ELSE /\ hdr' = WithHeader(hdr, a.page,
                                     [slab_size |-> n, free_block |-> <<>>, next |-> 0])
                /\ live' = live \cup {[page |-> a.page + 1, off |-> 0, size |-> size]}
                /\ UNCHANGED halted
      /\ UNCHANGED <<root, op>>

(* Mutant: the header page is not counted. *)
PagesToFreeNoHeader(header) == header.slab_size - 1

(* kfree: an address at the start of a page is a large block, whose header *)
(* is on the page before; any other address is a block of its page's slab. *)
PagesToFree(header) == header.slab_size

KfreeLarge(b) ==
  LET h == b.page - 1
  IN  /\ b \in live /\ b.off = 0
      /\ pool' = pool \cup Span(h, PagesToFree(hdr[h]))
      /\ hdr' = [q \in DOMAIN hdr \ {h} |-> hdr[q]]
      /\ live' = live \ {b}
      /\ UNCHANGED <<root, op, halted>>

KfreeSmall(b) ==
  /\ b \in live /\ b.off # 0
  /\ hdr' = [hdr EXCEPT ![b.page].free_block = <<b.off>> \o @]
  /\ live' = live \ {b}
  /\ UNCHANGED <<pool, root, op, halted>>

(* procs may allocate, as long as they hold fewer than max blocks. *)
HeapNext(procs, max) ==
  \/ /\ Cardinality(live) < max
     /\ \E p \in procs, size \in Requests : KmallocSmall(p, size) \/ KmallocLarge(p, size)
  \/ \E p \in Procs : Continue(p)
  \/ \E b \in live : KfreeSmall(b) \/ KfreeLarge(b)

-----------------------------------------------------------------------------
(* The blocks that callers hold, as sets of cells. *)
SlabBlocks == {b \in live : b.off # 0}
LargeBlocks == live \ SlabBlocks
CellsOf(b) ==
  IF b.off # 0
    THEN {b.page} \X (b.off .. b.off + hdr[b.page].slab_size - 1)
    ELSE Span(b.page, hdr[b.page - 1].slab_size - 1) \X (0 .. PAGE_SIZE - 1)

(* No caller gets memory that another one holds, or less than it asked     *)
(* for, however calls interleave on the chain of slabs: kmalloc and kfree  *)
(* do what AllocatorSpec says.                                             *)
Abstract == INSTANCE AllocatorSpec WITH
  MaxSize <- MaxRequest,
  wants <- [p \in Procs |-> op[p].size],
  held <- {[cells |-> CellsOf(b), size |-> b.size] : b \in live}
HeapImplements == Abstract!Spec

(* Every block of every slab is on its list of free blocks exactly once or *)
(* held by exactly one caller: none is lost, none is handed out while it   *)
(* is free (new_slab, Slab::alloc, Slab::free).                            *)
Slabs == {p \in DOMAIN hdr : \A b \in LargeBlocks : b.page - 1 # p}
BlocksAccounted ==
  \A p \in Slabs :
    LET free == hdr[p].free_block
        held == {b \in SlabBlocks : b.page = p}
    IN  /\ {free[i] : i \in DOMAIN free} \cup {b.off : b \in held} = Blocks(hdr[p].slab_size)
        /\ Len(free) + Cardinality(held) = Cardinality(Blocks(hdr[p].slab_size))

(* Two callers that find the last slab full at the same time do not both   *)
(* append one (the test of header.next, after slab_lock was released and   *)
(* taken again): every slab is the first of its size or the next of        *)
(* exactly one slab of its size, so that kmalloc can reach its blocks.     *)
NoSlabLost ==
  \A p \in Slabs :
    LET before == {q \in Slabs : hdr[q].next = p}
    IN  IF \E s \in SlabSizes : root[s] = p
          THEN before = {}
          ELSE Cardinality(before) = 1 /\ \A q \in before : hdr[q].slab_size = hdr[p].slab_size

(* kfree tells the two kinds of blocks apart by the address alone: every   *)
(* block in use leads it to the header it was allocated with, and no block *)
(* of a slab starts at a page boundary or reaches past its page.           *)
HeaderFound ==
  /\ \A b \in SlabBlocks :
       /\ b.page \in Slabs /\ hdr[b.page].slab_size = ClassOf(b.size)
       /\ b.off + ClassOf(b.size) <= PAGE_SIZE
  /\ \A b \in LargeBlocks :
       /\ b.page - 1 \in DOMAIN hdr
       /\ hdr[b.page - 1].slab_size = LargePages(b.size)

(* A caller that has to walk the chain gets its block, although others may *)
(* empty each slab it comes to, unless the machine runs out of memory.     *)
KmallocReturns == \A p \in Procs : (op[p] # Idle) ~> (op[p] = Idle \/ halted)
=============================================================================
