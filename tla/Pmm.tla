--------------------------------- MODULE Pmm ---------------------------------
(***************************************************************************)
(* The physical page allocator (memory/pmm.cpp, utils/bitmap.cpp): one bit *)
(* per page, a next-fit search from last_page_idx, and a second search     *)
(* from page 0 when the first one fails.  alloc and free run under         *)
(* pmm_lock with interrupts off, so each is one step.                      *)
(*                                                                         *)
(* A page is identified by its number; the address is page * PAGE_SIZE,    *)
(* so page 0 is nullptr.  The bitmap has bitmap.size bytes, but alloc      *)
(* searches bitmap.size * PAGE_SIZE pages: the bits past the bitmap are    *)
(* read from, and written to, whatever memory follows it.  Their values    *)
(* are therefore an arbitrary choice at every call, and writes to them are *)
(* not seen again.                                                         *)
(***************************************************************************)
EXTENDS Naturals, Sequences, FiniteSets

CONSTANTS
  PAGE_SIZE,  \* bytes per page
  ByteBits,   \* bits per byte of the bitmap
  MemMaps,    \* the memory maps the bootloader may give
  MaxPages,   \* bound: largest request, in pages
  MaxLive     \* bound: most allocations owned at a time

ASSUME SizesArePositive ==
  /\ PAGE_SIZE \in Nat \ {0}
  /\ ByteBits \in Nat \ {0}
  /\ ByteBits <= PAGE_SIZE
  /\ MaxPages \in Nat /\ MaxLive \in Nat

(* A memory map is a sequence of usable regions, as first page and number  *)
(* of pages; unusable regions only matter by not being listed.  Limine     *)
(* never lists page 0.                                                     *)
ASSUME MemMapsAreRegions ==
  \A m \in MemMaps :
    m \in Seq([base : Nat \ {0}, pages : Nat])

VARIABLES
  size,           \* bitmap.size, in bytes
  used,           \* the bits of the bitmap, one per page
  last_page_idx,
  own,            \* the pages the bitmap lies in
  usable,         \* the pages whose bit init cleared
  live            \* what callers got from alloc and did not free:
                  \* a set of [page, pages]

vars == <<size, used, last_page_idx, own, usable, live>>

-----------------------------------------------------------------------------
(* Pages the bitmap has a bit for, and the limit that alloc passes. *)
Bits(s)  == s * ByteBits
Limit(s) == s * PAGE_SIZE

Span(page, pages) == page .. (page + pages - 1)

AlignUp(x, a) == ((x + a - 1) \div a) * a

(* init: number_of_pages comes from the highest usable address. *)
BitmapSize(m) ==
  LET ends == {m[i].base + m[i].pages : i \in DOMAIN m}
      highest == CHOOSE e \in ends \cup {0} : \A f \in ends : f <= e
  IN  AlignUp(highest \div ByteBits, PAGE_SIZE)

(* The first region that can hold the bitmap gives up its first pages. *)
Fits(m, i) == m[i].pages * PAGE_SIZE >= BitmapSize(m)
Host(m) == CHOOSE i \in DOMAIN m : Fits(m, i) /\ \A j \in 1 .. i - 1 : ~Fits(m, j)
OwnPages(m) == Span(m[Host(m)].base, BitmapSize(m) \div PAGE_SIZE)

RegionPages(m) == UNION {Span(m[i].base, m[i].pages) : i \in DOMAIN m}

(* Mutant: the region keeps the pages the bitmap lies in. *)
FreePagesWithBitmap(m) == RegionPages(m)

FreePages(m) == RegionPages(m) \ OwnPages(m)

Init ==
  \E m \in MemMaps :
    /\ \E i \in DOMAIN m : Fits(m, i)
    /\ size = BitmapSize(m)
    /\ own = OwnPages(m)
    /\ usable = FreePages(m) \cap 0 .. Bits(BitmapSize(m)) - 1
    /\ used = [p \in 0 .. Bits(BitmapSize(m)) - 1 |-> p \notin usable]
    /\ last_page_idx = 0
    /\ live = {}

-----------------------------------------------------------------------------
(* A bit as Bitmap::get reads it, with `past` the pages whose bits past    *)
(* the end happen to read as 1.                                            *)
IsUsed(past, p) == IF p \in DOMAIN used THEN used[p] ELSE p \in past

(* Bitmap::set for a range; a write past the bitmap is lost. *)
SetBits(b, pages, value) ==
  [p \in DOMAIN b |-> IF p \in pages THEN value ELSE b[p]]

(* The pages at which a free run of `pages` pages below `limit` starts. *)
Runs(past, from, limit, pages) ==
  {p \in from .. limit : /\ p + pages <= limit
                         /\ \A i \in Span(p, pages) : ~IsUsed(past, i)}

(* Mutant: the run may end one page past the limit. *)
InnerAllocOffByOne(past, from, limit, pages) ==
  LET runs == Runs(past, from, limit + 1, pages)
  IN  IF runs = {}
        THEN [page |-> 0, last |-> IF from < limit THEN limit ELSE from]
        ELSE LET p == CHOOSE p \in runs : \A q \in runs : p <= q
             IN  [page |-> p, last |-> p + pages]

(* inner_alloc(pages, limit) started at last_page_idx = from: the first    *)
(* run, and where last_page_idx ends up.                                   *)
InnerAlloc(past, from, limit, pages) ==
  LET runs == Runs(past, from, limit, pages)
  IN  IF runs = {}
        THEN [page |-> 0, last |-> IF from < limit THEN limit ELSE from]
        ELSE LET p == CHOOSE p \in runs : \A q \in runs : p <= q
             IN  [page |-> p, last |-> p + pages]

(* The loop of inner_alloc, step by step: i is last_page_idx. *)
InnerAllocLoop(past, from, limit, pages) ==
  LET loop[i \in 0 .. limit] ==
        [acc \in 0 .. pages - 1 |->
           IF i >= limit THEN [page |-> 0, last |-> i]
           ELSE IF IsUsed(past, i) THEN loop[i + 1][0]
           ELSE IF acc + 1 = pages THEN [page |-> i + 1 - pages, last |-> i + 1]
           ELSE loop[i + 1][acc + 1]]
  IN  IF from < limit THEN loop[from][0] ELSE [page |-> 0, last |-> from]

(* Mutant: the second search also starts at last_page_idx. *)
SearchNoRewind(past, pages) ==
  LET first == InnerAlloc(past, last_page_idx, Limit(size), pages)
  IN  IF first.page # 0 THEN first
                        ELSE InnerAlloc(past, first.last, first.last, pages)

(* The two searches of alloc. *)
Search(past, pages) ==
  LET first == InnerAlloc(past, last_page_idx, Limit(size), pages)
  IN  IF first.page # 0 THEN first ELSE InnerAlloc(past, 0, first.last, pages)

(* Mutant: the last page of the range is not marked. *)
AllocMarksShort(past, pages) ==
  LET found == Search(past, pages)
  IN  /\ last_page_idx' = found.last
      /\ IF found.page = 0
           THEN UNCHANGED <<used, live>>
           ELSE /\ used' = SetBits(used, Span(found.page, pages - 1), TRUE)
                /\ live' = live \cup {[page |-> found.page, pages |-> pages]}
      /\ UNCHANGED <<size, own, usable>>

(* alloc(pages), pages > 0 (alloc(0) returns nullptr and does nothing). *)
Alloc(past, pages) ==
  LET found == Search(past, pages)
  IN  /\ last_page_idx' = found.last
      /\ IF found.page = 0
           THEN UNCHANGED <<used, live>>
           ELSE /\ used' = SetBits(used, Span(found.page, pages), TRUE)
                /\ live' = live \cup {[page |-> found.page, pages |-> pages]}
      /\ UNCHANGED <<size, own, usable>>

(* free(addr, pages), with what alloc returned. *)
Free(a) ==
  /\ a \in live
  /\ used' = SetBits(used, Span(a.page, a.pages), FALSE)
  /\ live' = live \ {a}
  /\ UNCHANGED <<size, last_page_idx, own, usable>>

(* The pages alloc searches that have no bit. *)
PastBitmap == Bits(size) .. Limit(size) - 1

Next ==
  \/ /\ Cardinality(live) < MaxLive
     /\ \E pages \in 1 .. MaxPages, past \in SUBSET PastBitmap :
          Alloc(past, pages)
  \/ \E a \in live : Free(a)

Spec == Init /\ [][Next]_vars

-----------------------------------------------------------------------------
TypeOK ==
  /\ size \in Nat
  /\ used \in [0 .. Bits(size) - 1 -> BOOLEAN]
  /\ last_page_idx \in 0 .. Limit(size)
  /\ own \subseteq Nat
  /\ usable \subseteq DOMAIN used
  /\ live \subseteq [page : Nat \ {0}, pages : 1 .. MaxPages]

(* Two owners never share a page the bitmap manages, whatever sequence of  *)
(* allocations, frees, failed searches and wrap-arounds came before, and   *)
(* whatever the searches past the bitmap read.                             *)
NoOverlap ==
  \A a, b \in live :
    a # b => Span(a.page, a.pages) \cap Span(b.page, b.pages)
               \cap DOMAIN used = {}

(* A usable page is marked used exactly while somebody owns it (nothing is *)
(* leaked, nothing is marked free under its owner), and every other page   *)
(* stays marked and is never handed out.                                   *)
Accounting ==
  \A p \in DOMAIN used :
    /\ p \in usable =>
         (used[p] <=> \E a \in live : p \in Span(a.page, a.pages))
    /\ p \notin usable =>
         used[p] /\ \A a \in live : p \notin Span(a.page, a.pages)

(* alloc never hands out a page of the bitmap itself, nor page 0, which    *)
(* callers would take for a failure ("Make the memory region used by the   *)
(* bitmap unusable").                                                      *)
BitmapIntact ==
  \A a \in live : Span(a.page, a.pages) \cap (own \cup {0}) \cap DOMAIN used = {}

(* alloc returns nullptr only when the bitmap has no free run of that      *)
(* length anywhere: going "back ... from the beginning" misses no run, not *)
(* even one that lies across last_page_idx.                                *)
SearchComplete ==
  \A pages \in 1 .. MaxPages, past \in SUBSET PastBitmap :
    Search(past, pages).page = 0 => Runs(past, 0, Bits(size), pages) = {}

(* The accumulator loop of inner_alloc finds the first run, and leaves     *)
(* last_page_idx just behind it, from every starting point.                *)
LoopFindsFirstRun ==
  \A pages \in 1 .. MaxPages, past \in SUBSET PastBitmap,
     from \in {0, last_page_idx}, limit \in {last_page_idx, Limit(size)} :
    InnerAlloc(past, from, limit, pages)
      = InnerAllocLoop(past, from, limit, pages)

(* The search stays inside the bitmap ("from the beginning of the bitmap   *)
(* to the last bit used"): alloc only hands out pages that have a bit.     *)
AllocWithinBitmap ==
  \A a \in live : Span(a.page, a.pages) \subseteq DOMAIN used
=============================================================================
