----------------------------- MODULE HeapProofs -----------------------------
(***************************************************************************)
(* The heap keeps its blocks, its chains of slabs and its pages in order,  *)
(* for any block sizes, any number of callers and any sequence of requests *)
(* that interleave on the chains; and it implements AllocatorSpec.         *)
(***************************************************************************)
EXTENDS Heap, FiniteSetTheorems, FunctionTheorems, SequenceTheorems, WellFoundedInduction, TLAPS

(* A set of numbers that is not empty has a least one. *)
LEMMA NatMin ==
  ASSUME NEW T, T \subseteq Nat, T # {}
  PROVE  \E x \in T : \A y \in T : x <= y
<1> DEFINE R == OpToRel(<, Nat)
<1>1. IsWellFoundedOn(R, Nat)
  BY NatLessThanWellFounded
<1>2. \A x, y \in Nat : <<x, y>> \in R <=> x < y
  BY DEF OpToRel
<1> HIDE DEF R
<1>3. PICK x \in T : \A y \in T : ~ (<<y, x>> \in R)
  BY <1>1, WFMin
<1>4. \A y \in T : ~ (y < x) /\ y \in Nat /\ x \in Nat
  BY <1>2, <1>3
<1>5. \A y \in T : x <= y
  BY <1>4
<1>. QED
  BY <1>5

-----------------------------------------------------------------------------
(* Lists of free blocks. *)
Elements(s) == {s[i] : i \in DOMAIN s}
NoDup(s) == \A i, j \in DOMAIN s : s[i] = s[j] => i = j

LEMMA TailOfList ==
  ASSUME NEW s \in Seq(Nat), s # <<>>, NoDup(s)
  PROVE  /\ Tail(s) \in Seq(Nat) /\ NoDup(Tail(s)) /\ Head(s) \in Nat
         /\ Elements(Tail(s)) = Elements(s) \ {Head(s)}
         /\ Head(s) \in Elements(s)
<1> DEFINE t == Tail(s)
<1>1. /\ t \in Seq(Nat) /\ Len(s) \in Nat \ {0} /\ Len(t) = Len(s) - 1
      /\ DOMAIN t = 1 .. Len(s) - 1 /\ DOMAIN s = 1 .. Len(s)
      /\ Head(s) = s[1] /\ s[1] \in Nat
      /\ \A i \in 1 .. Len(s) - 1 : t[i] = s[i + 1]
  OBVIOUS
<1> HIDE DEF t
<1>2. \A i \in DOMAIN t : i + 1 \in DOMAIN s /\ i + 1 # 1 /\ t[i] = s[i + 1]
  <2>1. \A i \in 1 .. Len(s) - 1 : i + 1 \in 1 .. Len(s) /\ i + 1 # 1
    BY <1>1
  <2>. QED
    BY <2>1, <1>1, Zenon
<1>3. ASSUME NEW i \in DOMAIN s, i # 1 PROVE i - 1 \in DOMAIN t /\ s[i] = t[i - 1]
  <2>1. i - 1 \in 1 .. Len(s) - 1 /\ (i - 1) + 1 = i
    BY <1>1, <1>3
  <2>. QED
    BY <2>1, <1>1
<1>4. NoDup(t)
  <2> SUFFICES ASSUME NEW i \in DOMAIN t, NEW j \in DOMAIN t, t[i] = t[j] PROVE i = j
    BY DEF NoDup
  <2>1. i + 1 = j + 1
    BY <1>2 DEF NoDup
  <2>. QED
    BY <2>1, <1>1
<1>5. 1 \in DOMAIN s
  BY <1>1
<1>6. Elements(t) \subseteq Elements(s) \ {s[1]}
  <2> SUFFICES ASSUME NEW i \in DOMAIN t PROVE t[i] \in Elements(s) /\ t[i] # s[1]
    BY DEF Elements
  <2>1. i + 1 \in DOMAIN s /\ i + 1 # 1 /\ t[i] = s[i + 1]
    BY <1>2
  <2>2. s[i + 1] # s[1]
    BY <2>1, <1>5 DEF NoDup
  <2>. QED
    BY <2>1, <2>2 DEF Elements
<1>7. Elements(s) \ {s[1]} \subseteq Elements(t)
  <2> SUFFICES ASSUME NEW i \in DOMAIN s, s[i] # s[1] PROVE s[i] \in Elements(t)
    BY DEF Elements
  <2>. QED
    BY <1>3 DEF Elements
<1>8. s[1] \in Elements(s)
  BY <1>5 DEF Elements
<1>. QED
  BY <1>1, <1>4, <1>6, <1>7, <1>8 DEF t

LEMMA PrependToList ==
  ASSUME NEW s \in Seq(Nat), NoDup(s), NEW x \in Nat, x \notin Elements(s)
  PROVE  /\ <<x>> \o s \in Seq(Nat) /\ NoDup(<<x>> \o s)
         /\ Elements(<<x>> \o s) = Elements(s) \cup {x}
<1> DEFINE t == <<x>> \o s
<1>1. /\ t \in Seq(Nat) /\ Len(s) \in Nat
      /\ DOMAIN t = 1 .. Len(s) + 1 /\ DOMAIN s = 1 .. Len(s)
      /\ t[1] = x /\ \A i \in 1 .. Len(s) + 1 : i # 1 => t[i] = s[i - 1]
  OBVIOUS
<1> HIDE DEF t
<1>2. \A i \in DOMAIN t : i = 1 \/ (i - 1 \in DOMAIN s /\ t[i] = s[i - 1])
  BY <1>1
<1>3. \A i \in DOMAIN s : i + 1 \in DOMAIN t /\ t[i + 1] = s[i]
  <2> TAKE i \in DOMAIN s
  <2>1. i + 1 \in 1 .. Len(s) + 1 /\ i + 1 # 1 /\ (i + 1) - 1 = i
    BY <1>1
  <2>. QED
    BY <2>1, <1>1
<1>4. NoDup(t)
  <2> SUFFICES ASSUME NEW i \in DOMAIN t, NEW j \in DOMAIN t, t[i] = t[j] PROVE i = j
    BY DEF NoDup
  <2>1. CASE i = 1 \/ j = 1
    BY <2>1, <1>1, <1>2 DEF Elements
  <2>2. CASE i # 1 /\ j # 1
    <3>1. i - 1 = j - 1
      BY <2>2, <1>2 DEF NoDup
    <3>. QED
      BY <3>1, <1>1
  <2>. QED
    BY <2>1, <2>2
<1>5. 1 \in DOMAIN t
  BY <1>1
<1>6. Elements(t) = Elements(s) \cup {x}
  <2>1. Elements(t) \subseteq Elements(s) \cup {x}
    <3> SUFFICES ASSUME NEW i \in DOMAIN t PROVE t[i] \in Elements(s) \cup {x}
      BY DEF Elements
    <3>1. CASE i = 1
      BY <3>1, <1>1
    <3>2. CASE i # 1
      BY <3>2, <1>2 DEF Elements
    <3>. QED
      BY <3>1, <3>2
  <2>2. Elements(s) \subseteq Elements(t)
    <3> SUFFICES ASSUME NEW i \in DOMAIN s PROVE s[i] \in Elements(t)
      BY DEF Elements
    <3>1. i + 1 \in DOMAIN t /\ t[i + 1] = s[i]
      BY <1>3
    <3>. QED
      BY <3>1 DEF Elements
  <2>3. x \in Elements(t)
    BY <1>1, <1>5 DEF Elements
  <2>. QED
    BY <2>1, <2>2, <2>3
<1>. QED
  BY <1>1, <1>4, <1>6 DEF t

(* A list without duplicates is as long as its set is large. *)
LEMMA ListCardinality ==
  ASSUME NEW s \in Seq(Nat), NoDup(s)
  PROVE  IsFiniteSet(Elements(s)) /\ Cardinality(Elements(s)) = Len(s)
<1> DEFINE n == Len(s)
<1>1. n \in Nat /\ DOMAIN s = 1 .. n
  OBVIOUS
<1> HIDE DEF n
<1>2. IsFiniteSet(1 .. n) /\ Cardinality(1 .. n) = n
  <2>1. IsFiniteSet(1 .. n) /\ Cardinality(1 .. n) = IF 1 > n THEN 0 ELSE n - 1 + 1
    BY <1>1, FS_Interval
  <2>. QED
    BY <2>1, <1>1
<1>3. s \in Bijection(1 .. n, Elements(s))
  <2>1. s \in [1 .. n -> Elements(s)]
    BY <1>1 DEF Elements
  <2>. QED
    BY <2>1, <1>1 DEF Bijection, Injection, Surjection, IsInjective, Elements, NoDup
<1>4. ExistsBijection(1 .. n, Elements(s))
  BY <1>3 DEF ExistsBijection
<1>. QED
  BY <1>2, <1>4, FS_Bijection DEF n

-----------------------------------------------------------------------------
(* The layout of slabs. *)
LEMMA SlabLayout ==
  ASSUME NEW s \in SlabSizes
  PROVE  /\ s \in Nat \ {0} /\ MAX_BLOCKS(s) \in Nat /\ FirstBlock(s) \in Nat \ {0}
         /\ FirstBlock(s) + MAX_BLOCKS(s) * s <= PAGE_SIZE
<1> DEFINE P == PAGE_SIZE
           H == HEADER_SIZE
           k == (P - H) \div s
<1>1. P \in Nat /\ H \in Nat \ {0} /\ s \in Nat \ {0} /\ P % s = 0 /\ s + H <= P
  BY LayoutAssumption, PageSizeIsPositive
<1>2. k \in Nat /\ s * k <= P - H
  <2>1. P - H \in Nat
    BY <1>1
  <2>2. P - H = s * k + ((P - H) % s) /\ (P - H) % s \in 0 .. s - 1 /\ k \in Nat
    BY <2>1, <1>1
  <2> HIDE DEF k
  <2>3. s * k \in Nat
    BY <2>2, <1>1
  <2>. QED
    BY <2>2, <2>3, <1>1
<1> HIDE DEF k
<1>3. CASE s > H
  <2>1. PICK c \in Nat : P = s * c
    <3>1. P = s * (P \div s) + (P % s) /\ P \div s \in Nat
      BY <1>1
    <3>. QED
      BY <3>1, <1>1
  <2>2. k < c
    <3> SUFFICES ASSUME k >= c PROVE FALSE
      BY <2>1, <1>2
    <3>1. s * k >= s * c
      BY <2>1, <1>1, <1>2
    <3>2. s * k \in Nat /\ s * c \in Nat
      BY <2>1, <1>1, <1>2
    <3>. QED
      BY <3>1, <3>2, <2>1, <1>1, <1>2
  <2>3. s * (k + 1) <= s * c
    BY <2>1, <2>2, <1>1, <1>2
  <2>4. s + k * s = s * (k + 1)
    BY <1>1, <1>2
  <2>. QED
    BY <2>1, <2>3, <2>4, <1>1, <1>2, <1>3 DEF MAX_BLOCKS, FirstBlock, k
<1>4. CASE ~(s > H)
  <2>1. s * k = k * s /\ s * k \in Nat
    BY <1>1, <1>2
  <2>. QED
    BY <2>1, <1>1, <1>2, <1>4 DEF MAX_BLOCKS, FirstBlock, k
<1>. QED
  BY <1>3, <1>4

(* Blocks lie in their page, behind its start, and apart from each other. *)
LEMMA BlockPlaces ==
  ASSUME NEW s \in SlabSizes
  PROVE  /\ \A x \in Blocks(s) : x \in Nat \ {0} /\ x + s <= PAGE_SIZE
         /\ \A x, y \in Blocks(s) : x < y => x + s <= y
<1> DEFINE f == FirstBlock(s)
           n == MAX_BLOCKS(s)
<1>1. s \in Nat \ {0} /\ n \in Nat /\ f \in Nat \ {0} /\ f + n * s <= PAGE_SIZE /\ PAGE_SIZE \in Nat
  BY SlabLayout, LayoutAssumption, PageSizeIsPositive
<1> HIDE DEF f, n
<1>2. \A x \in Blocks(s) : \E i \in 0 .. n - 1 : x = f + i * s
  BY DEF Blocks, f, n
<1>3. ASSUME NEW i \in Nat, NEW j \in Nat, i < j PROVE i * s + s <= j * s /\ i * s \in Nat /\ j * s \in Nat
  <2>1. (i + 1) * s <= j * s
    BY <1>1, <1>3
  <2>2. (i + 1) * s = i * s + s /\ i * s \in Nat /\ j * s \in Nat
    BY <1>1
  <2>. QED
    BY <2>1, <2>2
<1>4. ASSUME NEW x \in Blocks(s) PROVE x \in Nat \ {0} /\ x + s <= PAGE_SIZE
  <2>1. PICK i \in 0 .. n - 1 : x = f + i * s
    BY <1>2
  <2>2. i * s + s <= n * s /\ i * s \in Nat /\ n * s \in Nat
    BY <1>1, <1>3
  <2>. QED
    BY <2>1, <2>2, <1>1
<1>5. ASSUME NEW x \in Blocks(s), NEW y \in Blocks(s), x < y PROVE x + s <= y
  <2>1. PICK i \in 0 .. n - 1 : x = f + i * s
    BY <1>2
  <2>2. PICK j \in 0 .. n - 1 : y = f + j * s
    BY <1>2
  <2>3. i \in Nat /\ j \in Nat /\ i * s \in Nat /\ j * s \in Nat
    BY <1>1
  <2>4. i < j
    <3>1. CASE i = j
      BY <3>1, <2>1, <2>2, <2>3, <1>1, <1>5
    <3>2. CASE j < i
      <4>1. j * s + s <= i * s
        BY <3>2, <2>3, <1>3
      <4>. QED
        BY <4>1, <2>1, <2>2, <2>3, <1>1, <1>5
    <3>. QED
      BY <3>1, <3>2, <2>3
  <2>5. i * s + s <= j * s
    BY <2>3, <2>4, <1>3
  <2>. QED
    BY <2>1, <2>2, <2>3, <2>5, <1>1
<1>. QED
  BY <1>4, <1>5

LEMMA NewSlabBlocks ==
  ASSUME NEW s \in SlabSizes
  PROVE  /\ NewSlab(s) \in [slab_size : Nat, free_block : Seq(Nat), next : Nat]
         /\ NewSlab(s).slab_size = s /\ NewSlab(s).next = 0
         /\ NoDup(NewSlab(s).free_block) /\ Elements(NewSlab(s).free_block) = Blocks(s)
<1> DEFINE f == FirstBlock(s)
           n == MAX_BLOCKS(s)
           l == [i \in 1 .. n |-> f + (i - 1) * s]
<1>1. s \in Nat \ {0} /\ n \in Nat /\ f \in Nat \ {0}
  BY SlabLayout
<1>2. \A i \in 1 .. n : i - 1 \in Nat /\ (i - 1) * s \in Nat /\ f + (i - 1) * s \in Nat
  BY <1>1
<1>3. l \in [1 .. n -> Nat]
  BY <1>2
<1>4. l \in Seq(Nat) /\ DOMAIN l = 1 .. n /\ \A i \in 1 .. n : l[i] = f + (i - 1) * s
  <2>1. \A i \in 1 .. n : l[i] = f + (i - 1) * s
    OBVIOUS
  <2>2. DOMAIN l = 1 .. n
    OBVIOUS
  <2>3. l \in Seq(Nat)
    <3> HIDE DEF l, n
    <3>. QED
      BY <1>1, <1>3
  <2>. QED
    BY <2>1, <2>2, <2>3
<1> HIDE DEF f, n, l
<1>5. NoDup(l)
  <2> SUFFICES ASSUME NEW i \in 1 .. n, NEW j \in 1 .. n, l[i] = l[j] PROVE i = j
    BY <1>4 DEF NoDup
  <2>1. (i - 1) * s = (j - 1) * s
    BY <1>1, <1>2, <1>4
  <2>2. i - 1 = j - 1
    BY <2>1, <1>1
  <2>. QED
    BY <2>2
<1>6. Elements(l) \subseteq Blocks(s)
  <2> SUFFICES ASSUME NEW i \in 1 .. n PROVE l[i] \in Blocks(s)
    BY <1>4 DEF Elements
  <2>1. i - 1 \in 0 .. n - 1
    BY <1>1
  <2>. QED
    BY <2>1, <1>4 DEF Blocks, f, n
<1>7. Blocks(s) \subseteq Elements(l)
  <2> SUFFICES ASSUME NEW i \in 0 .. n - 1 PROVE f + i * s \in Elements(l)
    BY DEF Blocks, f, n
  <2>1. i + 1 \in 1 .. n /\ (i + 1) - 1 = i
    BY <1>1
  <2>2. l[i + 1] = f + i * s
    BY <2>1, <1>4
  <2>. QED
    BY <2>1, <2>2, <1>4 DEF Elements
<1>8. NewSlab(s) = [slab_size |-> s, free_block |-> l, next |-> 0]
  BY DEF NewSlab, l, f, n
<1>9. Elements(l) = Blocks(s)
  BY <1>6, <1>7
<1> HIDE DEF NewSlab
<1>10. NewSlab(s).slab_size = s /\ NewSlab(s).next = 0 /\ NewSlab(s).free_block = l
  BY <1>8
<1>11. NewSlab(s) \in [slab_size : Nat, free_block : Seq(Nat), next : Nat]
  BY <1>1, <1>4, <1>8
<1>. QED
  BY <1>5, <1>9, <1>10, <1>11

(* kmalloc's choice exists. *)
LEMMA ClassOfSmall ==
  ASSUME NEW size \in Nat, IsSmall(size)
  PROVE  ClassOf(size) \in SlabSizes /\ size <= ClassOf(size)
<1> DEFINE T == {s \in SlabSizes : size <= s}
<1>1. T \subseteq Nat /\ T # {}
  BY LayoutAssumption, PageSizeIsPositive DEF IsSmall
<1>2. PICK s \in T : \A r \in T : s <= r
  BY <1>1, NatMin
<1>3. s \in SlabSizes /\ size <= s /\ \A r \in SlabSizes : size <= r => s <= r
  BY <1>2
<1>. QED
  BY <1>3 DEF ClassOf

LEMMA LargePagesEnough ==
  ASSUME NEW size \in Nat \ {0}
  PROVE  /\ LargePages(size) \in Nat /\ LargePages(size) >= 2
         /\ (LargePages(size) - 1) * PAGE_SIZE >= size
<1> DEFINE P == PAGE_SIZE
           x == size + P - 1
           d == x \div P
<1>1. P \in Nat \ {0} /\ x \in Nat
  BY LayoutAssumption, PageSizeIsPositive
<1> HIDE DEF x
<1>2. x = P * d + (x % P) /\ x % P \in 0 .. P - 1 /\ d \in Nat
  BY <1>1
<1> HIDE DEF d
<1>3. P * d >= size /\ P * d \in Nat
  <2>1. P * d \in Nat
    BY <1>1, <1>2
  <2>. QED
    BY <2>1, <1>1, <1>2 DEF x
<1>4. d # 0
  BY <1>1, <1>2, <1>3
<1>5. P * d = d * P
  BY <1>1, <1>2
<1>6. LargePages(size) = d + 1
  BY DEF LargePages, d, x
<1>. QED
  BY <1>2, <1>3, <1>4, <1>5, <1>6

(* What the page pool hands out. *)
Allocated(a, f, n) ==
  \/ a.page = 0 /\ a.pool = f
  \/ /\ a.page \in f /\ a.page # 0 /\ a.page \in Nat
     /\ Span(a.page, n) \subseteq f /\ a.pool = f \ Span(a.page, n)

LEMMA AllocPagesFree ==
  \A f \in SUBSET Pages, n \in Nat : Allocated(AllocPages(f, n), f, n)
<1> SUFFICES ASSUME NEW f \in SUBSET Pages, NEW n \in Nat PROVE Allocated(AllocPages(f, n), f, n)
  OBVIOUS
<1>1. CASE n = 0 \/ Runs(f, n) = {}
  BY <1>1 DEF AllocPages, Allocated
<1>2. CASE n # 0 /\ Runs(f, n) # {}
  <2> DEFINE page == CHOOSE p \in Runs(f, n) : TRUE
  <2>1. page \in Runs(f, n)
    BY <1>2
  <2>2. AllocPages(f, n) = [page |-> page, pool |-> f \ Span(page, n)]
    BY <1>2 DEF AllocPages
  <2> HIDE DEF page
  <2>3. page \in f /\ Span(page, n) \subseteq f /\ page \in Nat /\ page # 0
    BY <2>1 DEF Runs, Pages
  <2>. QED
    BY <2>2, <2>3 DEF Allocated
<1>. QED
  BY <1>1, <1>2

-----------------------------------------------------------------------------
(* The inductive invariant. *)
Header == [slab_size : Nat, free_block : Seq(Nat), next : Nat]
Block == [page : Nat, off : Nat, size : Nat \ {0}]

HeapTypes ==
  /\ DOMAIN hdr \subseteq Pages /\ hdr \in [DOMAIN hdr -> Header]
  /\ root \in [SlabSizes -> Nat]
  /\ op \in [Procs -> [slab : Nat, size : Nat]]
  /\ live \subseteq Block

(* Each block of a slab is free or held, and not both. *)
HeldAt(p) == {b.off : b \in {c \in SlabBlocks : c.page = p}}
SlabsOK ==
  \A p \in Slabs :
    /\ hdr[p].slab_size \in SlabSizes /\ NoDup(hdr[p].free_block)
    /\ Elements(hdr[p].free_block) \cap HeldAt(p) = {}
    /\ Elements(hdr[p].free_block) \cup HeldAt(p) = Blocks(hdr[p].slab_size)

(* A slab that a caller may take a block of size from. *)
AtSlab(page, size) ==
  page \in Slabs /\ size \in Requests /\ IsSmall(size) /\ hdr[page].slab_size = ClassOf(size)

BlocksOK ==
  /\ \A b \in SlabBlocks : AtSlab(b.page, b.size)
  /\ \A b, c \in SlabBlocks : b.page = c.page /\ b.off = c.off => b = c

OpsOK == \A p \in Procs : op[p] = Idle \/ AtSlab(op[p].slab, op[p].size)

(* The pages of a large block, with the one of its header. *)
LargeSpan(b) == Span(b.page - 1, LargePages(b.size))
LargeOK ==
  /\ \A b \in LargeBlocks :
       /\ b.page - 1 \in DOMAIN hdr /\ hdr[b.page - 1].slab_size = LargePages(b.size)
       /\ LargeSpan(b) \subseteq Pages /\ LargeSpan(b) \cap Slabs = {}
  /\ \A b, c \in LargeBlocks : b # c => LargeSpan(b) \cap LargeSpan(c) = {}

(* Every slab is on the chain of its size. *)
ChainOK ==
  /\ \A s \in SlabSizes : /\ root[s] \in Slabs /\ hdr[root[s]].slab_size = s
                          /\ \A q \in Slabs : hdr[q].next # root[s]
  /\ \A q \in Slabs : hdr[q].next # 0 =>
       /\ hdr[q].next \in Slabs /\ hdr[hdr[q].next].slab_size = hdr[q].slab_size
       /\ \A r \in Slabs : hdr[r].next = hdr[q].next => r = q
  /\ \A p \in Slabs : p = root[hdr[p].slab_size] \/ \E q \in Slabs : hdr[q].next = p

(* The pages of the heap; none of them is free. *)
HeapArea == Slabs \cup UNION {LargeSpan(b) : b \in LargeBlocks}
PoolOK == pool \subseteq Pages /\ pool \cap HeapArea = {}

(* What concerns the heap alone, and with it that its pages are not free. *)
BlocksInv == HeapTypes /\ SlabsOK /\ BlocksOK /\ OpsOK /\ LargeOK /\ ChainOK
HeapInv == BlocksInv /\ PoolOK

(* A step of another component: only the pool changes. *)
LEMMA HeapUnchanged ==
  ASSUME BlocksInv, UNCHANGED heapVars
  PROVE  BlocksInv' /\ HeapArea' = HeapArea
<1>1. HeapArea' = HeapArea
  BY DEF heapVars, HeapArea, Slabs, LargeBlocks, SlabBlocks, LargeSpan
<1>2. UNCHANGED <<HeapTypes, SlabsOK, BlocksOK, OpsOK, LargeOK, ChainOK>>
  <2>1. UNCHANGED <<Slabs, LargeBlocks, SlabBlocks, HeapTypes>>
    BY DEF heapVars, Slabs, LargeBlocks, SlabBlocks, HeapTypes
  <2>2. UNCHANGED <<SlabsOK, BlocksOK, OpsOK>>
    BY <2>1 DEF heapVars, SlabsOK, BlocksOK, OpsOK, HeldAt, AtSlab
  <2>3. UNCHANGED <<LargeOK, ChainOK>>
    BY <2>1 DEF heapVars, LargeOK, ChainOK, LargeSpan
  <2>. QED
    BY <2>1, <2>2, <2>3
<1>. QED
  BY <1>1, <1>2 DEF BlocksInv

LEMMA OthersKeepHeap ==
  ASSUME HeapInv, pool' \subseteq Pages, pool' \cap HeapArea = {}, UNCHANGED heapVars
  PROVE  HeapInv' /\ HeapArea' = HeapArea
  BY HeapUnchanged DEF HeapInv, PoolOK

(* What the conjuncts say of a slab. *)
LEMMA SlabFacts ==
  ASSUME BlocksInv, NEW page \in Slabs
  PROVE  /\ page \in DOMAIN hdr /\ page \in Nat \ {0} /\ hdr[page] \in Header
         /\ hdr[page].slab_size \in SlabSizes /\ hdr[page].free_block \in Seq(Nat)
         /\ hdr[page].next \in Nat
  BY MaxPageIsNat DEF BlocksInv, HeapTypes, SlabsOK, Slabs, Header, Pages

LEMMA BlockFacts ==
  ASSUME BlocksInv
  PROVE  /\ \A b \in live : b.page \in Nat /\ b.off \in Nat /\ b.size \in Nat \ {0}
         /\ \A b \in LargeBlocks : b \in live /\ b.off = 0 /\ b \notin SlabBlocks
         /\ \A b \in SlabBlocks : b \in live /\ b.off # 0 /\ b \notin LargeBlocks
         /\ \A b \in live : b \in SlabBlocks \/ b \in LargeBlocks
         /\ \A b \in LargeBlocks : b.page - 1 \in LargeSpan(b) /\ b.page - 1 \in Nat /\ LargePages(b.size) \in Nat
<1>1. \A b \in live : b.page \in Nat /\ b.off \in Nat /\ b.size \in Nat \ {0}
  BY DEF BlocksInv, HeapTypes, Block
<1>2. \A b \in LargeBlocks : b \in live /\ b.off = 0 /\ b \notin SlabBlocks
  BY <1>1 DEF LargeBlocks, SlabBlocks
<1>3. /\ \A b \in SlabBlocks : b \in live /\ b.off # 0 /\ b \notin LargeBlocks
      /\ \A b \in live : b \in SlabBlocks \/ b \in LargeBlocks
  BY DEF LargeBlocks, SlabBlocks
<1>4. ASSUME NEW b \in LargeBlocks
      PROVE  b.page - 1 \in LargeSpan(b) /\ b.page - 1 \in Nat /\ LargePages(b.size) \in Nat
  <2>1. b.page - 1 \in Pages
    BY DEF BlocksInv, HeapTypes, LargeOK
  <2>2. LargePages(b.size) \in Nat /\ LargePages(b.size) >= 2
    BY <1>1, <1>2, LargePagesEnough
  <2>. QED
    BY <2>1, <2>2, MaxPageIsNat DEF LargeSpan, Span, Pages
<1>. QED
  BY <1>1, <1>2, <1>3, <1>4

-----------------------------------------------------------------------------
(* Slab::alloc takes a block. *)
LEMMA TakeBlockKeeps ==
  ASSUME HeapInv, NEW p \in Procs, NEW page, NEW size, AtSlab(page, size), TakeBlock(p, page, size)
  PROVE  HeapInv' /\ HeapArea' = HeapArea /\ pool' = pool
<1> DEFINE free == hdr[page].free_block
           new == [page |-> page, off |-> Head(free), size |-> size]
<1>1. /\ page \in Slabs /\ size \in Requests /\ IsSmall(size) /\ hdr[page].slab_size = ClassOf(size)
      /\ size \in Nat \ {0}
  BY LayoutAssumption, PageSizeIsPositive DEF AtSlab
<1>2. /\ free # <<>> /\ hdr' = [hdr EXCEPT ![page].free_block = Tail(@)]
      /\ live' = live \cup {new} /\ op' = [op EXCEPT ![p] = Idle]
      /\ pool' = pool /\ root' = root
  BY DEF TakeBlock
<1>3. /\ page \in DOMAIN hdr /\ page \in Nat \ {0} /\ hdr[page] \in Header
      /\ free \in Seq(Nat) /\ hdr[page].slab_size \in SlabSizes /\ NoDup(free)
      /\ Elements(free) \cap HeldAt(page) = {}
      /\ Elements(free) \cup HeldAt(page) = Blocks(hdr[page].slab_size)
  BY <1>1, SlabFacts DEF HeapInv, BlocksInv, SlabsOK
<1>4. /\ Tail(free) \in Seq(Nat) /\ NoDup(Tail(free)) /\ Head(free) \in Nat \ {0}
      /\ Elements(Tail(free)) = Elements(free) \ {Head(free)} /\ Head(free) \in Elements(free)
      /\ Head(free) \notin HeldAt(page)
  <2>1. /\ Tail(free) \in Seq(Nat) /\ NoDup(Tail(free))
        /\ Elements(Tail(free)) = Elements(free) \ {Head(free)} /\ Head(free) \in Elements(free)
    BY <1>2, <1>3, TailOfList
  <2>2. Head(free) \in Blocks(hdr[page].slab_size)
    BY <2>1, <1>3
  <2>. QED
    BY <2>1, <2>2, <1>3, BlockPlaces
<1> HIDE DEF free, new
<1>5. /\ hdr' \in [DOMAIN hdr -> Header] /\ DOMAIN hdr' = DOMAIN hdr
      /\ \A q \in DOMAIN hdr : q # page => hdr'[q] = hdr[q]
      /\ hdr'[page].slab_size = hdr[page].slab_size /\ hdr'[page].next = hdr[page].next
      /\ hdr'[page].free_block = Tail(free)
  BY <1>2, <1>3, <1>4 DEF HeapInv, BlocksInv, HeapTypes, Header, free
<1>6. new.page = page /\ new.off = Head(free) /\ new.size = size /\ new \in Block
  BY <1>1, <1>3, <1>4 DEF new, Block
<1>7. \A b \in live : b.page = page => b.off # Head(free) \/ b.off = 0
  BY <1>4 DEF HeldAt, SlabBlocks
<1>8. LargeBlocks' = LargeBlocks /\ SlabBlocks' = SlabBlocks \cup {new}
  BY <1>2, <1>4, <1>6 DEF LargeBlocks, SlabBlocks
<1>9. Slabs' = Slabs
  BY <1>5, <1>8 DEF Slabs
<1>10. \A q \in Slabs : hdr'[q].slab_size = hdr[q].slab_size /\ hdr'[q].next = hdr[q].next
  BY <1>5 DEF Slabs
<1>11. ASSUME NEW x, NEW y, AtSlab(x, y)
       PROVE  x \in Slabs' /\ y \in Requests /\ IsSmall(y) /\ hdr'[x].slab_size = ClassOf(y)
  BY <1>9, <1>10, <1>11 DEF AtSlab
<1>12. HeapTypes'
  BY <1>2, <1>5, <1>6 DEF HeapInv, BlocksInv, HeapTypes, Idle
<1>13. SlabsOK'
  <2>1. HeldAt(page)' = HeldAt(page) \cup {Head(free)}
    BY <1>6, <1>8 DEF HeldAt
  <2>2. \A q : q # page => HeldAt(q)' = HeldAt(q)
    BY <1>6, <1>8 DEF HeldAt
  <2> SUFFICES ASSUME NEW q \in Slabs
               PROVE  /\ hdr'[q].slab_size \in SlabSizes /\ NoDup(hdr'[q].free_block)
                      /\ Elements(hdr'[q].free_block) \cap HeldAt(q)' = {}
                      /\ Elements(hdr'[q].free_block) \cup HeldAt(q)' = Blocks(hdr'[q].slab_size)
    BY <1>9 DEF SlabsOK
  <2>3. CASE q = page
    BY <2>1, <2>3, <1>3, <1>4, <1>5
  <2>4. CASE q # page
    BY <2>2, <2>4, <1>5 DEF HeapInv, BlocksInv, SlabsOK, Slabs
  <2>. QED
    BY <2>3, <2>4
<1>14. BlocksOK'
  <2>1. \A b \in SlabBlocks \cup {new} :
          /\ b.page \in Slabs' /\ b.size \in Requests /\ IsSmall(b.size)
          /\ hdr'[b.page].slab_size = ClassOf(b.size)
    BY <1>6, <1>11 DEF HeapInv, BlocksInv, BlocksOK
  <2>3. \A b \in SlabBlocks : ~(b.page = new.page /\ b.off = new.off)
    BY <1>6, <1>7 DEF SlabBlocks
  <2>. QED
    BY <2>1, <2>3, <1>8 DEF HeapInv, BlocksInv, BlocksOK, AtSlab
<1>15. OpsOK'
  <2> SUFFICES ASSUME NEW r \in Procs, op'[r] # Idle
               PROVE  /\ op'[r].slab \in Slabs' /\ op'[r].size \in Requests /\ IsSmall(op'[r].size)
                      /\ hdr'[op'[r].slab].slab_size = ClassOf(op'[r].size)
    BY DEF OpsOK, AtSlab
  <2>1. op'[r] = op[r]
    BY <1>2 DEF HeapInv, BlocksInv, HeapTypes
  <2>. QED
    BY <2>1, <1>11 DEF HeapInv, BlocksInv, OpsOK
<1>16. LargeOK'
  BY <1>5, <1>8, <1>9 DEF HeapInv, BlocksInv, LargeOK, LargeSpan
<1>17. ChainOK'
  BY <1>2, <1>9, <1>10 DEF HeapInv, BlocksInv, ChainOK
<1>18. HeapArea' = HeapArea
  BY <1>8, <1>9 DEF HeapArea, LargeSpan
<1>. QED
  BY <1>2, <1>12, <1>13, <1>14, <1>15, <1>16, <1>17, <1>18 DEF HeapInv, BlocksInv, PoolOK

(* ... or goes on to the next slab of the chain. *)
LEMMA GoToNextKeeps ==
  ASSUME HeapInv, NEW p \in Procs, NEW page, NEW size, AtSlab(page, size), GoToNext(p, page, size)
  PROVE  HeapInv' /\ HeapArea' = HeapArea /\ pool' = pool
<1> DEFINE q == hdr[page].next
<1>1. /\ q # 0 /\ op' = [op EXCEPT ![p] = [slab |-> q, size |-> size]]
      /\ UNCHANGED <<pool, hdr, root, live>>
  BY DEF GoToNext
<1>2. page \in Slabs /\ size \in Nat /\ q \in Nat
  BY SlabFacts, LayoutAssumption, PageSizeIsPositive DEF AtSlab, HeapInv
<1>3. AtSlab(q, size)
  BY <1>1, <1>2 DEF HeapInv, BlocksInv, ChainOK, AtSlab
<1> HIDE DEF q
<1>4. UNCHANGED <<Slabs, LargeBlocks, SlabBlocks>>
  BY <1>1 DEF Slabs, LargeBlocks, SlabBlocks
<1>5. HeapTypes'
  BY <1>1, <1>2 DEF HeapInv, BlocksInv, HeapTypes
<1>6. OpsOK'
  <2> SUFFICES ASSUME NEW r \in Procs, op'[r] # Idle
               PROVE  /\ op'[r].slab \in Slabs' /\ op'[r].size \in Requests /\ IsSmall(op'[r].size)
                      /\ hdr'[op'[r].slab].slab_size = ClassOf(op'[r].size)
    BY DEF OpsOK, AtSlab
  <2>1. CASE r = p
    BY <2>1, <1>1, <1>3, <1>4 DEF HeapInv, BlocksInv, HeapTypes, AtSlab
  <2>2. CASE r # p
    <3>1. op'[r] = op[r]
      BY <2>2, <1>1 DEF HeapInv, BlocksInv, HeapTypes
    <3>. QED
      BY <3>1, <1>1, <1>4 DEF HeapInv, BlocksInv, OpsOK, AtSlab
  <2>. QED
    BY <2>1, <2>2
<1>7. UNCHANGED <<SlabsOK, BlocksOK, LargeOK, ChainOK>>
  <2>1. UNCHANGED <<SlabsOK, LargeOK, ChainOK>>
    BY <1>1, <1>4 DEF SlabsOK, LargeOK, ChainOK, HeldAt, LargeSpan
  <2>2. UNCHANGED BlocksOK
    BY <1>1, <1>4 DEF BlocksOK, AtSlab
  <2>. QED
    BY <2>1, <2>2
<1>8. HeapArea' = HeapArea
  BY <1>4 DEF HeapArea, LargeSpan
<1>. QED
  BY <1>1, <1>5, <1>6, <1>7, <1>8 DEF HeapInv, BlocksInv, PoolOK

(* The pages of the heap as one set: a page of it is a slab or a page of   *)
(* one large block.                                                        *)
LEMMA AreaFacts ==
  ASSUME BlocksInv
  PROVE  /\ HeapArea \subseteq Pages /\ DOMAIN hdr \subseteq HeapArea
         /\ \A b \in LargeBlocks : LargeSpan(b) \subseteq HeapArea
<1>1. Slabs \subseteq Pages
  BY DEF BlocksInv, HeapTypes, Slabs
<1>2. \A b \in LargeBlocks : LargeSpan(b) \subseteq HeapArea
  BY DEF HeapArea
<1>3. HeapArea \subseteq Pages
  BY <1>1 DEF HeapArea, BlocksInv, LargeOK
<1>4. ASSUME NEW q \in DOMAIN hdr PROVE q \in HeapArea
  <2>1. CASE q \in Slabs
    BY <2>1 DEF HeapArea
  <2>2. CASE q \notin Slabs
    <3>1. PICK b \in LargeBlocks : b.page - 1 = q
      BY <2>2 DEF Slabs
    <3>. QED
      BY <3>1, <1>2, BlockFacts
  <2>. QED
    BY <2>1, <2>2
<1>. QED
  BY <1>2, <1>3, <1>4

(* ... or adds a slab to the chain and goes on to it. *)
LEMMA AddSlabKeeps ==
  ASSUME HeapInv, NEW p \in Procs, NEW page, NEW size, AtSlab(page, size), AddSlab(p, page, size)
  PROVE  HeapInv' /\ pool' \cup HeapArea' = pool \cup HeapArea
<1> DEFINE a == AllocPages(pool, 1)
           n == a.page
           s == hdr[page].slab_size
<1>1. /\ page \in Slabs /\ size \in Requests /\ IsSmall(size) /\ s = ClassOf(size)
      /\ size \in Nat \ {0}
  BY LayoutAssumption, PageSizeIsPositive DEF AtSlab
<1>2. /\ page \in DOMAIN hdr /\ page \in Nat \ {0} /\ hdr[page] \in Header /\ s \in SlabSizes
  BY <1>1, SlabFacts DEF HeapInv
<1>3. /\ hdr[page].next = 0 /\ pool' = a.pool /\ root' = root /\ live' = live
  BY DEF AddSlab, IsLast
<1>4. \/ n = 0 /\ a.pool = pool
      \/ n \in pool /\ n # 0 /\ n \in Nat /\ a.pool = pool \ {n}
  <2>1. pool \in SUBSET Pages
    BY DEF HeapInv, BlocksInv, PoolOK
  <2>2. Allocated(a, pool, 1)
    BY <2>1, AllocPagesFree
  <2>3. a.page \in Nat => Span(a.page, 1) = {a.page}
    BY DEF Span
  <2> HIDE DEF a
  <2>. QED
    BY <2>2, <2>3 DEF Allocated
<1>5. CASE n = 0
  <2>1. hdr' = hdr /\ op' = op
    BY <1>5 DEF AddSlab
  <2>2. HeapInv' /\ HeapArea' = HeapArea
    BY <2>1, <1>3, <1>4, <1>5, OthersKeepHeap DEF HeapInv, BlocksInv, PoolOK, heapVars
  <2>. QED
    BY <2>2, <1>3, <1>4, <1>5
<1>6. CASE n # 0
  <2>1. /\ hdr' = WithHeader([hdr EXCEPT ![page].next = n], n, NewSlab(s))
        /\ op' = [op EXCEPT ![p] = [slab |-> n, size |-> size]]
    BY <1>6 DEF AddSlab
  <2>2. n \in pool /\ n \in Nat \ {0} /\ n \in Pages /\ pool' = pool \ {n} /\ n \notin HeapArea
    BY <1>3, <1>4, <1>6 DEF HeapInv, BlocksInv, PoolOK
  <2> HIDE DEF n, s, a
  <2>3. /\ n \notin DOMAIN hdr /\ n \notin Slabs /\ n # page /\ \A b \in LargeBlocks : n \notin LargeSpan(b)
    BY <2>2, <1>2, AreaFacts DEF HeapArea, HeapInv
  <2>4. /\ NewSlab(s) \in Header /\ NewSlab(s).slab_size = s /\ NewSlab(s).next = 0
        /\ NoDup(NewSlab(s).free_block) /\ Elements(NewSlab(s).free_block) = Blocks(s)
    BY <1>2, NewSlabBlocks DEF Header
  <2>5. /\ DOMAIN hdr' = DOMAIN hdr \cup {n} /\ hdr'[n] = NewSlab(s)
        /\ \A q \in DOMAIN hdr : q # page => hdr'[q] = hdr[q]
        /\ hdr'[page].slab_size = s /\ hdr'[page].next = n
        /\ hdr'[page].free_block = hdr[page].free_block
        /\ hdr' \in [DOMAIN hdr' -> Header]
    <3> DEFINE h == [hdr EXCEPT ![page].next = n]
    <3>1. /\ DOMAIN h = DOMAIN hdr /\ \A q \in DOMAIN hdr : q # page => h[q] = hdr[q]
          /\ h[page] \in Header /\ h[page].slab_size = s /\ h[page].next = n
          /\ h[page].free_block = hdr[page].free_block /\ h \in [DOMAIN hdr -> Header]
      BY <1>2, <2>2 DEF HeapInv, BlocksInv, HeapTypes, Header, s
    <3> HIDE DEF h
    <3>2. hdr' = [q \in DOMAIN h \cup {n} |-> IF q = n THEN NewSlab(s) ELSE h[q]]
      BY <2>1 DEF WithHeader, h
    <3>3. /\ DOMAIN hdr' = DOMAIN hdr \cup {n} /\ hdr'[n] = NewSlab(s)
          /\ \A q \in DOMAIN hdr : hdr'[q] = h[q]
      BY <3>1, <3>2, <2>3
    <3>4. hdr' \in [DOMAIN hdr' -> Header]
      BY <3>1, <3>2, <3>3, <2>4
    <3>. QED
      BY <3>1, <3>3, <3>4, <1>2
  <2>6. LargeBlocks' = LargeBlocks /\ SlabBlocks' = SlabBlocks
    BY <1>3 DEF LargeBlocks, SlabBlocks
  <2>7. Slabs' = Slabs \cup {n}
    <3>1. \A b \in LargeBlocks : b.page - 1 # n
      BY <2>3, BlockFacts DEF HeapInv
    <3>. QED
      BY <3>1, <2>5, <2>6 DEF Slabs
  <2>8. /\ \A q \in Slabs : hdr'[q].slab_size = hdr[q].slab_size /\ hdr'[q].free_block = hdr[q].free_block
        /\ \A q \in Slabs : q # page => hdr'[q].next = hdr[q].next
        /\ hdr'[n].slab_size = s /\ hdr'[n].next = 0
    BY <2>4, <2>5 DEF Slabs, s
  <2>9. \A x, y : AtSlab(x, y) => x \in Slabs' /\ y \in Requests /\ IsSmall(y) /\ hdr'[x].slab_size = ClassOf(y)
    BY <2>7, <2>8 DEF AtSlab
  <2>10. HeapTypes'
    <3>1. op' \in [Procs -> [slab : Nat, size : Nat]]
      BY <2>1, <2>2, <1>1 DEF HeapInv, BlocksInv, HeapTypes
    <3>. QED
      BY <3>1, <2>2, <2>5, <1>3 DEF HeapInv, BlocksInv, HeapTypes
  <2>11. SlabsOK'
    <3>1. \A q : HeldAt(q)' = HeldAt(q)
      BY <2>6 DEF HeldAt
    <3>2. HeldAt(n) = {}
      BY <2>3 DEF HeapInv, BlocksInv, BlocksOK, AtSlab, HeldAt
    <3> SUFFICES ASSUME NEW q \in Slabs \cup {n}
                 PROVE  /\ hdr'[q].slab_size \in SlabSizes /\ NoDup(hdr'[q].free_block)
                        /\ Elements(hdr'[q].free_block) \cap HeldAt(q) = {}
                        /\ Elements(hdr'[q].free_block) \cup HeldAt(q) = Blocks(hdr'[q].slab_size)
      BY <3>1, <2>7 DEF SlabsOK
    <3>3. CASE q = n
      BY <3>2, <3>3, <2>4, <2>5, <1>2
    <3>4. CASE q # n
      BY <3>4, <2>8 DEF HeapInv, BlocksInv, SlabsOK
    <3>. QED
      BY <3>3, <3>4
  <2>12. BlocksOK'
    BY <2>6, <2>9 DEF HeapInv, BlocksInv, BlocksOK, AtSlab
  <2>13. OpsOK'
    <3> SUFFICES ASSUME NEW r \in Procs, op'[r] # Idle
                 PROVE  /\ op'[r].slab \in Slabs' /\ op'[r].size \in Requests /\ IsSmall(op'[r].size)
                        /\ hdr'[op'[r].slab].slab_size = ClassOf(op'[r].size)
      BY DEF OpsOK, AtSlab
    <3>1. CASE r = p
      <4>1. op'[r].slab = n /\ op'[r].size = size
        BY <3>1, <2>1 DEF HeapInv, BlocksInv, HeapTypes
      <4>. QED
        BY <4>1, <2>7, <2>8, <1>1
    <3>2. CASE r # p
      <4>1. op'[r] = op[r]
        BY <3>2, <2>1 DEF HeapInv, BlocksInv, HeapTypes
      <4>. QED
        BY <4>1, <2>9 DEF HeapInv, BlocksInv, OpsOK
    <3>. QED
      BY <3>1, <3>2
  <2>14. LargeOK'
    <3>1. \A b : LargeSpan(b)' = LargeSpan(b)
      BY DEF LargeSpan
    <3>2. ASSUME NEW b \in LargeBlocks
          PROVE  /\ b.page - 1 \in DOMAIN hdr' /\ hdr'[b.page - 1].slab_size = LargePages(b.size)
                 /\ LargeSpan(b) \subseteq Pages /\ LargeSpan(b) \cap Slabs' = {}
      <4>1. /\ b.page - 1 \in DOMAIN hdr /\ hdr[b.page - 1].slab_size = LargePages(b.size)
            /\ LargeSpan(b) \subseteq Pages /\ LargeSpan(b) \cap Slabs = {}
        BY DEF HeapInv, BlocksInv, LargeOK
      <4>2. b.page - 1 # page
        BY <1>1 DEF Slabs
      <4>. QED
        BY <4>1, <4>2, <2>3, <2>5, <2>7
    <3>. QED
      BY <3>1, <3>2, <2>6 DEF HeapInv, BlocksInv, LargeOK
  <2>15. ChainOK'
    <3>0. \A q \in Slabs : hdr[q].next # n /\ q # 0
      <4>1. \A q \in Slabs : q \in Nat \ {0}
        BY SlabFacts DEF HeapInv
      <4>. QED
        BY <4>1, <2>2, <2>3 DEF HeapInv, BlocksInv, ChainOK
    <3>1. ASSUME NEW r \in SlabSizes
          PROVE  /\ root[r] \in Slabs' /\ hdr'[root[r]].slab_size = r
                 /\ \A q \in Slabs' : hdr'[q].next # root[r]
      <4>1. root[r] \in Slabs /\ hdr[root[r]].slab_size = r /\ \A q \in Slabs : hdr[q].next # root[r]
        BY DEF HeapInv, BlocksInv, ChainOK
      <4>2. root[r] # 0 /\ root[r] # n
        BY <4>1, <3>0, <2>3
      <4>. QED
        BY <4>1, <4>2, <2>5, <2>7, <2>8
    <3>2. ASSUME NEW q \in Slabs', hdr'[q].next # 0
          PROVE  /\ hdr'[q].next \in Slabs' /\ hdr'[hdr'[q].next].slab_size = hdr'[q].slab_size
                 /\ \A r \in Slabs' : hdr'[r].next = hdr'[q].next => r = q
      <4>1. q # n /\ q \in Slabs
        BY <3>2, <2>7, <2>8
      <4>2. CASE q = page
        BY <4>2, <3>0, <2>2, <2>5, <2>7, <2>8
      <4>3. CASE q # page
        <5>1. /\ hdr'[q].next = hdr[q].next /\ hdr[q].next \in Slabs
              /\ hdr[hdr[q].next].slab_size = hdr[q].slab_size
              /\ \A r \in Slabs : hdr[r].next = hdr[q].next => r = q
          BY <4>1, <4>3, <3>2, <2>8 DEF HeapInv, BlocksInv, ChainOK
        <5>2. hdr[q].next # n
          BY <4>1, <3>0
        <5>. QED
          BY <5>1, <5>2, <4>1, <3>2, <2>5, <2>7, <2>8
      <4>. QED
        BY <4>2, <4>3
    <3>3. ASSUME NEW q \in Slabs'
          PROVE  q = root[hdr'[q].slab_size] \/ \E r \in Slabs' : hdr'[r].next = q
      <4>1. CASE q = n
        BY <4>1, <2>5, <2>7, <1>1
      <4>2. CASE q # n
        <5>1. q \in Slabs /\ hdr'[q].slab_size = hdr[q].slab_size
          BY <4>2, <2>7, <2>8
        <5>2. CASE q = root[hdr[q].slab_size]
          BY <5>1, <5>2
        <5>3. CASE \E r \in Slabs : hdr[r].next = q
          <6>1. PICK r \in Slabs : hdr[r].next = q
            BY <5>3
          <6>2. r # page
            BY <6>1, <5>1, <3>0, <1>3
          <6>. QED
            BY <6>1, <6>2, <2>7, <2>8
        <5>. QED
          BY <5>1, <5>2, <5>3 DEF HeapInv, BlocksInv, ChainOK
      <4>. QED
        BY <4>1, <4>2
    <3>. QED
      BY <3>1, <3>2, <3>3, <1>3 DEF ChainOK
  <2>16. HeapArea' = HeapArea \cup {n}
    BY <2>6, <2>7 DEF HeapArea, LargeSpan
  <2>17. PoolOK'
    BY <2>2, <2>16 DEF HeapInv, BlocksInv, PoolOK
  <2>18. pool' \cup HeapArea' = pool \cup HeapArea
    BY <2>2, <2>16
  <2>. QED
    BY <2>10, <2>11, <2>12, <2>13, <2>14, <2>15, <2>17, <2>18 DEF HeapInv, BlocksInv
<1>. QED
  BY <1>5, <1>6

(* kmalloc of a size that no block is large enough for. *)
LEMMA KmallocLargeKeeps ==
  ASSUME HeapInv, NEW p \in Procs, NEW size \in Requests, KmallocLarge(p, size)
  PROVE  HeapInv' /\ pool' \cup HeapArea' = pool \cup HeapArea
<1> DEFINE k == LargePages(size)
           a == AllocPages(pool, k)
           n == a.page
           header == [slab_size |-> k, free_block |-> <<>>, next |-> 0]
           new == [page |-> n + 1, off |-> 0, size |-> size]
<1>1. /\ size \in Nat \ {0} /\ k \in Nat /\ k >= 2
  BY LayoutAssumption, PageSizeIsPositive, LargePagesEnough
<1>2. pool' = a.pool /\ root' = root /\ op' = op
  BY DEF KmallocLarge
<1>3. Allocated(a, pool, k)
  BY <1>1, AllocPagesFree DEF HeapInv, BlocksInv, PoolOK
<1>4. CASE n = 0
  <2>1. hdr' = hdr /\ live' = live
    BY <1>4 DEF KmallocLarge
  <2>2. pool' = pool
    BY <1>2, <1>3, <1>4 DEF Allocated, HeapInv, BlocksInv, PoolOK, Pages
  <2>3. HeapInv' /\ HeapArea' = HeapArea
    BY <2>1, <2>2, <1>2, OthersKeepHeap DEF HeapInv, BlocksInv, PoolOK, heapVars
  <2>. QED
    BY <2>2, <2>3
<1>5. CASE n # 0
  <2>1. hdr' = WithHeader(hdr, n, header) /\ live' = live \cup {new}
    BY <1>5 DEF KmallocLarge
  <2>2. /\ n \in pool /\ n \in Nat \ {0} /\ Span(n, k) \subseteq pool /\ pool' = pool \ Span(n, k)
        /\ Span(n, k) \subseteq Pages /\ Span(n, k) \cap HeapArea = {} /\ n \notin HeapArea
    BY <1>2, <1>3, <1>5 DEF Allocated, HeapInv, BlocksInv, PoolOK
  <2>3. header \in Header /\ header.slab_size = k
    BY <1>1 DEF Header
  <2>4. /\ new \in Block /\ new.page = n + 1 /\ new.off = 0 /\ new.size = size /\ new.page - 1 = n
    BY <1>1, <2>2 DEF Block
  <2> HIDE DEF k, a, n, header, new
  <2>5. n \in Span(n, k)
    BY <2>2, <1>1 DEF Span
  <2>6. LargeSpan(new) = Span(n, k)
    BY <2>4 DEF LargeSpan, k
  <2>7. n \notin DOMAIN hdr
    BY <2>2, AreaFacts DEF HeapInv
  <2>8. /\ DOMAIN hdr' = DOMAIN hdr \cup {n} /\ hdr'[n] = header
        /\ \A q \in DOMAIN hdr : hdr'[q] = hdr[q]
        /\ hdr' \in [DOMAIN hdr' -> Header]
    <3>1. hdr' = [q \in DOMAIN hdr \cup {n} |-> IF q = n THEN header ELSE hdr[q]]
      BY <2>1 DEF WithHeader
    <3>. QED
      BY <3>1, <2>3, <2>7 DEF HeapInv, BlocksInv, HeapTypes
  <2>9. LargeBlocks' = LargeBlocks \cup {new} /\ SlabBlocks' = SlabBlocks
    BY <2>1, <2>4 DEF LargeBlocks, SlabBlocks
  <2>10. Slabs' = Slabs
    BY <2>4, <2>7, <2>8, <2>9 DEF Slabs
  <2>11. \A q \in Slabs : hdr'[q] = hdr[q]
    BY <2>8 DEF Slabs
  <2>12. HeapTypes'
    BY <2>1, <2>2, <2>4, <2>8, <1>2 DEF HeapInv, BlocksInv, HeapTypes, PoolOK
  <2>13. SlabsOK'
    BY <2>9, <2>10, <2>11 DEF HeapInv, BlocksInv, SlabsOK, HeldAt
  <2>14. BlocksOK'
    BY <2>9, <2>10, <2>11 DEF HeapInv, BlocksInv, BlocksOK, AtSlab
  <2>15. OpsOK'
    BY <2>10, <2>11, <1>2 DEF HeapInv, BlocksInv, OpsOK, AtSlab
  <2>16. LargeOK'
    <3>1. \A b : LargeSpan(b)' = LargeSpan(b)
      BY DEF LargeSpan
    <3>2. ASSUME NEW b \in LargeBlocks
          PROVE  /\ b.page - 1 \in DOMAIN hdr' /\ hdr'[b.page - 1].slab_size = LargePages(b.size)
                 /\ LargeSpan(b) \subseteq Pages /\ LargeSpan(b) \cap Slabs = {}
                 /\ LargeSpan(b) \cap LargeSpan(new) = {}
      <4>1. /\ b.page - 1 \in DOMAIN hdr /\ hdr[b.page - 1].slab_size = LargePages(b.size)
            /\ LargeSpan(b) \subseteq Pages /\ LargeSpan(b) \cap Slabs = {}
        BY DEF HeapInv, BlocksInv, LargeOK
      <4>2. LargeSpan(b) \subseteq HeapArea
        BY AreaFacts DEF HeapInv
      <4>. QED
        BY <4>1, <4>2, <2>2, <2>6, <2>8
    <3>3. /\ new.page - 1 \in DOMAIN hdr' /\ hdr'[new.page - 1].slab_size = LargePages(new.size)
          /\ LargeSpan(new) \subseteq Pages /\ LargeSpan(new) \cap Slabs = {}
      BY <2>2, <2>3, <2>4, <2>6, <2>8 DEF HeapArea, k
    <3>4. \A b, c \in LargeBlocks : b # c => LargeSpan(b) \cap LargeSpan(c) = {}
      BY DEF HeapInv, BlocksInv, LargeOK
    <3>5. \A b, c \in LargeBlocks \cup {new} : b # c => LargeSpan(b) \cap LargeSpan(c) = {}
      BY <3>2, <3>4
    <3>. QED
      BY <3>1, <3>2, <3>3, <3>5, <2>9, <2>10 DEF LargeOK
  <2>17. ChainOK'
    BY <2>10, <2>11, <1>2 DEF HeapInv, BlocksInv, ChainOK
  <2>18. HeapArea' = HeapArea \cup Span(n, k)
    <3>1. UNION {LargeSpan(b) : b \in LargeBlocks \cup {new}}
            = (UNION {LargeSpan(b) : b \in LargeBlocks}) \cup LargeSpan(new)
      OBVIOUS
    <3>. QED
      BY <3>1, <2>6, <2>9, <2>10 DEF HeapArea, LargeSpan
  <2>19. PoolOK'
    BY <2>2, <2>18 DEF HeapInv, BlocksInv, PoolOK
  <2>20. pool' \cup HeapArea' = pool \cup HeapArea
    BY <2>2, <2>18
  <2>. QED
    BY <2>12, <2>13, <2>14, <2>15, <2>16, <2>17, <2>19, <2>20 DEF HeapInv, BlocksInv
<1>. QED
  BY <1>4, <1>5

(* kfree of such a block. *)
LEMMA KfreeLargeKeeps ==
  ASSUME HeapInv, NEW b \in live, KfreeLarge(b)
  PROVE  HeapInv' /\ pool' \cup HeapArea' = pool \cup HeapArea
<1> DEFINE h == b.page - 1
<1>1. /\ b \in LargeBlocks /\ b \notin SlabBlocks
      /\ h \in DOMAIN hdr /\ h \in LargeSpan(b) /\ hdr[h].slab_size = LargePages(b.size)
      /\ LargeSpan(b) \subseteq Pages /\ LargeSpan(b) \cap Slabs = {}
  <2>1. b \in LargeBlocks
    BY DEF KfreeLarge, LargeBlocks, SlabBlocks
  <2>. QED
    BY <2>1, BlockFacts DEF HeapInv, BlocksInv, LargeOK
<1>2. /\ pool' = pool \cup LargeSpan(b) /\ hdr' = [q \in DOMAIN hdr \ {h} |-> hdr[q]]
      /\ live' = live \ {b} /\ root' = root /\ op' = op
  BY <1>1 DEF KfreeLarge, PagesToFree, LargeSpan
<1> HIDE DEF h
<1>3. /\ DOMAIN hdr' = DOMAIN hdr \ {h} /\ \A q \in DOMAIN hdr \ {h} : hdr'[q] = hdr[q]
      /\ hdr' \in [DOMAIN hdr' -> Header]
  BY <1>2 DEF HeapInv, BlocksInv, HeapTypes
<1>4. LargeBlocks' = LargeBlocks \ {b} /\ SlabBlocks' = SlabBlocks
  BY <1>1, <1>2 DEF LargeBlocks, SlabBlocks
<1>5. \A c \in LargeBlocks : c # b => LargeSpan(c) \cap LargeSpan(b) = {} /\ c.page - 1 # h
  <2> TAKE c \in LargeBlocks
  <2>1. c.page - 1 \in LargeSpan(c)
    BY BlockFacts DEF HeapInv
  <2>. QED
    BY <2>1, <1>1 DEF HeapInv, BlocksInv, LargeOK
<1>6. Slabs' = Slabs /\ h \notin Slabs
  BY <1>1, <1>3, <1>4 DEF Slabs, h
<1>7. \A q \in Slabs : hdr'[q] = hdr[q]
  BY <1>3, <1>6 DEF Slabs
<1>8. HeapTypes'
  BY <1>2, <1>3 DEF HeapInv, BlocksInv, HeapTypes
<1>9. SlabsOK'
  BY <1>4, <1>6, <1>7 DEF HeapInv, BlocksInv, SlabsOK, HeldAt
<1>10. BlocksOK'
  BY <1>4, <1>6, <1>7 DEF HeapInv, BlocksInv, BlocksOK, AtSlab
<1>11. OpsOK'
  BY <1>2, <1>6, <1>7 DEF HeapInv, BlocksInv, OpsOK, AtSlab
<1>12. LargeOK'
  <2>1. \A c : LargeSpan(c)' = LargeSpan(c)
    BY DEF LargeSpan
  <2>2. \A c \in LargeBlocks \ {b} :
          /\ c.page - 1 \in DOMAIN hdr' /\ hdr'[c.page - 1].slab_size = LargePages(c.size)
          /\ LargeSpan(c) \subseteq Pages /\ LargeSpan(c) \cap Slabs = {}
    BY <1>3, <1>5 DEF HeapInv, BlocksInv, LargeOK
  <2>. QED
    BY <2>1, <2>2, <1>4, <1>6 DEF HeapInv, BlocksInv, LargeOK
<1>13. ChainOK'
  <2>1. \A s \in SlabSizes : root[s] \in Slabs
    BY DEF HeapInv, BlocksInv, ChainOK
  <2>2. \A q \in Slabs : hdr[q].next # 0 => hdr[q].next \in Slabs
    BY DEF HeapInv, BlocksInv, ChainOK
  <2>3. \A s \in SlabSizes : /\ root[s] \in Slabs /\ hdr'[root[s]].slab_size = s
                             /\ \A q \in Slabs : hdr'[q].next # root[s]
    BY <2>1, <1>7 DEF HeapInv, BlocksInv, ChainOK
  <2>4. \A q \in Slabs : hdr'[q].next # 0 =>
          /\ hdr'[q].next \in Slabs /\ hdr'[hdr'[q].next].slab_size = hdr'[q].slab_size
          /\ \A r \in Slabs : hdr'[r].next = hdr'[q].next => r = q
    BY <2>2, <1>7 DEF HeapInv, BlocksInv, ChainOK
  <2>5. \A q \in Slabs : q = root[hdr'[q].slab_size] \/ \E r \in Slabs : hdr'[r].next = q
    BY <1>7 DEF HeapInv, BlocksInv, ChainOK
  <2>6. root' = root /\ Slabs' = Slabs
    BY <1>2, <1>6
  <2>. QED
    BY <2>3, <2>4, <2>5, <2>6 DEF ChainOK
<1>14. HeapArea' = HeapArea \ LargeSpan(b)
  <2>1. HeapArea' = Slabs \cup UNION {LargeSpan(c) : c \in LargeBlocks \ {b}}
    BY <1>4, <1>6 DEF HeapArea, LargeSpan
  <2>. QED
    BY <2>1, <1>1, <1>5 DEF HeapArea
<1>15. LargeSpan(b) \subseteq HeapArea
  BY <1>1, AreaFacts DEF HeapInv
<1>16. PoolOK'
  BY <1>1, <1>2, <1>14 DEF HeapInv, BlocksInv, PoolOK
<1>17. pool' \cup HeapArea' = pool \cup HeapArea
  BY <1>2, <1>14, <1>15
<1>. QED
  BY <1>8, <1>9, <1>10, <1>11, <1>12, <1>13, <1>16, <1>17 DEF HeapInv, BlocksInv

(* kfree of a block of a slab. *)
LEMMA KfreeSmallKeeps ==
  ASSUME HeapInv, NEW b \in live, KfreeSmall(b)
  PROVE  HeapInv' /\ HeapArea' = HeapArea /\ pool' = pool
<1> DEFINE page == b.page
           free == hdr[page].free_block
<1>1. b \in SlabBlocks /\ b \notin LargeBlocks
  BY DEF KfreeSmall, SlabBlocks, LargeBlocks
<1>2. AtSlab(page, b.size) /\ page \in Slabs
  BY <1>1 DEF HeapInv, BlocksInv, BlocksOK, AtSlab
<1>3. /\ hdr' = [hdr EXCEPT ![page].free_block = <<b.off>> \o @] /\ live' = live \ {b}
      /\ pool' = pool /\ root' = root /\ op' = op
  BY DEF KfreeSmall
<1>4. /\ page \in DOMAIN hdr /\ hdr[page] \in Header
      /\ free \in Seq(Nat) /\ hdr[page].slab_size \in SlabSizes /\ NoDup(free)
      /\ Elements(free) \cap HeldAt(page) = {}
      /\ Elements(free) \cup HeldAt(page) = Blocks(hdr[page].slab_size)
  BY <1>2, SlabFacts DEF HeapInv, BlocksInv, SlabsOK
<1>5. b.off \in Nat /\ b.off \in HeldAt(page)
  BY <1>1, BlockFacts DEF HeldAt, HeapInv
<1>6. b.off \notin Elements(free)
  BY <1>4, <1>5
<1> DEFINE list == <<b.off>> \o free
<1>7. list \in Seq(Nat) /\ NoDup(list) /\ Elements(list) = Elements(free) \cup {b.off}
  BY <1>4, <1>5, <1>6, PrependToList
<1> HIDE DEF list, free, page
<1>8. /\ hdr' \in [DOMAIN hdr -> Header] /\ DOMAIN hdr' = DOMAIN hdr
      /\ \A q \in DOMAIN hdr : q # page => hdr'[q] = hdr[q]
      /\ hdr'[page].slab_size = hdr[page].slab_size /\ hdr'[page].next = hdr[page].next
      /\ hdr'[page].free_block = list
  BY <1>3, <1>4, <1>7 DEF HeapInv, BlocksInv, HeapTypes, Header, list, free
<1>9. LargeBlocks' = LargeBlocks /\ SlabBlocks' = SlabBlocks \ {b}
  BY <1>1, <1>3 DEF LargeBlocks, SlabBlocks
<1>10. Slabs' = Slabs
  BY <1>8, <1>9 DEF Slabs
<1>11. \A q \in Slabs : hdr'[q].slab_size = hdr[q].slab_size /\ hdr'[q].next = hdr[q].next
  BY <1>8 DEF Slabs
<1>12. \A x, y : AtSlab(x, y) => x \in Slabs' /\ y \in Requests /\ IsSmall(y) /\ hdr'[x].slab_size = ClassOf(y)
  BY <1>10, <1>11 DEF AtSlab
<1>13. HeapTypes'
  BY <1>3, <1>8 DEF HeapInv, BlocksInv, HeapTypes
<1>14. SlabsOK'
  <2>1. \A c \in SlabBlocks : c.page = page /\ c.off = b.off => c = b
    BY <1>1 DEF HeapInv, BlocksInv, BlocksOK, page
  <2>2. HeldAt(page)' = HeldAt(page) \ {b.off}
    <3>1. {c.off : c \in {d \in SlabBlocks \ {b} : d.page = page}}
            = {c.off : c \in {d \in SlabBlocks : d.page = page}} \ {b.off}
      BY <2>1, <1>1
    <3>2. page' = page
      BY DEF page
    <3>. QED
      BY <3>1, <3>2, <1>9 DEF HeldAt
  <2>3. \A q : q # page => HeldAt(q)' = HeldAt(q)
    BY <1>1, <1>9 DEF HeldAt, page
  <2> SUFFICES ASSUME NEW q \in Slabs
               PROVE  /\ hdr'[q].slab_size \in SlabSizes /\ NoDup(hdr'[q].free_block)
                      /\ Elements(hdr'[q].free_block) \cap HeldAt(q)' = {}
                      /\ Elements(hdr'[q].free_block) \cup HeldAt(q)' = Blocks(hdr'[q].slab_size)
    BY <1>10 DEF SlabsOK
  <2>4. CASE q = page
    BY <2>2, <2>4, <1>4, <1>5, <1>7, <1>8 DEF page
  <2>5. CASE q # page
    BY <2>3, <2>5, <1>8 DEF HeapInv, BlocksInv, SlabsOK, Slabs
  <2>. QED
    BY <2>4, <2>5
<1>15. BlocksOK'
  BY <1>9, <1>12 DEF HeapInv, BlocksInv, BlocksOK, AtSlab
<1>16. OpsOK'
  BY <1>3, <1>12 DEF HeapInv, BlocksInv, OpsOK, AtSlab
<1>17. LargeOK'
  BY <1>8, <1>9, <1>10, <1>2 DEF HeapInv, BlocksInv, LargeOK, LargeSpan
<1>18. ChainOK'
  BY <1>3, <1>10, <1>11 DEF HeapInv, BlocksInv, ChainOK
<1>19. HeapArea' = HeapArea
  BY <1>9, <1>10 DEF HeapArea, LargeSpan
<1>. QED
  BY <1>3, <1>13, <1>14, <1>15, <1>16, <1>17, <1>18, <1>19 DEF HeapInv, BlocksInv, PoolOK

-----------------------------------------------------------------------------
(* Heap::init: the slabs of the sizes get one page each. *)
LEMMA Ranks ==
  /\ Cardinality(SlabSizes) \in Nat
  /\ \A s \in SlabSizes : Rank(s) \in 1 .. Cardinality(SlabSizes)
  /\ \A s, r \in SlabSizes : Rank(s) = Rank(r) => s = r
  /\ \A k \in 1 .. Cardinality(SlabSizes) : \E s \in SlabSizes : Rank(s) = k
<1> DEFINE N == Cardinality(SlabSizes)
           Upto(s) == {r \in SlabSizes : r <= s}
<1>1. SlabSizes \subseteq Nat /\ IsFiniteSet(SlabSizes) /\ N \in Nat
  BY LayoutAssumption, PageSizeIsPositive, FS_CardinalityType
<1>2. \A s \in SlabSizes : IsFiniteSet(Upto(s)) /\ Cardinality(Upto(s)) \in Nat /\ Cardinality(Upto(s)) <= N
  <2> TAKE s \in SlabSizes
  <2>1. Upto(s) \in SUBSET SlabSizes
    OBVIOUS
  <2> HIDE DEF Upto
  <2>. QED
    BY <2>1, <1>1, FS_Subset, FS_CardinalityType
<1>3. \A s \in SlabSizes : Rank(s) = Cardinality(Upto(s))
  BY DEF Rank
<1>4. \A s \in SlabSizes : Rank(s) \in 1 .. N
  <2> TAKE s \in SlabSizes
  <2>1. s \in Upto(s)
    BY <1>1
  <2> HIDE DEF Upto
  <2>2. Cardinality(Upto(s)) # 0
    <3>1. IsFiniteSet(Upto(s))
      BY <1>2
    <3>2. Cardinality(Upto(s)) = 0 <=> Upto(s) = {}
      BY <3>1, FS_EmptySet
    <3>. QED
      BY <3>2, <2>1
  <2>3. Cardinality(Upto(s)) \in Nat /\ Cardinality(Upto(s)) <= N /\ Rank(s) = Cardinality(Upto(s))
    BY <1>2, <1>3
  <2>. QED
    BY <2>2, <2>3, <1>1
<1>5. ASSUME NEW s \in SlabSizes, NEW r \in SlabSizes, s < r PROVE Rank(s) # Rank(r)
  <2>0. s \in Nat /\ r \in Nat
    BY <1>1
  <2>1. Upto(s) \in SUBSET Upto(r)
    <3> SUFFICES ASSUME NEW x \in SlabSizes, x <= s PROVE x <= r
      OBVIOUS
    <3>. QED
      BY <2>0, <1>1, <1>5
  <2>2. r \in Upto(r) /\ r \notin Upto(s)
    BY <2>0, <1>5
  <2>3. IsFiniteSet(Upto(r))
    BY <1>2
  <2> HIDE DEF Upto
  <2>4. Cardinality(Upto(r)) = Cardinality(Upto(s)) => Upto(r) = Upto(s)
    BY <2>1, <2>3, FS_Subset
  <2>. QED
    BY <2>2, <2>4, <1>3
<1>6. \A s, r \in SlabSizes : Rank(s) = Rank(r) => s = r
  <2> SUFFICES ASSUME NEW s \in SlabSizes, NEW r \in SlabSizes, s # r PROVE Rank(s) # Rank(r)
    OBVIOUS
  <2>1. s < r \/ r < s
    BY <1>1
  <2>. QED
    BY <2>1, <1>5
<1> DEFINE f == [s \in SlabSizes |-> Rank(s)]
<1> HIDE DEF N
<1>7. f \in Injection(SlabSizes, 1 .. N)
  BY <1>4, <1>6 DEF Injection, IsInjective
<1>8. IsFiniteSet(1 .. N) /\ Cardinality(1 .. N) = N
  <2>1. IsFiniteSet(1 .. N) /\ Cardinality(1 .. N) = IF 1 > N THEN 0 ELSE N - 1 + 1
    BY <1>1, FS_Interval
  <2>. QED
    BY <2>1, <1>1
<1> HIDE DEF f
<1>9. f \in Surjection(SlabSizes, 1 .. N)
  BY <1>7, <1>8, FS_Injection DEF N
<1>10. ASSUME NEW k \in 1 .. N PROVE \E s \in SlabSizes : Rank(s) = k
  BY <1>9 DEF Surjection, f
<1>. QED
  BY <1>1, <1>4, <1>6, <1>10 DEF N

LEMMA HeapInitInv ==
  ASSUME HeapInit, Cardinality(SlabSizes) <= MaxPage, pool \subseteq Pages, pool \cap DOMAIN hdr = {}
  PROVE  HeapInv /\ HeapArea = DOMAIN hdr
<1> DEFINE N == Cardinality(SlabSizes)
           Size(k) == CHOOSE s \in SlabSizes : Rank(s) = k
<1>1. /\ N \in Nat /\ N <= MaxPage /\ 1 .. N \subseteq Pages
  BY Ranks, MaxPageIsNat DEF Pages
<1>2. \A k \in 1 .. N : Size(k) \in SlabSizes /\ Rank(Size(k)) = k
  BY Ranks
<1>3. /\ root = [s \in SlabSizes |-> Rank(s)] /\ hdr = [k \in 1 .. N |-> NewSlab(Size(k))]
      /\ op = [p \in Procs |-> Idle] /\ live = {}
  BY DEF HeapInit
<1>4. \A s \in SlabSizes : Rank(s) \in 1 .. N /\ Size(Rank(s)) = s
  BY <1>2, Ranks
<1> HIDE DEF N, Size
<1>5. \A k \in 1 .. N :
        /\ hdr[k] \in Header /\ hdr[k].slab_size = Size(k) /\ hdr[k].next = 0
        /\ NoDup(hdr[k].free_block) /\ Elements(hdr[k].free_block) = Blocks(Size(k))
  <2> TAKE k \in 1 .. N
  <2>1. hdr[k] = NewSlab(Size(k))
    BY <1>3
  <2>. QED
    BY <2>1, <1>2, NewSlabBlocks DEF Header
<1>6. LargeBlocks = {} /\ SlabBlocks = {} /\ DOMAIN hdr = 1 .. N
  BY <1>3 DEF LargeBlocks, SlabBlocks
<1>7. Slabs = 1 .. N
  BY <1>6 DEF Slabs
<1>8. HeapTypes
  <2>1. hdr \in [1 .. N -> Header]
    BY <1>3, <1>5
  <2>2. op \in [Procs -> [slab : Nat, size : Nat]]
    BY <1>3 DEF Idle
  <2>3. root \in [SlabSizes -> Nat]
    BY <1>1, <1>3, <1>4
  <2>4. live \subseteq Block
    BY <1>3
  <2>. QED
    BY <2>1, <2>2, <2>3, <2>4, <1>1, <1>6 DEF HeapTypes
<1>9. SlabsOK
  <2>1. \A k : HeldAt(k) = {}
    BY <1>6 DEF HeldAt
  <2>. QED
    BY <2>1, <1>2, <1>5, <1>7 DEF SlabsOK
<1>10. BlocksOK /\ OpsOK /\ LargeOK
  BY <1>3, <1>6 DEF BlocksOK, OpsOK, LargeOK
<1>11. ChainOK
  <2>1. \A s \in SlabSizes : root[s] \in 1 .. N /\ root[s] # 0 /\ hdr[root[s]].slab_size = s
    BY <1>1, <1>3, <1>4, <1>5
  <2>2. \A k \in 1 .. N : k = root[hdr[k].slab_size]
    BY <1>2, <1>3, <1>5
  <2>. QED
    BY <2>1, <2>2, <1>5, <1>7 DEF ChainOK
<1>12. HeapArea = 1 .. N
  BY <1>6, <1>7 DEF HeapArea
<1>13. PoolOK
  BY <1>6, <1>12 DEF PoolOK
<1>. QED
  BY <1>6, <1>8, <1>9, <1>10, <1>11, <1>12, <1>13 DEF HeapInv, BlocksInv

(* Every step of the heap. *)
LEMMA HeapStep ==
  ASSUME HeapInv, NEW procs \in SUBSET Procs, NEW max, HeapNext(procs, max)
  PROVE  HeapInv' /\ pool' \cup HeapArea' = pool \cup HeapArea
<1>1. ASSUME NEW p \in Procs, NEW page, NEW size, AtSlab(page, size), SlabAlloc(p, page, size)
      PROVE  HeapInv' /\ pool' \cup HeapArea' = pool \cup HeapArea
  BY <1>1, TakeBlockKeeps, GoToNextKeeps, AddSlabKeeps DEF SlabAlloc
<1>2. ASSUME NEW p \in procs, NEW size \in Requests, KmallocSmall(p, size)
      PROVE  HeapInv' /\ pool' \cup HeapArea' = pool \cup HeapArea
  <2>1. ClassOf(size) \in SlabSizes
    BY <1>2, ClassOfSmall, LayoutAssumption, PageSizeIsPositive DEF KmallocSmall
  <2>2. AtSlab(root[ClassOf(size)], size)
    BY <2>1, <1>2 DEF KmallocSmall, AtSlab, HeapInv, BlocksInv, ChainOK
  <2>. QED
    BY <2>2, <1>1, <1>2 DEF KmallocSmall
<1>3. ASSUME NEW p \in Procs, Continue(p)
      PROVE  HeapInv' /\ pool' \cup HeapArea' = pool \cup HeapArea
  BY <1>1, <1>3 DEF Continue, HeapInv, BlocksInv, OpsOK
<1>4. ASSUME NEW p \in procs, NEW size \in Requests, KmallocLarge(p, size)
      PROVE  HeapInv' /\ pool' \cup HeapArea' = pool \cup HeapArea
  BY <1>4, KmallocLargeKeeps
<1>5. ASSUME NEW b \in live, KfreeSmall(b) \/ KfreeLarge(b)
      PROVE  HeapInv' /\ pool' \cup HeapArea' = pool \cup HeapArea
  BY <1>5, KfreeSmallKeeps, KfreeLargeKeeps
<1>. QED
  BY <1>2, <1>3, <1>4, <1>5 DEF HeapNext

-----------------------------------------------------------------------------
(* What the invariant implies. *)
LEMMA BlocksAreFinite ==
  ASSUME NEW s \in SlabSizes
  PROVE  IsFiniteSet(Blocks(s))
<1>1. NewSlab(s).free_block \in Seq(Nat) /\ NoDup(NewSlab(s).free_block)
      /\ Elements(NewSlab(s).free_block) = Blocks(s)
  BY NewSlabBlocks
<1>. QED
  BY <1>1, ListCardinality

LEMMA InvBlocksAccounted ==
  ASSUME BlocksInv
  PROVE  BlocksAccounted
<1> SUFFICES ASSUME NEW p \in Slabs
             PROVE  LET free == hdr[p].free_block
                        held == {b \in SlabBlocks : b.page = p}
                    IN  /\ {free[i] : i \in DOMAIN free} \cup {b.off : b \in held} = Blocks(hdr[p].slab_size)
                        /\ Len(free) + Cardinality(held) = Cardinality(Blocks(hdr[p].slab_size))
  BY DEF BlocksAccounted
<1> DEFINE free == hdr[p].free_block
           held == {b \in SlabBlocks : b.page = p}
           B == Blocks(hdr[p].slab_size)
           E == Elements(free)
           H == HeldAt(p)
<1>1. /\ free \in Seq(Nat) /\ NoDup(free) /\ hdr[p].slab_size \in SlabSizes
      /\ E \cap H = {} /\ E \cup H = B
  BY SlabFacts DEF BlocksInv, SlabsOK
<1>2. H = {b.off : b \in held}
  BY DEF HeldAt
<1>3. IsFiniteSet(E) /\ Cardinality(E) = Len(free) /\ Len(free) \in Nat
  BY <1>1, ListCardinality
<1>4. IsFiniteSet(H)
  <2>1. IsFiniteSet(B)
    BY <1>1, BlocksAreFinite
  <2>. QED
    BY <2>1, <1>1, FS_Subset
<1>5. Cardinality(held) = Cardinality(H)
  <2> DEFINE f == [b \in held |-> b.off]
  <2>1. \A b, c \in held : b.off = c.off => b = c
    BY DEF BlocksInv, BlocksOK
  <2> HIDE DEF held, H
  <2>2. f \in Bijection(held, H)
    BY <2>1, <1>2 DEF Bijection, Injection, Surjection, IsInjective
  <2> HIDE DEF f
  <2>3. ExistsBijection(held, H)
    BY <2>2 DEF ExistsBijection
  <2>4. ExistsBijection(H, held)
    BY <2>3, Fun_ExistsBijSymmetric
  <2>. QED
    BY <2>4, <1>4, FS_Bijection
<1>6. Cardinality(B) = Cardinality(E) + Cardinality(H)
  <2> HIDE DEF E, H, B
  <2>1. Cardinality(E \cup H) = Cardinality(E) + Cardinality(H) - Cardinality(E \cap H)
    BY <1>3, <1>4, FS_Union
  <2>2. Cardinality(E \cap H) = 0
    BY <1>1, FS_EmptySet
  <2>3. Cardinality(E) \in Nat /\ Cardinality(H) \in Nat
    BY <1>3, <1>4, FS_CardinalityType
  <2>4. Cardinality(B) = Cardinality(E \cup H)
    BY <1>1
  <2> DEFINE ce == Cardinality(E)
             ch == Cardinality(H)
             ci == Cardinality(E \cap H)
             cu == Cardinality(E \cup H)
  <2>5. cu = ce + ch - ci /\ ci = 0 /\ ce \in Nat /\ ch \in Nat
    BY <2>1, <2>2, <2>3
  <2> HIDE DEF ce, ch, ci, cu
  <2>6. cu = ce + ch
    BY <2>5
  <2>. QED
    BY <2>4, <2>6 DEF ce, ch, cu
<1>7. {free[i] : i \in DOMAIN free} \cup {b.off : b \in held} = B
  BY <1>1, <1>2 DEF Elements
<1>8. Len(free) + Cardinality(held) = Cardinality(B)
  BY <1>3, <1>5, <1>6
<1>. QED
  BY <1>7, <1>8

LEMMA InvNoSlabLost ==
  ASSUME BlocksInv
  PROVE  NoSlabLost
<1> SUFFICES ASSUME NEW p \in Slabs
             PROVE  LET before == {q \in Slabs : hdr[q].next = p}
                    IN  IF \E s \in SlabSizes : root[s] = p
                          THEN before = {}
                          ELSE /\ Cardinality(before) = 1
                               /\ \A q \in before : hdr[q].slab_size = hdr[p].slab_size
  BY DEF NoSlabLost
<1> DEFINE before == {q \in Slabs : hdr[q].next = p}
<1>1. p # 0 /\ hdr[p].slab_size \in SlabSizes
  BY SlabFacts
<1>2. (\E s \in SlabSizes : root[s] = p) => before = {}
  BY DEF BlocksInv, ChainOK
<1>3. ASSUME ~ \E s \in SlabSizes : root[s] = p
      PROVE  Cardinality(before) = 1 /\ \A q \in before : hdr[q].slab_size = hdr[p].slab_size
  <2>1. PICK q \in Slabs : hdr[q].next = p
    BY <1>1, <1>3 DEF BlocksInv, ChainOK
  <2>2. \A r \in Slabs : hdr[r].next = p => r = q /\ hdr[r].slab_size = hdr[p].slab_size
    BY <2>1, <1>1 DEF BlocksInv, ChainOK
  <2>3. before = {q}
    BY <2>1, <2>2
  <2>4. Cardinality({q}) = 1
    BY FS_Singleton
  <2>. QED
    BY <2>2, <2>3, <2>4
<1>. QED
  BY <1>2, <1>3

LEMMA InvHeaderFound ==
  ASSUME BlocksInv
  PROVE  HeaderFound
<1>1. ASSUME NEW b \in SlabBlocks
      PROVE  /\ b.page \in Slabs /\ hdr[b.page].slab_size = ClassOf(b.size)
             /\ b.off + ClassOf(b.size) <= PAGE_SIZE
  <2>1. b.page \in Slabs /\ hdr[b.page].slab_size = ClassOf(b.size)
    BY DEF BlocksInv, BlocksOK, AtSlab
  <2>2. b.off \in HeldAt(b.page)
    BY DEF HeldAt
  <2>3. hdr[b.page].slab_size \in SlabSizes /\ b.off \in Blocks(hdr[b.page].slab_size)
    BY <2>1, <2>2 DEF BlocksInv, SlabsOK
  <2>. QED
    BY <2>1, <2>3, BlockPlaces
<1>. QED
  BY <1>1 DEF HeaderFound, BlocksInv, LargeOK

-----------------------------------------------------------------------------
(* kmalloc and kfree do what AllocatorSpec says. *)
HeaderPage(b) == IF b.off # 0 THEN b.page ELSE b.page - 1

CellsApart == \A b, c \in live : b # c => CellsOf(b) \cap CellsOf(c) = {}
CellsEnough == \A b \in live : CellsOf(b) # {} /\ Cardinality(CellsOf(b)) >= b.size

LEMMA IntervalSize ==
  ASSUME NEW i \in Nat, NEW k \in Nat \ {0}
  PROVE  IsFiniteSet(i .. i + k - 1) /\ Cardinality(i .. i + k - 1) = k /\ i \in i .. i + k - 1
<1> DEFINE j == i + k - 1
<1>1. j \in Int /\ i <= j /\ j - i + 1 = k
  OBVIOUS
<1> HIDE DEF j
<1>2. IsFiniteSet(i .. j) /\ Cardinality(i .. j) = IF i > j THEN 0 ELSE j - i + 1
  BY <1>1, FS_Interval
<1>3. i \in i .. j
  BY <1>1
<1>. QED
  BY <1>1, <1>2, <1>3 DEF j

LEMMA ProductSize ==
  ASSUME NEW S, NEW T, IsFiniteSet(S), IsFiniteSet(T), NEW x \in S, NEW y \in T
  PROVE  S \X T # {} /\ Cardinality(S \X T) = Cardinality(S) * Cardinality(T)
<1>1. <<x, y>> \in S \X T
  OBVIOUS
<1>. QED
  BY <1>1, FS_Product

LEMMA SlabCells ==
  ASSUME HeapInv, NEW b \in SlabBlocks
  PROVE  /\ b \in live /\ b.page \in Slabs /\ HeaderPage(b) = b.page /\ b.size \in Nat \ {0}
         /\ hdr[b.page].slab_size \in SlabSizes /\ b.size <= hdr[b.page].slab_size
         /\ hdr[b.page].slab_size \in Nat \ {0}
         /\ b.off \in Blocks(hdr[b.page].slab_size) /\ b.off \in Nat
         /\ CellsOf(b) = {b.page} \X (b.off .. b.off + hdr[b.page].slab_size - 1)
<1>1. AtSlab(b.page, b.size) /\ b \in live /\ b.off # 0 /\ b.size \in Nat \ {0} /\ b.off \in Nat
  BY BlockFacts DEF HeapInv, BlocksInv, BlocksOK
<1>2. b.page \in Slabs /\ hdr[b.page].slab_size = ClassOf(b.size) /\ IsSmall(b.size)
  BY <1>1 DEF AtSlab
<1>3. b.size <= hdr[b.page].slab_size /\ hdr[b.page].slab_size \in SlabSizes
  BY <1>1, <1>2, ClassOfSmall
<1>4. b.off \in HeldAt(b.page)
  BY DEF HeldAt
<1>5. b.off \in Blocks(hdr[b.page].slab_size)
  BY <1>2, <1>4 DEF HeapInv, BlocksInv, SlabsOK
<1>6. hdr[b.page].slab_size \in Nat \ {0}
  BY <1>3, LayoutAssumption, PageSizeIsPositive
<1>. QED
  BY <1>1, <1>2, <1>3, <1>5, <1>6 DEF HeaderPage, CellsOf

LEMMA LargeCells ==
  ASSUME HeapInv, NEW b \in LargeBlocks
  PROVE  /\ b \in live /\ HeaderPage(b) = b.page - 1 /\ b.page - 1 \in DOMAIN hdr
         /\ hdr[b.page - 1].slab_size = LargePages(b.size)
         /\ b.page \in Nat /\ b.size \in Nat \ {0}
         /\ CellsOf(b) = Span(b.page, LargePages(b.size) - 1) \X (0 .. PAGE_SIZE - 1)
         /\ Span(b.page, LargePages(b.size) - 1) \subseteq LargeSpan(b)
<1>1. b \in live /\ b.off = 0 /\ b.page \in Nat /\ b.size \in Nat \ {0} /\ LargePages(b.size) \in Nat
  BY BlockFacts DEF HeapInv
<1>2. b.page - 1 \in DOMAIN hdr /\ hdr[b.page - 1].slab_size = LargePages(b.size)
  BY DEF HeapInv, BlocksInv, LargeOK
<1>3. Span(b.page, LargePages(b.size) - 1) \subseteq LargeSpan(b)
  BY <1>1 DEF Span, LargeSpan
<1>. QED
  BY <1>1, <1>2, <1>3 DEF HeaderPage, CellsOf

LEMMA CellsOfBlocks ==
  HeapInv => CellsApart /\ CellsEnough
<1> SUFFICES ASSUME HeapInv PROVE CellsApart /\ CellsEnough
  OBVIOUS
<1>1. ASSUME NEW b \in SlabBlocks, NEW c \in SlabBlocks, b # c PROVE CellsOf(b) \cap CellsOf(c) = {}
  <2>1. CASE b.page # c.page
    BY <2>1, SlabCells
  <2>2. CASE b.page = c.page
    <3> DEFINE s == hdr[b.page].slab_size
    <3>1. /\ b.off \in Blocks(s) /\ c.off \in Blocks(s) /\ s \in SlabSizes /\ s \in Nat
          /\ b.off \in Nat /\ c.off \in Nat
          /\ CellsOf(b) = {b.page} \X (b.off .. b.off + s - 1)
          /\ CellsOf(c) = {c.page} \X (c.off .. c.off + s - 1)
      BY <2>2, SlabCells
    <3> HIDE DEF s
    <3>2. b.off # c.off
      BY <2>2, <1>1 DEF HeapInv, BlocksInv, BlocksOK
    <3>3. b.off + s <= c.off \/ c.off + s <= b.off
      BY <3>1, <3>2, BlockPlaces
    <3>4. (b.off .. b.off + s - 1) \cap (c.off .. c.off + s - 1) = {}
      BY <3>1, <3>3
    <3>. QED
      BY <3>1, <3>4
  <2>. QED
    BY <2>1, <2>2
<1>2. ASSUME NEW b \in SlabBlocks, NEW c \in LargeBlocks PROVE CellsOf(b) \cap CellsOf(c) = {}
  <2>1. b.page \notin LargeSpan(c)
    BY SlabCells DEF HeapInv, BlocksInv, LargeOK
  <2>2. b.page \notin Span(c.page, LargePages(c.size) - 1)
    BY <2>1, LargeCells
  <2>3. CellsOf(b) = {b.page} \X (b.off .. b.off + hdr[b.page].slab_size - 1)
    BY SlabCells
  <2>4. CellsOf(c) = Span(c.page, LargePages(c.size) - 1) \X (0 .. PAGE_SIZE - 1)
    BY LargeCells
  <2>. QED
    BY <2>2, <2>3, <2>4
<1>3. ASSUME NEW b \in LargeBlocks, NEW c \in LargeBlocks, b # c PROVE CellsOf(b) \cap CellsOf(c) = {}
  <2>1. LargeSpan(b) \cap LargeSpan(c) = {}
    BY <1>3 DEF HeapInv, BlocksInv, LargeOK
  <2> DEFINE B == Span(b.page, LargePages(b.size) - 1)
             C == Span(c.page, LargePages(c.size) - 1)
  <2>2. B \cap C = {}
    BY <2>1, LargeCells
  <2>3. CellsOf(b) = B \X (0 .. PAGE_SIZE - 1) /\ CellsOf(c) = C \X (0 .. PAGE_SIZE - 1)
    BY LargeCells
  <2> HIDE DEF B, C
  <2>. QED
    BY <2>2, <2>3
<1>4. CellsApart
  <2> SUFFICES ASSUME NEW b \in live, NEW c \in live, b # c PROVE CellsOf(b) \cap CellsOf(c) = {}
    BY DEF CellsApart
  <2>1. b \in SlabBlocks \/ b \in LargeBlocks
    BY BlockFacts DEF HeapInv
  <2>2. c \in SlabBlocks \/ c \in LargeBlocks
    BY BlockFacts DEF HeapInv
  <2>3. CASE b \in SlabBlocks /\ c \in SlabBlocks
    BY <2>3, <1>1
  <2>4. CASE b \in SlabBlocks /\ c \in LargeBlocks
    BY <2>4, <1>2
  <2>5. CASE b \in LargeBlocks /\ c \in SlabBlocks
    <3>1. CellsOf(c) \cap CellsOf(b) = {}
      BY <2>5, <1>2
    <3>. QED
      BY <3>1
  <2>6. CASE b \in LargeBlocks /\ c \in LargeBlocks
    BY <2>6, <1>3
  <2>. QED
    BY <2>1, <2>2, <2>3, <2>4, <2>5, <2>6
<1>5. ASSUME NEW b \in SlabBlocks PROVE CellsOf(b) # {} /\ Cardinality(CellsOf(b)) >= b.size
  <2> DEFINE s == hdr[b.page].slab_size
             T == b.off .. b.off + s - 1
  <2>1. /\ s \in Nat \ {0} /\ b.off \in Nat /\ b.size \in Nat /\ b.size <= s
        /\ CellsOf(b) = {b.page} \X T
    BY SlabCells
  <2>2. IsFiniteSet(T) /\ Cardinality(T) = s /\ b.off \in T
    BY <2>1, IntervalSize
  <2>3. IsFiniteSet({b.page}) /\ Cardinality({b.page}) = 1 /\ b.page \in {b.page}
    BY FS_Singleton
  <2> HIDE DEF s, T
  <2>4. {b.page} \X T # {} /\ Cardinality({b.page} \X T) = Cardinality({b.page}) * Cardinality(T)
    BY <2>2, <2>3, ProductSize
  <2>5. Cardinality(CellsOf(b)) = 1 * s
    BY <2>1, <2>2, <2>3, <2>4
  <2>. QED
    BY <2>1, <2>4, <2>5
<1>6. ASSUME NEW b \in LargeBlocks PROVE CellsOf(b) # {} /\ Cardinality(CellsOf(b)) >= b.size
  <2> DEFINE k == LargePages(b.size) - 1
             S == Span(b.page, k)
             T == 0 .. PAGE_SIZE - 1
  <2>1. b.page \in Nat /\ b.size \in Nat \ {0} /\ CellsOf(b) = S \X T
    BY LargeCells
  <2>2. k \in Nat \ {0} /\ k * PAGE_SIZE >= b.size /\ PAGE_SIZE \in Nat \ {0}
    BY <2>1, LargePagesEnough, LayoutAssumption, PageSizeIsPositive
  <2> HIDE DEF k
  <2>3. IsFiniteSet(S) /\ Cardinality(S) = k /\ b.page \in S
    BY <2>1, <2>2, IntervalSize DEF Span
  <2>4. IsFiniteSet(T) /\ Cardinality(T) = PAGE_SIZE /\ 0 \in T
    <3>1. T = 0 .. 0 + PAGE_SIZE - 1
      BY <2>2
    <3>2. 0 \in Nat
      OBVIOUS
    <3>. QED
      BY <3>1, <3>2, <2>2, IntervalSize
  <2> HIDE DEF S, T
  <2>5. S \X T # {} /\ Cardinality(S \X T) = Cardinality(S) * Cardinality(T)
    BY <2>3, <2>4, ProductSize
  <2>6. Cardinality(CellsOf(b)) = k * PAGE_SIZE
    BY <2>1, <2>3, <2>4, <2>5
  <2>. QED
    BY <2>1, <2>2, <2>5, <2>6
<1>7. CellsEnough
  BY <1>5, <1>6, BlockFacts DEF CellsEnough, HeapInv
<1>. QED
  BY <1>4, <1>7

LEMMA CellsOfBlocksNext ==
  HeapInv' => (CellsApart /\ CellsEnough)'
<1>1. HeapInv => CellsApart /\ CellsEnough
  BY CellsOfBlocks
<1>. QED
  BY <1>1, PTL

(* The steps of AllocatorSpec, in terms of what its variables stand for. *)
Wants == [p \in Procs |-> op[p].size]
Places == {[cells |-> CellsOf(b), size |-> b.size] : b \in live}

LEMMA AbstractSteps ==
  /\ \A p \in Procs, size \in 1 .. MaxRequest :
       Wants[p] = 0 /\ Wants' = [Wants EXCEPT ![p] = size] /\ Places' = Places => Abstract!Next
  /\ \A p \in Procs, size \in 1 .. MaxRequest :
       /\ Wants[p] \in {0, size} /\ Wants' = [Wants EXCEPT ![p] = 0]
       /\ \E x \in Places' \ Places :
            /\ x.size = size /\ Cardinality(x.cells) >= x.size
            /\ \A other \in Places : x.cells \cap other.cells = {}
            /\ Places' = Places \cup {x}
       => Abstract!Next
  /\ \A x \in Places : Places' = Places \ {x} /\ Wants' = Wants => Abstract!Next
<1>1. ASSUME NEW p \in Procs, NEW size \in 1 .. MaxRequest,
             Wants[p] = 0, Wants' = [Wants EXCEPT ![p] = size], Places' = Places
      PROVE  Abstract!Next
  <2>1. Abstract!Ask(p, size)
    BY <1>1, Zenon DEF Abstract!Ask, Wants, Places
  <2>. QED
    BY <2>1 DEF Abstract!Next
<1>2. ASSUME NEW p \in Procs, NEW size \in 1 .. MaxRequest,
             Wants[p] \in {0, size}, Wants' = [Wants EXCEPT ![p] = 0],
             NEW x \in Places' \ Places, x.size = size, Cardinality(x.cells) >= x.size,
             \A other \in Places : x.cells \cap other.cells = {}, Places' = Places \cup {x}
      PROVE  Abstract!Next
  <2>1. Abstract!Grantable(x)
    <3>1. Abstract!Cardinality(x.cells) = Cardinality(x.cells)
      BY Zenon DEF Abstract!Cardinality, Cardinality
    <3>. QED
      BY <3>1, <1>2, Zenon DEF Abstract!Grantable, Places
  <2>2. Abstract!Grant(p, size)
    BY <2>1, <1>2, Zenon DEF Abstract!Grant, Wants, Places
  <2>. QED
    BY <2>2 DEF Abstract!Next
<1>3. ASSUME NEW x \in Places, Places' = Places \ {x}, Wants' = Wants
      PROVE  Abstract!Next
  <2>1. Abstract!Return(x)
    BY <1>3, Zenon DEF Abstract!Return, Wants, Places
  <2>2. x \in {[cells |-> CellsOf(b), size |-> b.size] : b \in live}
    BY DEF Places
  <2>. QED
    BY <2>1, <2>2, Zenon DEF Abstract!Next
<1>. QED
  BY <1>1, <1>2, <1>3

(* A caller gets block n, and all other blocks stay where they are. *)
LEMMA Granting ==
  ASSUME HeapInv, HeapInv', NEW p \in Procs, NEW size \in 1 .. MaxRequest, NEW n,
         n \notin live, live' = live \cup {n}, n.size = size,
         \A b \in live : CellsOf(b)' = CellsOf(b),
         op[p].size \in {0, size}, op' = [op EXCEPT ![p] = Idle]
  PROVE  Abstract!Next
<1> DEFINE cells == CellsOf(n)'
           place == [cells |-> cells, size |-> size]
<1>1. Wants' = [Wants EXCEPT ![p] = 0] /\ Wants[p] \in {0, size}
  <2>1. \A q \in Procs : op'[q].size = IF q = p THEN 0 ELSE op[q].size
    BY DEF HeapInv, BlocksInv, HeapTypes, Idle
  <2>. QED
    BY <2>1 DEF Wants
<1>2. /\ \A b \in live : cells \cap CellsOf(b) = {}
      /\ cells # {} /\ Cardinality(cells) >= size
  <2>1. \A b, c \in live' : b # c => CellsOf(b)' \cap CellsOf(c)' = {}
    BY CellsOfBlocksNext DEF CellsApart
  <2>2. \A b \in live' : CellsOf(b)' # {} /\ Cardinality(CellsOf(b)') >= b.size
    BY CellsOfBlocksNext DEF CellsEnough
  <2>. QED
    BY <2>1, <2>2
<1>3. Places' = Places \cup {place}
  <2>1. Places' = {[cells |-> CellsOf(b)', size |-> b.size] : b \in live \cup {n}}
    BY DEF Places
  <2>2. \A b \in live : [cells |-> CellsOf(b)', size |-> b.size] = [cells |-> CellsOf(b), size |-> b.size]
    OBVIOUS
  <2>3. [cells |-> CellsOf(n)', size |-> n.size] = place
    OBVIOUS
  <2> HIDE DEF place
  <2>. QED
    BY <2>1, <2>2, <2>3 DEF Places
<1> HIDE DEF cells
<1>4. \A other \in Places : cells \cap other.cells = {}
  BY <1>2 DEF Places
<1>5. place \notin Places
  <2>1. ASSUME place \in Places PROVE FALSE
    <3>1. PICK b \in live : place = [cells |-> CellsOf(b), size |-> b.size]
      BY <2>1 DEF Places
    <3>2. cells = CellsOf(b)
      BY <3>1
    <3>. QED
      BY <3>2, <1>2
  <2>. QED
    BY <2>1
<1>6. place.cells = cells /\ place.size = size
  OBVIOUS
<1> HIDE DEF place
<1>7. \E x \in Places' \ Places :
        /\ x.size = size /\ Cardinality(x.cells) >= x.size
        /\ (\A other \in Places : x.cells \cap other.cells = {}) /\ Places' = Places \cup {x}
  BY <1>2, <1>3, <1>4, <1>5, <1>6
<1>. QED
  BY <1>1, <1>7, AbstractSteps

(* A caller gives block b back. *)
LEMMA Returning ==
  ASSUME HeapInv, NEW b \in live, live' = live \ {b}, op' = op,
         \A c \in live : c # b => CellsOf(c)' = CellsOf(c)
  PROVE  Abstract!Next
<1> DEFINE place == [cells |-> CellsOf(b), size |-> b.size]
<1>1. \A c \in live : c # b => CellsOf(c) # CellsOf(b)
  BY CellsOfBlocks DEF CellsApart, CellsEnough
<1>2. \A c \in live : c # b => [cells |-> CellsOf(c), size |-> c.size] # place
  BY <1>1
<1>3. Places' = {[cells |-> CellsOf(c), size |-> c.size] : c \in live \ {b}}
  BY DEF Places
<1>4. place \in Places
  BY DEF Places
<1> HIDE DEF place
<1>5. Places' = Places \ {place}
  BY <1>2, <1>3 DEF place, Places
<1>6. Wants' = Wants
  BY DEF Wants
<1>. QED
  BY <1>4, <1>5, <1>6, AbstractSteps

LEMMA HeaderPages ==
  ASSUME HeapInv, NEW b \in live
  PROVE  HeaderPage(b) \in DOMAIN hdr
<1>1. CASE b \in SlabBlocks
  BY <1>1, SlabCells, SlabFacts DEF HeapInv
<1>2. CASE b \in LargeBlocks
  BY <1>2, LargeCells
<1>. QED
  BY <1>1, <1>2, BlockFacts DEF HeapInv

LEMMA CellsKept ==
  ASSUME NEW b, hdr'[HeaderPage(b)].slab_size = hdr[HeaderPage(b)].slab_size
  PROVE  CellsOf(b)' = CellsOf(b)
  BY DEF HeaderPage, CellsOf

LEMMA SlabAllocImplements ==
  ASSUME HeapInv, HeapInv', NEW p \in Procs, NEW page, NEW size, AtSlab(page, size),
         SlabAlloc(p, page, size), op[p] = Idle \/ op[p].size = size
  PROVE  Abstract!Next \/ (Wants' = Wants /\ Places' = Places)
<1>1. /\ page \in Slabs /\ page \in DOMAIN hdr /\ size \in 1 .. MaxRequest /\ op[p].size \in {0, size}
  BY SlabFacts, LayoutAssumption, PageSizeIsPositive DEF AtSlab, Idle, HeapInv
<1>2. ASSUME \A q \in DOMAIN hdr : hdr'[q].slab_size = hdr[q].slab_size
      PROVE  \A b \in live : CellsOf(b)' = CellsOf(b)
  BY <1>2, HeaderPages, CellsKept
<1>3. CASE TakeBlock(p, page, size)
  <2> DEFINE free == hdr[page].free_block
             new == [page |-> page, off |-> Head(free), size |-> size]
  <2>1. /\ free # <<>> /\ hdr' = [hdr EXCEPT ![page].free_block = Tail(@)]
        /\ live' = live \cup {new} /\ op' = [op EXCEPT ![p] = Idle]
    BY <1>3 DEF TakeBlock
  <2>2. \A q \in DOMAIN hdr : hdr'[q].slab_size = hdr[q].slab_size
    BY <2>1, <1>1 DEF HeapInv, BlocksInv, HeapTypes, Header
  <2>3. new \notin live
    <3>1. free \in Seq(Nat) /\ NoDup(free) /\ hdr[page].slab_size \in SlabSizes
          /\ Elements(free) \cap HeldAt(page) = {} /\ Elements(free) \subseteq Blocks(hdr[page].slab_size)
      BY <1>1, SlabFacts DEF HeapInv, BlocksInv, SlabsOK
    <3>2. Head(free) \in Elements(free)
      BY <3>1, <2>1, TailOfList
    <3>3. Head(free) # 0 /\ Head(free) \notin HeldAt(page)
      BY <3>1, <3>2, BlockPlaces
    <3>4. new.page = page /\ new.off = Head(free)
      OBVIOUS
    <3> HIDE DEF new
    <3>. QED
      BY <3>3, <3>4 DEF HeldAt, SlabBlocks
  <2>4. new.size = size
    OBVIOUS
  <2> HIDE DEF new
  <2>5. \E n : n \notin live /\ live' = live \cup {n} /\ n.size = size
    BY <2>1, <2>3, <2>4
  <2>6. PICK n : n \notin live /\ live' = live \cup {n} /\ n.size = size
    BY <2>5
  <2>7. \A b \in live : CellsOf(b)' = CellsOf(b)
    BY <2>2, <1>2
  <2>. QED
    BY <2>1, <2>6, <2>7, <1>1, Granting
<1>4. ASSUME live' = live, \A q \in DOMAIN hdr : hdr'[q].slab_size = hdr[q].slab_size
      PROVE  Places' = Places
  BY <1>4, <1>2 DEF Places
<1>5. ASSUME NEW n, op' = [op EXCEPT ![p] = [slab |-> n, size |-> size]], Places' = Places
      PROVE  Abstract!Next \/ (Wants' = Wants /\ Places' = Places)
  <2>1. \A q \in Procs : op'[q].size = IF q = p THEN size ELSE op[q].size
    BY <1>5 DEF HeapInv, BlocksInv, HeapTypes
  <2>2. CASE op[p].size = size
    BY <2>1, <2>2, <1>5 DEF Wants
  <2>3. CASE op[p].size = 0
    <3>1. Wants[p] = 0 /\ Wants' = [Wants EXCEPT ![p] = size]
      BY <2>1, <2>3 DEF Wants
    <3>. QED
      BY <3>1, <1>1, <1>5, AbstractSteps
  <2>. QED
    BY <2>2, <2>3, <1>1
<1>6. CASE GoToNext(p, page, size)
  <2>1. live' = live /\ hdr' = hdr /\ op' = [op EXCEPT ![p] = [slab |-> hdr[page].next, size |-> size]]
    BY <1>6 DEF GoToNext
  <2>2. Places' = Places
    BY <2>1, <1>4
  <2>3. PICK n : op' = [op EXCEPT ![p] = [slab |-> n, size |-> size]]
    BY <2>1
  <2>. QED
    BY <2>2, <2>3, <1>5
<1>7. CASE AddSlab(p, page, size)
  <2> DEFINE a == AllocPages(pool, 1)
  <2>1. live' = live
    BY <1>7 DEF AddSlab
  <2>2. CASE a.page = 0
    <3>1. hdr' = hdr /\ op' = op
      BY <2>2, <1>7 DEF AddSlab
    <3>. QED
      BY <3>1, <2>1, <1>4 DEF Wants
  <2>3. CASE a.page # 0
    <3>1. /\ hdr' = WithHeader([hdr EXCEPT ![page].next = a.page], a.page, NewSlab(hdr[page].slab_size))
          /\ op' = [op EXCEPT ![p] = [slab |-> a.page, size |-> size]]
      BY <2>3, <1>7 DEF AddSlab
    <3>2. a.page \notin DOMAIN hdr
      <4>1. Allocated(a, pool, 1)
        BY AllocPagesFree DEF HeapInv, BlocksInv, PoolOK
      <4>. QED
        BY <4>1, <2>3, AreaFacts DEF Allocated, HeapInv, BlocksInv, PoolOK
    <3> HIDE DEF a
    <3>3. \A q \in DOMAIN hdr : hdr'[q].slab_size = hdr[q].slab_size
      <4> DEFINE h == [hdr EXCEPT ![page].next = a.page]
      <4>1. DOMAIN h = DOMAIN hdr /\ \A q \in DOMAIN hdr : h[q].slab_size = hdr[q].slab_size
        BY <1>1 DEF HeapInv, BlocksInv, HeapTypes, Header
      <4> HIDE DEF h
      <4>2. hdr' = WithHeader(h, a.page, NewSlab(hdr[page].slab_size))
        BY <3>1 DEF h
      <4>3. \A q \in DOMAIN hdr : hdr'[q] = h[q]
        BY <4>1, <4>2, <3>2 DEF WithHeader
      <4>. QED
        BY <4>1, <4>3
    <3>4. Places' = Places
      BY <3>3, <2>1, <1>4
    <3>5. PICK n : op' = [op EXCEPT ![p] = [slab |-> n, size |-> size]]
      BY <3>1
    <3>. QED
      BY <3>4, <3>5, <1>5
  <2>. QED
    BY <2>2, <2>3
<1>. QED
  BY <1>3, <1>6, <1>7 DEF SlabAlloc

LEMMA KmallocLargeImplements ==
  ASSUME HeapInv, HeapInv', NEW p \in Procs, NEW size \in Requests, KmallocLarge(p, size)
  PROVE  Abstract!Next \/ (Wants' = Wants /\ Places' = Places)
<1> DEFINE k == LargePages(size)
           a == AllocPages(pool, k)
           new == [page |-> a.page + 1, off |-> 0, size |-> size]
<1>1. /\ size \in 1 .. MaxRequest /\ size \in Nat \ {0} /\ k \in Nat \ {0}
  BY LayoutAssumption, PageSizeIsPositive, LargePagesEnough
<1>2. op' = op /\ op[p] = Idle /\ op' = [op EXCEPT ![p] = Idle] /\ op[p].size \in {0, size}
  BY DEF KmallocLarge, HeapInv, BlocksInv, HeapTypes, Idle
<1>3. CASE a.page = 0
  <2>1. hdr' = hdr /\ live' = live
    BY <1>3 DEF KmallocLarge
  <2>2. \A b \in live : CellsOf(b)' = CellsOf(b)
    BY <2>1, CellsKept
  <2>. QED
    BY <2>1, <2>2, <1>2 DEF Wants, Places
<1>4. CASE a.page # 0
  <2>1. live' = live \cup {new}
        /\ hdr' = WithHeader(hdr, a.page, [slab_size |-> k, free_block |-> <<>>, next |-> 0])
    BY <1>4 DEF KmallocLarge
  <2>2. a.page \notin HeapArea /\ a.page \in Nat
    <3>1. Allocated(a, pool, k)
      BY <1>1, AllocPagesFree DEF HeapInv, BlocksInv, PoolOK
    <3>. QED
      BY <3>1, <1>4 DEF Allocated, HeapInv, BlocksInv, PoolOK
  <2>3. new.page - 1 = a.page /\ new.off = 0 /\ new.size = size
    BY <2>2
  <2> HIDE DEF a, new, k
  <2>4. a.page \notin DOMAIN hdr
    BY <2>2, AreaFacts DEF HeapInv
  <2>5. \A q \in DOMAIN hdr : hdr'[q] = hdr[q]
    BY <2>1, <2>4 DEF WithHeader
  <2>6. \A b \in live : CellsOf(b)' = CellsOf(b)
    BY <2>5, CellsKept, HeaderPages
  <2>7. new \notin live
    BY <2>3, <2>4, HeaderPages DEF HeaderPage
  <2>8. PICK n : n \notin live /\ live' = live \cup {n} /\ n.size = size
    BY <2>1, <2>3, <2>7
  <2>9. Abstract!Next
    BY <2>6, <2>8, <1>1, <1>2, Granting
  <2>. QED
    BY <2>9
<1>. QED
  BY <1>3, <1>4

LEMMA KfreeImplements ==
  ASSUME HeapInv, NEW b \in live, KfreeSmall(b) \/ KfreeLarge(b)
  PROVE  Abstract!Next
<1>1. ASSUME NEW c \in live, c # b PROVE CellsOf(c)' = CellsOf(c)
  <2>1. HeaderPage(c) \in DOMAIN hdr
    BY HeaderPages
  <2>2. CASE KfreeSmall(b)
    <3>1. b \in SlabBlocks
      BY <2>2 DEF KfreeSmall, SlabBlocks
    <3>2. b.page \in DOMAIN hdr
      BY <3>1, SlabCells, SlabFacts DEF HeapInv
    <3>3. hdr'[HeaderPage(c)].slab_size = hdr[HeaderPage(c)].slab_size
      BY <3>2, <2>1, <2>2 DEF KfreeSmall, HeapInv, BlocksInv, HeapTypes, Header
    <3>. QED
      BY <3>3, CellsKept
  <2>3. CASE KfreeLarge(b)
    <3>1. b \in LargeBlocks
      BY <2>3 DEF KfreeLarge, SlabBlocks, LargeBlocks
    <3>2. HeaderPage(c) # b.page - 1
      <4>1. CASE c \in SlabBlocks
        <5>1. HeaderPage(c) \in Slabs
          BY <4>1, SlabCells
        <5>. QED
          BY <5>1, <3>1 DEF Slabs
      <4>2. CASE c \in LargeBlocks
        <5>1. HeaderPage(c) \in LargeSpan(c)
          BY <4>2, LargeCells, BlockFacts DEF HeapInv
        <5>2. b.page - 1 \in LargeSpan(b)
          BY <3>1, BlockFacts DEF HeapInv
        <5>3. LargeSpan(b) \cap LargeSpan(c) = {}
          BY <4>2, <3>1, <1>1 DEF HeapInv, BlocksInv, LargeOK
        <5>. QED
          BY <5>1, <5>2, <5>3
      <4>. QED
        BY <4>1, <4>2, BlockFacts DEF HeapInv
    <3>3. hdr'[HeaderPage(c)] = hdr[HeaderPage(c)]
      BY <3>2, <2>1, <2>3 DEF KfreeLarge
    <3>. QED
      BY <3>3, CellsKept
  <2>. QED
    BY <2>2, <2>3
<1>2. live' = live \ {b} /\ op' = op
  BY DEF KfreeSmall, KfreeLarge
<1>. QED
  BY <1>1, <1>2, Returning

LEMMA HeapStepImplements ==
  ASSUME HeapInv, HeapInv', NEW procs \in SUBSET Procs, NEW max, HeapNext(procs, max)
  PROVE  Abstract!Next \/ (Wants' = Wants /\ Places' = Places)
<1>1. ASSUME NEW p \in procs, NEW size \in Requests, KmallocSmall(p, size)
      PROVE  Abstract!Next \/ (Wants' = Wants /\ Places' = Places)
  <2>1. ClassOf(size) \in SlabSizes
    BY <1>1, ClassOfSmall, LayoutAssumption, PageSizeIsPositive DEF KmallocSmall
  <2>2. AtSlab(root[ClassOf(size)], size)
    BY <2>1, <1>1 DEF KmallocSmall, AtSlab, HeapInv, BlocksInv, ChainOK
  <2>3. op[p] = Idle /\ SlabAlloc(p, root[ClassOf(size)], size)
    BY <1>1 DEF KmallocSmall
  <2>4. PICK page : AtSlab(page, size) /\ SlabAlloc(p, page, size)
    BY <2>2, <2>3
  <2>. QED
    BY <2>3, <2>4, SlabAllocImplements
<1>2. ASSUME NEW p \in Procs, Continue(p)
      PROVE  Abstract!Next \/ (Wants' = Wants /\ Places' = Places)
  <2>1. AtSlab(op[p].slab, op[p].size) /\ SlabAlloc(p, op[p].slab, op[p].size)
    BY <1>2 DEF Continue, HeapInv, BlocksInv, OpsOK
  <2>2. PICK page, size : AtSlab(page, size) /\ SlabAlloc(p, page, size) /\ size = op[p].size
    BY <2>1
  <2>. QED
    BY <2>2, SlabAllocImplements
<1>3. ASSUME NEW p \in procs, NEW size \in Requests, KmallocLarge(p, size)
      PROVE  Abstract!Next \/ (Wants' = Wants /\ Places' = Places)
  BY <1>3, KmallocLargeImplements
<1>4. ASSUME NEW b \in live, KfreeSmall(b) \/ KfreeLarge(b)
      PROVE  Abstract!Next \/ (Wants' = Wants /\ Places' = Places)
  BY <1>4, KfreeImplements
<1>. QED
  BY <1>1, <1>2, <1>3, <1>4 DEF HeapNext
=============================================================================
