------------------------------ MODULE PmmProofs ------------------------------
(***************************************************************************)
(* The page allocator never gives a page to two owners and never loses     *)
(* one, for every memory map, every size of pages and bytes, and every     *)
(* sequence of calls.                                                      *)
(***************************************************************************)
EXTENDS Pmm, WellFoundedInduction, TLAPS

(* A set of numbers that is not empty has a smallest one. *)
LEMMA NatMin ==
  ASSUME NEW T, T \subseteq Nat, T # {}
  PROVE  \E x \in T : \A y \in T : x <= y
<1> DEFINE R == OpToRel(<, Nat)
<1>1. IsWellFoundedOn(R, Nat)
  BY NatLessThanWellFounded
<1>2. \A x, y \in Nat : <<x, y>> \in R <=> x < y
  BY DEF OpToRel
<1> HIDE DEF R
<1>3. PICK x \in T : \A y \in T : ~ (<<y, x>> \in R)
  BY <1>1, WFMin
<1>4. \A y \in T : ~ (y < x) /\ y \in Nat /\ x \in Nat
  BY <1>2, <1>3
<1>5. \A y \in T : x <= y
  BY <1>4
<1>. QED
  BY <1>5

(* Finitely many numbers, given as a function on 1 .. n, have a largest    *)
(* one (or 0 when there are none).                                         *)
LEMMA MaxOfSequence ==
  ASSUME NEW n \in Nat, NEW f, \A i \in 1 .. n : f[i] \in Nat
  PROVE  \E e \in {f[i] : i \in 1 .. n} \cup {0} : \A i \in 1 .. n : f[i] <= e
<1> DEFINE Bounded(k) == \E b \in Nat : \A i \in 1 .. k : f[i] <= b
           T == {k \in 0 .. n : ~Bounded(k)}
<1>1. T = {}
  <2> SUFFICES ASSUME T # {} PROVE FALSE
    OBVIOUS
  <2>1. T \subseteq Nat
    OBVIOUS
  <2>2. PICK x \in T : \A y \in T : x <= y
    BY <2>1, NatMin
  <2>3. Bounded(0)
    <3>1. 0 \in Nat /\ \A i \in 1 .. 0 : f[i] <= 0
      OBVIOUS
    <3>. QED
      BY <3>1
  <2>4. x # 0 /\ x \in 1 .. n
    BY <2>2, <2>3
  <2>5. x - 1 \notin T /\ x - 1 \in 0 .. n
    <3>1. x - 1 \in 0 .. n /\ ~(x <= x - 1)
      BY <2>4
    <3> HIDE DEF T
    <3>. QED
      BY <2>2, <3>1
  <2>6. Bounded(x - 1)
    BY <2>5
  <2>7. PICK b \in Nat : \A i \in 1 .. (x - 1) : f[i] <= b
    BY <2>6
  <2>8. f[x] \in Nat
    BY <2>4
  <2>9. PICK c \in Nat : b <= c /\ f[x] <= c
    <3>1. CASE b <= f[x]
      BY <2>8, <3>1
    <3>2. CASE ~(b <= f[x])
      <4>1. b <= b /\ f[x] <= b
        BY <2>8, <3>2
      <4>. QED
        BY <4>1
    <3>. QED
      BY <3>1, <3>2
  <2>10. \A i \in 1 .. x : f[i] <= c
    <3> TAKE i \in 1 .. x
    <3>1. f[i] \in Nat
      BY <2>4
    <3>2. CASE i = x
      BY <3>2, <2>9
    <3>3. CASE i # x
      <4>1. i \in 1 .. (x - 1)
        BY <3>3, <2>4
      <4>2. f[i] <= b
        BY <4>1, <2>7
      <4>. QED
        BY <3>1, <4>2, <2>9
    <3>. QED
      BY <3>2, <3>3
  <2>11. Bounded(x)
    BY <2>10
  <2>. QED
    BY <2>2, <2>11
<1>2. Bounded(n)
  <2> HIDE DEF Bounded
  <2>1. n \in 0 .. n
    OBVIOUS
  <2>. QED
    BY <1>1, <2>1
<1> DEFINE U == {b \in Nat : \A i \in 1 .. n : f[i] <= b}
<1>3. U # {} /\ U \subseteq Nat
  BY <1>2
<1>4. PICK u \in U : \A b \in U : u <= b
  BY <1>3, NatMin
<1>5. u \in Nat /\ \A i \in 1 .. n : f[i] <= u
  BY <1>4
<1>6. ASSUME u # 0, \A i \in 1 .. n : f[i] # u PROVE FALSE
  <2>1. u - 1 \in Nat
    BY <1>5, <1>6
  <2>2. \A i \in 1 .. n : f[i] <= u - 1
    BY <1>5, <1>6
  <2>3. u - 1 \in U
    BY <2>1, <2>2
  <2>. QED
    BY <1>4, <1>5, <2>3
<1>. QED
  BY <1>5, <1>6

-----------------------------------------------------------------------------
(* No page of the bitmap, and not page 0, is ever marked free. *)
OwnUnusable == usable \cap (own \cup {0}) = {}

IInv == TypeOK /\ NoOverlap /\ Accounting /\ OwnUnusable

(* The sizes of the bitmap are numbers. *)
LEMMA SizesAreNat ==
  ASSUME NEW s \in Nat
  PROVE  Bits(s) \in Nat /\ Limit(s) \in Nat /\ Bits(s) <= Limit(s)
<1>1. \A a, b, c \in Nat : a * b \in Nat /\ (b <= c => a * b <= a * c)
  OBVIOUS
<1>. QED
  BY <1>1, SizesArePositive DEF Bits, Limit

(* The regions of a memory map. *)
LEMMA RegionsOf ==
  ASSUME NEW m \in MemMaps
  PROVE  /\ Len(m) \in Nat /\ DOMAIN m = 1 .. Len(m)
         /\ \A i \in DOMAIN m : m[i] \in [base : Nat \ {0}, pages : Nat]
<1> DEFINE Region == [base : Nat \ {0}, pages : Nat]
<1>1. m \in Seq(Region)
  BY MemMapsAreRegions
<1> HIDE DEF Region
<1>2. /\ Len(m) \in Nat /\ DOMAIN m = 1 .. Len(m)
      /\ \A i \in DOMAIN m : m[i] \in Region
  BY <1>1
<1>. QED
  BY <1>2 DEF Region

(* The size of the bitmap is a number. *)
LEMMA BitmapSizeIsNat ==
  ASSUME NEW m \in MemMaps
  PROVE  BitmapSize(m) \in Nat
<1> DEFINE f == [i \in DOMAIN m |-> m[i].base + m[i].pages]
           ends == {m[i].base + m[i].pages : i \in DOMAIN m}
           highest == CHOOSE e \in ends \cup {0} : \A g \in ends : g <= e
<1>1. /\ Len(m) \in Nat /\ DOMAIN m = 1 .. Len(m)
      /\ \A i \in DOMAIN m : m[i] \in [base : Nat \ {0}, pages : Nat]
  BY RegionsOf
<1>2. \A i \in 1 .. Len(m) : f[i] \in Nat /\ f[i] = m[i].base + m[i].pages
  BY <1>1
<1>3. \E e \in {f[i] : i \in 1 .. Len(m)} \cup {0} : \A i \in 1 .. Len(m) : f[i] <= e
  <2> HIDE DEF f
  <2>. QED
    BY <1>1, <1>2, MaxOfSequence
<1>4. ends = {f[i] : i \in 1 .. Len(m)}
  BY <1>1, <1>2
<1>5. \E e \in ends \cup {0} : \A g \in ends : g <= e
  <2> HIDE DEF f, ends
  <2>. QED
    BY <1>3, <1>4
<1>6. highest \in ends \cup {0}
  <2> HIDE DEF ends
  <2>. QED
    BY <1>5
<1>7. highest \in Nat
  <2>1. ends \subseteq Nat
    BY <1>1
  <2> HIDE DEF ends, highest
  <2>. QED
    BY <1>6, <2>1
<1>8. \A x \in Nat, a \in Nat \ {0} : x \div a \in Nat
  OBVIOUS
<1>9. \A x, a \in Nat : x * a \in Nat
  OBVIOUS
<1>10. BitmapSize(m) = AlignUp(highest \div ByteBits, PAGE_SIZE)
  BY DEF BitmapSize
<1> HIDE DEF highest
<1>11. highest \div ByteBits \in Nat
  BY <1>7, <1>8, SizesArePositive
<1>12. (highest \div ByteBits) + PAGE_SIZE - 1 \in Nat
  BY <1>11, SizesArePositive
<1>13. ((highest \div ByteBits) + PAGE_SIZE - 1) \div PAGE_SIZE \in Nat
  BY <1>8, <1>12, SizesArePositive
<1>. QED
  BY <1>9, <1>10, <1>13, SizesArePositive DEF AlignUp

(* Pmm::init. *)
LEMMA InitInv == Init => IInv
<1> SUFFICES ASSUME Init PROVE IInv
  OBVIOUS
<1>1. PICK m \in MemMaps :
        /\ \E i \in DOMAIN m : Fits(m, i)
        /\ size = BitmapSize(m)
        /\ own = OwnPages(m)
        /\ usable = FreePages(m) \cap 0 .. Bits(BitmapSize(m)) - 1
        /\ used = [p \in 0 .. Bits(BitmapSize(m)) - 1 |-> p \notin usable]
        /\ last_page_idx = 0
        /\ live = {}
  BY DEF Init
<1>2. size \in Nat /\ Limit(size) \in Nat
  BY <1>1, BitmapSizeIsNat, SizesAreNat
<1>3. /\ Len(m) \in Nat /\ DOMAIN m = 1 .. Len(m)
      /\ \A i \in DOMAIN m : m[i] \in [base : Nat \ {0}, pages : Nat]
  BY RegionsOf
<1>4. own \subseteq Nat
  <2> DEFINE fit == {i \in DOMAIN m : Fits(m, i)}
  <2>1. fit # {} /\ fit \subseteq Nat
    BY <1>1, <1>3
  <2>2. PICK i \in fit : \A j \in fit : i <= j
    BY <2>1, NatMin
  <2>3. \A j \in 1 .. i - 1 : ~Fits(m, j)
    BY <1>3, <2>2
  <2>4. Host(m) \in DOMAIN m
    BY <2>2, <2>3 DEF Host
  <2>5. m[Host(m)].base \in Nat
    BY <1>3, <2>4
  <2>. QED
    BY <1>1, <2>5 DEF OwnPages, Span
<1>5. TypeOK
  BY <1>1, <1>2, <1>4 DEF TypeOK
<1>6. OwnUnusable
  <2>1. 0 \notin FreePages(m)
    BY <1>3 DEF FreePages, RegionPages, Span
  <2>2. FreePages(m) \cap OwnPages(m) = {}
    BY DEF FreePages
  <2>. QED
    BY <1>1, <2>1, <2>2 DEF OwnUnusable
<1>7. NoOverlap /\ Accounting
  BY <1>1 DEF NoOverlap, Accounting
<1>. QED
  BY <1>5, <1>6, <1>7 DEF IInv

-----------------------------------------------------------------------------
(* inner_alloc returns 0, or the start of a run of free pages; the index   *)
(* it leaves lies within what was searched, and it is the limit, or where  *)
(* it was, when nothing was found.                                         *)
LEMMA InnerAllocFinds ==
  ASSUME NEW past, NEW from \in Nat, NEW limit \in Nat, NEW pages \in Nat \ {0},
         NEW r, r = InnerAlloc(past, from, limit, pages)
  PROVE  /\ r.page \in Nat /\ r.last \in Nat
         /\ r.last <= from \/ r.last <= limit
         /\ r.page # 0 => r.page \in Runs(past, from, limit, pages)
         /\ Runs(past, from, limit, pages) = {} =>
              r.page = 0 /\ r.last = IF from < limit THEN limit ELSE from
         /\ r.page = 0 /\ Runs(past, from, limit, pages) # {} =>
              0 \in Runs(past, from, limit, pages)
<1> DEFINE runs == Runs(past, from, limit, pages)
<1>1. runs \subseteq Nat /\ \A p \in runs : p + pages <= limit
  BY DEF Runs
<1>2. CASE runs = {}
  <2>1. r = [page |-> 0, last |-> IF from < limit THEN limit ELSE from]
    BY <1>2 DEF InnerAlloc
  <2>. QED
    BY <1>2, <2>1
<1>3. CASE runs # {}
  <2> DEFINE p == CHOOSE p \in runs : \A q \in runs : p <= q
  <2>1. r = [page |-> p, last |-> p + pages]
    BY <1>3 DEF InnerAlloc
  <2> HIDE DEF runs
  <2>2. \E x \in runs : \A y \in runs : x <= y
    BY <1>1, <1>3, NatMin
  <2>3. p \in runs
    BY <2>2
  <2> HIDE DEF p
  <2>4. r.page = p /\ r.last = p + pages /\ p \in Nat /\ p + pages <= limit
    BY <1>1, <2>1, <2>3
  <2> USE DEF runs
  <2>. QED
    BY <1>3, <2>3, <2>4
<1>. QED
  BY <1>2, <1>3

(* The two searches of alloc together. *)
LEMMA SearchFinds ==
  ASSUME TypeOK, NEW past, NEW pages \in Nat \ {0},
         NEW r, r = Search(past, pages)
  PROVE  /\ r.page \in Nat /\ r.last \in 0 .. Limit(size)
         /\ r.page # 0 => \A i \in Span(r.page, pages) : ~IsUsed(past, i)
         /\ r.page = 0 => \/ Runs(past, 0, Limit(size), pages) = {}
                          \/ 0 \in Runs(past, 0, Limit(size), pages)
<1> DEFINE L == Limit(size)
           first == InnerAlloc(past, last_page_idx, L, pages)
           second == InnerAlloc(past, 0, first.last, pages)
<1>1. L \in Nat /\ last_page_idx \in Nat /\ last_page_idx <= L
  BY SizesAreNat DEF TypeOK
<1>2. r = IF first.page # 0 THEN first ELSE second
  BY DEF Search
<1> HIDE DEF L, first, second
<1>3. /\ first.page \in Nat /\ first.last \in Nat
      /\ first.last <= last_page_idx \/ first.last <= L
      /\ first.page # 0 => first.page \in Runs(past, last_page_idx, L, pages)
      /\ Runs(past, last_page_idx, L, pages) = {} =>
           first.page = 0
             /\ first.last = IF last_page_idx < L THEN L ELSE last_page_idx
      /\ first.page = 0 /\ Runs(past, last_page_idx, L, pages) # {} =>
           0 \in Runs(past, last_page_idx, L, pages)
  <2>1. last_page_idx \in Nat /\ L \in Nat
    BY <1>1
  <2>. QED
    BY <2>1, InnerAllocFinds DEF first
<1>4. /\ second.page \in Nat /\ second.last \in Nat
      /\ second.last <= 0 \/ second.last <= first.last
      /\ second.page # 0 => second.page \in Runs(past, 0, first.last, pages)
      /\ Runs(past, 0, first.last, pages) = {} => second.page = 0
      /\ second.page = 0 /\ Runs(past, 0, first.last, pages) # {} =>
           0 \in Runs(past, 0, first.last, pages)
  <2>1. 0 \in Nat /\ first.last \in Nat
    BY <1>3
  <2>. QED
    BY <2>1, InnerAllocFinds DEF second
<1>5. r.page \in Nat /\ r.last \in 0 .. L
  BY <1>1, <1>2, <1>3, <1>4
<1>6. r.page # 0 => \A i \in Span(r.page, pages) : ~IsUsed(past, i)
  <2>1. \A a, b, p : p \in Runs(past, a, b, pages) =>
          \A i \in Span(p, pages) : ~IsUsed(past, i)
    BY DEF Runs
  <2>. QED
    BY <1>2, <1>3, <1>4, <2>1
<1>7. r.page = 0 => \/ Runs(past, 0, L, pages) = {}
                    \/ 0 \in Runs(past, 0, L, pages)
  <2> SUFFICES ASSUME r.page = 0
               PROVE  Runs(past, 0, L, pages) = {} \/ 0 \in Runs(past, 0, L, pages)
    OBVIOUS
  <2>1. first.page = 0 /\ second.page = 0
    BY <1>2
  <2>2. CASE Runs(past, last_page_idx, L, pages) = {}
    <3>1. first.last = L
      BY <1>1, <1>3, <2>2
    <3>. QED
      BY <1>4, <2>1, <3>1
  <2>3. CASE Runs(past, last_page_idx, L, pages) # {}
    <3>1. 0 \in Runs(past, last_page_idx, L, pages)
      BY <1>3, <2>1, <2>3
    <3>2. 0 \in Runs(past, 0, L, pages)
      BY <1>1, <3>1 DEF Runs
    <3>. QED
      BY <3>2
  <2>. QED
    BY <2>2, <2>3
<1>. QED
  BY <1>5, <1>6, <1>7 DEF L

(* Pmm::alloc. *)
LEMMA AllocInv ==
  ASSUME IInv, NEW past, NEW pages \in 1 .. MaxPages, Alloc(past, pages)
  PROVE  IInv'
<1> DEFINE found == Search(past, pages)
           new == [page |-> found.page, pages |-> pages]
<1>1. /\ TypeOK /\ pages \in Nat \ {0}
      /\ UNCHANGED <<size, own, usable>> /\ last_page_idx' = found.last
  BY SizesArePositive DEF IInv, Alloc
<1>2. /\ found.page \in Nat /\ found.last \in 0 .. Limit(size)
      /\ found.page # 0 => \A i \in Span(found.page, pages) : ~IsUsed(past, i)
  BY <1>1, SearchFinds
<1>3. CASE found.page = 0
  <2>1. UNCHANGED <<used, live>>
    BY <1>3 DEF Alloc
  <2>2. TypeOK'
    BY <1>1, <1>2, <2>1 DEF TypeOK, Bits, Limit
  <2>. QED
    BY <1>1, <2>1, <2>2 DEF IInv, NoOverlap, Accounting, OwnUnusable, Span
<1>4. CASE found.page # 0
  <2>1. /\ used' = SetBits(used, Span(found.page, pages), TRUE)
        /\ live' = live \cup {new}
    BY <1>4 DEF Alloc
  <2> HIDE DEF found
  <2>2. new.page = found.page /\ new.pages = pages
    OBVIOUS
  <2>3. \A p \in DOMAIN used : p \in Span(new.page, new.pages) => used[p] = FALSE
    BY <1>1, <1>2, <1>4, <2>2 DEF IsUsed, TypeOK
  <2>4. /\ DOMAIN used' = DOMAIN used
        /\ \A p \in DOMAIN used :
             used'[p] = IF p \in Span(new.page, new.pages) THEN TRUE ELSE used[p]
    BY <2>1, <2>2 DEF SetBits
  <2>5. \A p \in DOMAIN used : p \in Span(new.page, new.pages) =>
          p \in usable /\ \A a \in live : p \notin Span(a.page, a.pages)
    BY <2>3 DEF IInv, Accounting
  <2>6. TypeOK'
    <3>1. used' \in [0 .. Bits(size) - 1 -> BOOLEAN]
      BY <1>1, <2>1 DEF TypeOK, SetBits
    <3>2. new \in [page : Nat \ {0}, pages : 1 .. MaxPages]
      BY <1>2, <1>4
    <3>3. Bits(size)' = Bits(size) /\ Limit(size)' = Limit(size)
      BY <1>1 DEF Bits, Limit
    <3> HIDE DEF new
    <3>. QED
      BY <1>1, <1>2, <2>1, <2>4, <3>1, <3>2, <3>3 DEF TypeOK
  <2> HIDE DEF new
  <2>7. NoOverlap'
    <3>1. \A a \in live : Span(a.page, a.pages) \cap Span(new.page, new.pages)
                            \cap DOMAIN used = {}
      BY <2>5
    <3>. QED
      BY <2>1, <2>4, <3>1 DEF IInv, NoOverlap, Span
  <2>8. Accounting'
    <3>1. \A p \in DOMAIN used :
            (\E a \in live' : p \in Span(a.page, a.pages))
              <=> \/ p \in Span(new.page, new.pages)
                  \/ \E a \in live : p \in Span(a.page, a.pages)
      BY <2>1
    <3>2. \A p \in DOMAIN used :
            /\ p \in usable =>
                 (used'[p] <=> \E a \in live' : p \in Span(a.page, a.pages))
            /\ p \notin usable =>
                 used'[p] /\ ~ \E a \in live' : p \in Span(a.page, a.pages)
      <4> TAKE p \in DOMAIN used
      <4>1. CASE p \in Span(new.page, new.pages)
        BY <2>4, <2>5, <3>1, <4>1
      <4>2. CASE p \notin Span(new.page, new.pages)
        BY <2>4, <3>1, <4>2 DEF IInv, Accounting
      <4>. QED
        BY <4>1, <4>2
    <3>. QED
      BY <1>1, <2>4, <3>2 DEF Accounting, Span
  <2>9. OwnUnusable'
    BY <1>1 DEF IInv, OwnUnusable
  <2>. QED
    BY <2>6, <2>7, <2>8, <2>9 DEF IInv
<1>. QED
  BY <1>3, <1>4

(* Pmm::free. *)
LEMMA FreeInv ==
  ASSUME IInv, NEW a \in live, Free(a)
  PROVE  IInv'
<1>1. /\ TypeOK /\ used' = SetBits(used, Span(a.page, a.pages), FALSE)
      /\ live' = live \ {a}
      /\ UNCHANGED <<size, last_page_idx, own, usable>>
  BY DEF Free, IInv
<1>2. /\ DOMAIN used' = DOMAIN used
      /\ \A p \in DOMAIN used :
           used'[p] = IF p \in Span(a.page, a.pages) THEN FALSE ELSE used[p]
  BY <1>1 DEF SetBits
<1>3. TypeOK'
  <2>1. used' \in [0 .. Bits(size) - 1 -> BOOLEAN]
    BY <1>1 DEF TypeOK, SetBits
  <2>2. Bits(size)' = Bits(size) /\ Limit(size)' = Limit(size)
    BY <1>1 DEF Bits, Limit
  <2>. QED
    BY <1>1, <1>2, <2>1, <2>2 DEF TypeOK
<1>4. NoOverlap'
  BY <1>1, <1>2 DEF IInv, NoOverlap, Span
<1>5. Accounting'
  <2>1. \A p \in DOMAIN used :
          /\ p \in usable =>
               (used'[p] <=> \E b \in live' : p \in Span(b.page, b.pages))
          /\ p \notin usable =>
               used'[p] /\ ~ \E b \in live' : p \in Span(b.page, b.pages)
    <3> TAKE p \in DOMAIN used
    <3>1. CASE p \in Span(a.page, a.pages)
      <4>1. \A b \in live' : p \notin Span(b.page, b.pages)
        BY <1>1, <3>1 DEF IInv, NoOverlap
      <4>2. p \in usable
        BY <3>1 DEF IInv, Accounting
      <4>. QED
        BY <1>2, <3>1, <4>1, <4>2
    <3>2. CASE p \notin Span(a.page, a.pages)
      <4>1. (\E b \in live' : p \in Span(b.page, b.pages))
              <=> \E b \in live : p \in Span(b.page, b.pages)
        BY <1>1, <3>2
      <4>. QED
        BY <1>2, <3>2, <4>1 DEF IInv, Accounting
    <3>. QED
      BY <3>1, <3>2
  <2>. QED
    BY <1>1, <1>2, <2>1 DEF Accounting, Span
<1>6. OwnUnusable'
  BY <1>1 DEF IInv, OwnUnusable
<1>. QED
  BY <1>3, <1>4, <1>5, <1>6 DEF IInv

-----------------------------------------------------------------------------
(* IInv is an inductive invariant of the allocator. *)
THEOREM Invariance == Spec => []IInv
<1>1. Init => IInv
  BY InitInv
<1>2. IInv /\ [Next]_vars => IInv'
  <2> SUFFICES ASSUME IInv, [Next]_vars PROVE IInv'
    OBVIOUS
  <2>1. CASE \E pages \in 1 .. MaxPages, past \in SUBSET PastBitmap :
               Alloc(past, pages)
    BY <2>1, AllocInv
  <2>2. CASE \E a \in live : Free(a)
    BY <2>2, FreeInv
  <2>3. CASE UNCHANGED vars
    BY <2>3 DEF vars, IInv, TypeOK, NoOverlap, Accounting, OwnUnusable, Span,
                Bits, Limit
  <2>. QED
    BY <2>1, <2>2, <2>3 DEF Next
<1>. QED
  BY <1>1, <1>2, PTL DEF Spec

(* The bitmap, the size and the live allocations keep their types. *)
THEOREM TypeCorrect == Spec => []TypeOK
<1>1. IInv => TypeOK
  BY DEF IInv
<1>. QED
  BY <1>1, Invariance, PTL

(* No page of the bitmap has two owners. *)
THEOREM NoOverlapCorrect == Spec => []NoOverlap
<1>1. IInv => NoOverlap
  BY DEF IInv
<1>. QED
  BY <1>1, Invariance, PTL

(* A page is marked used exactly while it is unusable or owned. *)
THEOREM AccountingCorrect == Spec => []Accounting
<1>1. IInv => Accounting
  BY DEF IInv
<1>. QED
  BY <1>1, Invariance, PTL

(* The bitmap's own pages and page 0 are never handed out. *)
THEOREM BitmapIntactCorrect == Spec => []BitmapIntact
<1>1. IInv => BitmapIntact
  BY DEF IInv, Accounting, OwnUnusable, BitmapIntact
<1>. QED
  BY <1>1, Invariance, PTL

(* Going back to the start of the bitmap misses no run. *)
LEMMA SearchIsComplete ==
  ASSUME IInv
  PROVE  SearchComplete
<1> SUFFICES ASSUME NEW pages \in 1 .. MaxPages,
                    NEW past \in SUBSET PastBitmap,
                    Search(past, pages).page = 0,
                    NEW p \in Runs(past, 0, Bits(size), pages)
             PROVE  FALSE
  BY DEF SearchComplete
<1>1. /\ TypeOK /\ pages \in Nat \ {0}
      /\ Bits(size) \in Nat /\ Limit(size) \in Nat /\ Bits(size) <= Limit(size)
  <2>1. TypeOK /\ size \in Nat /\ pages \in Nat \ {0}
    BY SizesArePositive DEF IInv, TypeOK
  <2>. QED
    BY <2>1, SizesAreNat
<1>2. p \in Runs(past, 0, Limit(size), pages) /\ Bits(size) > 0
  BY <1>1 DEF Runs
<1>3. 0 \in Runs(past, 0, Limit(size), pages)
  BY <1>1, <1>2, SearchFinds
<1>4. 0 \in Span(0, pages)
  BY <1>1 DEF Span
<1>5. ~IsUsed(past, 0)
  BY <1>3, <1>4 DEF Runs
<1>6. 0 \in DOMAIN used
  BY <1>1, <1>2 DEF TypeOK
<1>7. used[0]
  BY <1>6 DEF IInv, Accounting, OwnUnusable
<1>. QED
  BY <1>5, <1>6, <1>7 DEF IsUsed

(* alloc fails only when the bitmap has no free run of that length. *)
THEOREM SearchCompleteCorrect == Spec => []SearchComplete
<1>1. IInv => SearchComplete
  BY SearchIsComplete
<1>. QED
  BY <1>1, Invariance, PTL

-----------------------------------------------------------------------------
(* What PagePool keeps of the allocator: the free pages of the bitmap. *)
Pool == {p \in DOMAIN used : ~used[p]}

(* alloc(n) takes n pages that were free out of the pool (pages past the   *)
(* bitmap never were in it), or fails when the pool has no run of n pages. *)
PoolAlloc(n) ==
  \/ \E a \in live' : /\ live' = live \cup {a} /\ a.pages = n
                      /\ Span(a.page, n) \cap DOMAIN used \subseteq Pool
                      /\ Pool' = Pool \ Span(a.page, n)
  \/ /\ \A p \in Pool : ~(Span(p, n) \subseteq Pool)
     /\ UNCHANGED live /\ Pool' = Pool

(* free gives back pages that were not in the pool. *)
PoolFree(a) ==
  /\ live' = live \ {a} /\ Span(a.page, a.pages) \cap Pool = {}
  /\ Pool' = Pool \cup (Span(a.page, a.pages) \cap DOMAIN used)

PoolStep ==
  \/ \E n \in 1 .. MaxPages, past \in SUBSET PastBitmap : Alloc(past, n) /\ PoolAlloc(n)
  \/ \E a \in live : Free(a) /\ PoolFree(a)

(* alloc on the set of free pages. *)
LEMMA AllocPoolStep ==
  ASSUME IInv, NEW past \in SUBSET PastBitmap, NEW pages \in 1 .. MaxPages, Alloc(past, pages)
  PROVE  PoolAlloc(pages)
<1> DEFINE found == Search(past, pages)
           new == [page |-> found.page, pages |-> pages]
<1>1. TypeOK /\ pages \in Nat \ {0}
  BY SizesArePositive DEF IInv
<1>2. /\ found.page \in Nat
      /\ found.page # 0 => \A i \in Span(found.page, pages) : ~IsUsed(past, i)
  BY <1>1, SearchFinds
<1>3. CASE found.page = 0
  <2>1. UNCHANGED <<used, live>>
    BY <1>3 DEF Alloc
  <2>2. Runs(past, 0, Bits(size), pages) = {}
    BY <1>3, SearchIsComplete DEF SearchComplete
  <2>3. DOMAIN used = 0 .. Bits(size) - 1 /\ Bits(size) \in Nat
    BY <1>1, SizesAreNat DEF TypeOK
  <2>4. ASSUME NEW p \in Pool, Span(p, pages) \subseteq Pool
        PROVE  FALSE
    <3>1. p \in Nat /\ p \in 0 .. Bits(size)
      BY <2>3 DEF Pool
    <3>2. p + pages - 1 \in Span(p, pages)
      BY <1>1, <3>1 DEF Span
    <3>3. p + pages - 1 \in DOMAIN used
      BY <2>4, <3>2 DEF Pool
    <3>4. p + pages <= Bits(size)
      BY <1>1, <2>3, <3>1, <3>3
    <3>5. \A i \in Span(p, pages) : ~IsUsed(past, i)
      BY <2>4 DEF Pool, IsUsed
    <3>. QED
      BY <2>2, <3>1, <3>4, <3>5 DEF Runs
  <2>. QED
    BY <2>1, <2>4 DEF PoolAlloc, Pool
<1>4. CASE found.page # 0
  <2>1. /\ used' = SetBits(used, Span(found.page, pages), TRUE)
        /\ live' = live \cup {new}
    BY <1>4 DEF Alloc
  <2> HIDE DEF found
  <2>2. new.page = found.page /\ new.pages = pages
    OBVIOUS
  <2>3. /\ DOMAIN used' = DOMAIN used
        /\ \A p \in DOMAIN used :
             used'[p] = IF p \in Span(new.page, new.pages) THEN TRUE ELSE used[p]
    BY <2>1, <2>2 DEF SetBits
  <2>4. Span(new.page, new.pages) \cap DOMAIN used \subseteq Pool
    BY <1>2, <1>4, <2>2 DEF IsUsed, Pool
  <2> HIDE DEF new
  <2>5. Pool' = Pool \ Span(new.page, new.pages)
    BY <2>3 DEF Pool
  <2>6. new \in live'
    BY <2>1
  <2>. QED
    BY <2>1, <2>2, <2>4, <2>5, <2>6 DEF PoolAlloc
<1>. QED
  BY <1>3, <1>4

(* free on the set of free pages. *)
LEMMA FreePoolStep ==
  ASSUME IInv, NEW a \in live, Free(a)
  PROVE  PoolFree(a)
<1>1. used' = SetBits(used, Span(a.page, a.pages), FALSE) /\ live' = live \ {a}
  BY DEF Free
<1>2. /\ DOMAIN used' = DOMAIN used
      /\ \A p \in DOMAIN used :
           used'[p] = IF p \in Span(a.page, a.pages) THEN FALSE ELSE used[p]
  BY <1>1 DEF SetBits
<1>3. Span(a.page, a.pages) \cap Pool = {}
  BY DEF IInv, Accounting, Pool
<1>4. Pool' = Pool \cup (Span(a.page, a.pages) \cap DOMAIN used)
  BY <1>2 DEF Pool
<1>. QED
  BY <1>1, <1>3, <1>4 DEF PoolFree

(* Pmm::alloc and free do to the pages that have a bit what PagePool, and  *)
(* with it the models of the heap and of the address spaces, says they do: *)
(* the two searches, the wrap-around and the reads past the bitmap cannot  *)
(* be seen from outside.                                                   *)
THEOREM PoolStepCorrect == Spec => [][PoolStep]_vars
<1>1. IInv /\ [Next]_vars => [PoolStep]_vars
  <2> SUFFICES ASSUME IInv, [Next]_vars, ~UNCHANGED vars PROVE PoolStep
    OBVIOUS
  <2>1. CASE \E pages \in 1 .. MaxPages, past \in SUBSET PastBitmap :
               Alloc(past, pages)
    BY <2>1, AllocPoolStep DEF PoolStep
  <2>2. CASE \E a \in live : Free(a)
    BY <2>2, FreePoolStep DEF PoolStep
  <2>. QED
    BY <2>1, <2>2 DEF Next
<1>. QED
  BY <1>1, Invariance, PTL DEF Spec

-----------------------------------------------------------------------------
(* The loop of inner_alloc.  At page i with acc free pages right before it *)
(* the runs that the loop can still return start at i - acc or later; what *)
(* it returns from there is the first of them.                             *)
Ahead(past, limit, pages, i, acc) ==
  {p \in i - acc .. limit : /\ p + pages <= limit
                            /\ \A j \in Span(p, pages) : j < i \/ ~IsUsed(past, j)}

FirstOf(runs, limit, pages) ==
  IF runs = {} THEN [page |-> 0, last |-> limit]
  ELSE LET p == CHOOSE p \in runs : \A q \in runs : p <= q
       IN  [page |-> p, last |-> p + pages]

LEMMA FirstOfLeast ==
  ASSUME NEW runs \in SUBSET Int, NEW p \in runs, \A q \in runs : p <= q, NEW limit, NEW pages
  PROVE  FirstOf(runs, limit, pages) = [page |-> p, last |-> p + pages]
<1>1. \A r \in runs : (\A q \in runs : r <= q) => r = p
  <2> SUFFICES ASSUME NEW r \in runs, \A q \in runs : r <= q PROVE r = p
    OBVIOUS
  <2>1. r <= p /\ p <= r /\ r \in Int /\ p \in Int
    OBVIOUS
  <2>. QED
    BY <2>1
<1>2. (CHOOSE r \in runs : \A q \in runs : r <= q) = p
  BY <1>1
<1>. QED
  BY <1>2 DEF FirstOf

(* One round of the loop. *)
Round(past, limit, pages, f, i, acc) ==
  IF i >= limit THEN [page |-> 0, last |-> i]
  ELSE IF IsUsed(past, i) THEN f[i + 1][0]
  ELSE IF acc + 1 = pages THEN [page |-> i + 1 - pages, last |-> i + 1]
  ELSE f[i + 1][acc + 1]

(* It returns the first run ahead if the rounds after it do. *)
LEMMA RoundFinds ==
  ASSUME NEW past, NEW limit \in Nat, NEW pages \in Nat \ {0}, NEW f,
         NEW i \in 0 .. limit, NEW acc \in 0 .. pages - 1,
         i < limit => \A a \in 0 .. pages - 1 :
                        f[i + 1][a] = FirstOf(Ahead(past, limit, pages, i + 1, a), limit, pages)
  PROVE  Round(past, limit, pages, f, i, acc)
           = FirstOf(Ahead(past, limit, pages, i, acc), limit, pages)
<1> DEFINE A(k, a) == Ahead(past, limit, pages, k, a)
           U(j) == IsUsed(past, j)
<1>1. CASE i >= limit
  <2>1. A(i, acc) = {}
    <3> SUFFICES ASSUME NEW p \in i - acc .. limit, p + pages <= limit PROVE FALSE
      BY DEF Ahead
    <3>. QED
      BY <1>1
  <2>2. i = limit
    BY <1>1
  <2>. QED
    BY <1>1, <2>1, <2>2 DEF Round, FirstOf
<1>2. CASE i < limit /\ U(i)
  <2>1. ASSUME NEW p \in i - acc .. limit, p + pages <= limit,
               \A j \in Span(p, pages) : j < i \/ ~U(j)
        PROVE  p >= i + 1
    <3> SUFFICES ASSUME p <= i PROVE FALSE
      BY <2>1
    <3>1. i \in Span(p, pages) /\ ~(i < i)
      BY <2>1 DEF Span
    <3>. QED
      BY <3>1, <2>1, <1>2
  <2>2. A(i, acc) \subseteq A(i + 1, 0)
    <3> SUFFICES ASSUME NEW p \in i - acc .. limit, p + pages <= limit,
                        \A j \in Span(p, pages) : j < i \/ ~U(j)
                 PROVE  p \in A(i + 1, 0)
      BY DEF Ahead
    <3>1. p >= i + 1
      BY <2>1
    <3>2. p \in (i + 1) - 0 .. limit
      BY <3>1
    <3>3. \A j \in Span(p, pages) : j < i + 1 \/ ~U(j)
      BY DEF Span
    <3>. QED
      BY <3>2, <3>3 DEF Ahead
  <2>3. A(i + 1, 0) \subseteq A(i, acc)
    <3> SUFFICES ASSUME NEW p \in (i + 1) - 0 .. limit, p + pages <= limit,
                        \A j \in Span(p, pages) : j < i + 1 \/ ~U(j)
                 PROVE  p \in A(i, acc)
      BY DEF Ahead
    <3>1. p \in i - acc .. limit
      OBVIOUS
    <3>2. \A j \in Span(p, pages) : ~(j < i + 1)
      BY DEF Span
    <3>. QED
      BY <3>1, <3>2 DEF Ahead
  <2>4. 0 \in 0 .. pages - 1 /\ ~(i >= limit)
    BY <1>2
  <2>5. A(i, acc) = A(i + 1, 0)
    BY <2>2, <2>3
  <2>6. Round(past, limit, pages, f, i, acc) = f[i + 1][0]
    BY <2>4, <1>2 DEF Round
  <2>. QED
    BY <2>4, <2>5, <2>6, <1>2
<1>3. CASE i < limit /\ ~U(i) /\ acc + 1 = pages
  <2> DEFINE p == i + 1 - pages
  <2>1. p \in A(i, acc)
    <3>1. p \in i - acc .. limit /\ p + pages <= limit /\ p + pages - 1 = i
      BY <1>3
    <3>2. \A j \in Span(p, pages) : j < i \/ j = i
      BY <3>1 DEF Span
    <3>. QED
      BY <3>1, <3>2, <1>3 DEF Ahead
  <2>2. A(i, acc) \in SUBSET Int
    BY DEF Ahead
  <2>3. \A q \in A(i, acc) : p <= q
    BY <1>3 DEF Ahead
  <2>4. FirstOf(A(i, acc), limit, pages) = [page |-> p, last |-> p + pages]
    <3> HIDE DEF A, p
    <3>. QED
      BY <2>1, <2>2, <2>3, FirstOfLeast
  <2>5. p + pages = i + 1 /\ ~(i >= limit)
    BY <1>3
  <2>. QED
    BY <2>4, <2>5, <1>3 DEF Round
<1>4. CASE i < limit /\ ~U(i) /\ acc + 1 # pages
  <2>1. acc + 1 \in 0 .. pages - 1 /\ (i + 1) - (acc + 1) = i - acc /\ ~(i >= limit)
    BY <1>4
  <2>2. ASSUME NEW j \in Int PROVE (j < i \/ ~U(j)) <=> (j < i + 1 \/ ~U(j))
    <3>1. j < i + 1 <=> (j < i \/ j = i)
      OBVIOUS
    <3> HIDE DEF U
    <3>. QED
      BY <3>1, <1>4
  <2>3. ASSUME NEW p \in i - acc .. limit
        PROVE  (\A j \in Span(p, pages) : j < i \/ ~U(j))
                 <=> (\A j \in Span(p, pages) : j < i + 1 \/ ~U(j))
    <3>1. Span(p, pages) \subseteq Int
      BY DEF Span
    <3> HIDE DEF U
    <3>. QED
      BY <3>1, <2>2
  <2>4. A(i, acc) = A(i + 1, acc + 1)
    BY <2>1, <2>3 DEF Ahead
  <2>. QED
    BY <2>1, <2>4, <1>4 DEF Round
<1>. QED
  BY <1>1, <1>2, <1>3, <1>4

LEMMA LoopIs ==
  ASSUME NEW past, NEW limit \in Nat, NEW pages \in Nat \ {0}, NEW from \in 0 .. limit,
         from < limit
  PROVE  InnerAllocLoop(past, from, limit, pages)
           = FirstOf(Ahead(past, limit, pages, from, 0), limit, pages)
<1> DEFINE F(i, acc) == FirstOf(Ahead(past, limit, pages, i, acc), limit, pages)
           Body(f) == [i \in 0 .. limit |->
                         [acc \in 0 .. pages - 1 |-> Round(past, limit, pages, f, i, acc)]]
           w == [i \in 0 .. limit |-> [acc \in 0 .. pages - 1 |-> F(i, acc)]]
           loop == CHOOSE f : f = Body(f)
<1>1. InnerAllocLoop(past, from, limit, pages) = loop[from][0]
  BY DEF InnerAllocLoop, Round
<1>2. \A i \in 0 .. limit, acc \in 0 .. pages - 1 : F(i, acc) = Round(past, limit, pages, w, i, acc)
  <2> TAKE i \in 0 .. limit, acc \in 0 .. pages - 1
  <2> HIDE DEF F
  <2>1. i < limit => \A a \in 0 .. pages - 1 : w[i + 1][a] = F(i + 1, a)
    OBVIOUS
  <2> HIDE DEF w
  <2>. QED
    BY <2>1, RoundFinds DEF F
<1> HIDE DEF F
<1>3. w = Body(w)
  <2> DEFINE g(i, acc) == Round(past, limit, pages, w, i, acc)
  <2>1. \A i \in 0 .. limit, acc \in 0 .. pages - 1 : F(i, acc) = g(i, acc)
    BY <1>2
  <2>2. Body(w) = [i \in 0 .. limit |-> [acc \in 0 .. pages - 1 |-> g(i, acc)]]
    OBVIOUS
  <2> HIDE DEF g
  <2>3. \A i \in 0 .. limit : [acc \in 0 .. pages - 1 |-> F(i, acc)] = [acc \in 0 .. pages - 1 |-> g(i, acc)]
    BY <2>1, Zenon
  <2>4. w = [i \in 0 .. limit |-> [acc \in 0 .. pages - 1 |-> g(i, acc)]]
    BY <2>3, Zenon
  <2>. QED
    BY <2>2, <2>4
<1>4. loop = Body(loop)
  BY <1>3, Zenon
<1> HIDE DEF loop, w
<1>5. \A i \in 0 .. limit, acc \in 0 .. pages - 1 :
        loop[i][acc] = Round(past, limit, pages, loop, i, acc)
  <2> DEFINE g(i, acc) == Round(past, limit, pages, loop, i, acc)
  <2>1. loop = [i \in 0 .. limit |-> [acc \in 0 .. pages - 1 |-> g(i, acc)]]
    BY <1>4
  <2> HIDE DEF g
  <2>2. \A i \in 0 .. limit, acc \in 0 .. pages - 1 : loop[i][acc] = g(i, acc)
    BY <2>1, Zenon
  <2>. QED
    BY <2>2 DEF g
<1> DEFINE T == {k \in 0 .. limit : \E acc \in 0 .. pages - 1 : loop[limit - k][acc] # F(limit - k, acc)}
<1>6. T = {}
  <2> SUFFICES ASSUME T # {} PROVE FALSE
    OBVIOUS
  <2>1. PICK x \in T : \A y \in T : x <= y
    <3>1. T \subseteq Nat
      OBVIOUS
    <3> HIDE DEF T
    <3>. QED
      BY <3>1, NatMin
  <2> DEFINE i == limit - x
  <2>2. x \in 0 .. limit /\ i \in 0 .. limit
    BY <2>1
  <2>3. PICK acc \in 0 .. pages - 1 : loop[i][acc] # F(i, acc)
    BY <2>1
  <2>4. i < limit => \A a \in 0 .. pages - 1 : loop[i + 1][a] = F(i + 1, a)
    <3> SUFFICES ASSUME i < limit PROVE \A a \in 0 .. pages - 1 : loop[i + 1][a] = F(i + 1, a)
      OBVIOUS
    <3>1. x - 1 \in 0 .. limit /\ ~(x <= x - 1) /\ limit - (x - 1) = i + 1
      BY <2>2
    <3>2. x - 1 \notin T
      <4> HIDE DEF T
      <4>. QED
        BY <3>1, <2>1
    <3>3. \A a \in 0 .. pages - 1 : loop[limit - (x - 1)][a] = F(limit - (x - 1), a)
      BY <3>1, <3>2
    <3>. QED
      BY <3>1, <3>3
  <2> HIDE DEF i
  <2>5. Round(past, limit, pages, loop, i, acc) = F(i, acc)
    BY <2>2, <2>3, <2>4, RoundFinds DEF F
  <2>. QED
    BY <2>2, <2>3, <2>5, <1>5
<1>7. loop[from][0] = F(from, 0)
  <2>1. limit - from \in 0 .. limit /\ limit - (limit - from) = from /\ 0 \in 0 .. pages - 1
    OBVIOUS
  <2>2. limit - from \notin T
    <3> HIDE DEF T
    <3>. QED
      BY <1>6
  <2>3. \A acc \in 0 .. pages - 1 : loop[limit - (limit - from)][acc] = F(limit - (limit - from), acc)
    BY <2>1, <2>2
  <2>. QED
    BY <2>1, <2>3
<1>. QED
  BY <1>1, <1>7 DEF F

LEMMA LoopFinds ==
  ASSUME NEW past, NEW from \in Nat, NEW limit \in Nat, NEW pages \in Nat \ {0}
  PROVE  InnerAlloc(past, from, limit, pages) = InnerAllocLoop(past, from, limit, pages)
<1> DEFINE runs == Runs(past, from, limit, pages)
<1>1. CASE from < limit
  <2>1. \A p \in from .. limit : \A j \in Span(p, pages) : ~(j < from)
    BY DEF Span
  <2>2. runs = Ahead(past, limit, pages, from, 0)
    BY <2>1 DEF Runs, Ahead
  <2>3. InnerAllocLoop(past, from, limit, pages) = FirstOf(runs, limit, pages)
    BY <1>1, <2>2, LoopIs
  <2>4. InnerAlloc(past, from, limit, pages) = FirstOf(runs, limit, pages)
    BY <1>1 DEF InnerAlloc, FirstOf
  <2>. QED
    BY <2>3, <2>4
<1>2. CASE ~(from < limit)
  <2>1. runs = {}
    BY <1>2 DEF Runs
  <2>. QED
    BY <1>2, <2>1 DEF InnerAlloc, InnerAllocLoop
<1>. QED
  BY <1>1, <1>2

(* The loop with its accumulator computes the first run, for any bitmap,   *)
(* any bits past its end, any starting point and any length.               *)
THEOREM LoopFindsFirstRunCorrect == Spec => []LoopFindsFirstRun
<1>1. IInv => LoopFindsFirstRun
  <2> SUFFICES ASSUME IInv, NEW pages \in 1 .. MaxPages, NEW past \in SUBSET PastBitmap,
                      NEW from \in {0, last_page_idx}, NEW limit \in {last_page_idx, Limit(size)}
               PROVE  InnerAlloc(past, from, limit, pages) = InnerAllocLoop(past, from, limit, pages)
    BY DEF LoopFindsFirstRun
  <2>1. size \in Nat /\ last_page_idx \in 0 .. Limit(size)
    BY DEF IInv, TypeOK
  <2>2. from \in Nat /\ limit \in Nat /\ pages \in Nat \ {0}
    BY <2>1, SizesAreNat, SizesArePositive
  <2>. QED
    BY <2>2, LoopFinds
<1>. QED
  BY <1>1, Invariance, PTL
=============================================================================
