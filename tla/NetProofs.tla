------------------------------ MODULE NetProofs ------------------------------
(***************************************************************************)
(* The rings of the network lose nothing and reorder nothing, for every    *)
(* number of descriptors, every size of the rings, every set of sockets    *)
(* and every workload.                                                     *)
(***************************************************************************)
EXTENDS Net, FiniteSetTheorems, SequenceTheorems, WellFoundedInduction, TLAPS

-----------------------------------------------------------------------------
(* A ring of n slots without the modulus: the slot after slot y, the       *)
(* number of items between tail t and head h, and the slot of item i.      *)
Inc(n, y) == IF y + 1 < n THEN y + 1 ELSE 0
Count(n, h, t) == IF h >= t THEN h - t ELSE h + n - t
Slot(n, t, i) == IF t + i - 1 < n THEN t + i - 1 ELSE t + i - 1 - n

LEMMA ModInc ==
  ASSUME NEW n \in Nat \ {0}, NEW y \in 0 .. n - 1
  PROVE  (y + 1) % n = Inc(n, y) /\ Inc(n, y) \in 0 .. n - 1
  BY DEF Inc

LEMMA ModCount ==
  ASSUME NEW n \in Nat \ {0}, NEW h \in 0 .. n - 1, NEW t \in 0 .. n - 1
  PROVE  (h + n - t) % n = Count(n, h, t) /\ Count(n, h, t) \in 0 .. n - 1
  BY DEF Count

LEMMA ModSlot ==
  ASSUME NEW n \in Nat \ {0}, NEW t \in 0 .. n - 1, NEW i \in 1 .. n
  PROVE  (t + i - 1) % n = Slot(n, t, i) /\ Slot(n, t, i) \in 0 .. n - 1
  BY DEF Slot

(* The head moves on, in a ring that is full and in one that is not. *)
LEMMA HeadMoves ==
  ASSUME NEW n \in Nat \ {0}, NEW h \in 0 .. n - 1, NEW t \in 0 .. n - 1
  PROVE  /\ Inc(n, h) = t =>
              /\ Count(n, h, t) = n - 1 /\ Count(n, Inc(n, h), Inc(n, t)) = n - 1
              /\ n > 1 => Slot(n, Inc(n, t), n - 1) = h
              /\ \A i \in 1 .. n - 2 : /\ Slot(n, Inc(n, t), i) = Slot(n, t, i + 1)
                                       /\ Slot(n, Inc(n, t), i) # h
         /\ Inc(n, h) # t =>
              /\ Count(n, Inc(n, h), t) = Count(n, h, t) + 1
              /\ Slot(n, t, Count(n, h, t) + 1) = h
              /\ \A i \in 1 .. Count(n, h, t) : Slot(n, t, i) # h
  BY DEF Inc, Count, Slot

(* The tail moves on, in a ring that is not empty. *)
LEMMA TailMoves ==
  ASSUME NEW n \in Nat \ {0}, NEW h \in 0 .. n - 1, NEW t \in 0 .. n - 1, h # t
  PROVE  /\ Count(n, h, t) > 0 /\ Count(n, h, Inc(n, t)) = Count(n, h, t) - 1
         /\ Slot(n, t, 1) = t
         /\ \A i \in 1 .. Count(n, h, t) - 1 : Slot(n, Inc(n, t), i) = Slot(n, t, i + 1)
  BY DEF Inc, Count, Slot

(* The rings of n slots. *)
Ring(n) ==
  [size : {n}, data : [0 .. n - 1 -> Nat], head : 0 .. n - 1, tail : 0 .. n - 1]

LEMMA ItemsOf ==
  ASSUME NEW n \in Nat \ {0, 1}, NEW r \in Ring(n)
  PROVE  LET c == Count(n, r.head, r.tail)
         IN  /\ c \in 0 .. n - 1
             /\ Items(r) = [i \in 1 .. c |-> r.data[Slot(n, r.tail, i)]]
             /\ Items(r) \in Seq(Nat) /\ Len(Items(r)) = c
             /\ \A i \in 1 .. c : Slot(n, r.tail, i) \in 0 .. n - 1
<1> DEFINE c == Count(n, r.head, r.tail)
<1>1. /\ r.size = n /\ r.head \in 0 .. n - 1 /\ r.tail \in 0 .. n - 1
      /\ r.data \in [0 .. n - 1 -> Nat]
  BY DEF Ring
<1>2. (r.head + r.size - r.tail) % r.size = c /\ c \in 0 .. n - 1
  BY <1>1, ModCount
<1> HIDE DEF c
<1>3. \A i \in 1 .. c : /\ Slot(n, r.tail, i) \in 0 .. n - 1
                        /\ (r.tail + i - 1) % r.size = Slot(n, r.tail, i)
  <2> TAKE i \in 1 .. c
  <2>1. i \in 1 .. n
    BY <1>2
  <2>. QED
    BY <1>1, <2>1, ModSlot
<1>4. Items(r) = [i \in 1 .. c |-> r.data[Slot(n, r.tail, i)]]
  <2>1. Items(r) = [i \in 1 .. c |-> r.data[(r.tail + i - 1) % r.size]]
    BY <1>2, Zenon DEF Items
  <2>. QED
    BY <2>1, <1>3, Zenon
<1>5. \A i \in 1 .. c : r.data[Slot(n, r.tail, i)] \in Nat
  BY <1>1, <1>3
<1>6. Items(r) \in Seq(Nat) /\ Len(Items(r)) = c
  BY <1>2, <1>4, <1>5
<1>. QED
  BY <1>2, <1>3, <1>4, <1>6 DEF c

(* Ringbuffer::write appends, and drops the oldest item of a full ring. *)
LEMMA WriteItems ==
  ASSUME NEW n \in Nat \ {0, 1}, NEW r \in Ring(n), NEW x \in Nat
  PROVE  LET w == RingWrite(r, x)
             c == Len(Items(r))
         IN  /\ w \in Ring(n)
             /\ IsFull(r) =>
                  /\ c > 0 /\ Oldest(r) = Items(r)[1]
                  /\ Len(Items(w)) = c /\ Items(w)[c] = x
                  /\ \A i \in 1 .. c - 1 : Items(w)[i] = Items(r)[i + 1]
             /\ ~IsFull(r) =>
                  /\ Len(Items(w)) = c + 1 /\ Items(w)[c + 1] = x
                  /\ \A i \in 1 .. c : Items(w)[i] = Items(r)[i]
<1> DEFINE w == RingWrite(r, x)
           c == Count(n, r.head, r.tail)
           d == Count(n, w.head, w.tail)
<1>1. /\ r.size = n /\ r.head \in 0 .. n - 1 /\ r.tail \in 0 .. n - 1
      /\ r.data \in [0 .. n - 1 -> Nat]
  BY DEF Ring
<1>2. /\ (r.head + 1) % n = Inc(n, r.head) /\ Inc(n, r.head) \in 0 .. n - 1
      /\ (r.tail + 1) % n = Inc(n, r.tail) /\ Inc(n, r.tail) \in 0 .. n - 1
  BY <1>1, ModInc
<1>3. IsFull(r) <=> Inc(n, r.head) = r.tail
  BY <1>1, <1>2 DEF IsFull
<1>4. /\ w.size = n /\ w.head = Inc(n, r.head)
      /\ w.tail = IF IsFull(r) THEN Inc(n, r.tail) ELSE r.tail
      /\ w.data = [r.data EXCEPT ![r.head] = x]
      /\ w \in Ring(n)
  <2>1. /\ w.size = n /\ w.head = Inc(n, r.head)
        /\ w.tail = IF IsFull(r) THEN Inc(n, r.tail) ELSE r.tail
        /\ w.data = [r.data EXCEPT ![r.head] = x]
    BY <1>1, <1>2 DEF RingWrite, Ring
  <2>2. w = [size |-> w.size, data |-> w.data, head |-> w.head, tail |-> w.tail]
    BY DEF RingWrite
  <2>3. w.data \in [0 .. n - 1 -> Nat] /\ w.head \in 0 .. n - 1 /\ w.tail \in 0 .. n - 1
    BY <2>1, <1>1, <1>2
  <2> HIDE DEF w
  <2>. QED
    BY <2>1, <2>2, <2>3 DEF Ring
<1> HIDE DEF w
<1>5. /\ c \in 0 .. n - 1 /\ Len(Items(r)) = c
      /\ Items(r) = [i \in 1 .. c |-> r.data[Slot(n, r.tail, i)]]
      /\ \A i \in 1 .. c : Slot(n, r.tail, i) \in 0 .. n - 1
  BY ItemsOf
<1>6. /\ d \in 0 .. n - 1 /\ Len(Items(w)) = d
      /\ Items(w) = [i \in 1 .. d |-> w.data[Slot(n, w.tail, i)]]
      /\ \A i \in 1 .. d : Slot(n, w.tail, i) \in 0 .. n - 1
  BY <1>4, ItemsOf
<1> SUFFICES
      /\ IsFull(r) =>
           /\ c > 0 /\ Oldest(r) = Items(r)[1]
           /\ d = c /\ Items(w)[c] = x
           /\ \A i \in 1 .. c - 1 : Items(w)[i] = Items(r)[i + 1]
      /\ ~IsFull(r) =>
           /\ d = c + 1 /\ Items(w)[c + 1] = x
           /\ \A i \in 1 .. c : Items(w)[i] = Items(r)[i]
  BY <1>4, <1>5, <1>6 DEF w
<1>7. CASE IsFull(r)
  <2>1. /\ c = n - 1 /\ d = n - 1
        /\ Slot(n, w.tail, n - 1) = r.head
        /\ \A i \in 1 .. n - 2 : /\ Slot(n, w.tail, i) = Slot(n, r.tail, i + 1)
                                 /\ Slot(n, w.tail, i) # r.head
    <3>1. w.tail = Inc(n, r.tail) /\ w.head = Inc(n, r.head) /\ Inc(n, r.head) = r.tail
      BY <1>3, <1>4, <1>7
    <3>. QED
      BY <1>1, <3>1, HeadMoves
  <2>2. Slot(n, r.tail, 1) = r.tail
    BY <1>1 DEF Slot
  <2> HIDE DEF c, d
  <2>3. Items(w)[c] = x
    <3>1. c \in 1 .. d
      BY <2>1
    <3>2. Items(w)[c] = w.data[r.head]
      BY <3>1, <2>1, <1>6
    <3>. QED
      BY <3>2, <1>1, <1>4
  <2>4. ASSUME NEW i \in 1 .. c - 1 PROVE Items(w)[i] = Items(r)[i + 1]
    <3>1. i \in 1 .. d /\ i + 1 \in 1 .. c /\ i \in 1 .. n - 2
      BY <2>1
    <3>2. Items(w)[i] = w.data[Slot(n, w.tail, i)] /\ Items(r)[i + 1] = r.data[Slot(n, r.tail, i + 1)]
      BY <3>1, <1>5, <1>6
    <3>3. /\ Slot(n, w.tail, i) \in 0 .. n - 1 /\ Slot(n, w.tail, i) = Slot(n, r.tail, i + 1)
          /\ Slot(n, w.tail, i) # r.head
      BY <3>1, <1>6, <2>1
    <3>. QED
      BY <3>2, <3>3, <1>1, <1>4
  <2>5. c > 0 /\ Oldest(r) = Items(r)[1]
    BY <1>5, <2>1, <2>2 DEF Oldest
  <2>. QED
    BY <1>7, <2>1, <2>3, <2>4, <2>5
<1>8. CASE ~IsFull(r)
  <2>1. /\ d = c + 1 /\ w.tail = r.tail
        /\ Slot(n, w.tail, c + 1) = r.head
        /\ \A i \in 1 .. c : Slot(n, w.tail, i) # r.head
    BY <1>1, <1>3, <1>4, <1>8, HeadMoves
  <2> HIDE DEF c, d
  <2>3. Items(w)[c + 1] = x
    <3>1. c + 1 \in 1 .. d
      BY <2>1, <1>5
    <3>2. Items(w)[c + 1] = w.data[r.head]
      BY <3>1, <2>1, <1>6
    <3>. QED
      BY <3>2, <1>1, <1>4
  <2>4. ASSUME NEW i \in 1 .. c PROVE Items(w)[i] = Items(r)[i]
    <3>1. i \in 1 .. d
      BY <2>1, <1>5
    <3>2. Items(w)[i] = w.data[Slot(n, r.tail, i)] /\ Items(r)[i] = r.data[Slot(n, r.tail, i)]
      BY <3>1, <2>1, <1>5, <1>6
    <3>3. Slot(n, r.tail, i) \in 0 .. n - 1 /\ Slot(n, r.tail, i) # r.head
      BY <1>5, <2>1
    <3>. QED
      BY <3>2, <3>3, <1>1, <1>4
  <2>. QED
    BY <1>8, <2>1, <2>3, <2>4
<1>. QED
  BY <1>7, <1>8

(* Ringbuffer::read takes the oldest item. *)
LEMMA ReadItems ==
  ASSUME NEW n \in Nat \ {0, 1}, NEW r \in Ring(n), ~IsEmpty(r)
  PROVE  LET w == RingRead(r)
             c == Len(Items(r))
         IN  /\ w \in Ring(n)
             /\ c > 0 /\ Oldest(r) = Items(r)[1]
             /\ Len(Items(w)) = c - 1
             /\ \A i \in 1 .. c - 1 : Items(w)[i] = Items(r)[i + 1]
<1> DEFINE w == RingRead(r)
           c == Count(n, r.head, r.tail)
           d == Count(n, w.head, w.tail)
<1>1. /\ r.size = n /\ r.head \in 0 .. n - 1 /\ r.tail \in 0 .. n - 1
      /\ r.data \in [0 .. n - 1 -> Nat]
  BY DEF Ring
<1>2. (r.tail + 1) % n = Inc(n, r.tail) /\ Inc(n, r.tail) \in 0 .. n - 1
  BY <1>1, ModInc
<1>4. /\ w.size = n /\ w.head = r.head /\ w.tail = Inc(n, r.tail) /\ w.data = r.data
      /\ w \in Ring(n)
  <2>1. /\ w.size = n /\ w.head = r.head /\ w.tail = Inc(n, r.tail) /\ w.data = r.data
    BY <1>1, <1>2 DEF RingRead, Ring
  <2>2. w = [size |-> w.size, data |-> w.data, head |-> w.head, tail |-> w.tail]
    BY DEF RingRead, Ring
  <2> HIDE DEF w
  <2>. QED
    BY <2>1, <2>2, <1>1, <1>2 DEF Ring
<1> HIDE DEF w
<1>5. /\ c \in 0 .. n - 1 /\ Len(Items(r)) = c
      /\ Items(r) = [i \in 1 .. c |-> r.data[Slot(n, r.tail, i)]]
  BY ItemsOf
<1>6. /\ d \in 0 .. n - 1 /\ Len(Items(w)) = d
      /\ Items(w) = [i \in 1 .. d |-> w.data[Slot(n, w.tail, i)]]
  BY <1>4, ItemsOf
<1>7. /\ c > 0 /\ d = c - 1
      /\ Slot(n, r.tail, 1) = r.tail
      /\ \A i \in 1 .. c - 1 : Slot(n, w.tail, i) = Slot(n, r.tail, i + 1)
  <2>1. r.head # r.tail
    BY DEF IsEmpty
  <2>2. n \in Nat \ {0}
    OBVIOUS
  <2>3. /\ c > 0 /\ Count(n, r.head, Inc(n, r.tail)) = c - 1
        /\ Slot(n, r.tail, 1) = r.tail
        /\ \A i \in 1 .. c - 1 : Slot(n, Inc(n, r.tail), i) = Slot(n, r.tail, i + 1)
    BY <1>1, <2>1, <2>2, TailMoves
  <2>. QED
    BY <2>3, <1>4
<1> HIDE DEF c, d
<1>8. ASSUME NEW i \in 1 .. c - 1 PROVE Items(w)[i] = Items(r)[i + 1]
  <2>1. i \in 1 .. d /\ i + 1 \in 1 .. c
    BY <1>5, <1>7
  <2>2. Items(w)[i] = w.data[Slot(n, w.tail, i)] /\ Items(r)[i + 1] = r.data[Slot(n, r.tail, i + 1)]
    BY <2>1, <1>5, <1>6
  <2>3. Slot(n, w.tail, i) = Slot(n, r.tail, i + 1)
    BY <1>7
  <2>. QED
    BY <2>2, <2>3, <1>4, Zenon
<1>9. Oldest(r) = Items(r)[1]
  BY <1>5, <1>7 DEF Oldest
<1>. QED
  BY <1>4, <1>5, <1>6, <1>7, <1>8, <1>9 DEF w
-----------------------------------------------------------------------------
(* Rings as sets.  The items of every ring grow: a buffer's number is      *)
(* larger than those made before it.                                       *)
Increasing(s) == \A i, j \in 1 .. Len(s) : i < j => s[i] < s[j]

LEMMA WriteRing ==
  ASSUME NEW n \in Nat \ {0, 1}, NEW r \in Ring(n), NEW x \in Nat,
         Increasing(Items(r)), \A y \in InRing(r) : y < x
  PROVE  LET w == RingWrite(r, x)
         IN  /\ w \in Ring(n) /\ Increasing(Items(w))
             /\ Overwritten(r) \subseteq InRing(r)
             /\ InRing(w) = (InRing(r) \ Overwritten(r)) \cup {x}
<1> DEFINE w == RingWrite(r, x)
           s == Items(r)
           t == Items(w)
           c == Len(s)
<1>1. /\ w \in Ring(n)
      /\ IsFull(r) => /\ c > 0 /\ Oldest(r) = s[1] /\ Len(t) = c /\ t[c] = x
                      /\ \A i \in 1 .. c - 1 : t[i] = s[i + 1]
      /\ ~IsFull(r) => Len(t) = c + 1 /\ t[c + 1] = x /\ \A i \in 1 .. c : t[i] = s[i]
  BY WriteItems
<1>2. s \in Seq(Nat) /\ t \in Seq(Nat) /\ c \in Nat
  BY <1>1, ItemsOf
<1>3. InRing(r) = {s[i] : i \in 1 .. c} /\ InRing(w) = {t[i] : i \in 1 .. Len(t)}
  <2>1. DOMAIN s = 1 .. c /\ DOMAIN t = 1 .. Len(t)
    BY <1>2
  <2>. QED
    BY <2>1, Zenon DEF InRing
<1>4. Overwritten(r) = IF IsFull(r) THEN {Oldest(r)} ELSE {}
  BY DEF Overwritten
<1> HIDE DEF w, s, t
<1>5. /\ \A i, j \in 1 .. c : i < j => s[i] < s[j]
      /\ \A i \in 1 .. c : s[i] < x /\ s[i] \in Nat
  <2>1. \A i \in 1 .. c : s[i] \in InRing(r) /\ s[i] \in Nat
    BY <1>2, <1>3
  <2>2. \A i, j \in 1 .. c : i < j => s[i] < s[j]
    BY DEF Increasing, s
  <2>. QED
    BY <2>1, <2>2
<1>6. CASE IsFull(r)
  <2>1. Increasing(t)
    <3> SUFFICES ASSUME NEW i \in 1 .. c, NEW j \in 1 .. c, i < j PROVE t[i] < t[j]
      BY <1>1, <1>6 DEF Increasing
    <3>1. i \in 1 .. c - 1 /\ i + 1 \in 1 .. c /\ t[i] = s[i + 1]
      BY <1>1, <1>2, <1>6
    <3>2. CASE j = c
      BY <3>1, <3>2, <1>1, <1>5, <1>6
    <3>3. CASE j # c
      <4>1. j \in 1 .. c - 1 /\ j + 1 \in 1 .. c /\ i + 1 < j + 1 /\ t[j] = s[j + 1]
        BY <3>3, <1>1, <1>2, <1>6
      <4>. QED
        BY <4>1, <3>1, <1>5
    <3>. QED
      BY <3>2, <3>3
  <2>2. Overwritten(r) = {s[1]} /\ 1 \in 1 .. c
    BY <1>1, <1>2, <1>4, <1>6
  <2>3. \A y \in InRing(w) : y \in (InRing(r) \ {s[1]}) \cup {x}
    <3> SUFFICES ASSUME NEW i \in 1 .. c PROVE t[i] \in (InRing(r) \ {s[1]}) \cup {x}
      BY <1>1, <1>3, <1>6
    <3>1. CASE i = c
      BY <3>1, <1>1, <1>6
    <3>2. CASE i # c
      <4>1. i \in 1 .. c - 1 /\ i + 1 \in 1 .. c /\ 1 < i + 1
        BY <3>2, <1>2
      <4>2. t[i] = s[i + 1] /\ s[1] < s[i + 1]
        BY <4>1, <2>2, <1>1, <1>5, <1>6
      <4>3. s[i + 1] \in InRing(r)
        BY <4>1, <1>3
      <4>4. s[1] \in Nat /\ s[i + 1] \in Nat
        BY <4>1, <2>2, <1>5
      <4>. QED
        BY <4>2, <4>3, <4>4
    <3>. QED
      BY <3>1, <3>2
  <2>4. \A y \in (InRing(r) \ {s[1]}) \cup {x} : y \in InRing(w)
    <3>1. x \in InRing(w)
      <4>1. c \in 1 .. Len(t)
        BY <1>1, <1>2, <1>6
      <4>. QED
        BY <4>1, <1>1, <1>3, <1>6
    <3>2. ASSUME NEW i \in 1 .. c, s[i] # s[1] PROVE s[i] \in InRing(w)
      <4>1. i - 1 \in 1 .. c - 1 /\ (i - 1) + 1 = i /\ i - 1 \in 1 .. c
        BY <3>2, <1>2
      <4>2. t[i - 1] = s[i]
        BY <4>1, <1>1, <1>6
      <4>. QED
        BY <4>1, <4>2, <1>1, <1>3, <1>6
    <3>. QED
      BY <3>1, <3>2, <1>3
  <2>5. InRing(w) = (InRing(r) \ {s[1]}) \cup {x}
    BY <2>3, <2>4
  <2>6. s[1] \in InRing(r)
    BY <2>2, <1>3
  <2>. QED
    BY <1>1, <2>1, <2>2, <2>5, <2>6 DEF t, w
<1>7. CASE ~IsFull(r)
  <2>1. Increasing(t)
    <3> SUFFICES ASSUME NEW i \in 1 .. c + 1, NEW j \in 1 .. c + 1, i < j PROVE t[i] < t[j]
      BY <1>1, <1>7 DEF Increasing
    <3>1. i \in 1 .. c
      BY <1>2
    <3>2. t[i] = s[i] /\ s[i] < x
      BY <3>1, <1>1, <1>5, <1>7
    <3>3. CASE j = c + 1
      BY <3>2, <3>3, <1>1, <1>7
    <3>4. CASE j # c + 1
      <4>1. j \in 1 .. c
        BY <3>4, <1>2
      <4>2. t[j] = s[j] /\ s[i] < s[j]
        BY <4>1, <3>1, <1>1, <1>5, <1>7
      <4>. QED
        BY <4>2, <3>2
    <3>. QED
      BY <3>3, <3>4
  <2>2. \A y \in InRing(w) : y \in InRing(r) \cup {x}
    <3> SUFFICES ASSUME NEW i \in 1 .. c + 1 PROVE t[i] \in InRing(r) \cup {x}
      BY <1>1, <1>3, <1>7
    <3>1. i = c + 1 \/ i \in 1 .. c
      BY <1>2
    <3>. QED
      BY <3>1, <1>1, <1>3, <1>7
  <2>3. \A y \in InRing(r) \cup {x} : y \in InRing(w)
    <3>1. c + 1 \in 1 .. Len(t) /\ \A i \in 1 .. c : i \in 1 .. Len(t)
      BY <1>1, <1>2, <1>7
    <3>2. x \in InRing(w)
      BY <3>1, <1>1, <1>3, <1>7
    <3>3. ASSUME NEW i \in 1 .. c PROVE s[i] \in InRing(w)
      BY <3>1, <1>1, <1>3, <1>7
    <3>. QED
      BY <3>2, <3>3, <1>3
  <2>4. InRing(w) = (InRing(r) \ {}) \cup {x}
    BY <2>2, <2>3
  <2>. QED
    BY <1>1, <1>4, <1>7, <2>1, <2>4 DEF t, w
<1>. QED
  BY <1>6, <1>7

LEMMA ReadRing ==
  ASSUME NEW n \in Nat \ {0, 1}, NEW r \in Ring(n), ~IsEmpty(r), Increasing(Items(r))
  PROVE  LET w == RingRead(r)
         IN  /\ w \in Ring(n) /\ Increasing(Items(w))
             /\ Oldest(r) \in InRing(r)
             /\ InRing(w) = InRing(r) \ {Oldest(r)}
             /\ \A y \in InRing(w) : Oldest(r) < y
<1> DEFINE w == RingRead(r)
           s == Items(r)
           t == Items(w)
           c == Len(s)
<1>1. /\ w \in Ring(n) /\ c > 0 /\ Oldest(r) = s[1] /\ Len(t) = c - 1
      /\ \A i \in 1 .. c - 1 : t[i] = s[i + 1]
  BY ReadItems
<1>2. s \in Seq(Nat) /\ t \in Seq(Nat) /\ c \in Nat
  BY <1>1, ItemsOf
<1>3. InRing(r) = {s[i] : i \in 1 .. c} /\ InRing(w) = {t[i] : i \in 1 .. c - 1}
  <2>1. DOMAIN s = 1 .. c /\ DOMAIN t = 1 .. c - 1
    BY <1>1, <1>2
  <2>. QED
    BY <2>1, Zenon DEF InRing
<1> HIDE DEF w, s, t
<1>4. /\ \A i, j \in 1 .. c : i < j => s[i] < s[j]
      /\ \A i \in 1 .. c : s[i] \in Nat
      /\ 1 \in 1 .. c
  BY <1>1, <1>2 DEF Increasing, s
<1>5. Increasing(t)
  <2> SUFFICES ASSUME NEW i \in 1 .. c - 1, NEW j \in 1 .. c - 1, i < j PROVE t[i] < t[j]
    BY <1>1 DEF Increasing
  <2>1. i + 1 \in 1 .. c /\ j + 1 \in 1 .. c /\ i + 1 < j + 1
    BY <1>2
  <2>2. t[i] = s[i + 1] /\ t[j] = s[j + 1]
    BY <1>1
  <2>. QED
    BY <2>1, <2>2, <1>4
<1>6. s[1] \in InRing(r)
  BY <1>3, <1>4
<1>7. \A y \in InRing(w) : y \in InRing(r) \ {s[1]} /\ s[1] < y
  <2> SUFFICES ASSUME NEW i \in 1 .. c - 1 PROVE t[i] \in InRing(r) \ {s[1]} /\ s[1] < t[i]
    BY <1>3
  <2>1. i + 1 \in 1 .. c /\ 1 < i + 1
    BY <1>2
  <2>2. t[i] = s[i + 1] /\ s[1] < s[i + 1] /\ s[1] \in Nat /\ s[i + 1] \in Nat
    BY <2>1, <1>1, <1>4
  <2>. QED
    BY <2>1, <2>2, <1>3
<1>8. \A y \in InRing(r) \ {s[1]} : y \in InRing(w)
  <2> SUFFICES ASSUME NEW i \in 1 .. c, s[i] # s[1] PROVE s[i] \in InRing(w)
    BY <1>3
  <2>1. i - 1 \in 1 .. c - 1 /\ (i - 1) + 1 = i
    BY <1>2
  <2>2. t[i - 1] = s[i]
    BY <2>1, <1>1
  <2>. QED
    BY <2>1, <2>2, <1>3
<1>9. InRing(w) = InRing(r) \ {s[1]}
  BY <1>7, <1>8
<1>. QED
  BY <1>1, <1>5, <1>6, <1>7, <1>9 DEF w, t

(* No number is in a ring twice. *)
LEMMA RingCardinality ==
  ASSUME NEW n \in Nat \ {0, 1}, NEW r \in Ring(n), Increasing(Items(r))
  PROVE  Cardinality(InRing(r)) = Len(Items(r))
<1> DEFINE s == Items(r)
           c == Len(s)
<1>1. s \in Seq(Nat) /\ c \in Nat
  BY ItemsOf
<1>2. InRing(r) = {s[i] : i \in 1 .. c}
  BY <1>1 DEF InRing
<1>3. \A i, j \in 1 .. c : s[i] = s[j] => i = j
  <2> SUFFICES ASSUME NEW i \in 1 .. c, NEW j \in 1 .. c, i # j PROVE s[i] # s[j]
    OBVIOUS
  <2>1. i < j \/ j < i
    BY <1>1
  <2>2. s[i] \in Nat /\ s[j] \in Nat
    BY <1>1
  <2>3. s[i] < s[j] \/ s[j] < s[i]
    BY <2>1 DEF Increasing
  <2>. QED
    BY <2>2, <2>3
<1> HIDE DEF s
<1>4. s \in [1 .. c -> InRing(r)]
  BY <1>1, <1>2
<1>5. s \in Bijection(1 .. c, InRing(r))
  BY <1>2, <1>3, <1>4 DEF Bijection, Injection, Surjection, IsInjective
<1>6. IsFiniteSet(1 .. c) /\ Cardinality(1 .. c) = c
  <2>1. 1 \in Int /\ c \in Int /\ (IF 1 > c THEN 0 ELSE c - 1 + 1) = c
    BY <1>1
  <2>. QED
    BY <2>1, FS_Interval
<1>7. ExistsBijection(1 .. c, InRing(r))
  BY <1>5 DEF ExistsBijection
<1>. QED
  BY <1>6, <1>7, FS_Bijection DEF s
-----------------------------------------------------------------------------
(* The memory of packets.  Types: *)
Kinds == {"long", "other", "icmp"} \cup Ports

Buffer == [frame : Nat, alive : BOOLEAN]

PacketTypes ==
  /\ load \in Workloads /\ wire \in Seq(Kinds)
  /\ rdh \in RxIndex /\ rdt \in RxIndex
  /\ rxd \in [RxIndex -> [done : BOOLEAN, frame : Nat]]
  /\ bufs \in Seq(Buffer)
  /\ cache \in Ring(CacheSize)
  /\ packets \in [Sockets -> Ring(PacketsSize)]
  /\ given \in [UdpSockets -> Seq(Nat)] /\ got \in [UdpSockets -> Seq(Nat)]

AliveIn(bs) == {b \in DOMAIN bs : bs[b].alive}
Alive == AliveIn(bufs)
Held == [h \in Holders |-> InRing(RingOf(h))]

(* Every buffer in use has one pointer to it. *)
BuffersHeld ==
  /\ \A h \in Holders : Increasing(Items(RingOf(h)))
  /\ \A h, k \in Holders : h # k => Held[h] \cap Held[k] = {}
  /\ Alive \ leaked = UNION {Held[h] : h \in Holders}
  /\ leaked \subseteq Alive

(* What a UDP socket was given is read, in its ring, or leaked.  No other  *)
(* ring has a pointer to it.                                               *)
QueuesKept ==
  /\ \A s \in UdpSockets :
       /\ Elements(given[s]) \subseteq DOMAIN bufs
       /\ Elements(given[s]) \cap Held["cache"] = {}
       /\ Elements(got[s]) \cup Held[s] = Elements(given[s]) \ leaked
       /\ Increasing(got[s])
       /\ \A x \in Elements(got[s]), y \in Held[s] : x < y
  /\ \A s, u \in UdpSockets : s # u => Elements(given[s]) \cap Elements(given[u]) = {}

PacketInv == PacketTypes /\ BuffersHeld /\ QueuesKept

(* In a family R of disjoint sets over H, O leaves the set of g and X,     *)
(* which is in none of them, joins it.                                     *)
Changes(H, R, Q, g, O, X) ==
  /\ g \in H
  /\ \A h, k \in H : h # k => R[h] \cap R[k] = {}
  /\ O \subseteq R[g] /\ Q[g] = (R[g] \ O) \cup X
  /\ \A h \in H \ {g} : Q[h] = R[h]
  /\ X \cap (UNION {R[h] : h \in H}) = {}

LEMMA FamilyChange ==
  ASSUME NEW H, NEW R, NEW Q, NEW g, NEW O, NEW X, Changes(H, R, Q, g, O, X)
  PROVE  /\ \A h, k \in H : h # k => Q[h] \cap Q[k] = {}
         /\ (UNION {Q[h] : h \in H}) = ((UNION {R[h] : h \in H}) \ O) \cup X
<1> USE DEF Changes
<1>1. \A h \in H \ {g} : R[h] \cap O = {} /\ R[h] \cap X = {} /\ R[h] \cap R[g] = {}
  OBVIOUS
<1>2. ASSUME NEW h \in H, NEW k \in H, h # k PROVE Q[h] \cap Q[k] = {}
  <2>1. CASE h # g /\ k # g
    BY <2>1, <1>2
  <2>2. CASE h = g
    BY <2>2, <1>1, <1>2
  <2>3. CASE k = g
    BY <2>3, <1>1, <1>2
  <2>. QED
    BY <2>1, <2>2, <2>3
<1>3. ASSUME NEW x PROVE (\E h \in H : x \in Q[h]) <=> ((\E h \in H : x \in R[h]) /\ x \notin O) \/ x \in X
  <2>1. CASE x \in Q[g]
    BY <2>1
  <2>2. CASE x \notin Q[g]
    BY <2>2, <1>1
  <2>. QED
    BY <2>1, <2>2
<1>. QED
  BY <1>2, <1>3

(* Appending a new largest number. *)
LEMMA AppendElements ==
  ASSUME NEW s \in Seq(Nat), NEW x \in Nat
  PROVE  /\ Append(s, x) \in Seq(Nat)
         /\ Elements(Append(s, x)) = Elements(s) \cup {x}
         /\ Increasing(s) /\ (\A y \in Elements(s) : y < x) => Increasing(Append(s, x))
<1> DEFINE t == Append(s, x)
           c == Len(s)
<1>1. /\ t \in Seq(Nat) /\ c \in Nat /\ Len(t) = c + 1 /\ t[c + 1] = x
      /\ \A i \in 1 .. c : t[i] = s[i]
  <2>1. c \in Nat /\ DOMAIN s = 1 .. c
    OBVIOUS
  <2>2. t \in Seq(Nat) /\ Len(t) = c + 1
    OBVIOUS
  <2>3. t[c + 1] = x
    OBVIOUS
  <2>4. ASSUME NEW i \in 1 .. c PROVE t[i] = s[i]
    BY <2>1
  <2>. QED
    BY <2>1, <2>2, <2>3, <2>4
<1>2. DOMAIN s = 1 .. c /\ DOMAIN t = 1 .. c + 1
  BY <1>1
<1> HIDE DEF t
<1>3. \A i : i \in 1 .. c + 1 <=> (i \in 1 .. c \/ i = c + 1)
  BY <1>1
<1>4. Elements(t) = Elements(s) \cup {x}
  <2> HIDE DEF c
  <2>. QED
    BY <1>1, <1>2, <1>3 DEF Elements
<1>5. ASSUME Increasing(s), \A y \in Elements(s) : y < x PROVE Increasing(t)
  <2> SUFFICES ASSUME NEW i \in 1 .. c + 1, NEW j \in 1 .. c + 1, i < j PROVE t[i] < t[j]
    BY <1>1 DEF Increasing
  <2>1. i \in 1 .. c /\ t[i] = s[i] /\ s[i] \in Elements(s)
    <3>1. i \in 1 .. c
      BY <1>1
    <3>. QED
      BY <3>1, <1>1, <1>2 DEF Elements
  <2>2. CASE j = c + 1
    BY <2>1, <2>2, <1>1, <1>5
  <2>3. CASE j # c + 1
    <3>1. j \in 1 .. c
      BY <2>3, <1>3
    <3>2. t[j] = s[j]
      BY <3>1, <1>1
    <3>. QED
      BY <3>1, <3>2, <2>1, <1>5 DEF Increasing
  <2>. QED
    BY <2>2, <2>3
<1>. QED
  BY <1>1, <1>4, <1>5 DEF t

(* What the invariant says of one holder. *)
LEMMA HolderFacts ==
  ASSUME PacketInv, NEW h \in Holders
  PROVE  /\ Held[h] = InRing(RingOf(h)) /\ Increasing(Items(RingOf(h)))
         /\ Held[h] \subseteq Alive \ leaked
         /\ \A y \in Held[h] : y \in DOMAIN bufs /\ y < Len(bufs) + 1
         /\ RingOf(h) \in Ring(IF h = "cache" THEN CacheSize ELSE PacketsSize)
<1>1. Held[h] = InRing(RingOf(h)) /\ Increasing(Items(RingOf(h)))
  BY DEF PacketInv, BuffersHeld, Held
<1>2. Held[h] \subseteq Alive \ leaked
  BY DEF PacketInv, BuffersHeld
<1>3. \A y \in DOMAIN bufs : y < Len(bufs) + 1
  BY DEF PacketInv, PacketTypes
<1>4. Alive \subseteq DOMAIN bufs
  BY DEF Alive, AliveIn
<1>5. RingOf(h) \in Ring(IF h = "cache" THEN CacheSize ELSE PacketsSize)
  BY DEF PacketInv, PacketTypes, RingOf, Holders, Sockets
<1>. QED
  BY <1>1, <1>2, <1>3, <1>4, <1>5

LEMMA PacketInit == Init => PacketInv
<1> SUFFICES ASSUME Init PROVE PacketInv
  OBVIOUS
<1> USE NetAssumption
<1>1. \A n \in Nat \ {0, 1} : /\ NewRing(n) \in Ring(n)
                              /\ Items(NewRing(n)) = <<>> /\ InRing(NewRing(n)) = {}
  <2> TAKE n \in Nat \ {0, 1}
  <2>1. NewRing(n) \in Ring(n) /\ NewRing(n).head = 0 /\ NewRing(n).tail = 0
    BY DEF NewRing, Ring
  <2>2. Count(n, 0, 0) = 0
    BY DEF Count
  <2>3. Items(NewRing(n)) \in Seq(Nat) /\ Len(Items(NewRing(n))) = 0
    BY <2>1, <2>2, ItemsOf
  <2>. QED
    BY <2>1, <2>3 DEF InRing
<1>2. PacketTypes
  BY <1>1 DEF Init, PacketTypes, RxIndex, Kinds
<1>3. \A h \in Holders : Items(RingOf(h)) = <<>> /\ Held[h] = {}
  BY <1>1 DEF Init, Holders, RingOf, Held, Sockets
<1>4. Alive = {} /\ leaked = {}
  BY DEF Init, Alive, AliveIn
<1>5. BuffersHeld
  <2>1. \A h \in Holders : Increasing(Items(RingOf(h)))
    BY <1>3 DEF Increasing
  <2>. QED
    BY <2>1, <1>3, <1>4 DEF BuffersHeld
<1>6. QueuesKept
  <2>1. \A s \in UdpSockets : /\ given[s] = <<>> /\ got[s] = <<>> /\ s \in Holders
                              /\ "cache" \in Holders
    BY DEF Init, Holders
  <2>2. Elements(<<>>) = {} /\ Increasing(<<>>)
    BY DEF Elements, Increasing
  <2>. QED
    BY <2>1, <2>2, <1>3 DEF QueuesKept
<1>. QED
  BY <1>2, <1>5, <1>6 DEF PacketInv

-----------------------------------------------------------------------------
(* A buffer is made, a buffer is deleted. *)
LEMMA MakeBuffer ==
  ASSUME NEW bs \in Seq(Buffer), NEW f \in Nat
  PROVE  LET new == Append(bs, [frame |-> f, alive |-> TRUE])
         IN  /\ new \in Seq(Buffer) /\ Len(bs) + 1 \in Nat
             /\ DOMAIN new = DOMAIN bs \cup {Len(bs) + 1}
             /\ AliveIn(new) = AliveIn(bs) \cup {Len(bs) + 1}
             /\ Len(bs) + 1 \notin DOMAIN bs
<1> DEFINE e == [frame |-> f, alive |-> TRUE]
           new == Append(bs, e)
           c == Len(bs)
<1>1. e \in Buffer /\ e.alive
  BY DEF Buffer
<1> HIDE DEF e
<1>2. c \in Nat /\ DOMAIN bs = 1 .. c
  OBVIOUS
<1>3. new \in Seq(Buffer) /\ Len(new) = c + 1
  BY <1>1
<1>4. new[c + 1] = e
  BY <1>1
<1>5. ASSUME NEW i \in 1 .. c PROVE new[i] = bs[i]
  BY <1>2
<1>6. DOMAIN new = 1 .. c + 1
  BY <1>3
<1> HIDE DEF new
<1>7. \A i : i \in 1 .. c + 1 <=> (i \in 1 .. c \/ i = c + 1)
  BY <1>2
<1>8. c + 1 \notin 1 .. c /\ c + 1 \in Nat
  BY <1>2
<1> HIDE DEF c
<1>9. AliveIn(new) = AliveIn(bs) \cup {c + 1}
  BY <1>1, <1>2, <1>4, <1>5, <1>6, <1>7 DEF AliveIn
<1>10. DOMAIN new = DOMAIN bs \cup {c + 1}
  BY <1>2, <1>6, <1>7
<1>. QED
  BY <1>2, <1>3, <1>8, <1>9, <1>10, Zenon DEF new, c, e

LEMMA DeleteBuffer ==
  ASSUME NEW bs \in Seq(Buffer), NEW b \in DOMAIN bs
  PROVE  LET new == [bs EXCEPT ![b].alive = FALSE]
         IN  /\ new \in Seq(Buffer) /\ DOMAIN new = DOMAIN bs /\ Len(new) = Len(bs)
             /\ AliveIn(new) = AliveIn(bs) \ {b}
             /\ bs[b].frame \in Nat
<1> DEFINE new == [bs EXCEPT ![b].alive = FALSE]
<1>1. bs[b] \in Buffer /\ bs[b].frame \in Nat
  <2>1. bs[b] \in Buffer
    OBVIOUS
  <2>. QED
    BY <2>1 DEF Buffer
<1>2. [bs[b] EXCEPT !.alive = FALSE] \in Buffer /\ [bs[b] EXCEPT !.alive = FALSE].alive = FALSE
  BY <1>1 DEF Buffer
<1>3. DOMAIN new = DOMAIN bs /\ \A i \in DOMAIN bs \ {b} : new[i] = bs[i]
  OBVIOUS
<1>4. new[b] \in Buffer /\ ~new[b].alive
  BY <1>2
<1>5. new \in Seq(Buffer) /\ Len(new) = Len(bs)
  <2>1. Len(bs) \in Nat /\ DOMAIN bs = 1 .. Len(bs) /\ \A i \in DOMAIN bs : bs[i] \in Buffer
    OBVIOUS
  <2>2. new \in [1 .. Len(bs) -> Buffer]
    BY <2>1, <1>3, <1>4
  <2> HIDE DEF new
  <2>. QED
    BY <2>1, <2>2
<1> HIDE DEF new
<1>6. AliveIn(new) = AliveIn(bs) \ {b}
  BY <1>3, <1>4 DEF AliveIn
<1>. QED
  BY <1>1, <1>3, <1>5, <1>6 DEF new

(* One ring changes: O leaves it and X, which is new, joins it. *)
RingChanges(g, O, X) ==
  /\ g \in Holders /\ O \subseteq Held[g]
  /\ InRing(RingOf(g)') = (Held[g] \ O) \cup X
  /\ Increasing(Items(RingOf(g)'))
  /\ \A h \in Holders \ {g} : RingOf(h)' = RingOf(h)
  /\ X \cap Alive = {} /\ leaked' \subseteq Alive'
  /\ Alive' \ leaked' = ((Alive \ leaked) \ O) \cup X

LEMMA OneRingChanges ==
  ASSUME PacketInv, NEW g, NEW O, NEW X, RingChanges(g, O, X)
  PROVE  BuffersHeld'
<1> USE DEF RingChanges
<1>1. /\ Held' = [h \in Holders |-> InRing(RingOf(h)')]
      /\ Held = [h \in Holders |-> InRing(RingOf(h))]
  BY DEF Held
<1>2. Held'[g] = (Held[g] \ O) \cup X /\ \A h \in Holders \ {g} : Held'[h] = Held[h]
  BY <1>1
<1>3. \A h \in Holders : Increasing(Items(RingOf(h)'))
  BY DEF PacketInv, BuffersHeld
<1>4. Alive \ leaked = UNION {Held[h] : h \in Holders}
  BY DEF PacketInv, BuffersHeld
<1>5. X \cap (UNION {Held[h] : h \in Holders}) = {}
  BY <1>4
<1>6. \A h, k \in Holders : h # k => Held[h] \cap Held[k] = {}
  BY DEF PacketInv, BuffersHeld
<1>7. /\ \A h, k \in Holders : h # k => Held'[h] \cap Held'[k] = {}
      /\ (UNION {Held'[h] : h \in Holders}) = ((UNION {Held[h] : h \in Holders}) \ O) \cup X
  <2>1. Changes(Holders, Held, Held', g, O, X)
    BY <1>2, <1>5, <1>6 DEF Changes
  <2>. QED
    BY <2>1, FamilyChange
<1>. QED
  BY <1>3, <1>4, <1>7 DEF BuffersHeld

(* HandlerTake writes the copy of a frame to the cache. *)
LEMMA CacheWriteInv ==
  ASSUME PacketInv, NEW f \in Nat, PacketTypes',
         bufs' = Append(bufs, [frame |-> f, alive |-> TRUE]),
         cache' = RingWrite(cache, Len(bufs) + 1),
         leaked' = leaked \cup Overwritten(cache),
         UNCHANGED <<packets, given, got>>
  PROVE  PacketInv'
<1> DEFINE n == Len(bufs) + 1
<1>0. "cache" \in Holders /\ RingOf("cache") = cache /\ RingOf("cache")' = cache'
  BY DEF Holders, RingOf
<1>1. /\ Held["cache"] = InRing(cache) /\ Increasing(Items(cache))
      /\ Held["cache"] \subseteq Alive \ leaked
      /\ \A y \in InRing(cache) : y < n
      /\ cache \in Ring(CacheSize)
  BY <1>0, HolderFacts
<1>2. /\ n \in Nat /\ DOMAIN bufs' = DOMAIN bufs \cup {n} /\ Alive' = Alive \cup {n}
      /\ n \notin DOMAIN bufs
  BY MakeBuffer DEF PacketInv, PacketTypes, Alive
<1>3. /\ Increasing(Items(cache')) /\ Overwritten(cache) \subseteq InRing(cache)
      /\ InRing(cache') = (InRing(cache) \ Overwritten(cache)) \cup {n}
  <2> HIDE DEF n
  <2>. QED
    BY <1>1, <1>2, WriteRing, NetAssumption DEF n
<1>4. Alive \subseteq DOMAIN bufs /\ leaked \subseteq Alive
  BY DEF Alive, AliveIn, PacketInv, BuffersHeld
<1> HIDE DEF n
<1>5. \A h \in Holders \ {"cache"} : RingOf(h)' = RingOf(h)
  BY DEF RingOf, Holders
<1>6. BuffersHeld'
  <2>1. leaked' \subseteq Alive' /\ {n} \cap Alive = {}
    BY <1>1, <1>2, <1>3, <1>4
  <2>2. Alive' \ leaked' = ((Alive \ leaked) \ Overwritten(cache)) \cup {n}
    BY <1>1, <1>2, <1>3, <1>4
  <2>3. RingChanges("cache", Overwritten(cache), {n})
    BY <1>0, <1>1, <1>3, <1>5, <2>1, <2>2 DEF RingChanges
  <2>. QED
    BY <2>3, OneRingChanges
<1>7. QueuesKept'
  <2>1. /\ Held'["cache"] \subseteq Held["cache"] \cup {n}
        /\ \A s \in UdpSockets : Held'[s] = Held[s] /\ s \in Holders
    BY <1>0, <1>1, <1>3, <1>5, NetAssumption DEF Held, Holders
  <2>2. \A s \in UdpSockets : /\ Elements(given[s]) \subseteq DOMAIN bufs
                              /\ Elements(given[s]) \cap Held["cache"] = {}
    BY DEF PacketInv, QueuesKept
  <2>3. \A s \in UdpSockets : /\ Elements(given[s]) \cap Held'["cache"] = {}
                              /\ Elements(given[s]) \ leaked' = Elements(given[s]) \ leaked
    BY <2>1, <2>2, <1>1, <1>2, <1>3
  <2>. QED
    BY <2>1, <2>2, <2>3, <1>2 DEF PacketInv, QueuesKept
<1>. QED
  BY <1>6, <1>7 DEF PacketInv

(* UdpSocket::recv_msg takes the oldest packet of its ring and deletes it. *)
LEMMA UdpReadInv ==
  ASSUME PacketInv, PacketTypes', NEW s \in UdpSockets, ~IsEmpty(packets[s]),
         packets' = [packets EXCEPT ![s] = RingRead(@)],
         bufs' = [bufs EXCEPT ![Oldest(packets[s])].alive = FALSE],
         got' = [got EXCEPT ![s] = Append(@, Oldest(packets[s]))],
         UNCHANGED <<cache, leaked, given>>
  PROVE  PacketInv'
<1> DEFINE b == Oldest(packets[s])
<1>0. /\ s \in Holders /\ s # "cache" /\ RingOf(s) = packets[s]
      /\ RingOf(s)' = packets'[s] /\ packets'[s] = RingRead(packets[s])
  BY NetAssumption DEF Holders, RingOf, PacketInv, PacketTypes, Sockets
<1>1. /\ Held[s] = InRing(packets[s]) /\ Increasing(Items(packets[s]))
      /\ Held[s] \subseteq Alive \ leaked
      /\ \A y \in Held[s] : y \in DOMAIN bufs
      /\ packets[s] \in Ring(PacketsSize)
  BY <1>0, HolderFacts
<1>2. /\ Increasing(Items(packets'[s])) /\ b \in Held[s]
      /\ InRing(packets'[s]) = Held[s] \ {b}
      /\ \A y \in InRing(packets'[s]) : b < y
  BY <1>0, <1>1, ReadRing, NetAssumption
<1>3. b \in DOMAIN bufs /\ bufs \in Seq(Buffer) /\ bufs' = [bufs EXCEPT ![b].alive = FALSE]
  BY <1>1, <1>2 DEF PacketInv, PacketTypes
<1> HIDE DEF b
<1>4. Alive' = Alive \ {b} /\ DOMAIN bufs' = DOMAIN bufs
  BY <1>3, DeleteBuffer DEF Alive
<1>5. \A h \in Holders \ {s} : RingOf(h)' = RingOf(h)
  BY DEF RingOf, Holders, PacketInv, PacketTypes, Sockets
<1>6. leaked \subseteq Alive
  BY DEF PacketInv, BuffersHeld
<1>7. BuffersHeld'
  <2>1. leaked' \subseteq Alive' /\ Alive' \ leaked' = (Alive \ leaked) \ {b}
    BY <1>1, <1>2, <1>4, <1>6
  <2>2. RingChanges(s, {b}, {})
    BY <1>0, <1>2, <1>5, <2>1 DEF RingChanges
  <2>. QED
    BY <2>2, OneRingChanges
<1>8. QueuesKept'
  <2>1. Held'[s] = Held[s] \ {b} /\ \A h \in Holders \ {s} : Held'[h] = Held[h]
    BY <1>0, <1>2, <1>5 DEF Held
  <2>2. "cache" \in Holders \ {s} /\ \A u \in UdpSockets \ {s} : u \in Holders \ {s}
    BY <1>0 DEF Holders
  <2>3. got \in [UdpSockets -> Seq(Nat)] /\ got[s] \in Seq(Nat) /\ got'[s] = Append(got[s], b)
    BY DEF PacketInv, PacketTypes, b
  <2>4. b \in Nat
    <3>1. DOMAIN bufs = 1 .. Len(bufs)
      BY <1>3
    <3>. QED
      BY <1>3, <3>1
  <2>5. /\ Increasing(got[s]) /\ \A x \in Elements(got[s]), y \in Held[s] : x < y
        /\ Elements(got[s]) \cup Held[s] = Elements(given[s]) \ leaked
    BY DEF PacketInv, QueuesKept
  <2>6. Elements(got'[s]) = Elements(got[s]) \cup {b} /\ Increasing(got'[s])
    BY <2>3, <2>4, <2>5, <1>2, AppendElements
  <2>7. \A x \in Elements(got'[s]), y \in Held'[s] : x < y
    BY <2>1, <2>5, <2>6, <1>2
  <2>8. Elements(got'[s]) \cup Held'[s] = Elements(given[s]) \ leaked
    BY <2>1, <2>5, <2>6, <1>2
  <2>9. \A u \in UdpSockets \ {s} : got'[u] = got[u] /\ Held'[u] = Held[u]
    BY <2>1, <2>2, <2>3
  <2>10. Held'["cache"] = Held["cache"]
    BY <2>1, <2>2
  <2>. QED
    BY <2>6, <2>7, <2>8, <2>9, <2>10, <1>4 DEF PacketInv, QueuesKept
<1>. QED
  BY <1>7, <1>8 DEF PacketInv

(* packet_handler deletes the oldest packet of the cache ... *)
LEMMA CacheReadInv ==
  ASSUME PacketInv, PacketTypes', ~IsEmpty(cache), cache' = RingRead(cache),
         bufs' = [bufs EXCEPT ![Oldest(cache)].alive = FALSE],
         \A s \in UdpSockets : packets'[s] = packets[s],
         UNCHANGED <<leaked, given, got>>
  PROVE  PacketInv'
<1> DEFINE b == Oldest(cache)
<1>0. "cache" \in Holders /\ RingOf("cache") = cache /\ RingOf("cache")' = cache'
  BY DEF Holders, RingOf
<1>1. /\ Held["cache"] = InRing(cache) /\ Increasing(Items(cache))
      /\ Held["cache"] \subseteq Alive \ leaked
      /\ \A y \in Held["cache"] : y \in DOMAIN bufs
      /\ cache \in Ring(CacheSize)
  BY <1>0, HolderFacts
<1>2. /\ Increasing(Items(cache')) /\ b \in Held["cache"]
      /\ InRing(cache') = Held["cache"] \ {b}
  BY <1>1, ReadRing, NetAssumption
<1>3. b \in DOMAIN bufs /\ bufs \in Seq(Buffer) /\ bufs' = [bufs EXCEPT ![b].alive = FALSE]
  BY <1>1, <1>2 DEF PacketInv, PacketTypes
<1> HIDE DEF b
<1>4. Alive' = Alive \ {b} /\ DOMAIN bufs' = DOMAIN bufs
  BY <1>3, DeleteBuffer DEF Alive
<1>5. \A h \in Holders \ {"cache"} : RingOf(h)' = RingOf(h)
  BY DEF RingOf, Holders
<1>6. leaked \subseteq Alive
  BY DEF PacketInv, BuffersHeld
<1>7. BuffersHeld'
  <2>1. leaked' \subseteq Alive' /\ Alive' \ leaked' = (Alive \ leaked) \ {b}
    BY <1>1, <1>2, <1>4, <1>6
  <2>2. RingChanges("cache", {b}, {})
    BY <1>0, <1>2, <1>5, <2>1 DEF RingChanges
  <2>. QED
    BY <2>2, OneRingChanges
<1>8. QueuesKept'
  <2>1. Held'["cache"] \subseteq Held["cache"] /\ \A s \in UdpSockets : Held'[s] = Held[s]
    BY <1>0, <1>2, <1>5, NetAssumption DEF Held, Holders
  <2>. QED
    BY <2>1, <1>4 DEF PacketInv, QueuesKept
<1>. QED
  BY <1>7, <1>8 DEF PacketInv

(* ... after receive_udp has put a copy of it into the ring of a socket. *)
LEMMA UdpDeliverInv ==
  ASSUME PacketInv, PacketTypes', NEW s \in UdpSockets, ~IsEmpty(cache),
         cache' = RingRead(cache), ReceiveUdp(s, Oldest(cache)), UNCHANGED got
  PROVE  PacketInv'
<1> DEFINE b == Oldest(cache)
           n == Len(bufs) + 1
           O == Overwritten(packets[s])
<1>0. /\ "cache" \in Holders /\ RingOf("cache") = cache /\ RingOf("cache")' = cache'
      /\ s \in Holders /\ s # "cache" /\ RingOf(s) = packets[s] /\ RingOf(s)' = packets'[s]
      /\ packets'[s] = RingWrite(packets[s], n)
  BY NetAssumption DEF Holders, RingOf, PacketInv, PacketTypes, Sockets, ReceiveUdp
<1>1. /\ Held["cache"] = InRing(cache) /\ Increasing(Items(cache))
      /\ Held["cache"] \subseteq Alive \ leaked
      /\ \A y \in Held["cache"] : y \in DOMAIN bufs
      /\ cache \in Ring(CacheSize)
      /\ Held[s] = InRing(packets[s]) /\ Increasing(Items(packets[s]))
      /\ Held[s] \subseteq Alive \ leaked
      /\ \A y \in Held[s] : y \in DOMAIN bufs /\ y < n
      /\ packets[s] \in Ring(PacketsSize)
  BY <1>0, HolderFacts
<1>2. /\ Increasing(Items(cache')) /\ b \in Held["cache"]
      /\ InRing(cache') = Held["cache"] \ {b}
  BY <1>1, ReadRing, NetAssumption
<1>3. /\ b \in DOMAIN bufs /\ bufs \in Seq(Buffer) /\ n \in Nat
      /\ n \notin DOMAIN bufs /\ \A y \in DOMAIN bufs : y < n
      /\ DOMAIN bufs' = DOMAIN bufs \cup {n} /\ Alive' = (Alive \ {b}) \cup {n}
  <2>1. b \in DOMAIN bufs /\ bufs \in Seq(Buffer)
    BY <1>1, <1>2 DEF PacketInv, PacketTypes
  <2>2. n \in Nat /\ n \notin DOMAIN bufs /\ \A y \in DOMAIN bufs : y < n
    <3>1. DOMAIN bufs = 1 .. Len(bufs) /\ Len(bufs) \in Nat
      BY <2>1
    <3>. QED
      BY <3>1
  <2> DEFINE m == [bufs EXCEPT ![b].alive = FALSE]
  <2>3. /\ m \in Seq(Buffer) /\ DOMAIN m = DOMAIN bufs /\ Len(m) = Len(bufs)
        /\ AliveIn(m) = AliveIn(bufs) \ {b} /\ bufs[b].frame \in Nat
    <3> HIDE DEF b
    <3>. QED
      BY <2>1, DeleteBuffer
  <2>4. bufs' = Append(m, [frame |-> bufs[b].frame, alive |-> TRUE])
    BY DEF ReceiveUdp
  <2> HIDE DEF m
  <2>5. DOMAIN bufs' = DOMAIN m \cup {Len(m) + 1} /\ AliveIn(bufs') = AliveIn(m) \cup {Len(m) + 1}
    BY <2>3, <2>4, MakeBuffer
  <2>. QED
    BY <2>1, <2>2, <2>3, <2>5 DEF Alive
<1>4. /\ Increasing(Items(packets'[s])) /\ O \subseteq Held[s]
      /\ InRing(packets'[s]) = (Held[s] \ O) \cup {n}
  <2> HIDE DEF n
  <2>. QED
    BY <1>0, <1>1, <1>3, WriteRing, NetAssumption
<1>5. leaked' = leaked \cup O /\ given' = [given EXCEPT ![s] = Append(@, n)]
  BY DEF ReceiveUdp
<1>6. \A h \in Holders \ {s, "cache"} : RingOf(h)' = RingOf(h)
  BY DEF RingOf, Holders, PacketInv, PacketTypes, Sockets, ReceiveUdp
<1> HIDE DEF b, n, O
<1>7. /\ leaked \subseteq Alive /\ Alive \subseteq DOMAIN bufs
      /\ Alive \ leaked = UNION {Held[h] : h \in Holders}
      /\ \A h, k \in Holders : h # k => Held[h] \cap Held[k] = {}
      /\ \A h \in Holders : Increasing(Items(RingOf(h)))
  BY DEF PacketInv, BuffersHeld, Alive, AliveIn
<1>8. /\ Held'["cache"] = Held["cache"] \ {b} /\ Held'[s] = (Held[s] \ O) \cup {n}
      /\ \A h \in Holders \ {s, "cache"} : Held'[h] = Held[h]
  BY <1>0, <1>2, <1>4, <1>6 DEF Held
<1>9. BuffersHeld'
  <2> DEFINE M == [h \in Holders |-> IF h = "cache" THEN Held["cache"] \ {b} ELSE Held[h]]
  <2>1. /\ M["cache"] = Held["cache"] \ {b} /\ M[s] = Held[s]
        /\ \A h \in Holders \ {"cache"} : M[h] = Held[h]
    BY <1>0
  <2> HIDE DEF M
  <2>2. Changes(Holders, Held, M, "cache", {b}, {})
    BY <2>1, <1>0, <1>2, <1>7 DEF Changes
  <2>3. /\ \A h, k \in Holders : h # k => M[h] \cap M[k] = {}
        /\ (UNION {M[h] : h \in Holders}) = ((UNION {Held[h] : h \in Holders}) \ {b}) \cup {}
    BY <2>2, FamilyChange
  <2>4. Changes(Holders, M, Held', s, O, {n})
    <3>1. {n} \cap (UNION {M[h] : h \in Holders}) = {}
      BY <2>3, <1>3, <1>7
    <3>2. \A h \in Holders \ {s} : Held'[h] = M[h]
      BY <2>1, <1>8
    <3>. QED
      BY <3>1, <3>2, <2>1, <2>3, <1>0, <1>4, <1>8 DEF Changes
  <2>5. /\ \A h, k \in Holders : h # k => Held'[h] \cap Held'[k] = {}
        /\ (UNION {Held'[h] : h \in Holders}) = ((UNION {M[h] : h \in Holders}) \ O) \cup {n}
    BY <2>4, FamilyChange
  <2>6. \A h \in Holders : Increasing(Items(RingOf(h)'))
    BY <1>0, <1>2, <1>4, <1>6, <1>7
  <2>7. b \notin O /\ b \notin leaked
    BY <1>0, <1>1, <1>2, <1>4, <1>7
  <2>8. leaked' \subseteq Alive'
    BY <2>7, <1>1, <1>3, <1>4, <1>5, <1>7
  <2>9. Alive' \ leaked' = (((Alive \ leaked) \ {b}) \ O) \cup {n}
    BY <2>7, <1>1, <1>3, <1>4, <1>5, <1>7
  <2>10. Alive' \ leaked' = UNION {Held'[h] : h \in Holders}
    BY <2>3, <2>5, <2>9, <1>7
  <2>. QED
    BY <2>5, <2>6, <2>8, <2>10 DEF BuffersHeld
<1>10. QueuesKept'
  <2>1. /\ given \in [UdpSockets -> Seq(Nat)] /\ got' = got
        /\ given'[s] = Append(given[s], n) /\ given[s] \in Seq(Nat)
        /\ \A u \in UdpSockets \ {s} : given'[u] = given[u]
    BY <1>5 DEF PacketInv, PacketTypes
  <2>2. Elements(given'[s]) = Elements(given[s]) \cup {n}
    BY <2>1, <1>3, AppendElements
  <2>3. \A u \in UdpSockets :
          /\ Elements(given[u]) \subseteq DOMAIN bufs
          /\ Elements(given[u]) \cap Held["cache"] = {}
          /\ Elements(got[u]) \cup Held[u] = Elements(given[u]) \ leaked
          /\ Increasing(got[u])
          /\ \A x \in Elements(got[u]), y \in Held[u] : x < y
    BY DEF PacketInv, QueuesKept
  <2>4. \A u, v \in UdpSockets : u # v => Elements(given[u]) \cap Elements(given[v]) = {}
    BY DEF PacketInv, QueuesKept
  <2>5. O \subseteq Elements(given[s]) /\ O \cap Elements(got[s]) = {}
    <3>1. \A x \in Elements(got[s]), y \in Held[s] : x < y
      BY <2>3
    <3>2. \A x \in DOMAIN bufs : x \in Nat
      <4>1. DOMAIN bufs = 1 .. Len(bufs)
        BY <1>3
      <4>. QED
        BY <4>1, <1>3
    <3>3. \A y \in Held[s] : y \in Nat /\ ~(y < y)
      BY <3>2, <1>1
    <3>4. Elements(got[s]) \cap Held[s] = {}
      BY <3>1, <3>3
    <3>. QED
      BY <2>3, <3>4, <1>4
  <2>6. ASSUME NEW u \in UdpSockets
        PROVE  /\ Elements(given'[u]) \subseteq DOMAIN bufs'
               /\ Elements(given'[u]) \cap Held'["cache"] = {}
               /\ Elements(got'[u]) \cup Held'[u] = Elements(given'[u]) \ leaked'
               /\ Increasing(got'[u])
               /\ \A x \in Elements(got'[u]), y \in Held'[u] : x < y
    <3>1. Elements(got[u]) \subseteq DOMAIN bufs /\ n \notin Held["cache"]
      BY <2>3, <1>1, <1>3
    <3>2. CASE u = s
      <4>1. Elements(given'[s]) \subseteq DOMAIN bufs' /\ Elements(given'[s]) \cap Held'["cache"] = {}
        BY <2>2, <2>3, <3>1, <1>3, <1>8
      <4>2. n \notin leaked'
        BY <1>1, <1>3, <1>4, <1>5, <1>7
      <4>3. Elements(got[s]) \cup Held'[s] = Elements(given'[s]) \ leaked'
        BY <2>2, <2>3, <2>5, <4>2, <1>5, <1>8
      <4>4. \A x \in Elements(got[s]), y \in Held'[s] : x < y
        BY <2>3, <3>1, <3>2, <1>3, <1>8
      <4>. QED
        BY <3>2, <4>1, <4>3, <4>4, <2>1, <2>3
    <3>3. CASE u # s
      <4>1. u \in Holders \ {s, "cache"}
        BY <3>3, NetAssumption DEF Holders
      <4>2. Elements(given[u]) \cap O = {}
        BY <2>4, <2>5, <3>3
      <4>3. Held'[u] = Held[u] /\ given'[u] = given[u] /\ got'[u] = got[u]
        BY <4>1, <2>1, <3>3, <1>8
      <4>4. Elements(given[u]) \subseteq DOMAIN bufs' /\ Elements(given[u]) \cap Held'["cache"] = {}
        BY <2>3, <1>3, <1>8
      <4>5. Elements(given[u]) \ leaked' = Elements(given[u]) \ leaked
        BY <4>2, <1>5
      <4>. QED
        BY <4>3, <4>4, <4>5, <2>3
    <3>. QED
      BY <3>2, <3>3
  <2>7. ASSUME NEW u \in UdpSockets, NEW v \in UdpSockets, u # v
        PROVE  Elements(given'[u]) \cap Elements(given'[v]) = {}
    <3>1. \A w \in UdpSockets : n \notin Elements(given[w])
      BY <2>3, <1>3
    <3>2. CASE u = s
      BY <3>1, <3>2, <2>1, <2>2, <2>4, <2>7
    <3>3. CASE v = s
      BY <3>1, <3>3, <2>1, <2>2, <2>4, <2>7
    <3>4. CASE u # s /\ v # s
      BY <3>4, <2>1, <2>4, <2>7
    <3>. QED
      BY <3>2, <3>3, <3>4
  <2>. QED
    BY <2>6, <2>7 DEF QueuesKept
<1>. QED
  BY <1>9, <1>10 DEF PacketInv

-----------------------------------------------------------------------------
(* The steps that touch no packet. *)
LEMMA PacketsUnchanged ==
  ASSUME PacketInv, PacketTypes', UNCHANGED <<bufs, cache, packets, leaked, given, got>>
  PROVE  PacketInv'
<1>1. /\ Alive' = Alive /\ Held' = Held
      /\ \A h \in Holders : RingOf(h)' = RingOf(h)
  BY DEF Alive, Held, RingOf
<1>2. BuffersHeld'
  BY <1>1 DEF PacketInv, BuffersHeld
<1>3. QueuesKept'
  BY <1>1 DEF PacketInv, QueuesKept
<1>. QED
  BY <1>2, <1>3 DEF PacketInv

LEMMA CardReceivesPackets == PacketInv /\ CardReceives => PacketInv'
<1> SUFFICES ASSUME PacketInv, CardReceives PROVE PacketInv'
  OBVIOUS
<1>1. PICK kind \in load.kinds : wire' = Append(wire, kind)
  BY DEF CardReceives
<1>2. kind \in Kinds
  BY NetAssumption DEF Kinds, PacketInv, PacketTypes
<1>3. wire' \in Seq(Kinds) /\ Len(wire) + 1 \in Nat
  BY <1>1, <1>2 DEF PacketInv, PacketTypes
<1>4. rdh' \in RxIndex
  <2>1. NUM_RX_DESCS \in Nat \ {0} /\ rdh \in 0 .. NUM_RX_DESCS - 1
    BY NetAssumption DEF RxIndex, PacketInv, PacketTypes
  <2>2. (rdh + 1) % NUM_RX_DESCS \in 0 .. NUM_RX_DESCS - 1
    BY <2>1, ModInc
  <2>. QED
    BY <2>2 DEF CardReceives, RxIndex
<1>5. rxd' \in [RxIndex -> [done : BOOLEAN, frame : Nat]]
  BY <1>3 DEF CardReceives, PacketInv, PacketTypes
<1>6. PacketTypes'
  BY <1>3, <1>4, <1>5 DEF CardReceives, PacketInv, PacketTypes, socketVars
<1>. QED
  BY <1>6, PacketsUnchanged DEF CardReceives, socketVars

LEMMA HandlerTakePackets == PacketInv /\ HandlerTake => PacketInv'
<1> SUFFICES ASSUME PacketInv, HandlerTake PROVE PacketInv'
  OBVIOUS
<1> DEFINE tail == (rdt + 1) % NUM_RX_DESCS
           f == rxd[tail].frame
<1>1. tail \in RxIndex
  <2>1. NUM_RX_DESCS \in Nat \ {0} /\ rdt \in 0 .. NUM_RX_DESCS - 1
    BY NetAssumption DEF RxIndex, PacketInv, PacketTypes
  <2>. QED
    BY <2>1, ModInc DEF RxIndex
<1>2. f \in Nat
  <2> HIDE DEF tail
  <2>. QED
    BY <1>1 DEF PacketInv, PacketTypes
<1>3. /\ UNCHANGED <<load, wire, rdh, rxd, packets, given, got>>
      /\ rdt' \in RxIndex
  BY <1>1 DEF HandlerTake, socketVars, PacketInv, PacketTypes
<1>4. CASE UNCHANGED <<cache, bufs, leaked>>
  <2>1. PacketTypes'
    BY <1>3, <1>4 DEF PacketInv, PacketTypes
  <2>. QED
    BY <2>1, <1>3, <1>4, PacketsUnchanged
<1>5. CASE /\ bufs' = Append(bufs, [frame |-> f, alive |-> TRUE])
           /\ cache' = RingWrite(cache, Len(bufs) + 1)
           /\ leaked' = leaked \cup Overwritten(cache)
  <2> HIDE DEF f
  <2>1. bufs' \in Seq(Buffer) /\ Len(bufs) + 1 \in Nat
    BY <1>2, <1>5, MakeBuffer DEF PacketInv, PacketTypes
  <2>2. cache' \in Ring(CacheSize)
    BY <2>1, <1>5, WriteItems, NetAssumption DEF PacketInv, PacketTypes
  <2>3. PacketTypes'
    BY <2>1, <2>2, <1>3 DEF PacketInv, PacketTypes
  <2>. QED
    BY <2>3, <1>2, <1>3, <1>5, CacheWriteInv
<1>. QED
  BY <1>4, <1>5 DEF HandlerTake

LEMMA PacketHandlerPackets == PacketInv /\ PacketHandler => PacketInv'
<1> SUFFICES ASSUME PacketInv, PacketHandler PROVE PacketInv'
  OBVIOUS
<1> DEFINE b == Oldest(cache)
           to == ReceiveIpv4(wire[bufs[b].frame])
<1>1. /\ ~IsEmpty(cache) /\ cache' = RingRead(cache)
      /\ UNCHANGED <<load, wire, rdh, rdt, rxd, got>>
      /\ \/ to \cap UdpSockets = {} /\ ReceiveIcmp(to, b)
         \/ \E s \in to \cap UdpSockets : ReceiveUdp(s, b)
  BY DEF PacketHandler, cardVars
<1> HIDE DEF to
<1>2. cache \in Ring(CacheSize) /\ Increasing(Items(cache)) /\ InRing(cache) \subseteq DOMAIN bufs
  <2>1. "cache" \in Holders /\ RingOf("cache") = cache
    BY DEF Holders, RingOf
  <2>. QED
    BY <2>1, HolderFacts
<1>3. cache' \in Ring(CacheSize) /\ b \in DOMAIN bufs
  BY <1>1, <1>2, ReadRing, NetAssumption
<1>4. bufs \in Seq(Buffer) /\ b \in Nat /\ Len(bufs) + 1 \in Nat
  <2>1. bufs \in Seq(Buffer)
    BY DEF PacketInv, PacketTypes
  <2>2. DOMAIN bufs = 1 .. Len(bufs) /\ Len(bufs) \in Nat
    BY <2>1
  <2>. QED
    BY <2>1, <2>2, <1>3
<1>5. /\ packets \in [Sockets -> Ring(PacketsSize)] /\ given \in [UdpSockets -> Seq(Nat)]
      /\ UdpSockets \subseteq Sockets
  BY DEF PacketInv, PacketTypes, Sockets
<1> HIDE DEF b
<1>6. ASSUME to \cap UdpSockets = {}, ReceiveIcmp(to, b) PROVE PacketInv'
  <2>1. bufs' \in Seq(Buffer)
    BY <1>3, <1>4, <1>6, DeleteBuffer DEF ReceiveIcmp
  <2>2. \A s \in Sockets : RingWrite(packets[s], b) \in Ring(PacketsSize)
    BY <1>4, <1>5, WriteItems, NetAssumption
  <2>3. packets' \in [Sockets -> Ring(PacketsSize)]
    BY <2>2, <1>5, <1>6 DEF ReceiveIcmp
  <2>4. \A s \in UdpSockets : packets'[s] = packets[s]
    BY <1>5, <1>6 DEF ReceiveIcmp
  <2>5. PacketTypes'
    BY <2>1, <2>3, <1>1, <1>3, <1>6 DEF PacketInv, PacketTypes, ReceiveIcmp
  <2>. QED
    BY <2>4, <2>5, <1>1, <1>6, CacheReadInv DEF ReceiveIcmp, b
<1>7. ASSUME NEW s \in to \cap UdpSockets, ReceiveUdp(s, b) PROVE PacketInv'
  <2>1. bufs' \in Seq(Buffer)
    <3> DEFINE m == [bufs EXCEPT ![b].alive = FALSE]
    <3>1. m \in Seq(Buffer) /\ bufs[b].frame \in Nat
      BY <1>3, <1>4, DeleteBuffer
    <3>2. bufs' = Append(m, [frame |-> bufs[b].frame, alive |-> TRUE])
      BY <1>7 DEF ReceiveUdp
    <3> HIDE DEF m
    <3>. QED
      BY <3>1, <3>2, MakeBuffer
  <2>2. packets' \in [Sockets -> Ring(PacketsSize)]
    <3>1. RingWrite(packets[s], Len(bufs) + 1) \in Ring(PacketsSize)
      BY <1>4, <1>5, WriteItems, NetAssumption
    <3>. QED
      BY <3>1, <1>5, <1>7 DEF ReceiveUdp
  <2>3. given' \in [UdpSockets -> Seq(Nat)]
    <3>1. Append(given[s], Len(bufs) + 1) \in Seq(Nat)
      BY <1>4, <1>5
    <3>. QED
      BY <3>1, <1>5, <1>7 DEF ReceiveUdp
  <2>4. PacketTypes'
    BY <2>1, <2>2, <2>3, <1>1, <1>3 DEF PacketInv, PacketTypes
  <2>. QED
    BY <2>4, <1>1, <1>7, UdpDeliverInv DEF b
<1>. QED
  BY <1>1, <1>6, <1>7

LEMMA RecvMsgPackets ==
  ASSUME PacketInv, NEW s \in Sockets, SysRecvMsg(s)
  PROVE  PacketInv'
<1>1. /\ ~IsEmpty(packets[s]) /\ packets' = [packets EXCEPT ![s] = RingRead(@)]
      /\ UNCHANGED <<load, wire, rdh, rdt, rxd, cache, leaked, given>>
  BY DEF SysRecvMsg, UdpRecvMsg, IcmpRecvMsg, TakePacket, cardVars
<1>2. packets \in [Sockets -> Ring(PacketsSize)]
  BY DEF PacketInv, PacketTypes
<1>3. packets' \in [Sockets -> Ring(PacketsSize)]
  <2>1. RingRead(packets[s]) \in Ring(PacketsSize)
    BY <1>1, <1>2, ReadItems, NetAssumption
  <2>. QED
    BY <2>1, <1>1, <1>2
<1>4. CASE UdpRecvMsg(s)
  <2> DEFINE b == Oldest(packets[s])
  <2>1. /\ s \in UdpSockets /\ bufs' = [bufs EXCEPT ![b].alive = FALSE]
        /\ got' = [got EXCEPT ![s] = Append(@, b)]
    BY <1>4 DEF UdpRecvMsg
  <2>2. s \in Holders /\ RingOf(s) = packets[s]
    BY <2>1, NetAssumption DEF Holders, RingOf
  <2>3. Increasing(Items(packets[s])) /\ InRing(packets[s]) \subseteq DOMAIN bufs
    BY <2>2, HolderFacts
  <2>4. b \in DOMAIN bufs /\ bufs \in Seq(Buffer)
    BY <2>3, <1>1, <1>2, ReadRing, NetAssumption DEF PacketInv, PacketTypes
  <2> HIDE DEF b
  <2>5. bufs' \in Seq(Buffer)
    BY <2>1, <2>4, DeleteBuffer
  <2>6. got' \in [UdpSockets -> Seq(Nat)]
    <3>1. b \in Nat
      <4>1. DOMAIN bufs = 1 .. Len(bufs)
        BY <2>4
      <4>. QED
        BY <2>4, <4>1
    <3>2. Append(got[s], b) \in Seq(Nat)
      BY <3>1, <2>1 DEF PacketInv, PacketTypes
    <3>. QED
      BY <3>2, <2>1 DEF PacketInv, PacketTypes
  <2>7. PacketTypes'
    BY <2>5, <2>6, <1>1, <1>3 DEF PacketInv, PacketTypes
  <2>. QED
    BY <2>1, <2>7, <1>1, UdpReadInv DEF b
<1>5. CASE IcmpRecvMsg(s)
  <2>1. s \notin UdpSockets /\ UNCHANGED <<bufs, got>>
    BY <1>5, NetAssumption DEF IcmpRecvMsg
  <2>2. PacketTypes'
    BY <2>1, <1>1, <1>3 DEF PacketInv, PacketTypes
  <2>3. \A h \in Holders : RingOf(h)' = RingOf(h)
    BY <2>1, <1>1, <1>2 DEF Holders, RingOf, Sockets
  <2>4. Alive' = Alive /\ Held' = Held
    BY <2>1, <2>3 DEF Alive, Held
  <2>. QED
    BY <2>1, <2>2, <2>3, <2>4, <1>1 DEF PacketInv, BuffersHeld, QueuesKept
<1>. QED
  BY <1>4, <1>5 DEF SysRecvMsg

(* PacketInv is inductive. *)
LEMMA PacketNext == PacketInv /\ [Next]_vars => PacketInv'
<1> SUFFICES ASSUME PacketInv, [Next]_vars PROVE PacketInv'
  OBVIOUS
<1> DEFINE Same == UNCHANGED <<load, wire, rdh, rdt, rxd, bufs, cache, packets, leaked, given, got>>
<1>1. Same => PacketInv'
  <2> SUFFICES ASSUME Same PROVE PacketInv'
    OBVIOUS
  <2>1. PacketTypes'
    BY DEF PacketInv, PacketTypes
  <2>. QED
    BY <2>1, PacketsUnchanged
<1>2. CASE CardReceives
  BY <1>2, CardReceivesPackets
<1>3. CASE CardSends \/ HandlerEnter \/ HandlerCheck
  BY <1>1, <1>3 DEF CardSends, HandlerEnter, HandlerCheck, cardVars, socketVars
<1>4. CASE HandlerTake
  BY <1>4, HandlerTakePackets
<1>5. CASE PacketHandler
  BY <1>5, PacketHandlerPackets
<1>6. ASSUME NEW s \in load.sockets, SysSocket(s) PROVE PacketInv'
  BY <1>1, <1>6 DEF SysSocket, cardVars
<1>7. ASSUME NEW s \in load.sockets, SysRecvMsg(s) PROVE PacketInv'
  <2>1. s \in Sockets
    BY NetAssumption DEF PacketInv, PacketTypes, Sockets
  <2>. QED
    BY <2>1, <1>7, RecvMsgPackets
<1>8. ASSUME NEW s \in load.sockets, NEW header \in load.headers, SysSendMsg(s, header)
      PROVE  PacketInv'
  BY <1>1, <1>8 DEF SysSendMsg, UdpSendMsg, IcmpSendMsg, SendIpv4, cardVars
<1>9. CASE UNCHANGED vars
  BY <1>1, <1>9 DEF vars, cardVars, socketVars
<1>. QED
  BY <1>2, <1>3, <1>4, <1>5, <1>6, <1>7, <1>8, <1>9 DEF Next

(* No step of the handler, packet_handler or a system call breaks the      *)
(* packet invariant: the types, the disjoint ownership of the allocated    *)
(* buffers by the rings, and the order of the copies a socket was given.   *)
THEOREM PacketInvariance == Spec => []PacketInv
<1>. QED
  BY PacketInit, PacketNext, PTL DEF Spec

(* The memory of packets is accounted for, for all sizes of the rings and  *)
(* all sockets: no packet that E1000::handler or receive_udp allocated is  *)
(* lost, deleted twice or deleted while a ring points to it, but for those *)
(* that Ringbuffer::write drops.                                           *)
THEOREM PacketsAccountedCorrect == Spec => []PacketsAccounted
<1>1. PacketInv => PacketsAccounted
  <2> SUFFICES ASSUME PacketInv PROVE PacketsAccounted
    OBVIOUS
  <2>1. \A h \in Holders : Held[h] = InRing(RingOf(h))
    BY DEF Held
  <2>2. \A h \in Holders : Cardinality(InRing(RingOf(h))) = Len(Items(RingOf(h)))
    <3> TAKE h \in Holders
    <3>1. /\ Increasing(Items(RingOf(h)))
          /\ RingOf(h) \in Ring(IF h = "cache" THEN CacheSize ELSE PacketsSize)
      BY HolderFacts
    <3>. QED
      BY <3>1, RingCardinality, NetAssumption
  <2>3. (UNION {Held[h] : h \in Holders}) = UNION {InRing(RingOf(h)) : h \in Holders}
    BY <2>1
  <2>. QED
    BY <2>1, <2>2, <2>3 DEF PacketInv, BuffersHeld, Alive, AliveIn, PacketsAccounted
<1>. QED
  BY <1>1, PacketInvariance, PTL

(* A UDP socket delivers what it was given in order, each packet once, and *)
(* misses only what its full ring overwrote, for every size of the ring.   *)
THEOREM UdpInOrderCorrect == Spec => []UdpInOrder
<1>1. PacketInv => UdpInOrder
  <2> SUFFICES ASSUME PacketInv, NEW s \in UdpSockets
               PROVE  LET kept == got[s] \o Items(packets[s])
                      IN  /\ Elements(kept) = Elements(given[s]) \ leaked
                          /\ \A i, j \in DOMAIN kept : i < j => kept[i] < kept[j]
    BY DEF UdpInOrder
  <2> DEFINE p == got[s]
             q == Items(packets[s])
             kept == p \o q
  <2>1. s \in Holders /\ RingOf(s) = packets[s] /\ s # "cache"
    BY NetAssumption DEF Holders, RingOf
  <2>2. Held[s] = InRing(packets[s]) /\ Increasing(q) /\ packets[s] \in Ring(PacketsSize)
    BY <2>1, HolderFacts
  <2>3. p \in Seq(Nat) /\ q \in Seq(Nat)
    BY <2>2, ItemsOf, NetAssumption DEF PacketInv, PacketTypes
  <2>4. /\ Increasing(p) /\ \A x \in Elements(p), y \in Held[s] : x < y
        /\ Elements(p) \cup Held[s] = Elements(given[s]) \ leaked
    BY DEF PacketInv, QueuesKept
  <2>5. Held[s] = Elements(q)
    BY <2>2 DEF InRing, Elements
  <2> HIDE DEF p, q
  <2>6. /\ kept \in Seq(Nat) /\ Len(kept) = Len(p) + Len(q)
        /\ \A i \in 1 .. Len(p) : kept[i] = p[i]
        /\ \A i \in 1 .. Len(q) : kept[Len(p) + i] = q[i]
    BY <2>3, ConcatProperties
  <2>7. /\ Len(p) \in Nat /\ DOMAIN p = 1 .. Len(p) /\ Len(q) \in Nat /\ DOMAIN q = 1 .. Len(q)
        /\ DOMAIN kept = 1 .. Len(p) + Len(q)
    BY <2>3, <2>6
  <2> HIDE DEF kept
  <2>8. ASSUME NEW i \in DOMAIN kept
        PROVE  \/ i \in DOMAIN p /\ kept[i] = p[i]
               \/ i - Len(p) \in DOMAIN q /\ kept[i] = q[i - Len(p)]
    <3>1. CASE i <= Len(p)
      BY <3>1, <2>6, <2>7
    <3>2. CASE ~(i <= Len(p))
      <4>1. i - Len(p) \in 1 .. Len(q) /\ i = Len(p) + (i - Len(p))
        BY <3>2, <2>7
      <4>. QED
        BY <4>1, <2>6, <2>7
    <3>. QED
      BY <3>1, <3>2
  <2>9. Elements(kept) = Elements(p) \cup Elements(q)
    <3>1. \A i \in DOMAIN p : i \in DOMAIN kept /\ kept[i] = p[i]
      BY <2>6, <2>7
    <3>2. \A i \in DOMAIN q : Len(p) + i \in DOMAIN kept /\ kept[Len(p) + i] = q[i]
      BY <2>6, <2>7
    <3>. QED
      BY <3>1, <3>2, <2>8 DEF Elements
  <2>10. ASSUME NEW i \in DOMAIN kept, NEW j \in DOMAIN kept, i < j PROVE kept[i] < kept[j]
    <3>1. CASE i \in DOMAIN p /\ kept[i] = p[i] /\ j \in DOMAIN p /\ kept[j] = p[j]
      BY <3>1, <2>4, <2>7, <2>10 DEF Increasing
    <3>2. CASE /\ i \in DOMAIN p /\ kept[i] = p[i]
               /\ j - Len(p) \in DOMAIN q /\ kept[j] = q[j - Len(p)]
      BY <3>2, <2>4, <2>5 DEF Elements
    <3>3. CASE /\ i - Len(p) \in DOMAIN q /\ kept[i] = q[i - Len(p)]
               /\ j - Len(p) \in DOMAIN q /\ kept[j] = q[j - Len(p)]
      <4>1. i - Len(p) < j - Len(p)
        BY <2>7, <2>10
      <4>. QED
        BY <3>3, <4>1, <2>2, <2>7 DEF Increasing
    <3>4. ~(i - Len(p) \in DOMAIN q /\ j \in DOMAIN p)
      BY <2>7, <2>10
    <3>. QED
      BY <3>1, <3>2, <3>3, <3>4, <2>8
  <2>. QED
    BY <2>4, <2>5, <2>9, <2>10 DEF kept, p, q
<1>. QED
  BY <1>1, PacketInvariance, PTL

-----------------------------------------------------------------------------
(* Reception, until the card has used every descriptor: RDH counts the     *)
(* frames received and RDT those taken, a descriptor is done when a frame  *)
(* was received into it, and a handler that is not running and has no      *)
(* interrupt to come has taken all, unless the ring looks empty to it.     *)
RxSync ==
  /\ rdh = Len(wire) /\ Len(taken) <= Len(wire)
  /\ rdt = IF Len(taken) = 0 THEN NUM_RX_DESCS - 1 ELSE Len(taken) - 1
  /\ \A i \in 1 .. Len(taken) : taken[i] = i
  /\ \A i \in RxIndex : /\ rxd[i].done <=> i < Len(wire)
                        /\ i < Len(wire) => rxd[i].frame = i + 1
  /\ handler = "out" /\ "rx" \notin icr /\ rdh # rdt => Len(taken) = Len(wire)

RxInv ==
  /\ taken \in Seq(Nat)
  /\ Len(wire) < NUM_RX_DESCS => RxSync

LEMMA RxInit == Init => RxInv
  BY NetAssumption DEF Init, RxInv, RxSync, RxIndex

LEMMA CardReceivesRx == PacketInv /\ RxInv /\ CardReceives => RxInv'
<1> SUFFICES ASSUME PacketInv, RxInv, CardReceives PROVE RxInv'
  OBVIOUS
<1> DEFINE w == Len(wire)
           n == NUM_RX_DESCS
<1>1. /\ w \in Nat /\ n \in Nat \ {0} /\ rdh \in 0 .. n - 1 /\ rdt \in 0 .. n - 1
      /\ rxd \in [0 .. n - 1 -> [done : BOOLEAN, frame : Nat]]
      /\ taken \in Seq(Nat) /\ Len(taken) \in Nat
  BY NetAssumption DEF PacketInv, PacketTypes, RxInv, RxIndex
<1>2. Len(wire') = w + 1
  BY DEF CardReceives, PacketInv, PacketTypes
<1>3. /\ UNCHANGED <<rdt, taken>> /\ icr' = icr \cup {"rx"}
      /\ rxd' = [rxd EXCEPT ![rdh] = [done |-> TRUE, frame |-> w + 1]]
      /\ rdh' = (rdh + 1) % n
  BY DEF CardReceives
<1>4. ASSUME w + 1 < n PROVE RxSync'
  <2>1. RxSync /\ rdh = w
    BY <1>1, <1>4 DEF RxInv, RxSync
  <2>2. rdh' = w + 1
    <3>1. (rdh + 1) % n = Inc(n, rdh)
      BY <1>1, ModInc
    <3>. QED
      BY <3>1, <2>1, <1>1, <1>3, <1>4 DEF Inc
  <2>3. \A i \in 0 .. n - 1 : /\ rxd'[i].done <=> i < w + 1
                              /\ i < w + 1 => rxd'[i].frame = i + 1
    <3> TAKE i \in 0 .. n - 1
    <3>1. CASE i = w
      <4>1. rxd'[i] = [done |-> TRUE, frame |-> w + 1]
        BY <3>1, <2>1, <1>1, <1>3
      <4>. QED
        BY <3>1, <4>1, <1>1
    <3>2. CASE i # w
      <4>1. rxd'[i] = rxd[i]
        BY <3>2, <2>1, <1>1, <1>3
      <4>2. (i < w + 1) <=> (i < w)
        BY <3>2, <1>1
      <4>3. (rxd[i].done <=> i < w) /\ (i < w => rxd[i].frame = i + 1)
        BY <2>1 DEF RxSync, RxIndex
      <4>. QED
        BY <4>1, <4>2, <4>3
    <3>. QED
      BY <3>1, <3>2
  <2>4. \A i \in RxIndex : /\ rxd'[i].done <=> i < Len(wire')
                           /\ i < Len(wire') => rxd'[i].frame = i + 1
    BY <2>3, <1>2 DEF RxIndex
  <2>5. /\ rdh' = Len(wire') /\ Len(taken') <= Len(wire')
        /\ rdt' = IF Len(taken') = 0 THEN NUM_RX_DESCS - 1 ELSE Len(taken') - 1
        /\ \A i \in 1 .. Len(taken') : taken'[i] = i
    BY <2>1, <2>2, <1>1, <1>2, <1>3 DEF RxSync
  <2>. QED
    BY <2>4, <2>5, <1>3 DEF RxSync
<1>. QED
  BY <1>1, <1>2, <1>3, <1>4 DEF RxInv

LEMMA HandlerTakeRx == PacketInv /\ RxInv /\ HandlerTake => RxInv'
<1> SUFFICES ASSUME PacketInv, RxInv, HandlerTake PROVE RxInv'
  OBVIOUS
<1> DEFINE w == Len(wire)
           k == Len(taken)
           n == NUM_RX_DESCS
           tail == (rdt + 1) % NUM_RX_DESCS
<1>1. /\ w \in Nat /\ k \in Nat /\ n \in Nat \ {0}
      /\ rdt \in 0 .. n - 1 /\ taken \in Seq(Nat)
      /\ rxd \in [0 .. n - 1 -> [done : BOOLEAN, frame : Nat]]
  BY NetAssumption DEF PacketInv, PacketTypes, RxInv, RxIndex
<1>2. tail = Inc(n, rdt) /\ tail \in 0 .. n - 1
  BY <1>1, ModInc
<1>3. UNCHANGED <<wire, rdh, rxd, icr>>
  BY DEF HandlerTake
<1>4. w < n => RxSync /\ tail = k
  <2> SUFFICES ASSUME w < n PROVE RxSync /\ tail = k
    OBVIOUS
  <2>1. RxSync
    BY DEF RxInv
  <2>2. k <= w /\ rdt = IF k = 0 THEN n - 1 ELSE k - 1
    BY <2>1 DEF RxSync
  <2>3. Inc(n, rdt) = k
    BY <2>2, <1>1 DEF Inc
  <2>. QED
    BY <2>1, <2>3, <1>2
<1> HIDE DEF tail
<1>5. CASE ~rxd[tail].done
  <2>1. handler' = "out" /\ UNCHANGED <<rdt, taken>>
    BY <1>5 DEF HandlerTake, tail
  <2>2. w < n => k = w
    <3> SUFFICES ASSUME w < n PROVE k = w
      OBVIOUS
    <3>1. k <= w /\ (rxd[tail].done <=> tail < w)
      BY <1>2, <1>4 DEF RxSync, RxIndex
    <3>. QED
      BY <3>1, <1>1, <1>4, <1>5
  <2>. QED
    BY <2>1, <2>2, <1>1, <1>3, <1>4 DEF RxInv, RxSync
<1>6. CASE rxd[tail].done
  <2>1. handler' = "check" /\ rdt' = tail /\ taken' = Append(taken, rxd[tail].frame)
    BY <1>6 DEF HandlerTake, tail
  <2>2. rxd[tail].frame \in Nat
    BY <1>1, <1>2
  <2>3. /\ taken' \in Seq(Nat) /\ Len(taken') = k + 1 /\ taken'[k + 1] = rxd[tail].frame
        /\ \A i \in 1 .. k : taken'[i] = taken[i]
    BY <2>1, <2>2, <1>1, AppendProperties
  <2>4. ASSUME w < n PROVE RxSync'
    <3>1. k < w /\ rxd[tail].frame = k + 1
      BY <1>2, <1>4, <1>6, <2>4 DEF RxSync, RxIndex
    <3>2. \A i \in 1 .. k + 1 : taken'[i] = i
      <4> TAKE i \in 1 .. k + 1
      <4>1. CASE i = k + 1
        BY <4>1, <2>3, <3>1
      <4>2. CASE i # k + 1
        <5> HIDE DEF k
        <5>1. i \in 1 .. k
          BY <4>2, <1>1
        <5>2. taken'[i] = taken[i]
          BY <5>1, <2>3
        <5>3. taken[i] = i
          BY <5>1, <2>4, <1>4 DEF RxSync, k
        <5>. QED
          BY <5>2, <5>3
      <4>. QED
        BY <4>1, <4>2
    <3>3. rdt' = k /\ k + 1 <= w /\ k + 1 # 0 /\ (k + 1) - 1 = k
      BY <3>1, <2>1, <2>4, <1>1, <1>4
    <3>. QED
      BY <3>2, <3>3, <2>1, <2>3, <2>4, <1>3, <1>4 DEF RxSync
  <2>. QED
    BY <2>3, <2>4, <1>3 DEF RxInv
<1>. QED
  BY <1>5, <1>6

LEMMA RxNext == PacketInv /\ RxInv /\ [Next]_vars => RxInv'
<1> SUFFICES ASSUME PacketInv, RxInv, [Next]_vars PROVE RxInv'
  OBVIOUS
<1>1. CASE CardReceives
  BY <1>1, CardReceivesRx
<1>2. CASE CardSends
  BY <1>2 DEF CardSends, cardVars, RxInv, RxSync
<1>3. CASE HandlerEnter
  BY <1>3 DEF HandlerEnter, RxInv, RxSync
<1>4. CASE HandlerCheck
  BY <1>4 DEF HandlerCheck, RxInv, RxSync
<1>5. CASE HandlerTake
  BY <1>5, HandlerTakeRx
<1>6. CASE PacketHandler
  BY <1>6 DEF PacketHandler, cardVars, RxInv, RxSync
<1>7. ASSUME NEW s \in load.sockets, SysSocket(s) \/ SysRecvMsg(s) PROVE RxInv'
  BY <1>7 DEF SysSocket, SysRecvMsg, UdpRecvMsg, IcmpRecvMsg, TakePacket, cardVars, RxInv, RxSync
<1>8. ASSUME NEW s \in load.sockets, NEW header \in load.headers, SysSendMsg(s, header)
      PROVE  RxInv'
  BY <1>8 DEF SysSendMsg, UdpSendMsg, IcmpSendMsg, SendIpv4, cardVars, RxInv, RxSync
<1>9. CASE UNCHANGED vars
  BY <1>9 DEF vars, cardVars, RxInv, RxSync
<1>. QED
  BY <1>1, <1>2, <1>3, <1>4, <1>5, <1>6, <1>7, <1>8, <1>9 DEF Next

(* E1000::handler loses no frame and no interrupt, for every number of     *)
(* descriptors and however the card's steps fall between its own.          *)
THEOREM RxCompleteCorrect == Spec => []RxComplete
<1>1. Init => PacketInv /\ RxInv
  BY PacketInit, RxInit
<1>2. PacketInv /\ RxInv /\ [Next]_vars => (PacketInv /\ RxInv)'
  BY PacketNext, RxNext
<1>3. PacketInv /\ RxInv => RxComplete
  <2> SUFFICES ASSUME PacketInv, RxInv, Len(wire) < NUM_RX_DESCS, rdh # rdt
               PROVE  /\ taken = [i \in 1 .. Len(taken) |-> i]
                      /\ handler = "out" /\ "rx" \notin icr => Len(taken) = Len(wire)
    BY DEF RxComplete
  <2>1. RxSync /\ taken \in Seq(Nat)
    BY DEF RxInv
  <2>2. DOMAIN taken = 1 .. Len(taken) /\ \A i \in 1 .. Len(taken) : taken[i] = i
    BY <2>1 DEF RxSync
  <2>3. taken = [i \in DOMAIN taken |-> taken[i]]
    BY <2>1
  <2>4. taken = [i \in 1 .. Len(taken) |-> i]
    BY <2>2, <2>3, Zenon
  <2>. QED
    BY <2>1, <2>4 DEF RxSync
<1>. QED
  BY <1>1, <1>2, <1>3, PTL DEF Spec

-----------------------------------------------------------------------------
(* Transmission, until a send catches up with the card: the descriptors    *)
(* from TDH to TDT hold the frames that are still to be sent.              *)
Queued == Count(NUM_TX_DESCS, tdt, tdh)

TxSync ==
  /\ Len(out) + Queued = sends
  /\ \A i \in 1 .. Len(out) : out[i] = i
  /\ \A i \in 1 .. Queued : txd[Slot(NUM_TX_DESCS, tdh, i)].frame = Len(out) + i

TxInv ==
  /\ tdh \in TxIndex /\ tdt \in TxIndex /\ tx_tail = tdt
  /\ sends \in Nat /\ out \in Seq(Nat)
  /\ txd = [i \in TxIndex |-> txd[i]] /\ \A i \in TxIndex : txd[i].frame \in Nat
  /\ ~overrun => TxSync

LEMMA TxInit == Init => TxInv
<1> SUFFICES ASSUME Init PROVE TxInv
  OBVIOUS
<1>1. Queued = 0
  BY NetAssumption DEF Init, Queued, Count
<1>2. /\ tdh \in TxIndex /\ tdt \in TxIndex /\ tx_tail = tdt
      /\ sends \in Nat /\ out \in Seq(Nat) /\ out = <<>> /\ sends = 0
  BY NetAssumption DEF Init, TxIndex
<1>3. txd = [i \in TxIndex |-> txd[i]] /\ \A i \in TxIndex : txd[i].frame \in Nat
  BY DEF Init
<1>4. TxSync
  BY <1>1, <1>2 DEF TxSync
<1>. QED
  BY <1>2, <1>3, <1>4 DEF TxInv

LEMMA CardSendsTx == TxInv /\ CardSends => TxInv'
<1> SUFFICES ASSUME TxInv, CardSends PROVE TxInv'
  OBVIOUS
<1> DEFINE n == NUM_TX_DESCS
<1>1. /\ n \in Nat \ {0} /\ tdh \in 0 .. n - 1 /\ tdt \in 0 .. n - 1 /\ tdt # tdh
      /\ out \in Seq(Nat) /\ sends \in Nat /\ Len(out) \in Nat
  BY NetAssumption DEF TxInv, TxIndex, CardSends
<1>2. tdh' = Inc(n, tdh) /\ tdh' \in 0 .. n - 1
  BY <1>1, ModInc DEF CardSends
<1>3. UNCHANGED <<tdt, tx_tail, txd, sends, overrun>> /\ out' = Append(out, txd[tdh].frame)
  BY DEF CardSends
<1>4. txd[tdh].frame \in Nat
  BY <1>1 DEF TxInv, TxIndex
<1>5. /\ out' \in Seq(Nat) /\ Len(out') = Len(out) + 1 /\ out'[Len(out) + 1] = txd[tdh].frame
      /\ \A i \in 1 .. Len(out) : out'[i] = out[i]
  BY <1>1, <1>3, <1>4, AppendProperties
<1>6. /\ Queued > 0 /\ Queued' = Queued - 1 /\ Queued \in Nat
      /\ Slot(n, tdh, 1) = tdh
      /\ \A i \in 1 .. Queued - 1 : Slot(n, tdh', i) = Slot(n, tdh, i + 1)
  <2>1. Queued \in 0 .. n - 1
    BY <1>1, ModCount DEF Queued
  <2>. QED
    BY <2>1, <1>1, <1>2, <1>3, TailMoves DEF Queued
<1>7. ASSUME ~overrun PROVE TxSync'
  <2>1. TxSync
    BY <1>7 DEF TxInv
  <2>2. txd[tdh].frame = Len(out) + 1
    <3>1. 1 \in 1 .. Queued
      BY <1>6
    <3>. QED
      BY <3>1, <2>1, <1>6 DEF TxSync
  <2>3. \A i \in 1 .. Len(out) + 1 : out'[i] = i
    <3> TAKE i \in 1 .. Len(out) + 1
    <3>1. CASE i = Len(out) + 1
      BY <3>1, <2>2, <1>5
    <3>2. CASE i # Len(out) + 1
      <4>1. i \in 1 .. Len(out)
        BY <3>2, <1>1
      <4>. QED
        BY <4>1, <2>1, <1>5 DEF TxSync
    <3>. QED
      BY <3>1, <3>2
  <2>4. ASSUME NEW i \in 1 .. Queued - 1 PROVE txd[Slot(n, tdh', i)].frame = (Len(out) + 1) + i
    <3>1. i + 1 \in 1 .. Queued /\ Slot(n, tdh', i) = Slot(n, tdh, i + 1)
      BY <1>6
    <3>2. txd[Slot(n, tdh, i + 1)].frame = Len(out) + (i + 1)
      BY <3>1, <2>1 DEF TxSync
    <3>. QED
      BY <3>1, <3>2, <1>1
  <2>5. (Len(out) + 1) + (Queued - 1) = sends
    <3>1. Len(out) + Queued = sends
      BY <2>1 DEF TxSync
    <3>. QED
      BY <3>1, <1>1, <1>6
  <2>. QED
    BY <2>3, <2>4, <2>5, <1>3, <1>5, <1>6 DEF TxSync
<1>. QED
  BY <1>1, <1>2, <1>3, <1>5, <1>7 DEF TxInv, TxIndex

LEMMA SendTx ==
  ASSUME TxInv, NEW header, SendIpv4(header)
  PROVE  TxInv'
<1> DEFINE n == NUM_TX_DESCS
           e == [frame |-> sends + 1, header |-> Append(header, GetChecksum(header))]
<1>1. /\ n \in Nat \ {0} /\ tdh \in 0 .. n - 1 /\ tdt \in 0 .. n - 1 /\ tx_tail = tdt
      /\ out \in Seq(Nat) /\ sends \in Nat /\ Len(out) \in Nat
  BY NetAssumption DEF TxInv, TxIndex
<1>2. tdt' = Inc(n, tdt) /\ tdt' \in 0 .. n - 1 /\ tx_tail' = tdt'
  BY <1>1, ModInc DEF SendIpv4
<1>3. /\ UNCHANGED <<tdh, out>> /\ sends' = sends + 1
      /\ txd' = [txd EXCEPT ![tdt] = e]
      /\ overrun' = (overrun \/ tdt' = tdh)
  BY <1>1 DEF SendIpv4, Filled
<1>4. e.frame = sends + 1
  OBVIOUS
<1> HIDE DEF e
<1>5. txd = [i \in 0 .. n - 1 |-> txd[i]] /\ \A i \in 0 .. n - 1 : txd[i].frame \in Nat
  BY DEF TxInv, TxIndex
<1>6. /\ txd' = [i \in 0 .. n - 1 |-> txd'[i]]
      /\ txd'[tdt] = e /\ \A i \in (0 .. n - 1) \ {tdt} : txd'[i] = txd[i]
  <2>1. DOMAIN txd = 0 .. n - 1
    BY <1>5
  <2>. QED
    BY <2>1, <1>1, <1>3
<1>7. \A i \in 0 .. n - 1 : txd'[i].frame \in Nat
  <2> TAKE i \in 0 .. n - 1
  <2>1. CASE i = tdt
    BY <2>1, <1>1, <1>4, <1>6
  <2>2. CASE i # tdt
    BY <2>2, <1>5, <1>6
  <2>. QED
    BY <2>1, <2>2
<1>8. ASSUME ~overrun' PROVE TxSync'
  <2>1. TxSync /\ Inc(n, tdt) # tdh
    BY <1>2, <1>3, <1>8 DEF TxInv
  <2>2. Queued \in 0 .. n - 1
    BY <1>1, ModCount DEF Queued
  <2>3. /\ Queued' = Queued + 1
        /\ Slot(n, tdh, Queued + 1) = tdt
        /\ \A i \in 1 .. Queued : Slot(n, tdh, i) # tdt
    BY <2>1, <1>1, <1>2, <1>3, HeadMoves DEF Queued
  <2>4. \A i \in 1 .. Queued : Slot(n, tdh, i) \in 0 .. n - 1
    <3> TAKE i \in 1 .. Queued
    <3>1. i \in 1 .. n
      BY <2>2, <1>1
    <3>. QED
      BY <3>1, <1>1, ModSlot
  <2>5. \A i \in 1 .. Queued : txd'[Slot(n, tdh, i)].frame = Len(out) + i
    <3> TAKE i \in 1 .. Queued
    <3>1. txd'[Slot(n, tdh, i)] = txd[Slot(n, tdh, i)]
      BY <2>3, <2>4, <1>6
    <3>2. txd[Slot(n, tdh, i)].frame = Len(out) + i
      BY <2>1 DEF TxSync
    <3>. QED
      BY <3>1, <3>2
  <2>6. txd'[Slot(n, tdh, Queued + 1)].frame = Len(out) + (Queued + 1)
    BY <2>1, <2>2, <2>3, <1>1, <1>4, <1>6 DEF TxSync
  <2>7. \A i \in 1 .. Queued + 1 : txd'[Slot(n, tdh, i)].frame = Len(out) + i
    <3> TAKE i \in 1 .. Queued + 1
    <3>1. i \in 1 .. Queued \/ i = Queued + 1
      BY <2>2
    <3>. QED
      BY <3>1, <2>5, <2>6
  <2>8. Len(out) + (Queued + 1) = sends + 1
    <3>1. Len(out) + Queued = sends
      BY <2>1 DEF TxSync
    <3>2. Len(out) \in Nat /\ Queued \in Nat
      BY <2>2, <1>1
    <3>. QED
      BY <3>1, <3>2
  <2>. QED
    BY <2>1, <2>3, <2>7, <2>8, <1>3 DEF TxSync
<1>. QED
  BY <1>1, <1>2, <1>3, <1>6, <1>7, <1>8 DEF TxInv, TxIndex

LEMMA TxNext == TxInv /\ [Next]_vars => TxInv'
<1> SUFFICES ASSUME TxInv, [Next]_vars PROVE TxInv'
  OBVIOUS
<1> DEFINE Same == UNCHANGED txVars
<1>1. Same => TxInv'
  BY DEF txVars, TxInv, TxSync, Queued
<1>2. CASE CardSends
  BY <1>2, CardSendsTx
<1>3. CASE CardReceives \/ HandlerEnter \/ HandlerCheck \/ HandlerTake \/ PacketHandler
  BY <1>1, <1>3 DEF CardReceives, HandlerEnter, HandlerCheck, HandlerTake, PacketHandler
<1>4. ASSUME NEW s \in load.sockets, SysSocket(s) \/ SysRecvMsg(s) PROVE TxInv'
  BY <1>1, <1>4 DEF SysSocket, SysRecvMsg, UdpRecvMsg, IcmpRecvMsg, TakePacket
<1>5. ASSUME NEW s \in load.sockets, NEW header \in load.headers, SysSendMsg(s, header)
      PROVE  TxInv'
  BY <1>5, SendTx DEF SysSendMsg, UdpSendMsg, IcmpSendMsg
<1>6. CASE UNCHANGED vars
  BY <1>1, <1>6 DEF vars
<1>. QED
  BY <1>2, <1>3, <1>4, <1>5, <1>6 DEF Next

(* E1000::send and the card transfer every frame once and in order, for    *)
(* every number of descriptors, until a send makes TDT equal to TDH.       *)
THEOREM TxInOrderCorrect == Spec => []TxInOrder
<1>1. TxInv => TxInOrder
  <2> SUFFICES ASSUME TxInv, ~overrun
               PROVE  LET queued == [i \in 1 .. (tdt + NUM_TX_DESCS - tdh) % NUM_TX_DESCS |->
                                       txd[(tdh + i - 1) % NUM_TX_DESCS].frame]
                      IN  out \o queued = [i \in 1 .. sends |-> i]
    BY DEF TxInOrder
  <2> DEFINE n == NUM_TX_DESCS
             c == (tdt + NUM_TX_DESCS - tdh) % NUM_TX_DESCS
             queued == [i \in 1 .. c |-> txd[(tdh + i - 1) % NUM_TX_DESCS].frame]
  <2>1. /\ n \in Nat \ {0} /\ tdh \in 0 .. n - 1 /\ tdt \in 0 .. n - 1
        /\ out \in Seq(Nat) /\ sends \in Nat /\ Len(out) \in Nat /\ TxSync
    BY NetAssumption DEF TxInv, TxIndex
  <2>2. c = Queued /\ c \in 0 .. n - 1
    BY <2>1, ModCount DEF Queued
  <2> HIDE DEF c
  <2>3. \A i \in 1 .. c : (tdh + i - 1) % n = Slot(n, tdh, i)
    <3> TAKE i \in 1 .. c
    <3>1. i \in 1 .. n
      BY <2>1, <2>2
    <3> HIDE DEF n
    <3>. QED
      BY <3>1, <2>1, ModSlot
  <2>4. \A i \in 1 .. c : queued[i] = Len(out) + i
    <3> TAKE i \in 1 .. c
    <3>1. queued[i] = txd[Slot(n, tdh, i)].frame
      BY <2>3
    <3>2. i \in 1 .. Queued
      BY <2>2
    <3> HIDE DEF queued
    <3>. QED
      BY <3>1, <3>2, <2>1 DEF TxSync
  <2>5. queued \in Seq(Nat) /\ Len(queued) = c
    <3>1. \A i \in 1 .. c : queued[i] \in Nat
      <4>1. \A i \in 1 .. c : Len(out) + i \in Nat
        BY <2>1
      <4> HIDE DEF queued
      <4>. QED
        BY <4>1, <2>4
    <3>2. queued \in [1 .. c -> Nat]
      BY <3>1
    <3> HIDE DEF queued
    <3>. QED
      BY <3>2, <2>2
  <2> HIDE DEF queued
  <2>6. /\ out \o queued \in Seq(Nat) /\ Len(out \o queued) = Len(out) + c
        /\ \A i \in 1 .. Len(out) : (out \o queued)[i] = out[i]
        /\ \A i \in 1 .. c : (out \o queued)[Len(out) + i] = queued[i]
    <3>1. out \in Seq(Nat) /\ queued \in Seq(Nat) /\ Len(queued) = c /\ c \in Nat /\ Len(out) \in Nat
      BY <2>1, <2>2, <2>5
    <3>2. out \o queued \in Seq(Nat) /\ Len(out \o queued) = Len(out) + Len(queued)
      BY <3>1
    <3>3. \A i \in 1 .. Len(out) : (out \o queued)[i] = out[i]
      BY <3>1
    <3>4. \A i \in 1 .. c : (out \o queued)[Len(out) + i] = queued[i]
      BY <3>1
    <3>. QED
      BY <3>1, <3>2, <3>3, <3>4
  <2> DEFINE s == out \o queued
  <2> HIDE DEF s
  <2>7. Len(out) + c = sends
    BY <2>1, <2>2 DEF TxSync
  <2>8. \A i \in 1 .. sends : s[i] = i
    <3> TAKE i \in 1 .. sends
    <3>1. CASE i <= Len(out)
      <4>1. i \in 1 .. Len(out)
        BY <3>1, <2>1
      <4>. QED
        BY <4>1, <2>1, <2>6 DEF TxSync, s
    <3>2. CASE ~(i <= Len(out))
      <4>1. i - Len(out) \in 1 .. c /\ Len(out) + (i - Len(out)) = i
        BY <3>2, <2>1, <2>2, <2>7
      <4>2. s[Len(out) + (i - Len(out))] = queued[i - Len(out)]
        BY <4>1, <2>6 DEF s
      <4>3. queued[i - Len(out)] = Len(out) + (i - Len(out))
        BY <4>1, <2>4
      <4>. QED
        BY <4>1, <4>2, <4>3
    <3>. QED
      BY <3>1, <3>2
  <2>9. DOMAIN s = 1 .. sends /\ s = [i \in DOMAIN s |-> s[i]]
    <3>1. s \in Seq(Nat) /\ Len(s) = sends
      BY <2>6, <2>7 DEF s
    <3>. QED
      BY <3>1
  <2>10. s = [i \in 1 .. sends |-> i]
    BY <2>8, <2>9, Zenon
  <2>. QED
    BY <2>10 DEF s, queued, c
<1>. QED
  BY <1>1, TxInit, TxNext, PTL DEF Spec

-----------------------------------------------------------------------------
(* The checksum.  A set of numbers that is not empty has a least one. *)
LEMMA NatMin ==
  ASSUME NEW T, T \subseteq Nat, T # {}
  PROVE  \E x \in T : \A y \in T : x <= y
<1> DEFINE R == OpToRel(<, Nat)
<1>1. IsWellFoundedOn(R, Nat)
  BY NatLessThanWellFounded
<1>2. \A x, y \in Nat : <<x, y>> \in R <=> x < y
  BY DEF OpToRel
<1> HIDE DEF R
<1>3. PICK x \in T : \A y \in T : ~ (<<y, x>> \in R)
  BY <1>1, WFMin
<1>4. \A y \in T : ~ (y < x) /\ y \in Nat /\ x \in Nat
  BY <1>2, <1>3
<1>5. \A y \in T : x <= y
  BY <1>4
<1>. QED
  BY <1>5

(* f holds the sums of the first words of s. *)
IsSum(f, s) == f = [i \in 0 .. Len(s) |-> IF i = 0 THEN 0 ELSE f[i - 1] + s[i]]

LEMMA SumExists ==
  ASSUME NEW s \in Seq(Nat)
  PROVE  \E f : IsSum(f, s)
<1> DEFINE Upto(n, f) == f = [i \in 0 .. n |-> IF i = 0 THEN 0 ELSE f[i - 1] + s[i]]
           T == {n \in Nat : ~\E f : Upto(n, f)}
<1>1. T = {}
  <2> SUFFICES ASSUME T # {} PROVE FALSE
    OBVIOUS
  <2>1. PICK x \in T : \A y \in T : x <= y
    <3>1. T \subseteq Nat
      OBVIOUS
    <3> HIDE DEF T
    <3>. QED
      BY <3>1, NatMin
  <2>2. x \in Nat /\ ~\E f : Upto(x, f)
    BY <2>1
  <2>3. x # 0
    <3>1. Upto(0, [i \in 0 .. 0 |-> 0])
      <4> DEFINE z == [i \in 0 .. 0 |-> 0]
      <4>1. \A i \in 0 .. 0 : i = 0
        OBVIOUS
      <4>2. z = [i \in 0 .. 0 |-> IF i = 0 THEN 0 ELSE z[i - 1] + s[i]]
        BY <4>1, Zenon
      <4>. QED
        BY <4>2
    <3>. QED
      BY <3>1, <2>2
  <2>4. x - 1 \in Nat /\ x - 1 \notin T
    <3>1. x - 1 \in Nat /\ ~(x <= x - 1)
      BY <2>2, <2>3
    <3> HIDE DEF T
    <3>. QED
      BY <3>1, <2>1
  <2>5. PICK g : Upto(x - 1, g)
    BY <2>4
  <2> DEFINE f == [i \in 0 .. x |-> IF i = x THEN g[x - 1] + s[x] ELSE g[i]]
  <2>6. \A i \in 0 .. x : f[i] = IF i = 0 THEN 0 ELSE f[i - 1] + s[i]
    <3> TAKE i \in 0 .. x
    <3>1. CASE i = x
      BY <3>1, <2>2, <2>3
    <3>2. CASE i # x
      <4>1. /\ i \in 0 .. x - 1 /\ f[i] = g[i]
            /\ i # 0 => i - 1 \in 0 .. x /\ i - 1 # x
        BY <3>2, <2>2
      <4>2. i # 0 => f[i - 1] = g[i - 1]
        BY <4>1
      <4>3. \A j \in 0 .. x - 1 : g[j] = IF j = 0 THEN 0 ELSE g[j - 1] + s[j]
        BY <2>5, Zenon
      <4>4. g[i] = IF i = 0 THEN 0 ELSE g[i - 1] + s[i]
        BY <4>1, <4>3
      <4> HIDE DEF f
      <4>. QED
        BY <4>1, <4>2, <4>4
    <3>. QED
      BY <3>1, <3>2
  <2>7. Upto(x, f)
    <3>1. f = [i \in 0 .. x |-> f[i]]
      OBVIOUS
    <3> HIDE DEF f
    <3>. QED
      BY <2>6, <3>1, Zenon
  <2>. QED
    BY <2>2, <2>7
<1>2. Len(s) \in Nat
  OBVIOUS
<1>. QED
  BY <1>1, <1>2 DEF IsSum

(* Total is the last of them. *)
LEMMA TotalIsSum ==
  ASSUME NEW s \in Seq(Nat)
  PROVE  \E f : /\ Total(s) = f[Len(s)] /\ f[0] = 0
                /\ \A i \in 1 .. Len(s) : f[i] = f[i - 1] + s[i]
<1> DEFINE f == CHOOSE g : IsSum(g, s)
<1>1. Total(s) = f[Len(s)]
  BY DEF Total, IsSum
<1>2. IsSum(f, s)
  BY SumExists
<1> HIDE DEF f
<1>3. \A i \in 0 .. Len(s) : f[i] = IF i = 0 THEN 0 ELSE f[i - 1] + s[i]
  BY <1>2, Zenon DEF IsSum
<1>4. 0 \in 0 .. Len(s) /\ \A i \in 1 .. Len(s) : i \in 0 .. Len(s) /\ i # 0
  OBVIOUS
<1>. QED
  BY <1>1, <1>3, <1>4

LEMMA SumsBounded ==
  ASSUME NEW n \in Nat, NEW M \in Nat, NEW f, NEW s, f[0] = 0,
         \A i \in 1 .. n : f[i] = f[i - 1] + s[i] /\ s[i] \in 0 .. M - 1
  PROVE  \A i \in 0 .. n : f[i] \in Nat /\ f[i] <= i * M
<1> DEFINE T == {i \in 0 .. n : ~(f[i] \in Nat /\ f[i] <= i * M)}
<1>1. T = {}
  <2> SUFFICES ASSUME T # {} PROVE FALSE
    OBVIOUS
  <2>1. PICK x \in T : \A y \in T : x <= y
    <3>1. T \subseteq Nat
      OBVIOUS
    <3> HIDE DEF T
    <3>. QED
      BY <3>1, NatMin
  <2>2. x \in 1 .. n
    BY <2>1
  <2>3. x - 1 \in 0 .. n /\ x - 1 \notin T
    <3>1. x - 1 \in 0 .. n /\ ~(x <= x - 1)
      BY <2>2
    <3> HIDE DEF T
    <3>. QED
      BY <3>1, <2>1
  <2>4. f[x - 1] \in Nat /\ f[x - 1] <= (x - 1) * M
    BY <2>3
  <2>5. f[x] = f[x - 1] + s[x] /\ s[x] \in 0 .. M - 1
    BY <2>2
  <2>6. (x - 1) * M + M = x * M /\ (x - 1) * M \in Nat /\ x * M \in Nat
    BY <2>2
  <2>7. f[x] \in Nat /\ f[x] <= x * M
    BY <2>4, <2>5, <2>6
  <2>. QED
    BY <2>1, <2>7
<1>. QED
  BY <1>1

LEMMA SumsEqual ==
  ASSUME NEW n \in Nat, NEW f, NEW g, NEW s, f[0] = 0, g[0] = 0,
         \A i \in 1 .. n : f[i] = f[i - 1] + s[i],
         \A i \in 1 .. n : g[i] = g[i - 1] + s[i]
  PROVE  f[n] = g[n]
<1> DEFINE T == {i \in 0 .. n : f[i] # g[i]}
<1>1. T = {}
  <2> SUFFICES ASSUME T # {} PROVE FALSE
    OBVIOUS
  <2>1. PICK x \in T : \A y \in T : x <= y
    <3>1. T \subseteq Nat
      OBVIOUS
    <3> HIDE DEF T
    <3>. QED
      BY <3>1, NatMin
  <2>2. x \in 1 .. n
    BY <2>1
  <2>3. x - 1 \in 0 .. n /\ x - 1 \notin T
    <3>1. x - 1 \in 0 .. n /\ ~(x <= x - 1)
      BY <2>2
    <3> HIDE DEF T
    <3>. QED
      BY <3>1, <2>1
  <2>4. f[x - 1] = g[x - 1]
    BY <2>3
  <2>5. f[x] = g[x]
    BY <2>2, <2>4
  <2>. QED
    BY <2>1, <2>5
<1>2. n \in 0 .. n
  OBVIOUS
<1>. QED
  BY <1>1, <1>2

LEMMA TotalAppend ==
  ASSUME NEW M \in Nat, NEW h \in Seq(0 .. M - 1), NEW x \in Nat
  PROVE  /\ Total(h) \in Nat /\ Total(h) <= Len(h) * M
         /\ Total(Append(h, x)) = Total(h) + x
<1> DEFINE n == Len(h)
           a == Append(h, x)
<1>1. h \in Seq(Nat) /\ n \in Nat /\ \A i \in 1 .. n : h[i] \in 0 .. M - 1
  OBVIOUS
<1>2. PICK f : /\ Total(h) = f[n] /\ f[0] = 0
               /\ \A i \in 1 .. n : f[i] = f[i - 1] + h[i]
  BY <1>1, TotalIsSum
<1>3. a \in Seq(Nat) /\ Len(a) = n + 1 /\ a[n + 1] = x /\ \A i \in 1 .. n : a[i] = h[i]
  BY <1>1, AppendProperties
<1>4. PICK g : /\ Total(a) = g[Len(a)] /\ g[0] = 0
               /\ \A i \in 1 .. Len(a) : g[i] = g[i - 1] + a[i]
  BY <1>3, TotalIsSum
<1>5. \A i \in 0 .. n : f[i] \in Nat /\ f[i] <= i * M
  BY <1>1, <1>2, SumsBounded
<1> HIDE DEF a, n
<1>6. \A i \in 1 .. n : g[i] = g[i - 1] + h[i]
  <2> TAKE i \in 1 .. n
  <2>1. i \in 1 .. Len(a)
    BY <1>1, <1>3
  <2>. QED
    BY <2>1, <1>3, <1>4
<1>7. f[n] = g[n]
  BY <1>1, <1>2, <1>4, <1>6, SumsEqual
<1>8. n + 1 \in 1 .. Len(a) /\ (n + 1) - 1 = n /\ n \in 0 .. n
  BY <1>1, <1>3
<1>9. g[n + 1] = g[(n + 1) - 1] + a[n + 1]
  BY <1>4, <1>8
<1>10. Total(a) = g[n] + x
  BY <1>3, <1>4, <1>8, <1>9
<1>. QED
  BY <1>2, <1>5, <1>7, <1>8, <1>10 DEF a, n

LEMMA MultipleModulo ==
  ASSUME NEW N \in Nat \ {0}, NEW j \in Nat
  PROVE  (j * N) % N = 0
<1> DEFINE a == j * N
           d == a \div N
           r == a % N
<1>1. a \in Nat
  OBVIOUS
<1> HIDE DEF a
<1>2. a = N * d + r /\ r \in 0 .. N - 1 /\ d \in Int
  BY <1>1
<1> HIDE DEF d, r
<1>3. r = N * (j - d)
  BY <1>2 DEF a
<1>4. j - d <= 0
  <2>1. j - d >= 1 => N * (j - d) >= N
    BY <1>2
  <2>. QED
    BY <2>1, <1>2, <1>3
<1>5. j - d >= 0
  <2>1. j - d < 0 => N * (j - d) < 0
    BY <1>2
  <2>. QED
    BY <2>1, <1>2, <1>3
<1>6. j - d = 0
  BY <1>2, <1>4, <1>5
<1>7. r = 0
  BY <1>3, <1>6
<1>. QED
  BY <1>7 DEF r, a

(* The ones' complement sum of words that fold to less than two moduli. *)
LEMMA ChecksumCompletes ==
  ASSUME NEW M \in Nat \ {0, 1}, NEW L \in Nat, L < M, NEW t \in Nat, t <= L * M
  PROVE  LET folded == (t % M) + (t \div M)
             checksum == IF folded > M - 1 THEN folded + 1 ELSE folded
             word == M - 1 - (checksum % M)
         IN  word \in 0 .. M - 1 /\ (t + word) % (M - 1) = 0 /\ t + word > 0
<1> DEFINE q == t \div M
           r == t % M
           folded == r + q
           checksum == IF folded > M - 1 THEN folded + 1 ELSE folded
           word == M - 1 - (checksum % M)
<1>1. t = M * q + r /\ r \in 0 .. M - 1 /\ q \in Nat
  OBVIOUS
<1> HIDE DEF q, r
<1>2. q <= L
  <2>1. q >= L + 1 => M * q >= M * (L + 1)
    BY <1>1
  <2>2. M * (L + 1) = L * M + M
    OBVIOUS
  <2>3. M * q \in Nat /\ L * M \in Nat
    BY <1>1
  <2>. QED
    BY <2>1, <2>2, <2>3, <1>1
<1>3. folded \in 0 .. 2 * M - 2
  BY <1>1, <1>2
<1>4. t = q * (M - 1) + folded
  BY <1>1
<1> HIDE DEF folded
<1>5. CASE folded > M - 1
  <2>1. checksum = folded + 1 /\ checksum \in M .. 2 * M - 1
    BY <1>3, <1>5
  <2>2. checksum % M = checksum - M
    <3>1. checksum - M \in 0 .. M - 1
      BY <2>1
    <3> HIDE DEF checksum
    <3>2. checksum \in Nat /\ checksum >= M /\ checksum < 2 * M
      BY <2>1
    <3>. QED
      BY <3>2
  <2>3. word = 2 * (M - 1) - folded
    BY <2>1, <2>2, <1>3
  <2> HIDE DEF word
  <2>4. word \in 0 .. M - 1
    BY <2>3, <1>3, <1>5
  <2>5. t + word = (q + 2) * (M - 1)
    BY <2>3, <1>1, <1>3, <1>4
  <2>6. M - 1 \in Nat \ {0} /\ q + 2 \in Nat
    BY <1>1
  <2>7. (t + word) % (M - 1) = 0
    BY <2>5, <2>6, MultipleModulo
  <2>8. t + word > 0
    <3>1. q * (M - 1) >= 0
      BY <1>1
    <3>. QED
      BY <3>1, <2>4, <1>1, <1>3, <1>4, <1>5
  <2>. QED
    BY <2>4, <2>7, <2>8 DEF word, checksum, folded, q, r
<1>6. CASE ~(folded > M - 1)
  <2>1. checksum = folded /\ checksum \in 0 .. M - 1
    BY <1>3, <1>6
  <2>2. checksum % M = checksum
    <3> HIDE DEF checksum
    <3>. QED
      BY <2>1
  <2>3. word = (M - 1) - folded
    BY <2>1, <2>2, <1>3
  <2> HIDE DEF word
  <2>4. word \in 0 .. M - 1
    BY <2>3, <1>3, <1>6
  <2>5. t + word = (q + 1) * (M - 1)
    BY <2>3, <1>1, <1>3, <1>4
  <2>6. M - 1 \in Nat \ {0} /\ q + 1 \in Nat
    BY <1>1
  <2>7. (t + word) % (M - 1) = 0
    BY <2>5, <2>6, MultipleModulo
  <2>8. t + word > 0
    <3>1. q * (M - 1) >= 0
      BY <1>1
    <3>. QED
      BY <3>1, <2>3, <1>1, <1>3, <1>4
  <2>. QED
    BY <2>4, <2>7, <2>8 DEF word, checksum, folded, q, r
<1>. QED
  BY <1>5, <1>6

(* get_checksum makes every header of fewer than Modulus words verify. *)
LEMMA GetChecksumVerifies ==
  ASSUME NEW h \in Seq(0 .. Modulus - 1), Len(h) < Modulus
  PROVE  LET all == Append(h, GetChecksum(h))
         IN  Total(all) % (Modulus - 1) = 0 /\ Total(all) > 0
<1> DEFINE t == Total(h)
<1>1. Modulus \in Nat \ {0, 1} /\ Len(h) \in Nat
  BY NetAssumption
<1>2. t \in Nat /\ t <= Len(h) * Modulus
  <2>1. 0 \in Nat
    OBVIOUS
  <2>. QED
    BY <2>1, <1>1, TotalAppend
<1> HIDE DEF t
<1>3. /\ GetChecksum(h) \in 0 .. Modulus - 1
      /\ (t + GetChecksum(h)) % (Modulus - 1) = 0 /\ t + GetChecksum(h) > 0
  BY <1>1, <1>2, ChecksumCompletes DEF GetChecksum, t
<1>4. Total(Append(h, GetChecksum(h))) = t + GetChecksum(h)
  <2>1. GetChecksum(h) \in Nat
    BY <1>1, <1>3
  <2>. QED
    BY <2>1, <1>1, TotalAppend DEF t
<1>. QED
  BY <1>3, <1>4

-----------------------------------------------------------------------------
(* What is in the descriptors. *)
HeadersVerify ==
  /\ load \in Workloads /\ tx_tail \in TxIndex
  /\ txd = [i \in TxIndex |-> txd[i]]
  /\ \A i \in TxIndex :
       txd[i].frame # 0 =>
         \E h \in load.headers : txd[i].header = Append(h, GetChecksum(h))

LEMMA SendHeaders ==
  ASSUME HeadersVerify, NEW header \in load.headers, SendIpv4(header)
  PROVE  HeadersVerify'
<1> DEFINE e == [frame |-> sends + 1, header |-> Append(header, GetChecksum(header))]
<1>1. /\ UNCHANGED load /\ txd' = [txd EXCEPT ![tx_tail] = e]
      /\ tx_tail' = (tx_tail + 1) % NUM_TX_DESCS
  BY DEF SendIpv4, Filled
<1>2. e.header = Append(header, GetChecksum(header))
  OBVIOUS
<1> HIDE DEF e
<1>3. tx_tail' \in TxIndex
  BY <1>1, NetAssumption DEF HeadersVerify, TxIndex
<1>4. DOMAIN txd = TxIndex /\ tx_tail \in TxIndex
  BY DEF HeadersVerify
<1>5. /\ txd' = [i \in TxIndex |-> txd'[i]] /\ txd'[tx_tail] = e
      /\ \A i \in TxIndex \ {tx_tail} : txd'[i] = txd[i]
  BY <1>1, <1>4
<1>6. ASSUME NEW i \in TxIndex, txd'[i].frame # 0
      PROVE  \E h \in load'.headers : txd'[i].header = Append(h, GetChecksum(h))
  <2>1. CASE i = tx_tail
    BY <2>1, <1>1, <1>2, <1>5
  <2>2. CASE i # tx_tail
    BY <2>2, <1>1, <1>5, <1>6 DEF HeadersVerify
  <2>. QED
    BY <2>1, <2>2
<1>. QED
  BY <1>1, <1>3, <1>5, <1>6 DEF HeadersVerify

LEMMA HeadersNext == HeadersVerify /\ [Next]_vars => HeadersVerify'
<1> SUFFICES ASSUME HeadersVerify, [Next]_vars PROVE HeadersVerify'
  OBVIOUS
<1>1. UNCHANGED <<load, txd, tx_tail>> => HeadersVerify'
  BY DEF HeadersVerify
<1>2. CASE CardSends \/ CardReceives \/ HandlerEnter \/ HandlerCheck \/ HandlerTake \/ PacketHandler
  BY <1>1, <1>2 DEF CardSends, CardReceives, HandlerEnter, HandlerCheck, HandlerTake, PacketHandler, txVars
<1>3. ASSUME NEW s \in load.sockets, SysSocket(s) \/ SysRecvMsg(s) PROVE HeadersVerify'
  BY <1>1, <1>3 DEF SysSocket, SysRecvMsg, UdpRecvMsg, IcmpRecvMsg, TakePacket, txVars
<1>4. ASSUME NEW s \in load.sockets, NEW header \in load.headers, SysSendMsg(s, header)
      PROVE  HeadersVerify'
  BY <1>4, SendHeaders DEF SysSendMsg, UdpSendMsg, IcmpSendMsg
<1>5. CASE UNCHANGED vars
  BY <1>1, <1>5 DEF vars, txVars
<1>. QED
  BY <1>2, <1>3, <1>4, <1>5 DEF Next

(* Every header handed to the card verifies at its receiver, whatever its  *)
(* words are, for every word size, as long as it has fewer words than the  *)
(* modulus (an IPv4 header has ten words of 16 bits).                      *)
THEOREM ChecksumVerifiesCorrect == Spec => []ChecksumVerifies
<1>1. Init => HeadersVerify
  BY NetAssumption DEF Init, HeadersVerify, TxIndex
<1>2. HeadersVerify => ChecksumVerifies
  <2> SUFFICES ASSUME HeadersVerify, NEW i \in TxIndex, txd[i].frame # 0
               PROVE  Total(txd[i].header) % (Modulus - 1) = 0 /\ Total(txd[i].header) > 0
    BY DEF ChecksumVerifies
  <2>1. PICK h \in load.headers : txd[i].header = Append(h, GetChecksum(h))
    BY DEF HeadersVerify
  <2>2. h \in Seq(0 .. Modulus - 1) /\ Len(h) < Modulus
    BY NetAssumption DEF HeadersVerify
  <2>. QED
    BY <2>1, <2>2, GetChecksumVerifies
<1>. QED
  BY <1>1, <1>2, HeadersNext, PTL DEF Spec
=============================================================================
