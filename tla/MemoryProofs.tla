---------------------------- MODULE MemoryProofs ----------------------------
(***************************************************************************)
(* The heap and the address spaces share the physical memory correctly, for *)
(* any amount of memory, any fanout of the tables and any number of tasks  *)
(* and callers: what HeapProofs shows of the heap holds of the whole, every *)
(* table belongs to the tree of one space, and every page has one use.     *)
(***************************************************************************)
EXTENDS Memory, HeapProofs

-----------------------------------------------------------------------------
(* Addresses.  The table of level l that maps virtual page v is number     *)
(* Base(v, l) of its level, and the child of table b at index i is number  *)
(* Child(b, i) of the next one.                                            *)
Limit == Fanout * Fanout * Fanout * Fanout
Addresses == 0 .. Limit - 1
Child(b, i) == b * Fanout + i
Base(v, l) == IF l = 4 THEN 0 ELSE v \div Shift(l)

LEMMA DivUnique ==
  ASSUME NEW d \in Nat \ {0}, NEW q \in Nat, NEW r \in Nat, r < d, NEW v, v = d * q + r
  PROVE  v \div d = q /\ v % d = r
<1> DEFINE a == v \div d
           b == v % d
<1>1. v \in Nat /\ d * q \in Nat
  OBVIOUS
<1>2. v = d * a + b /\ a \in Nat /\ b \in 0 .. d - 1
  BY <1>1
<1> HIDE DEF a, b
<1>3. ASSUME NEW x \in Nat, NEW y \in Nat, x < y PROVE d * x + d <= d * y /\ d * x \in Nat /\ d * y \in Nat
  <2>1. d * (x + 1) <= d * y
    BY <1>3
  <2>2. d * (x + 1) = d * x + d /\ d * x \in Nat /\ d * y \in Nat
    OBVIOUS
  <2>. QED
    BY <2>1, <2>2
<1>4. ~ (a < q)
  BY <1>1, <1>2, <1>3
<1>5. ~ (q < a)
  BY <1>1, <1>2, <1>3
<1>6. a = q
  BY <1>2, <1>4, <1>5
<1>. QED
  BY <1>1, <1>2, <1>6 DEF a, b

LEMMA DivDiv ==
  \A v \in Nat : \A a, c \in Nat \ {0} : (v \div a) \div c = v \div (a * c)
<1> SUFFICES ASSUME NEW v \in Nat, NEW a \in Nat \ {0}, NEW c \in Nat \ {0}
             PROVE  (v \div a) \div c = v \div (a * c)
  OBVIOUS
<1> DEFINE q == v \div a
           r == v % a
           q2 == q \div c
           r2 == q % c
<1>1. v = a * q + r /\ q \in Nat /\ r \in 0 .. a - 1
  OBVIOUS
<1> HIDE DEF q, r
<1>2. q = c * q2 + r2 /\ q2 \in Nat /\ r2 \in 0 .. c - 1
  BY <1>1
<1> HIDE DEF q2, r2
<1>3. a * c \in Nat \ {0}
  OBVIOUS
<1>4. v = (a * c) * q2 + (a * r2 + r)
  <2>1. a * (c * q2 + r2) = (a * c) * q2 + a * r2
    BY <1>2
  <2>2. (a * c) * q2 \in Nat /\ a * r2 \in Nat
    BY <1>2
  <2>. QED
    BY <2>1, <2>2, <1>1, <1>2
<1>5. a * r2 + r < a * c /\ a * r2 + r \in Nat
  <2>1. a * r2 + a <= a * c
    <3>1. a * (r2 + 1) <= a * c
      BY <1>2
    <3>2. a * (r2 + 1) = a * r2 + a
      BY <1>2
    <3>. QED
      BY <3>1, <3>2
  <2>2. a * r2 \in Nat /\ a * c \in Nat
    BY <1>2
  <2>. QED
    BY <2>1, <2>2, <1>1
<1> DEFINE d == a * c
           e == a * r2 + r
<1>6. d \in Nat \ {0} /\ e \in Nat /\ e < d /\ v = d * q2 + e
  BY <1>3, <1>4, <1>5
<1> HIDE DEF d, e
<1>7. v \div d = q2
  BY <1>2, <1>6, DivUnique
<1>. QED
  BY <1>7 DEF d, q2, q

LEMMA ChildUnique ==
  /\ \A b \in Nat, i \in Index : Child(b, i) \in Nat
  /\ \A b, c \in Nat, i, j \in Index : Child(b, i) = Child(c, j) => b = c /\ i = j
<1>1. Fanout \in Nat \ {0}
  BY SpaceAssumption
<1>2. ASSUME NEW b \in Nat, NEW i \in Index
      PROVE  Child(b, i) \in Nat /\ Child(b, i) \div Fanout = b /\ Child(b, i) % Fanout = i
  <2>1. i \in Nat /\ i < Fanout
    BY <1>1 DEF Index
  <2>2. Child(b, i) = Fanout * b + i /\ Fanout * b \in Nat
    BY <1>1, <2>1 DEF Child
  <2>3. Child(b, i) \in Nat
    BY <2>1, <2>2
  <2>. QED
    BY <2>1, <2>2, <2>3, <1>1, DivUnique
<1>. QED
  BY <1>2

(* How the indices of a walk follow each other. *)
LEMMA WalkIndices ==
  ASSUME NEW v \in Addresses
  PROVE  /\ v \in Nat /\ \A l \in 1 .. 4 : Offset(v, l) \in Index /\ Base(v, l) \in Nat
         /\ Base(v, 4) = 0 /\ Child(0, Offset(v, 4)) = Base(v, 3)
         /\ Child(Base(v, 3), Offset(v, 3)) = Base(v, 2)
         /\ Child(Base(v, 2), Offset(v, 2)) = Base(v, 1)
         /\ Child(Base(v, 1), Offset(v, 1)) = v
<1> DEFINE F == Fanout
           F2 == F * F
           F3 == F * F * F
<1>1. F \in Nat \ {0} /\ F2 \in Nat \ {0} /\ F3 \in Nat \ {0} /\ Limit \in Nat \ {0}
  BY SpaceAssumption DEF Limit
<1>2. v \in Nat /\ v < F3 * F
  BY <1>1 DEF Addresses, Limit
<1>0. \A a, c \in Nat \ {0} : (v \div a) \div c = v \div (a * c)
  BY <1>2, DivDiv, Zenon
<1>3. (v \div F) \div F = v \div F2
  <2>1. F \in Nat \ {0} /\ F2 = F * F
    BY <1>1
  <2> HIDE DEF F, F2
  <2>2. (v \div F) \div F = v \div (F * F)
    BY <2>1, <1>0, Zenon
  <2>. QED
    BY <2>1, <2>2, Zenon
<1>4. (v \div F2) \div F = v \div F3
  <2>1. F3 = F2 * F /\ F \in Nat \ {0} /\ F2 \in Nat \ {0}
    BY <1>1
  <2> HIDE DEF F, F2, F3
  <2>2. (v \div F2) \div F = v \div (F2 * F)
    BY <2>1, <1>0, Zenon
  <2>. QED
    BY <2>1, <2>2, Zenon
<1>5. v \div 1 = v
  BY <1>2
<1>6. /\ Shift(0) = 1 /\ Shift(1) = F /\ Shift(2) = F2 /\ Shift(3) = F3
  BY DEF Shift
<1>7. /\ Offset(v, 4) = (v \div F3) % F /\ Offset(v, 3) = (v \div F2) % F
      /\ Offset(v, 2) = (v \div F) % F /\ Offset(v, 1) = v % F
  BY <1>5, <1>6 DEF Offset
<1>8. Base(v, 4) = 0 /\ Base(v, 3) = v \div F3 /\ Base(v, 2) = v \div F2 /\ Base(v, 1) = v \div F
  BY <1>6 DEF Base
<1>9. v \div F \in Nat /\ v \div F2 \in Nat /\ v \div F3 \in Nat
  BY <1>1, <1>2
<1>10. v \div F3 < F
  <2> DEFINE q == v \div F3
             r == v % F3
  <2>1. v = F3 * q + r /\ q \in Nat /\ r \in Nat
    BY <1>1, <1>2
  <2> HIDE DEF q, r, F3
  <2>2. ASSUME q >= F PROVE FALSE
    <3>1. F3 * q >= F3 * F
      BY <2>1, <2>2, <1>1
    <3>2. F3 * q \in Nat /\ F3 * F \in Nat
      BY <2>1, <1>1
    <3>. QED
      BY <3>1, <3>2, <2>1, <1>2
  <2>3. q < F
    BY <2>1, <2>2, <1>1
  <2>. QED
    BY <2>3 DEF q
<1> HIDE DEF F2, F3
<1>11. ASSUME NEW x \in Nat PROVE (x \div F) * F + (x % F) = x /\ x % F \in Index
  <2>1. x = F * (x \div F) + (x % F) /\ x \div F \in Nat /\ x % F \in 0 .. F - 1
    BY <1>1
  <2>2. F * (x \div F) = (x \div F) * F
    BY <2>1, <1>1
  <2>. QED
    BY <2>1, <2>2 DEF Index
<1> HIDE DEF F
<1>12. (v \div F3) % F = v \div F3
  BY <1>1, <1>9, <1>10
<1>13. \A l \in 1 .. 4 : l = 1 \/ l = 2 \/ l = 3 \/ l = 4
  OBVIOUS
<1>14. \A l \in 1 .. 4 : Offset(v, l) \in Index /\ Base(v, l) \in Nat
  BY <1>2, <1>7, <1>8, <1>9, <1>11, <1>13
<1>15. /\ (v \div F2) = (v \div F3) * F + ((v \div F2) % F)
       /\ (v \div F) = (v \div F2) * F + ((v \div F) % F)
       /\ v = (v \div F) * F + (v % F)
  BY <1>2, <1>3, <1>4, <1>9, <1>11
<1>16. Child(0, Offset(v, 4)) = Base(v, 3)
  BY <1>1, <1>7, <1>8, <1>9, <1>12 DEF Child, F
<1>. QED
  BY <1>2, <1>7, <1>8, <1>14, <1>15, <1>16 DEF Child, F

-----------------------------------------------------------------------------
(* Trees of tables.  A label says for a table in which space it is, its    *)
(* level, and its number there; `k` is the kernel's pml4 and S are those   *)
(* of the tasks.  Tables of the kernel's half belong to the kernel.        *)
Label(s, l, b) == [sp |-> s, lv |-> l, base |-> b]

TableTypes(T) == DOMAIN T \subseteq Pages /\ T \in [DOMAIN T -> [Index -> Nat]]

Labelled(T, lab, k, S) ==
  /\ lab \in [DOMAIN T -> [sp : {k} \cup S, lv : 1 .. 4, base : Nat]]
  /\ \A p, q \in DOMAIN T : lab[p] = lab[q] => p = q
  /\ \A s \in {k} \cup S : s \in DOMAIN T /\ lab[s] = Label(s, 4, 0)
  /\ \A p \in DOMAIN T : lab[p].lv = 4 => lab[p].sp = p

(* The kernel's half of all pml4 is the same; its other half is empty. *)
Shared(T, k, S) ==
  /\ k \notin S
  /\ \A s \in S, i \in HigherHalf : T[s][i] = T[k][i]
  /\ \A i \in LowerHalf : T[k][i] = 0

EntryOwner(lab, k, p, i) == IF lab[p].lv = 4 /\ i \in HigherHalf THEN k ELSE lab[p].sp

(* An entry leads to the table with the right label, *)
Down(T, lab, k) ==
  \A p \in DOMAIN T, i \in Index :
    lab[p].lv # 1 /\ T[p][i] # 0 =>
      /\ T[p][i] \in DOMAIN T
      /\ lab[T[p][i]] = Label(EntryOwner(lab, k, p, i), lab[p].lv - 1, Child(lab[p].base, i))

(* and every table but a pml4 is reached from one of its own space. *)
Up(T, lab, k) ==
  \A q \in DOMAIN T : lab[q].lv # 4 =>
    \E p \in DOMAIN T, i \in Index :
      /\ T[p][i] = q /\ lab[p].lv = lab[q].lv + 1 /\ lab[p].sp = lab[q].sp
      /\ lab[p].lv = 4 => (i \in HigherHalf <=> p = k)

TreeOK(T, lab, k, S) ==
  TableTypes(T) /\ Labelled(T, lab, k, S) /\ Shared(T, k, S) /\ Down(T, lab, k) /\ Up(T, lab, k)

LEMMA EntryFacts ==
  /\ \A f \in Nat : Entry(f) \in Nat \ {0} /\ Entry(f) - 1 = f
  /\ \A e \in Nat \ {0} : e - 1 \in Nat /\ Entry(e - 1) = e
  BY DEF Entry

(* Virtual page v of the part of space s that is its own is mapped to f. *)
At(T, lab, s, v, f) ==
  /\ f \in Nat
  /\ \E p \in DOMAIN T, i \in Index :
       lab[p].lv = 1 /\ lab[p].sp = s /\ Child(lab[p].base, i) = v /\ T[p][i] = Entry(f)

(* No table and no entry gets lost. *)
Grows(T, lab, T2, lab2) ==
  /\ DOMAIN T \subseteq DOMAIN T2
  /\ \A p \in DOMAIN T : lab2[p] = lab[p] /\ \A i \in Index : T[p][i] # 0 => T2[p][i] = T[p][i]

SameMaps(T, lab, T2, lab2) == \A s, v, f : At(T2, lab2, s, v, f) <=> At(T, lab, s, v, f)

LEMMA LabelFacts ==
  ASSUME NEW T, NEW lab, NEW k, NEW S, TreeOK(T, lab, k, S), NEW p \in DOMAIN T
  PROVE  /\ p \in Nat \ {0} /\ T[p] \in [Index -> Nat] /\ lab[p].lv \in 1 .. 4 /\ lab[p].base \in Nat
         /\ lab[p].sp \in {k} \cup S /\ lab[p] = Label(lab[p].sp, lab[p].lv, lab[p].base)
  BY MaxPageIsNat DEF TreeOK, TableTypes, Labelled, Label, Pages

LEMMA Halves == /\ LowerHalf \subseteq Index /\ HigherHalf \subseteq Index
                /\ LowerHalf \cup HigherHalf = Index /\ LowerHalf \cap HigherHalf = {}
<1>1. Fanout \in Nat /\ Fanout \div 2 \in Nat /\ Fanout \div 2 <= Fanout
  BY SpaceAssumption
<1>. QED
  BY <1>1 DEF LowerHalf, HigherHalf, Index

(* The new table at index i of table p. *)
WithTable(T, p, i, n) ==
  [q \in DOMAIN T \cup {n} |->
     IF q = n THEN EmptyTable ELSE IF q = p THEN [T[p] EXCEPT ![i] = n] ELSE T[q]]
WithLabel(T, lab, p, i, n) ==
  [q \in DOMAIN T \cup {n} |->
     IF q = n THEN Label(lab[p].sp, lab[p].lv - 1, Child(lab[p].base, i)) ELSE lab[q]]

(* A pml4 gets new tables in its own half only; the kernel, before there   *)
(* is another space.                                                       *)
MayAdd(lab, k, S, p, i) ==
  lab[p].lv = 4 => IF i \in LowerHalf THEN p # k ELSE p = k /\ S = {}

LEMMA AddTable ==
  ASSUME NEW T, NEW lab, NEW k, NEW S, TreeOK(T, lab, k, S),
         NEW n \in Pages \ DOMAIN T, NEW p \in DOMAIN T, NEW i \in Index,
         T[p][i] = 0, lab[p].lv # 1, MayAdd(lab, k, S, p, i),
         NEW T2, T2 = WithTable(T, p, i, n), NEW lab2, lab2 = WithLabel(T, lab, p, i, n)
  PROVE  TreeOK(T2, lab2, k, S) /\ Grows(T, lab, T2, lab2) /\ SameMaps(T, lab, T2, lab2)
<1> DEFINE new == Label(lab[p].sp, lab[p].lv - 1, Child(lab[p].base, i))
<1>1. /\ p \in Nat \ {0} /\ lab[p].lv \in 2 .. 4 /\ lab[p].base \in Nat /\ lab[p].sp \in {k} \cup S
      /\ n \in Nat \ {0} /\ n # p /\ T[p] \in [Index -> Nat]
  BY LabelFacts, MaxPageIsNat DEF Pages
<1>2. new \in [sp : {k} \cup S, lv : 1 .. 4, base : Nat]
  BY <1>1, ChildUnique DEF Label
<1>3. /\ DOMAIN T2 = DOMAIN T \cup {n} /\ DOMAIN lab2 = DOMAIN T \cup {n}
      /\ lab2[n] = new /\ \A q \in DOMAIN T : lab2[q] = lab[q]
      /\ T2[n] = EmptyTable
  BY DEF WithTable, WithLabel
<1>4. /\ \A q \in DOMAIN T, j \in Index : T2[q][j] = IF q = p /\ j = i THEN n ELSE T[q][j]
      /\ \A j \in Index : T2[n][j] = 0
      /\ T2[p] = [T[p] EXCEPT ![i] = n] /\ \A q \in DOMAIN T : q # p => T2[q] = T[q]
  <2>1. T2[p] = [T[p] EXCEPT ![i] = n] /\ \A q \in DOMAIN T : q # p => T2[q] = T[q]
    BY <1>1 DEF WithTable
  <2>2. \A j \in Index : T2[n][j] = 0
    BY <1>3 DEF EmptyTable
  <2>3. \A j \in Index : T2[p][j] = IF j = i THEN n ELSE T[p][j]
    BY <2>1, <1>1
  <2>4. \A q \in DOMAIN T, j \in Index : T2[q][j] = IF q = p /\ j = i THEN n ELSE T[q][j]
    BY <2>1, <2>3
  <2>. QED
    BY <2>1, <2>2, <2>4
<1>5. TableTypes(T2)
  <2>1. \A q \in DOMAIN T2 : T2[q] \in [Index -> Nat]
    BY <1>1, <1>3, <1>4 DEF TreeOK, TableTypes, EmptyTable
  <2>2. T2 = [q \in DOMAIN T2 |-> T2[q]]
    BY DEF WithTable
  <2>. QED
    BY <2>1, <2>2, <1>3 DEF TreeOK, TableTypes
<1>6. \A q \in DOMAIN T : lab[q] # new
  <2> SUFFICES ASSUME NEW q \in DOMAIN T, lab[q] = new PROVE FALSE
    OBVIOUS
  <2>1. lab[q].lv = lab[p].lv - 1 /\ lab[q].sp = lab[p].sp /\ lab[q].base = Child(lab[p].base, i)
    BY DEF Label
  <2>2. PICK r \in DOMAIN T, j \in Index : T[r][j] = q /\ lab[r].lv = lab[q].lv + 1 /\ lab[r].sp = lab[q].sp
    BY <2>1, <1>1 DEF TreeOK, Up
  <2>3. /\ q # 0 /\ lab[r].lv = lab[p].lv /\ lab[r].base \in Nat /\ lab[r].lv # 1
        /\ lab[r] = Label(lab[r].sp, lab[r].lv, lab[r].base)
        /\ lab[p] = Label(lab[p].sp, lab[p].lv, lab[p].base)
    BY <2>1, <2>2, <1>1, LabelFacts
  <2>4. lab[q].base = Child(lab[r].base, j)
    <3>1. lab[q] = Label(EntryOwner(lab, k, r, j), lab[r].lv - 1, Child(lab[r].base, j))
      BY <2>2, <2>3 DEF TreeOK, Down
    <3>. QED
      BY <3>1 DEF Label
  <2>5. lab[r].base = lab[p].base /\ j = i
    <3>1. Child(lab[r].base, j) = Child(lab[p].base, i) /\ lab[r].base \in Nat /\ lab[p].base \in Nat
      BY <2>1, <2>3, <2>4, <1>1
    <3>. QED
      BY <3>1, ChildUnique
  <2>6. r = p
    <3>1. lab[r] = lab[p]
      BY <2>1, <2>2, <2>3, <2>5
    <3>. QED
      BY <3>1 DEF TreeOK, Labelled
  <2>. QED
    BY <2>2, <2>3, <2>5, <2>6
<1> HIDE DEF new
<1>7. Labelled(T2, lab2, k, S)
  <2>1. lab2 \in [DOMAIN T2 -> [sp : {k} \cup S, lv : 1 .. 4, base : Nat]]
    <3>1. \A q \in DOMAIN T2 : lab2[q] \in [sp : {k} \cup S, lv : 1 .. 4, base : Nat]
      BY <1>2, <1>3 DEF TreeOK, Labelled
    <3>2. lab2 = [q \in DOMAIN T2 |-> lab2[q]]
      BY <1>3 DEF WithLabel
    <3>. QED
      BY <3>1, <3>2
  <2>2. \A q, r \in DOMAIN T2 : lab2[q] = lab2[r] => q = r
    BY <1>3, <1>6 DEF TreeOK, Labelled
  <2>3. \A s \in {k} \cup S : s \in DOMAIN T2 /\ lab2[s] = Label(s, 4, 0)
    BY <1>3 DEF TreeOK, Labelled
  <2>4. new.lv # 4
    BY <1>1 DEF new, Label
  <2>5. \A q \in DOMAIN T2 : lab2[q].lv = 4 => lab2[q].sp = q
    BY <2>4, <1>3 DEF TreeOK, Labelled
  <2>. QED
    BY <2>1, <2>2, <2>3, <2>5 DEF Labelled
<1>8. Shared(T2, k, S)
  <2>1. \A s \in {k} \cup S : s \in DOMAIN T /\ lab[s].lv = 4
    <3>1. \A s \in {k} \cup S : s \in DOMAIN T /\ lab[s] = Label(s, 4, 0)
      BY DEF TreeOK, Labelled
    <3>2. \A s : Label(s, 4, 0).lv = 4
      BY DEF Label
    <3>. QED
      BY <3>1, <3>2
  <2>2. CASE p \in {k} \cup S
    <3>1. lab[p].lv = 4
      BY <2>1, <2>2
    <3>2. CASE i \in LowerHalf
      BY <3>1, <3>2, <2>1, <1>4, Halves DEF TreeOK, Shared, MayAdd
    <3>3. CASE i \notin LowerHalf
      BY <3>1, <3>3, <2>1, <1>4, Halves DEF TreeOK, Shared, MayAdd
    <3>. QED
      BY <3>2, <3>3
  <2>3. CASE p \notin {k} \cup S
    BY <2>1, <2>3, <1>4, Halves DEF TreeOK, Shared
  <2>. QED
    BY <2>2, <2>3
<1>9. Down(T2, lab2, k)
  <2> SUFFICES ASSUME NEW q \in DOMAIN T2, NEW j \in Index, lab2[q].lv # 1, T2[q][j] # 0
               PROVE  /\ T2[q][j] \in DOMAIN T2
                      /\ lab2[T2[q][j]] = Label(EntryOwner(lab2, k, q, j), lab2[q].lv - 1,
                                                Child(lab2[q].base, j))
    BY DEF Down
  <2>1. q \in DOMAIN T /\ lab2[q] = lab[q] /\ EntryOwner(lab2, k, q, j) = EntryOwner(lab, k, q, j)
    BY <1>3, <1>4 DEF EntryOwner
  <2>2. CASE q = p /\ j = i
    <3>1. T2[q][j] = n
      BY <2>1, <2>2, <1>4
    <3>2. EntryOwner(lab, k, p, i) = lab[p].sp
      <4>1. CASE lab[p].lv = 4 /\ i \in HigherHalf
        <5>1. p = k
          BY <4>1, Halves DEF MayAdd
        <5>. QED
          BY <4>1, <5>1 DEF EntryOwner, TreeOK, Labelled
      <4>2. CASE ~(lab[p].lv = 4 /\ i \in HigherHalf)
        BY <4>2 DEF EntryOwner
      <4>. QED
        BY <4>1, <4>2
    <3>. QED
      BY <3>1, <3>2, <2>1, <2>2, <1>3 DEF new
  <2>3. CASE ~(q = p /\ j = i)
    <3>1. T2[q][j] = T[q][j]
      BY <2>1, <2>3, <1>4
    <3>2. /\ T[q][j] \in DOMAIN T
          /\ lab[T[q][j]] = Label(EntryOwner(lab, k, q, j), lab[q].lv - 1, Child(lab[q].base, j))
      BY <3>1, <2>1 DEF TreeOK, Down
    <3>. QED
      BY <3>1, <3>2, <2>1, <1>3
  <2>. QED
    BY <2>2, <2>3
<1>10. Up(T2, lab2, k)
  <2> SUFFICES ASSUME NEW q \in DOMAIN T2, lab2[q].lv # 4
               PROVE  \E r \in DOMAIN T2, j \in Index :
                        /\ T2[r][j] = q /\ lab2[r].lv = lab2[q].lv + 1 /\ lab2[r].sp = lab2[q].sp
                        /\ lab2[r].lv = 4 => (j \in HigherHalf <=> r = k)
    BY DEF Up
  <2>1. CASE q = n
    <3>1. T2[p][i] = q /\ lab2[p] = lab[p] /\ lab2[q] = new /\ p \in DOMAIN T2
      BY <2>1, <1>3, <1>4
    <3>2. new.lv + 1 = lab[p].lv /\ new.sp = lab[p].sp
      BY <1>1 DEF new, Label
    <3>3. lab[p].lv = 4 => (i \in HigherHalf <=> p = k)
      BY Halves DEF MayAdd
    <3>. QED
      BY <3>1, <3>2, <3>3
  <2>2. CASE q # n
    <3>1. q \in DOMAIN T /\ lab2[q] = lab[q] /\ q # 0
      BY <2>2, <1>3, LabelFacts
    <3>2. PICK r \in DOMAIN T, j \in Index :
            /\ T[r][j] = q /\ lab[r].lv = lab[q].lv + 1 /\ lab[r].sp = lab[q].sp
            /\ lab[r].lv = 4 => (j \in HigherHalf <=> r = k)
      BY <3>1 DEF TreeOK, Up
    <3>3. T2[r][j] = q
      BY <3>1, <3>2, <1>4
    <3>. QED
      BY <3>1, <3>2, <3>3, <1>3
  <2>. QED
    BY <2>1, <2>2
<1>11. Grows(T, lab, T2, lab2)
  BY <1>3, <1>4 DEF Grows
<1>12. SameMaps(T, lab, T2, lab2)
  <2> SUFFICES ASSUME NEW s, NEW v, NEW f \in Nat, NEW e, e = Entry(f)
               PROVE  (\E q \in DOMAIN T2, j \in Index :
                         lab2[q].lv = 1 /\ lab2[q].sp = s /\ Child(lab2[q].base, j) = v /\ T2[q][j] = e)
                      <=> (\E q \in DOMAIN T, j \in Index :
                         lab[q].lv = 1 /\ lab[q].sp = s /\ Child(lab[q].base, j) = v /\ T[q][j] = e)
    BY DEF SameMaps, At
  <2>0. e # 0
    BY EntryFacts
  <2>1. \A q \in DOMAIN T, j \in Index : lab[q].lv = 1 => T2[q][j] = T[q][j] /\ lab2[q] = lab[q]
    BY <1>3, <1>4
  <2>2. \A q \in DOMAIN T2, j \in Index : T2[q][j] = e => q \in DOMAIN T
    BY <2>0, <1>3, <1>4
  <2>. QED
    BY <2>1, <2>2, <1>3
<1>. QED
  BY <1>5, <1>7, <1>8, <1>9, <1>10, <1>11, <1>12 DEF TreeOK

-----------------------------------------------------------------------------
(* The operators on a memory. *)
MemOK(m, lab, k, S) ==
  /\ m = [pool |-> m.pool, pt |-> m.pt]
  /\ m.pool \subseteq Pages /\ m.pool \cap DOMAIN m.pt = {}
  /\ TreeOK(m.pt, lab, k, S)

Extended(m, lab, m2, lab2) ==
  /\ m2.pool \cup DOMAIN m2.pt = m.pool \cup DOMAIN m.pt
  /\ Grows(m.pt, lab, m2.pt, lab2)

LEMMA ExtendedTrans ==
  ASSUME NEW m, NEW lab, NEW m2, NEW lab2, NEW m3, NEW lab3,
         Extended(m, lab, m2, lab2), Extended(m2, lab2, m3, lab3)
  PROVE  Extended(m, lab, m3, lab3)
  BY DEF Extended, Grows

(* Pmm::calloc(1) finds a page when there is one. *)
LEMMA OnePage ==
  ASSUME NEW P, P \subseteq Pages
  PROVE  LET a == AllocPages(P, 1)
         IN  \/ a.page = 0 /\ a.pool = P /\ P = {}
             \/ a.page \in P /\ a.page \in Nat \ {0} /\ a.pool = P \ {a.page}
<1> DEFINE a == AllocPages(P, 1)
           n == a.page
<1>1. Allocated(a, P, 1)
  BY AllocPagesFree
<1>2. n \in Nat => Span(n, 1) = {n}
  BY DEF Span
<1>3. n = 0 => P = {}
  <2> SUFFICES ASSUME NEW x \in P, n = 0 PROVE FALSE
    OBVIOUS
  <2>1. x \in Nat /\ x # 0
    BY MaxPageIsNat DEF Pages
  <2>2. Span(x, 1) = {x}
    BY <2>1 DEF Span
  <2>3. x \in Runs(P, 1)
    BY <2>2 DEF Runs
  <2>4. (CHOOSE y \in Runs(P, 1) : TRUE) \in Runs(P, 1)
    BY <2>3
  <2>5. n = CHOOSE y \in Runs(P, 1) : TRUE
    BY <2>3 DEF AllocPages
  <2>6. n \in P
    BY <2>4, <2>5 DEF Runs
  <2>. QED
    BY <2>6, MaxPageIsNat DEF Pages
<1> HIDE DEF a
<1>4. \/ a.page = 0 /\ a.pool = P /\ P = {}
      \/ a.page \in P /\ a.page \in Nat \ {0} /\ a.pool = P \ {a.page}
  BY <1>1, <1>2, <1>3 DEF Allocated
<1>. QED
  BY <1>4 DEF a

(* What get_next_level does: r is its result at entry i of table p. *)
LevelOK(m, lab, k, S, p, i, r, lab2) ==
  /\ MemOK(r.m, lab2, k, S) /\ Extended(m, lab, r.m, lab2) /\ SameMaps(m.pt, lab, r.m.pt, lab2)
  /\ r = [page |-> r.page, m |-> r.m]
  /\ r.page # 0 => /\ r.page \in DOMAIN r.m.pt /\ r.m.pt[p][i] = r.page
                   /\ lab2[r.page] = Label(EntryOwner(lab, k, p, i), lab[p].lv - 1, Child(lab[p].base, i))
  /\ m.pool # {} => r.page # 0
  /\ \E x : m.pool \ {x} \subseteq r.m.pool

LEMMA GetNextLevelOK ==
  ASSUME NEW m, NEW lab, NEW k, NEW S, MemOK(m, lab, k, S),
         NEW p \in DOMAIN m.pt, NEW i \in Index, lab[p].lv # 1,
         m.pt[p][i] = 0 => MayAdd(lab, k, S, p, i)
  PROVE  \E lab2 : LevelOK(m, lab, k, S, p, i, GetNextLevel([page |-> p, m |-> m], i), lab2)
<1> DEFINE T == m.pt
           P == m.pool
           a == AllocPages(P, 1)
           n == a.page
           r == GetNextLevel([page |-> p, m |-> m], i)
<1>1. /\ m = [pool |-> P, pt |-> T] /\ P \subseteq Pages /\ P \cap DOMAIN T = {}
      /\ TreeOK(T, lab, k, S)
  BY DEF MemOK
<1>2. p \in Nat \ {0} /\ T[p] \in [Index -> Nat] /\ T \in [DOMAIN T -> [Index -> Nat]]
  <2>1. T \in [DOMAIN T -> [Index -> Nat]]
    BY <1>1 DEF TreeOK, TableTypes
  <2>. QED
    BY <2>1, <1>1, LabelFacts
<1>3. \/ n = 0 /\ a.pool = P /\ P = {}
      \/ n \in P /\ n \in Nat \ {0} /\ a.pool = P \ {n}
  BY <1>1, OnePage
<1>4. CASE T[p][i] # 0
  <2>1. r = [page |-> T[p][i], m |-> m]
    BY <1>2, <1>4 DEF GetNextLevel
  <2>2. r.page = T[p][i] /\ r.m = m
    BY <2>1
  <2>3. /\ T[p][i] \in DOMAIN T
        /\ lab[T[p][i]] = Label(EntryOwner(lab, k, p, i), lab[p].lv - 1, Child(lab[p].base, i))
    BY <1>1, <1>4 DEF TreeOK, Down
  <2>4. Extended(m, lab, m, lab) /\ SameMaps(m.pt, lab, m.pt, lab)
    BY DEF Extended, Grows, SameMaps
  <2>5. P \ {0} \subseteq P
    OBVIOUS
  <2> HIDE DEF r
  <2>6. LevelOK(m, lab, k, S, p, i, r, lab)
    BY <2>1, <2>2, <2>3, <2>4, <2>5, <1>4 DEF LevelOK
  <2>. QED
    BY <2>6 DEF r
<1>5. CASE T[p][i] = 0 /\ n = 0
  <2>1. NewTable(m) = [page |-> 0, m |-> [pool |-> a.pool, pt |-> T]]
    BY <1>5 DEF NewTable
  <2>2. NewTable(m) = [page |-> 0, m |-> m]
    BY <2>1, <1>1, <1>3, <1>5
  <2>3. r = [page |-> 0, m |-> m]
    BY <2>2, <1>2, <1>5 DEF GetNextLevel
  <2>4. r.page = 0 /\ r.m = m
    BY <2>3
  <2>5. Extended(m, lab, m, lab) /\ SameMaps(m.pt, lab, m.pt, lab)
    BY DEF Extended, Grows, SameMaps
  <2>6. P \ {0} \subseteq P
    OBVIOUS
  <2>7. P = {}
    BY <1>3, <1>5
  <2> HIDE DEF r
  <2>8. LevelOK(m, lab, k, S, p, i, r, lab)
    BY <2>3, <2>4, <2>5, <2>6, <2>7 DEF LevelOK
  <2>. QED
    BY <2>8 DEF r
<1>6. CASE T[p][i] = 0 /\ n # 0
  <2>1. n \in P /\ n \in Nat \ {0} /\ a.pool = P \ {n} /\ n \in Pages \ DOMAIN T /\ n # p
    BY <1>1, <1>3, <1>6
  <2> DEFINE Q == P \ {n}
             T1 == [q \in DOMAIN T \cup {n} |-> IF q = n THEN EmptyTable ELSE T[q]]
             T2 == WithTable(T, p, i, n)
             lab2 == WithLabel(T, lab, p, i, n)
  <2>2. NewTable(m) = [page |-> n, m |-> [pool |-> Q, pt |-> T1]]
    BY <2>1, <1>6 DEF NewTable
  <2> HIDE DEF n, a
  <2>3. r = [page |-> n, m |-> [[pool |-> Q, pt |-> T1] EXCEPT !.pt[p][i] = n]]
    <3> HIDE DEF T1, Q
    <3>1. m.pt[p][i] = 0 /\ p # 0 /\ n # 0
      BY <1>2, <1>6
    <3>2. r = [page |-> n, m |-> [NewTable(m).m EXCEPT !.pt[p][i] = n]]
      <4>1. NewTable(m).page = n
        BY <2>2
      <4>. QED
        BY <4>1, <3>1 DEF GetNextLevel
    <3>. QED
      BY <3>2, <2>2
  <2>4. [T1 EXCEPT ![p] = [T1[p] EXCEPT ![i] = n]] = T2
    BY <2>1 DEF WithTable
  <2>5. [[pool |-> Q, pt |-> T1] EXCEPT !.pt[p][i] = n] = [pool |-> Q, pt |-> T2]
    <3> HIDE DEF T1, T2, Q
    <3>. QED
      BY <2>4
  <2>6. r = [page |-> n, m |-> [pool |-> Q, pt |-> T2]]
    BY <2>3, <2>5
  <2>7. TreeOK(T2, lab2, k, S) /\ Grows(T, lab, T2, lab2) /\ SameMaps(T, lab, T2, lab2)
    <3>1. MayAdd(lab, k, S, p, i)
      BY <1>6
    <3> HIDE DEF T, T2, lab2
    <3>. QED
      BY <3>1, <2>1, <1>1, <1>6, AddTable DEF T, T2, lab2
  <2>8. DOMAIN T2 = DOMAIN T \cup {n} /\ T2[p][i] = n
        /\ lab2[n] = Label(lab[p].sp, lab[p].lv - 1, Child(lab[p].base, i))
    BY <2>1, <1>2 DEF WithTable, WithLabel
  <2>9. EntryOwner(lab, k, p, i) = lab[p].sp
    <3>1. CASE lab[p].lv = 4 /\ i \in HigherHalf
      <4>1. p = k
        BY <3>1, <1>6, Halves DEF MayAdd
      <4>. QED
        BY <4>1, <3>1, <1>1 DEF EntryOwner, TreeOK, Labelled
    <3>2. CASE ~(lab[p].lv = 4 /\ i \in HigherHalf)
      BY <3>2 DEF EntryOwner
    <3>. QED
      BY <3>1, <3>2
  <2> HIDE DEF T2, lab2, r
  <2>10. r.page = n /\ r.m = [pool |-> Q, pt |-> T2] /\ r = [page |-> r.page, m |-> r.m]
    BY <2>6
  <2>11. r.m.pool = Q /\ r.m.pt = T2
    BY <2>10
  <2>12. MemOK(r.m, lab2, k, S)
    BY <2>1, <2>7, <2>8, <2>10, <2>11, <1>1 DEF MemOK
  <2>13. Extended(m, lab, r.m, lab2)
    BY <2>1, <2>7, <2>8, <2>11, <1>1 DEF Extended
  <2>14. LevelOK(m, lab, k, S, p, i, r, lab2)
    BY <2>1, <2>7, <2>8, <2>9, <2>10, <2>11, <2>12, <2>13 DEF LevelOK
  <2>. QED
    BY <2>14 DEF r
<1>. QED
  BY <1>4, <1>5, <1>6

(* The walk reached level l on the way to page v of the part owned by o:   *)
(* r is the table and the memory there, or page 0.                         *)
WalkedTo(m, lab, k, S, o, v, l, r, lab2) ==
  /\ MemOK(r.m, lab2, k, S) /\ Extended(m, lab, r.m, lab2) /\ SameMaps(m.pt, lab, r.m.pt, lab2)
  /\ r = [page |-> r.page, m |-> r.m]
  /\ r.page # 0 => r.page \in DOMAIN r.m.pt /\ lab2[r.page] = Label(o, l, Base(v, l))

LEMMA WalkDown ==
  ASSUME NEW m, NEW lab, NEW k, NEW S, NEW o, NEW v \in Addresses, NEW l \in {2, 3},
         NEW r, NEW lab1, WalkedTo(m, lab, k, S, o, v, l, r, lab1)
  PROVE  \E lab2 : WalkedTo(m, lab, k, S, o, v, l - 1, GetNextLevel(r, Offset(v, l)), lab2)
<1>1. CASE r.page = 0
  <2>1. GetNextLevel(r, Offset(v, l)) = r
    BY <1>1 DEF GetNextLevel
  <2>. QED
    BY <1>1, <2>1 DEF WalkedTo
<1>2. CASE r.page # 0
  <2> DEFINE p == r.page
             i == Offset(v, l)
             m1 == r.m
             r2 == GetNextLevel([page |-> p, m |-> m1], i)
  <2>1. /\ MemOK(m1, lab1, k, S) /\ Extended(m, lab, m1, lab1) /\ SameMaps(m.pt, lab, m1.pt, lab1)
        /\ r = [page |-> p, m |-> m1] /\ p \in DOMAIN m1.pt /\ lab1[p] = Label(o, l, Base(v, l))
    BY <1>2 DEF WalkedTo
  <2>2. i \in Index /\ Child(Base(v, l), i) = Base(v, l - 1)
    BY WalkIndices
  <2>3. lab1[p].lv = l /\ lab1[p].sp = o /\ lab1[p].base = Base(v, l)
    BY <2>1 DEF Label
  <2>4. MayAdd(lab1, k, S, p, i)
    BY <2>3 DEF MayAdd
  <2>5. EntryOwner(lab1, k, p, i) = o
    BY <2>3 DEF EntryOwner
  <2> HIDE DEF p, i, m1
  <2>6. PICK lab2 : LevelOK(m1, lab1, k, S, p, i, r2, lab2)
    BY <2>1, <2>2, <2>3, <2>4, GetNextLevelOK
  <2>7. GetNextLevel(r, i) = r2
    BY <2>1
  <2> HIDE DEF r2
  <2>8. /\ MemOK(r2.m, lab2, k, S) /\ Extended(m1, lab1, r2.m, lab2) /\ SameMaps(m1.pt, lab1, r2.m.pt, lab2)
        /\ r2 = [page |-> r2.page, m |-> r2.m]
        /\ r2.page # 0 => r2.page \in DOMAIN r2.m.pt /\ lab2[r2.page] = Label(o, l - 1, Base(v, l - 1))
    BY <2>2, <2>3, <2>5, <2>6 DEF LevelOK
  <2>9. Extended(m, lab, r2.m, lab2)
    BY <2>1, <2>8, ExtendedTrans
  <2>10. SameMaps(m.pt, lab, r2.m.pt, lab2)
    BY <2>1, <2>8 DEF SameMaps
  <2>11. WalkedTo(m, lab, k, S, o, v, l - 1, r2, lab2)
    BY <2>8, <2>9, <2>10 DEF WalkedTo
  <2>. QED
    BY <2>7, <2>11 DEF i
<1>. QED
  BY <1>1, <1>2

(* Who owns virtual page v of space s. *)
Owner(k, s, v) == IF IsKernel(v) THEN k ELSE s
Full(T, k) == \A i \in HigherHalf : T[k][i] # 0
MayMap(T, k, s, v) == v \in Addresses /\ IF IsKernel(v) THEN Full(T, k) ELSE s # k

LEMMA VirtToPteOK ==
  ASSUME NEW m, NEW lab, NEW k, NEW S, MemOK(m, lab, k, S),
         NEW s \in {k} \cup S, NEW v, MayMap(m.pt, k, s, v)
  PROVE  \E lab2 : WalkedTo(m, lab, k, S, Owner(k, s, v), v, 1, VirtToPte(m, s, v), lab2)
<1> DEFINE T == m.pt
           o == Owner(k, s, v)
           i == Offset(v, 4)
           r1 == GetNextLevel([page |-> s, m |-> m], i)
           r2 == GetNextLevel(r1, Offset(v, 3))
           r3 == GetNextLevel(r2, Offset(v, 2))
<1>0. v \in Addresses /\ TreeOK(T, lab, k, S)
  BY DEF MayMap, MemOK
<1>1. i \in Index /\ Child(0, i) = Base(v, 3)
  BY <1>0, WalkIndices
<1>2. s \in DOMAIN T /\ lab[s] = Label(s, 4, 0)
  BY <1>0 DEF TreeOK, Labelled
<1>3. lab[s].lv = 4 /\ lab[s].sp = s /\ lab[s].base = 0
  BY <1>2 DEF Label
<1>4. T[s][i] = 0 => MayAdd(lab, k, S, s, i)
  <2>1. CASE i \in HigherHalf
    <3>1. T[s][i] = T[k][i] /\ T[k][i] # 0
      BY <2>1, <1>0 DEF TreeOK, Shared, MayMap, Full, IsKernel
    <3>. QED
      BY <3>1
  <2>2. CASE i \notin HigherHalf
    <3>1. i \in LowerHalf /\ s # k
      BY <2>2, <1>1, Halves DEF MayMap, IsKernel
    <3>. QED
      BY <3>1 DEF MayAdd
  <2>. QED
    BY <2>1, <2>2
<1>5. EntryOwner(lab, k, s, i) = o
  BY <1>3 DEF EntryOwner, Owner, IsKernel
<1>6. VirtToPte(m, s, v) = r3
  BY DEF VirtToPte
<1> HIDE DEF T, o, i
<1>7. PICK lab1 : LevelOK(m, lab, k, S, s, i, r1, lab1)
  BY <1>1, <1>2, <1>3, <1>4, GetNextLevelOK DEF T
<1> HIDE DEF r1
<1>8. WalkedTo(m, lab, k, S, o, v, 3, r1, lab1)
  BY <1>1, <1>3, <1>5, <1>7 DEF LevelOK, WalkedTo
<1>9. PICK lab2 : WalkedTo(m, lab, k, S, o, v, 2, r2, lab2)
  <2>1. \E lab2 : WalkedTo(m, lab, k, S, o, v, 3 - 1, r2, lab2)
    BY <1>0, <1>8, WalkDown
  <2>. QED
    BY <2>1
<1> HIDE DEF r2
<1>10. PICK lab3 : WalkedTo(m, lab, k, S, o, v, 1, r3, lab3)
  <2>1. \E lab3 : WalkedTo(m, lab, k, S, o, v, 2 - 1, r3, lab3)
    BY <1>0, <1>9, WalkDown
  <2>. QED
    BY <2>1
<1>. QED
  BY <1>6, <1>10 DEF o

-----------------------------------------------------------------------------
(* The page f of memory at entry i of a pml1 p. *)
EntrySet(T, lab, k, S, p, i, f, T2) ==
  /\ TreeOK(T2, lab, k, S) /\ Grows(T, lab, T2, lab) /\ DOMAIN T2 = DOMAIN T
  /\ \A s, v, g : At(T, lab, s, v, g) => At(T2, lab, s, v, g)
  /\ \A s, v, g : At(T2, lab, s, v, g) =>
       At(T, lab, s, v, g) \/ (s = lab[p].sp /\ v = Child(lab[p].base, i) /\ g = f)

LEMMA SetEntry ==
  ASSUME NEW T, NEW lab, NEW k, NEW S, TreeOK(T, lab, k, S),
         NEW p \in DOMAIN T, NEW i \in Index, T[p][i] = 0, lab[p].lv = 1, NEW f \in Nat,
         NEW T2, T2 = [T EXCEPT ![p][i] = Entry(f)]
  PROVE  EntrySet(T, lab, k, S, p, i, f, T2)
<1>1. T \in [DOMAIN T -> [Index -> Nat]] /\ DOMAIN T \subseteq Pages
  BY DEF TreeOK, TableTypes
<1> DEFINE e == Entry(f)
<1>0. e \in Nat
  BY EntryFacts
<1>2. T2 \in [DOMAIN T -> [Index -> Nat]] /\ DOMAIN T2 = DOMAIN T
  <2> HIDE DEF e
  <2>. QED
    BY <1>0, <1>1 DEF e
<1>3. \A q \in DOMAIN T, j \in Index : T2[q][j] = IF q = p /\ j = i THEN e ELSE T[q][j]
  BY <1>1
<1>4. TableTypes(T2)
  BY <1>1, <1>2 DEF TableTypes
<1>5. Labelled(T2, lab, k, S)
  BY <1>2 DEF TreeOK, Labelled
<1>6. Shared(T2, k, S)
  <2>1. \A s \in {k} \cup S : s \in DOMAIN T /\ s # p
    <3>1. \A s \in {k} \cup S : s \in DOMAIN T /\ lab[s] = Label(s, 4, 0)
      BY DEF TreeOK, Labelled
    <3>2. \A s : Label(s, 4, 0).lv = 4
      BY DEF Label
    <3>. QED
      BY <3>1, <3>2
  <2>. QED
    BY <2>1, <1>3, Halves DEF TreeOK, Shared
<1>7. Down(T2, lab, k)
  <2>1. \A q \in DOMAIN T, j \in Index : lab[q].lv # 1 => T2[q][j] = T[q][j]
    BY <1>3
  <2>. QED
    BY <2>1, <1>2 DEF TreeOK, Down
<1>8. Up(T2, lab, k)
  <2> SUFFICES ASSUME NEW q \in DOMAIN T, lab[q].lv # 4
               PROVE  \E r \in DOMAIN T, j \in Index :
                        /\ T2[r][j] = q /\ lab[r].lv = lab[q].lv + 1 /\ lab[r].sp = lab[q].sp
                        /\ lab[r].lv = 4 => (j \in HigherHalf <=> r = k)
    BY <1>2 DEF Up
  <2>1. PICK r \in DOMAIN T, j \in Index :
            /\ T[r][j] = q /\ lab[r].lv = lab[q].lv + 1 /\ lab[r].sp = lab[q].sp
            /\ lab[r].lv = 4 => (j \in HigherHalf <=> r = k)
    BY DEF TreeOK, Up
  <2>2. T2[r][j] = q
    <3>1. q \in Nat \ {0}
      BY LabelFacts
    <3>. QED
      BY <3>1, <2>1, <1>3
  <2>. QED
    BY <2>1, <2>2
<1>9. Grows(T, lab, T2, lab)
  BY <1>2, <1>3 DEF Grows
<1>10. \A s, v, g : At(T, lab, s, v, g) => At(T2, lab, s, v, g)
  <2> SUFFICES ASSUME NEW s, NEW v, NEW g, At(T, lab, s, v, g) PROVE At(T2, lab, s, v, g)
    OBVIOUS
  <2>1. PICK q \in DOMAIN T, j \in Index :
           lab[q].lv = 1 /\ lab[q].sp = s /\ Child(lab[q].base, j) = v /\ T[q][j] = Entry(g) /\ g \in Nat
    BY DEF At
  <2>2. T2[q][j] = Entry(g)
    BY <2>1, <1>3, EntryFacts
  <2>. QED
    BY <2>1, <2>2, <1>2 DEF At
<1>11. \A s, v, g : At(T2, lab, s, v, g) =>
              At(T, lab, s, v, g) \/ (s = lab[p].sp /\ v = Child(lab[p].base, i) /\ g = f)
  <2> SUFFICES ASSUME NEW s, NEW v, NEW g, At(T2, lab, s, v, g)
               PROVE  At(T, lab, s, v, g) \/ (s = lab[p].sp /\ v = Child(lab[p].base, i) /\ g = f)
    OBVIOUS
  <2>1. PICK q \in DOMAIN T, j \in Index :
           lab[q].lv = 1 /\ lab[q].sp = s /\ Child(lab[q].base, j) = v /\ T2[q][j] = Entry(g) /\ g \in Nat
    BY <1>2 DEF At
  <2>2. CASE q = p /\ j = i
    <3>1. Entry(g) = Entry(f)
      BY <2>1, <2>2, <1>3
    <3>2. g = f
      BY <3>1, <2>1, EntryFacts
    <3>. QED
      BY <3>2, <2>1, <2>2
  <2>3. CASE ~(q = p /\ j = i)
    <3>1. T[q][j] = Entry(g)
      BY <2>1, <2>3, <1>3
    <3>. QED
      BY <3>1, <2>1 DEF At
  <2>. QED
    BY <2>2, <2>3
<1>. QED
  BY <1>2, <1>4, <1>5, <1>6, <1>7, <1>8, <1>9, <1>10, <1>11 DEF TreeOK, EntrySet

(* m2 is m after n pages from f on were mapped at v in space s: nothing    *)
(* that was mapped changes, and what is new is one of these pages.         *)
RangeOK(m, lab, k, S, s, v, f, n, m2, lab2) ==
  /\ MemOK(m2, lab2, k, S) /\ Extended(m, lab, m2, lab2)
  /\ \A u, w, g : At(m.pt, lab, u, w, g) => At(m2.pt, lab2, u, w, g)
  /\ \A u, w, g : At(m2.pt, lab2, u, w, g) =>
       \/ At(m.pt, lab, u, w, g)
       \/ \E j \in 0 .. n - 1 : w = v + j /\ g = f + j /\ u = Owner(k, s, w)

LEMMA MapOK ==
  ASSUME NEW m, NEW lab, NEW k, NEW S, MemOK(m, lab, k, S),
         NEW s \in {k} \cup S, NEW v, MayMap(m.pt, k, s, v), NEW f \in Nat
  PROVE  \E lab2 : RangeOK(m, lab, k, S, s, v, f, 1, Map(m, s, v, f), lab2)
<1> DEFINE o == Owner(k, s, v)
           r == VirtToPte(m, s, v)
           p == r.page
           i == Offset(v, 1)
           T == r.m.pt
           P == r.m.pool
           m2 == Map(m, s, v, f)
<1>1. PICK lab2 : WalkedTo(m, lab, k, S, o, v, 1, r, lab2)
  BY VirtToPteOK
<1>2. v \in Nat /\ i \in Index /\ Child(Base(v, 1), i) = v
  BY WalkIndices DEF MayMap
<1> HIDE DEF o, i, r
<1>3. /\ MemOK(r.m, lab2, k, S) /\ Extended(m, lab, r.m, lab2) /\ SameMaps(m.pt, lab, T, lab2)
      /\ p # 0 => p \in DOMAIN T /\ lab2[p] = Label(o, 1, Base(v, 1))
      /\ TreeOK(T, lab2, k, S) /\ r.m = [pool |-> P, pt |-> T]
  BY <1>1 DEF WalkedTo, MemOK
<1>4. CASE p = 0 \/ T[p][i] # 0
  <2>1. m2 = r.m
    BY <1>4 DEF Map, i, r
  <2>2. RangeOK(m, lab, k, S, s, v, f, 1, r.m, lab2)
    BY <1>3 DEF RangeOK, SameMaps
  <2>. QED
    BY <2>1, <2>2
<1>5. CASE p # 0 /\ T[p][i] = 0
  <2> DEFINE T2 == [T EXCEPT ![p][i] = Entry(f)]
  <2>1. m2 = [r.m EXCEPT !.pt[p][i] = Entry(f)]
    BY <1>5 DEF Map, i, r
  <2>2. m2 = [pool |-> P, pt |-> T2]
    <3>1. r.m = [pool |-> r.m.pool, pt |-> r.m.pt]
      BY <1>3
    <3>2. \A x, y : [[pool |-> x, pt |-> y] EXCEPT !.pt[p][i] = Entry(f)] = [pool |-> x, pt |-> [y EXCEPT ![p][i] = Entry(f)]]
      OBVIOUS
    <3>. QED
      BY <3>1, <3>2, <2>1, Zenon
  <2>3. lab2[p].lv = 1 /\ lab2[p].sp = o /\ lab2[p].base = Base(v, 1)
    BY <1>3, <1>5 DEF Label
  <2>4. /\ TreeOK(T2, lab2, k, S) /\ Grows(T, lab2, T2, lab2) /\ DOMAIN T2 = DOMAIN T
        /\ \A u, w, g : At(T, lab2, u, w, g) => At(T2, lab2, u, w, g)
        /\ \A u, w, g : At(T2, lab2, u, w, g) =>
              At(T, lab2, u, w, g) \/ (u = lab2[p].sp /\ w = Child(lab2[p].base, i) /\ g = f)
    <3>1. /\ p \in DOMAIN T /\ T[p][i] = 0 /\ lab2[p].lv = 1 /\ T2 = [T EXCEPT ![p][i] = Entry(f)]
          /\ TreeOK(T, lab2, k, S) /\ i \in Index
      BY <1>2, <1>3, <1>5, <2>3
    <3> HIDE DEF P, T, p, T2
    <3>2. EntrySet(T, lab2, k, S, p, i, f, T2)
      BY <3>1, SetEntry
    <3>. QED
      BY <3>2, Zenon DEF EntrySet
  <2> HIDE DEF T2, m2
  <2>5. m2.pool = P /\ m2.pt = T2 /\ m2 = [pool |-> m2.pool, pt |-> m2.pt]
    BY <2>2
  <2>6. MemOK(m2, lab2, k, S)
    BY <2>4, <2>5, <1>3 DEF MemOK
  <2>7. Extended(m, lab, m2, lab2)
    <3>1. Extended(r.m, lab2, m2, lab2)
      BY <2>4, <2>5 DEF Extended
    <3>. QED
      BY <3>1, <1>3, ExtendedTrans
  <2>8. \A u, w, g : At(m.pt, lab, u, w, g) => At(m2.pt, lab2, u, w, g)
    BY <2>4, <2>5, <1>3 DEF SameMaps
  <2>9. \A u, w, g : At(m2.pt, lab2, u, w, g) =>
       \/ At(m.pt, lab, u, w, g)
       \/ \E j \in 0 .. 1 - 1 : w = v + j /\ g = f + j /\ u = Owner(k, s, w)
    <3> SUFFICES ASSUME NEW u, NEW w, NEW g, At(m2.pt, lab2, u, w, g), ~At(m.pt, lab, u, w, g)
                 PROVE  \E j \in 0 .. 1 - 1 : w = v + j /\ g = f + j /\ u = Owner(k, s, w)
      OBVIOUS
    <3>1. u = o /\ w = v /\ g = f
      BY <2>3, <2>4, <2>5, <1>2, <1>3 DEF SameMaps
    <3>2. 0 \in 0 .. 1 - 1 /\ w = v + 0 /\ g = f + 0
      BY <3>1, <1>2
    <3>. QED
      BY <3>1, <3>2 DEF o
  <2>10. RangeOK(m, lab, k, S, s, v, f, 1, m2, lab2)
    BY <2>6, <2>7, <2>8, <2>9 DEF RangeOK
  <2>. QED
    BY <2>10 DEF m2
<1>. QED
  BY <1>4, <1>5

(* The memory after each page of map_range. *)
Ranges(m, s, v, f, n, g) ==
  g = [i \in 0 .. n |-> IF i = 0 THEN m ELSE Map(g[i - 1], s, v + i - 1, f + i - 1)]

LEMMA RangesExist ==
  ASSUME NEW m, NEW s, NEW v, NEW f, NEW n \in Nat
  PROVE  \E g : Ranges(m, s, v, f, n, g)
<1> DEFINE Bad == {j \in Nat : ~ \E g : Ranges(m, s, v, f, j, g)}
<1>1. ASSUME Bad # {} PROVE FALSE
  <2>1. PICK j \in Bad : \A x \in Bad : j <= x
    BY <1>1, NatMin
  <2>2. CASE j = 0
    <3> DEFINE g == [i \in 0 .. 0 |-> m]
    <3>1. \A i \in 0 .. 0 : i = 0
      OBVIOUS
    <3>2. g = [i \in 0 .. 0 |-> IF i = 0 THEN m ELSE Map(g[i - 1], s, v + i - 1, f + i - 1)]
      BY <3>1
    <3>3. Ranges(m, s, v, f, j, g)
      BY <3>2, <2>2 DEF Ranges
    <3>. QED
      BY <3>3, <2>1
  <2>3. CASE j # 0
    <3>1. j - 1 \in Nat /\ j - 1 \notin Bad /\ j \in Nat
      BY <2>1, <2>3
    <3>2. PICK h : Ranges(m, s, v, f, j - 1, h)
      BY <3>1
    <3> DEFINE step(x, i) == Map(x, s, v + i - 1, f + i - 1)
               g == [i \in 0 .. j |-> IF i = j THEN step(h[j - 1], j) ELSE h[i]]
    <3>3. h = [i \in 0 .. j - 1 |-> IF i = 0 THEN m ELSE step(h[i - 1], i)]
      BY <3>2 DEF Ranges
    <3> HIDE DEF step
    <3>4. ASSUME NEW i \in 0 .. j PROVE g[i] = IF i = 0 THEN m ELSE step(g[i - 1], i)
      <4>1. CASE i = 0
        BY <4>1, <3>1, <3>3, <2>3
      <4>2. CASE i # 0
        <5>1. i - 1 \in 0 .. j /\ i - 1 # j /\ g[i - 1] = h[i - 1]
          BY <4>2, <3>1
        <5>2. CASE i = j
          BY <5>1, <5>2, <4>2
        <5>3. CASE i # j
          <6>1. i \in 0 .. j - 1 /\ g[i] = h[i]
            BY <5>3, <3>1
          <6>. QED
            BY <6>1, <5>1, <4>2, <3>3
        <5>. QED
          BY <5>2, <5>3
      <4>. QED
        BY <4>1, <4>2
    <3>5. g = [i \in 0 .. j |-> g[i]]
      OBVIOUS
    <3> HIDE DEF g
    <3>6. g = [i \in 0 .. j |-> IF i = 0 THEN m ELSE step(g[i - 1], i)]
      BY <3>4, <3>5
    <3>7. Ranges(m, s, v, f, j, g)
      BY <3>6 DEF Ranges, step
    <3>. QED
      BY <3>7, <2>1
  <2>. QED
    BY <2>2, <2>3
<1>. QED
  BY <1>1

LEMMA MapRangeOK ==
  ASSUME NEW m, NEW lab, NEW k, NEW S, MemOK(m, lab, k, S),
         NEW s \in {k} \cup S, NEW v \in Nat, NEW f \in Nat, NEW n \in Nat,
         \A w \in Span(v, n) : MayMap(m.pt, k, s, w)
  PROVE  \E lab2 : RangeOK(m, lab, k, S, s, v, f, n, MapRange(m, s, v, f, n), lab2)
<1> DEFINE R == CHOOSE g : Ranges(m, s, v, f, n, g)
<1>1. Ranges(m, s, v, f, n, R)
  BY RangesExist
<1>2. MapRange(m, s, v, f, n) = R[n]
  BY DEF MapRange, Ranges
<1> HIDE DEF R
<1>3. /\ R[0] = m
      /\ \A i \in 0 .. n : i # 0 => R[i] = Map(R[i - 1], s, v + i - 1, f + i - 1)
  <2> DEFINE step(x, i) == Map(x, s, v + i - 1, f + i - 1)
  <2>1. R = [i \in 0 .. n |-> IF i = 0 THEN m ELSE step(R[i - 1], i)]
    BY <1>1 DEF Ranges
  <2> HIDE DEF step
  <2>2. R[0] = m /\ \A i \in 0 .. n : i # 0 => R[i] = step(R[i - 1], i)
    BY <2>1
  <2>. QED
    BY <2>2 DEF step
<1> DEFINE Bad == {j \in 0 .. n : ~ \E lab2 : RangeOK(m, lab, k, S, s, v, f, j, R[j], lab2)}
<1>4. ASSUME Bad # {} PROVE FALSE
  <2>0. Bad \subseteq Nat
    OBVIOUS
  <2>1. PICK j \in Bad : \A x \in Bad : j <= x
    <3> HIDE DEF Bad
    <3>. QED
      BY <2>0, <1>4, NatMin
  <2>2. CASE j = 0
    <3>1. RangeOK(m, lab, k, S, s, v, f, 0, m, lab)
      BY DEF RangeOK, Extended, Grows
    <3>. QED
      BY <3>1, <2>1, <2>2, <1>3
  <2>3. CASE j # 0
    <3> DEFINE i == j - 1
               m1 == R[i]
               m2 == R[j]
    <3>1. i \in 0 .. n /\ i \notin Bad /\ i \in Nat /\ j \in 0 .. n /\ j = i + 1 /\ i < n
      BY <2>1, <2>3
    <3>2. PICK lab1 : RangeOK(m, lab, k, S, s, v, f, i, m1, lab1)
      BY <3>1
    <3>3. m2 = Map(m1, s, v + i, f + i)
      <4>1. v + j - 1 = v + i /\ f + j - 1 = f + i
        BY <3>1
      <4>. QED
        BY <4>1, <3>1, <2>3, <1>3
    <3>4. MayMap(m1.pt, k, s, v + i)
      <4>1. v + i \in Span(v, n)
        BY <3>1 DEF Span
      <4>2. MayMap(m.pt, k, s, v + i)
        BY <4>1
      <4>3. k \in DOMAIN m.pt
        BY DEF MemOK, TreeOK, Labelled
      <4>4. Full(m.pt, k) => Full(m1.pt, k)
        BY <4>3, <3>2, Halves DEF RangeOK, Extended, Grows, Full
      <4>. QED
        BY <4>2, <4>4 DEF MayMap
    <3>5. f + i \in Nat /\ MemOK(m1, lab1, k, S)
      BY <3>1, <3>2 DEF RangeOK
    <3> HIDE DEF m1, m2, i
    <3>6. PICK lab2 : RangeOK(m1, lab1, k, S, s, v + i, f + i, 1, m2, lab2)
      BY <3>3, <3>4, <3>5, MapOK
    <3>7. MemOK(m2, lab2, k, S) /\ Extended(m, lab, m2, lab2)
      BY <3>2, <3>6, ExtendedTrans DEF RangeOK
    <3>8. \A u, w, g : At(m.pt, lab, u, w, g) => At(m2.pt, lab2, u, w, g)
      BY <3>2, <3>6 DEF RangeOK
    <3>9. \A u, w, g : At(m2.pt, lab2, u, w, g) =>
            \/ At(m.pt, lab, u, w, g)
            \/ \E x \in 0 .. j - 1 : w = v + x /\ g = f + x /\ u = Owner(k, s, w)
      <4> SUFFICES ASSUME NEW u, NEW w, NEW g, At(m2.pt, lab2, u, w, g), ~At(m.pt, lab, u, w, g)
                   PROVE  \E x \in 0 .. j - 1 : w = v + x /\ g = f + x /\ u = Owner(k, s, w)
        OBVIOUS
      <4>1. CASE At(m1.pt, lab1, u, w, g)
        <5>1. PICK x \in 0 .. i - 1 : w = v + x /\ g = f + x /\ u = Owner(k, s, w)
          BY <4>1, <3>2 DEF RangeOK
        <5>2. x \in 0 .. j - 1
          BY <3>1
        <5>. QED
          BY <5>1, <5>2
      <4>2. CASE ~At(m1.pt, lab1, u, w, g)
        <5>1. PICK x \in 0 .. 1 - 1 : w = v + i + x /\ g = f + i + x /\ u = Owner(k, s, w)
          BY <4>2, <3>6 DEF RangeOK
        <5>2. x = 0 /\ i \in 0 .. j - 1
          BY <3>1
        <5>3. w = v + i /\ g = f + i
          BY <5>1, <5>2, <3>1
        <5>. QED
          BY <5>1, <5>2, <5>3
      <4>. QED
        BY <4>1, <4>2
    <3>10. RangeOK(m, lab, k, S, s, v, f, j, m2, lab2)
      BY <3>7, <3>8, <3>9 DEF RangeOK
    <3>. QED
      BY <3>10, <2>1 DEF m2
  <2>. QED
    BY <2>2, <2>3
<1>5. n \in 0 .. n
  OBVIOUS
<1>. QED
  BY <1>2, <1>4, <1>5

-----------------------------------------------------------------------------
(* The tables with owner s, and those of them of one level. *)
Owned(T, lab, s) == {q \in DOMAIN T : lab[q].sp = s}
OfLevel(T, lab, s, l) == {q \in DOMAIN T : lab[q].sp = s /\ lab[q].lv = l}
OwnHalf(k, s) == IF s = k THEN HigherHalf ELSE LowerHalf

LEMMA LevelsBelow ==
  ASSUME NEW T, NEW lab, NEW k, NEW S, TreeOK(T, lab, k, S), NEW s \in {k} \cup S
  PROVE  /\ OfLevel(T, lab, s, 4) = {s}
         /\ Children(T, OfLevel(T, lab, s, 4), OwnHalf(k, s)) = OfLevel(T, lab, s, 3)
         /\ Children(T, OfLevel(T, lab, s, 3), Index) = OfLevel(T, lab, s, 2)
         /\ Children(T, OfLevel(T, lab, s, 2), Index) = OfLevel(T, lab, s, 1)
<1> DEFINE L(l) == OfLevel(T, lab, s, l)
           I(l) == IF l = 4 THEN OwnHalf(k, s) ELSE Index
<1>1. s \in DOMAIN T /\ lab[s].lv = 4 /\ lab[s].sp = s
  <2>1. s \in DOMAIN T /\ lab[s] = Label(s, 4, 0)
    BY DEF TreeOK, Labelled
  <2>. QED
    BY <2>1 DEF Label
<1>2. L(4) = {s}
  BY <1>1 DEF OfLevel, TreeOK, Labelled
<1>3. I(4) \subseteq Index /\ I(3) = Index /\ I(2) = Index
  BY Halves DEF OwnHalf
<1>4. ASSUME NEW l \in {2, 3, 4}, NEW p \in L(l), NEW i \in I(l), T[p][i] # 0
      PROVE  T[p][i] \in L(l - 1)
  <2>1. p \in DOMAIN T /\ lab[p].sp = s /\ lab[p].lv = l /\ i \in Index
    BY <1>3, <1>4 DEF OfLevel
  <2>2. EntryOwner(lab, k, p, i) = s
    BY <2>1, <1>2, <1>4, Halves DEF EntryOwner, OwnHalf
  <2>3. T[p][i] \in DOMAIN T /\ lab[T[p][i]] = Label(s, l - 1, Child(lab[p].base, i))
    BY <2>1, <2>2, <1>4 DEF TreeOK, Down
  <2>. QED
    BY <2>3 DEF OfLevel, Label
<1>5. ASSUME NEW l \in {2, 3, 4}, NEW q \in L(l - 1)
      PROVE  q # 0 /\ \E p \in L(l), i \in I(l) : T[p][i] = q
  <2>1. q \in DOMAIN T /\ lab[q].sp = s /\ lab[q].lv = l - 1
    BY DEF OfLevel
  <2>2. q # 0
    BY <2>1, LabelFacts
  <2>3. PICK p \in DOMAIN T, i \in Index :
      /\ T[p][i] = q /\ lab[p].lv = lab[q].lv + 1 /\ lab[p].sp = lab[q].sp
      /\ lab[p].lv = 4 => (i \in HigherHalf <=> p = k)
    BY <2>1 DEF TreeOK, Up
  <2>4. p \in L(l)
    BY <2>1, <2>3 DEF OfLevel
  <2>5. i \in I(l)
    BY <2>1, <2>3, <2>4, <1>2, Halves DEF OwnHalf
  <2>. QED
    BY <2>2, <2>3, <2>4, <2>5
<1>6. ASSUME NEW l \in {2, 3, 4} PROVE Children(T, L(l), I(l)) = L(l - 1)
  <2> HIDE DEF L, I
  <2>1. Children(T, L(l), I(l)) \subseteq L(l - 1)
    BY <1>4 DEF Children
  <2>2. L(l - 1) \subseteq Children(T, L(l), I(l))
    BY <1>5 DEF Children
  <2>. QED
    BY <2>1, <2>2
<1>7. 4 - 1 = 3 /\ 3 - 1 = 2 /\ 2 - 1 = 1
  OBVIOUS
<1> HIDE DEF L
<1>8. Children(T, L(4), OwnHalf(k, s)) = L(3) /\ Children(T, L(3), Index) = L(2) /\ Children(T, L(2), Index) = L(1)
  BY <1>6, <1>7
<1>. QED
  BY <1>2, <1>8 DEF L

(* The tables that a walk over the own half of a space finds are the ones  *)
(* it owns.                                                                *)
LEMMA TreeIs ==
  ASSUME NEW T, NEW lab, NEW k, NEW S, TreeOK(T, lab, k, S), NEW s \in {k} \cup S
  PROVE  Tree(T, s, OwnHalf(k, s)) = Owned(T, lab, s)
<1> DEFINE L(l) == OfLevel(T, lab, s, l)
<1>1. L(4) = {s} /\ Children(T, {s}, OwnHalf(k, s)) = L(3)
      /\ Children(T, L(3), Index) = L(2) /\ Children(T, L(2), Index) = L(1)
  BY LevelsBelow
<1>2. Owned(T, lab, s) = L(4) \cup L(3) \cup L(2) \cup L(1)
  <2>1. \A q \in DOMAIN T : lab[q].lv = 1 \/ lab[q].lv = 2 \/ lab[q].lv = 3 \/ lab[q].lv = 4
    BY LabelFacts
  <2>. QED
    BY <2>1 DEF Owned, OfLevel
<1> HIDE DEF L
<1>. QED
  BY <1>1, <1>2 DEF Tree

(* What a walk that adds no tables finds is mapped. *)
LEMMA TranslateAt ==
  ASSUME NEW T, NEW lab, NEW k, NEW S, TreeOK(T, lab, k, S), NEW s \in {k} \cup S,
         NEW v \in Addresses, Translate(T, s, v) # 0
  PROVE  At(T, lab, Owner(k, s, v), v, Translate(T, s, v) - 1)
<1> DEFINE o == Owner(k, s, v)
           a == T[s][Offset(v, 4)]
           b == T[a][Offset(v, 3)]
           c == T[b][Offset(v, 2)]
           d == T[c][Offset(v, 1)]
<1>0. \A l \in 1 .. 4 : Offset(v, l) \in Index
  BY WalkIndices
<1>1. s \in DOMAIN T /\ lab[s] = Label(s, 4, 0) /\ s # 0
  BY LabelFacts DEF TreeOK, Labelled
<1>2. a # 0 /\ b # 0 /\ c # 0 /\ d # 0 /\ Translate(T, s, v) = d
  BY <1>1 DEF Translate
<1> HIDE DEF a, b, c, d
<1>3. lab[s].lv = 4 /\ lab[s].sp = s /\ lab[s].base = 0
  BY <1>1 DEF Label
<1>4. EntryOwner(lab, k, s, Offset(v, 4)) = o
  BY <1>3 DEF EntryOwner, Owner, IsKernel
<1>5. a \in DOMAIN T /\ lab[a] = Label(o, 3, Base(v, 3))
  BY <1>0, <1>1, <1>2, <1>3, <1>4, WalkIndices DEF TreeOK, Down, a
<1>6. lab[a].lv = 3 /\ lab[a].sp = o /\ lab[a].base = Base(v, 3)
  BY <1>5 DEF Label
<1>7. EntryOwner(lab, k, a, Offset(v, 3)) = o
  BY <1>6 DEF EntryOwner
<1>8. b \in DOMAIN T /\ lab[b] = Label(o, 2, Base(v, 2))
  BY <1>0, <1>2, <1>5, <1>6, <1>7, WalkIndices DEF TreeOK, Down, b
<1>9. lab[b].lv = 2 /\ lab[b].sp = o /\ lab[b].base = Base(v, 2)
  BY <1>8 DEF Label
<1>10. EntryOwner(lab, k, b, Offset(v, 2)) = o
  BY <1>9 DEF EntryOwner
<1>11. c \in DOMAIN T /\ lab[c] = Label(o, 1, Base(v, 1))
  BY <1>0, <1>2, <1>8, <1>9, <1>10, WalkIndices DEF TreeOK, Down, c
<1>12. lab[c].lv = 1 /\ lab[c].sp = o /\ lab[c].base = Base(v, 1)
  BY <1>11 DEF Label
<1>13. Child(Base(v, 1), Offset(v, 1)) = v
  BY WalkIndices
<1>14. d - 1 \in Nat /\ Entry(d - 1) = d
  <2>1. d \in Nat
    BY <1>0, <1>11, LabelFacts DEF d
  <2>. QED
    BY <2>1, <1>2, EntryFacts
<1>15. At(T, lab, o, v, d - 1)
  BY <1>0, <1>2, <1>11, <1>12, <1>13, <1>14 DEF At, d
<1>. QED
  BY <1>2, <1>15 DEF o

LEMMA SameLeaves ==
  ASSUME NEW T, NEW lab, NEW T2, NEW lab2,
         \A q \in DOMAIN T2 : lab2[q].lv = 1 => q \in DOMAIN T,
         \A q \in DOMAIN T : q \in DOMAIN T2 /\ lab2[q] = lab[q] /\ T2[q] = T[q]
  PROVE  SameMaps(T, lab, T2, lab2)
<1>1. ASSUME NEW s, NEW v, NEW f PROVE At(T2, lab2, s, v, f) <=> At(T, lab, s, v, f)
  BY DEF At
<1>. QED
  BY <1>1 DEF SameMaps

(* A pml4 n for a new space. *)
NewTop(T, k) == [i \in Index |-> IF i \in HigherHalf THEN T[k][i] ELSE 0]
WithSpace(T, lab, k, n, T2, lab2) ==
  /\ T2 = [q \in DOMAIN T \cup {n} |-> IF q = n THEN NewTop(T, k) ELSE T[q]]
  /\ lab2 = [q \in DOMAIN T \cup {n} |-> IF q = n THEN Label(n, 4, 0) ELSE lab[q]]

LEMMA AddSpace ==
  ASSUME NEW T, NEW lab, NEW k, NEW S, TreeOK(T, lab, k, S), NEW n \in Pages \ DOMAIN T,
         NEW T2, NEW lab2, WithSpace(T, lab, k, n, T2, lab2)
  PROVE  /\ TreeOK(T2, lab2, k, S \cup {n}) /\ SameMaps(T, lab, T2, lab2)
         /\ \A v, f : ~At(T2, lab2, n, v, f)
<1>1. /\ DOMAIN T2 = DOMAIN T \cup {n} /\ DOMAIN lab2 = DOMAIN T \cup {n} /\ lab2[n] = Label(n, 4, 0)
      /\ T2[n] = NewTop(T, k) /\ n \in Nat \ {0}
      /\ \A q \in DOMAIN T : lab2[q] = lab[q] /\ T2[q] = T[q] /\ q # n
  BY MaxPageIsNat DEF Pages, WithSpace
<1>2. /\ k \in DOMAIN T /\ lab[k] = Label(k, 4, 0) /\ k # n /\ n \notin S
      /\ \A s \in {k} \cup S : s \in DOMAIN T /\ lab[s] = Label(s, 4, 0)
      /\ \A q \in DOMAIN T : lab[q].sp # n
  <2>1. \A q \in DOMAIN T : lab[q].sp \in {k} \cup S
    BY LabelFacts
  <2>. QED
    BY <2>1 DEF TreeOK, Labelled
<1>3. Label(n, 4, 0).sp = n /\ Label(n, 4, 0).lv = 4 /\ Label(n, 4, 0).base = 0
      /\ Label(n, 4, 0) \in [sp : {k} \cup S \cup {n}, lv : 1 .. 4, base : Nat]
  BY DEF Label
<1>4. TableTypes(T2)
  <2>1. \A i \in Index : T[k][i] \in Nat
    BY <1>2, LabelFacts
  <2>2. NewTop(T, k) \in [Index -> Nat]
    BY <2>1 DEF NewTop
  <2>3. \A q \in DOMAIN T2 : T2[q] \in [Index -> Nat]
    BY <2>2, <1>1 DEF TreeOK, TableTypes
  <2>4. T2 = [q \in DOMAIN T2 |-> T2[q]]
    BY <1>1 DEF WithSpace
  <2>. QED
    BY <2>3, <2>4, <1>1 DEF TreeOK, TableTypes
<1>5. Labelled(T2, lab2, k, S \cup {n})
  <2>1. lab2 \in [DOMAIN T2 -> [sp : {k} \cup (S \cup {n}), lv : 1 .. 4, base : Nat]]
    <3>1. \A q \in DOMAIN T : lab[q] \in [sp : {k} \cup S, lv : 1 .. 4, base : Nat]
      BY DEF TreeOK, Labelled
    <3>2. [sp : {k} \cup S, lv : 1 .. 4, base : Nat] \subseteq [sp : {k} \cup (S \cup {n}), lv : 1 .. 4, base : Nat]
      OBVIOUS
    <3>3. \A q \in DOMAIN T2 : lab2[q] \in [sp : {k} \cup (S \cup {n}), lv : 1 .. 4, base : Nat]
      BY <3>1, <3>2, <1>1, <1>3
    <3>4. lab2 = [q \in DOMAIN T2 |-> lab2[q]]
      BY <1>1 DEF WithSpace
    <3>. QED
      BY <3>3, <3>4
  <2>2. \A q, r \in DOMAIN T2 : lab2[q] = lab2[r] => q = r
    BY <1>1, <1>2, <1>3 DEF TreeOK, Labelled
  <2>3. \A s \in {k} \cup (S \cup {n}) : s \in DOMAIN T2 /\ lab2[s] = Label(s, 4, 0)
    BY <1>1, <1>2
  <2>4. \A q \in DOMAIN T2 : lab2[q].lv = 4 => lab2[q].sp = q
    BY <1>1, <1>3 DEF TreeOK, Labelled
  <2>. QED
    BY <2>1, <2>2, <2>3, <2>4 DEF Labelled
<1>6. Shared(T2, k, S \cup {n})
  <2>1. \A i \in HigherHalf : T2[n][i] = T[k][i]
    BY <1>1, Halves DEF NewTop
  <2>. QED
    BY <2>1, <1>1, <1>2 DEF TreeOK, Shared
<1>7. Down(T2, lab2, k)
  <2> SUFFICES ASSUME NEW q \in DOMAIN T2, NEW j \in Index, lab2[q].lv # 1, T2[q][j] # 0
               PROVE  /\ T2[q][j] \in DOMAIN T2
                      /\ lab2[T2[q][j]] = Label(EntryOwner(lab2, k, q, j), lab2[q].lv - 1,
                                                Child(lab2[q].base, j))
    BY DEF Down
  <2>1. CASE q = n
    <3>1. j \in HigherHalf /\ T2[n][j] = T[k][j]
      BY <2>1, <1>1 DEF NewTop
    <3>2. lab[k].lv = 4 /\ lab[k].base = 0
      BY <1>2 DEF Label
    <3>3. EntryOwner(lab, k, k, j) = k /\ EntryOwner(lab2, k, n, j) = k
      BY <3>1, <3>2, <1>1, <1>3 DEF EntryOwner
    <3>4. T[k][j] \in DOMAIN T /\ lab[T[k][j]] = Label(k, 4 - 1, Child(0, j))
      BY <3>1, <3>2, <3>3, <2>1, <1>2 DEF TreeOK, Down
    <3>. QED
      BY <3>1, <3>3, <3>4, <2>1, <1>1, <1>3
  <2>2. CASE q # n
    <3>1. q \in DOMAIN T /\ lab2[q] = lab[q] /\ T2[q] = T[q]
      BY <2>2, <1>1
    <3>2. /\ T[q][j] \in DOMAIN T
          /\ lab[T[q][j]] = Label(EntryOwner(lab, k, q, j), lab[q].lv - 1, Child(lab[q].base, j))
      BY <3>1 DEF TreeOK, Down
    <3>3. EntryOwner(lab2, k, q, j) = EntryOwner(lab, k, q, j)
      BY <3>1 DEF EntryOwner
    <3>. QED
      BY <3>1, <3>2, <3>3, <1>1
  <2>. QED
    BY <2>1, <2>2
<1>8. Up(T2, lab2, k)
  <2> SUFFICES ASSUME NEW q \in DOMAIN T2, lab2[q].lv # 4
               PROVE  \E r \in DOMAIN T2, j \in Index :
                        /\ T2[r][j] = q /\ lab2[r].lv = lab2[q].lv + 1 /\ lab2[r].sp = lab2[q].sp
                        /\ lab2[r].lv = 4 => (j \in HigherHalf <=> r = k)
    BY DEF Up
  <2>1. q \in DOMAIN T /\ lab2[q] = lab[q]
    BY <1>1, <1>3
  <2>2. PICK r \in DOMAIN T, j \in Index :
            /\ T[r][j] = q /\ lab[r].lv = lab[q].lv + 1 /\ lab[r].sp = lab[q].sp
            /\ lab[r].lv = 4 => (j \in HigherHalf <=> r = k)
    BY <2>1 DEF TreeOK, Up
  <2>. QED
    BY <2>1, <2>2, <1>1
<1>9. SameMaps(T, lab, T2, lab2)
  <2>1. \A q \in DOMAIN T2 : lab2[q].lv = 1 => q \in DOMAIN T
    BY <1>1, <1>3
  <2>. QED
    BY <2>1, <1>1, SameLeaves
<1>10. \A v, f : ~At(T2, lab2, n, v, f)
  <2>1. \A v, f : ~At(T, lab, n, v, f)
    BY <1>2 DEF At
  <2>. QED
    BY <2>1, <1>9 DEF SameMaps
<1>. QED
  BY <1>4, <1>5, <1>6, <1>7, <1>8, <1>9, <1>10 DEF TreeOK

(* The space s is destroyed. *)
Kept(T, lab, s, D, T2, lab2) ==
  /\ DOMAIN T2 = D /\ DOMAIN lab2 = D /\ D \subseteq DOMAIN T
  /\ \A q \in D : lab2[q] = lab[q] /\ T2[q] = T[q] /\ lab[q].sp # s
  /\ \A q \in DOMAIN T : q \in D <=> lab[q].sp # s
  /\ T2 = [q \in D |-> T2[q]] /\ lab2 = [q \in D |-> lab2[q]]

TreeWithout(T, lab, k, S, s, T2, lab2) ==
  /\ TreeOK(T2, lab2, k, S \ {s})
  /\ \A u, v, f : At(T2, lab2, u, v, f) => At(T, lab, u, v, f) /\ u # s

LEMMA DropSpace ==
  ASSUME NEW T, NEW lab, NEW k, NEW S, TreeOK(T, lab, k, S), NEW s \in S,
         NEW D, NEW T2, NEW lab2, Kept(T, lab, s, D, T2, lab2)
  PROVE  TreeWithout(T, lab, k, S, s, T2, lab2)
<1>1. /\ DOMAIN T2 = D /\ DOMAIN lab2 = D /\ D \subseteq DOMAIN T
      /\ \A q \in D : lab2[q] = lab[q] /\ T2[q] = T[q] /\ lab[q].sp # s
      /\ \A q \in DOMAIN T : q \in D <=> lab[q].sp # s
  BY DEF Kept
<1>2. k # s /\ \A u \in {k} \cup S : u \in DOMAIN T /\ lab[u] = Label(u, 4, 0) /\ lab[u].sp = u
  <2>1. \A u : Label(u, 4, 0).sp = u
    BY DEF Label
  <2>. QED
    BY <2>1 DEF TreeOK, Labelled, Shared
<1>3. TableTypes(T2)
  <2>1. \A q \in D : T2[q] \in [Index -> Nat]
    BY <1>1 DEF TreeOK, TableTypes
  <2>2. T2 = [q \in D |-> T2[q]]
    BY <1>1 DEF Kept
  <2>. QED
    BY <2>1, <2>2, <1>1 DEF TreeOK, TableTypes
<1>4. Labelled(T2, lab2, k, S \ {s})
  <2>1. lab2 \in [D -> [sp : {k} \cup (S \ {s}), lv : 1 .. 4, base : Nat]]
    <3>1. \A q \in D : lab2[q] \in [sp : {k} \cup (S \ {s}), lv : 1 .. 4, base : Nat]
      BY <1>1 DEF TreeOK, Labelled
    <3>2. lab2 = [q \in D |-> lab2[q]]
      BY <1>1 DEF Kept
    <3>. QED
      BY <3>1, <3>2
  <2>2. \A q, r \in D : lab2[q] = lab2[r] => q = r
    BY <1>1 DEF TreeOK, Labelled
  <2>3. \A u \in {k} \cup (S \ {s}) : u \in D /\ lab2[u] = Label(u, 4, 0)
    BY <1>1, <1>2
  <2>4. \A q \in D : lab2[q].lv = 4 => lab2[q].sp = q
    BY <1>1 DEF TreeOK, Labelled
  <2>. QED
    BY <2>1, <2>2, <2>3, <2>4, <1>1 DEF Labelled
<1>5. Shared(T2, k, S \ {s})
  BY <1>1, <1>2 DEF TreeOK, Shared
<1>6. Down(T2, lab2, k)
  <2> SUFFICES ASSUME NEW q \in D, NEW j \in Index, lab2[q].lv # 1, T2[q][j] # 0
               PROVE  /\ T2[q][j] \in D
                      /\ lab2[T2[q][j]] = Label(EntryOwner(lab2, k, q, j), lab2[q].lv - 1,
                                                Child(lab2[q].base, j))
    BY <1>1 DEF Down
  <2>1. q \in DOMAIN T /\ lab2[q] = lab[q] /\ T2[q] = T[q] /\ lab[q].sp # s
    BY <1>1
  <2>2. /\ T[q][j] \in DOMAIN T
        /\ lab[T[q][j]] = Label(EntryOwner(lab, k, q, j), lab[q].lv - 1, Child(lab[q].base, j))
    BY <2>1 DEF TreeOK, Down
  <2>3. EntryOwner(lab2, k, q, j) = EntryOwner(lab, k, q, j) /\ EntryOwner(lab, k, q, j) # s
    BY <2>1, <1>2 DEF EntryOwner
  <2>4. lab[T[q][j]].sp # s
    BY <2>2, <2>3 DEF Label
  <2>. QED
    BY <2>1, <2>2, <2>3, <2>4, <1>1
<1>7. Up(T2, lab2, k)
  <2> SUFFICES ASSUME NEW q \in D, lab2[q].lv # 4
               PROVE  \E r \in D, j \in Index :
                        /\ T2[r][j] = q /\ lab2[r].lv = lab2[q].lv + 1 /\ lab2[r].sp = lab2[q].sp
                        /\ lab2[r].lv = 4 => (j \in HigherHalf <=> r = k)
    BY <1>1 DEF Up
  <2>1. q \in DOMAIN T /\ lab2[q] = lab[q] /\ lab[q].sp # s
    BY <1>1
  <2>2. PICK r \in DOMAIN T, j \in Index :
            /\ T[r][j] = q /\ lab[r].lv = lab[q].lv + 1 /\ lab[r].sp = lab[q].sp
            /\ lab[r].lv = 4 => (j \in HigherHalf <=> r = k)
    BY <2>1 DEF TreeOK, Up
  <2>3. r \in D
    BY <2>1, <2>2, <1>1
  <2>. QED
    BY <2>1, <2>2, <2>3, <1>1
<1>8. ASSUME NEW u, NEW v, NEW f, At(T2, lab2, u, v, f) PROVE At(T, lab, u, v, f) /\ u # s
  BY <1>1, <1>8 DEF At
<1>. QED
  BY <1>1, <1>3, <1>4, <1>5, <1>6, <1>7, <1>8 DEF TreeOK, TreeWithout

-----------------------------------------------------------------------------
(* Vmm::init.  The memory after each entry of the kernel's pml4. *)
Boots(top, n, g) ==
  g = [i \in 0 .. n |-> IF i \in LowerHalf THEN top
        ELSE [page |-> top.page, m |-> GetNextLevel([page |-> top.page, m |-> g[i - 1].m], i).m]]

LEMMA BootsExist ==
  ASSUME NEW top, NEW n \in Nat
  PROVE  \E g : Boots(top, n, g)
<1> DEFINE Bad == {j \in Nat : ~ \E g : Boots(top, j, g)}
<1>0. 0 \in LowerHalf
  <2>1. Fanout \div 2 \in Nat \ {0}
    BY SpaceAssumption
  <2>. QED
    BY <2>1 DEF LowerHalf
<1>1. ASSUME Bad # {} PROVE FALSE
  <2>1. PICK j \in Bad : \A x \in Bad : j <= x
    BY <1>1, NatMin
  <2> DEFINE step(x, i) == [page |-> top.page, m |-> GetNextLevel([page |-> top.page, m |-> x.m], i).m]
  <2>2. CASE j = 0
    <3> DEFINE g == [i \in 0 .. 0 |-> top]
    <3>1. \A i \in 0 .. 0 : i \in LowerHalf
      BY <1>0
    <3> HIDE DEF step
    <3>2. g = [i \in 0 .. 0 |-> IF i \in LowerHalf THEN top ELSE step(g[i - 1], i)]
      BY <3>1
    <3>3. Boots(top, j, g)
      BY <3>2, <2>2 DEF Boots, step
    <3>. QED
      BY <3>3, <2>1
  <2>3. CASE j # 0
    <3>1. j - 1 \in Nat /\ j - 1 \notin Bad /\ j \in Nat
      BY <2>1, <2>3
    <3>2. PICK h : Boots(top, j - 1, h)
      BY <3>1
    <3> DEFINE g == [i \in 0 .. j |-> IF i = j THEN IF j \in LowerHalf THEN top ELSE step(h[j - 1], j)
                                      ELSE h[i]]
    <3>3. h = [i \in 0 .. j - 1 |-> IF i \in LowerHalf THEN top ELSE step(h[i - 1], i)]
      BY <3>2 DEF Boots
    <3> HIDE DEF step
    <3>4. ASSUME NEW i \in 0 .. j PROVE g[i] = IF i \in LowerHalf THEN top ELSE step(g[i - 1], i)
      <4>1. CASE i \in LowerHalf
        <5>1. CASE i = j
          BY <4>1, <5>1
        <5>2. CASE i # j
          <6>1. i \in 0 .. j - 1 /\ g[i] = h[i]
            BY <5>2, <3>1
          <6>. QED
            BY <6>1, <4>1, <3>3
        <5>. QED
          BY <5>1, <5>2
      <4>2. CASE i \notin LowerHalf
        <5>1. i - 1 \in 0 .. j /\ i - 1 # j /\ g[i - 1] = h[i - 1]
          BY <4>2, <3>1, <1>0
        <5>2. CASE i = j
          BY <5>1, <5>2, <4>2
        <5>3. CASE i # j
          <6>1. i \in 0 .. j - 1 /\ g[i] = h[i]
            BY <5>3, <3>1
          <6>. QED
            BY <6>1, <5>1, <4>2, <3>3
        <5>. QED
          BY <5>2, <5>3
      <4>. QED
        BY <4>1, <4>2
    <3>5. g = [i \in 0 .. j |-> g[i]]
      OBVIOUS
    <3> HIDE DEF g
    <3>6. g = [i \in 0 .. j |-> IF i \in LowerHalf THEN top ELSE step(g[i - 1], i)]
      BY <3>4, <3>5
    <3>7. Boots(top, j, g)
      BY <3>6 DEF Boots, step
    <3>. QED
      BY <3>7, <2>1
  <2>. QED
    BY <2>2, <2>3
<1>. QED
  BY <1>1

(* The pml4 alone. *)
LEMMA FirstTable ==
  ASSUME NEW n \in Pages, NEW T, T = [q \in {n} |-> EmptyTable],
         NEW lab, lab = [q \in {n} |-> Label(n, 4, 0)]
  PROVE  TreeOK(T, lab, n, {}) /\ \A u, v, f : ~At(T, lab, u, v, f)
<1>1. DOMAIN T = {n} /\ T[n] = EmptyTable /\ DOMAIN lab = {n} /\ lab[n] = Label(n, 4, 0)
  OBVIOUS
<1>2. \A i \in Index : T[n][i] = 0
  BY <1>1 DEF EmptyTable
<1>3. Label(n, 4, 0).lv = 4 /\ Label(n, 4, 0).sp = n /\ Label(n, 4, 0) \in [sp : {n}, lv : 1 .. 4, base : Nat]
  BY DEF Label
<1>4. TableTypes(T)
  <2>1. EmptyTable \in [Index -> Nat]
    BY DEF EmptyTable
  <2>. QED
    BY <2>1, <1>1 DEF TableTypes
<1>5. Labelled(T, lab, n, {})
  <2>1. lab \in [DOMAIN T -> [sp : {n} \cup {}, lv : 1 .. 4, base : Nat]]
    BY <1>1, <1>3
  <2>. QED
    BY <2>1, <1>1, <1>3 DEF Labelled
<1>6. Shared(T, n, {})
  BY <1>2, Halves DEF Shared
<1>7. Down(T, lab, n) /\ Up(T, lab, n)
  BY <1>1, <1>2, <1>3 DEF Down, Up
<1>. QED
  BY <1>1, <1>3, <1>4, <1>5, <1>6, <1>7 DEF TreeOK, At

(* The pml3 up to entry i are there. *)
BootedTo(P, k, i, m, lab) ==
  /\ MemOK(m, lab, k, {}) /\ m.pool \cup DOMAIN m.pt = P
  /\ \A u, v, f : ~At(m.pt, lab, u, v, f)
  /\ \A j \in HigherHalf : j <= i => m.pt[k][j] # 0
  /\ IsFiniteSet(m.pool) /\ Cardinality(m.pool) >= Fanout - 1 - i

LEMMA BootStep ==
  ASSUME NEW P, NEW k, NEW m, NEW lab, NEW i \in HigherHalf, BootedTo(P, k, i - 1, m, lab)
  PROVE  \E lab2 : BootedTo(P, k, i, GetNextLevel([page |-> k, m |-> m], i).m, lab2)
<1> DEFINE r == GetNextLevel([page |-> k, m |-> m], i)
<1>0. i \in Index /\ i \in Nat /\ Fanout \in Nat /\ i <= Fanout - 1 /\ i \notin LowerHalf
  BY SpaceAssumption, Halves DEF Index
<1>1. /\ MemOK(m, lab, k, {}) /\ k \in DOMAIN m.pt /\ lab[k] = Label(k, 4, 0)
      /\ TreeOK(m.pt, lab, k, {})
  BY DEF BootedTo, MemOK, TreeOK, Labelled
<1>2. lab[k].lv = 4
  BY <1>1 DEF Label
<1>3. PICK lab2 : LevelOK(m, lab, k, {}, k, i, r, lab2)
  BY <1>0, <1>1, <1>2, GetNextLevelOK DEF MayAdd
<1> HIDE DEF r
<1>4. IsFiniteSet(m.pool) /\ Cardinality(m.pool) >= Fanout - i /\ Cardinality(m.pool) \in Nat
  <2>1. IsFiniteSet(m.pool) /\ Cardinality(m.pool) >= Fanout - 1 - (i - 1)
    BY DEF BootedTo
  <2>. QED
    BY <2>1, <1>0, FS_CardinalityType
<1>5. m.pool # {}
  <2>1. Cardinality(m.pool) # 0
    BY <1>0, <1>4
  <2>. QED
    BY <2>1, FS_EmptySet
<1>6. r.page # 0 /\ r.m.pt[k][i] = r.page
  BY <1>3, <1>5 DEF LevelOK
<1>7. /\ r.m.pool \cup DOMAIN r.m.pt = P /\ MemOK(r.m, lab2, k, {})
      /\ \A u, v, f : ~At(r.m.pt, lab2, u, v, f)
      /\ \A j \in Index : m.pt[k][j] # 0 => r.m.pt[k][j] # 0
  BY <1>1, <1>3 DEF LevelOK, Extended, Grows, SameMaps, BootedTo
<1>8. \A j \in HigherHalf : j <= i => r.m.pt[k][j] # 0
  <2> SUFFICES ASSUME NEW j \in HigherHalf, j <= i PROVE r.m.pt[k][j] # 0
    OBVIOUS
  <2>1. j \in Index /\ j \in Nat
    BY Halves, SpaceAssumption DEF Index
  <2>2. CASE j = i
    BY <2>2, <1>6
  <2>3. CASE j # i
    <3>1. j <= i - 1
      BY <2>1, <2>3, <1>0
    <3>2. m.pt[k][j] # 0
      BY <3>1 DEF BootedTo
    <3>. QED
      BY <3>2, <2>1, <1>7
  <2>. QED
    BY <2>2, <2>3
<1>9. IsFiniteSet(r.m.pool) /\ Cardinality(r.m.pool) >= Fanout - 1 - i
  <2>1. PICK x : m.pool \ {x} \subseteq r.m.pool
    BY <1>3 DEF LevelOK
  <2>2. IsFiniteSet(r.m.pool)
    <3>1. IsFiniteSet(Pages) /\ r.m.pool \subseteq Pages
      BY <1>7, FS_Interval, MaxPageIsNat DEF Pages, MemOK
    <3>. QED
      BY <3>1, FS_Subset
  <2>3. IsFiniteSet(m.pool \ {x}) /\ Cardinality(m.pool \ {x}) >= Cardinality(m.pool) - 1
    <3>1. CASE x \in m.pool
      <4>1. Cardinality(m.pool \ {x}) = Cardinality(m.pool) - 1 /\ IsFiniteSet(m.pool \ {x})
        BY <3>1, <1>4, FS_RemoveElement
      <4>. QED
        BY <4>1, <1>4
    <3>2. CASE x \notin m.pool
      <4>1. m.pool \ {x} = m.pool
        BY <3>2
      <4>. QED
        BY <4>1, <1>4
    <3>. QED
      BY <3>1, <3>2
  <2>4. Cardinality(m.pool \ {x}) <= Cardinality(r.m.pool)
    BY <2>1, <2>2, FS_Subset
  <2>5. Cardinality(m.pool \ {x}) \in Nat /\ Cardinality(r.m.pool) \in Nat
    BY <2>2, <2>3, FS_CardinalityType
  <2>. QED
    BY <2>2, <2>3, <2>4, <2>5, <1>0, <1>4
<1>10. BootedTo(P, k, i, r.m, lab2)
  BY <1>7, <1>8, <1>9 DEF BootedTo
<1>. QED
  BY <1>10 DEF r

(* The space Vmm::init makes of the free pages P. *)
KernelSpaceOK(P, r, lab) ==
  /\ MemOK(r.m, lab, r.page, {}) /\ Full(r.m.pt, r.page) /\ r.m.pool \cup DOMAIN r.m.pt = P
  /\ \A u, v, f : At(r.m.pt, lab, u, v, f) => u = r.page /\ v \in Span(KernelBase, KernelPages)

LEMMA KernelSpaceBoots ==
  ASSUME NEW P, P \subseteq Pages, Cardinality(P) >= 1 + (Fanout \div 2)
  PROVE  \E lab : KernelSpaceOK(P, KernelSpaceOf([pool |-> P, pt |-> <<>>]), lab)
<1> DEFINE m0 == [pool |-> P, pt |-> <<>>]
           h == Fanout \div 2
           a == AllocPages(P, 1)
           k == a.page
           top == NewTable(m0)
           R == CHOOSE g : Boots(top, Fanout - 1, g)
           r == KernelSpaceOf(m0)
<1>0. /\ Fanout \in Nat /\ h \in Nat \ {0} /\ Fanout = 2 * h
      /\ LowerHalf = 0 .. h - 1 /\ HigherHalf = h .. Fanout - 1 /\ Index = 0 .. Fanout - 1
  <2>1. Fanout \in Nat /\ h \in Nat \ {0} /\ Fanout = 2 * h
    BY SpaceAssumption
  <2> HIDE DEF h
  <2>2. LowerHalf = 0 .. h - 1 /\ Index = 0 .. Fanout - 1
    BY DEF LowerHalf, Index, h
  <2>3. HigherHalf = h .. Fanout - 1
    BY <2>1, <2>2 DEF HigherHalf
  <2>. QED
    BY <2>1, <2>2, <2>3
<1> HIDE DEF h
<1>1. IsFiniteSet(P) /\ Cardinality(P) \in Nat /\ Cardinality(P) >= 1 + h
  <2>1. IsFiniteSet(Pages)
    BY FS_Interval, MaxPageIsNat DEF Pages
  <2>2. IsFiniteSet(P)
    BY <2>1, FS_Subset
  <2>. QED
    BY <2>2, FS_CardinalityType DEF h
<1>2. P # {}
  <2>1. Cardinality(P) # 0
    BY <1>0, <1>1
  <2>. QED
    BY <2>1, FS_EmptySet
<1>3. k \in P /\ k \in Nat \ {0} /\ a.pool = P \ {k} /\ k \in Pages
  BY <1>2, OnePage
<1> DEFINE T == [q \in {k} |-> EmptyTable]
           m1 == [pool |-> P \ {k}, pt |-> T]
           lab0 == [q \in {k} |-> Label(k, 4, 0)]
<1>4. top = [page |-> k, m |-> m1]
  <2>1. m0.pool = P /\ m0.pt = <<>>
    OBVIOUS
  <2>2. DOMAIN <<>> = {}
    OBVIOUS
  <2>3. top = [page |-> k, m |-> [pool |-> a.pool, pt |->
                 [q \in DOMAIN <<>> \cup {k} |-> IF q = k THEN EmptyTable ELSE <<>>[q]]]]
    BY <2>1, <1>3 DEF NewTable
  <2>4. [q \in DOMAIN <<>> \cup {k} |-> IF q = k THEN EmptyTable ELSE <<>>[q]] = T
    BY <2>2
  <2>. QED
    BY <2>3, <2>4, <1>3
<1> HIDE DEF top, k, a
<1>5. top.page = k /\ top.m = m1
  BY <1>4
<1>6. BootedTo(P, k, h - 1, m1, lab0)
  <2>1. TreeOK(T, lab0, k, {}) /\ \A u, v, f : ~At(T, lab0, u, v, f)
    <3>1. T = [q \in {k} |-> EmptyTable] /\ lab0 = [q \in {k} |-> Label(k, 4, 0)]
      OBVIOUS
    <3> HIDE DEF T, lab0
    <3>. QED
      BY <3>1, <1>3, FirstTable
  <2>2. DOMAIN T = {k}
    OBVIOUS
  <2> HIDE DEF T, lab0
  <2>3. m1.pool = P \ {k} /\ m1.pt = T /\ m1 = [pool |-> m1.pool, pt |-> m1.pt]
    OBVIOUS
  <2>4. IsFiniteSet(P \ {k}) /\ Cardinality(P \ {k}) = Cardinality(P) - 1
    BY <1>1, <1>3, FS_RemoveElement
  <2> HIDE DEF m1
  <2>5. MemOK(m1, lab0, k, {})
    BY <2>1, <2>2, <2>3 DEF MemOK
  <2>6. \A j \in HigherHalf : ~ (j <= h - 1)
    BY <1>0
  <2>7. Cardinality(m1.pool) >= Fanout - 1 - (h - 1)
    <3>1. Cardinality(m1.pool) = Cardinality(P) - 1
      BY <2>3, <2>4
    <3>. QED
      BY <3>1, <1>0, <1>1
  <2>. QED
    BY <2>1, <2>2, <2>3, <2>4, <2>5, <2>6, <2>7, <1>3 DEF BootedTo
<1>7. Boots(top, Fanout - 1, R)
  <2>1. Fanout - 1 \in Nat
    BY <1>0
  <2>. QED
    BY <2>1, BootsExist
<1>8. r = [page |-> k, m |-> MapRange(R[Fanout - 1].m, k, KernelBase, KernelFrame, KernelPages)]
  <2>1. Index = 0 .. Fanout - 1
    BY <1>0
  <2>2. r = [page |-> top.page, m |-> MapRange(R[Fanout - 1].m, top.page, KernelBase, KernelFrame, KernelPages)]
    BY <2>1 DEF KernelSpaceOf, Boots, top
  <2>. QED
    BY <2>2, <1>5
<1> HIDE DEF R, r, m1, lab0, T, m0
<1>9. /\ \A i \in LowerHalf : R[i] = top
      /\ \A i \in HigherHalf : R[i].m = GetNextLevel([page |-> k, m |-> R[i - 1].m], i).m
  <2> DEFINE step(x, i) == [page |-> k, m |-> GetNextLevel([page |-> k, m |-> x.m], i).m]
  <2>1. R = [i \in 0 .. Fanout - 1 |-> IF i \in LowerHalf THEN top ELSE step(R[i - 1], i)]
    BY <1>5, <1>7 DEF Boots
  <2> HIDE DEF step
  <2>2. \A i \in LowerHalf : i \in 0 .. Fanout - 1
    BY <1>0
  <2>3. \A i \in HigherHalf : i \in 0 .. Fanout - 1 /\ i \notin LowerHalf
    BY <1>0
  <2>4. \A i \in LowerHalf : R[i] = top
    BY <2>1, <2>2
  <2>5. \A i \in HigherHalf : R[i] = step(R[i - 1], i)
    BY <2>1, <2>3
  <2>6. ASSUME NEW x, NEW i PROVE step(x, i).m = GetNextLevel([page |-> k, m |-> x.m], i).m
    BY DEF step
  <2>. QED
    BY <2>4, <2>5, <2>6
<1> DEFINE Bad == {i \in h - 1 .. Fanout - 1 : ~ \E lab : BootedTo(P, k, i, R[i].m, lab)}
<1>10. ASSUME Bad # {} PROVE FALSE
  <2>0. Bad \subseteq Nat
    BY <1>0
  <2>1. PICK j \in Bad : \A x \in Bad : j <= x
    <3> HIDE DEF Bad
    <3>. QED
      BY <2>0, <1>10, NatMin
  <2>2. CASE j = h - 1
    <3>1. j \in LowerHalf
      BY <2>2, <1>0
    <3>. QED
      BY <3>1, <2>1, <2>2, <1>5, <1>6, <1>9
  <2>3. CASE j # h - 1
    <3>1. j \in HigherHalf /\ j - 1 \in h - 1 .. Fanout - 1 /\ j - 1 < j
      BY <2>1, <2>3, <1>0
    <3>2. PICK lab1 : BootedTo(P, k, j - 1, R[j - 1].m, lab1)
      <4>1. j - 1 \notin Bad
        BY <3>1, <2>0, <2>1
      <4>. QED
        BY <4>1, <3>1
    <3>3. \E lab2 : BootedTo(P, k, j, GetNextLevel([page |-> k, m |-> R[j - 1].m], j).m, lab2)
      BY <3>1, <3>2, BootStep
    <3>. QED
      BY <3>1, <3>3, <2>1, <1>9
  <2>. QED
    BY <2>2, <2>3
<1>11. PICK lab1 : BootedTo(P, k, Fanout - 1, R[Fanout - 1].m, lab1)
  <2>1. Fanout - 1 \in h - 1 .. Fanout - 1
    BY <1>0
  <2>. QED
    BY <2>1, <1>10
<1> DEFINE m2 == R[Fanout - 1].m
           m3 == MapRange(m2, k, KernelBase, KernelFrame, KernelPages)
<1>12. MemOK(m2, lab1, k, {}) /\ Full(m2.pt, k) /\ m2.pool \cup DOMAIN m2.pt = P
       /\ (\A u, v, f : ~At(m2.pt, lab1, u, v, f)) /\ k \in DOMAIN m2.pt
  <2>1. \A j \in HigherHalf : j <= Fanout - 1
    BY <1>0
  <2>. QED
    BY <2>1, <1>11 DEF BootedTo, Full, MemOK, TreeOK, Labelled
<1> HIDE DEF m2
<1>13. \A w \in Span(KernelBase, KernelPages) : MayMap(m2.pt, k, k, w)
  <2> SUFFICES ASSUME NEW w \in Span(KernelBase, KernelPages) PROVE MayMap(m2.pt, k, k, w)
    OBVIOUS
  <2>1. w < Limit /\ IsKernel(w)
    BY PlaceAssumption DEF Limit
  <2>2. w \in Nat /\ Limit \in Nat
    BY SpaceAssumption DEF Span, Limit
  <2>3. w \in Addresses
    BY <2>1, <2>2 DEF Addresses
  <2>. QED
    BY <2>1, <2>3, <1>12 DEF MayMap
<1>14. KernelBase \in Nat /\ KernelFrame \in Nat /\ KernelPages \in Nat
  BY SpaceAssumption
<1>15. PICK lab : RangeOK(m2, lab1, k, {}, k, KernelBase, KernelFrame, KernelPages, m3, lab)
  <2>1. k \in {k} \cup {}
    OBVIOUS
  <2>. QED
    BY <2>1, <1>12, <1>13, <1>14, MapRangeOK
<1> HIDE DEF m3
<1>16. r.page = k /\ r.m = m3
  BY <1>8 DEF m2, m3
<1>17. MemOK(m3, lab, k, {}) /\ m3.pool \cup DOMAIN m3.pt = P /\ Full(m3.pt, k)
  BY <1>12, <1>15, Halves DEF RangeOK, Extended, Grows, Full
<1>18. ASSUME NEW u, NEW v, NEW f, At(m3.pt, lab, u, v, f)
       PROVE  u = k /\ v \in Span(KernelBase, KernelPages)
  <2>1. PICK j \in 0 .. KernelPages - 1 : v = KernelBase + j /\ u = Owner(k, k, v)
    BY <1>12, <1>15, <1>18 DEF RangeOK
  <2>2. v \in Span(KernelBase, KernelPages)
    BY <2>1, <1>14 DEF Span
  <2>. QED
    BY <2>1, <2>2 DEF Owner
<1>. QED
  BY <1>16, <1>17, <1>18 DEF KernelSpaceOK, r, m0

-----------------------------------------------------------------------------
(* What the spaces map, apart from what Vmm::init mapped.  A page that is  *)
(* mapped is one of the frames F and mapped only once, but for the first   *)
(* pages of the machine in the spaces Z that strayed there.  The stack     *)
(* that ~Task will free is among the frames, and only its own space maps   *)
(* it; at page 0 it is nothing, and its space strayed.                     *)
Plain(k, s, v) == ~ (s = k /\ v \in Span(KernelBase, KernelPages))
Strays(Z, s, f) == s \in Z /\ f \in LowFrames
FramesOK(T, lab, k, F, Z) ==
  /\ \A s, v, f : At(T, lab, s, v, f) /\ Plain(k, s, v) => f \in F \/ Strays(Z, s, f)
  /\ \A s, v, u, w, f : At(T, lab, s, v, f) /\ At(T, lab, u, w, f) /\ Plain(k, s, v) /\ Plain(k, u, w)
                        => (s = u /\ v = w) \/ Strays(Z, s, f) \/ Strays(Z, u, f)
StackOK(T, lab, k, F, Z, s, f) ==
  /\ f = 0 => s \in Z
  /\ f # 0 =>
       /\ Span(f, StackPages) \subseteq F
       /\ \A u, w, g : At(T, lab, u, w, g) /\ Plain(k, u, w) /\ g \in Span(f, StackPages)
                       => u = s \/ Strays(Z, u, g)
StacksOK(T, lab, k, S, F, Z) ==
  /\ \A s \in S : \A f : At(T, lab, s, UserStack, f) => StackOK(T, lab, k, F, Z, s, f)
  /\ \A s, u \in S : \A f, g :
       At(T, lab, s, UserStack, f) /\ At(T, lab, u, UserStack, g) /\ f # 0 /\ g # 0 /\ s # u
         => Span(f, StackPages) \cap Span(g, StackPages) = {}
MapsOK(T, lab, k, S, F, Z) ==
  TreeOK(T, lab, k, S) /\ Full(T, k) /\ FramesOK(T, lab, k, F, Z) /\ StacksOK(T, lab, k, S, F, Z)

Unstacked(T, lab, s) == \A f : ~At(T, lab, s, UserStack, f)

(* n pages from f on are mapped at v in s; at the stack, as a whole.       *)
(* Either they are new frames, or they are the first of the machine, and   *)
(* the spaces that own the pages from v on stray.                          *)
Owners(k, s, v, n) == {Owner(k, s, w) : w \in Span(v, n)}
NewFrames(F, Z, k, s, v, f, n, F2, Z2) ==
  \/ f # 0 /\ Span(f, n) \cap F = {} /\ F2 = F \cup Span(f, n) /\ Z2 = Z
  \/ f = 0 /\ Span(f, n) \subseteq LowFrames /\ F2 = F /\ Z2 = Z \cup Owners(k, s, v, n)

NewPagesOK(m, lab, k, S, s, v, n, m2, F2, Z2, lab2) ==
  /\ MemOK(m2, lab2, k, S) /\ m2.pool \cup DOMAIN m2.pt = m.pool \cup DOMAIN m.pt
  /\ MapsOK(m2.pt, lab2, k, S, F2, Z2)
  /\ \A u \in S : Unstacked(m.pt, lab, u) /\ (u # s \/ UserStack \notin Span(v, n)) => Unstacked(m2.pt, lab2, u)

LEMMA MapNewPages ==
  ASSUME NEW m, NEW lab, NEW k, NEW S, NEW F, NEW Z, MemOK(m, lab, k, S), MapsOK(m.pt, lab, k, S, F, Z),
         NEW s \in S, NEW v \in Nat, NEW f \in Nat, NEW n \in Nat,
         NEW F2, NEW Z2, NewFrames(F, Z, k, s, v, f, n, F2, Z2), Span(v, n) \subseteq Addresses,
         \/ UserStack \notin Span(v, n)
         \/ v = UserStack /\ n = StackPages /\ Unstacked(m.pt, lab, s)
  PROVE  \E lab2 : NewPagesOK(m, lab, k, S, s, v, n, MapRange(m, s, v, f, n), F2, Z2, lab2)
<1> DEFINE T == m.pt
           m2 == MapRange(m, s, v, f, n)
           T2 == m2.pt
<1>1. TreeOK(T, lab, k, S) /\ Full(T, k) /\ FramesOK(T, lab, k, F, Z) /\ StacksOK(T, lab, k, S, F, Z) /\ s # k
  BY DEF MapsOK, TreeOK, Shared
<1>2. \A w \in Span(v, n) : MayMap(T, k, s, w)
  BY <1>1 DEF MayMap
<1>3. PICK lab2 : RangeOK(m, lab, k, S, s, v, f, n, m2, lab2)
  BY <1>2, MapRangeOK
<1> HIDE DEF m2
<1>4. /\ MemOK(m2, lab2, k, S) /\ m2.pool \cup DOMAIN m2.pt = m.pool \cup DOMAIN T
      /\ Grows(T, lab, T2, lab2) /\ TreeOK(T2, lab2, k, S)
  BY <1>3 DEF RangeOK, Extended, MemOK
<1>5. \A u, w, g : At(T2, lab2, u, w, g) =>
        \/ At(T, lab, u, w, g)
        \/ g \in Span(f, n) /\ w \in Span(v, n) /\ u = Owner(k, s, w) /\ w - v = g - f /\ w \in Nat /\ g \in Nat
  <2> SUFFICES ASSUME NEW u, NEW w, NEW g, At(T2, lab2, u, w, g), ~At(T, lab, u, w, g)
               PROVE  g \in Span(f, n) /\ w \in Span(v, n) /\ u = Owner(k, s, w) /\ w - v = g - f
                      /\ w \in Nat /\ g \in Nat
    OBVIOUS
  <2>1. PICK j \in 0 .. n - 1 : w = v + j /\ g = f + j /\ u = Owner(k, s, w)
    BY <1>3 DEF RangeOK
  <2>. QED
    BY <2>1 DEF Span
<1>6. Full(T2, k)
  BY <1>1, <1>4, Halves DEF Full, Grows, TreeOK, Labelled
<1> DEFINE New(u, w, g) == /\ g \in Span(f, n) /\ w \in Span(v, n) /\ u = Owner(k, s, w)
                           /\ w - v = g - f /\ w \in Nat /\ g \in Nat
(* What is new is a new frame, or strays. *)
<1>7. /\ F \subseteq F2 /\ Z \subseteq Z2
      /\ \A u, w, g : New(u, w, g) => (g \in F2 /\ g \notin F) \/ Strays(Z2, u, g)
  <2>1. CASE f # 0 /\ Span(f, n) \cap F = {} /\ F2 = F \cup Span(f, n) /\ Z2 = Z
    BY <2>1
  <2>2. CASE f = 0 /\ Span(f, n) \subseteq LowFrames /\ F2 = F /\ Z2 = Z \cup Owners(k, s, v, n)
    BY <2>2 DEF Owners, Strays
  <2>. QED
    BY <2>1, <2>2 DEF NewFrames
<1>8. \A u, g : Strays(Z, u, g) => Strays(Z2, u, g)
  BY <1>7 DEF Strays
<1>9. FramesOK(T2, lab2, k, F2, Z2)
  <2>1. ASSUME NEW u, NEW w, NEW g, At(T2, lab2, u, w, g), Plain(k, u, w) PROVE g \in F2 \/ Strays(Z2, u, g)
    <3>1. CASE At(T, lab, u, w, g)
      BY <3>1, <2>1, <1>1, <1>7, <1>8 DEF FramesOK
    <3>2. CASE New(u, w, g)
      BY <3>2, <1>7
    <3>. QED
      BY <3>1, <3>2, <2>1, <1>5
  <2>2. ASSUME NEW u, NEW w, NEW x, NEW y, NEW g, At(T2, lab2, u, w, g), At(T2, lab2, x, y, g),
               Plain(k, u, w), Plain(k, x, y)
        PROVE  (u = x /\ w = y) \/ Strays(Z2, u, g) \/ Strays(Z2, x, g)
    <3>1. CASE At(T, lab, u, w, g) /\ At(T, lab, x, y, g)
      BY <3>1, <2>2, <1>1, <1>8 DEF FramesOK
    <3>2. CASE At(T, lab, u, w, g) /\ New(x, y, g)
      <4>1. g \in F \/ Strays(Z, u, g)
        BY <3>2, <2>2, <1>1 DEF FramesOK
      <4>. QED
        BY <4>1, <3>2, <1>7, <1>8
    <3>3. CASE New(u, w, g) /\ At(T, lab, x, y, g)
      <4>1. g \in F \/ Strays(Z, x, g)
        BY <3>3, <2>2, <1>1 DEF FramesOK
      <4>. QED
        BY <4>1, <3>3, <1>7, <1>8
    <3>4. CASE New(u, w, g) /\ New(x, y, g)
      <4>1. w = y
        BY <3>4
      <4>. QED
        BY <4>1, <3>4
    <3>. QED
      BY <3>1, <3>2, <3>3, <3>4, <2>2, <1>5
  <2>. QED
    BY <2>1, <2>2 DEF FramesOK
(* A stack is an old one, or the one that is mapped here. *)
<1>10. ASSUME NEW u \in S, NEW g, At(T2, lab2, u, UserStack, g), ~At(T, lab, u, UserStack, g)
       PROVE  u = s /\ g = f /\ v = UserStack /\ n = StackPages /\ \A w \in Span(v, n) : Owner(k, s, w) = s
  <2>1. New(u, UserStack, g)
    BY <1>5, <1>10
  <2>2. v = UserStack /\ n = StackPages /\ UserStack - v = g - f
    BY <2>1
  <2>3. g = f /\ \A w \in Span(v, n) : Owner(k, s, w) = s
    BY <2>1, <2>2, PlaceAssumption DEF Owner
  <2>. QED
    BY <2>1, <2>2, <2>3
<1>11. ASSUME NEW u \in S, NEW g, At(T2, lab2, u, UserStack, g)
       PROVE  StackOK(T2, lab2, k, F2, Z2, u, g)
  <2>1. CASE At(T, lab, u, UserStack, g)
    <3>1. StackOK(T, lab, k, F, Z, u, g)
      BY <2>1, <1>1 DEF StacksOK
    <3>2. g = 0 => u \in Z2
      BY <3>1, <1>7 DEF StackOK
    <3>3. g # 0 => Span(g, StackPages) \subseteq F
      BY <3>1 DEF StackOK
    <3>4. ASSUME g # 0, NEW x, NEW w, NEW h, At(T2, lab2, x, w, h), Plain(k, x, w), h \in Span(g, StackPages)
          PROVE  x = u \/ Strays(Z2, x, h)
      <4>1. CASE At(T, lab, x, w, h)
        BY <4>1, <3>1, <3>4, <1>8 DEF StackOK
      <4>2. CASE New(x, w, h)
        BY <4>2, <3>3, <3>4, <1>7
      <4>. QED
        BY <4>1, <4>2, <3>4, <1>5
    <3>. QED
      BY <3>2, <3>3, <3>4, <1>7 DEF StackOK
  <2>2. CASE ~At(T, lab, u, UserStack, g)
    <3>1. u = s /\ g = f /\ v = UserStack /\ n = StackPages /\ \A w \in Span(v, n) : Owner(k, s, w) = s
      BY <2>2, <1>10, <1>11
    <3>2. CASE g # 0
      <4>1. Span(f, n) \cap F = {} /\ F2 = F \cup Span(f, n)
        BY <3>1, <3>2 DEF NewFrames
      <4>2. ASSUME NEW x, NEW w, NEW h, At(T2, lab2, x, w, h), Plain(k, x, w), h \in Span(f, n)
            PROVE  x = s \/ Strays(Z2, x, h)
        <5>1. CASE At(T, lab, x, w, h)
          BY <5>1, <4>1, <4>2, <1>1, <1>8 DEF FramesOK
        <5>2. CASE New(x, w, h)
          BY <5>2, <3>1
        <5>. QED
          BY <5>1, <5>2, <4>2, <1>5
      <4>. QED
        BY <4>1, <4>2, <3>1, <3>2 DEF StackOK
    <3>3. CASE g = 0
      <4>1. Z2 = Z \cup Owners(k, s, v, n)
        BY <3>1, <3>3 DEF NewFrames
      <4>2. v \in Span(v, n)
        BY <3>1, SpaceAssumption DEF Span
      <4>3. s \in Z2
        BY <4>1, <4>2, <3>1 DEF Owners
      <4>. QED
        BY <4>3, <3>1, <3>3 DEF StackOK
    <3>. QED
      BY <3>2, <3>3
  <2>. QED
    BY <2>1, <2>2
<1>12. ASSUME NEW u \in S, NEW x \in S, NEW g, NEW h, At(T2, lab2, u, UserStack, g),
              At(T2, lab2, x, UserStack, h), g # 0, h # 0, u # x
       PROVE  Span(g, StackPages) \cap Span(h, StackPages) = {}
  <2>1. ASSUME NEW y \in S, NEW e, At(T, lab, y, UserStack, e), e # 0 PROVE Span(e, StackPages) \subseteq F
    BY <2>1, <1>1 DEF StacksOK, StackOK
  <2>2. CASE At(T, lab, u, UserStack, g) /\ At(T, lab, x, UserStack, h)
    BY <2>2, <1>1, <1>12 DEF StacksOK
  <2>3. CASE At(T, lab, u, UserStack, g) /\ ~At(T, lab, x, UserStack, h)
    <3>1. h = f /\ n = StackPages
      BY <2>3, <1>10, <1>12
    <3>2. Span(f, n) \cap F = {}
      BY <3>1, <1>12 DEF NewFrames
    <3>. QED
      BY <3>1, <3>2, <2>1, <2>3, <1>12
  <2>4. CASE ~At(T, lab, u, UserStack, g) /\ At(T, lab, x, UserStack, h)
    <3>1. g = f /\ n = StackPages
      BY <2>4, <1>10, <1>12
    <3>2. Span(f, n) \cap F = {}
      BY <3>1, <1>12 DEF NewFrames
    <3>. QED
      BY <3>1, <3>2, <2>1, <2>4, <1>12
  <2>5. CASE ~At(T, lab, u, UserStack, g) /\ ~At(T, lab, x, UserStack, h)
    BY <2>5, <1>10, <1>12
  <2>. QED
    BY <2>2, <2>3, <2>4, <2>5
<1>13. StacksOK(T2, lab2, k, S, F2, Z2)
  BY <1>11, <1>12 DEF StacksOK
<1>14. ASSUME NEW u \in S, Unstacked(T, lab, u), u # s \/ UserStack \notin Span(v, n)
       PROVE  Unstacked(T2, lab2, u)
  <2> SUFFICES ASSUME NEW g, At(T2, lab2, u, UserStack, g) PROVE FALSE
    BY DEF Unstacked
  <2>1. New(u, UserStack, g)
    BY <1>5, <1>14 DEF Unstacked
  <2>2. u = Owner(k, s, UserStack) /\ u # k
    BY <2>1, <1>1 DEF TreeOK, Shared
  <2>3. u = s
    BY <2>2 DEF Owner
  <2>. QED
    BY <2>1, <2>3, <1>14
<1>15. NewPagesOK(m, lab, k, S, s, v, n, m2, F2, Z2, lab2)
  BY <1>4, <1>6, <1>9, <1>13, <1>14 DEF NewPagesOK, MapsOK
<1>. QED
  BY <1>15 DEF m2

LEMMA SameMapsKeep ==
  ASSUME NEW T, NEW lab, NEW T2, NEW lab2, NEW k, NEW S, NEW F, NEW Z, NEW S2, S \subseteq S2,
         SameMaps(T, lab, T2, lab2), FramesOK(T, lab, k, F, Z), StacksOK(T, lab, k, S, F, Z),
         \A s \in S2 \ S : \A f : ~At(T2, lab2, s, UserStack, f)
  PROVE  FramesOK(T2, lab2, k, F, Z) /\ StacksOK(T2, lab2, k, S2, F, Z)
<1>1. \A s, v, f : At(T2, lab2, s, v, f) <=> At(T, lab, s, v, f)
  BY DEF SameMaps
<1>2. FramesOK(T2, lab2, k, F, Z)
  BY <1>1 DEF FramesOK
<1>3. ASSUME NEW s \in S2, NEW f, At(T2, lab2, s, UserStack, f) PROVE s \in S /\ At(T, lab, s, UserStack, f)
  BY <1>1, <1>3
<1>4. ASSUME NEW s \in S2, NEW f, At(T2, lab2, s, UserStack, f) PROVE StackOK(T2, lab2, k, F, Z, s, f)
  <2>1. StackOK(T, lab, k, F, Z, s, f)
    BY <1>3, <1>4 DEF StacksOK
  <2>. QED
    BY <2>1, <1>1 DEF StackOK
<1>5. ASSUME NEW s \in S2, NEW u \in S2, NEW f, NEW g, At(T2, lab2, s, UserStack, f),
             At(T2, lab2, u, UserStack, g), f # 0, g # 0, s # u
      PROVE  Span(f, StackPages) \cap Span(g, StackPages) = {}
  BY <1>3, <1>5 DEF StacksOK
<1>. QED
  BY <1>2, <1>4, <1>5 DEF StacksOK

(* ~Task: the space s goes, and its stack at f, which is no frame at 0. *)
FramesWithout(F, f) == IF f = 0 THEN F ELSE F \ Span(f, StackPages)
SpaceDropped(T, lab, k, S, F, Z, s, f, T2, lab2) ==
  /\ MapsOK(T2, lab2, k, S \ {s}, FramesWithout(F, f), Z \ {s})
  /\ \A u, v, g : At(T2, lab2, u, v, g) => At(T, lab, u, v, g)

LEMMA DropSpaceMaps ==
  ASSUME NEW T, NEW lab, NEW k, NEW S, NEW F, NEW Z, MapsOK(T, lab, k, S, F, Z), NEW s \in S,
         NEW f, At(T, lab, s, UserStack, f), NEW D, NEW T2, NEW lab2, Kept(T, lab, s, D, T2, lab2)
  PROVE  SpaceDropped(T, lab, k, S, F, Z, s, f, T2, lab2)
<1>1. TreeOK(T, lab, k, S) /\ Full(T, k) /\ FramesOK(T, lab, k, F, Z) /\ StacksOK(T, lab, k, S, F, Z) /\ s # k
  BY DEF MapsOK, TreeOK, Shared
<1>2. /\ TreeOK(T2, lab2, k, S \ {s}) /\ DOMAIN T2 = D
      /\ \A u, v, g : At(T2, lab2, u, v, g) => At(T, lab, u, v, g) /\ u # s
  <2>1. TreeOK(T, lab, k, S)
    BY <1>1
  <2>2. TreeWithout(T, lab, k, S, s, T2, lab2)
    BY <2>1, DropSpace
  <2>. QED
    BY <2>2 DEF TreeWithout, Kept
<1> DEFINE X == Span(f, StackPages)
           F2 == FramesWithout(F, f)
           Z2 == Z \ {s}
<1>3. Full(T2, k)
  BY <1>1, <1>2 DEF Full, Kept, TreeOK, Labelled
<1>4. StackOK(T, lab, k, F, Z, s, f)
  BY <1>1 DEF StacksOK
<1>5. \A u, g : Strays(Z, u, g) /\ u # s => Strays(Z2, u, g)
  BY DEF Strays
<1>6. ASSUME NEW u, NEW v, NEW g, At(T2, lab2, u, v, g), Plain(k, u, v)
      PROVE  g \in F2 \/ Strays(Z2, u, g)
  <2>1. At(T, lab, u, v, g) /\ u # s /\ (g \in F \/ Strays(Z, u, g))
    BY <1>1, <1>2, <1>6 DEF FramesOK
  <2>2. CASE f # 0 /\ g \in X
    BY <2>1, <2>2, <1>4, <1>5, <1>6 DEF StackOK
  <2>3. CASE f = 0 \/ g \notin X
    BY <2>1, <2>3, <1>5 DEF FramesWithout
  <2>. QED
    BY <2>2, <2>3
<1>7. ASSUME NEW u, NEW v, NEW x, NEW w, NEW g, At(T2, lab2, u, v, g), At(T2, lab2, x, w, g),
             Plain(k, u, v), Plain(k, x, w)
      PROVE  (u = x /\ v = w) \/ Strays(Z2, u, g) \/ Strays(Z2, x, g)
  <2>1. At(T, lab, u, v, g) /\ u # s /\ At(T, lab, x, w, g) /\ x # s
    BY <1>2, <1>7
  <2>. QED
    BY <2>1, <1>1, <1>5, <1>7 DEF FramesOK
<1>8. FramesOK(T2, lab2, k, F2, Z2)
  BY <1>6, <1>7 DEF FramesOK
<1>9. ASSUME NEW u \in S \ {s}, NEW g, At(T2, lab2, u, UserStack, g)
      PROVE  StackOK(T2, lab2, k, F2, Z2, u, g)
  <2>1. At(T, lab, u, UserStack, g) /\ StackOK(T, lab, k, F, Z, u, g)
    BY <1>1, <1>2, <1>9 DEF StacksOK
  <2>2. g = 0 => u \in Z2
    BY <2>1 DEF StackOK
  <2>3. ASSUME g # 0 PROVE Span(g, StackPages) \subseteq F2
    <3>1. Span(g, StackPages) \subseteq F
      BY <2>1, <2>3 DEF StackOK
    <3>2. f # 0 => X \cap Span(g, StackPages) = {}
      BY <2>1, <2>3, <1>1 DEF StacksOK
    <3>. QED
      BY <3>1, <3>2 DEF FramesWithout
  <2>4. ASSUME g # 0, NEW x, NEW w, NEW h, At(T2, lab2, x, w, h), Plain(k, x, w), h \in Span(g, StackPages)
        PROVE  x = u \/ Strays(Z2, x, h)
    BY <2>1, <2>4, <1>2, <1>5 DEF StackOK
  <2>. QED
    BY <2>2, <2>3, <2>4 DEF StackOK
<1>10. StacksOK(T2, lab2, k, S \ {s}, F2, Z2)
  <2>1. \A u, x \in S \ {s} : \A g, h :
          At(T2, lab2, u, UserStack, g) /\ At(T2, lab2, x, UserStack, h) /\ g # 0 /\ h # 0 /\ u # x
            => Span(g, StackPages) \cap Span(h, StackPages) = {}
    BY <1>1, <1>2 DEF StacksOK
  <2>. QED
    BY <2>1, <1>9 DEF StacksOK
<1>. QED
  BY <1>2, <1>3, <1>8, <1>10 DEF MapsOK, SpaceDropped

-----------------------------------------------------------------------------
(* Every page is in one of P (free), H (heap), D (tables) and F (frames). *)
Partition(P, H, D, F, N) ==
  /\ P \cup H \cup D \cup F = 1 .. N
  /\ P \cap (H \cup D \cup F) = {} /\ H \cap (D \cup F) = {} /\ D \cap F = {}

(* AllocAndMap on the free pages P, the tables T, the frames F and the     *)
(* spaces Z that strayed.                                                  *)
AllocMap(P, T, F, Z, k, s, v, n, P2, T2, F2, Z2) ==
  LET a == AllocPages(P, n)
      m == MapRange([pool |-> a.pool, pt |-> T], s, v, a.page, n)
  IN  /\ P2 = m.pool /\ T2 = m.pt
      /\ IF a.page = 0 THEN F2 = F /\ Z2 = Z \cup Owners(k, s, v, n)
                       ELSE F2 = F \cup Span(a.page, n) /\ Z2 = Z

AllocMapOK(H, N, k, S, T, lab, s, v, n, P2, T2, F2, Z2, lab2) ==
  /\ Partition(P2, H, DOMAIN T2, F2, N) /\ MapsOK(T2, lab2, k, S, F2, Z2)
  /\ \A u \in S : Unstacked(T, lab, u) /\ (u # s \/ UserStack \notin Span(v, n)) => Unstacked(T2, lab2, u)

LEMMA AllocMapKeeps ==
  ASSUME NEW P, NEW H, NEW T, NEW F, NEW Z, NEW N \in 0 .. MaxPage, NEW lab, NEW k, NEW S,
         Partition(P, H, DOMAIN T, F, N), MapsOK(T, lab, k, S, F, Z),
         NEW s \in S, NEW v \in Nat, NEW n \in Nat, Span(v, n) \subseteq Addresses,
         \/ UserStack \notin Span(v, n)
         \/ v = UserStack /\ n = StackPages /\ Unstacked(T, lab, s),
         Span(0, n) \subseteq LowFrames,
         NEW P2, NEW T2, NEW F2, NEW Z2, AllocMap(P, T, F, Z, k, s, v, n, P2, T2, F2, Z2)
  PROVE  \E lab2 : AllocMapOK(H, N, k, S, T, lab, s, v, n, P2, T2, F2, Z2, lab2)
<1> DEFINE a == AllocPages(P, n)
           f == a.page
           m == [pool |-> a.pool, pt |-> T]
           m2 == MapRange(m, s, v, f, n)
<1>1. P \in SUBSET Pages
  BY MaxPageIsNat DEF Partition, Pages
<1>2. Allocated(a, P, n)
  BY <1>1, AllocPagesFree
<1>3. /\ P2 = m2.pool /\ T2 = m2.pt
      /\ IF f = 0 THEN F2 = F /\ Z2 = Z \cup Owners(k, s, v, n)
                  ELSE F2 = F \cup Span(f, n) /\ Z2 = Z
  BY DEF AllocMap
<1> HIDE DEF a, m2
<1>4. /\ f \in Nat /\ (f = 0 => a.pool = P)
      /\ f # 0 => Span(f, n) \subseteq P /\ a.pool = P \ Span(f, n)
  BY <1>2 DEF Allocated
<1> HIDE DEF f
<1>5. NewFrames(F, Z, k, s, v, f, n, F2, Z2)
  <2>1. CASE f = 0
    BY <2>1, <1>3 DEF NewFrames
  <2>2. CASE f # 0
    BY <2>2, <1>3, <1>4 DEF NewFrames, Partition
  <2>. QED
    BY <2>1, <2>2
<1>6. m.pool = a.pool /\ m.pt = T /\ m = [pool |-> m.pool, pt |-> m.pt]
  OBVIOUS
<1> HIDE DEF m
<1>7. MemOK(m, lab, k, S) /\ MapsOK(m.pt, lab, k, S, F, Z)
  BY <1>1, <1>4, <1>6 DEF MemOK, MapsOK, Partition
<1>8. PICK lab2 : NewPagesOK(m, lab, k, S, s, v, n, m2, F2, Z2, lab2)
  BY <1>4, <1>5, <1>6, <1>7, MapNewPages DEF m2
<1>9. P2 \cup DOMAIN T2 = a.pool \cup DOMAIN T /\ P2 \cap DOMAIN T2 = {}
  BY <1>3, <1>6, <1>8 DEF NewPagesOK, MemOK
<1>10. Partition(P2, H, DOMAIN T2, F2, N)
  <2>1. CASE f = 0
    BY <2>1, <1>3, <1>4, <1>9 DEF Partition
  <2>2. CASE f # 0
    BY <2>2, <1>3, <1>4, <1>9 DEF Partition
  <2>. QED
    BY <2>1, <2>2
<1>11. AllocMapOK(H, N, k, S, T, lab, s, v, n, P2, T2, F2, Z2, lab2)
  BY <1>3, <1>6, <1>8, <1>10 DEF AllocMapOK, NewPagesOK
<1>. QED
  BY <1>11

-----------------------------------------------------------------------------
(* The inductive invariant of the memory. *)
PhasesOK ==
  /\ phase \in [Tasks -> {"new", "loading", "running", "dead"}]
  /\ space \in [Tasks -> Nat] /\ heap_cur \in [Tasks -> Nat]
  /\ \A t \in Tasks :
       /\ heap_cur[t] >= HeapStart
       /\ space[t] # 0 => phase[t] \in {"loading", "running"}
       /\ phase[t] = "running" => space[t] # 0
       /\ phase[t] = "loading" => space[t] # 0 \/ halted
  /\ \A t, u \in Tasks : space[t] # 0 /\ space[t] = space[u] => t = u
  /\ cr3 \in Spaces /\ halted \in BOOLEAN
  /\ strayed \subseteq {kernel_space} \cup UserSpaces

LabelOK(lab) ==
  /\ MapsOK(pt, lab, kernel_space, UserSpaces, frames, strayed)
  /\ \A t \in Tasks : phase[t] = "loading" /\ space[t] # 0 => Unstacked(pt, lab, space[t])
SpacesOK == \E lab : LabelOK(lab)

PagesOK == load \in Workloads /\ Partition(pool, HeapArea, DOMAIN pt, frames, load.pages)

MemInv == HeapInv /\ PagesOK /\ PhasesOK /\ SpacesOK

(* When a task exits whose stack is at page 0, the pages of that stack are *)
(* added to the free ones, and the machine stops; else nothing changes.    *)
Parts == load \in Workloads /\ BlocksInv /\ PhasesOK /\ SpacesOK
AfterNullStack ==
  /\ halted /\ Parts
  /\ \E P : Partition(P, HeapArea, DOMAIN pt, frames, load.pages) /\ pool = P \cup Span(0, StackPages)

IInv == MemInv \/ AfterNullStack

LEMMA InvParts == IInv => Parts
  BY DEF IInv, AfterNullStack, Parts, MemInv, HeapInv, PagesOK

LEMMA HeapKeepsMemory ==
  ASSUME MemInv, ~halted, NEW procs \in SUBSET Procs, NEW max, HeapNext(procs, max),
         halted' \in BOOLEAN, UNCHANGED <<vmmVars, load>>
  PROVE  MemInv'
<1>1. HeapInv' /\ pool' \cup HeapArea' = pool \cup HeapArea
  BY HeapStep DEF MemInv
<1>2. PagesOK'
  <2>1. pool' \cap HeapArea' = {} /\ pool \cap HeapArea = {}
    BY <1>1 DEF MemInv, HeapInv, PoolOK
  <2>2. pt' = pt /\ frames' = frames /\ load' = load
    BY DEF vmmVars
  <2>. QED
    BY <2>1, <2>2, <1>1 DEF MemInv, PagesOK, Partition
<1>3. UserSpaces' = UserSpaces /\ Spaces' = Spaces
  BY DEF vmmVars, UserSpaces, Spaces
<1>4. PhasesOK'
  BY <1>3 DEF MemInv, PhasesOK, vmmVars
<1>5. SpacesOK'
  <2>1. PICK lab : LabelOK(lab)
    BY DEF MemInv, SpacesOK
  <2>2. LabelOK(lab)'
    BY <2>1, <1>3 DEF LabelOK, vmmVars
  <2>. QED
    BY <2>2 DEF SpacesOK
<1>. QED
  BY <1>1, <1>2, <1>4, <1>5 DEF MemInv

(* A step of the address spaces leaves the heap alone. *)
LEMMA SpacesKeepHeap ==
  ASSUME MemInv, UNCHANGED <<heapVars, load>>,
         Partition(pool', HeapArea, DOMAIN pt', frames', load.pages)
  PROVE  HeapInv' /\ PagesOK'
<1>1. load.pages \in 0 .. MaxPage
  BY WorkloadAssumption DEF MemInv, PagesOK
<1>2. pool' \subseteq Pages /\ pool' \cap HeapArea = {}
  BY <1>1, MaxPageIsNat DEF Partition, Pages
<1>3. HeapInv' /\ HeapArea' = HeapArea
  BY <1>2, OthersKeepHeap DEF MemInv
<1>. QED
  BY <1>3 DEF MemInv, PagesOK

(* What the handlers that map memory have in common. *)
LEMMA AllocAndMapKeeps ==
  ASSUME MemInv, NEW t \in Tasks, space[t] # 0, NEW lab, LabelOK(lab),
         NEW v \in Nat, NEW n \in Nat, Span(v, n) \subseteq Addresses,
         \/ UserStack \notin Span(v, n)
         \/ v = UserStack /\ n = StackPages /\ Unstacked(pt, lab, space[t]),
         Span(0, n) \subseteq LowFrames, AllocAndMap(space[t], v, n)
  PROVE  /\ Partition(pool', HeapArea, DOMAIN pt', frames', load.pages)
         /\ strayed \subseteq {kernel_space} \cup UserSpaces
              => strayed' \subseteq {kernel_space} \cup UserSpaces
         /\ \E lab2 : /\ MapsOK(pt', lab2, kernel_space, UserSpaces, frames', strayed')
                      /\ \A u \in UserSpaces :
                           Unstacked(pt, lab, u) /\ (u # space[t] \/ UserStack \notin Span(v, n))
                             => Unstacked(pt', lab2, u)
<1>0. {OwnerOf(space[t], w) : w \in Span(v, n)} = Owners(kernel_space, space[t], v, n)
  BY DEF Owners, OwnerOf, Owner
<1>1. AllocMap(pool, pt, frames, strayed, kernel_space, space[t], v, n, pool', pt', frames', strayed')
  BY <1>0 DEF AllocAndMap, AllocMap, Becomes
<1>2. load.pages \in 0 .. MaxPage /\ Partition(pool, HeapArea, DOMAIN pt, frames, load.pages)
  BY WorkloadAssumption DEF MemInv, PagesOK
<1>3. MapsOK(pt, lab, kernel_space, UserSpaces, frames, strayed) /\ space[t] \in UserSpaces
  BY DEF LabelOK, UserSpaces
<1>4. \E lab2 : AllocMapOK(HeapArea, load.pages, kernel_space, UserSpaces, pt, lab, space[t], v, n,
                           pool', pt', frames', strayed', lab2)
  BY <1>1, <1>2, <1>3, AllocMapKeeps
<1>5. strayed \subseteq {kernel_space} \cup UserSpaces => strayed' \subseteq {kernel_space} \cup UserSpaces
  BY <1>1, <1>3 DEF AllocMap, Owners, Owner
<1>. QED
  BY <1>4, <1>5 DEF AllocMapOK

LEMMA SpanFacts ==
  /\ Limit \in Nat /\ \A v \in Nat : Span(v, 1) = {v}
  /\ \A v, n \in Nat : v + n <= Limit => Span(v, n) \subseteq Addresses
  /\ \A v, n, x \in Nat : n <= x => Span(v, n) \subseteq Span(v, x)
  /\ \A n \in Nat : n <= MaxMmap \/ n <= StackPages => Span(0, n) \subseteq LowFrames
<1>1. Limit \in Nat
  BY SpaceAssumption DEF Limit
<1>2. \A v, n, x \in Nat : n <= x => Span(v, n) \subseteq Span(v, x)
  BY DEF Span
<1>3. \A n \in Nat : n <= MaxMmap \/ n <= StackPages => Span(0, n) \subseteq LowFrames
  BY <1>2, SpaceAssumption DEF LowFrames
<1>. QED
  BY <1>1, <1>2, <1>3 DEF Span, Addresses

(* Pages of a mapping that ends below top. *)
LEMMA PageOf ==
  ASSUME NEW start \in Nat, NEW cur \in Nat, NEW size \in Nat, NEW top \in Nat, NEW d \in Nat \ {0},
         start <= cur, cur + size <= top
  PROVE  start \div d <= cur \div d /\ (cur \div d) + (size \div d) <= top \div d
<1> DEFINE a == start \div d
           c == cur \div d
           n == size \div d
           t == top \div d
<1>1. /\ a \in Nat /\ c \in Nat /\ n \in Nat /\ t \in Nat
      /\ d * a <= start /\ d * c <= cur /\ cur < d * c + d /\ d * n <= size /\ top < d * t + d
      /\ start < d * a + d
  OBVIOUS
<1> HIDE DEF a, c, n, t
<1>2. ASSUME NEW x \in Nat, NEW y \in Nat, x < y PROVE d * x + d <= d * y /\ d * x \in Nat /\ d * y \in Nat
  <2>1. d * (x + 1) <= d * y
    BY <1>2
  <2>2. d * (x + 1) = d * x + d /\ d * x \in Nat /\ d * y \in Nat
    OBVIOUS
  <2>. QED
    BY <2>1, <2>2
<1>3. ~ (c < a)
  BY <1>1, <1>2
<1>4. d * (c + n) = d * c + d * n /\ d * c \in Nat /\ d * n \in Nat
  BY <1>1
<1>5. ~ (t < c + n)
  <2> SUFFICES ASSUME t < c + n PROVE FALSE
    OBVIOUS
  <2>1. d * t + d <= d * (c + n) /\ d * t \in Nat
    BY <1>1, <1>2
  <2>. QED
    BY <2>1, <1>1, <1>4
<1>. QED
  BY <1>1, <1>3, <1>5 DEF a, c, n, t

LEMMA LoadSegmentKeeps ==
  ASSUME MemInv, ~halted, NEW t \in Tasks, LoadSegment(t), UNCHANGED <<heapVars, load>>
  PROVE  MemInv'
<1>1. PICK lab : LabelOK(lab)
  BY DEF MemInv, SpacesOK
<1>2. space[t] # 0 /\ phase[t] = "loading"
  BY DEF MemInv, PhasesOK, LoadSegment
<1>3. Segment \in Nat /\ Span(Segment, 1) \subseteq Addresses /\ UserStack \notin Span(Segment, 1)
  <2>1. Segment \in Nat /\ Segment < Limit /\ Segment # UserStack
    BY SpaceAssumption, PlaceAssumption DEF Limit
  <2>2. Segment \in Addresses
    BY <2>1, SpanFacts DEF Addresses
  <2>. QED
    BY <2>1, <2>2, SpanFacts
<1>4. AllocAndMap(space[t], Segment, 1) /\ Span(0, 1) \subseteq LowFrames
  BY SpanFacts, SpaceAssumption DEF LoadSegment
<1>5. /\ Partition(pool', HeapArea, DOMAIN pt', frames', load.pages)
      /\ strayed' \subseteq {kernel_space} \cup UserSpaces
  BY <1>1, <1>2, <1>3, <1>4, AllocAndMapKeeps DEF MemInv, PhasesOK
<1>6. PICK lab2 : /\ MapsOK(pt', lab2, kernel_space, UserSpaces, frames', strayed')
                  /\ \A u \in UserSpaces : Unstacked(pt, lab, u) => Unstacked(pt', lab2, u)
  BY <1>1, <1>2, <1>3, <1>4, AllocAndMapKeeps
<1>7. /\ UNCHANGED <<kernel_space, space, phase, heap_cur, cr3, halted>>
      /\ UserSpaces' = UserSpaces /\ Spaces' = Spaces
  BY DEF LoadSegment, UserSpaces, Spaces
<1>8. PhasesOK'
  BY <1>5, <1>7 DEF MemInv, PhasesOK
<1>9. LabelOK(lab2)'
  BY <1>1, <1>6, <1>7 DEF LabelOK, UserSpaces
<1>. QED
  BY <1>5, <1>8, <1>9, SpacesKeepHeap DEF MemInv, SpacesOK

LEMMA CreateTaskKeeps ==
  ASSUME MemInv, ~halted, NEW t \in Tasks, CreateTask(t), UNCHANGED <<heapVars, load>>
  PROVE  MemInv'
<1>1. PICK lab : LabelOK(lab)
  BY DEF MemInv, SpacesOK
<1>2. space[t] # 0 /\ phase[t] = "loading"
  BY DEF MemInv, PhasesOK, CreateTask
<1>3. Unstacked(pt, lab, space[t])
  BY <1>1, <1>2 DEF LabelOK
<1>4. UserStack \in Nat /\ StackPages \in Nat \ {0} /\ Span(UserStack, StackPages) \subseteq Addresses
  <2>1. \A w \in Span(UserStack, StackPages) : w < Limit
    BY PlaceAssumption DEF Limit
  <2>. QED
    BY <2>1, SpaceAssumption, SpanFacts DEF Span, Addresses
<1>5. AllocAndMap(space[t], UserStack, StackPages) /\ Span(0, StackPages) \subseteq LowFrames
  BY DEF CreateTask, LowFrames
<1>6. /\ Partition(pool', HeapArea, DOMAIN pt', frames', load.pages)
      /\ strayed' \subseteq {kernel_space} \cup UserSpaces
  BY <1>1, <1>2, <1>3, <1>4, <1>5, AllocAndMapKeeps DEF MemInv, PhasesOK
<1>7. PICK lab2 : /\ MapsOK(pt', lab2, kernel_space, UserSpaces, frames', strayed')
                  /\ \A u \in UserSpaces : Unstacked(pt, lab, u) /\ u # space[t] => Unstacked(pt', lab2, u)
  BY <1>1, <1>2, <1>3, <1>4, <1>5, AllocAndMapKeeps
<1>8. /\ UNCHANGED <<kernel_space, space, cr3>> /\ UserSpaces' = UserSpaces
      /\ phase' = [phase EXCEPT ![t] = "running"]
      /\ heap_cur' = [heap_cur EXCEPT ![t] = HeapStart] /\ halted' = halted
  BY DEF CreateTask, UserSpaces
<1>9. phase \in [Tasks -> {"new", "loading", "running", "dead"}] /\ heap_cur \in [Tasks -> Nat]
  BY DEF MemInv, PhasesOK
<1>10. \A u \in Tasks : phase'[u] = IF u = t THEN "running" ELSE phase[u]
  BY <1>8, <1>9
<1>11. \A u \in Tasks : heap_cur'[u] = IF u = t THEN HeapStart ELSE heap_cur[u]
  BY <1>8, <1>9
<1>12. Spaces \subseteq Spaces'
  BY <1>8, <1>10 DEF Spaces
<1>13. PhasesOK'
  <2>1. phase' \in [Tasks -> {"new", "loading", "running", "dead"}]
    BY <1>8, <1>9
  <2>2. heap_cur' \in [Tasks -> Nat] /\ \A u \in Tasks : heap_cur'[u] >= HeapStart
    BY <1>8, <1>9, <1>11, SpaceAssumption DEF MemInv, PhasesOK
  <2>3. \A u \in Tasks :
       /\ space'[u] # 0 => phase'[u] \in {"loading", "running"}
       /\ phase'[u] = "running" => space'[u] # 0
       /\ phase'[u] = "loading" => space'[u] # 0 \/ halted'
    BY <1>2, <1>8, <1>10 DEF MemInv, PhasesOK
  <2>4. cr3' \in Spaces'
    BY <1>8, <1>12 DEF MemInv, PhasesOK
  <2>. QED
    BY <2>1, <2>2, <2>3, <2>4, <1>6, <1>8 DEF MemInv, PhasesOK
<1>14. LabelOK(lab2)'
  <2>1. ASSUME NEW u \in Tasks, phase'[u] = "loading", space'[u] # 0 PROVE Unstacked(pt', lab2, space'[u])
    <3>1. u # t /\ phase[u] = "loading" /\ space[u] # 0 /\ space'[u] = space[u] /\ space[u] # space[t]
      BY <2>1, <1>8, <1>10 DEF MemInv, PhasesOK
    <3>2. Unstacked(pt, lab, space[u]) /\ space[u] \in UserSpaces
      BY <3>1, <1>1 DEF LabelOK, UserSpaces
    <3>. QED
      BY <3>1, <3>2, <1>7
  <2>. QED
    BY <2>1, <1>7, <1>8 DEF LabelOK
<1>. QED
  BY <1>6, <1>13, <1>14, SpacesKeepHeap DEF MemInv, SpacesOK

LEMMA MmapKeeps ==
  ASSUME MemInv, ~halted, NEW t \in Tasks, NEW hint \in Hints, NEW size \in MmapSizes, Mmap(t, hint, size),
         UNCHANGED <<heapVars, load>>
  PROVE  MemInv'
<1> DEFINE cur == heap_cur[t]
           v == (IF hint = 0 THEN cur ELSE hint) \div PAGE_SIZE
           n == size \div PAGE_SIZE
<1>1. PICK lab : LabelOK(lab)
  BY DEF MemInv, SpacesOK
<1>2. /\ space[t] # 0 /\ phase[t] = "running" /\ cur \in Nat /\ cur >= HeapStart /\ cur + size <= HeapTop
      /\ size \in Nat /\ n <= MaxMmap /\ MaxMmap \in Nat /\ hint \in Nat
      /\ HeapStart \in Nat /\ HeapTop \in Nat
  BY SpaceAssumption DEF MemInv, PhasesOK, Mmap
<1> HIDE DEF cur
<1>3. n \in Nat /\ Span(0, n) \subseteq LowFrames
  <2>1. n \in Nat
    BY <1>2, PageSizeIsPositive
  <2>. QED
    BY <2>1, <1>2, SpanFacts
<1>4. v \in Nat /\ Span(v, n) \subseteq Addresses /\ UserStack \notin Span(v, n)
  <2>1. CASE hint = 0
    <3> DEFINE c == cur \div PAGE_SIZE
               start == HeapStart \div PAGE_SIZE
               top == HeapTop \div PAGE_SIZE
    <3>1. top <= Limit /\ UserStack \notin start .. top - 1
      BY PlaceAssumption DEF Limit
    <3>2. c \in Nat /\ start \in Nat /\ top \in Nat /\ start <= c /\ c + n <= top
      BY <1>2, PageSizeIsPositive, PageOf
    <3> HIDE DEF c, start, top, n
    <3>3. c + n <= Limit
      BY <3>1, <3>2, <1>3, SpanFacts
    <3>4. Span(c, n) \subseteq start .. top - 1
      BY <3>2, <1>3 DEF Span
    <3>5. Span(c, n) \subseteq Addresses
      BY <3>2, <3>3, <1>3, SpanFacts
    <3>6. v = c
      BY <2>1 DEF c
    <3> HIDE DEF v
    <3>. QED
      BY <3>1, <3>2, <3>4, <3>5, <3>6
  <2>2. CASE hint # 0
    <3> DEFINE h == hint \div PAGE_SIZE
    <3>1. h + MaxMmap <= Limit /\ UserStack \notin Span(h, MaxMmap)
      BY <2>2, PlaceAssumption DEF Limit
    <3>2. h \in Nat
      BY <1>2, PageSizeIsPositive
    <3>3. v = h
      BY <2>2
    <3> HIDE DEF h, v, n
    <3>4. h + n <= Limit
      BY <3>1, <3>2, <1>2, <1>3, SpanFacts
    <3>5. Span(h, n) \subseteq Span(h, MaxMmap) /\ Span(h, n) \subseteq Addresses
      BY <3>2, <3>4, <1>2, <1>3, SpanFacts
    <3>. QED
      BY <3>1, <3>2, <3>3, <3>5
  <2>. QED
    BY <2>1, <2>2
<1>5. AllocAndMap(space[t], v, n)
  BY DEF Mmap, cur
<1> HIDE DEF v, n
<1>6. /\ Partition(pool', HeapArea, DOMAIN pt', frames', load.pages)
      /\ strayed' \subseteq {kernel_space} \cup UserSpaces
  BY <1>1, <1>2, <1>3, <1>4, <1>5, AllocAndMapKeeps DEF MemInv, PhasesOK
<1>7. PICK lab2 : /\ MapsOK(pt', lab2, kernel_space, UserSpaces, frames', strayed')
                  /\ \A u \in UserSpaces : Unstacked(pt, lab, u) => Unstacked(pt', lab2, u)
  BY <1>1, <1>2, <1>3, <1>4, <1>5, AllocAndMapKeeps
<1>8. /\ UNCHANGED <<kernel_space, space, phase, cr3, halted>>
      /\ UserSpaces' = UserSpaces /\ Spaces' = Spaces
      /\ heap_cur' = [heap_cur EXCEPT ![t] = cur + size]
  BY DEF Mmap, UserSpaces, Spaces, cur
<1>9. PhasesOK'
  <2>1. heap_cur' \in [Tasks -> Nat] /\ \A u \in Tasks : heap_cur'[u] >= HeapStart
    BY <1>2, <1>8, SpaceAssumption DEF MemInv, PhasesOK
  <2>. QED
    BY <2>1, <1>6, <1>8 DEF MemInv, PhasesOK
<1>10. LabelOK(lab2)'
  BY <1>1, <1>7, <1>8 DEF LabelOK, UserSpaces
<1>. QED
  BY <1>6, <1>9, <1>10, SpacesKeepHeap DEF MemInv, SpacesOK

LEMMA SwitchSpaceKeeps ==
  ASSUME MemInv, NEW pml4 \in Spaces, SwitchSpace(pml4), UNCHANGED <<heapVars, load>>
  PROVE  MemInv'
<1>1. UNCHANGED <<pool, halted, pt, kernel_space, space, phase, heap_cur, frames, strayed>> /\ cr3' \in Spaces
      /\ UserSpaces' = UserSpaces /\ Spaces' = Spaces
  BY DEF SwitchSpace, poolVars, UserSpaces, Spaces
<1>2. PhasesOK'
  BY <1>1 DEF MemInv, PhasesOK
<1>3. SpacesOK'
  <2>1. PICK lab : LabelOK(lab)
    BY DEF MemInv, SpacesOK
  <2>2. LabelOK(lab)'
    BY <2>1, <1>1 DEF LabelOK
  <2>. QED
    BY <2>2 DEF SpacesOK
<1>4. Partition(pool', HeapArea, DOMAIN pt', frames', load.pages)
  BY <1>1 DEF MemInv, PagesOK
<1>. QED
  BY <1>2, <1>3, <1>4, SpacesKeepHeap DEF MemInv

LEMMA NewSpaceKeeps ==
  ASSUME MemInv, ~halted, NEW t \in Tasks, NewSpace(t), UNCHANGED <<heapVars, load>>
  PROVE  MemInv'
<1> DEFINE a == AllocPages(pool, 1)
           n == a.page
           k == kernel_space
<1>1. PICK lab : LabelOK(lab)
  BY DEF MemInv, SpacesOK
<1>2. space[t] = 0 /\ phase[t] = "new" /\ phase' = [phase EXCEPT ![t] = "loading"]
      /\ UNCHANGED <<kernel_space, heap_cur, frames, strayed, cr3>>
      /\ phase \in [Tasks -> {"new", "loading", "running", "dead"}] /\ space \in [Tasks -> Nat]
  BY DEF MemInv, PhasesOK, NewSpace
<1>3. load.pages \in 0 .. MaxPage /\ Partition(pool, HeapArea, DOMAIN pt, frames, load.pages)
      /\ pool \subseteq Pages
  <2>1. load.pages \in 0 .. MaxPage /\ Partition(pool, HeapArea, DOMAIN pt, frames, load.pages)
    BY WorkloadAssumption DEF MemInv, PagesOK
  <2>. QED
    BY <2>1, MaxPageIsNat DEF Partition, Pages
<1>4. \/ n = 0 /\ a.pool = pool
      \/ n \in pool /\ n \in Nat \ {0} /\ a.pool = pool \ {n}
  BY <1>3, OnePage
<1>5. \A u \in Tasks : phase'[u] = IF u = t THEN "loading" ELSE phase[u]
  BY <1>2
<1>6. CASE n = 0
  <2>1. NewTable(Memory) = [page |-> 0, m |-> [pool |-> a.pool, pt |-> pt]]
    BY <1>6 DEF NewTable, Memory
  <2>2. pool' = pool /\ pt' = pt /\ halted' = TRUE /\ space' = space
    <3> HIDE DEF a
    <3>. QED
      BY <2>1, <1>4, <1>6 DEF NewSpace, Becomes
  <2>3. UserSpaces' = UserSpaces
    BY <2>2 DEF UserSpaces
  <2>4. Spaces' = Spaces
    BY <2>2, <1>2, <1>5 DEF Spaces
  <2>5. PhasesOK'
    <3>1. phase' \in [Tasks -> {"new", "loading", "running", "dead"}]
      BY <1>2
    <3>. QED
      BY <3>1, <2>2, <2>3, <2>4, <1>2, <1>5 DEF MemInv, PhasesOK
  <2>6. LabelOK(lab)'
    BY <2>2, <2>3, <1>1, <1>2, <1>5 DEF LabelOK
  <2>7. Partition(pool', HeapArea, DOMAIN pt', frames', load.pages)
    BY <2>2, <1>2, <1>3
  <2>. QED
    BY <2>5, <2>6, <2>7, SpacesKeepHeap DEF MemInv, SpacesOK
<1>7. CASE n # 0
  <2> DEFINE T1 == [q \in DOMAIN pt \cup {n} |-> IF q = n THEN EmptyTable ELSE pt[q]]
             T2 == [q \in DOMAIN pt \cup {n} |-> IF q = n THEN NewTop(pt, k) ELSE pt[q]]
             lab2 == [q \in DOMAIN pt \cup {n} |-> IF q = n THEN Label(n, 4, 0) ELSE lab[q]]
             Q == pool \ {n}
  <2>1. n \in pool /\ n \in Nat \ {0} /\ a.pool = Q /\ n \in Pages \ DOMAIN pt
    BY <1>3, <1>4, <1>7 DEF Partition
  <2>2. NewTable(Memory) = [page |-> n, m |-> [pool |-> Q, pt |-> T1]]
    BY <2>1, <1>7 DEF NewTable, Memory
  <2> HIDE DEF n, a
  <2>3. [T1 EXCEPT ![n] = NewTop(pt, k)] = T2
    OBVIOUS
  <2>4. [[pool |-> Q, pt |-> T1] EXCEPT !.pt[n] = NewTop(pt, k)] = [pool |-> Q, pt |-> T2]
    <3> HIDE DEF T1, T2, Q
    <3>. QED
      BY <2>3
  <2>5. /\ pool' = Q /\ pt' = T2 /\ halted' = halted /\ space' = [space EXCEPT ![t] = n]
    <3> HIDE DEF T1, T2, Q
    <3> DEFINE r == NewTable(Memory)
    <3>1. r.page = n /\ r.m = [pool |-> Q, pt |-> T1]
      BY <2>2
    <3> HIDE DEF r
    <3>2. Becomes([r.m EXCEPT !.pt[n] = NewTop(pt, k)]) /\ space' = [space EXCEPT ![t] = n] /\ halted' = halted
      <4>1. r.page # 0
        BY <3>1, <1>7
      <4>. QED
        BY <4>1, <3>1 DEF NewSpace, NewTop, r
    <3>3. Becomes([pool |-> Q, pt |-> T2])
      BY <3>1, <3>2, <2>4
    <3>. QED
      BY <3>2, <3>3 DEF Becomes
  <2>6. /\ TreeOK(T2, lab2, k, UserSpaces \cup {n}) /\ SameMaps(pt, lab, T2, lab2)
        /\ \A v, f : ~At(T2, lab2, n, v, f)
    <3>1. WithSpace(pt, lab, k, n, T2, lab2)
      BY Zenon DEF WithSpace
    <3>2. TreeOK(pt, lab, k, UserSpaces)
      BY <1>1 DEF LabelOK, MapsOK
    <3> HIDE DEF T2, lab2
    <3>. QED
      BY <3>1, <3>2, <2>1, AddSpace
  <2>7. DOMAIN T2 = DOMAIN pt \cup {n} /\ \A q \in DOMAIN pt : T2[q] = pt[q]
    BY <2>1
  <2> HIDE DEF T1, T2, Q, lab2
  <2>8. \A u \in Tasks : space'[u] = IF u = t THEN n ELSE space[u]
    BY <2>5, <1>2
  <2>9. UserSpaces' = UserSpaces \cup {n}
    BY <2>1, <2>8, <1>2 DEF UserSpaces
  <2>10. k \in DOMAIN pt /\ k # n /\ n \notin UserSpaces /\ UserSpaces \subseteq DOMAIN pt
    BY <2>1, <1>1 DEF LabelOK, MapsOK, TreeOK, Labelled
  <2>11. MapsOK(T2, lab2, k, UserSpaces \cup {n}, frames, strayed)
    <3>1. Full(T2, k)
      BY <2>7, <2>10, <1>1 DEF LabelOK, MapsOK, Full
    <3>2. FramesOK(pt, lab, k, frames, strayed) /\ StacksOK(pt, lab, k, UserSpaces, frames, strayed)
      BY <1>1 DEF LabelOK, MapsOK
    <3>3. \A s \in (UserSpaces \cup {n}) \ UserSpaces : \A f : ~At(T2, lab2, s, UserStack, f)
      BY <2>6
    <3>4. FramesOK(T2, lab2, k, frames, strayed) /\ StacksOK(T2, lab2, k, UserSpaces \cup {n}, frames, strayed)
      BY <3>2, <3>3, <2>6, SameMapsKeep
    <3>. QED
      BY <3>1, <3>4, <2>6 DEF MapsOK
  <2>11a. PICK lab3 : lab3 = lab2
    OBVIOUS
  <2>12. LabelOK(lab3)'
    <3>1. ASSUME NEW u \in Tasks, phase'[u] = "loading", space'[u] # 0 PROVE Unstacked(T2, lab3, space'[u])
      <4>1. CASE u = t
        BY <2>11a, <4>1, <2>6, <2>8 DEF Unstacked
      <4>2. CASE u # t
        BY <2>11a, <4>2, <3>1, <2>6, <2>8, <1>1, <1>5 DEF LabelOK, Unstacked, SameMaps
      <4>. QED
        BY <4>1, <4>2
    <3>. QED
      BY <2>11a, <3>1, <2>5, <2>9, <2>11, <1>2 DEF LabelOK
  <2>13. Spaces \subseteq Spaces'
    BY <2>8, <1>2, <1>5 DEF Spaces
  <2>14. PhasesOK'
    <3>1. phase' \in [Tasks -> {"new", "loading", "running", "dead"}] /\ space' \in [Tasks -> Nat]
      BY <2>1, <2>5, <1>2
    <3>2. \A u \in Tasks :
       /\ space'[u] # 0 => phase'[u] \in {"loading", "running"}
       /\ phase'[u] = "running" => space'[u] # 0
       /\ phase'[u] = "loading" => space'[u] # 0 \/ halted'
      BY <2>1, <2>5, <2>8, <1>5 DEF MemInv, PhasesOK
    <3>3. \A u \in Tasks : u # t => space[u] # n
      BY <2>1, <2>10 DEF UserSpaces
    <3>4. \A u, w \in Tasks : space'[u] # 0 /\ space'[u] = space'[w] => u = w
      BY <3>3, <2>8 DEF MemInv, PhasesOK
    <3>. QED
      BY <3>1, <3>2, <3>4, <2>5, <2>9, <2>13, <1>2 DEF MemInv, PhasesOK
  <2>15. Partition(pool', HeapArea, DOMAIN pt', frames', load.pages)
    BY <2>1, <2>5, <2>7, <1>2, <1>3 DEF Partition, Q
  <2>. QED
    BY <2>12, <2>14, <2>15, SpacesKeepHeap DEF MemInv, SpacesOK
<1>. QED
  BY <1>6, <1>7

(* The memory that the walk of ~Task leaves. *)
WalkOK(m, lab, k, S, F, Z, s, r, e, lab2) ==
  /\ MemOK(r.m, lab2, k, S) /\ r.m.pool \cup DOMAIN r.m.pt = m.pool \cup DOMAIN m.pt
  /\ MapsOK(r.m.pt, lab2, k, S, F, Z) /\ SameMaps(m.pt, lab, r.m.pt, lab2)
  /\ e # 0 => At(r.m.pt, lab2, s, UserStack, e - 1) /\ e \in Nat

LEMMA WalkKeepsMaps ==
  ASSUME NEW m, NEW lab, NEW k, NEW S, NEW F, NEW Z, MemOK(m, lab, k, S), MapsOK(m.pt, lab, k, S, F, Z),
         NEW s \in S, NEW r, r = VirtToPte(m, s, UserStack),
         NEW e, e = IF r.page = 0 THEN 0 ELSE r.m.pt[r.page][Offset(UserStack, 1)]
  PROVE  \E lab2 : WalkOK(m, lab, k, S, F, Z, s, r, e, lab2)
<1>1. UserStack \in Addresses /\ ~IsKernel(UserStack)
  <2>1. UserStack \in Span(UserStack, StackPages) /\ UserStack \in Nat
    BY SpaceAssumption DEF Span
  <2>2. UserStack < Limit /\ ~IsKernel(UserStack)
    BY <2>1, PlaceAssumption DEF Limit
  <2>. QED
    BY <2>1, <2>2, SpanFacts DEF Addresses
<1>2. TreeOK(m.pt, lab, k, S) /\ s # k
  BY DEF MapsOK, TreeOK, Shared
<1>3. MayMap(m.pt, k, s, UserStack) /\ Owner(k, s, UserStack) = s
  BY <1>1, <1>2 DEF MayMap, Owner
<1>4. PICK lab2 : WalkedTo(m, lab, k, S, s, UserStack, 1, r, lab2)
  <2>1. s \in {k} \cup S
    OBVIOUS
  <2>2. \E lab2 : WalkedTo(m, lab, k, S, Owner(k, s, UserStack), UserStack, 1, r, lab2)
    BY <2>1, <1>3, VirtToPteOK
  <2>. QED
    BY <2>2, <1>3
<1>5. /\ MemOK(r.m, lab2, k, S) /\ r.m.pool \cup DOMAIN r.m.pt = m.pool \cup DOMAIN m.pt
      /\ SameMaps(m.pt, lab, r.m.pt, lab2) /\ Grows(m.pt, lab, r.m.pt, lab2)
      /\ r.page # 0 => r.page \in DOMAIN r.m.pt /\ lab2[r.page] = Label(s, 1, Base(UserStack, 1))
  BY <1>4 DEF WalkedTo, Extended
<1>6. MapsOK(r.m.pt, lab2, k, S, F, Z)
  <2>1. Full(r.m.pt, k)
    BY <1>2, <1>5, Halves DEF MapsOK, Full, Grows, TreeOK, Labelled
  <2>2. FramesOK(m.pt, lab, k, F, Z) /\ StacksOK(m.pt, lab, k, S, F, Z) /\ S \ S = {} /\ S \subseteq S
    BY DEF MapsOK
  <2>3. FramesOK(r.m.pt, lab2, k, F, Z) /\ StacksOK(r.m.pt, lab2, k, S, F, Z)
    BY <2>2, <1>5, SameMapsKeep
  <2>. QED
    BY <2>1, <2>3, <1>5 DEF MapsOK, MemOK
<1>7. e # 0 => At(r.m.pt, lab2, s, UserStack, e - 1) /\ e \in Nat
  <2> SUFFICES ASSUME e # 0 PROVE At(r.m.pt, lab2, s, UserStack, e - 1) /\ e \in Nat
    OBVIOUS
  <2>1. r.page # 0 /\ r.m.pt[r.page][Offset(UserStack, 1)] = e
    OBVIOUS
  <2>2. lab2[r.page].lv = 1 /\ lab2[r.page].sp = s /\ lab2[r.page].base = Base(UserStack, 1)
    BY <2>1, <1>5 DEF Label
  <2>3. Offset(UserStack, 1) \in Index /\ Child(Base(UserStack, 1), Offset(UserStack, 1)) = UserStack
    BY <1>1, WalkIndices
  <2>4. e \in Nat
    BY <2>1, <2>3, <1>5 DEF MemOK, TreeOK, TableTypes
  <2>5. e - 1 \in Nat /\ Entry(e - 1) = e
    BY <2>4, EntryFacts
  <2>. QED
    BY <2>1, <2>2, <2>3, <2>4, <2>5, <1>5 DEF At
<1>. QED
  BY <1>5, <1>6, <1>7 DEF WalkOK

LEMMA ExitKeeps ==
  ASSUME MemInv, ~halted, NEW t \in Tasks, Exit(t), UNCHANGED <<heapVars, load>>
  PROVE  IInv'
<1> DEFINE k == kernel_space
           s == space[t]
           r == VirtToPte(Memory, s, UserStack)
           e == IF r.page = 0 THEN 0 ELSE r.m.pt[r.page][Offset(UserStack, 1)]
           f == e - 1
           X == Span(f, StackPages)
           dead == DestroyPml(r.m.pt, s)
<1>1. PICK lab : LabelOK(lab)
  BY DEF MemInv, SpacesOK
<1>2. /\ phase[t] = "running" /\ cr3 = s /\ UNCHANGED <<kernel_space, heap_cur>>
      /\ IF e = 0
           THEN Becomes(r.m) /\ halted' = TRUE /\ UNCHANGED <<space, phase, frames, strayed, cr3>>
           ELSE /\ Becomes([pool |-> r.m.pool \cup X \cup dead,
                            pt |-> [q \in DOMAIN r.m.pt \ dead |-> r.m.pt[q]]])
                /\ frames' = IF e = Entry(0) THEN frames ELSE frames \ X
                /\ space' = [space EXCEPT ![t] = 0]
                /\ phase' = [phase EXCEPT ![t] = "dead"]
                /\ strayed' = strayed \ {s}
                /\ cr3' \in NextSpace(t)
                /\ halted' = (e = Entry(0))
  BY DEF Exit
<1>3. /\ s # 0 /\ s \in UserSpaces
      /\ phase \in [Tasks -> {"new", "loading", "running", "dead"}] /\ space \in [Tasks -> Nat]
  BY <1>2 DEF MemInv, PhasesOK, UserSpaces
<1>4. load.pages \in 0 .. MaxPage /\ Partition(pool, HeapArea, DOMAIN pt, frames, load.pages)
      /\ pool \subseteq Pages
  <2>1. load.pages \in 0 .. MaxPage /\ Partition(pool, HeapArea, DOMAIN pt, frames, load.pages)
    BY WorkloadAssumption DEF MemInv, PagesOK
  <2>. QED
    BY <2>1, MaxPageIsNat DEF Partition, Pages
<1>5. Memory.pool = pool /\ Memory.pt = pt /\ Memory = [pool |-> Memory.pool, pt |-> Memory.pt]
  BY DEF Memory
<1>6. MapsOK(pt, lab, k, UserSpaces, frames, strayed) /\ MemOK(Memory, lab, k, UserSpaces)
  <2>1. MapsOK(pt, lab, k, UserSpaces, frames, strayed)
    BY <1>1 DEF LabelOK
  <2>. QED
    BY <2>1, <1>4, <1>5 DEF MemOK, MapsOK, Partition
<1>7. PICK lab2 :
        /\ MemOK(r.m, lab2, k, UserSpaces) /\ r.m.pool \cup DOMAIN r.m.pt = pool \cup DOMAIN pt
        /\ MapsOK(r.m.pt, lab2, k, UserSpaces, frames, strayed) /\ SameMaps(pt, lab, r.m.pt, lab2)
        /\ e # 0 => At(r.m.pt, lab2, s, UserStack, f) /\ e \in Nat
  <2>1. r = VirtToPte(Memory, s, UserStack)
    OBVIOUS
  <2>2. e = IF r.page = 0 THEN 0 ELSE r.m.pt[r.page][Offset(UserStack, 1)]
    OBVIOUS
  <2> HIDE DEF r, e
  <2>3. MapsOK(Memory.pt, lab, k, UserSpaces, frames, strayed)
    BY <1>5, <1>6
  <2> HIDE DEF s, k
  <2>4. PICK lab2 : WalkOK(Memory, lab, k, UserSpaces, frames, strayed, s, r, e, lab2)
    BY <2>1, <2>2, <2>3, <1>3, <1>6, WalkKeepsMaps
  <2>. QED
    BY <2>4, <1>5 DEF WalkOK
<1> HIDE DEF r, e
<1>8. r.m.pool \cap DOMAIN r.m.pt = {}
  BY <1>7 DEF MemOK
<1>9. CASE e = 0
  <2>1. pool' = r.m.pool /\ pt' = r.m.pt /\ halted' = TRUE /\ UNCHANGED <<space, phase, frames, strayed, cr3>>
    BY <1>2, <1>9 DEF Becomes
  <2>2. UserSpaces' = UserSpaces /\ Spaces' = Spaces
    BY <2>1, <1>2 DEF UserSpaces, Spaces
  <2>3. PhasesOK'
    BY <2>1, <2>2, <1>2 DEF MemInv, PhasesOK
  <2>4. LabelOK(lab2)'
    <3>1. ASSUME NEW u \in Tasks, phase[u] = "loading", space[u] # 0 PROVE Unstacked(r.m.pt, lab2, space[u])
      BY <3>1, <1>1, <1>7 DEF LabelOK, Unstacked, SameMaps
    <3>. QED
      BY <3>1, <2>1, <2>2, <1>2, <1>7 DEF LabelOK
  <2>5. Partition(pool', HeapArea, DOMAIN pt', frames', load.pages)
    BY <2>1, <1>4, <1>7, <1>8 DEF Partition
  <2>. QED
    BY <2>3, <2>4, <2>5, SpacesKeepHeap DEF IInv, MemInv, SpacesOK
<1>10. CASE e # 0
  <2> DEFINE T == r.m.pt
             D == DOMAIN T \ dead
             T2 == [q \in D |-> T[q]]
  <2>1. /\ pool' = r.m.pool \cup X \cup dead /\ pt' = T2 /\ frames' = FramesWithout(frames, f)
        /\ space' = [space EXCEPT ![t] = 0] /\ phase' = [phase EXCEPT ![t] = "dead"]
        /\ cr3' \in NextSpace(t) /\ halted' = (f = 0) /\ strayed' = strayed \ {s} /\ f \in Nat
    <3>1. e = Entry(0) <=> f = 0
      BY <1>7, <1>10 DEF Entry
    <3>2. f \in Nat
      BY <1>7, <1>10
    <3> HIDE DEF f
    <3>. QED
      BY <3>1, <3>2, <1>2, <1>10 DEF Becomes, FramesWithout
  <2> HIDE DEF f
  <2>2. PICK lab3 : lab3 = [q \in D |-> lab2[q]]
    OBVIOUS
  <2>3. TreeOK(T, lab2, k, UserSpaces) /\ s # k /\ At(T, lab2, s, UserStack, f)
    BY <1>3, <1>7, <1>10 DEF MapsOK, TreeOK, Shared
  <2>4. dead = Owned(T, lab2, s)
    <3>1. Tree(T, s, OwnHalf(k, s)) = Owned(T, lab2, s)
      BY <2>3, <1>3, TreeIs
    <3>. QED
      BY <3>1, <2>3 DEF DestroyPml, OwnHalf
  <2>5. dead \subseteq DOMAIN T
    BY <2>4 DEF Owned
  <2> HIDE DEF dead, T
  <2>6. Kept(T, lab2, s, D, T2, lab3)
    BY <2>2, <2>4 DEF Kept, Owned
  <2>7. DOMAIN T2 = D
    OBVIOUS
  <2> HIDE DEF T2, D
  <2>8. /\ MapsOK(T2, lab3, k, UserSpaces \ {s}, FramesWithout(frames, f), strayed \ {s})
        /\ \A u, v, g : At(T2, lab3, u, v, g) => At(T, lab2, u, v, g)
    <3>1. MapsOK(T, lab2, k, UserSpaces, frames, strayed)
      BY <1>7 DEF T
    <3> HIDE DEF s, k, X
    <3>2. SpaceDropped(T, lab2, k, UserSpaces, frames, strayed, s, f, T2, lab3)
      BY <3>1, <2>3, <2>6, <1>3, DropSpaceMaps
    <3>. QED
      BY <3>2 DEF SpaceDropped
  <2>9. f # 0 => X \subseteq frames
    BY <2>3, <1>3, <1>7 DEF MapsOK, StacksOK, StackOK, T
  <2> DEFINE P2 == IF f = 0 THEN r.m.pool \cup dead ELSE r.m.pool \cup X \cup dead
  <2>10. Partition(P2, HeapArea, DOMAIN pt', frames', load.pages)
    <3>1. r.m.pool \cup DOMAIN T = pool \cup DOMAIN pt /\ r.m.pool \cap DOMAIN T = {}
      BY <1>7, <1>8 DEF T
    <3>2. CASE f = 0
      BY <3>1, <3>2, <2>1, <2>5, <2>7, <1>4 DEF Partition, D, FramesWithout
    <3>3. CASE f # 0
      BY <3>1, <3>3, <2>1, <2>5, <2>7, <2>9, <1>4 DEF Partition, D, FramesWithout
    <3>. QED
      BY <3>2, <3>3
  <2>11. /\ \A u \in Tasks : space'[u] = IF u = t THEN 0 ELSE space[u]
         /\ \A u \in Tasks : phase'[u] = IF u = t THEN "dead" ELSE phase[u]
    BY <2>1, <1>3
  <2>12. \A u \in Tasks : u # t => space[u] # s
    BY <1>3 DEF MemInv, PhasesOK
  <2>13. UserSpaces' = UserSpaces \ {s}
    BY <2>11, <2>12 DEF UserSpaces
  <2>14. LabelOK(lab3)'
    <3>1. ASSUME NEW u \in Tasks, phase'[u] = "loading", space'[u] # 0 PROVE Unstacked(T2, lab3, space'[u])
      <4>1. u # t /\ space'[u] = space[u] /\ Unstacked(pt, lab, space[u])
        BY <3>1, <2>11, <1>1 DEF LabelOK
      <4>2. Unstacked(T, lab2, space[u])
        BY <4>1, <1>7 DEF Unstacked, SameMaps, T
      <4>. QED
        BY <4>1, <4>2, <2>8 DEF Unstacked
    <3>. QED
      BY <3>1, <2>1, <2>8, <2>13, <1>2 DEF LabelOK
  <2>15. PhasesOK'
    <3>1. phase' \in [Tasks -> {"new", "loading", "running", "dead"}] /\ space' \in [Tasks -> Nat]
      BY <2>1, <1>3
    <3>2. \A u \in Tasks :
       /\ space'[u] # 0 => phase'[u] \in {"loading", "running"}
       /\ phase'[u] = "running" => space'[u] # 0
       /\ phase'[u] = "loading" => space'[u] # 0 \/ halted'
      BY <2>1, <2>11 DEF MemInv, PhasesOK
    <3>3. \A u, w \in Tasks : space'[u] # 0 /\ space'[u] = space'[w] => u = w
      BY <2>11 DEF MemInv, PhasesOK
    <3>4. cr3' \in Spaces'
      BY <2>1, <2>11, <1>2 DEF NextSpace, Spaces
    <3>5. strayed' \subseteq {kernel_space'} \cup UserSpaces'
      BY <2>1, <2>13, <1>2 DEF MemInv, PhasesOK
    <3>. QED
      BY <3>1, <3>2, <3>3, <3>4, <3>5, <2>1, <1>2 DEF MemInv, PhasesOK
  <2>16. SpacesOK'
    BY <2>14 DEF SpacesOK
  <2>17. CASE f # 0
    <3>1. pool' = P2
      BY <2>1, <2>17
    <3>2. HeapInv' /\ PagesOK'
      BY <3>1, <2>10, SpacesKeepHeap
    <3>. QED
      BY <3>2, <2>15, <2>16 DEF IInv, MemInv
  <2>18. CASE f = 0
    <3>1. pool' = P2 \cup Span(0, StackPages)
      BY <2>1, <2>18
    <3>2. BlocksInv' /\ HeapArea' = HeapArea
      BY HeapUnchanged DEF MemInv, HeapInv
    <3>3. load' = load /\ load \in Workloads /\ halted'
      BY <2>1, <2>18 DEF MemInv, PagesOK
    <3>4. Partition(P2, HeapArea', DOMAIN pt', frames', load'.pages)
      BY <3>2, <3>3, <2>10
    <3> HIDE DEF P2
    <3>. QED
      BY <3>1, <3>2, <3>3, <3>4, <2>15, <2>16 DEF IInv, AfterNullStack, Parts
  <2>. QED
    BY <2>17, <2>18
<1>. QED
  BY <1>9, <1>10

-----------------------------------------------------------------------------
(* _start: the heap gets the first pages, then the kernel its space. *)
LEMMA InitMemory == Init => MemInv
<1> SUFFICES ASSUME Init PROVE MemInv
  OBVIOUS
<1> DEFINE C == Cardinality(SlabSizes)
           N == load.pages
           P == (1 .. N) \ DOMAIN hdr
           m == [pool |-> P, pt |-> <<>>]
           k == KernelSpaceOf(m)
<1>1. C \in Nat /\ N \in 0 .. MaxPage /\ C + 1 + (Fanout \div 2) <= N /\ load \in Workloads
      /\ Fanout \div 2 \in Nat
  BY Ranks, WorkloadAssumption, SpaceAssumption DEF Init
<1>2. DOMAIN hdr = 1 .. C /\ HeapInit
  BY DEF Init, HeapInit
<1>3. Cardinality(P) >= 1 + (Fanout \div 2) /\ P \subseteq Pages
  <2> HIDE DEF C, N
  <2>1. P = C + 1 .. N
    BY <1>1, <1>2
  <2> HIDE DEF P
  <2>2. Cardinality(P) = IF C + 1 > N THEN 0 ELSE N - (C + 1) + 1
    <3>1. C + 1 \in Int /\ N \in Int
      BY <1>1, MaxPageIsNat
    <3>. QED
      BY <3>1, <2>1, FS_Interval
  <2>3. Cardinality(P) >= 1 + (Fanout \div 2)
    BY <2>2, <1>1, MaxPageIsNat
  <2>. QED
    BY <2>1, <2>3, <1>1, MaxPageIsNat DEF Pages
<1> HIDE DEF C, P
<1>4. PICK lab : KernelSpaceOK(P, k, lab)
  BY <1>3, KernelSpaceBoots
<1> HIDE DEF k
<1>5. /\ phase = [t \in Tasks |-> "new"] /\ kernel_space = k.page /\ cr3 = k.page
      /\ pool = k.m.pool /\ pt = k.m.pt /\ space = [t \in Tasks |-> 0]
      /\ heap_cur = [t \in Tasks |-> HeapStart] /\ frames = {} /\ strayed = {}
      /\ halted = FALSE
  BY DEF Init, VmmInit, P, k
<1>6. /\ TreeOK(pt, lab, kernel_space, {}) /\ Full(pt, kernel_space) /\ pool \cup DOMAIN pt = P
      /\ pool \cap DOMAIN pt = {}
      /\ \A u, v, f : At(pt, lab, u, v, f) => u = kernel_space /\ v \in Span(KernelBase, KernelPages)
  BY <1>4, <1>5 DEF KernelSpaceOK, MemOK
<1>7. UserSpaces = {} /\ kernel_space \in Spaces
  BY <1>5 DEF UserSpaces, Spaces
<1>8. pool \subseteq Pages /\ pool \cap DOMAIN hdr = {} /\ C <= MaxPage
  BY <1>1, <1>3, <1>6, MaxPageIsNat DEF P
<1>9. HeapInv /\ HeapArea = DOMAIN hdr
  BY <1>2, <1>8, HeapInitInv DEF C
<1>10. PagesOK
  <2>1. DOMAIN hdr \subseteq 1 .. N
    BY <1>1, <1>2, MaxPageIsNat
  <2>2. Partition(pool, HeapArea, DOMAIN pt, frames, N)
    BY <2>1, <1>5, <1>6, <1>9 DEF Partition, P
  <2>. QED
    BY <2>2, <1>1 DEF PagesOK
<1>11. PhasesOK
  <2>1. phase \in [Tasks -> {"new", "loading", "running", "dead"}] /\ \A t \in Tasks : phase[t] = "new"
    BY <1>5
  <2>2. space \in [Tasks -> Nat] /\ \A t \in Tasks : space[t] = 0
    BY <1>5
  <2>3. heap_cur \in [Tasks -> Nat] /\ \A t \in Tasks : heap_cur[t] >= HeapStart
    BY <1>5, SpaceAssumption
  <2>4. cr3 \in Spaces /\ halted \in BOOLEAN
    BY <1>5, <1>7
  <2> HIDE DEF k
  <2>. QED
    BY <2>1, <2>2, <2>3, <2>4, <1>5 DEF PhasesOK
<1>12. LabelOK(lab)
  <2>1. FramesOK(pt, lab, kernel_space, frames, strayed)
    BY <1>6 DEF FramesOK, Plain
  <2>2. StacksOK(pt, lab, kernel_space, {}, frames, strayed)
    BY DEF StacksOK
  <2>. QED
    BY <2>1, <2>2, <1>5, <1>6, <1>7 DEF LabelOK, MapsOK
<1>. QED
  BY <1>9, <1>10, <1>11, <1>12 DEF MemInv, SpacesOK

LEMMA HeapMayHalt ==
  ASSUME MemInv, NEW procs, NEW max, HeapNext(procs, max)
  PROVE  halted' \in BOOLEAN
<1>1. halted \in BOOLEAN
  BY DEF MemInv, PhasesOK
<1>2. ASSUME NEW p, NEW page, NEW size, SlabAlloc(p, page, size) PROVE halted' \in BOOLEAN
  BY <1>1, <1>2 DEF SlabAlloc, TakeBlock, GoToNext, AddSlab
<1>3. ASSUME NEW p, NEW size, KmallocLarge(p, size) PROVE halted' \in BOOLEAN
  BY <1>1, <1>3 DEF KmallocLarge
<1>4. ASSUME NEW b, KfreeSmall(b) \/ KfreeLarge(b) PROVE halted' \in BOOLEAN
  BY <1>1, <1>4 DEF KfreeSmall, KfreeLarge
<1>5. CASE \E p \in procs, size \in Requests : KmallocSmall(p, size) \/ KmallocLarge(p, size)
  BY <1>2, <1>3, <1>5, Zenon DEF KmallocSmall
<1>6. CASE \E p \in Procs : Continue(p)
  BY <1>2, <1>6, Zenon DEF Continue
<1>7. CASE \E b \in live : KfreeSmall(b) \/ KfreeLarge(b)
  BY <1>4, <1>7, Zenon
<1>. QED
  BY <1>5, <1>6, <1>7, Zenon DEF HeapNext

LEMMA MemUnchanged == MemInv /\ UNCHANGED vars => MemInv'
<1> SUFFICES ASSUME MemInv, UNCHANGED vars PROVE MemInv'
  OBVIOUS
<1>1. UNCHANGED <<pool, halted, pt, kernel_space, space, phase, heap_cur, frames, strayed, cr3>>
      /\ UNCHANGED <<heapVars, load>> /\ UserSpaces' = UserSpaces /\ Spaces' = Spaces
  BY DEF vars, poolVars, vmmVars, UserSpaces, Spaces
<1>2. PhasesOK'
  BY <1>1 DEF MemInv, PhasesOK
<1>3. PICK lab : LabelOK(lab)
  BY DEF MemInv, SpacesOK
<1>4. LabelOK(lab)'
  BY <1>1, <1>3 DEF LabelOK
<1>5. Partition(pool', HeapArea, DOMAIN pt', frames', load.pages)
  BY <1>1 DEF MemInv, PagesOK
<1>. QED
  BY <1>1, <1>2, <1>4, <1>5, SpacesKeepHeap DEF MemInv, SpacesOK

LEMMA AfterUnchanged == AfterNullStack /\ UNCHANGED vars => AfterNullStack'
<1> SUFFICES ASSUME AfterNullStack, UNCHANGED vars PROVE AfterNullStack'
  OBVIOUS
<1>1. UNCHANGED <<pool, halted, pt, kernel_space, space, phase, heap_cur, frames, strayed, cr3>>
      /\ UNCHANGED <<heapVars, load>> /\ UserSpaces' = UserSpaces /\ Spaces' = Spaces
  BY DEF vars, poolVars, vmmVars, UserSpaces, Spaces
<1>2. PhasesOK'
  BY <1>1 DEF AfterNullStack, Parts, PhasesOK
<1>3. PICK lab : LabelOK(lab)
  BY DEF AfterNullStack, Parts, SpacesOK
<1>4. LabelOK(lab)'
  BY <1>1, <1>3 DEF LabelOK
<1>5. BlocksInv' /\ HeapArea' = HeapArea
  BY <1>1, HeapUnchanged DEF AfterNullStack, Parts
<1>. QED
  BY <1>1, <1>2, <1>4, <1>5 DEF AfterNullStack, Parts, SpacesOK

LEMMA StepMemory == IInv /\ [Next]_vars => IInv'
<1> SUFFICES ASSUME IInv, [Next]_vars PROVE IInv'
  OBVIOUS
<1>1. CASE UNCHANGED vars
  BY <1>1, MemUnchanged, AfterUnchanged DEF IInv
<1>2. CASE Next
  <2>1. ~halted /\ UNCHANGED load
    BY <1>2 DEF Next
  <2>2. MemInv
    BY <2>1 DEF IInv, AfterNullStack
  <2>3. load.procs \in SUBSET Procs /\ load.tasks \subseteq Tasks
    BY <2>2, WorkloadAssumption DEF MemInv, PagesOK
  <2>4. CASE HeapNext(load.procs, load.live) /\ UNCHANGED vmmVars
    <3>1. halted' \in BOOLEAN
      BY <2>2, <2>4, HeapMayHalt
    <3>. QED
      BY <3>1, <2>1, <2>2, <2>3, <2>4, HeapKeepsMemory DEF IInv
  <2>5. CASE VmmNext(load.tasks) /\ UNCHANGED heapVars
    <3>1. ASSUME NEW t \in load.tasks, Exit(t) PROVE IInv'
      BY <3>1, <2>1, <2>2, <2>3, <2>5, ExitKeeps
    <3>2. ASSUME NEW t \in load.tasks, NewSpace(t) \/ LoadSegment(t) \/ CreateTask(t) PROVE MemInv'
      BY <3>2, <2>1, <2>2, <2>3, <2>5, NewSpaceKeeps, LoadSegmentKeeps, CreateTaskKeeps
    <3>3. ASSUME NEW t \in load.tasks, NEW hint \in Hints, NEW size \in MmapSizes, Mmap(t, hint, size)
          PROVE  MemInv'
      BY <3>3, <2>1, <2>2, <2>3, <2>5, MmapKeeps
    <3>4. ASSUME NEW pml4 \in Spaces, SwitchSpace(pml4) PROVE MemInv'
      BY <3>4, <2>1, <2>2, <2>5, SwitchSpaceKeeps
    <3>. QED
      BY <3>1, <3>2, <3>3, <3>4, <2>5 DEF VmmNext, IInv
  <2>. QED
    BY <2>4, <2>5, <1>2 DEF Next
<1>. QED
  BY <1>1, <1>2

(* IInv is an invariant of the memory. *)
THEOREM MemoryInvariance == Spec => []IInv
<1>1. Init => IInv
  BY InitMemory DEF IInv
<1>. QED
  BY <1>1, StepMemory, PTL DEF Spec

-----------------------------------------------------------------------------
(* What the invariant implies. *)
LEMMA InvTypeOK == IInv => TypeOK
<1> SUFFICES ASSUME IInv PROVE TypeOK
  OBVIOUS
<1>0. BlocksInv /\ PhasesOK /\ load.pages \in 0 .. MaxPage
  BY InvParts, WorkloadAssumption DEF Parts
<1>1. PICK lab : LabelOK(lab)
  BY InvParts DEF Parts, SpacesOK
<1>2. /\ TableTypes(pt) /\ kernel_space \in DOMAIN pt /\ UserSpaces \subseteq DOMAIN pt
  BY <1>1 DEF LabelOK, MapsOK, TreeOK, Labelled
<1>3. halted \in BOOLEAN /\ DOMAIN hdr \subseteq Pages /\ strayed \subseteq {kernel_space} \cup UserSpaces
  BY <1>0 DEF BlocksInv, HeapTypes, PhasesOK
<1>3a. pool \subseteq Pages \cup Span(0, StackPages)
  <2>1. CASE MemInv
    BY <2>1 DEF MemInv, HeapInv, PoolOK
  <2>2. CASE AfterNullStack
    <3>1. PICK P : Partition(P, HeapArea, DOMAIN pt, frames, load.pages) /\ pool = P \cup Span(0, StackPages)
      BY <2>2 DEF AfterNullStack
    <3>2. P \subseteq Pages
      BY <3>1, <1>0, MaxPageIsNat DEF Partition, Pages
    <3>. QED
      BY <3>1, <3>2
  <2>. QED
    BY <2>1, <2>2 DEF IInv
<1>4. root \in [SlabSizes -> Pages]
  BY <1>0, <1>3 DEF BlocksInv, HeapTypes, ChainOK, Slabs
<1>5. \A p \in Procs : op[p] = Idle \/ op[p].slab \in DOMAIN hdr
  BY <1>0 DEF BlocksInv, OpsOK, AtSlab, Slabs
<1>6. ASSUME NEW b \in live PROVE b.page \in Pages /\ b.off \in 0 .. PAGE_SIZE - 1
  <2>1. b.page \in Nat /\ b.off \in Nat /\ b.size \in Nat \ {0} /\ (b \in SlabBlocks \/ b \in LargeBlocks)
    BY <1>0, BlockFacts
  <2>2. CASE b \in SlabBlocks
    <3>1. b.page \in Slabs
      BY <2>2, <1>0 DEF BlocksInv, BlocksOK, AtSlab
    <3>2. b.off \in HeldAt(b.page)
      BY <2>2 DEF HeldAt
    <3>3. hdr[b.page].slab_size \in SlabSizes /\ b.off \in Blocks(hdr[b.page].slab_size)
      BY <3>1, <3>2, <1>0 DEF BlocksInv, SlabsOK
    <3>4. b.off + hdr[b.page].slab_size <= PAGE_SIZE /\ hdr[b.page].slab_size \in Nat \ {0}
      BY <3>3, BlockPlaces, LayoutAssumption, PageSizeIsPositive
    <3>5. b.page \in Pages
      BY <3>1, <1>3 DEF Slabs
    <3>. QED
      BY <3>4, <3>5, <2>1, LayoutAssumption, PageSizeIsPositive
  <2>3. CASE b \in LargeBlocks
    <3>1. b.off = 0 /\ b.page - 1 \in Nat /\ LargePages(b.size) \in Nat /\ LargePages(b.size) >= 2
      BY <2>1, <2>3, <1>0, BlockFacts, LargePagesEnough
    <3>2. b.page \in LargeSpan(b)
      BY <3>1, <2>1 DEF LargeSpan, Span
    <3>3. b.page \in Pages
      BY <3>2, <2>3, <1>0 DEF BlocksInv, LargeOK
    <3>. QED
      BY <3>1, <3>3, LayoutAssumption, PageSizeIsPositive
  <2>. QED
    BY <2>1, <2>2, <2>3
<1>7. cr3 \in Spaces /\ Spaces \subseteq {kernel_space} \cup UserSpaces
  BY <1>0 DEF PhasesOK, Spaces, UserSpaces
<1>. QED
  BY <1>2, <1>3, <1>3a, <1>4, <1>5, <1>6, <1>7 DEF TypeOK, TableTypes

LEMMA InvHigherHalfShared == IInv => HigherHalfShared
<1> SUFFICES ASSUME IInv, NEW s \in UserSpaces, NEW v \in VirtualPages, IsKernel(v)
             PROVE  Translate(pt, s, v) = Translate(pt, kernel_space, v)
  BY DEF HigherHalfShared
<1>1. PICK lab : LabelOK(lab)
  BY InvParts DEF Parts, SpacesOK
<1>2. TreeOK(pt, lab, kernel_space, UserSpaces)
  BY <1>1 DEF LabelOK, MapsOK
<1>3. pt[s][Offset(v, 4)] = pt[kernel_space][Offset(v, 4)]
  BY <1>2 DEF TreeOK, Shared, IsKernel
<1>4. s # 0 /\ kernel_space # 0
  BY <1>2, LabelFacts DEF TreeOK, Labelled
<1>. QED
  BY <1>3, <1>4 DEF Translate

LEMMA InvTablesOwned == IInv => TablesOwned
<1> SUFFICES ASSUME IInv PROVE TablesOwned
  OBVIOUS
<1> DEFINE k == kernel_space
           S == UserSpaces
<1>1. PICK lab : LabelOK(lab)
  BY InvParts DEF Parts, SpacesOK
<1>2. TreeOK(pt, lab, k, S) /\ k \notin S
  BY <1>1 DEF LabelOK, MapsOK, TreeOK, Shared
<1>3. KernelTables = Owned(pt, lab, k)
  <2>1. Tree(pt, k, OwnHalf(k, k)) = Owned(pt, lab, k)
    BY <1>2, TreeIs
  <2>. QED
    BY <2>1 DEF KernelTables, OwnHalf
<1>4. ASSUME NEW s \in S PROVE OwnTables(s) = Owned(pt, lab, s)
  <2>1. Tree(pt, s, OwnHalf(k, s)) = Owned(pt, lab, s) /\ s # k
    BY <1>2, TreeIs
  <2>. QED
    BY <2>1 DEF OwnTables, OwnHalf
<1>5. \A q \in DOMAIN pt : lab[q].sp \in {k} \cup S
  BY <1>2, LabelFacts
<1> HIDE DEF k, S
<1>6. DOMAIN pt = KernelTables \cup UNION {OwnTables(s) : s \in S}
  <2>1. ASSUME NEW q \in DOMAIN pt PROVE q \in KernelTables \cup UNION {OwnTables(s) : s \in S}
    <3>1. CASE lab[q].sp = k
      BY <3>1, <1>3 DEF Owned
    <3>2. CASE lab[q].sp \in S
      <4>1. q \in OwnTables(lab[q].sp)
        BY <3>2, <1>4 DEF Owned
      <4>. QED
        BY <4>1, <3>2
    <3>. QED
      BY <3>1, <3>2, <1>5
  <2>2. KernelTables \subseteq DOMAIN pt /\ \A s \in S : OwnTables(s) \subseteq DOMAIN pt
    BY <1>3, <1>4 DEF Owned
  <2>. QED
    BY <2>1, <2>2
<1>7. \A s \in S : OwnTables(s) \cap KernelTables = {}
  BY <1>2, <1>3, <1>4 DEF Owned
<1>8. \A s, u \in S : s # u => OwnTables(s) \cap OwnTables(u) = {}
  BY <1>4 DEF Owned
<1>. QED
  BY <1>6, <1>7, <1>8 DEF TablesOwned, S

LEMMA InvFramesExclusive == IInv => FramesExclusive
<1> SUFFICES ASSUME IInv PROVE FramesExclusive
  OBVIOUS
<1> DEFINE k == kernel_space
           all == Mappings
<1>1. PICK lab : LabelOK(lab)
  BY InvParts DEF Parts, SpacesOK
<1>2. TreeOK(pt, lab, k, UserSpaces) /\ FramesOK(pt, lab, k, frames, strayed) /\ k \notin UserSpaces
  BY <1>1 DEF LabelOK, MapsOK, TreeOK, Shared
<1>3. VirtualPages \subseteq Addresses
  BY SpaceAssumption DEF Addresses, Limit
<1>4. ASSUME NEW m \in all
      PROVE  /\ m = <<m[1], m[2]>> /\ At(pt, lab, m[1], m[2], Frame(m)) /\ Plain(k, m[1], m[2])
  <2>1. /\ m = <<m[1], m[2]>> /\ m[1] \in {k} \cup UserSpaces /\ m[2] \in VirtualPages
        /\ Mapped(m[1], m[2]) /\ Owner(k, m[1], m[2]) = m[1] /\ Plain(k, m[1], m[2])
    <3>1. CASE m \in {x \in UserSpaces \X VirtualPages : ~IsKernel(x[2]) /\ Mapped(x[1], x[2])}
      BY <3>1, <1>2 DEF Owner, Plain
    <3>2. CASE m \in {<<kernel_space, v>> : v \in {v \in VirtualPages \ Span(KernelBase, KernelPages) :
                                       IsKernel(v) /\ Mapped(kernel_space, v)}}
      <4>1. PICK v \in VirtualPages \ Span(KernelBase, KernelPages) :
              m = <<k, v>> /\ IsKernel(v) /\ Mapped(k, v)
        BY <3>2
      <4>2. m[1] = k /\ m[2] = v
        BY <4>1
      <4>. QED
        BY <4>1, <4>2 DEF Owner, Plain
    <3>. QED
      BY <3>1, <3>2 DEF Mappings
  <2>2. m[2] \in Addresses /\ Translate(pt, m[1], m[2]) # 0
    BY <2>1, <1>3 DEF Mapped
  <2>3. At(pt, lab, Owner(k, m[1], m[2]), m[2], Translate(pt, m[1], m[2]) - 1)
    BY <2>1, <2>2, <1>2, TranslateAt
  <2>. QED
    BY <2>1, <2>3 DEF Frame
<1> HIDE DEF all
<1>5. ASSUME NEW m \in all PROVE Frame(m) \in frames \/ Strays(strayed, m[1], Frame(m))
  BY <1>2, <1>4 DEF FramesOK
<1>6. ASSUME NEW m \in all, NEW x \in all, m # x, Frame(x) = Frame(m)
      PROVE  Strays(strayed, m[1], Frame(m)) \/ Strays(strayed, x[1], Frame(m))
  <2>1. m[1] # x[1] \/ m[2] # x[2]
    BY <1>4, <1>6
  <2>2. At(pt, lab, m[1], m[2], Frame(m)) /\ At(pt, lab, x[1], x[2], Frame(m))
    BY <1>4, <1>6
  <2>3. Plain(k, m[1], m[2]) /\ Plain(k, x[1], x[2])
    BY <1>4
  <2>. QED
    BY <2>1, <2>2, <2>3, <1>2 DEF FramesOK
<1>. QED
  BY <1>5, <1>6 DEF FramesExclusive, all, Strays

LEMMA InvPagesPartitioned == IInv => PagesPartitioned
<1> SUFFICES ASSUME IInv PROVE PagesPartitioned
  OBVIOUS
<1>0. BlocksInv /\ load.pages \in 0 .. MaxPage
  BY InvParts, WorkloadAssumption DEF Parts
<1>1. ASSUME NEW b \in LargeBlocks
      PROVE  LargeSpan(b) = {b.page - 1} \cup Span(b.page, hdr[b.page - 1].slab_size - 1)
  <2>1. b.page \in Nat /\ b.page - 1 \in Nat /\ LargePages(b.size) \in Nat /\ LargePages(b.size) >= 2
        /\ hdr[b.page - 1].slab_size = LargePages(b.size)
    BY <1>0, BlockFacts, LargePagesEnough DEF BlocksInv, LargeOK
  <2>. QED
    BY <2>1 DEF LargeSpan, Span
<1>2. DOMAIN hdr = Slabs \cup {b.page - 1 : b \in LargeBlocks}
  <2>1. \A b \in LargeBlocks : b.page - 1 \in DOMAIN hdr
    BY <1>0 DEF BlocksInv, LargeOK
  <2>. QED
    BY <2>1 DEF Slabs
<1>3. HeapPages = HeapArea
  <2>1. HeapPages \subseteq HeapArea
    BY <1>1, <1>2 DEF HeapPages, HeapArea
  <2>2. HeapArea \subseteq HeapPages
    BY <1>1, <1>2 DEF HeapPages, HeapArea
  <2>. QED
    BY <2>1, <2>2
<1>4. CASE MemInv
  <2>1. Partition(pool, HeapPages, DOMAIN pt, frames, load.pages) /\ 0 \notin pool
    BY <1>3, <1>4, MaxPageIsNat DEF MemInv, PagesOK, Partition
  <2>. QED
    BY <2>1 DEF Partition, PagesPartitioned, NullStack
<1>5. CASE AfterNullStack
  <2>1. PICK P : Partition(P, HeapPages, DOMAIN pt, frames, load.pages) /\ pool = P \cup Span(0, StackPages)
    BY <1>3, <1>5 DEF AfterNullStack
  <2>2. 0 \in pool /\ halted
    BY <2>1, <1>5, SpaceAssumption DEF AfterNullStack, Span
  <2>3. NullStack = Span(0, StackPages)
    BY <2>2 DEF NullStack
  <2>. QED
    BY <2>1, <2>2, <2>3 DEF Partition, PagesPartitioned
<1>. QED
  BY <1>4, <1>5 DEF IInv

-----------------------------------------------------------------------------
(* The pages that headers, roots, tables and cr3 name exist, and the CPU   *)
(* is always in the space of the kernel or of a task that lives.           *)
THEOREM TypeCorrect == Spec => []TypeOK
<1>. QED
  BY MemoryInvariance, InvTypeOK, PTL

(* The blocks of every slab are free or held, and none of them is lost     *)
(* (new_slab, Slab::alloc, Slab::free).                                    *)
THEOREM BlocksAccountedCorrect == Spec => []BlocksAccounted
<1>1. IInv => BlocksAccounted
  BY InvParts, InvBlocksAccounted DEF Parts
<1>. QED
  BY <1>1, MemoryInvariance, PTL

(* However callers interleave at the end of a chain of slabs, every slab   *)
(* is on the chain of its size once (Slab::alloc).                         *)
THEOREM NoSlabLostCorrect == Spec => []NoSlabLost
<1>1. IInv => NoSlabLost
  BY InvParts, InvNoSlabLost DEF Parts
<1>. QED
  BY <1>1, MemoryInvariance, PTL

(* kfree finds the header of every block in use from its address alone.    *)
THEOREM HeaderFoundCorrect == Spec => []HeaderFound
<1>1. IInv => HeaderFound
  BY InvParts, InvHeaderFound DEF Parts
<1>. QED
  BY <1>1, MemoryInvariance, PTL

(* The kernel's half of every address space is the same at all times       *)
(* (Vmm::init, new_space, map).                                            *)
THEOREM HigherHalfSharedCorrect == Spec => []HigherHalfShared
<1>. QED
  BY MemoryInvariance, InvHigherHalfShared, PTL

(* Every table has one owner, and destroy_pml frees the tables of a space: *)
(* all of them and no others.                                              *)
THEOREM TablesOwnedCorrect == Spec => []TablesOwned
<1>. QED
  BY MemoryInvariance, InvTablesOwned, PTL

(* Also when programs ask for more memory than there is: a page that is    *)
(* mapped was allocated and is mapped once, but for the pages that a       *)
(* failed allocation maps from physical page 0 on (map, sys_mmap,          *)
(* Elf::load, Task::create, ~Task).                                        *)
THEOREM FramesExclusiveCorrect == Spec => []FramesExclusive
<1>. QED
  BY MemoryInvariance, InvFramesExclusive, PTL

(* Every page is free, of the heap, a table or mapped memory, never two of *)
(* these and never none (Pmm's clients); only ~Task of a task whose stack  *)
(* is at page 0 frees pages that are in use, the first StackPages of them. *)
THEOREM PagesPartitionedCorrect == Spec => []PagesPartitioned
<1>. QED
  BY MemoryInvariance, InvPagesPartitioned, PTL

LEMMA InitImplements == Init => Abstract!Init
<1> SUFFICES ASSUME Init PROVE Abstract!Init
  OBVIOUS
<1>1. op = [p \in Procs |-> Idle] /\ live = {}
  BY DEF Init, HeapInit
<1>2. Wants = [p \in Procs |-> 0]
  BY <1>1 DEF Wants, Idle
<1>3. Places = {}
  BY <1>1 DEF Places
<1>. QED
  BY <1>2, <1>3 DEF Abstract!Init, Wants, Places

LEMMA StepImplements == IInv /\ [Next]_vars => [Abstract!Next]_(Abstract!avars)
<1> SUFFICES ASSUME IInv, [Next]_vars PROVE Abstract!Next \/ (Wants' = Wants /\ Places' = Places)
  BY DEF Abstract!avars, Wants, Places
<1>1. UNCHANGED heapVars => Wants' = Wants /\ Places' = Places
  BY DEF heapVars, Wants, Places, CellsOf
<1>2. CASE UNCHANGED heapVars
  BY <1>1, <1>2
<1>3. CASE Next /\ ~ UNCHANGED heapVars
  <2>1. MemInv
    BY <1>3 DEF Next, IInv, AfterNullStack
  <2>2. HeapNext(load.procs, load.live) /\ HeapInv /\ load.procs \in SUBSET Procs /\ ~halted
    BY <1>3, <2>1, WorkloadAssumption DEF Next, MemInv, PagesOK
  <2>3. PICK procs, max : procs \in SUBSET Procs /\ HeapNext(procs, max)
    BY <2>2
  <2>4. HeapInv'
    BY <2>2, <2>3, HeapStep
  <2>. QED
    BY <2>2, <2>3, <2>4, HeapStepImplements
<1>. QED
  BY <1>2, <1>3 DEF vars

(* kmalloc and kfree do what AllocatorSpec says: a caller gets as many     *)
(* cells as it asked for, and none that another caller holds.              *)
THEOREM HeapImplementsCorrect == Spec => HeapImplements
<1>1. Spec => Init /\ [][Next]_vars
  BY DEF Spec
<1>. QED
  BY <1>1, MemoryInvariance, InitImplements, StepImplements, PTL DEF HeapImplements, Abstract!Spec
=============================================================================
