----------------------------- MODULE FilesProofs -----------------------------
(***************************************************************************)
(* The invariants of Files hold for every set of tasks, every archive and  *)
(* every workload.  The list of handles of a task is described by the      *)
(* chain c[1] .. c[m] of descriptors that exists, whatever the prev        *)
(* pointers say; the tree of nodes by what every directory keeps.          *)
(***************************************************************************)
EXTENDS Files, WellFoundedInduction, FunctionTheorems, FiniteSetTheorems, SequenceTheorems, TLAPS

(* A set of numbers that is not empty has a least one. *)
LEMMA NatMin ==
  ASSUME NEW T, T \subseteq Nat, T # {}
  PROVE  \E x \in T : \A y \in T : x <= y
<1> DEFINE R == OpToRel(<, Nat)
<1>1. IsWellFoundedOn(R, Nat)
  BY NatLessThanWellFounded
<1>2. \A x, y \in Nat : <<x, y>> \in R <=> x < y
  BY DEF OpToRel
<1> HIDE DEF R
<1>3. PICK x \in T : \A y \in T : ~ (<<y, x>> \in R)
  BY <1>1, WFMin
<1>4. \A y \in T : ~ (y < x) /\ y \in Nat /\ x \in Nat
  BY <1>2, <1>3
<1>5. \A y \in T : x <= y
  BY <1>4
<1>. QED
  BY <1>5

(* A set with 0 and, up to n, the successor of each of its numbers. *)
LEMMA Upto ==
  ASSUME NEW n \in Nat, NEW G, 0 \in G, \A i \in 1 .. n : i - 1 \in G => i \in G
  PROVE  \A i \in 0 .. n : i \in G
<1> DEFINE T == {i \in 0 .. n : i \notin G}
<1> SUFFICES ASSUME T # {} PROVE FALSE
  OBVIOUS
<1>1. PICK x \in T : \A y \in T : x <= y
  <2>1. T \subseteq Nat
    OBVIOUS
  <2>. QED
    BY <2>1, NatMin
<1>2. x \in 0 .. n /\ x \notin G
  BY <1>1
<1>3. x \in 1 .. n /\ x - 1 \in 0 .. n /\ ~(x <= x - 1)
  BY <1>2
<1>4. x - 1 \in G
  BY <1>1, <1>3
<1>. QED
  BY <1>2, <1>3, <1>4

(* g[0 .. n] starts with a, and each step stays in S. *)
Iterates(g, S, a, n, step) ==
  g \in [0 .. n -> S] /\ g[0] = a /\ \A i \in 1 .. n : g[i] = step[i][g[i - 1]]

(* A recursive function exists. *)
LEMMA Recursion ==
  ASSUME NEW S, NEW a, a \in S, NEW n, n \in Nat, NEW step, step \in [1 .. n -> [S -> S]]
  PROVE  \E g : Iterates(g, S, a, n, step)
<1> DEFINE Good(k, g) == /\ g \in [0 .. k -> S] /\ g[0] = a
                         /\ \A i \in 1 .. k : g[i] = step[i][g[i - 1]]
           G == {k \in 0 .. n : \E g : Good(k, g)}
<1>1. 0 \in G
  <2> DEFINE g == [i \in 0 .. 0 |-> a]
  <2>1. Good(0, g)
    OBVIOUS
  <2>2. 0 \in 0 .. n
    OBVIOUS
  <2> HIDE DEF g, Good
  <2>. QED
    BY <2>1, <2>2
<1>2. ASSUME NEW k \in 1 .. n, k - 1 \in G
      PROVE  k \in G
  <2>1. PICK g : Good(k - 1, g)
    BY <1>2
  <2> DEFINE new == step[k][g[k - 1]]
             h == [i \in 0 .. k |-> IF i = k THEN new ELSE g[i]]
  <2>2. \A i \in 0 .. k - 1 : g[i] \in S
    BY <2>1
  <2>3. k - 1 \in 0 .. k - 1 /\ k \in 0 .. n /\ k \in 0 .. k
    OBVIOUS
  <2>4. new \in S
    BY <2>2, <2>3
  <2> HIDE DEF new
  <2>5. \A i \in 0 .. k - 1 : i \in 0 .. k /\ i # k
    OBVIOUS
  <2>6. h[k] = new /\ \A i \in 0 .. k - 1 : h[i] = g[i]
    BY <2>3, <2>5
  <2>7. \A i \in 0 .. k : h[i] \in S
    <3> TAKE i \in 0 .. k
    <3>1. i = k \/ i \in 0 .. k - 1
      OBVIOUS
    <3> HIDE DEF h
    <3>. QED
      BY <3>1, <2>2, <2>4, <2>6
  <2>8. h \in [0 .. k -> S]
    BY <2>7
  <2> HIDE DEF h
  <2>9. \A i \in 1 .. k : h[i] = step[i][h[i - 1]]
    <3> TAKE i \in 1 .. k
    <3>1. i - 1 \in 0 .. k - 1 /\ h[i - 1] = g[i - 1]
      BY <2>6
    <3>2. CASE i = k
      BY <3>1, <3>2, <2>6 DEF new
    <3>3. CASE i # k
      <4>1. i \in 1 .. k - 1 /\ i \in 0 .. k - 1
        BY <3>3
      <4>. QED
        BY <4>1, <3>1, <2>1, <2>6
    <3>. QED
      BY <3>2, <3>3
  <2>10. h[0] = a
    BY <2>1, <2>6
  <2>11. Good(k, h)
    BY <2>8, <2>9, <2>10
  <2> HIDE DEF Good
  <2>. QED
    BY <2>11, <2>3
<1>3. n \in G
  <2> HIDE DEF G
  <2>1. \A i \in 0 .. n : i \in G
    BY <1>1, <1>2, Upto
  <2>. QED
    BY <2>1
<1>. QED
  BY <1>3 DEF Iterates

-----------------------------------------------------------------------------
(* The list l leads from its head through the descriptors c[1] .. c[m],    *)
(* newest first, none above b.  A prev pointer that does not dangle leads  *)
(* one or two places back.  Nodes that a remove cut out may be left over.  *)
ListOK(l, m, c, b) ==
  /\ m \in Nat /\ b \in Nat /\ c \in [1 .. m -> DOMAIN l.nodes]
  /\ DOMAIN l.nodes \subseteq 1 .. b
  /\ \A v \in DOMAIN l.nodes : l.nodes[v] \in [prev : 0 .. b, next : 0 .. b]
  /\ \A i, j \in 1 .. m : i < j => c[i] > c[j]
  /\ l.head = IF m = 0 THEN Nil ELSE c[1]
  /\ \A i \in 1 .. m : l.nodes[c[i]].next = IF i = m THEN Nil ELSE c[i + 1]
  /\ \A i \in 1 .. m : l.nodes[c[i]].prev \in DOMAIN l.nodes =>
       \E k \in 1 .. m : k \in {i - 1, i - 2} /\ l.nodes[c[i]].prev = c[k]

Members(m, c) == {c[i] : i \in 1 .. m}

(* An empty list is a chain of no descriptors. *)
LEMMA EmptyListOK == ListOK(EmptyList, 0, <<>>, 0)
BY DEF ListOK, EmptyList, Nil

(* The bound on the descriptors may grow. *)
LEMMA ListWeaken ==
  ASSUME NEW l, NEW m, NEW c, NEW b, ListOK(l, m, c, b)
  PROVE  ListOK(l, m, c, b + 1)
<1>1. b \in Nat /\ 1 .. b \subseteq 1 .. (b + 1) /\ 0 .. b \subseteq 0 .. (b + 1)
  BY DEF ListOK
<1>2. \A v \in DOMAIN l.nodes : l.nodes[v] \in [prev : 0 .. b + 1, next : 0 .. b + 1]
  BY <1>1 DEF ListOK
<1>. QED
  BY <1>1, <1>2 DEF ListOK

(* The second node of the list, which push writes to. *)
LEMMA SecondIs ==
  ASSUME NEW l, NEW m, NEW c, NEW b, ListOK(l, m, c, b)
  PROVE  /\ NextOf(l, l.head) = IF m < 2 THEN Nil ELSE c[2]
         /\ PushIsSafe(l)
<1>1. m \in Nat /\ 0 \notin DOMAIN l.nodes
  BY DEF ListOK
<1>2. CASE m = 0
  BY <1>1, <1>2 DEF ListOK, NextOf, IsNode, PushIsSafe, Nil
<1>3. CASE m # 0
  <2>1. 1 \in 1 .. m /\ c[1] \in DOMAIN l.nodes /\ l.head = c[1]
    BY <1>1, <1>3 DEF ListOK
  <2>2. NextOf(l, l.head) = IF m = 1 THEN Nil ELSE c[2]
    BY <2>1 DEF ListOK, NextOf, IsNode
  <2>3. m >= 2 => 2 \in 1 .. m /\ c[2] \in DOMAIN l.nodes
    BY <1>1 DEF ListOK
  <2>. QED
    BY <2>2, <2>3, <1>1, <1>3 DEF PushIsSafe, IsNode
<1>. QED
  BY <1>2, <1>3

(* push of a new descriptor puts it in front. *)
LEMMA PushList ==
  ASSUME NEW l, NEW m, NEW c, NEW b, ListOK(l, m, c, b)
  PROVE  \E cc : /\ ListOK(Push(l, b + 1), m + 1, cc, b + 1)
                 /\ Members(m, c) \cup {b + 1} = Members(m + 1, cc)
<1> DEFINE v == b + 1
           cc == [i \in 1 .. m + 1 |-> IF i = 1 THEN v ELSE c[i - 1]]
           p == Push(l, v)
           D == DOMAIN l.nodes
<1>1. /\ m \in Nat /\ b \in Nat /\ D \subseteq 1 .. b /\ v \notin D /\ v \in 1 .. v /\ v # 0 /\ 0 \notin D
      /\ 1 .. b \subseteq 1 .. v /\ 0 .. b \subseteq 0 .. v
  BY DEF ListOK
<1>2. \A i \in 1 .. m : c[i] \in D
  BY DEF ListOK
<1>3. /\ p.head = v /\ DOMAIN p.nodes = D \cup {v}
      /\ p.nodes[v] = [prev |-> Nil, next |-> l.head]
      /\ \A w \in D : p.nodes[w] = IF w = NextOf(l, l.head) THEN [l.nodes[w] EXCEPT !.prev = v] ELSE l.nodes[w]
  <2>1. p.head = v /\ DOMAIN p.nodes = D \cup {v}
    BY DEF Push
  <2>2. p.nodes[v] = [prev |-> Nil, next |-> l.head]
    BY DEF Push
  <2>3. ASSUME NEW w \in D
        PROVE  p.nodes[w] = IF w = NextOf(l, l.head) THEN [l.nodes[w] EXCEPT !.prev = v] ELSE l.nodes[w]
    <3>1. w # v
      BY <1>1
    <3>. QED
      BY <3>1 DEF Push
  <2>. QED
    BY <2>1, <2>2, <2>3
<1> HIDE DEF p
<1>4. \A w \in D : /\ l.nodes[w] \in [prev : 0 .. b, next : 0 .. b]
                   /\ p.nodes[w].next = l.nodes[w].next
                   /\ p.nodes[w].prev = IF w = NextOf(l, l.head) THEN v ELSE l.nodes[w].prev
                   /\ p.nodes[w] \in [prev : 0 .. v, next : 0 .. v]
  <2> TAKE w \in D
  <2>1. l.nodes[w] \in [prev : 0 .. b, next : 0 .. b]
    BY DEF ListOK
  <2>2. p.nodes[w] = IF w = NextOf(l, l.head) THEN [l.nodes[w] EXCEPT !.prev = v] ELSE l.nodes[w]
    BY <1>3
  <2>3. v \in 0 .. v
    BY <1>1
  <2>4. [l.nodes[w] EXCEPT !.prev = v] = [prev |-> v, next |-> l.nodes[w].next]
    BY <2>1
  <2>. QED
    BY <2>1, <2>2, <2>3, <2>4, <1>1
<1>5. l.head \in 0 .. b /\ l.head = IF m = 0 THEN Nil ELSE c[1]
  <2>1. l.head = IF m = 0 THEN Nil ELSE c[1]
    BY DEF ListOK
  <2>2. m # 0 => 1 \in 1 .. m
    BY <1>1
  <2>. QED
    BY <2>1, <2>2, <1>1, <1>2 DEF Nil
<1>6. \A i \in 2 .. m + 1 : i - 1 \in 1 .. m /\ cc[i] = c[i - 1] /\ cc[i] \in D
  <2> TAKE i \in 2 .. m + 1
  <2>1. i - 1 \in 1 .. m /\ i \in 1 .. m + 1 /\ i # 1
    BY <1>1
  <2>. QED
    BY <2>1, <1>2
<1>7. 1 \in 1 .. m + 1 /\ cc[1] = v
  BY <1>1
<1>8. \A i \in 1 .. m + 1 : i = 1 \/ i \in 2 .. m + 1
  BY <1>1
<1> HIDE DEF cc
<1>9. cc \in [1 .. m + 1 -> DOMAIN p.nodes]
  <2>1. \A i \in 1 .. m + 1 : cc[i] \in D \cup {v}
    BY <1>6, <1>7, <1>8
  <2>. QED
    BY <2>1, <1>3 DEF cc
<1>10. \A w \in DOMAIN p.nodes : p.nodes[w] \in [prev : 0 .. v, next : 0 .. v]
  <2>1. p.nodes[v] \in [prev : 0 .. v, next : 0 .. v]
    BY <1>3, <1>5, <1>1 DEF Nil
  <2>. QED
    BY <2>1, <1>3, <1>4
<1>11. ASSUME NEW i \in 1 .. m + 1, NEW j \in 1 .. m + 1, i < j
       PROVE  cc[i] > cc[j]
  <2>1. j \in 2 .. m + 1
    BY <1>11, <1>1
  <2>2. cc[j] = c[j - 1] /\ j - 1 \in 1 .. m /\ c[j - 1] \in 1 .. b
    BY <2>1, <1>6, <1>1
  <2>3. CASE i = 1
    BY <2>2, <2>3, <1>7, <1>1
  <2>4. CASE i # 1
    <3>1. i \in 2 .. m + 1 /\ i - 1 < j - 1
      BY <2>4, <1>11, <1>1
    <3>2. cc[i] = c[i - 1] /\ i - 1 \in 1 .. m
      BY <3>1, <1>6
    <3>. QED
      BY <3>1, <3>2, <2>2 DEF ListOK
  <2>. QED
    BY <2>3, <2>4
<1>12. ASSUME NEW i \in 1 .. m + 1
       PROVE  p.nodes[cc[i]].next = IF i = m + 1 THEN Nil ELSE cc[i + 1]
  <2>1. CASE i = 1
    <3>1. p.nodes[cc[i]].next = l.head
      BY <2>1, <1>3, <1>7
    <3>2. m # 0 => 2 \in 2 .. m + 1 /\ cc[2] = c[1]
      BY <1>1, <1>6
    <3>3. (m = 0) <=> (i = m + 1)
      BY <2>1, <1>1
    <3>. QED
      BY <3>1, <3>2, <3>3, <1>5, <2>1
  <2>2. CASE i # 1
    <3>1. i \in 2 .. m + 1 /\ (i = m + 1 <=> i - 1 = m) /\ (i - 1) + 1 = i
      BY <2>2, <1>1
    <3>2. p.nodes[cc[i]].next = l.nodes[c[i - 1]].next /\ i - 1 \in 1 .. m
      BY <3>1, <1>6, <1>4
    <3>3. l.nodes[c[i - 1]].next = IF i = m + 1 THEN Nil ELSE c[i]
      BY <3>1, <3>2 DEF ListOK
    <3>4. i # m + 1 => i + 1 \in 2 .. m + 1 /\ (i + 1) - 1 = i /\ cc[i + 1] = c[i]
      <4>1. i # m + 1 => i + 1 \in 2 .. m + 1 /\ (i + 1) - 1 = i
        BY <1>1
      <4>. QED
        BY <4>1, <1>6
    <3>. QED
      BY <3>2, <3>3, <3>4
  <2>. QED
    BY <2>1, <2>2
<1>13. ASSUME NEW i \in 1 .. m + 1, p.nodes[cc[i]].prev \in DOMAIN p.nodes
       PROVE  \E k \in 1 .. m + 1 : k \in {i - 1, i - 2} /\ p.nodes[cc[i]].prev = cc[k]
  <2>1. CASE i = 1
    <3>1. p.nodes[cc[i]].prev = 0
      BY <2>1, <1>3, <1>7 DEF Nil
    <3>. QED
      BY <3>1, <1>13, <1>3, <1>1
  <2>2. CASE i # 1
    <3> DEFINE j == i - 1
    <3>1. i \in 2 .. m + 1 /\ j \in 1 .. m /\ j \in Int
      BY <2>2, <1>1
    <3>2. cc[i] = c[j] /\ c[j] \in D
      BY <3>1, <1>6
    <3>3. NextOf(l, l.head) = IF m < 2 THEN Nil ELSE c[2]
      BY SecondIs
    <3>4. CASE c[j] = NextOf(l, l.head)
      <4>1. m >= 2 /\ c[j] = c[2]
        BY <3>4, <3>3, <3>2, <1>1 DEF Nil
      <4>2. j = 2
        <5>1. 2 \in 1 .. m /\ c[j] \in 1 .. b
          BY <4>1, <1>1, <3>2
        <5>2. (j < 2 => c[j] > c[2]) /\ (2 < j => c[2] > c[j])
          BY <5>1, <3>1 DEF ListOK
        <5>. QED
          BY <5>1, <5>2, <4>1, <3>1
      <4>3. p.nodes[cc[i]].prev = v
        BY <3>2, <3>4, <1>4
      <4>. QED
        BY <4>2, <4>3, <1>7
    <3>5. CASE c[j] # NextOf(l, l.head)
      <4>1. p.nodes[cc[i]].prev = l.nodes[c[j]].prev /\ l.nodes[c[j]].prev \in 0 .. b
        BY <3>2, <3>5, <1>4
      <4>2. l.nodes[c[j]].prev \in D
        BY <4>1, <1>13, <1>3, <1>1
      <4>3. PICK k \in 1 .. m : k \in {j - 1, j - 2} /\ l.nodes[c[j]].prev = c[k]
        BY <4>2, <3>1 DEF ListOK
      <4>4. k + 1 \in 2 .. m + 1 /\ k + 1 \in {i - 1, i - 2} /\ (k + 1) - 1 = k /\ k + 1 \in 1 .. m + 1
        BY <4>3, <3>1, <1>1
      <4>5. cc[k + 1] = c[k]
        BY <4>4, <1>6
      <4>. QED
        BY <4>1, <4>3, <4>4, <4>5
    <3>. QED
      BY <3>4, <3>5
  <2>. QED
    BY <2>1, <2>2
<1>14. ListOK(p, m + 1, cc, v)
  <2>1. m + 1 \in Nat /\ v \in Nat /\ DOMAIN p.nodes \subseteq 1 .. v /\ m + 1 # 0
    BY <1>1, <1>3
  <2>2. p.head = IF m + 1 = 0 THEN Nil ELSE cc[1]
    BY <1>3, <1>7, <2>1
  <2> HIDE DEF v
  <2>. QED
    BY <2>1, <2>2, <1>9, <1>10, <1>11, <1>12, <1>13 DEF ListOK
<1>15. Members(m, c) \cup {v} = Members(m + 1, cc)
  <2>1. ASSUME NEW i \in 1 .. m PROVE \E j \in 1 .. m + 1 : cc[j] = c[i]
    <3>1. i + 1 \in 2 .. m + 1 /\ (i + 1) - 1 = i /\ i + 1 \in 1 .. m + 1
      BY <1>1
    <3>. QED
      BY <3>1, <1>6
  <2>2. \A i \in 1 .. m + 1 : cc[i] = v \/ \E j \in 1 .. m : cc[i] = c[j]
    BY <1>6, <1>7, <1>8
  <2> HIDE DEF v
  <2>. QED
    BY <2>1, <2>2, <1>7 DEF Members
<1>. QED
  BY <1>14, <1>15 DEF p

(* A descriptor has one place in the chain. *)
LEMMA ChainOnce ==
  ASSUME NEW l, NEW m, NEW c, NEW b, ListOK(l, m, c, b)
  PROVE  /\ \A i \in 1 .. m : c[i] \in DOMAIN l.nodes /\ c[i] \in 1 .. b
         /\ \A i, j \in 1 .. m : c[i] = c[j] => i = j
<1>1. m \in Nat /\ b \in Nat /\ \A i \in 1 .. m : c[i] \in DOMAIN l.nodes /\ c[i] \in 1 .. b
  BY DEF ListOK
<1>2. ASSUME NEW i \in 1 .. m, NEW j \in 1 .. m, c[i] = c[j]
      PROVE  i = j
  <2>1. (i < j => c[i] > c[j]) /\ (j < i => c[j] > c[i])
    BY DEF ListOK
  <2>. QED
    BY <2>1, <1>1, <1>2
<1>. QED
  BY <1>1, <1>2

(* remove of the newest descriptor: the rest of the chain. *)
LEMMA RemoveHead ==
  ASSUME NEW l, NEW m, NEW c, NEW b, ListOK(l, m, c, b), m # 0
  PROVE  /\ RemoveIsSafe(l, c[1]) /\ l.head = c[1]
         /\ \E cc : /\ ListOK(Remove(l, c[1]), m - 1, cc, b)
                    /\ Members(m, c) \ {c[1]} = Members(m - 1, cc)
<1> DEFINE v == c[1]
           cc == [i \in 1 .. m - 1 |-> c[i + 1]]
           r == Remove(l, v)
           D == DOMAIN l.nodes
<1>1. /\ m \in Nat /\ b \in Nat /\ D \subseteq 1 .. b /\ 0 \notin D
      /\ 1 \in 1 .. m /\ v \in D /\ l.head = v
  BY DEF ListOK
<1>2. /\ \A i \in 1 .. m : c[i] \in D
      /\ \A i, j \in 1 .. m : c[i] = c[j] => i = j
  BY ChainOnce
<1>3. \A i \in 1 .. m - 1 : i + 1 \in 1 .. m /\ i + 1 # 1 /\ cc[i] = c[i + 1] /\ cc[i] \in D \ {v}
  <2> TAKE i \in 1 .. m - 1
  <2>1. i + 1 \in 1 .. m /\ i + 1 # 1 /\ cc[i] = c[i + 1]
    BY <1>1
  <2>. QED
    BY <2>1, <1>1, <1>2
<1>4. l.nodes[v].next = IF m = 1 THEN Nil ELSE c[2]
  BY <1>1 DEF ListOK
<1>5. m # 1 => 2 \in 1 .. m /\ c[2] \in D /\ 1 \in 1 .. m - 1 /\ cc[1] = c[2]
  <2>1. m # 1 => 2 \in 1 .. m /\ 1 \in 1 .. m - 1 /\ 1 + 1 = 2
    BY <1>1
  <2>. QED
    BY <2>1, <1>2, <1>3
<1>6. RemoveIsSafe(l, v)
  BY <1>1, <1>4, <1>5 DEF RemoveIsSafe, IsNode
<1>7. /\ r.head = l.nodes[v].next /\ DOMAIN r.nodes = D \ {v}
      /\ \A w \in D \ {v} : r.nodes[w] = [prev |-> IF w = l.nodes[v].next THEN Nil ELSE l.nodes[w].prev,
                                          next |-> l.nodes[w].next]
  <2>1. r.head = l.nodes[v].next /\ DOMAIN r.nodes = D \ {v}
    BY <1>1 DEF Remove
  <2>2. ASSUME NEW w \in D \ {v}
        PROVE  r.nodes[w] = [prev |-> IF w = l.nodes[v].next THEN Nil ELSE l.nodes[w].prev,
                                          next |-> l.nodes[w].next]
    <3>1. w # Nil
      BY <1>1 DEF Nil
    <3>2. r.nodes[w] = [prev |-> IF w = l.nodes[v].next THEN Nil ELSE l.nodes[w].prev,
                     next |-> IF w = Nil THEN l.nodes[v].next ELSE l.nodes[w].next]
      BY <1>1 DEF Remove
    <3>. QED
      BY <3>1, <3>2
  <2>. QED
    BY <2>1, <2>2
<1> HIDE DEF r
<1>8. \A w \in D \ {v} : /\ r.nodes[w] \in [prev : 0 .. b, next : 0 .. b]
                         /\ r.nodes[w].next = l.nodes[w].next
                         /\ r.nodes[w].prev = IF w = l.nodes[v].next THEN Nil ELSE l.nodes[w].prev
  <2> TAKE w \in D \ {v}
  <2>1. l.nodes[w] \in [prev : 0 .. b, next : 0 .. b]
    BY DEF ListOK
  <2>2. 0 \in 0 .. b
    BY <1>1
  <2> DEFINE pr == IF w = l.nodes[v].next THEN Nil ELSE l.nodes[w].prev
             nx == l.nodes[w].next
  <2>3. pr \in 0 .. b /\ nx \in 0 .. b
    BY <2>1, <2>2 DEF Nil
  <2>4. r.nodes[w] = [prev |-> pr, next |-> nx]
    BY <1>7
  <2> HIDE DEF pr, nx
  <2>5. r.nodes[w] \in [prev : 0 .. b, next : 0 .. b] /\ r.nodes[w].next = nx /\ r.nodes[w].prev = pr
    BY <2>3, <2>4
  <2>. QED
    BY <2>5 DEF pr, nx
<1>9. cc \in [1 .. m - 1 -> DOMAIN r.nodes]
  BY <1>3, <1>7
<1> HIDE DEF cc
<1>10. ASSUME NEW i \in 1 .. m - 1, NEW j \in 1 .. m - 1, i < j
       PROVE  cc[i] > cc[j]
  <2>1. cc[i] = c[i + 1] /\ cc[j] = c[j + 1] /\ i + 1 \in 1 .. m /\ j + 1 \in 1 .. m /\ i + 1 < j + 1
    BY <1>3, <1>10
  <2>. QED
    BY <2>1 DEF ListOK
<1>11. ASSUME NEW i \in 1 .. m - 1
       PROVE  r.nodes[cc[i]].next = IF i = m - 1 THEN Nil ELSE cc[i + 1]
  <2>1. i + 1 \in 1 .. m /\ cc[i] = c[i + 1] /\ cc[i] \in D \ {v}
    BY <1>3
  <2>2. r.nodes[cc[i]].next = IF i + 1 = m THEN Nil ELSE c[i + 1 + 1]
    BY <2>1, <1>8 DEF ListOK
  <2>3. (i + 1 = m <=> i = m - 1) /\ (i # m - 1 => i + 1 \in 1 .. m - 1)
    BY <1>1
  <2>4. i # m - 1 => cc[i + 1] = c[i + 1 + 1]
    BY <2>3, <1>3
  <2>. QED
    BY <2>2, <2>3, <2>4
<1>12. ASSUME NEW i \in 1 .. m - 1, r.nodes[cc[i]].prev \in DOMAIN r.nodes
       PROVE  \E k \in 1 .. m - 1 : k \in {i - 1, i - 2} /\ r.nodes[cc[i]].prev = cc[k]
  <2>1. i + 1 \in 1 .. m /\ cc[i] = c[i + 1] /\ cc[i] \in D \ {v}
    BY <1>3
  <2>2. cc[i] # l.nodes[v].next /\ r.nodes[cc[i]].prev = l.nodes[cc[i]].prev
    BY <2>1, <1>8, <1>12, <1>7, <1>1 DEF Nil
  <2>3. PICK k \in 1 .. m : k \in {i + 1 - 1, i + 1 - 2} /\ l.nodes[c[i + 1]].prev = c[k]
    <3>1. l.nodes[c[i + 1]].prev \in D
      BY <2>1, <2>2, <1>12, <1>7
    <3>2. \A j \in 1 .. m : l.nodes[c[j]].prev \in D =>
            \E k \in 1 .. m : k \in {j - 1, j - 2} /\ l.nodes[c[j]].prev = c[k]
      BY DEF ListOK
    <3>. QED
      BY <3>1, <3>2, <2>1
  <2>4. c[k] # v
    BY <2>1, <2>2, <2>3, <1>12, <1>7
  <2>5. k # 1
    BY <2>4
  <2>6. k - 1 \in 1 .. m - 1 /\ k - 1 \in {i - 1, i - 2} /\ (k - 1) + 1 = k
    BY <2>3, <2>5, <1>1
  <2>7. cc[k - 1] = c[k]
    BY <2>6, <1>3
  <2>. QED
    BY <2>1, <2>2, <2>3, <2>6, <2>7
<1>13. ListOK(r, m - 1, cc, b)
  <2>1. m - 1 \in Nat /\ DOMAIN r.nodes \subseteq 1 .. b
    BY <1>1, <1>7
  <2>2. r.head = IF m - 1 = 0 THEN Nil ELSE cc[1]
    BY <1>7, <1>4, <1>5, <1>1
  <2>3. \A w \in DOMAIN r.nodes : r.nodes[w] \in [prev : 0 .. b, next : 0 .. b]
    BY <1>7, <1>8
  <2> HIDE DEF v
  <2>. QED
    BY <2>1, <2>2, <2>3, <1>1, <1>9, <1>10, <1>11, <1>12 DEF ListOK
<1>14. Members(m, c) \ {v} = Members(m - 1, cc)
  <2>1. \A i \in 1 .. m - 1 : cc[i] # v /\ \E j \in 1 .. m : cc[i] = c[j]
    BY <1>3
  <2>2. ASSUME NEW j \in 1 .. m, c[j] # v
        PROVE  \E i \in 1 .. m - 1 : cc[i] = c[j]
    <3>1. j # 1
      BY <2>2
    <3>2. j - 1 \in 1 .. m - 1 /\ (j - 1) + 1 = j
      BY <3>1, <1>1
    <3>. QED
      BY <3>2, <1>3
  <2> HIDE DEF v
  <2>. QED
    BY <2>1, <2>2 DEF Members
<1>. QED
  BY <1>1, <1>6, <1>13, <1>14 DEF r

(* remove of an older descriptor: it goes, and with it the one before it   *)
(* when its prev pointer skips that one.                                   *)
LEMMA RemoveInside ==
  ASSUME NEW l, NEW m, NEW c, NEW b, ListOK(l, m, c, b),
         NEW j \in 2 .. m, RemoveIsSafe(l, c[j])
  PROVE  \E mm, cc : ListOK(Remove(l, c[j]), mm, cc, b)
<1> DEFINE v == c[j]
           r == Remove(l, v)
           D == DOMAIN l.nodes
           nx == l.nodes[v].next
           from == l.nodes[v].prev
<1>1. m \in Nat /\ b \in Nat /\ D \subseteq 1 .. b /\ 0 \notin D /\ 1 \in 1 .. m /\ j \in 1 .. m /\ l.head = c[1]
  BY DEF ListOK
<1>2. /\ \A i \in 1 .. m : c[i] \in D
      /\ \A i, n \in 1 .. m : c[i] = c[n] => i = n
  BY ChainOnce
<1>3. v # l.head
  BY <1>1, <1>2
<1>4. PICK k \in 1 .. m : k \in {j - 1, j - 2} /\ from = c[k]
  <2>1. from \in D
    BY <1>3 DEF RemoveIsSafe, IsNode
  <2>2. \A i \in 1 .. m : l.nodes[c[i]].prev \in D =>
          \E k \in 1 .. m : k \in {i - 1, i - 2} /\ l.nodes[c[i]].prev = c[k]
    BY DEF ListOK
  <2>. QED
    BY <2>1, <2>2, <1>1
<1>5. PICK s \in {1, 2} : s = j - k
  BY <1>4
<1> DEFINE mm == m - s
           cc == [i \in 1 .. mm |-> IF i <= k THEN c[i] ELSE c[i + s]]
<1>6. mm \in Nat /\ k <= mm /\ k < j /\ k + s = j
  <2>1. s \in Int /\ k \in Int /\ j \in Int /\ j <= m /\ k >= 1 /\ s >= 1
    BY <1>5, <1>4, <1>1
  <2>. QED
    BY <2>1, <1>5, <1>1
<1>7. \A i \in 1 .. mm : /\ i <= k => i \in 1 .. m /\ i < j
                         /\ ~(i <= k) => i + s \in 1 .. m /\ j < i + s
  BY <1>6, <1>5, <1>1
<1>8. \A i \in 1 .. mm : /\ i <= k => cc[i] = c[i] /\ cc[i] \in D \ {v}
                         /\ ~(i <= k) => cc[i] = c[i + s] /\ cc[i] \in D \ {v}
  <2> TAKE i \in 1 .. mm
  <2>1. CASE i <= k
    <3>1. cc[i] = c[i] /\ i \in 1 .. m /\ i # j
      BY <2>1, <1>7
    <3>. QED
      BY <3>1, <2>1, <1>2, <1>1
  <2>2. CASE ~(i <= k)
    <3>1. cc[i] = c[i + s] /\ i + s \in 1 .. m /\ i + s # j
      BY <2>2, <1>7
    <3>. QED
      BY <3>1, <2>2, <1>2, <1>1
  <2>. QED
    BY <2>1, <2>2
<1>9. nx = IF j = m THEN Nil ELSE c[j + 1]
  BY <1>1 DEF ListOK
<1>10. /\ r.head = l.head /\ DOMAIN r.nodes = D \ {v}
       /\ \A w \in D \ {v} : r.nodes[w] = [prev |-> IF w = nx THEN from ELSE l.nodes[w].prev,
                                           next |-> IF w = from THEN nx ELSE l.nodes[w].next]
  BY <1>3 DEF Remove
<1> HIDE DEF r, cc, mm
<1>11. from \in 0 .. b /\ nx \in 0 .. b
  <2>1. l.nodes[v] \in [prev : 0 .. b, next : 0 .. b]
    BY <1>1, <1>2 DEF ListOK
  <2>. QED
    BY <2>1
<1>12. \A w \in D \ {v} : /\ r.nodes[w] \in [prev : 0 .. b, next : 0 .. b]
                          /\ r.nodes[w].next = IF w = from THEN nx ELSE l.nodes[w].next
                          /\ r.nodes[w].prev = IF w = nx THEN from ELSE l.nodes[w].prev
  <2> TAKE w \in D \ {v}
  <2>1. l.nodes[w] \in [prev : 0 .. b, next : 0 .. b]
    BY DEF ListOK
  <2> DEFINE p == IF w = nx THEN from ELSE l.nodes[w].prev
             q == IF w = from THEN nx ELSE l.nodes[w].next
  <2>2. p \in 0 .. b /\ q \in 0 .. b
    BY <2>1, <1>11
  <2>3. r.nodes[w] = [prev |-> p, next |-> q]
    BY <1>10
  <2> HIDE DEF p, q
  <2>4. r.nodes[w] \in [prev : 0 .. b, next : 0 .. b] /\ r.nodes[w].next = q /\ r.nodes[w].prev = p
    BY <2>2, <2>3
  <2>. QED
    BY <2>4 DEF p, q
<1> HIDE DEF nx, from
<1>13. cc \in [1 .. mm -> DOMAIN r.nodes]
  <2>1. \A i \in 1 .. mm : cc[i] \in D \ {v}
    BY <1>8
  <2>. QED
    BY <2>1, <1>10 DEF cc
<1>14. ASSUME NEW i \in 1 .. mm, NEW n \in 1 .. mm, i < n
       PROVE  cc[i] > cc[n]
  <2> DEFINE ii == IF i <= k THEN i ELSE i + s
             nn == IF n <= k THEN n ELSE n + s
  <2>1. ii \in 1 .. m /\ nn \in 1 .. m /\ cc[i] = c[ii] /\ cc[n] = c[nn]
    BY <1>7, <1>8
  <2>2. ii < nn
    BY <1>14, <1>5, <1>6
  <2> HIDE DEF ii, nn
  <2>. QED
    BY <2>1, <2>2 DEF ListOK
<1>15. ASSUME NEW i \in 1 .. mm
       PROVE  r.nodes[cc[i]].next = IF i = mm THEN Nil ELSE cc[i + 1]
  <2>0. \A n \in 1 .. m : l.nodes[c[n]].next = IF n = m THEN Nil ELSE c[n + 1]
    BY DEF ListOK
  <2>1. i # mm => i + 1 \in 1 .. mm
    BY <1>6
  <2>2. CASE i < k
    <3>1. cc[i] = c[i] /\ i \in 1 .. m /\ cc[i] \in D \ {v} /\ i # k /\ i # mm /\ i # m
      BY <2>2, <1>6, <1>7, <1>8
    <3>2. cc[i] # from
      BY <3>1, <1>2, <1>4
    <3>3. r.nodes[cc[i]].next = c[i + 1]
      BY <3>1, <3>2, <1>12, <2>0
    <3>4. i + 1 <= k
      BY <2>2
    <3>. QED
      BY <3>1, <3>3, <3>4, <2>1, <1>8
  <2>3. CASE i = k
    <3>1. cc[i] = from /\ cc[i] \in D \ {v}
      BY <2>3, <1>6, <1>8, <1>4
    <3>2. r.nodes[cc[i]].next = nx
      BY <3>1, <1>12
    <3>3. (j = m) <=> (i = mm)
      BY <2>3, <1>6, <1>1 DEF mm
    <3>4. ~(i + 1 <= k) /\ i + 1 + s = j + 1
      BY <2>3, <1>6
    <3>5. i # mm => cc[i + 1] = c[j + 1]
      BY <3>4, <2>1, <1>8
    <3>. QED
      BY <3>2, <3>3, <3>5, <1>9
  <2>4. CASE i > k
    <3>1. cc[i] = c[i + s] /\ i + s \in 1 .. m /\ cc[i] \in D \ {v} /\ i + s # k
      BY <2>4, <1>6, <1>7, <1>8
    <3>2. cc[i] # from
      BY <3>1, <1>2, <1>4
    <3>3. r.nodes[cc[i]].next = IF i + s = m THEN Nil ELSE c[i + s + 1]
      BY <3>1, <3>2, <1>12, <2>0
    <3>4. (i + s = m <=> i = mm) /\ i + s + 1 = i + 1 + s /\ ~(i + 1 <= k)
      BY <2>4, <1>6, <1>1 DEF mm
    <3>5. i # mm => cc[i + 1] = c[i + s + 1]
      BY <3>4, <2>1, <1>8
    <3>. QED
      BY <3>3, <3>4, <3>5
  <2>5. i < k \/ i = k \/ i > k
    BY <1>4
  <2>. QED
    BY <2>2, <2>3, <2>4, <2>5
<1>16. ASSUME NEW i \in 1 .. mm, r.nodes[cc[i]].prev \in DOMAIN r.nodes
       PROVE  \E q \in 1 .. mm : q \in {i - 1, i - 2} /\ r.nodes[cc[i]].prev = cc[q]
  <2> DEFINE Back(n) == l.nodes[c[n]].prev \in D =>
               \E q \in 1 .. m : q \in {n - 1, n - 2} /\ l.nodes[c[n]].prev = c[q]
  <2>0. \A n \in 1 .. m : Back(n)
    BY DEF ListOK
  <2> HIDE DEF Back
  <2>1. j = m => nx \notin D
    BY <1>9, <1>1 DEF Nil
  <2>2. CASE i <= k
    <3>1. cc[i] = c[i] /\ i \in 1 .. m /\ cc[i] \in D \ {v} /\ i < j
      BY <2>2, <1>7, <1>8
    <3>2. cc[i] # nx
      <4>1. j # m => j + 1 \in 1 .. m /\ i # j + 1
        BY <3>1, <1>1
      <4>. QED
        BY <4>1, <3>1, <2>1, <1>2, <1>9
    <3>3. r.nodes[cc[i]].prev = l.nodes[c[i]].prev /\ l.nodes[c[i]].prev \in D
      BY <3>1, <3>2, <1>12, <1>16, <1>10
    <3>4. PICK q \in 1 .. m : q \in {i - 1, i - 2} /\ l.nodes[c[i]].prev = c[q]
      BY <3>1, <3>3, <2>0 DEF Back
    <3>5. q \in 1 .. mm /\ q <= k
      BY <3>4, <2>2, <1>6
    <3>6. cc[q] = c[q]
      BY <3>5, <1>8
    <3>. QED
      BY <3>3, <3>4, <3>5, <3>6
  <2>3. CASE i = k + 1
    <3>1. cc[i] = c[j + 1] /\ j # m
      <4>1. ~(i <= k) /\ i + s = j + 1 /\ i + s \in 1 .. m
        BY <2>3, <1>6, <1>7
      <4>. QED
        BY <4>1, <1>8, <1>1
    <3>2. r.nodes[cc[i]].prev = from
      BY <3>1, <1>8, <1>9, <1>12
    <3>3. k \in 1 .. mm /\ k = i - 1 /\ k <= k
      BY <2>3, <1>6, <1>4
    <3>4. cc[k] = from
      BY <3>3, <1>8, <1>4
    <3>. QED
      BY <3>2, <3>3, <3>4
  <2>4. CASE i > k + 1
    <3>1. cc[i] = c[i + s] /\ i + s \in 1 .. m /\ cc[i] \in D \ {v} /\ i + s > j + 1
      BY <2>4, <1>6, <1>7, <1>8
    <3>2. cc[i] # nx
      <4>1. j # m => j + 1 \in 1 .. m /\ i + s # j + 1
        BY <3>1, <1>1
      <4>. QED
        BY <4>1, <3>1, <2>1, <1>2, <1>9
    <3>3. r.nodes[cc[i]].prev = l.nodes[c[i + s]].prev /\ l.nodes[c[i + s]].prev \in D \ {v}
      BY <3>1, <3>2, <1>12, <1>16, <1>10
    <3>4. PICK q \in 1 .. m : q \in {i + s - 1, i + s - 2} /\ l.nodes[c[i + s]].prev = c[q]
      BY <3>1, <3>3, <2>0 DEF Back
    <3>5. q # j
      BY <3>4, <3>3
    <3>6. q > j
      BY <3>1, <3>4, <3>5, <1>1
    <3>7. q - s \in 1 .. mm /\ ~(q - s <= k) /\ (q - s) + s = q /\ q - s \in {i - 1, i - 2}
      BY <3>4, <3>6, <1>5, <1>6 DEF mm
    <3>8. cc[q - s] = c[q]
      BY <3>7, <1>8
    <3>. QED
      BY <3>3, <3>4, <3>7, <3>8
  <2>5. i <= k \/ i = k + 1 \/ i > k + 1
    BY <1>4
  <2>. QED
    BY <2>2, <2>3, <2>4, <2>5
<1>17. ListOK(r, mm, cc, b)
  <2>1. DOMAIN r.nodes \subseteq 1 .. b
    BY <1>1, <1>10
  <2>2. r.head = IF mm = 0 THEN Nil ELSE cc[1]
    <3>1. mm # 0 /\ 1 \in 1 .. mm /\ 1 <= k
      BY <1>6
    <3>. QED
      BY <3>1, <1>8, <1>10, <1>1
  <2>3. \A w \in DOMAIN r.nodes : r.nodes[w] \in [prev : 0 .. b, next : 0 .. b]
    BY <1>10, <1>12
  <2> HIDE DEF v
  <2>. QED
    BY <2>1, <2>2, <2>3, <1>1, <1>6, <1>13, <1>14, <1>15, <1>16 DEF ListOK
<1>. QED
  BY <1>17 DEF r

-----------------------------------------------------------------------------
(* What a walk along the next pointers meets: the chain, then Nil. *)
LEMMA WalkIs ==
  ASSUME NEW l, NEW m, NEW c, NEW b, ListOK(l, m, c, b)
  PROVE  \E n \in Nat :
           /\ m <= n /\ DOMAIN Walk(l) = 0 .. n
           /\ \A i \in 0 .. n : Walk(l)[i] = IF i < m THEN c[i + 1] ELSE Nil
<1> DEFINE D == DOMAIN l.nodes
           n == Cardinality(D)
           Body(f) == [i \in 0 .. n |-> IF i = 0 THEN l.head ELSE NextOf(l, f[i - 1])]
           w == [i \in 0 .. n |-> IF i < m THEN c[i + 1] ELSE Nil]
<1>1. m \in Nat /\ b \in Nat /\ D \subseteq 1 .. b /\ 0 \notin D /\ c \in [1 .. m -> D]
  BY DEF ListOK
<1>2. /\ \A i \in 1 .. m : c[i] \in D
      /\ \A i, j \in 1 .. m : c[i] = c[j] => i = j
  BY ChainOnce
<1>3. IsFiniteSet(D) /\ n \in Nat
  <2>1. IsFiniteSet(1 .. b)
    BY <1>1, FS_Interval
  <2>2. IsFiniteSet(D)
    BY <2>1, <1>1, FS_Subset
  <2>. QED
    BY <2>2, FS_CardinalityType
<1>4. m <= n
  <2>1. IsFiniteSet(1 .. m) /\ Cardinality(1 .. m) = m
    BY <1>1, FS_Interval
  <2>2. c \in Injection(1 .. m, D)
    BY <1>1, <1>2 DEF Injection, IsInjective
  <2>3. Cardinality(1 .. m) <= n
    BY <2>1, <2>2, <1>3, FS_Injection
  <2>. QED
    BY <2>1, <2>3
<1>5. Walk(l) = CHOOSE f : f = Body(f)
  BY DEF Walk
<1> HIDE DEF n
<1>6. \A i \in 1 .. m : NextOf(l, c[i]) = IF i = m THEN Nil ELSE c[i + 1]
  BY <1>2 DEF NextOf, IsNode, ListOK
<1>7. NextOf(l, Nil) = Nil /\ l.head = IF m = 0 THEN Nil ELSE c[1]
  BY <1>1 DEF NextOf, IsNode, Nil, ListOK
<1>8. \A i \in 0 .. n : w[i] = Body(w)[i]
  <2> TAKE i \in 0 .. n
  <2>1. CASE i = 0
    BY <2>1, <1>1, <1>7
  <2>2. CASE i # 0
    <3>1. i - 1 \in 0 .. n /\ i - 1 + 1 = i
      BY <2>2, <1>3
    <3>2. w[i - 1] = IF i - 1 < m THEN c[i] ELSE Nil
      BY <3>1
    <3>3. Body(w)[i] = NextOf(l, w[i - 1])
      BY <2>2
    <3>4. w[i] = IF i < m THEN c[i + 1] ELSE Nil
      OBVIOUS
    <3> HIDE DEF w, Body
    <3>5. CASE i - 1 < m
      <4>1. i \in 1 .. m /\ (i < m <=> i # m)
        BY <3>5, <2>2, <1>1
      <4>. QED
        BY <4>1, <3>2, <3>3, <3>4, <3>5, <1>6
    <3>6. CASE ~(i - 1 < m)
      <4>1. ~(i < m)
        BY <3>6, <1>1
      <4>. QED
        BY <4>1, <3>2, <3>3, <3>4, <3>6, <1>7
    <3>. QED
      BY <3>5, <3>6
  <2>. QED
    BY <2>1, <2>2
<1>9. w = Body(w)
  BY <1>8, Zenon
<1>10. Walk(l) = Body(Walk(l))
  BY <1>5, <1>9, Zenon
<1> DEFINE at == Walk(l)
<1>11. DOMAIN at = 0 .. n /\ \A i \in 0 .. n : at[i] = Body(at)[i]
  BY <1>10, Zenon
<1>12. at[0] = w[0] /\ \A i \in 1 .. n : at[i - 1] = w[i - 1] => at[i] = w[i]
  <2>1. 0 \in 0 .. n /\ \A i \in 1 .. n : i \in 0 .. n /\ i # 0
    BY <1>3
  <2>2. at[0] = l.head /\ w[0] = l.head
    <3>1. Body(at)[0] = l.head /\ Body(w)[0] = l.head
      BY <2>1
    <3>. QED
      BY <3>1, <2>1, <1>8, <1>11, Zenon
  <2>3. \A i \in 1 .. n : at[i] = NextOf(l, at[i - 1]) /\ w[i] = NextOf(l, w[i - 1])
    <3> TAKE i \in 1 .. n
    <3>1. i \in 0 .. n /\ i # 0
      BY <2>1
    <3>2. \A f : Body(f)[i] = NextOf(l, f[i - 1])
      BY <3>1
    <3> HIDE DEF w, at
    <3>. QED
      BY <3>1, <3>2, <1>8, <1>11, Zenon
  <2> HIDE DEF at, w
  <2>. QED
    BY <2>2, <2>3
<1>13. \A i \in 0 .. n : at[i] = w[i]
  <2> DEFINE G == {i \in 0 .. n : at[i] = w[i]}
  <2> HIDE DEF at, w
  <2>1. 0 \in G
    BY <1>12, <1>3
  <2>2. \A i \in 1 .. n : i - 1 \in G => i \in G
    BY <1>12
  <2>3. \A i \in 0 .. n : i \in G
    <3> HIDE DEF G
    <3>. QED
      BY <2>1, <2>2, <1>3, Upto
  <2>. QED
    BY <2>3
<1>. QED
  BY <1>3, <1>4, <1>11, <1>13

(* Values is the chain. *)
LEMMA ValuesIs ==
  ASSUME NEW l, NEW m, NEW c, NEW b, ListOK(l, m, c, b)
  PROVE  DOMAIN Values(l) = 1 .. m /\ \A i \in 1 .. m : Values(l)[i] = c[i]
<1>1. PICK n \in Nat : /\ m <= n /\ DOMAIN Walk(l) = 0 .. n
                       /\ \A i \in 0 .. n : Walk(l)[i] = IF i < m THEN c[i + 1] ELSE Nil
  BY WalkIs
<1>2. m \in Nat /\ \A i \in 1 .. m : c[i] # Nil
  BY ChainOnce DEF ListOK, Nil
<1> DEFINE at == Walk(l)
           S == {i \in DOMAIN at : at[i] # Nil}
<1>3. \A i \in 0 .. n : i \in S <=> i < m
  <2> TAKE i \in 0 .. n
  <2>1. i < m => i + 1 \in 1 .. m
    BY <1>2
  <2>. QED
    BY <2>1, <1>1, <1>2
<1>4. S = 0 .. m - 1
  <2>1. \A i : i \in S => i \in 0 .. n /\ i < m
    BY <1>1, <1>3
  <2>2. \A i \in 0 .. m - 1 : i \in 0 .. n /\ i < m
    BY <1>1, <1>2
  <2>3. \A i \in 0 .. m - 1 : i \in S
    BY <2>2, <1>3
  <2>4. \A i \in 0 .. n : i < m => i \in 0 .. m - 1
    BY <1>2
  <2> HIDE DEF S
  <2>. QED
    BY <2>1, <2>3, <2>4
<1>5. Cardinality(S) = m
  <2>1. Cardinality(0 .. m - 1) = IF 0 > m - 1 THEN 0 ELSE m - 1 - 0 + 1
    BY <1>2, FS_Interval
  <2>2. Cardinality(0 .. m - 1) = m
    BY <2>1, <1>2
  <2> HIDE DEF S
  <2>. QED
    BY <2>2, <1>4
<1>6. Values(l) = [i \in 1 .. Cardinality(S) |-> at[i - 1]]
  BY DEF Values
<1> HIDE DEF S
<1>7. Values(l) = [i \in 1 .. m |-> at[i - 1]]
  BY <1>5, <1>6
<1>8. ASSUME NEW i \in 1 .. m PROVE at[i - 1] = c[i]
  <2>1. i - 1 \in 0 .. n /\ i - 1 < m /\ i - 1 + 1 = i
    BY <1>1, <1>2
  <2>. QED
    BY <2>1, <1>1
<1>. QED
  BY <1>7, <1>8

(* A lookup finds a descriptor of the chain, or none, and it meets freed   *)
(* memory only if a descriptor of the chain is not readable.               *)
LEMMA FindIs ==
  ASSUME NEW l, NEW m, NEW c, NEW b, ListOK(l, m, c, b), NEW readable, NEW wanted
  PROVE  /\ \/ Find(l, readable, wanted) \in {Nil, Bad}
            \/ \E j \in 1 .. m : Find(l, readable, wanted) = c[j]
         /\ (\A i \in 1 .. m : c[i] \in readable) => Find(l, readable, wanted) # Bad
<1>1. PICK n \in Nat : /\ m <= n /\ DOMAIN Walk(l) = 0 .. n
                       /\ \A i \in 0 .. n : Walk(l)[i] = IF i < m THEN c[i + 1] ELSE Nil
  BY WalkIs
<1>2. m \in Nat /\ \A i \in 1 .. m : c[i] # Nil /\ IsNode(l, c[i]) /\ c[i] # Bad
  BY ChainOnce DEF ListOK, Nil, Bad, IsNode
<1> DEFINE at == Walk(l)
           ok(i) == at[i] # Nil /\ IsNode(l, at[i]) /\ at[i] \in readable
           stops == {i \in DOMAIN at : ~ok(i) \/ at[i] \in wanted}
           last == CHOOSE i \in stops : \A j \in stops : i <= j
           found == IF stops = {} THEN Nil ELSE IF ok(last) \/ at[last] = Nil THEN at[last] ELSE Bad
<1>3. Find(l, readable, wanted) = found
  BY DEF Find
<1>4. CASE stops = {}
  <2>1. found = Nil
    BY <1>4
  <2>. QED
    BY <2>1, <1>3 DEF Nil, Bad
<1>5. CASE stops # {}
  <2>1. last \in stops
    <3>1. stops \subseteq Nat
      BY <1>1
    <3>2. \E i \in stops : \A j \in stops : i <= j
      <4> HIDE DEF stops
      <4>. QED
        BY <3>1, <1>5, NatMin
    <3> HIDE DEF stops
    <3>. QED
      BY <3>2, Zenon
  <2>2. found = IF ok(last) \/ at[last] = Nil THEN at[last] ELSE Bad
    BY <1>5
  <2>3. last \in 0 .. n
    BY <2>1, <1>1
  <2> HIDE DEF stops, last, found
  <2>4. CASE last < m
    <3>1. last + 1 \in 1 .. m /\ at[last] = c[last + 1]
      BY <2>3, <2>4, <1>1, <1>2
    <3>2. found = IF c[last + 1] \in readable THEN c[last + 1] ELSE Bad
      BY <3>1, <2>2, <1>2
    <3> HIDE DEF at
    <3>. QED
      BY <3>1, <3>2, <1>2, <1>3
  <2>5. CASE ~(last < m)
    <3>1. at[last] = Nil
      BY <2>3, <2>5, <1>1
    <3>2. found = Nil
      BY <3>1, <2>2
    <3>. QED
      BY <3>2, <1>3 DEF Nil, Bad
  <2>. QED
    BY <2>4, <2>5
<1>. QED
  BY <1>4, <1>5

(* The same with the set S of the descriptors in the list. *)
IsList(l, S, b) == \E m, c : ListOK(l, m, c, b) /\ S = Members(m, c)

(* The list of a task that has no handle. *)
LEMMA ListEmpty == IsList(EmptyList, {}, 0)
<1>1. {} = Members(0, <<>>)
  BY DEF Members
<1>. QED
  BY <1>1, EmptyListOK, Zenon DEF IsList

(* push adds the newest descriptor and keeps the others. *)
LEMMA ListPush ==
  ASSUME NEW l, NEW S, NEW b, IsList(l, S, b)
  PROVE  IsList(Push(l, b + 1), S \cup {b + 1}, b + 1) /\ IsList(l, S, b + 1)
<1>1. PICK m, c : ListOK(l, m, c, b) /\ S = Members(m, c)
  BY Zenon DEF IsList
<1>2. PICK cc : /\ ListOK(Push(l, b + 1), m + 1, cc, b + 1)
                /\ Members(m, c) \cup {b + 1} = Members(m + 1, cc)
  BY <1>1, PushList
<1>3. ListOK(l, m, c, b + 1)
  BY <1>1, ListWeaken
<1>4. S \cup {b + 1} = Members(m + 1, cc)
  BY <1>1, <1>2, Zenon
<1>5. IsList(Push(l, b + 1), S \cup {b + 1}, b + 1)
  BY <1>2, <1>4, Zenon DEF IsList
<1>6. IsList(l, S, b + 1)
  BY <1>1, <1>3, Zenon DEF IsList
<1>. QED
  BY <1>5, <1>6

(* What a walk over a list of handles visits, and that the next push is    *)
(* safe.                                                                   *)
LEMMA ListFacts ==
  ASSUME NEW l, NEW S, NEW b, IsList(l, S, b)
  PROVE  /\ S \subseteq 1 .. b /\ b \in Nat /\ PushIsSafe(l)
         /\ LET list == Values(l)
            IN  /\ {list[i] : i \in DOMAIN list} = S
                /\ \A i, j \in DOMAIN list : i < j => list[i] > list[j]
<1>1. PICK m, c : ListOK(l, m, c, b) /\ S = Members(m, c)
  BY Zenon DEF IsList
<1>2. \A i \in 1 .. m : c[i] \in 1 .. b
  BY <1>1, ChainOnce
<1>3. b \in Nat /\ \A i, j \in 1 .. m : i < j => c[i] > c[j]
  BY <1>1 DEF ListOK
<1>4. PushIsSafe(l)
  BY <1>1, SecondIs
<1> DEFINE list == Values(l)
<1>5. DOMAIN list = 1 .. m /\ \A i \in 1 .. m : list[i] = c[i]
  BY <1>1, ValuesIs
<1> HIDE DEF list
<1>6. {list[i] : i \in DOMAIN list} = S
  BY <1>1, <1>5 DEF Members
<1>7. \A i, j \in DOMAIN list : i < j => list[i] > list[j]
  BY <1>3, <1>5
<1>8. S \subseteq 1 .. b
  BY <1>1, <1>2 DEF Members
<1>. QED
  BY <1>3, <1>4, <1>6, <1>7, <1>8 DEF list

(* A lookup finds a member, nothing, or freed memory; the last only when a *)
(* member was freed.                                                       *)
LEMMA ListFind ==
  ASSUME NEW l, NEW S, NEW b, IsList(l, S, b), NEW readable, NEW wanted
  PROVE  /\ Find(l, readable, wanted) \in {Nil, Bad} \cup S
         /\ S \subseteq readable => Find(l, readable, wanted) # Bad
<1>1. PICK m, c : ListOK(l, m, c, b) /\ S = Members(m, c)
  BY Zenon DEF IsList
<1> DEFINE f == Find(l, readable, wanted)
<1>2. /\ f \in {Nil, Bad} \/ \E j \in 1 .. m : f = c[j]
      /\ (\A i \in 1 .. m : c[i] \in readable) => f # Bad
  BY <1>1, FindIs
<1> HIDE DEF f
<1>3. f \in {Nil, Bad} \cup S /\ (S \subseteq readable => f # Bad)
  BY <1>1, <1>2 DEF Members
<1>. QED
  BY <1>3 DEF f

(* Removing the head is safe and removes nothing else. *)
LEMMA ListRemoveNewest ==
  ASSUME NEW l, NEW S, NEW b, IsList(l, S, b), l.head \in S
  PROVE  RemoveIsSafe(l, l.head) /\ IsList(Remove(l, l.head), S \ {l.head}, b)
<1>1. PICK m, c : ListOK(l, m, c, b) /\ S = Members(m, c)
  BY Zenon DEF IsList
<1>2. m \in Nat /\ m # 0
  BY <1>1 DEF ListOK, Members
<1>3. RemoveIsSafe(l, c[1]) /\ l.head = c[1]
  BY <1>1, <1>2, RemoveHead
<1>4. PICK cc : /\ ListOK(Remove(l, c[1]), m - 1, cc, b)
                /\ Members(m, c) \ {c[1]} = Members(m - 1, cc)
  BY <1>1, <1>2, RemoveHead
<1>5. ListOK(Remove(l, l.head), m - 1, cc, b) /\ S \ {l.head} = Members(m - 1, cc)
  BY <1>1, <1>3, <1>4, Zenon
<1>6. IsList(Remove(l, l.head), S \ {l.head}, b)
  BY <1>5, Zenon DEF IsList
<1>. QED
  BY <1>3, <1>6

(* Whatever a remove that is safe cuts out, a chain is left. *)
LEMMA ListRemove ==
  ASSUME NEW l, NEW S, NEW b, IsList(l, S, b), NEW d \in S, RemoveIsSafe(l, d)
  PROVE  \E T : IsList(Remove(l, d), T, b)
<1>1. PICK m, c : ListOK(l, m, c, b) /\ S = Members(m, c)
  BY Zenon DEF IsList
<1>2. PICK j \in 1 .. m : d = c[j]
  BY <1>1 DEF Members
<1>3. \E mm, cc : ListOK(Remove(l, d), mm, cc, b)
  <2>1. CASE j = 1
    <3>1. m # 0 /\ m \in Nat
      BY <1>1, <1>2 DEF ListOK
    <3>2. PICK cc : ListOK(Remove(l, c[1]), m - 1, cc, b)
      BY <1>1, <3>1, RemoveHead
    <3>. QED
      BY <3>2, <2>1, <1>2
  <2>2. CASE j # 1
    <3>1. j \in 2 .. m
      BY <2>2
    <3>. QED
      BY <3>1, <1>1, <1>2, RemoveInside
  <2>. QED
    BY <2>1, <2>2
<1>4. PICK mm, cc : ListOK(Remove(l, d), mm, cc, b)
  BY <1>3
<1>5. PICK T : T = Members(mm, cc)
  OBVIOUS
<1>6. IsList(Remove(l, d), T, b)
  BY <1>4, <1>5, Zenon DEF IsList
<1>. QED
  BY <1>6

-----------------------------------------------------------------------------
AnyName == Names \cup {NoName}
NodeType == [name : AnyName, dir : BOOLEAN, dirty : BOOLEAN, children : Seq(Nat),
             size : Nat, capacity : Nat]

(* The entries of p are nodes other than the root and the standard ones,   *)
(* by bucket, with distinct hashes.                                        *)
DirOK(ns, p) ==
  LET s == ns[p].children
  IN  /\ ~ns[p].dir => s = <<>>
      /\ \A i \in DOMAIN s : s[i] \in 5 .. Len(ns)
      /\ \A i, j \in DOMAIN s : i < j => Bucket(ns, s[i]) <= Bucket(ns, s[j])
      /\ \A i, j \in DOMAIN s : Hash[ns[s[i]].name] = Hash[ns[s[j]].name] => i = j

(* Every directory is in order, and every other node has one parent. *)
TreeOK(ns) ==
  /\ ns \in Seq(NodeType) /\ Len(ns) >= 4
  /\ \A p \in DOMAIN ns : DirOK(ns, p)
  /\ \A p, q \in DOMAIN ns : \A i \in DOMAIN ns[p].children : \A j \in DOMAIN ns[q].children :
       ns[p].children[i] = ns[q].children[j] => p = q
  /\ \A n \in 5 .. Len(ns) : \E p \in DOMAIN ns : \E i \in DOMAIN ns[p].children :
       ns[p].children[i] = n

(* ns2 has the nodes of ns and new empty ones; an entry that get_nth       *)
(* counts stays, and its number does not go down.                          *)
Grows(ns, ns2) ==
  /\ Len(ns) <= Len(ns2)
  /\ \A n \in DOMAIN ns : /\ ns2[n].name = ns[n].name /\ ns2[n].dir = ns[n].dir
                          /\ ns2[n].size = ns[n].size /\ ns2[n].capacity = ns[n].capacity
  /\ \A n \in DOMAIN ns2 \ DOMAIN ns : ns2[n].size = 0 /\ ns2[n].capacity = 0
  /\ \A p \in DOMAIN ns : \A i \in Counted(ns, p) : \E j \in Counted(ns2, p) :
       ns2[p].children[j] = ns[p].children[i] /\ Count(ns2, p, j) >= Count(ns, p, i)

(* ns2 is ns with one more node, entered in p after place k. *)
Added(ns, ns2, p, k) ==
  LET s == ns[p].children
      t == ns2[p].children
      n == Len(ns) + 1
  IN  /\ p \in DOMAIN ns /\ ns[p].dir /\ k \in 0 .. Len(s)
      /\ ns2 \in Seq(NodeType) /\ Len(ns2) = n
      /\ \A q \in DOMAIN ns : /\ ns2[q].name = ns[q].name /\ ns2[q].dir = ns[q].dir
                              /\ ns2[q].size = ns[q].size /\ ns2[q].capacity = ns[q].capacity
                              /\ q # p => ns2[q].children = ns[q].children
      /\ ns2[n].children = <<>> /\ ns2[n].size = 0 /\ ns2[n].capacity = 0
      /\ DOMAIN t = 1 .. Len(s) + 1
      /\ \A i \in DOMAIN t : t[i] = IF i <= k THEN s[i] ELSE IF i = k + 1 THEN n ELSE s[i - 1]
      /\ \A i \in 1 .. k : Bucket(ns2, s[i]) <= Bucket(ns2, n)
      /\ \A i \in k + 1 .. Len(s) : Bucket(ns2, s[i]) > Bucket(ns2, n)
      /\ \A i \in DOMAIN s : Hash[ns2[s[i]].name] # Hash[ns2[n].name]

(* The fields of the nodes. *)
LEMMA NodeFields ==
  ASSUME NEW ns, ns \in Seq(NodeType)
  PROVE  /\ Len(ns) \in Nat /\ DOMAIN ns = 1 .. Len(ns)
         /\ \A n \in DOMAIN ns :
              /\ ns[n] \in NodeType
              /\ ns[n].name \in AnyName /\ ns[n].dir \in BOOLEAN /\ ns[n].dirty \in BOOLEAN
              /\ ns[n].size \in Nat /\ ns[n].capacity \in Nat
              /\ ns[n].children \in Seq(Nat) /\ Len(ns[n].children) \in Nat
              /\ DOMAIN ns[n].children = 1 .. Len(ns[n].children)
              /\ Hash[ns[n].name] \in Nat /\ Bucket(ns, n) \in Nat
<1>1. Len(ns) \in Nat /\ DOMAIN ns = 1 .. Len(ns) /\ \A n \in DOMAIN ns : ns[n] \in NodeType
  OBVIOUS
<1>2. ASSUME NEW n \in DOMAIN ns
      PROVE  /\ ns[n].name \in AnyName /\ ns[n].dir \in BOOLEAN /\ ns[n].dirty \in BOOLEAN
             /\ ns[n].size \in Nat /\ ns[n].capacity \in Nat
             /\ ns[n].children \in Seq(Nat)
  BY <1>1 DEF NodeType
<1>3. ASSUME NEW n \in DOMAIN ns
      PROVE  Hash[ns[n].name] \in Nat /\ Bucket(ns, n) \in Nat
  <2>1. Hash[ns[n].name] \in Nat
    BY <1>2, FilesAssumption DEF AnyName
  <2>2. Capacity \in Nat /\ Capacity > 0
    BY FilesAssumption
  <2>3. \A h \in Nat : h % Capacity \in Nat
    BY <2>2
  <2>. QED
    BY <2>1, <2>3 DEF Bucket
<1>4. \A s \in Seq(Nat) : Len(s) \in Nat /\ DOMAIN s = 1 .. Len(s)
  OBVIOUS
<1>. QED
  BY <1>1, <1>2, <1>3, <1>4

(* The table of a node keeps its order when the tree grows around it. *)
LEMMA SameBuckets ==
  ASSUME NEW ns, NEW ns2, \A n \in DOMAIN ns : ns2[n].name = ns[n].name
  PROVE  \A n \in DOMAIN ns : Bucket(ns2, n) = Bucket(ns, n) /\ Hash[ns2[n].name] = Hash[ns[n].name]
BY DEF Bucket

(* Where an entry of the new directory comes from. *)
LEMMA AddedEntry ==
  ASSUME NEW ns, NEW ns2, NEW p, NEW k, TreeOK(ns), Added(ns, ns2, p, k),
         NEW i \in DOMAIN ns2[p].children
  PROVE  LET s == ns[p].children
             t == ns2[p].children
         IN  \/ i = k + 1 /\ t[i] = Len(ns) + 1
             \/ \E x \in DOMAIN s : /\ t[i] = s[x] /\ s[x] \in 5 .. Len(ns)
                                    /\ (i <= k /\ x = i) \/ (i > k + 1 /\ x = i - 1)
<1> DEFINE s == ns[p].children
           t == ns2[p].children
<1>1. p \in DOMAIN ns /\ ns \in Seq(NodeType) /\ DirOK(ns, p)
  BY DEF Added, TreeOK
<1>2. DOMAIN s = 1 .. Len(s) /\ Len(s) \in Nat
  BY <1>1, NodeFields
<1>3. /\ k \in 0 .. Len(s) /\ i \in 1 .. Len(s) + 1
      /\ t[i] = IF i <= k THEN s[i] ELSE IF i = k + 1 THEN Len(ns) + 1 ELSE s[i - 1]
  BY DEF Added
<1>4. \A x \in DOMAIN s : s[x] \in 5 .. Len(ns)
  BY <1>1 DEF DirOK
<1>5. CASE i <= k
  <2>1. i \in DOMAIN s /\ t[i] = s[i]
    BY <1>5, <1>2, <1>3
  <2>2. s[i] \in 5 .. Len(ns)
    BY <2>1, <1>4
  <2>3. \E x \in DOMAIN s : /\ t[i] = s[x] /\ s[x] \in 5 .. Len(ns)
                            /\ (i <= k /\ x = i) \/ (i > k + 1 /\ x = i - 1)
    BY <2>1, <2>2, <1>5
  <2>. QED
    BY <2>3
<1>6. CASE i = k + 1
  BY <1>6, <1>3
<1>7. CASE i > k + 1
  <2>1. i - 1 \in DOMAIN s /\ ~(i <= k) /\ i # k + 1
    BY <1>7, <1>2, <1>3
  <2>2. s[i - 1] \in 5 .. Len(ns) /\ t[i] = s[i - 1]
    BY <2>1, <1>3, <1>4
  <2>3. \E x \in DOMAIN s : /\ t[i] = s[x] /\ s[x] \in 5 .. Len(ns)
                            /\ (i <= k /\ x = i) \/ (i > k + 1 /\ x = i - 1)
    BY <2>1, <2>2, <1>7
  <2>. QED
    BY <2>3
<1>8. i <= k \/ i = k + 1 \/ i > k + 1
  BY <1>3
<1>. QED
  BY <1>5, <1>6, <1>7, <1>8

(* Where an old entry goes. *)
LEMMA AddedPlace ==
  ASSUME NEW ns, NEW ns2, NEW p, NEW k, TreeOK(ns), Added(ns, ns2, p, k),
         NEW x \in DOMAIN ns[p].children
  PROVE  LET j == IF x <= k THEN x ELSE x + 1
         IN  j \in DOMAIN ns2[p].children /\ ns2[p].children[j] = ns[p].children[x]
<1> DEFINE s == ns[p].children
           t == ns2[p].children
<1>1. p \in DOMAIN ns /\ ns \in Seq(NodeType)
  BY DEF Added, TreeOK
<1>2. DOMAIN s = 1 .. Len(s) /\ Len(s) \in Nat
  BY <1>1, NodeFields
<1>3. /\ k \in 0 .. Len(s) /\ DOMAIN t = 1 .. Len(s) + 1
      /\ \A i \in DOMAIN t : t[i] = IF i <= k THEN s[i] ELSE IF i = k + 1 THEN Len(ns) + 1 ELSE s[i - 1]
  BY DEF Added
<1>4. CASE x <= k
  <2>1. x \in DOMAIN t
    BY <1>2, <1>3
  <2>. QED
    BY <2>1, <1>3, <1>4
<1>5. CASE ~(x <= k)
  <2>1. x + 1 \in DOMAIN t /\ ~(x + 1 <= k) /\ x + 1 # k + 1 /\ (x + 1) - 1 = x
    BY <1>2, <1>3, <1>5
  <2>. QED
    BY <2>1, <1>3, <1>5
<1>. QED
  BY <1>4, <1>5

(* An entry more: the directory that gets it stays in order. *)
LEMMA AddedDir ==
  ASSUME NEW ns, NEW ns2, NEW p, NEW k, TreeOK(ns), Added(ns, ns2, p, k)
  PROVE  DirOK(ns2, p)
<1> DEFINE s == ns[p].children
           t == ns2[p].children
           n == Len(ns) + 1
<1>1. /\ p \in DOMAIN ns /\ ns[p].dir /\ ns \in Seq(NodeType) /\ DirOK(ns, p) /\ k \in Nat
      /\ ns2 \in Seq(NodeType) /\ Len(ns2) = n /\ ns2[p].dir
      /\ \A q \in DOMAIN ns : ns2[q].name = ns[q].name
  BY DEF Added, TreeOK
<1>2. DOMAIN ns = 1 .. Len(ns) /\ Len(ns) \in Nat /\ DOMAIN s = 1 .. Len(s) /\ Len(s) \in Nat
  BY <1>1, NodeFields
<1>3. \A q \in DOMAIN ns : Bucket(ns2, q) = Bucket(ns, q) /\ Hash[ns2[q].name] = Hash[ns[q].name]
  BY <1>1, SameBuckets
<1>4. \A x \in DOMAIN s : s[x] \in DOMAIN ns
  <2>1. \A x \in DOMAIN s : s[x] \in 5 .. Len(ns)
    BY <1>1 DEF DirOK
  <2>. QED
    BY <2>1, <1>2
<1> DEFINE New(i) == i = k + 1 /\ t[i] = n
           Old(i, x) == /\ x \in DOMAIN s /\ t[i] = s[x] /\ s[x] \in 5 .. Len(ns)
                        /\ (i <= k /\ x = i) \/ (i > k + 1 /\ x = i - 1)
<1>5. \A i \in DOMAIN t : New(i) \/ \E x : Old(i, x)
  BY AddedEntry
<1>6. DOMAIN t \subseteq Nat /\ \A x \in DOMAIN s : x \in Nat
  BY <1>2 DEF Added
<1>7. \A i \in DOMAIN t : t[i] \in 5 .. Len(ns2)
  <2> TAKE i \in DOMAIN t
  <2>1. n \in 5 .. Len(ns2) /\ 5 .. Len(ns) \subseteq 5 .. Len(ns2)
    BY <1>1, <1>2 DEF TreeOK
  <2>. QED
    BY <2>1, <1>5
<1>8. ASSUME NEW i \in DOMAIN t, NEW j \in DOMAIN t, i < j
      PROVE  Bucket(ns2, t[i]) <= Bucket(ns2, t[j])
  <2>1. /\ \A x \in 1 .. k : Bucket(ns2, s[x]) <= Bucket(ns2, n)
        /\ \A x \in k + 1 .. Len(s) : Bucket(ns2, s[x]) > Bucket(ns2, n)
    BY DEF Added
  <2>2. Bucket(ns2, n) \in Nat /\ \A x \in DOMAIN s : Bucket(ns2, s[x]) \in Nat
    <3>1. DOMAIN ns2 = 1 .. Len(ns2) /\ \A q \in DOMAIN ns2 : Bucket(ns2, q) \in Nat
      BY <1>1, NodeFields
    <3>2. n \in DOMAIN ns2 /\ DOMAIN ns \subseteq DOMAIN ns2
      BY <3>1, <1>1, <1>2
    <3>. QED
      BY <3>1, <3>2, <1>4
  <2>3. \A x, y \in DOMAIN s : x < y => Bucket(ns2, s[x]) <= Bucket(ns2, s[y])
    <3>1. \A x, y \in DOMAIN s : x < y => Bucket(ns, s[x]) <= Bucket(ns, s[y])
      BY <1>1 DEF DirOK
    <3>. QED
      BY <3>1, <1>3, <1>4
  <2> HIDE DEF s, t, n
  <2>4. CASE New(i)
    <3>1. PICK y : Old(j, y)
      BY <2>4, <1>5, <1>8, <1>6
    <3>2. y \in k + 1 .. Len(s)
      BY <3>1, <2>4, <1>8, <1>6, <1>2
    <3>3. Bucket(ns2, s[y]) > Bucket(ns2, n)
      BY <3>2, <2>1
    <3>. QED
      BY <3>1, <3>3, <2>4, <2>2
  <2>5. CASE New(j)
    <3>1. PICK x : Old(i, x)
      BY <2>5, <1>5, <1>8, <1>6
    <3>2. x \in 1 .. k
      BY <3>1, <2>5, <1>8, <1>6, <1>2
    <3>3. Bucket(ns2, s[x]) <= Bucket(ns2, n)
      BY <3>2, <2>1
    <3>. QED
      BY <3>1, <3>3, <2>5
  <2>6. CASE ~New(i) /\ ~New(j)
    <3>1. PICK x : Old(i, x)
      BY <2>6, <1>5
    <3>2. PICK y : Old(j, y)
      BY <2>6, <1>5
    <3>3. x < y
      BY <3>1, <3>2, <1>8, <1>6, <1>1
    <3>. QED
      BY <3>1, <3>2, <3>3, <2>3
  <2>. QED
    BY <2>4, <2>5, <2>6
<1>9. ASSUME NEW i \in DOMAIN t, NEW j \in DOMAIN t, Hash[ns2[t[i]].name] = Hash[ns2[t[j]].name]
      PROVE  i = j
  <2>1. \A x \in DOMAIN s : Hash[ns2[s[x]].name] # Hash[ns2[n].name]
    BY DEF Added
  <2>2. \A x, y \in DOMAIN s : Hash[ns2[s[x]].name] = Hash[ns2[s[y]].name] => x = y
    <3>1. \A x, y \in DOMAIN s : Hash[ns[s[x]].name] = Hash[ns[s[y]].name] => x = y
      BY <1>1 DEF DirOK
    <3>. QED
      BY <3>1, <1>3, <1>4
  <2> HIDE DEF s, t, n
  <2>3. CASE New(i) /\ New(j)
    BY <2>3
  <2>4. CASE New(i) /\ ~New(j)
    <3>1. PICK y : Old(j, y)
      BY <2>4, <1>5
    <3>. QED
      BY <3>1, <2>4, <2>1, <1>9
  <2>5. CASE ~New(i) /\ New(j)
    <3>1. PICK x : Old(i, x)
      BY <2>5, <1>5
    <3>. QED
      BY <3>1, <2>5, <2>1, <1>9
  <2>6. CASE ~New(i) /\ ~New(j)
    <3>1. PICK x : Old(i, x)
      BY <2>6, <1>5
    <3>2. PICK y : Old(j, y)
      BY <2>6, <1>5
    <3>3. x = y
      BY <3>1, <3>2, <2>2, <1>9
    <3>. QED
      BY <3>1, <3>2, <3>3, <1>6, <1>1
  <2>. QED
    BY <2>3, <2>4, <2>5, <2>6
<1> HIDE DEF n
<1>. QED
  BY <1>1, <1>7, <1>8, <1>9 DEF DirOK

(* The entries of ns2: those of ns in the same directory, and the new one. *)
LEMMA AddedEntries ==
  ASSUME NEW ns, NEW ns2, NEW p, NEW k, TreeOK(ns), Added(ns, ns2, p, k)
  PROVE  /\ \A q \in DOMAIN ns : \A i \in DOMAIN ns[q].children :
              \E j \in DOMAIN ns2[q].children : ns2[q].children[j] = ns[q].children[i]
         /\ \E j \in DOMAIN ns2[p].children : ns2[p].children[j] = Len(ns) + 1
         /\ \A q \in DOMAIN ns2 : \A j \in DOMAIN ns2[q].children :
              \/ q = p /\ ns2[q].children[j] = Len(ns) + 1
              \/ /\ q \in DOMAIN ns /\ ns2[q].children[j] \in 5 .. Len(ns)
                 /\ \E i \in DOMAIN ns[q].children : ns2[q].children[j] = ns[q].children[i]
<1> DEFINE n == Len(ns) + 1
<1>1. /\ p \in DOMAIN ns /\ ns \in Seq(NodeType) /\ ns2 \in Seq(NodeType) /\ Len(ns2) = n
      /\ ns2[n].children = <<>>
      /\ \A q \in DOMAIN ns : DirOK(ns, q) /\ (q # p => ns2[q].children = ns[q].children)
  BY DEF Added, TreeOK
<1>2. DOMAIN ns = 1 .. Len(ns) /\ Len(ns) \in Nat /\ DOMAIN ns2 = 1 .. n
  BY <1>1, NodeFields
<1>3. ASSUME NEW q \in DOMAIN ns, NEW i \in DOMAIN ns[q].children
      PROVE  \E j \in DOMAIN ns2[q].children : ns2[q].children[j] = ns[q].children[i]
  <2>1. CASE q = p
    <3>1. i \in DOMAIN ns[p].children
      BY <2>1
    <3>. QED
      BY <3>1, <2>1, AddedPlace
  <2>2. CASE q # p
    BY <2>2, <1>1
  <2>. QED
    BY <2>1, <2>2
<1>4. \E j \in DOMAIN ns2[p].children : ns2[p].children[j] = n
  <2> DEFINE s == ns[p].children
             t == ns2[p].children
  <2>1. /\ k \in 0 .. Len(s) /\ DOMAIN t = 1 .. Len(s) + 1
        /\ \A i \in DOMAIN t : t[i] = IF i <= k THEN s[i] ELSE IF i = k + 1 THEN n ELSE s[i - 1]
    BY DEF Added
  <2>2. Len(s) \in Nat
    BY <1>1, NodeFields
  <2>3. k + 1 \in DOMAIN t /\ ~(k + 1 <= k)
    BY <2>1, <2>2
  <2>. QED
    BY <2>1, <2>3
<1>5. ASSUME NEW q \in DOMAIN ns2, NEW j \in DOMAIN ns2[q].children
      PROVE  \/ q = p /\ ns2[q].children[j] = n
             \/ /\ q \in DOMAIN ns /\ ns2[q].children[j] \in 5 .. Len(ns)
                /\ \E i \in DOMAIN ns[q].children : ns2[q].children[j] = ns[q].children[i]
  <2>1. q # n
    <3> SUFFICES ASSUME q = n PROVE FALSE
      OBVIOUS
    <3>1. j \in DOMAIN <<>>
      BY <1>1
    <3>. QED
      BY <3>1
  <2>2. q \in DOMAIN ns
    BY <2>1, <1>2
  <2>3. CASE q = p
    <3>1. j \in DOMAIN ns2[p].children
      BY <2>3
    <3>. QED
      BY <3>1, <2>2, <2>3, AddedEntry
  <2>4. CASE q # p
    <3>1. ns2[q].children = ns[q].children /\ DirOK(ns, q)
      BY <2>2, <2>4, <1>1
    <3>. QED
      BY <3>1, <2>2 DEF DirOK
  <2>. QED
    BY <2>3, <2>4
<1>. QED
  BY <1>3, <1>4, <1>5

(* A tree with one more node is a tree. *)
LEMMA AddedTree ==
  ASSUME NEW ns, NEW ns2, NEW p, NEW k, TreeOK(ns), Added(ns, ns2, p, k)
  PROVE  TreeOK(ns2)
<1> DEFINE n == Len(ns) + 1
<1>1. /\ p \in DOMAIN ns /\ ns \in Seq(NodeType) /\ ns2 \in Seq(NodeType) /\ Len(ns2) = n
      /\ ns2[n].children = <<>>
      /\ \A q \in DOMAIN ns : /\ ns2[q].name = ns[q].name /\ ns2[q].dir = ns[q].dir
                              /\ q # p => ns2[q].children = ns[q].children
      /\ Len(ns) >= 4
      /\ \A q \in DOMAIN ns : DirOK(ns, q)
  BY DEF Added, TreeOK
<1>2. DOMAIN ns = 1 .. Len(ns) /\ Len(ns) \in Nat /\ DOMAIN ns2 = 1 .. n
  BY <1>1, NodeFields
<1>3. \A q \in DOMAIN ns : Bucket(ns2, q) = Bucket(ns, q) /\ Hash[ns2[q].name] = Hash[ns[q].name]
  BY <1>1, SameBuckets
<1>4. ASSUME NEW q \in DOMAIN ns2
      PROVE  DirOK(ns2, q)
  <2>1. CASE q = p
    BY <2>1, AddedDir
  <2>2. CASE q = n
    BY <2>2, <1>1 DEF DirOK
  <2>3. CASE q # p /\ q # n
    <3> DEFINE s == ns[q].children
    <3>1. q \in DOMAIN ns
      BY <2>3, <1>2
    <3>2. ns2[q].children = s /\ ns2[q].dir = ns[q].dir /\ DirOK(ns, q)
      BY <3>1, <2>3, <1>1
    <3>3. \A i \in DOMAIN s : s[i] \in 5 .. Len(ns)
      BY <3>2 DEF DirOK
    <3>4. 5 .. Len(ns) \subseteq 5 .. Len(ns2) /\ 5 .. Len(ns) \subseteq DOMAIN ns
      BY <1>1, <1>2
    <3>5. \A i \in DOMAIN s : /\ s[i] \in 5 .. Len(ns2)
                              /\ Bucket(ns2, s[i]) = Bucket(ns, s[i])
                              /\ Hash[ns2[s[i]].name] = Hash[ns[s[i]].name]
      BY <3>3, <3>4, <1>3
    <3>6. /\ ~ns[q].dir => s = <<>>
          /\ \A i, j \in DOMAIN s : i < j => Bucket(ns, s[i]) <= Bucket(ns, s[j])
          /\ \A i, j \in DOMAIN s : Hash[ns[s[i]].name] = Hash[ns[s[j]].name] => i = j
      BY <3>2 DEF DirOK
    <3> HIDE DEF s
    <3>. QED
      BY <3>2, <3>5, <3>6 DEF DirOK
  <2>. QED
    BY <2>1, <2>2, <2>3
<1>5. ASSUME NEW q \in DOMAIN ns2, NEW r \in DOMAIN ns2,
             NEW i \in DOMAIN ns2[q].children, NEW j \in DOMAIN ns2[r].children,
             ns2[q].children[i] = ns2[r].children[j]
      PROVE  q = r
  <2> DEFINE v == ns2[q].children[i]
             Old(x) == x \in DOMAIN ns /\ \E y \in DOMAIN ns[x].children : v = ns[x].children[y]
  <2>1. /\ (q = p /\ v = n) \/ (v \in 5 .. Len(ns) /\ Old(q))
        /\ (r = p /\ v = n) \/ (v \in 5 .. Len(ns) /\ Old(r))
    <3> DEFINE From(x, w) ==
          \/ x = p /\ w = n
          \/ /\ x \in DOMAIN ns /\ w \in 5 .. Len(ns)
             /\ \E y \in DOMAIN ns[x].children : w = ns[x].children[y]
    <3>1. \A x \in DOMAIN ns2 : \A y \in DOMAIN ns2[x].children : From(x, ns2[x].children[y])
      BY AddedEntries
    <3> HIDE DEF From
    <3>2. From(q, v) /\ From(r, v)
      BY <3>1, <1>5
    <3> HIDE DEF v, n
    <3>. QED
      BY <3>2 DEF From
  <2>2. v \in 5 .. Len(ns) => v # n
    BY <1>2
  <2>3. ASSUME Old(q), Old(r) PROVE q = r
    <3>1. PICK x \in DOMAIN ns[q].children : v = ns[q].children[x]
      BY <2>3
    <3>2. PICK y \in DOMAIN ns[r].children : v = ns[r].children[y]
      BY <2>3
    <3>3. \A x1, x2 \in DOMAIN ns : \A y1 \in DOMAIN ns[x1].children : \A y2 \in DOMAIN ns[x2].children :
            ns[x1].children[y1] = ns[x2].children[y2] => x1 = x2
      BY DEF TreeOK
    <3>4. q \in DOMAIN ns /\ r \in DOMAIN ns
      BY <2>3
    <3> HIDE DEF v
    <3>. QED
      BY <3>1, <3>2, <3>3, <3>4, Zenon
  <2> HIDE DEF Old, v, n
  <2>. QED
    BY <2>1, <2>2, <2>3
<1>6. ASSUME NEW v \in 5 .. Len(ns2)
      PROVE  \E q \in DOMAIN ns2 : \E i \in DOMAIN ns2[q].children : ns2[q].children[i] = v
  <2>1. DOMAIN ns \subseteq DOMAIN ns2
    BY <1>2
  <2>2. CASE v = n
    BY <2>1, <2>2, <1>1, AddedEntries
  <2>3. CASE v # n
    <3>1. v \in 5 .. Len(ns)
      BY <2>3, <1>1, <1>2
    <3>2. PICK q \in DOMAIN ns : \E i \in DOMAIN ns[q].children : ns[q].children[i] = v
      BY <3>1 DEF TreeOK
    <3>3. PICK i \in DOMAIN ns[q].children : ns[q].children[i] = v
      BY <3>2
    <3>4. \E j \in DOMAIN ns2[q].children : ns2[q].children[j] = v
      BY <3>3, AddedEntries
    <3>. QED
      BY <3>4, <2>1
  <2>. QED
    BY <2>2, <2>3
<1>7. Len(ns2) >= 4
  BY <1>1, <1>2
<1> HIDE DEF n
<1>. QED
  BY <1>1, <1>4, <1>5, <1>6, <1>7 DEF TreeOK

-----------------------------------------------------------------------------
(* What get_nth counts is finite. *)
LEMMA CountIs ==
  ASSUME NEW ns, ns \in Seq(NodeType), NEW p \in DOMAIN ns
  PROVE  /\ IsFiniteSet(Counted(ns, p)) /\ Counted(ns, p) \subseteq DOMAIN ns[p].children
         /\ \A i : IsFiniteSet({j \in Counted(ns, p) : j < i}) /\ Count(ns, p, i) \in Nat
<1>1. DOMAIN ns[p].children = 1 .. Len(ns[p].children) /\ Len(ns[p].children) \in Nat
  BY NodeFields
<1>2. Counted(ns, p) \subseteq DOMAIN ns[p].children
  BY DEF Counted
<1>3. IsFiniteSet(Counted(ns, p))
  <2>1. IsFiniteSet(1 .. Len(ns[p].children))
    <3>1. \A x \in Nat : IsFiniteSet(1 .. x)
      BY FS_Interval
    <3>. QED
      BY <3>1, <1>1
  <2>. QED
    BY <2>1, <1>1, <1>2, FS_Subset
<1>4. ASSUME NEW i PROVE IsFiniteSet({j \in Counted(ns, p) : j < i}) /\ Count(ns, p, i) \in Nat
  <2>1. IsFiniteSet({j \in Counted(ns, p) : j < i})
    <3>1. {j \in Counted(ns, p) : j < i} \in SUBSET Counted(ns, p)
      OBVIOUS
    <3>. QED
      BY <3>1, <1>3, FS_Subset
  <2>. QED
    BY <2>1, FS_CardinalityType DEF Count
<1>. QED
  BY <1>2, <1>3, <1>4

(* get_nth numbers the entries it counts: no two have the same number. *)
LEMMA CountInjective ==
  ASSUME NEW ns, ns \in Seq(NodeType), NEW p \in DOMAIN ns,
         NEW i \in Counted(ns, p), NEW j \in Counted(ns, p), Count(ns, p, i) = Count(ns, p, j)
  PROVE  i = j
<1> DEFINE Below(x) == {y \in Counted(ns, p) : y < x}
<1>1. \A x : IsFiniteSet(Below(x)) /\ Count(ns, p, x) = Cardinality(Below(x))
  BY CountIs DEF Count
<1>2. Counted(ns, p) \subseteq Nat
  <2>1. DOMAIN ns[p].children = 1 .. Len(ns[p].children)
    BY NodeFields
  <2>. QED
    BY <2>1, CountIs
<1>3. ASSUME NEW x \in Counted(ns, p), NEW y \in Counted(ns, p), x < y
      PROVE  Cardinality(Below(x)) # Cardinality(Below(y))
  <2>1. Below(x) \in SUBSET Below(y)
    BY <1>2, <1>3
  <2>2. x \in Below(y) /\ x \notin Below(x)
    BY <1>2, <1>3
  <2>3. Below(x) # Below(y)
    BY <2>2
  <2> HIDE DEF Below
  <2>. QED
    BY <2>1, <2>3, <1>1, FS_Subset
<1>4. i \in Nat /\ j \in Nat
  BY <1>2
<1>5. ~(i < j) /\ ~(j < i)
  <2> HIDE DEF Below
  <2>. QED
    BY <1>1, <1>3
<1>. QED
  BY <1>4, <1>5

(* A new entry moves the others at most to a higher number. *)
LEMMA AddedGrows ==
  ASSUME NEW ns, NEW ns2, NEW p, NEW k, TreeOK(ns), Added(ns, ns2, p, k)
  PROVE  Grows(ns, ns2)
<1> DEFINE n == Len(ns) + 1
<1>1. /\ p \in DOMAIN ns /\ ns \in Seq(NodeType) /\ ns2 \in Seq(NodeType) /\ Len(ns2) = n
      /\ ns2[n].size = 0 /\ ns2[n].capacity = 0
      /\ \A q \in DOMAIN ns : /\ ns2[q].name = ns[q].name /\ ns2[q].dir = ns[q].dir
                              /\ ns2[q].size = ns[q].size /\ ns2[q].capacity = ns[q].capacity
                              /\ q # p => ns2[q].children = ns[q].children
      /\ \A q \in DOMAIN ns : DirOK(ns, q)
  BY DEF Added, TreeOK
<1>2. DOMAIN ns = 1 .. Len(ns) /\ Len(ns) \in Nat /\ DOMAIN ns2 = 1 .. n
  BY <1>1, NodeFields
<1>3. \A q \in DOMAIN ns : \A i \in DOMAIN ns[q].children :
        Hash[ns2[ns[q].children[i]].name] = Hash[ns[ns[q].children[i]].name]
  <2> TAKE q \in DOMAIN ns
  <2> TAKE i \in DOMAIN ns[q].children
  <2>1. ns[q].children[i] \in 5 .. Len(ns)
    BY <1>1 DEF DirOK
  <2>2. ns[q].children[i] \in DOMAIN ns
    BY <2>1, <1>2
  <2>. QED
    BY <2>2, <1>1, SameBuckets
<1>4. ASSUME NEW q \in DOMAIN ns, NEW i \in Counted(ns, q)
      PROVE  \E j \in Counted(ns2, q) :
               ns2[q].children[j] = ns[q].children[i] /\ Count(ns2, q, j) >= Count(ns, q, i)
  <2>1. CASE q # p
    <3>1. ns2[q].children = ns[q].children
      BY <2>1, <1>1
    <3>2. Counted(ns2, q) = Counted(ns, q)
      BY <3>1, <1>3 DEF Counted
    <3>3. Count(ns2, q, i) = Count(ns, q, i)
      BY <3>2 DEF Count
    <3>4. Count(ns, q, i) \in Nat
      BY <1>1, CountIs
    <3>. QED
      BY <3>1, <3>2, <3>3, <3>4
  <2>2. CASE q = p
    <3> DEFINE s == ns[p].children
               t == ns2[p].children
               sh(x) == IF x <= k THEN x ELSE x + 1
    <3>1. \A x \in DOMAIN s : sh(x) \in DOMAIN t /\ t[sh(x)] = s[x]
      BY AddedPlace
    <3>2. DOMAIN s \subseteq Nat /\ k \in Nat /\ Counted(ns, p) \subseteq DOMAIN s
      <4>1. DOMAIN s = 1 .. Len(s) /\ Len(s) \in Nat
        BY <1>1, NodeFields
      <4>2. k \in Nat
        BY <4>1 DEF Added
      <4>. QED
        BY <4>1, <4>2, <1>1, CountIs
    <3>3. \A x \in Counted(ns, p) : sh(x) \in Counted(ns2, p)
      <4> TAKE x \in Counted(ns, p)
      <4>1. x \in DOMAIN s /\ Hash[ns[s[x]].name] # 0
        BY DEF Counted
      <4>2. Hash[ns2[s[x]].name] # 0
        BY <4>1, <1>1, <1>3
      <4>3. sh(x) \in DOMAIN t /\ t[sh(x)] = s[x]
        BY <4>1, <3>1
      <4> HIDE DEF sh
      <4>. QED
        BY <4>2, <4>3 DEF Counted
    <3>4. \A x, y \in Nat : (x < y <=> sh(x) < sh(y)) /\ (sh(x) = sh(y) => x = y)
      BY <3>2
    <3> DEFINE A == {x \in Counted(ns, p) : x < i}
               B == {x \in Counted(ns2, p) : x < sh(i)}
               f == [x \in A |-> sh(x)]
    <3>5. i \in Counted(ns, p) /\ i \in Nat
      BY <2>2, <3>2
    <3>6. f \in Injection(A, B)
      <4>1. \A x \in A : x \in Nat /\ sh(x) \in B
        BY <3>2, <3>3, <3>4, <3>5
      <4>2. \A x, y \in A : sh(x) = sh(y) => x = y
        BY <4>1, <3>4
      <4> HIDE DEF A, B, sh
      <4>3. f \in [A -> B]
        BY <4>1
      <4>. QED
        BY <4>2, <4>3 DEF Injection, IsInjective
    <3>7. IsFiniteSet(B) /\ Cardinality(A) \in Nat /\ Cardinality(B) \in Nat
      <4>1. p \in DOMAIN ns2
        BY <1>1, <1>2
      <4>2. \A z : IsFiniteSet({j \in Counted(ns2, p) : j < z}) /\ Count(ns2, p, z) \in Nat
        BY <4>1, <1>1, CountIs
      <4>3. Count(ns, p, i) \in Nat
        BY <1>1, CountIs
      <4> HIDE DEF sh
      <4>. QED
        BY <4>2, <4>3 DEF Count
    <3>8. Cardinality(A) <= Cardinality(B)
      <4> HIDE DEF A, B, f
      <4>. QED
        BY <3>6, <3>7, FS_Injection
    <3>9. Count(ns, p, i) = Cardinality(A) /\ Count(ns2, p, sh(i)) = Cardinality(B)
      BY DEF Count
    <3>10. Count(ns2, p, sh(i)) >= Count(ns, p, i)
      <4> HIDE DEF A, B, f, sh
      <4>. QED
        BY <3>7, <3>8, <3>9
    <3>11. sh(i) \in Counted(ns2, p) /\ t[sh(i)] = s[i]
      BY <3>1, <3>2, <3>3, <3>5
    <3> HIDE DEF sh
    <3>. QED
      BY <3>10, <3>11, <2>2
  <2>. QED
    BY <2>1, <2>2
<1>5. \A q \in DOMAIN ns2 \ DOMAIN ns : ns2[q].size = 0 /\ ns2[q].capacity = 0
  <2>1. \A q \in DOMAIN ns2 \ DOMAIN ns : q = n
    BY <1>2
  <2>. QED
    BY <2>1, <1>1
<1>6. Len(ns) <= Len(ns2)
  BY <1>1, <1>2
<1> HIDE DEF n
<1>. QED
  BY <1>1, <1>4, <1>5, <1>6 DEF Grows

(* No growth is growth. *)
LEMMA GrowsRefl ==
  ASSUME NEW ns, ns \in Seq(NodeType)
  PROVE  Grows(ns, ns)
<1>1. \A p \in DOMAIN ns : \A i : Count(ns, p, i) \in Nat
  BY CountIs
<1>2. Len(ns) \in Nat
  OBVIOUS
<1>3. \A p \in DOMAIN ns : \A i \in Counted(ns, p) : Count(ns, p, i) >= Count(ns, p, i)
  BY <1>1
<1>. QED
  BY <1>2, <1>3 DEF Grows

(* Growth after growth is growth. *)
LEMMA GrowsTrans ==
  ASSUME NEW a, a \in Seq(NodeType), NEW b, b \in Seq(NodeType), NEW c, c \in Seq(NodeType),
         Grows(a, b), Grows(b, c)
  PROVE  Grows(a, c)
<1>1. DOMAIN a = 1 .. Len(a) /\ DOMAIN b = 1 .. Len(b) /\ DOMAIN c = 1 .. Len(c)
  OBVIOUS
<1>2. Len(a) \in Nat /\ Len(b) \in Nat /\ Len(c) \in Nat /\ Len(a) <= Len(b) /\ Len(b) <= Len(c)
  BY DEF Grows
<1>3. DOMAIN a \subseteq DOMAIN b /\ DOMAIN b \subseteq DOMAIN c /\ Len(a) <= Len(c)
  BY <1>1, <1>2
<1>4. ASSUME NEW n \in DOMAIN a
      PROVE  /\ c[n].name = a[n].name /\ c[n].dir = a[n].dir
             /\ c[n].size = a[n].size /\ c[n].capacity = a[n].capacity
  BY <1>3 DEF Grows
<1>5. ASSUME NEW n \in DOMAIN c \ DOMAIN a
      PROVE  c[n].size = 0 /\ c[n].capacity = 0
  BY <1>3 DEF Grows
<1>6. ASSUME NEW p \in DOMAIN a, NEW i \in Counted(a, p)
      PROVE  \E j \in Counted(c, p) :
               c[p].children[j] = a[p].children[i] /\ Count(c, p, j) >= Count(a, p, i)
  <2>1. PICK x \in Counted(b, p) : b[p].children[x] = a[p].children[i] /\ Count(b, p, x) >= Count(a, p, i)
    BY DEF Grows
  <2>2. p \in DOMAIN b /\ p \in DOMAIN c
    BY <1>3
  <2>3. PICK y \in Counted(c, p) : c[p].children[y] = b[p].children[x] /\ Count(c, p, y) >= Count(b, p, x)
    BY <2>2 DEF Grows
  <2>4. Count(a, p, i) \in Nat /\ Count(b, p, x) \in Nat /\ Count(c, p, y) \in Nat
    BY <2>2, CountIs
  <2>5. Count(c, p, y) >= Count(a, p, i)
    BY <2>1, <2>3, <2>4
  <2>. QED
    BY <2>1, <2>3, <2>5
<1>. QED
  BY <1>3, <1>4, <1>5, <1>6 DEF Grows

-----------------------------------------------------------------------------
(* StringHashMap::get: no entry has the hash, or one that has it is found. *)
LEMMA GetIs ==
  ASSUME NEW ns, TreeOK(ns), NEW p \in DOMAIN ns, NEW name
  PROVE  LET s == ns[p].children
         IN  \/ Get(ns, p, name) = Nil /\ \A i \in DOMAIN s : Hash[ns[s[i]].name] # Hash[name]
             \/ \E i \in DOMAIN s : /\ Get(ns, p, name) = s[i] /\ Get(ns, p, name) \in 5 .. Len(ns)
                                    /\ Hash[ns[s[i]].name] = Hash[name]
<1> DEFINE s == ns[p].children
           hits == {i \in DOMAIN s : Hash[ns[s[i]].name] = Hash[name]}
           first == CHOOSE i \in hits : \A j \in hits : i <= j
<1>1. Get(ns, p, name) = IF hits = {} THEN Nil ELSE s[first]
  BY DEF Get
<1>2. CASE hits = {}
  <2>1. Get(ns, p, name) = Nil
    BY <1>1, <1>2
  <2>2. \A i \in DOMAIN s : Hash[ns[s[i]].name] # Hash[name]
    BY <1>2
  <2>. QED
    BY <2>1, <2>2
<1>3. CASE hits # {}
  <2>1. hits \subseteq Nat
    <3>1. DOMAIN s = 1 .. Len(s)
      BY NodeFields DEF TreeOK
    <3>. QED
      BY <3>1
  <2>2. first \in hits
    <3> HIDE DEF hits
    <3>1. \E i \in hits : \A j \in hits : i <= j
      BY <2>1, <1>3, NatMin
    <3>. QED
      BY <3>1, Zenon
  <2>3. Get(ns, p, name) = s[first]
    BY <1>1, <1>3
  <2> HIDE DEF first
  <2>4. first \in DOMAIN s /\ Hash[ns[s[first]].name] = Hash[name]
    BY <2>2
  <2>5. s[first] \in 5 .. Len(ns)
    BY <2>4 DEF TreeOK, DirOK
  <2>. QED
    BY <2>3, <2>4, <2>5
<1>. QED
  BY <1>2, <1>3

(* The buckets up to that of n end somewhere, when s is by bucket. *)
LEMMA BucketEndIs ==
  ASSUME NEW ns, NEW s, s \in Seq(Nat), NEW n, Bucket(ns, n) \in Nat,
         \A i \in DOMAIN s : Bucket(ns, s[i]) \in Nat,
         \A i, j \in DOMAIN s : i < j => Bucket(ns, s[i]) <= Bucket(ns, s[j])
  PROVE  /\ BucketEnd(ns, s, n) \in 0 .. Len(s)
         /\ \A i \in 1 .. BucketEnd(ns, s, n) : Bucket(ns, s[i]) <= Bucket(ns, n)
         /\ \A i \in BucketEnd(ns, s, n) + 1 .. Len(s) : Bucket(ns, s[i]) > Bucket(ns, n)
<1> DEFINE P(k) == /\ \A i \in 1 .. k : Bucket(ns, s[i]) <= Bucket(ns, n)
                   /\ \A i \in k + 1 .. Len(s) : Bucket(ns, s[i]) > Bucket(ns, n)
           T == {k \in 0 .. Len(s) : \A i \in k + 1 .. Len(s) : Bucket(ns, s[i]) > Bucket(ns, n)}
<1>1. Len(s) \in Nat /\ DOMAIN s = 1 .. Len(s)
  OBVIOUS
<1>2. PICK k \in T : \A y \in T : k <= y
  <2>1. T \subseteq Nat
    BY <1>1
  <2>2. Len(s) \in T
    BY <1>1
  <2> HIDE DEF T
  <2>. QED
    BY <2>1, <2>2, NatMin
<1>3. \A i \in 1 .. k : Bucket(ns, s[i]) <= Bucket(ns, n)
  <2> TAKE i \in 1 .. k
  <2>0. k \in 0 .. Len(s) /\ \A x \in k + 1 .. Len(s) : Bucket(ns, s[x]) > Bucket(ns, n)
    BY <1>2
  <2>1. k \in DOMAIN s /\ i \in DOMAIN s /\ k - 1 \in 0 .. Len(s) /\ ~(k <= k - 1)
    BY <2>0, <1>1
  <2>2. k - 1 \notin T
    BY <2>1, <1>2
  <2>3. ~(\A x \in (k - 1) + 1 .. Len(s) : Bucket(ns, s[x]) > Bucket(ns, n))
    BY <2>2, <2>1
  <2>4. PICK x \in (k - 1) + 1 .. Len(s) : ~(Bucket(ns, s[x]) > Bucket(ns, n))
    BY <2>3
  <2>5. x = k
    <3>1. x = k \/ x \in k + 1 .. Len(s)
      BY <2>1, <1>1
    <3>. QED
      BY <3>1, <2>0, <2>4
  <2>6. Bucket(ns, s[k]) <= Bucket(ns, n)
    BY <2>1, <2>4, <2>5
  <2>7. i = k \/ Bucket(ns, s[i]) <= Bucket(ns, s[k])
    BY <2>1
  <2>8. Bucket(ns, s[i]) \in Nat /\ Bucket(ns, s[k]) \in Nat
    BY <2>1
  <2>. QED
    BY <2>6, <2>7, <2>8
<1>4. k \in 0 .. Len(s) /\ P(k)
  BY <1>2, <1>3
<1>5. BucketEnd(ns, s, n) = CHOOSE x \in 0 .. Len(s) : P(x)
  BY DEF BucketEnd
<1> HIDE DEF P
<1>6. BucketEnd(ns, s, n) \in 0 .. Len(s) /\ P(BucketEnd(ns, s, n))
  BY <1>4, <1>5, Zenon
<1>. QED
  BY <1>6 DEF P

(* One turn of create that makes a node. *)
LEMMA AddNode ==
  ASSUME NEW ns, TreeOK(ns), NEW p \in DOMAIN ns, ns[p].dir,
         NEW name \in AnyName, NEW dir \in BOOLEAN, NEW dirty \in BOOLEAN,
         \A i \in DOMAIN ns[p].children : Hash[ns[ns[p].children[i]].name] # Hash[name]
  PROVE  LET nn == Append(ns, Node(name, dir, dirty))
         IN  \E k : Added(ns, [nn EXCEPT ![p].children = Insert(nn, @, Len(nn))], p, k)
<1> DEFINE nn == Append(ns, Node(name, dir, dirty))
           ns2 == [nn EXCEPT ![p].children = Insert(nn, @, Len(nn))]
           s == ns[p].children
           new == Node(name, dir, dirty)
           n == Len(ns) + 1
<1>1. ns \in Seq(NodeType) /\ DirOK(ns, p)
  BY DEF TreeOK
<1>2. Len(ns) \in Nat /\ DOMAIN ns = 1 .. Len(ns) /\ s \in Seq(Nat) /\ Len(s) \in Nat /\ DOMAIN s = 1 .. Len(s)
  BY <1>1, NodeFields
<1>3. new \in NodeType /\ new.children = <<>> /\ new.size = 0 /\ new.capacity = 0 /\ new.name = name
  BY DEF Node, NodeType
<1>4. /\ nn \in Seq(NodeType) /\ Len(nn) = n /\ DOMAIN nn = 1 .. n
      /\ nn[n] = new /\ \A q \in DOMAIN ns : nn[q] = ns[q]
  <2> HIDE DEF new
  <2>. QED
    BY <1>1, <1>2, <1>3 DEF new
<1> HIDE DEF nn, ns2
<1>5. n \in DOMAIN nn /\ p \in DOMAIN nn /\ p # n /\ nn[p] = ns[p] /\ DOMAIN ns \subseteq DOMAIN nn
  BY <1>2, <1>4
<1>6. \A i \in DOMAIN s : s[i] \in DOMAIN ns
  <2>1. \A i \in DOMAIN s : s[i] \in 5 .. Len(ns)
    BY <1>1 DEF DirOK
  <2>. QED
    BY <2>1, <1>2
<1>7. \A q \in DOMAIN ns : Bucket(nn, q) = Bucket(ns, q) /\ Hash[nn[q].name] = Hash[ns[q].name]
  <2>1. \A q \in DOMAIN ns : nn[q].name = ns[q].name
    BY <1>4
  <2>. QED
    BY <2>1, SameBuckets
<1>8. \A q \in DOMAIN nn : Bucket(nn, q) \in Nat
  BY <1>4, NodeFields
<1> DEFINE k == BucketEnd(nn, s, n)
           t == Insert(nn, s, n)
<1>9. /\ k \in 0 .. Len(s)
      /\ \A i \in 1 .. k : Bucket(nn, s[i]) <= Bucket(nn, n)
      /\ \A i \in k + 1 .. Len(s) : Bucket(nn, s[i]) > Bucket(nn, n)
  <2>1. \A i, j \in DOMAIN s : i < j => Bucket(nn, s[i]) <= Bucket(nn, s[j])
    <3>1. \A i, j \in DOMAIN s : i < j => Bucket(ns, s[i]) <= Bucket(ns, s[j])
      BY <1>1 DEF DirOK
    <3>. QED
      BY <3>1, <1>6, <1>7
  <2>2. Bucket(nn, n) \in Nat /\ \A i \in DOMAIN s : Bucket(nn, s[i]) \in Nat
    BY <1>5, <1>6, <1>8
  <2> HIDE DEF s, n
  <2>. QED
    BY <2>1, <2>2, <1>2, BucketEndIs
<1> HIDE DEF k, s, new, n
<1>10. t = [i \in 1 .. Len(s) + 1 |-> IF i <= k THEN s[i] ELSE IF i = k + 1 THEN n ELSE s[i - 1]]
  BY DEF Insert, k
<1>11. t \in Seq(Nat)
  <2>1. \A i \in 1 .. Len(s) : s[i] \in Nat
    BY <1>2
  <2>2. n \in Nat
    BY <1>2 DEF n
  <2> DEFINE e(i) == IF i <= k THEN s[i] ELSE IF i = k + 1 THEN n ELSE s[i - 1]
  <2>3. \A i \in 1 .. Len(s) + 1 : e(i) \in Nat
    <3> TAKE i \in 1 .. Len(s) + 1
    <3>1. (i <= k => i \in 1 .. Len(s)) /\ (~(i <= k) /\ i # k + 1 => i - 1 \in 1 .. Len(s))
      BY <1>2, <1>9
    <3>. QED
      BY <3>1, <2>1, <2>2
  <2>4. [i \in 1 .. Len(s) + 1 |-> e(i)] \in [1 .. Len(s) + 1 -> Nat]
    <3> HIDE DEF e
    <3>. QED
      BY <2>3
  <2>5. t \in [1 .. Len(s) + 1 -> Nat]
    BY <2>4, <1>10
  <2> HIDE DEF t
  <2>6. PICK m \in Nat : m = Len(s) + 1
    BY <1>2
  <2>. QED
    BY <2>5, <2>6
<1>12. DOMAIN t = 1 .. Len(s) + 1 /\ \A i \in DOMAIN t : t[i] = IF i <= k THEN s[i] ELSE IF i = k + 1 THEN n ELSE s[i - 1]
  BY <1>10
<1> HIDE DEF t
<1>13. ns2 = [nn EXCEPT ![p] = [nn[p] EXCEPT !.children = t]]
  <2>1. nn[p].children = s /\ Len(nn) = n
    BY <1>4, <1>5 DEF s
  <2>. QED
    BY <2>1 DEF t, ns2
<1>14. nn[p] \in NodeType
  BY <1>4, <1>5
<1> DEFINE np == [nn[p] EXCEPT !.children = t]
<1>15. /\ np \in NodeType /\ np.children = t /\ np.name = nn[p].name /\ np.dir = nn[p].dir
       /\ np.size = nn[p].size /\ np.capacity = nn[p].capacity
  BY <1>11, <1>14 DEF NodeType
<1> HIDE DEF np
<1>16. /\ ns2 \in Seq(NodeType) /\ Len(ns2) = n
       /\ ns2[p] = np /\ \A q \in DOMAIN nn : q # p => ns2[q] = nn[q]
  <2>1. ns2 = [nn EXCEPT ![p] = np]
    BY <1>13 DEF np
  <2>2. p \in 1 .. Len(nn)
    BY <1>4, <1>5
  <2>3. nn \in Seq(NodeType) /\ np \in NodeType /\ Len(nn) = n /\ DOMAIN nn = 1 .. n
    BY <1>4, <1>15
  <2>. QED
    BY <2>1, <2>2, <2>3
<1>17. \A q \in DOMAIN nn : ns2[q].name = nn[q].name
  BY <1>15, <1>16
<1>18. \A q \in DOMAIN nn : Bucket(ns2, q) = Bucket(nn, q) /\ Hash[ns2[q].name] = Hash[nn[q].name]
  BY <1>17, SameBuckets
<1>19. \A i \in DOMAIN s : s[i] \in DOMAIN nn /\ Hash[ns2[s[i]].name] # Hash[ns2[n].name]
  <2> TAKE i \in DOMAIN s
  <2>1. s[i] \in DOMAIN ns /\ s[i] \in DOMAIN nn
    BY <1>5, <1>6
  <2>2. Hash[ns2[s[i]].name] = Hash[ns[s[i]].name]
    BY <2>1, <1>7, <1>18
  <2>3. Hash[ns2[n].name] = Hash[name]
    BY <1>3, <1>4, <1>5, <1>18
  <2>4. Hash[ns[s[i]].name] # Hash[name]
    BY DEF s
  <2>. QED
    BY <2>1, <2>2, <2>3, <2>4
<1>20. /\ \A i \in 1 .. k : Bucket(ns2, s[i]) <= Bucket(ns2, n)
       /\ \A i \in k + 1 .. Len(s) : Bucket(ns2, s[i]) > Bucket(ns2, n)
  <2>1. (\A i \in 1 .. k : i \in DOMAIN s) /\ (\A i \in k + 1 .. Len(s) : i \in DOMAIN s)
    BY <1>2, <1>9
  <2>2. \A i \in DOMAIN s : Bucket(ns2, s[i]) = Bucket(nn, s[i])
    BY <1>18, <1>19
  <2>3. Bucket(ns2, n) = Bucket(nn, n)
    BY <1>5, <1>18
  <2>. QED
    BY <2>1, <2>2, <2>3, <1>9
<1>21. /\ ns2[n].children = <<>> /\ ns2[n].size = 0 /\ ns2[n].capacity = 0
       /\ ns2[p].children = t
  BY <1>3, <1>4, <1>5, <1>15, <1>16
<1>22. \A q \in DOMAIN ns : /\ ns2[q].name = ns[q].name /\ ns2[q].dir = ns[q].dir
                            /\ ns2[q].size = ns[q].size /\ ns2[q].capacity = ns[q].capacity
                            /\ q # p => ns2[q].children = ns[q].children
  <2> TAKE q \in DOMAIN ns
  <2>1. q \in DOMAIN nn /\ nn[q] = ns[q]
    BY <1>4, <1>5
  <2>2. CASE q = p
    BY <2>1, <2>2, <1>15, <1>16
  <2>3. CASE q # p
    BY <2>1, <2>3, <1>16
  <2>. QED
    BY <2>2, <2>3
<1>23. Added(ns, ns2, p, k)
  <2>1. s = ns[p].children /\ n = Len(ns) + 1
    BY DEF s, n
  <2>2. DOMAIN ns2[p].children = 1 .. Len(s) + 1 /\ \A i \in DOMAIN ns2[p].children :
          ns2[p].children[i] = IF i <= k THEN s[i] ELSE IF i = k + 1 THEN n ELSE s[i - 1]
    BY <1>12, <1>21
  <2>3. \A i \in DOMAIN s : Hash[ns2[s[i]].name] # Hash[ns2[n].name]
    BY <1>19
  <2>. QED
    BY <2>1, <2>2, <2>3, <1>9, <1>16, <1>20, <1>21, <1>22 DEF Added
<1>. QED
  BY <1>23 DEF ns2, nn

-----------------------------------------------------------------------------
PathType == [abs : BOOLEAN, names : Seq(Names), len : Nat]

(* What create may have come to from the nodes ns0. *)
CreateStates(ns0) ==
  {c \in [ns : Seq(NodeType), at : Int] :
     TreeOK(c.ns) /\ Grows(ns0, c.ns) /\ c.at \in {Bad} \cup DOMAIN c.ns}

(* One round of Vfs::create: the tree stays a tree and grows. *)
LEMMA CreateStepOK ==
  ASSUME NEW ns0, ns0 \in Seq(NodeType), NEW c \in CreateStates(ns0), NEW name \in AnyName,
         NEW dir \in BOOLEAN, NEW dirty \in BOOLEAN
  PROVE  CreateStep(c, name, dir, dirty) \in CreateStates(ns0)
<1> DEFINE ns == c.ns
           p == c.at
           found == Get(ns, p, name)
           nn == Append(ns, Node(name, dir, dir /\ dirty))
           ns2 == [nn EXCEPT ![p].children = Insert(nn, @, Len(nn))]
           r == CreateStep(c, name, dir, dirty)
<1>1. /\ c \in [ns : Seq(NodeType), at : Int] /\ ns \in Seq(NodeType) /\ p \in Int
      /\ TreeOK(ns) /\ Grows(ns0, ns) /\ p \in {Bad} \cup DOMAIN ns
  BY DEF CreateStates
<1>2. r = IF p = Bad \/ ~HasMap(ns, p) THEN [c EXCEPT !.at = Bad]
          ELSE IF found # Nil THEN [c EXCEPT !.at = found]
          ELSE [ns |-> ns2, at |-> Len(nn)]
  BY DEF CreateStep
<1> HIDE DEF r
<1>3. \A v \in Int : /\ [c EXCEPT !.at = v] \in [ns : Seq(NodeType), at : Int]
                     /\ [c EXCEPT !.at = v].ns = ns /\ [c EXCEPT !.at = v].at = v
  BY <1>1
<1>4. CASE p = Bad \/ ~HasMap(ns, p)
  <2>1. r = [c EXCEPT !.at = Bad] /\ Bad \in Int
    BY <1>2, <1>4 DEF Bad
  <2>. QED
    BY <2>1, <1>1, <1>3 DEF CreateStates, r
<1>5. CASE ~(p = Bad \/ ~HasMap(ns, p)) /\ found # Nil
  <2>1. p \in DOMAIN ns
    BY <1>1, <1>5
  <2>2. found \in 5 .. Len(ns)
    BY <2>1, <1>1, <1>5, GetIs
  <2>3. found \in DOMAIN ns /\ found \in Int
    BY <2>2, <1>1, NodeFields
  <2>4. r = [c EXCEPT !.at = found]
    BY <1>2, <1>5
  <2> HIDE DEF found
  <2>. QED
    BY <2>3, <2>4, <1>1, <1>3 DEF CreateStates, r
<1>6. CASE ~(p = Bad \/ ~HasMap(ns, p)) /\ found = Nil
  <2>1. p \in DOMAIN ns /\ ns[p].dir
    BY <1>1, <1>6 DEF HasMap
  <2>2. \A i \in DOMAIN ns[p].children : Hash[ns[ns[p].children[i]].name] # Hash[name]
    BY <2>1, <1>1, <1>6, GetIs DEF Nil
  <2>3. PICK k : Added(ns, ns2, p, k)
    <3>1. (dir /\ dirty) \in BOOLEAN
      OBVIOUS
    <3> HIDE DEF ns, p
    <3>. QED
      BY <3>1, <2>1, <2>2, <1>1, AddNode
  <2>4. r = [ns |-> ns2, at |-> Len(nn)]
    BY <1>2, <1>6
  <2>5. Len(nn) = Len(ns) + 1 /\ Len(ns) \in Nat
    BY <1>1
  <2> HIDE DEF ns2, nn, ns
  <2>6. ns2 \in Seq(NodeType) /\ Len(ns2) = Len(ns) + 1 /\ DOMAIN ns2 = 1 .. Len(ns2)
    <3>1. ns2 \in Seq(NodeType) /\ Len(ns2) = Len(ns) + 1
      BY <2>3 DEF Added
    <3>. QED
      BY <3>1, NodeFields
  <2>7. TreeOK(ns2) /\ Grows(ns, ns2)
    BY <2>3, <1>1, AddedTree, AddedGrows
  <2>8. Grows(ns0, ns2)
    BY <2>6, <2>7, <1>1, GrowsTrans
  <2>9. Len(nn) \in DOMAIN ns2 /\ Len(nn) \in Int
    BY <2>5, <2>6
  <2>10. r \in CreateStates(ns0)
    BY <2>4, <2>6, <2>7, <2>8, <2>9 DEF CreateStates
  <2>. QED
    BY <2>10 DEF r
<1>. QED
  BY <1>4, <1>5, <1>6

(* Vfs::create keeps the tree in order, and it only adds to it. *)
LEMMA CreateOK ==
  ASSUME NEW ns0, TreeOK(ns0), NEW path \in PathType, NEW dir \in BOOLEAN, NEW dirty \in BOOLEAN
  PROVE  Create(ns0, path, dir, dirty) \in CreateStates(ns0)
<1> DEFINE names == IF path.abs THEN <<NoName>> \o path.names ELSE path.names
           n == Len(names)
           S == CreateStates(ns0)
           c0 == [ns |-> ns0, at |-> RootNode]
           Body(f) == [i \in 0 .. n |-> IF i = 0 THEN c0
                                        ELSE CreateStep(f[i - 1], names[i], dir \/ i < n, dirty)]
<1>1. names \in Seq(AnyName) /\ n \in Nat
  <2>1. path.names \in Seq(Names)
    BY DEF PathType
  <2>2. path.names \in Seq(AnyName) /\ <<NoName>> \in Seq(AnyName)
    BY <2>1, SeqMonotonic DEF AnyName
  <2>3. <<NoName>> \o path.names \in Seq(AnyName)
    BY <2>2, ConcatProperties
  <2>4. names \in Seq(AnyName)
    BY <2>2, <2>3
  <2> HIDE DEF names
  <2>. QED
    BY <2>4
<1>2. Create(ns0, path, dir, dirty) = (CHOOSE f : f = Body(f))[n]
  BY DEF Create
<1> HIDE DEF names
<1>3. c0 \in S
  <2>1. ns0 \in Seq(NodeType) /\ Len(ns0) >= 4 /\ DOMAIN ns0 = 1 .. Len(ns0) /\ Len(ns0) \in Nat
    BY NodeFields DEF TreeOK
  <2>2. RootNode \in DOMAIN ns0 /\ RootNode \in Int
    BY <2>1 DEF RootNode
  <2>3. Grows(ns0, ns0)
    BY <2>1, GrowsRefl
  <2>. QED
    BY <2>1, <2>2, <2>3 DEF CreateStates
<1> DEFINE St(i, c) == CreateStep(c, names[i], dir \/ i < n, dirty)
<1>4. \A i \in 1 .. n : \A c \in S : St(i, c) \in S
  <2> TAKE i \in 1 .. n
  <2> TAKE c \in S
  <2>1. names[i] \in AnyName /\ (dir \/ i < n) \in BOOLEAN
    BY <1>1
  <2>2. ns0 \in Seq(NodeType)
    BY DEF TreeOK
  <2>. QED
    BY <2>1, <2>2, CreateStepOK
<1> DEFINE step == [i \in 1 .. n |-> [c \in S |-> St(i, c)]]
<1> HIDE DEF St, S, c0, n
<1>5. step \in [1 .. n -> [S -> S]]
  BY <1>4
<1>6. PICK g : Iterates(g, S, c0, n, step)
  <2> HIDE DEF step
  <2>1. n \in Nat /\ c0 \in S
    BY <1>1, <1>3
  <2>. QED
    BY <2>1, <1>5, Recursion
<1>7. g = Body(g)
  <2>0. g \in [0 .. n -> S] /\ g[0] = c0 /\ \A i \in 1 .. n : g[i] = step[i][g[i - 1]]
    <3> HIDE DEF step
    <3>. QED
      BY <1>6 DEF Iterates
  <2>1. \A i \in 0 .. n : g[i] = IF i = 0 THEN c0 ELSE St(i, g[i - 1])
    <3> TAKE i \in 0 .. n
    <3>1. CASE i = 0
      BY <3>1, <2>0
    <3>2. CASE i # 0
      <4>1. i \in 1 .. n /\ i - 1 \in 0 .. n
        BY <3>2, <1>1
      <4>2. g[i - 1] \in S
        BY <4>1, <2>0
      <4>3. step[i][g[i - 1]] = St(i, g[i - 1])
        BY <4>1, <4>2
      <4> HIDE DEF step
      <4>. QED
        BY <4>1, <4>3, <3>2, <2>0
    <3>. QED
      BY <3>1, <3>2
  <2>2. g = [i \in 0 .. n |-> IF i = 0 THEN c0 ELSE St(i, g[i - 1])]
    BY <2>0, <2>1
  <2>. QED
    BY <2>2, Zenon DEF St
<1> DEFINE at == CHOOSE f : f = Body(f)
<1>8. at = Body(at)
  BY <1>7, Zenon
<1>9. \A i \in 0 .. n : at[i] = IF i = 0 THEN c0 ELSE St(i, at[i - 1])
  BY <1>8, Zenon DEF St
<1> HIDE DEF at
<1> DEFINE G == {i \in 0 .. n : at[i] \in S}
<1>10. 0 \in G
  BY <1>1, <1>3, <1>9
<1>11. \A i \in 1 .. n : i - 1 \in G => i \in G
  <2> TAKE i \in 1 .. n
  <2>1. i \in 0 .. n /\ i # 0
    OBVIOUS
  <2>. QED
    BY <2>1, <1>4, <1>9
<1>12. n \in G
  <2> HIDE DEF G
  <2>1. \A i \in 0 .. n : i \in G
    BY <1>1, <1>10, <1>11, Upto
  <2>. QED
    BY <2>1, <1>1 DEF n
<1>. QED
  BY <1>2, <1>12 DEF at, S

(* Vfs::get_node finds a node, or none, or uses a node without a table. *)
LEMMA GetNodeOK ==
  ASSUME NEW ns, TreeOK(ns), NEW names, names \in Seq(Names)
  PROVE  GetNode(ns, names) \in {Nil, Bad} \cup DOMAIN ns
<1> DEFINE n == Len(names)
           S == {Nil, Bad} \cup DOMAIN ns
           St(i, v) == IF v \in {Nil, Bad} THEN v
                       ELSE IF HasMap(ns, v) THEN Get(ns, v, names[i]) ELSE Bad
           Body(f) == [i \in 0 .. n |-> IF i = 0 THEN RootNode
                         ELSE IF f[i - 1] \in {Nil, Bad} THEN f[i - 1]
                         ELSE IF HasMap(ns, f[i - 1]) THEN Get(ns, f[i - 1], names[i]) ELSE Bad]
           step == [i \in 1 .. n |-> [v \in S |-> St(i, v)]]
<1>1. n \in Nat
  OBVIOUS
<1>2. GetNode(ns, names) = (CHOOSE f : f = Body(f))[n]
  BY DEF GetNode
<1>3. ns \in Seq(NodeType) /\ Len(ns) >= 4 /\ DOMAIN ns = 1 .. Len(ns) /\ Len(ns) \in Nat
  BY NodeFields DEF TreeOK
<1>4. RootNode \in S
  BY <1>3 DEF RootNode
<1>5. \A i \in 1 .. n : \A v \in S : St(i, v) \in S
  <2> TAKE i \in 1 .. n
  <2> TAKE v \in S
  <2>1. CASE v \in {Nil, Bad}
    BY <2>1
  <2>2. CASE v \notin {Nil, Bad}
    <3>1. v \in DOMAIN ns
      BY <2>2
    <3>2. Get(ns, v, names[i]) = Nil \/ Get(ns, v, names[i]) \in 5 .. Len(ns)
      BY <3>1, GetIs
    <3>3. Get(ns, v, names[i]) \in S
      BY <3>2, <1>3
    <3>. QED
      BY <3>3, <2>2
  <2>. QED
    BY <2>1, <2>2
<1> HIDE DEF St, S, n
<1>6. step \in [1 .. n -> [S -> S]]
  BY <1>5
<1>7. PICK g : Iterates(g, S, RootNode, n, step)
  <2> HIDE DEF step
  <2>. QED
    BY <1>1, <1>4, <1>6, Recursion
<1>8. g = Body(g)
  <2>0. g \in [0 .. n -> S] /\ g[0] = RootNode /\ \A i \in 1 .. n : g[i] = step[i][g[i - 1]]
    <3> HIDE DEF step
    <3>. QED
      BY <1>7 DEF Iterates
  <2>1. \A i \in 0 .. n : g[i] = IF i = 0 THEN RootNode ELSE St(i, g[i - 1])
    <3> TAKE i \in 0 .. n
    <3>1. CASE i = 0
      BY <3>1, <2>0
    <3>2. CASE i # 0
      <4>1. i \in 1 .. n /\ i - 1 \in 0 .. n
        BY <3>2, <1>1
      <4>2. g[i - 1] \in S
        BY <4>1, <2>0
      <4>3. step[i][g[i - 1]] = St(i, g[i - 1])
        BY <4>1, <4>2
      <4> HIDE DEF step
      <4>. QED
        BY <4>1, <4>3, <3>2, <2>0
    <3>. QED
      BY <3>1, <3>2
  <2>2. g = [i \in 0 .. n |-> IF i = 0 THEN RootNode ELSE St(i, g[i - 1])]
    BY <2>0, <2>1
  <2>. QED
    BY <2>2, Zenon DEF St
<1> DEFINE at == CHOOSE f : f = Body(f)
<1>9. at = Body(at)
  BY <1>8, Zenon
<1>10. \A i \in 0 .. n : at[i] = IF i = 0 THEN RootNode ELSE St(i, at[i - 1])
  BY <1>9, Zenon DEF St
<1> HIDE DEF at
<1> DEFINE G == {i \in 0 .. n : at[i] \in S}
<1>11. 0 \in G
  BY <1>1, <1>4, <1>10
<1>12. \A i \in 1 .. n : i - 1 \in G => i \in G
  <2> TAKE i \in 1 .. n
  <2>1. i \in 0 .. n /\ i # 0
    OBVIOUS
  <2>. QED
    BY <2>1, <1>5, <1>10
<1>13. n \in G
  <2> HIDE DEF G
  <2>1. \A i \in 0 .. n : i \in G
    BY <1>1, <1>11, <1>12, Upto
  <2>. QED
    BY <2>1, <1>1
<1>. QED
  BY <1>2, <1>13 DEF at, S

-----------------------------------------------------------------------------
(* The same tree, with other sizes. *)
LEMMA SameTree ==
  ASSUME NEW ns, TreeOK(ns), NEW ns2, ns2 \in Seq(NodeType), Len(ns2) = Len(ns),
         \A n \in DOMAIN ns : /\ ns2[n].name = ns[n].name /\ ns2[n].dir = ns[n].dir
                              /\ ns2[n].children = ns[n].children
  PROVE  /\ TreeOK(ns2) /\ DOMAIN ns2 = DOMAIN ns
         /\ \A p \in DOMAIN ns : Counted(ns2, p) = Counted(ns, p) /\ \A i : Count(ns2, p, i) = Count(ns, p, i)
<1>1. ns \in Seq(NodeType) /\ Len(ns) >= 4 /\ DOMAIN ns2 = DOMAIN ns /\ DOMAIN ns = 1 .. Len(ns) /\ Len(ns) \in Nat
  BY NodeFields DEF TreeOK
<1>2. \A n \in DOMAIN ns : Bucket(ns2, n) = Bucket(ns, n) /\ Hash[ns2[n].name] = Hash[ns[n].name]
  BY SameBuckets
<1>3. \A p \in DOMAIN ns : \A i \in DOMAIN ns[p].children : ns[p].children[i] \in DOMAIN ns
  <2> TAKE p \in DOMAIN ns
  <2> TAKE i \in DOMAIN ns[p].children
  <2>1. ns[p].children[i] \in 5 .. Len(ns)
    BY DEF TreeOK, DirOK
  <2>. QED
    BY <2>1, <1>1
<1>4. ASSUME NEW p \in DOMAIN ns PROVE DirOK(ns2, p)
  <2> DEFINE s == ns[p].children
  <2>1. DirOK(ns, p)
    BY DEF TreeOK
  <2>2. /\ ~ns[p].dir => s = <<>>
        /\ \A i \in DOMAIN s : s[i] \in 5 .. Len(ns)
        /\ \A i, j \in DOMAIN s : i < j => Bucket(ns, s[i]) <= Bucket(ns, s[j])
        /\ \A i, j \in DOMAIN s : Hash[ns[s[i]].name] = Hash[ns[s[j]].name] => i = j
    BY <2>1 DEF DirOK
  <2>3. \A i \in DOMAIN s : /\ Bucket(ns2, s[i]) = Bucket(ns, s[i])
                            /\ Hash[ns2[s[i]].name] = Hash[ns[s[i]].name]
    BY <1>2, <1>3
  <2>4. ns2[p].children = s /\ ns2[p].dir = ns[p].dir
    OBVIOUS
  <2> HIDE DEF s
  <2>. QED
    BY <2>2, <2>3, <2>4 DEF DirOK
<1>5. TreeOK(ns2)
  <2>1. ASSUME NEW p \in DOMAIN ns2, NEW q \in DOMAIN ns2, NEW i \in DOMAIN ns2[p].children,
               NEW j \in DOMAIN ns2[q].children, ns2[p].children[i] = ns2[q].children[j]
        PROVE  p = q
    <3>1. ns2[p].children = ns[p].children /\ ns2[q].children = ns[q].children
      BY <1>1
    <3>. QED
      BY <3>1, <2>1, <1>1 DEF TreeOK
  <2>2. ASSUME NEW n \in 5 .. Len(ns2)
        PROVE  \E p \in DOMAIN ns2 : \E i \in DOMAIN ns2[p].children : ns2[p].children[i] = n
    <3>1. PICK p \in DOMAIN ns : \E i \in DOMAIN ns[p].children : ns[p].children[i] = n
      BY DEF TreeOK
    <3>2. ns2[p].children = ns[p].children
      OBVIOUS
    <3>. QED
      BY <3>1, <3>2, <1>1
  <2>. QED
    BY <2>1, <2>2, <1>1, <1>4 DEF TreeOK
<1>6. ASSUME NEW p \in DOMAIN ns
      PROVE  Counted(ns2, p) = Counted(ns, p) /\ \A i : Count(ns2, p, i) = Count(ns, p, i)
  <2>1. ns2[p].children = ns[p].children
    OBVIOUS
  <2>2. \A i \in DOMAIN ns[p].children :
          Hash[ns2[ns[p].children[i]].name] = Hash[ns[ns[p].children[i]].name]
    BY <1>2, <1>3
  <2>3. Counted(ns2, p) = Counted(ns, p)
    BY <2>1, <2>2 DEF Counted
  <2>. QED
    BY <2>3 DEF Count
<1>. QED
  BY <1>1, <1>5, <1>6

(* A node with another size and capacity. *)
Resizes(ns, ns2, n, size, capacity) ==
  ns2 = [ns EXCEPT ![n] = [ns[n] EXCEPT !.size = size, !.capacity = capacity]]

(* The size and capacity of a file do not matter to the tree. *)
LEMMA Resized ==
  ASSUME NEW ns, TreeOK(ns), NEW n \in DOMAIN ns, NEW size \in Nat, NEW capacity \in Nat,
         NEW ns2, Resizes(ns, ns2, n, size, capacity)
  PROVE  /\ TreeOK(ns2) /\ DOMAIN ns2 = DOMAIN ns
         /\ \A p \in DOMAIN ns : /\ ns2[p].name = ns[p].name /\ ns2[p].dir = ns[p].dir
                                 /\ ns2[p].children = ns[p].children
                                 /\ Counted(ns2, p) = Counted(ns, p)
                                 /\ \A i : Count(ns2, p, i) = Count(ns, p, i)
         /\ ns2[n].size = size /\ ns2[n].capacity = capacity
         /\ \A p \in DOMAIN ns : p # n => ns2[p] = ns[p]
<1> DEFINE r == [ns[n] EXCEPT !.size = size, !.capacity = capacity]
<1>1. ns \in Seq(NodeType) /\ ns[n] \in NodeType /\ DOMAIN ns = 1 .. Len(ns) /\ Len(ns) \in Nat
  BY NodeFields DEF TreeOK
<1>2. /\ r \in NodeType /\ r.name = ns[n].name /\ r.dir = ns[n].dir /\ r.children = ns[n].children
      /\ r.size = size /\ r.capacity = capacity
  BY <1>1 DEF NodeType
<1>3. /\ ns2 \in Seq(NodeType) /\ Len(ns2) = Len(ns) /\ ns2[n] = r
      /\ \A p \in DOMAIN ns : p # n => ns2[p] = ns[p]
  <2>1. r \in NodeType /\ ns \in Seq(NodeType)
    BY <1>1, <1>2
  <2>2. ns2 = [ns EXCEPT ![n] = r]
    BY DEF Resizes
  <2> HIDE DEF r
  <2>. QED
    BY <2>1, <2>2
<1> HIDE DEF r
<1>4. \A p \in DOMAIN ns : /\ ns2[p].name = ns[p].name /\ ns2[p].dir = ns[p].dir
                           /\ ns2[p].children = ns[p].children
  <2> TAKE p \in DOMAIN ns
  <2>1. CASE p = n
    BY <2>1, <1>2, <1>3
  <2>2. CASE p # n
    BY <2>2, <1>3
  <2>. QED
    BY <2>1, <2>2
<1>5. /\ TreeOK(ns2) /\ DOMAIN ns2 = DOMAIN ns
      /\ \A p \in DOMAIN ns : Counted(ns2, p) = Counted(ns, p) /\ \A i : Count(ns2, p, i) = Count(ns, p, i)
  BY <1>3, <1>4, SameTree
<1>. QED
  BY <1>2, <1>3, <1>4, <1>5

(* The nodes that the kernel starts from. *)
FreshTrees == {ns \in Seq(NodeType) : TreeOK(ns) /\ \A n \in DOMAIN ns \ StdNodes : ns[n].capacity = 0}

(* One entry of the archive. *)
LEMMA UnpackStep ==
  ASSUME NEW ns \in FreshTrees, NEW i \in DOMAIN Archive
  PROVE  LET c == Create(ns, Archive[i].path, Archive[i].dir, FALSE)
         IN  [c.ns EXCEPT ![c.at].size = Archive[i].size] \in FreshTrees
<1> DEFINE e == Archive[i]
           c == Create(ns, e.path, e.dir, FALSE)
           ns2 == [c.ns EXCEPT ![c.at].size = e.size]
<1>1. e.path \in PathType /\ e.dir \in BOOLEAN /\ e.size \in Nat /\ FALSE \in BOOLEAN
  <2>1. Archive \in Seq([path : PathType, dir : BOOLEAN, size : Nat])
    BY FilesAssumption DEF PathType
  <2>2. \A A : \A q \in Seq(A) : \A j \in DOMAIN q : q[j] \in A
    OBVIOUS
  <2>3. e \in [path : PathType, dir : BOOLEAN, size : Nat]
    BY <2>1, <2>2, Zenon
  <2> HIDE DEF e
  <2>. QED
    BY <2>3
<1>2. ns \in Seq(NodeType) /\ TreeOK(ns) /\ DOMAIN ns = 1 .. Len(ns) /\ \A n \in DOMAIN ns \ StdNodes : ns[n].capacity = 0
  BY NodeFields DEF FreshTrees
<1>3. c \in CreateStates(ns)
  <2> HIDE DEF e
  <2>. QED
    BY <1>1, <1>2, CreateOK
<1> HIDE DEF c, e
<1> DEFINE m == c.ns
           at == c.at
<1>4. /\ m \in Seq(NodeType) /\ TreeOK(m) /\ Grows(ns, m) /\ at \in {Bad} \cup DOMAIN m
  BY <1>3 DEF CreateStates
<1>5. ns2 = [m EXCEPT ![at] = [m[at] EXCEPT !.size = e.size]]
  OBVIOUS
<1> HIDE DEF m, at, ns2
<1>6. DOMAIN m = 1 .. Len(m) /\ \A n \in DOMAIN m : m[n] \in NodeType
  BY <1>4, NodeFields
<1>7. \A n \in DOMAIN m \ StdNodes : m[n].capacity = 0
  BY <1>2, <1>4 DEF Grows
<1>8. ASSUME at \notin DOMAIN m PROVE ns2 \in FreshTrees
  <2>1. ns2 = m
    BY <1>4, <1>5, <1>8
  <2>. QED
    BY <2>1, <1>4, <1>7 DEF FreshTrees
<1>9. ASSUME at \in DOMAIN m PROVE ns2 \in FreshTrees
  <2>1. m[at] \in NodeType /\ m[at].capacity \in Nat
    BY <1>6, <1>9 DEF NodeType
  <2>2. [m[at] EXCEPT !.size = e.size, !.capacity = m[at].capacity] = [m[at] EXCEPT !.size = e.size]
    BY <2>1 DEF NodeType
  <2>3. Resizes(m, ns2, at, e.size, m[at].capacity)
    BY <2>2, <1>5 DEF Resizes
  <2>4. /\ TreeOK(ns2) /\ DOMAIN ns2 = DOMAIN m
        /\ ns2[at].capacity = m[at].capacity
        /\ \A p \in DOMAIN m : p # at => ns2[p] = m[p]
    BY <2>1, <2>3, <1>1, <1>4, <1>9, Resized
  <2>5. ns2 \in Seq(NodeType)
    BY <2>4 DEF TreeOK
  <2>6. \A n \in DOMAIN ns2 \ StdNodes : ns2[n].capacity = 0
    BY <2>4, <1>7
  <2>. QED
    BY <2>4, <2>5, <2>6 DEF FreshTrees
<1>10. ns2 \in FreshTrees
  BY <1>8, <1>9
<1>. QED
  BY <1>10 DEF ns2, m, at, c, e

(* Initramfs::init. *)
LEMMA UnpackedOK ==
  ASSUME NEW ns0 \in FreshTrees
  PROVE  Unpacked(ns0) \in FreshTrees
<1> DEFINE n == Len(Archive)
           S == FreshTrees
           St(i, ns) == LET c == Create(ns, Archive[i].path, Archive[i].dir, FALSE)
                        IN  [c.ns EXCEPT ![c.at].size = Archive[i].size]
           Body(f) == [i \in 0 .. n |->
                         IF i = 0 THEN ns0
                         ELSE LET c == Create(f[i - 1], Archive[i].path, Archive[i].dir, FALSE)
                              IN  [c.ns EXCEPT ![c.at].size = Archive[i].size]]
           step == [i \in 1 .. n |-> [v \in S |-> St(i, v)]]
<1>1. n \in Nat /\ DOMAIN Archive = 1 .. n
  <2>1. \A A : \A q \in Seq(A) : Len(q) \in Nat /\ DOMAIN q = 1 .. Len(q)
    OBVIOUS
  <2>. QED
    BY <2>1, FilesAssumption
<1>2. Unpacked(ns0) = (CHOOSE f : f = Body(f))[n]
  BY DEF Unpacked
<1>3. \A i \in 1 .. n : \A v \in S : St(i, v) \in S
  BY <1>1, UnpackStep
<1>4. ns0 \in S
  OBVIOUS
<1> HIDE DEF St, S, n
<1>5. step \in [1 .. n -> [S -> S]]
  BY <1>3
<1>6. PICK g : Iterates(g, S, ns0, n, step)
  <2> HIDE DEF step
  <2>. QED
    BY <1>1, <1>4, <1>5, Recursion
<1>7. g = Body(g)
  <2>0. g \in [0 .. n -> S] /\ g[0] = ns0 /\ \A i \in 1 .. n : g[i] = step[i][g[i - 1]]
    <3> HIDE DEF step
    <3>. QED
      BY <1>6 DEF Iterates
  <2>1. \A i \in 0 .. n : g[i] = IF i = 0 THEN ns0 ELSE St(i, g[i - 1])
    <3> TAKE i \in 0 .. n
    <3>1. CASE i = 0
      BY <3>1, <2>0
    <3>2. CASE i # 0
      <4>1. i \in 1 .. n /\ i - 1 \in 0 .. n
        BY <3>2, <1>1
      <4>2. g[i - 1] \in S
        BY <4>1, <2>0
      <4>3. step[i][g[i - 1]] = St(i, g[i - 1])
        BY <4>1, <4>2
      <4> HIDE DEF step
      <4>. QED
        BY <4>1, <4>3, <3>2, <2>0
    <3>. QED
      BY <3>1, <3>2
  <2>2. g = [i \in 0 .. n |-> IF i = 0 THEN ns0 ELSE St(i, g[i - 1])]
    BY <2>0, <2>1
  <2>. QED
    BY <2>2, Zenon DEF St
<1> DEFINE at == CHOOSE f : f = Body(f)
<1>8. at = Body(at)
  BY <1>7, Zenon
<1>9. \A i \in 0 .. n : at[i] = IF i = 0 THEN ns0 ELSE St(i, at[i - 1])
  BY <1>8, Zenon DEF St
<1> HIDE DEF at
<1> DEFINE G == {i \in 0 .. n : at[i] \in S}
<1>10. 0 \in G
  BY <1>1, <1>4, <1>9
<1>11. \A i \in 1 .. n : i - 1 \in G => i \in G
  <2> TAKE i \in 1 .. n
  <2>1. i \in 0 .. n /\ i # 0
    OBVIOUS
  <2>. QED
    BY <2>1, <1>3, <1>9
<1>12. n \in G
  <2> HIDE DEF G
  <2>1. \A i \in 0 .. n : i \in G
    BY <1>1, <1>10, <1>11, Upto
  <2>. QED
    BY <2>1, <1>1
<1>. QED
  BY <1>2, <1>12 DEF at, S

(* The root and the standard nodes. *)
LEMMA FirstNodes ==
  <<Node(NoName, TRUE, FALSE),
    [Node(NoName, FALSE, FALSE) EXCEPT !.size = MaxFile + 1, !.capacity = MaxFile + 1],
    Node(NoName, FALSE, FALSE), Node(NoName, FALSE, FALSE)>> \in FreshTrees
<1> DEFINE r == Node(NoName, TRUE, FALSE)
           f == Node(NoName, FALSE, FALSE)
           i == [f EXCEPT !.size = MaxFile + 1, !.capacity = MaxFile + 1]
           ns == <<r, i, f, f>>
<1>1. <<>> \in Seq(Nat) /\ NoName \in AnyName /\ MaxFile + 1 \in Nat
  BY FilesAssumption DEF AnyName
<1>2. r \in NodeType /\ r.children = <<>> /\ r.capacity = 0
  BY <1>1 DEF Node, NodeType
<1>3. f \in NodeType /\ f.children = <<>>
  BY <1>1 DEF Node, NodeType
<1>4. i \in NodeType /\ i.children = <<>>
  BY <1>1 DEF Node, NodeType
<1> HIDE DEF r, f, i
<1>5. ns \in Seq(NodeType) /\ Len(ns) = 4 /\ DOMAIN ns = 1 .. 4
  BY <1>2, <1>3, <1>4
<1>6. ns[1] = r /\ ns[2] = i /\ ns[3] = f /\ ns[4] = f /\ \A n \in 1 .. 4 : n \in {1, 2, 3, 4}
  OBVIOUS
<1> HIDE DEF ns
<1>7. \A n \in DOMAIN ns : ns[n].children = <<>>
  BY <1>2, <1>3, <1>4, <1>5, <1>6
<1>8. \A n \in DOMAIN ns \ StdNodes : ns[n].capacity = 0
  BY <1>2, <1>5, <1>6 DEF StdNodes
<1>9. \A n \in DOMAIN ns : DirOK(ns, n)
  <2> TAKE n \in DOMAIN ns
  <2>1. ns[n].children = <<>> /\ DOMAIN <<>> = {}
    BY <1>7
  <2>. QED
    BY <2>1 DEF DirOK
<1>10. TreeOK(ns)
  <2>1. \A p \in DOMAIN ns : DOMAIN ns[p].children = {}
    <3>1. DOMAIN <<>> = {}
      OBVIOUS
    <3>. QED
      BY <3>1, <1>7
  <2>2. 5 .. Len(ns) = {} /\ Len(ns) >= 4
    BY <1>5
  <2>. QED
    BY <2>1, <2>2, <1>5, <1>9 DEF TreeOK
<1>. QED
  BY <1>5, <1>8, <1>10 DEF FreshTrees, ns, r, f, i

(* A size_t: what fits is kept, and nothing grows. *)
LEMMA WrappedIs ==
  /\ \A x \in Int : Wrapped(x) \in Nat
  /\ \A x \in Nat : Wrapped(x) <= x /\ (x < SizeRange => Wrapped(x) = x)
<1>1. SizeRange \in Nat /\ SizeRange > 0
  BY FilesAssumption
<1>2. \A x \in Int, n \in Nat : n > 0 => x % n \in 0 .. n - 1
  OBVIOUS
<1>3. \A x, n \in Nat : n > 0 => x % n <= x /\ (x < n => x % n = x)
  OBVIOUS
<1>. QED
  BY <1>1, <1>2, <1>3 DEF Wrapped

(* The loop of Vfs::write: nothing comes of a capacity of 0, and any other *)
(* becomes enough for what there is memory for, without passing the range  *)
(* of a size_t.                                                            *)
LEMMA GrownIs ==
  ASSUME NEW capacity \in Nat, NEW needed \in Nat
  PROVE  /\ Grown(capacity, needed) \in Nat
         /\ capacity = 0 => Grown(capacity, needed) = 0
         /\ capacity > 0 /\ needed <= MaxFile => Grown(capacity, needed) >= needed
<1> DEFINE St(v) == IF v < needed THEN Wrapped(2 * v) ELSE v
           Body(f) == [i \in 0 .. needed |-> IF i = 0 THEN capacity
                                             ELSE IF f[i - 1] < needed THEN Wrapped(2 * f[i - 1]) ELSE f[i - 1]]
           step == [i \in 1 .. needed |-> [v \in Nat |-> St(v)]]
<1>1. Grown(capacity, needed) = (CHOOSE f : f = Body(f))[needed]
  BY DEF Grown
<1>2. \A v \in Nat : St(v) \in Nat
  BY WrappedIs
<1>0. /\ St(0) = 0
      /\ \A v \in Nat : needed <= MaxFile => St(v) = IF v < needed THEN 2 * v ELSE v
  <2>1. MaxFile \in Nat /\ SizeRange \in Nat /\ 2 * MaxFile <= SizeRange /\ 0 < SizeRange
    BY FilesAssumption
  <2>2. Wrapped(2 * 0) = 0
    BY <2>1, WrappedIs
  <2>3. ASSUME NEW v \in Nat, needed <= MaxFile, v < needed
        PROVE  Wrapped(2 * v) = 2 * v
    <3>1. 2 * v \in Nat /\ 2 * v < SizeRange
      BY <2>1, <2>3
    <3>. QED
      BY <3>1, WrappedIs
  <2>. QED
    BY <2>2, <2>3
<1> HIDE DEF St
<1>3. step \in [1 .. needed -> [Nat -> Nat]]
  BY <1>2
<1>4. PICK g : Iterates(g, Nat, capacity, needed, step)
  <2> HIDE DEF step
  <2>. QED
    BY <1>3, Recursion
<1>5. g = Body(g)
  <2>0. g \in [0 .. needed -> Nat] /\ g[0] = capacity /\ \A i \in 1 .. needed : g[i] = step[i][g[i - 1]]
    <3> HIDE DEF step
    <3>. QED
      BY <1>4 DEF Iterates
  <2>1. \A i \in 0 .. needed : g[i] = IF i = 0 THEN capacity ELSE St(g[i - 1])
    <3> TAKE i \in 0 .. needed
    <3>1. CASE i = 0
      BY <3>1, <2>0
    <3>2. CASE i # 0
      <4>1. i \in 1 .. needed /\ i - 1 \in 0 .. needed
        BY <3>2
      <4>2. g[i - 1] \in Nat
        BY <4>1, <2>0
      <4>3. step[i][g[i - 1]] = St(g[i - 1])
        BY <4>1, <4>2
      <4> HIDE DEF step
      <4>. QED
        BY <4>1, <4>3, <3>2, <2>0
    <3>. QED
      BY <3>1, <3>2
  <2>2. g = [i \in 0 .. needed |-> IF i = 0 THEN capacity ELSE St(g[i - 1])]
    BY <2>0, <2>1
  <2>. QED
    BY <2>2, Zenon DEF St
<1> DEFINE at == CHOOSE f : f = Body(f)
<1>6. at = Body(at)
  BY <1>5, Zenon
<1>7. \A i \in 0 .. needed : at[i] = IF i = 0 THEN capacity ELSE St(at[i - 1])
  BY <1>6, Zenon DEF St
<1> HIDE DEF at
<1> DEFINE Far(v, i) == /\ v \in Nat /\ (capacity = 0 => v = 0)
                        /\ (capacity > 0 /\ needed <= MaxFile) => (v >= needed \/ v >= i + 1)
           G == {i \in 0 .. needed : Far(at[i], i)}
<1>8. 0 \in G
  <2>1. 0 \in 0 .. needed /\ at[0] = capacity
    BY <1>7
  <2>2. Far(capacity, 0)
    OBVIOUS
  <2> HIDE DEF Far
  <2>. QED
    BY <2>1, <2>2
<1>9. \A i \in 1 .. needed : i - 1 \in G => i \in G
  <2> TAKE i \in 1 .. needed
  <2>1. i \in 0 .. needed /\ i # 0
    OBVIOUS
  <2>2. at[i] = St(at[i - 1])
    BY <2>1, <1>7
  <2>3. ASSUME NEW v, Far(v, i - 1) PROVE Far(St(v), i)
    <3>1. v \in Nat /\ (capacity = 0 => v = 0)
      BY <2>3
    <3>2. (capacity > 0 /\ needed <= MaxFile) => (v >= needed \/ v >= (i - 1) + 1)
      BY <2>3
    <3>3. needed <= MaxFile => St(v) = IF v < needed THEN 2 * v ELSE v
      BY <3>1, <1>0
    <3>4. St(v) \in Nat /\ (capacity = 0 => St(v) = 0)
      BY <3>1, <1>0, <1>2
    <3>5. (capacity > 0 /\ needed <= MaxFile) => (St(v) >= needed \/ St(v) >= i + 1)
      BY <2>1, <3>1, <3>2, <3>3
    <3>. QED
      BY <3>4, <3>5
  <2> HIDE DEF Far
  <2>. QED
    BY <2>1, <2>2, <2>3
<1>10. needed \in G
  <2> HIDE DEF G
  <2>1. \A i \in 0 .. needed : i \in G
    BY <1>8, <1>9, Upto
  <2>. QED
    BY <2>1
<1>11. Far(at[needed], needed)
  <2> HIDE DEF Far
  <2>. QED
    BY <1>10
<1>12. Grown(capacity, needed) = at[needed]
  BY <1>1 DEF at
<1> HIDE DEF G
<1>. QED
  BY <1>11, <1>12

-----------------------------------------------------------------------------
DescType == [alive : BOOLEAN, id : Nat, node : Nat, mode : {"r", "w", "rw"}, pos : Nat,
             todo : SUBSET Nat]

DescOK ==
  /\ desc \in Seq(DescType) /\ Len(desc) >= 3
  /\ \A d \in DOMAIN desc : desc[d].node \in DOMAIN nodes /\ desc[d].todo \subseteq DOMAIN nodes

(* As long as only the newest handles are closed, the chain of a task is   *)
(* the set of its open descriptors.                                        *)
ListsOK ==
  /\ DOMAIN handles = Tasks /\ DOMAIN open = Tasks
  /\ \A t \in Tasks : \E S : IsList(handles[t], S, Len(desc)) /\ (newestOnly => S = open[t])

(* An id is given out once by a task, and tasks share the standard         *)
(* descriptors only.                                                       *)
IdsOK ==
  /\ newestOnly \in BOOLEAN /\ next_id \in [Tasks -> Nat] /\ sockets \in [Tasks -> SUBSET Nat]
  /\ newestOnly => /\ stop # "list"
                   /\ \A t \in Tasks : \A x \in sockets[t] : x < next_id[t]
                   /\ \A t \in Tasks : \A d \in open[t] :
                        /\ d \in DOMAIN desc /\ desc[d].alive
                        /\ desc[d].id < next_id[t] /\ desc[d].id \notin sockets[t]
                   /\ \A t \in Tasks : \A d, e \in open[t] : desc[d].id = desc[e].id => d = e
                   /\ \A t, u \in Tasks : \A d : d \in open[t] /\ d \in open[u] => t = u \/ d <= 3

(* The inductive invariant. *)
FilesInv ==
  /\ load \in Workloads /\ TreeOK(nodes) /\ InCapacity
  /\ DescOK /\ ListingMissesNothing /\ ListsOK /\ IdsOK

(* A sequence with one element replaced. *)
LEMMA SeqExcept ==
  ASSUME NEW T, NEW s, s \in Seq(T), NEW i \in DOMAIN s, NEW r, r \in T,
         NEW s2, s2 = [s EXCEPT ![i] = r]
  PROVE  /\ s2 \in Seq(T) /\ Len(s2) = Len(s) /\ DOMAIN s2 = DOMAIN s
         /\ s2[i] = r /\ \A j \in DOMAIN s : j # i => s2[j] = s[j]
OBVIOUS

(* The fields of the descriptors. *)
LEMMA DescFields ==
  ASSUME DescOK
  PROVE  /\ Len(desc) \in Nat /\ DOMAIN desc = 1 .. Len(desc)
         /\ \A d \in DOMAIN desc :
              /\ desc[d] \in DescType /\ desc[d].alive \in BOOLEAN /\ desc[d].id \in Nat
              /\ desc[d].node \in DOMAIN nodes /\ desc[d].pos \in Nat
              /\ desc[d].todo \in SUBSET Nat /\ desc[d].todo \subseteq DOMAIN nodes
<1>1. desc \in Seq(DescType) /\ \A d \in DOMAIN desc : desc[d].node \in DOMAIN nodes /\ desc[d].todo \subseteq DOMAIN nodes
  BY DEF DescOK
<1>2. Len(desc) \in Nat /\ DOMAIN desc = 1 .. Len(desc) /\ \A d \in DOMAIN desc : desc[d] \in DescType
  BY <1>1
<1>3. \A r \in DescType : r.alive \in BOOLEAN /\ r.id \in Nat /\ r.pos \in Nat /\ r.todo \in SUBSET Nat
  BY DEF DescType
<1>. QED
  BY <1>1, <1>2, <1>3

(* What a workload consists of. *)
LEMMA LoadFacts ==
  ASSUME load \in Workloads
  PROVE  /\ load.tasks \subseteq Tasks /\ load.offsets \subseteq Int
         /\ load.paths \subseteq PathType /\ load.modes \subseteq {"r", "w", "rw"}
BY FilesAssumption DEF PathType

(* A lookup finds one of the descriptors of the task; it meets freed       *)
(* memory only after another than the newest handle was closed.            *)
LEMMA HandleIs ==
  ASSUME FilesInv, NEW t \in Tasks, NEW id
  PROVE  /\ GetFileHandle(t, id) \in {Nil, Bad} \cup DOMAIN desc
         /\ newestOnly => GetFileHandle(t, id) \in {Nil} \cup open[t]
         /\ \E S : /\ IsList(handles[t], S, Len(desc)) /\ (newestOnly => S = open[t])
                   /\ GetFileHandle(t, id) \in {Nil, Bad} \cup S
<1>1. PICK S : IsList(handles[t], S, Len(desc)) /\ (newestOnly => S = open[t])
  BY DEF FilesInv, ListsOK
<1>2. DescOK /\ IdsOK
  BY DEF FilesInv
<1>3. DOMAIN desc = 1 .. Len(desc)
  BY <1>2, DescFields
<1>4. S \subseteq DOMAIN desc
  BY <1>1, <1>3, ListFacts
<1> DEFINE readable == {d \in DOMAIN desc : desc[d].alive}
           wanted == {d \in DOMAIN desc : desc[d].id = id}
           f == Find(handles[t], readable, wanted)
<1>5. GetFileHandle(t, id) = f
  BY DEF GetFileHandle
<1>6. newestOnly => S \subseteq readable
  BY <1>1, <1>2 DEF IdsOK
<1> HIDE DEF readable, wanted
<1>7. f \in {Nil, Bad} \cup S /\ (S \subseteq readable => f # Bad)
  BY <1>1, ListFind
<1> HIDE DEF f
<1>. QED
  BY <1>1, <1>4, <1>5, <1>6, <1>7

(* Steps that change at most the working directory and stop. *)
LEMMA StopsOK ==
  ASSUME FilesInv, UNCHANGED <<load, nodes, desc, handles, sockets, next_id, open, newestOnly>>,
         stop' = "list" => ~newestOnly
  PROVE  FilesInv'
<1>1. TreeOK(nodes)' /\ InCapacity' /\ load' \in Workloads
  BY DEF FilesInv, InCapacity
<1>2. DescOK'
  BY DEF FilesInv, DescOK
<1>3. ListingMissesNothing'
  BY DEF FilesInv, ListingMissesNothing
<1>4. ListsOK'
  BY DEF FilesInv, ListsOK
<1>5. IdsOK'
  BY DEF FilesInv, IdsOK
<1>. QED
  BY <1>1, <1>2, <1>3, <1>4, <1>5 DEF FilesInv

(* A descriptor moves, and no entry it has still to return is lost. *)
LEMMA MovesOK ==
  ASSUME FilesInv, NEW d \in DOMAIN desc, NEW pos \in Nat, NEW todo \in SUBSET desc[d].todo,
         desc' = [desc EXCEPT ![d].pos = pos, ![d].todo = todo],
         UNCHANGED <<load, nodes, handles, sockets, next_id, open, newestOnly, stop>>,
         \A n \in todo : Hash[nodes[n].name] # 0 =>
           \E i \in Counted(nodes, desc[d].node) :
             nodes[desc[d].node].children[i] = n /\ Count(nodes, desc[d].node, i) >= pos
  PROVE  FilesInv'
<1>0. DescOK /\ ListingMissesNothing /\ ListsOK /\ IdsOK
  BY DEF FilesInv
<1>1. /\ desc[d] \in DescType /\ desc[d].todo \in SUBSET Nat /\ desc[d].todo \subseteq DOMAIN nodes
      /\ desc[d].node \in DOMAIN nodes /\ DOMAIN desc = 1 .. Len(desc) /\ Len(desc) \in Nat
  BY <1>0, DescFields
<1> DEFINE r == [desc[d] EXCEPT !.pos = pos, !.todo = todo]
<1>2. desc' = [desc EXCEPT ![d] = r]
  BY <1>1
<1>3. /\ r \in DescType /\ r.alive = desc[d].alive /\ r.id = desc[d].id /\ r.node = desc[d].node
      /\ r.pos = pos /\ r.todo = todo
  BY <1>1 DEF DescType
<1> HIDE DEF r
<1>4. /\ desc' \in Seq(DescType) /\ Len(desc') = Len(desc) /\ DOMAIN desc' = DOMAIN desc
      /\ desc'[d] = r /\ \A e \in DOMAIN desc : e # d => desc'[e] = desc[e]
  <2>1. desc \in Seq(DescType)
    BY <1>0 DEF DescOK
  <2>2. r \in DescType
    BY <1>3
  <2>3. PICK dd : dd = desc'
    OBVIOUS
  <2>4. dd = [desc EXCEPT ![d] = r]
    BY <2>3, <1>2, Zenon
  <2>5. /\ dd \in Seq(DescType) /\ Len(dd) = Len(desc) /\ DOMAIN dd = DOMAIN desc
        /\ dd[d] = r /\ \A e \in DOMAIN desc : e # d => dd[e] = desc[e]
    BY <2>1, <2>2, <2>4, SeqExcept
  <2>. QED
    BY <2>3, <2>5
<1>5. \A e \in DOMAIN desc : desc'[e].alive = desc[e].alive /\ desc'[e].id = desc[e].id /\ desc'[e].node = desc[e].node
  BY <1>3, <1>4
<1>6. TreeOK(nodes)' /\ InCapacity' /\ load' \in Workloads
  BY DEF FilesInv, InCapacity
<1>7. DescOK'
  <2>1. \A e \in DOMAIN desc : desc'[e].node \in DOMAIN nodes /\ desc'[e].todo \subseteq DOMAIN nodes
    <3> TAKE e \in DOMAIN desc
    <3>1. CASE e = d
      BY <3>1, <1>1, <1>3, <1>4
    <3>2. CASE e # d
      BY <3>2, <1>0, <1>4 DEF DescOK
    <3>. QED
      BY <3>1, <3>2
  <2>2. Len(desc') >= 3
    BY <1>0, <1>4 DEF DescOK
  <2>. QED
    BY <2>1, <2>2, <1>4 DEF DescOK
<1>8. ListingMissesNothing'
  <2>1. ASSUME NEW e \in DOMAIN desc, NEW n \in desc'[e].todo, Hash[nodes[n].name] # 0
        PROVE  \E i \in Counted(nodes, desc'[e].node) :
                 nodes[desc'[e].node].children[i] = n /\ Count(nodes, desc'[e].node, i) >= desc'[e].pos
    <3>1. CASE e = d
      <4>1. desc'[e].node = desc[d].node /\ desc'[e].pos = pos /\ desc'[e].todo = todo
        BY <3>1, <1>3, <1>4
      <4>. QED
        BY <4>1, <2>1
    <3>2. CASE e # d
      <4>1. desc'[e] = desc[e]
        BY <3>2, <1>4
      <4>. QED
        BY <4>1, <2>1, <1>0 DEF ListingMissesNothing
    <3>. QED
      BY <3>1, <3>2
  <2>2. DOMAIN desc' = DOMAIN desc /\ nodes' = nodes
    BY <1>4
  <2>. QED
    BY <2>1, <2>2 DEF ListingMissesNothing
<1>9. ListsOK'
  BY <1>0, <1>4 DEF ListsOK
<1>10. IdsOK'
  BY <1>0, <1>4, <1>5 DEF IdsOK
<1>. QED
  BY <1>6, <1>7, <1>8, <1>9, <1>10 DEF FilesInv

(* A file has no entries to return. *)
LEMMA FileHasNoEntries ==
  ASSUME FilesInv, NEW d \in DOMAIN desc, ~nodes[desc[d].node].dir
  PROVE  \A n \in desc[d].todo : Hash[nodes[n].name] = 0
<1> SUFFICES ASSUME NEW n \in desc[d].todo, Hash[nodes[n].name] # 0 PROVE FALSE
  OBVIOUS
<1> DEFINE p == desc[d].node
<1>1. p \in DOMAIN nodes /\ TreeOK(nodes)
  BY DescFields DEF FilesInv
<1>2. nodes[p].children = <<>>
  BY <1>1 DEF TreeOK, DirOK
<1>3. PICK i \in Counted(nodes, p) : TRUE
  BY DEF FilesInv, ListingMissesNothing
<1>4. i \in DOMAIN nodes[p].children
  BY <1>3 DEF Counted
<1>. QED
  BY <1>2, <1>4

(* A sequence with one more element. *)
LEMMA AppendIs ==
  ASSUME NEW T, NEW s, s \in Seq(T), NEW r, r \in T, NEW s2, s2 = Append(s, r)
  PROVE  /\ s2 \in Seq(T) /\ Len(s2) = Len(s) + 1 /\ DOMAIN s2 = 1 .. Len(s) + 1
         /\ s2[Len(s) + 1] = r /\ \A j \in DOMAIN s : s2[j] = s[j]
OBVIOUS

(* Task::add_file_handle: the new id and descriptor are in use nowhere     *)
(* else.                                                                   *)
LEMMA AddFileHandleOK ==
  ASSUME FilesInv, UNCHANGED load, NEW t \in Tasks, NEW n \in DOMAIN nodes,
         NEW mode \in {"r", "w", "rw"}, AddFileHandle(t, n, mode)
  PROVE  FilesInv'
<1>0. /\ load \in Workloads /\ TreeOK(nodes) /\ InCapacity
      /\ DescOK /\ ListingMissesNothing /\ ListsOK /\ IdsOK
  BY DEF FilesInv
<1>1. /\ Len(desc) \in Nat /\ DOMAIN desc = 1 .. Len(desc) /\ desc \in Seq(DescType) /\ Len(desc) >= 3
      /\ nodes \in Seq(NodeType)
  BY <1>0, DescFields DEF DescOK, TreeOK
<1> DEFINE new == NewDesc(n, mode, next_id[t])
           s == nodes[n].children
           kids == {s[i] : i \in DOMAIN s}
           d == Len(desc) + 1
<1>2. next_id[t] \in Nat
  BY <1>0 DEF IdsOK
<1>3. kids \subseteq DOMAIN nodes /\ kids \in SUBSET Nat
  <2>1. \A i \in DOMAIN s : s[i] \in 5 .. Len(nodes)
    BY <1>0 DEF TreeOK, DirOK
  <2>2. DOMAIN nodes = 1 .. Len(nodes)
    BY <1>1, NodeFields
  <2>3. 5 .. Len(nodes) \subseteq DOMAIN nodes /\ DOMAIN nodes \subseteq Nat
    BY <2>2
  <2> HIDE DEF s
  <2>. QED
    BY <2>1, <2>3
<1>4. n \in Nat
  BY <1>1, NodeFields
<1>5. /\ new \in DescType /\ new.alive = TRUE /\ new.id = next_id[t] /\ new.node = n
      /\ new.pos = 0 /\ new.todo = kids
  <2>1. new = [alive |-> TRUE, id |-> next_id[t], node |-> n, mode |-> mode, pos |-> 0, todo |-> kids]
    BY DEF NewDesc
  <2> HIDE DEF new, kids
  <2>. QED
    BY <2>1, <1>2, <1>3, <1>4 DEF DescType
<1> HIDE DEF new
<1>6. /\ desc' \in Seq(DescType) /\ Len(desc') = d /\ DOMAIN desc' = 1 .. d
      /\ desc'[d] = new /\ \A j \in DOMAIN desc : desc'[j] = desc[j]
  <2>1. PICK dd : dd = desc'
    OBVIOUS
  <2>2. dd = Append(desc, new)
    BY <2>1 DEF AddFileHandle, new
  <2>3. new \in DescType
    BY <1>5
  <2>4. /\ dd \in Seq(DescType) /\ Len(dd) = d /\ DOMAIN dd = 1 .. d
        /\ dd[d] = new /\ \A j \in DOMAIN desc : dd[j] = desc[j]
    BY <2>2, <2>3, <1>1, AppendIs
  <2>. QED
    BY <2>1, <2>4
<1>7. /\ handles' = [handles EXCEPT ![t] = Push(handles[t], d)]
      /\ open' = [open EXCEPT ![t] = open[t] \cup {d}]
      /\ next_id' = [next_id EXCEPT ![t] = next_id[t] + 1]
      /\ nodes' = nodes /\ sockets' = sockets /\ newestOnly' = newestOnly /\ stop' = stop
  BY DEF AddFileHandle
<1>8. d \in Nat /\ d \notin DOMAIN desc /\ d > 3 /\ DOMAIN desc \subseteq 1 .. d /\ \A j \in 1 .. d : j = d \/ j \in DOMAIN desc
  BY <1>1
<1>9. TreeOK(nodes)' /\ InCapacity' /\ load' \in Workloads
  BY <1>0, <1>7 DEF InCapacity
<1>10. DescOK'
  <2>1. ASSUME NEW j \in DOMAIN desc'
        PROVE  desc'[j].node \in DOMAIN nodes /\ desc'[j].todo \subseteq DOMAIN nodes
    <3>1. CASE j = d
      BY <3>1, <1>3, <1>5, <1>6
    <3>2. CASE j # d
      <4>1. j \in DOMAIN desc /\ desc'[j] = desc[j]
        BY <3>2, <1>6, <1>8
      <4>. QED
        BY <4>1, <1>0 DEF DescOK
    <3>. QED
      BY <3>1, <3>2
  <2>2. Len(desc') >= 3
    BY <1>1, <1>6
  <2>. QED
    BY <2>1, <2>2, <1>6, <1>7 DEF DescOK
<1>11. ListingMissesNothing'
  <2>1. ASSUME NEW e \in DOMAIN desc', NEW x \in desc'[e].todo, Hash[nodes[x].name] # 0
        PROVE  \E i \in Counted(nodes, desc'[e].node) :
                 nodes[desc'[e].node].children[i] = x /\ Count(nodes, desc'[e].node, i) >= desc'[e].pos
    <3>1. CASE e = d
      <4>1. desc'[e].node = n /\ desc'[e].pos = 0 /\ desc'[e].todo = kids
        BY <3>1, <1>5, <1>6
      <4>2. PICK i \in DOMAIN s : s[i] = x
        BY <4>1, <2>1
      <4>3. i \in Counted(nodes, n)
        BY <4>2, <2>1 DEF Counted
      <4>4. Count(nodes, n, i) \in Nat
        BY <1>1, CountIs
      <4>5. Count(nodes, n, i) >= 0
        BY <4>4
      <4>. QED
        BY <4>1, <4>2, <4>3, <4>5
    <3>2. CASE e # d
      <4>1. e \in DOMAIN desc /\ desc'[e] = desc[e]
        BY <3>2, <1>6, <1>8
      <4>. QED
        BY <4>1, <2>1, <1>0 DEF ListingMissesNothing
    <3>. QED
      BY <3>1, <3>2
  <2>. QED
    BY <2>1, <1>7 DEF ListingMissesNothing
<1>12. ListsOK'
  <2>1. DOMAIN handles = Tasks /\ DOMAIN open = Tasks
    BY <1>0 DEF ListsOK
  <2>2. DOMAIN handles' = Tasks /\ DOMAIN open' = Tasks
    BY <2>1, <1>7
  <2>3. ASSUME NEW u \in Tasks
        PROVE  \E S : IsList(handles'[u], S, Len(desc')) /\ (newestOnly' => S = open'[u])
    <3>1. PICK S : IsList(handles[u], S, Len(desc)) /\ (newestOnly => S = open[u])
      BY <1>0 DEF ListsOK
    <3>2. IsList(Push(handles[u], d), S \cup {d}, d) /\ IsList(handles[u], S, d)
      BY <3>1, ListPush
    <3>3. CASE u = t
      <4>1. handles'[u] = Push(handles[u], d) /\ open'[u] = open[u] \cup {d}
        BY <3>3, <2>1, <1>7
      <4>2. IsList(handles'[u], S \cup {d}, Len(desc')) /\ (newestOnly' => S \cup {d} = open'[u])
        BY <4>1, <3>1, <3>2, <1>6, <1>7
      <4>. QED
        BY <4>2
    <3>4. CASE u # t
      <4>1. handles'[u] = handles[u] /\ open'[u] = open[u]
        BY <3>4, <2>1, <1>7
      <4>. QED
        BY <4>1, <3>1, <3>2, <1>6, <1>7
    <3>. QED
      BY <3>3, <3>4
  <2>. QED
    BY <2>2, <2>3 DEF ListsOK
<1>13. IdsOK'
  <2>1. /\ newestOnly \in BOOLEAN /\ next_id \in [Tasks -> Nat] /\ sockets \in [Tasks -> SUBSET Nat]
        /\ DOMAIN open = Tasks
    BY <1>0 DEF IdsOK, ListsOK
  <2>2. next_id' \in [Tasks -> Nat] /\ \A u \in Tasks : next_id'[u] = IF u = t THEN next_id[t] + 1 ELSE next_id[u]
    BY <2>1, <1>7
  <2>3. \A u \in Tasks : open'[u] = IF u = t THEN open[t] \cup {d} ELSE open[u]
    BY <2>1, <1>7
  <2>4. SUFFICES ASSUME newestOnly
        PROVE  /\ stop # "list"
               /\ \A u \in Tasks : \A x \in sockets[u] : x < next_id'[u]
               /\ \A u \in Tasks : \A e \in open'[u] :
                    /\ e \in DOMAIN desc' /\ desc'[e].alive
                    /\ desc'[e].id < next_id'[u] /\ desc'[e].id \notin sockets[u]
               /\ \A u \in Tasks : \A e, f \in open'[u] : desc'[e].id = desc'[f].id => e = f
               /\ \A u, w \in Tasks : \A e : e \in open'[u] /\ e \in open'[w] => u = w \/ e <= 3
    BY <2>1, <2>2, <1>7 DEF IdsOK
  <2>5. /\ stop # "list"
        /\ \A u \in Tasks : \A x \in sockets[u] : x < next_id[u]
        /\ \A u \in Tasks : \A e \in open[u] :
             /\ e \in DOMAIN desc /\ desc[e].alive
             /\ desc[e].id < next_id[u] /\ desc[e].id \notin sockets[u]
        /\ \A u \in Tasks : \A e, f \in open[u] : desc[e].id = desc[f].id => e = f
        /\ \A u, w \in Tasks : \A e : e \in open[u] /\ e \in open[w] => u = w \/ e <= 3
    BY <2>4, <1>0 DEF IdsOK
  <2>6. \A u \in Tasks : next_id[u] \in Nat /\ next_id[u] <= next_id'[u] /\ next_id'[u] \in Nat /\ next_id'[t] = next_id[t] + 1
    BY <2>1, <2>2
  <2>7. \A u \in Tasks : \A x \in sockets[u] : x \in Nat /\ x < next_id'[u]
    BY <2>1, <2>5, <2>6
  <2>8. d \in DOMAIN desc' /\ desc'[d].alive /\ desc'[d].id = next_id[t] /\ next_id[t] \notin sockets[t]
    <3>1. next_id[t] \notin sockets[t]
      BY <2>5, <1>2
    <3>. QED
      BY <3>1, <1>5, <1>6, <1>8
  <2>9. \A u \in Tasks : \A e \in open[u] :
          /\ e \in DOMAIN desc /\ e \in DOMAIN desc' /\ e # d /\ desc'[e] = desc[e]
          /\ desc[e].id \in Nat
    BY <2>5, <1>0, <1>6, <1>8, DescFields
  <2>10. ASSUME NEW u \in Tasks, NEW e \in open'[u]
         PROVE  /\ e \in DOMAIN desc' /\ desc'[e].alive
                /\ desc'[e].id < next_id'[u] /\ desc'[e].id \notin sockets[u]
    <3>1. CASE e \in open[u]
      <4>1. desc'[e] = desc[e] /\ e \in DOMAIN desc' /\ desc[e].id \in Nat
        BY <3>1, <2>9
      <4>2. desc[e].alive /\ desc[e].id < next_id[u] /\ desc[e].id \notin sockets[u]
        BY <3>1, <2>5
      <4>3. desc[e].id < next_id'[u]
        BY <4>1, <4>2, <2>6
      <4>. QED
        BY <4>1, <4>2, <4>3
    <3>2. CASE e \notin open[u]
      <4>1. u = t /\ e = d
        BY <3>2, <2>3
      <4>2. next_id[t] < next_id'[t]
        BY <2>6, <1>2
      <4>. QED
        BY <4>1, <4>2, <2>8
    <3>. QED
      BY <3>1, <3>2
  <2>11. ASSUME NEW u \in Tasks, NEW e \in open'[u], NEW f \in open'[u], desc'[e].id = desc'[f].id
         PROVE  e = f
    <3>1. \A x \in open[u] : u = t => desc'[x].id # desc'[d].id
      <4> TAKE x \in open[u]
      <4> HAVE u = t
      <4>1. desc'[x].id \in Nat /\ desc'[x].id < next_id[t]
        BY <2>5, <2>9
      <4>. QED
        BY <4>1, <2>8, <1>2
    <3>2. (e \in open[u] \/ (u = t /\ e = d)) /\ (f \in open[u] \/ (u = t /\ f = d))
      BY <2>3
    <3>3. CASE e \in open[u] /\ f \in open[u]
      BY <3>3, <2>5, <2>9, <2>11
    <3>4. CASE ~(e \in open[u] /\ f \in open[u])
      BY <3>1, <3>2, <3>4, <2>11
    <3>. QED
      BY <3>3, <3>4
  <2>12. ASSUME NEW u \in Tasks, NEW w \in Tasks, NEW e, e \in open'[u], e \in open'[w]
         PROVE  u = w \/ e <= 3
    <3>1. (e \in open[u] \/ (u = t /\ e = d)) /\ (e \in open[w] \/ (w = t /\ e = d))
      BY <2>3, <2>12
    <3>2. \A x \in Tasks : d \notin open[x]
      BY <2>9
    <3>. QED
      BY <3>1, <3>2, <2>5
  <2>. QED
    BY <2>5, <2>7, <2>10, <2>11, <2>12
<1>. QED
  BY <1>9, <1>10, <1>11, <1>12, <1>13 DEF FilesInv

(* sys_close: of the newest handle, of another, and where it follows a     *)
(* dangling pointer.                                                       *)
LEMMA SysCloseOK ==
  ASSUME FilesInv, UNCHANGED load, NEW t \in Tasks, NEW id, SysClose(t, id)
  PROVE  FilesInv'
<1> DEFINE d == GetFileHandle(t, id)
<1>0. /\ load \in Workloads /\ TreeOK(nodes) /\ InCapacity
      /\ DescOK /\ ListingMissesNothing /\ ListsOK /\ IdsOK
  BY DEF FilesInv
<1>1. PICK S : IsList(handles[t], S, Len(desc)) /\ (newestOnly => S = open[t]) /\ d \in {Nil, Bad} \cup S
  BY HandleIs
<1>2. d \in S /\ d \in DOMAIN desc
  <2>1. d \notin {Nil, Bad}
    BY DEF SysClose
  <2>. QED
    BY <2>1, <1>1, HandleIs
<1>3. /\ newestOnly' = (newestOnly /\ d = handles[t].head /\ d > 3)
      /\ nodes' = nodes /\ sockets' = sockets /\ next_id' = next_id
      /\ IF ~RemoveIsSafe(handles[t], d)
           THEN stop' = "list" /\ handles' = handles /\ desc' = desc /\ open' = open
           ELSE /\ handles' = [handles EXCEPT ![t] = Remove(handles[t], d)]
                /\ desc' = [desc EXCEPT ![d].alive = FALSE, ![d].todo = {}, ![d].pos = 0]
                /\ open' = [open EXCEPT ![t] = open[t] \ {d}]
                /\ stop' = stop
  BY DEF SysClose
<1> HIDE DEF d
<1>4. d = handles[t].head => RemoveIsSafe(handles[t], d) /\ IsList(Remove(handles[t], d), S \ {d}, Len(desc))
  BY <1>1, <1>2, ListRemoveNewest
<1>5. newestOnly \in BOOLEAN /\ newestOnly' \in BOOLEAN
  BY <1>0, <1>3 DEF IdsOK
<1>6. TreeOK(nodes)' /\ InCapacity' /\ load' \in Workloads
  BY <1>0, <1>3 DEF InCapacity
<1>7. CASE ~RemoveIsSafe(handles[t], d)
  <2>1. stop' = "list" /\ handles' = handles /\ desc' = desc /\ open' = open /\ newestOnly' = FALSE
    BY <1>3, <1>4, <1>7
  <2>2. DescOK'
    BY <2>1, <1>0, <1>3 DEF DescOK
  <2>3. ListingMissesNothing'
    BY <2>1, <1>0, <1>3 DEF ListingMissesNothing
  <2>4. ListsOK'
    BY <2>1, <1>0, <1>3 DEF ListsOK
  <2>5. IdsOK'
    BY <2>1, <1>0, <1>3 DEF IdsOK
  <2>. QED
    BY <2>2, <2>3, <2>4, <2>5, <1>6 DEF FilesInv
<1>8. CASE RemoveIsSafe(handles[t], d)
  <2> DEFINE r == [desc[d] EXCEPT !.alive = FALSE, !.todo = {}, !.pos = 0]
  <2>1. /\ handles' = [handles EXCEPT ![t] = Remove(handles[t], d)]
        /\ open' = [open EXCEPT ![t] = open[t] \ {d}] /\ stop' = stop
    BY <1>3, <1>8
  <2>2. desc[d] \in DescType /\ desc[d].node \in DOMAIN nodes
    BY <1>0, <1>2, DescFields
  <2>3. /\ r \in DescType /\ r.todo = {} /\ r.id = desc[d].id /\ r.node = desc[d].node
    BY <2>2 DEF DescType
  <2>4. /\ desc' \in Seq(DescType) /\ Len(desc') = Len(desc) /\ DOMAIN desc' = DOMAIN desc
        /\ desc'[d] = r /\ \A e \in DOMAIN desc : e # d => desc'[e] = desc[e]
    <3>1. desc \in Seq(DescType)
      BY <1>0 DEF DescOK
    <3>2. PICK dd : dd = desc'
      OBVIOUS
    <3>3. desc' = [desc EXCEPT ![d].alive = FALSE, ![d].todo = {}, ![d].pos = 0]
      BY <1>3, <1>8, Zenon
    <3>4. desc' = [desc EXCEPT ![d] = r]
      BY <3>3, <1>2
    <3> HIDE DEF r
    <3>5. dd = [desc EXCEPT ![d] = r]
      BY <3>2, <3>4, Zenon
    <3>6. /\ dd \in Seq(DescType) /\ Len(dd) = Len(desc) /\ DOMAIN dd = DOMAIN desc
          /\ dd[d] = r /\ \A e \in DOMAIN desc : e # d => dd[e] = desc[e]
      BY <3>1, <3>5, <2>3, <1>2, SeqExcept
    <3>. QED
      BY <3>2, <3>6
  <2> HIDE DEF r
  <2>5. DescOK'
    <3>1. ASSUME NEW e \in DOMAIN desc
          PROVE  desc'[e].node \in DOMAIN nodes /\ desc'[e].todo \subseteq DOMAIN nodes
      <4>1. CASE e = d
        BY <4>1, <2>2, <2>3, <2>4
      <4>2. CASE e # d
        BY <4>2, <2>4, <1>0 DEF DescOK
      <4>. QED
        BY <4>1, <4>2
    <3>2. Len(desc') >= 3
      BY <2>4, <1>0 DEF DescOK
    <3>. QED
      BY <3>1, <3>2, <2>4, <1>3 DEF DescOK
  <2>6. ListingMissesNothing'
    <3>1. ASSUME NEW e \in DOMAIN desc, NEW n \in desc'[e].todo, Hash[nodes[n].name] # 0
          PROVE  \E i \in Counted(nodes, desc'[e].node) :
                   nodes[desc'[e].node].children[i] = n /\ Count(nodes, desc'[e].node, i) >= desc'[e].pos
      <4>1. e # d
        BY <3>1, <2>3, <2>4
      <4>2. desc'[e] = desc[e]
        BY <4>1, <2>4
      <4>. QED
        BY <4>2, <3>1, <1>0 DEF ListingMissesNothing
    <3>2. DOMAIN desc' = DOMAIN desc /\ nodes' = nodes
      BY <2>4, <1>3
    <3>. QED
      BY <3>1, <3>2 DEF ListingMissesNothing
  <2>7. ListsOK'
    <3>1. DOMAIN handles = Tasks /\ DOMAIN open = Tasks
      BY <1>0 DEF ListsOK
    <3>2. DOMAIN handles' = Tasks /\ DOMAIN open' = Tasks
      BY <3>1, <2>1
    <3>3. ASSUME NEW u \in Tasks
          PROVE  \E Q : IsList(handles'[u], Q, Len(desc')) /\ (newestOnly' => Q = open'[u])
      <4>1. CASE u # t
        <5>1. handles'[u] = handles[u] /\ open'[u] = open[u] /\ (newestOnly' => newestOnly)
          BY <4>1, <3>1, <2>1, <1>3
        <5>. QED
          BY <5>1, <2>4, <1>0 DEF ListsOK
      <4>2. CASE u = t /\ newestOnly'
        <5>1. handles'[u] = Remove(handles[t], d) /\ open'[u] = open[t] \ {d} /\ d = handles[t].head /\ newestOnly
          BY <4>2, <3>1, <2>1, <1>3
        <5>2. IsList(handles'[u], S \ {d}, Len(desc')) /\ S \ {d} = open'[u]
          BY <5>1, <2>4, <1>1, <1>4
        <5>. QED
          BY <5>2
      <4>3. CASE u = t /\ ~newestOnly'
        <5>1. handles'[u] = Remove(handles[t], d)
          BY <4>3, <3>1, <2>1
        <5>2. PICK Q : IsList(Remove(handles[t], d), Q, Len(desc))
          BY <1>1, <1>2, <1>8, ListRemove
        <5>. QED
          BY <5>1, <5>2, <4>3, <2>4
      <4>. QED
        BY <4>1, <4>2, <4>3, <1>5
    <3>. QED
      BY <3>2, <3>3 DEF ListsOK
  <2>8. IdsOK'
    <3>1. next_id' \in [Tasks -> Nat] /\ sockets' \in [Tasks -> SUBSET Nat] /\ DOMAIN open = Tasks
      BY <1>0, <1>3 DEF IdsOK, ListsOK
    <3>2. SUFFICES ASSUME newestOnly'
          PROVE  /\ stop' # "list"
                 /\ \A u \in Tasks : \A x \in sockets[u] : x < next_id[u]
                 /\ \A u \in Tasks : \A e \in open'[u] :
                      /\ e \in DOMAIN desc' /\ desc'[e].alive
                      /\ desc'[e].id < next_id[u] /\ desc'[e].id \notin sockets[u]
                 /\ \A u \in Tasks : \A e, f \in open'[u] : desc'[e].id = desc'[f].id => e = f
                 /\ \A u, w \in Tasks : \A e : e \in open'[u] /\ e \in open'[w] => u = w \/ e <= 3
      BY <3>1, <1>3, <1>5 DEF IdsOK
    <3>3. newestOnly /\ d > 3
      BY <3>2, <1>3
    <3>4. /\ stop # "list"
          /\ \A u \in Tasks : \A x \in sockets[u] : x < next_id[u]
          /\ \A u \in Tasks : \A e \in open[u] :
               /\ e \in DOMAIN desc /\ desc[e].alive
               /\ desc[e].id < next_id[u] /\ desc[e].id \notin sockets[u]
          /\ \A u \in Tasks : \A e, f \in open[u] : desc[e].id = desc[f].id => e = f
          /\ \A u, w \in Tasks : \A e : e \in open[u] /\ e \in open[w] => u = w \/ e <= 3
      BY <3>3, <1>0 DEF IdsOK
    <3>5. \A u \in Tasks : open'[u] = IF u = t THEN open[t] \ {d} ELSE open[u]
      BY <3>1, <2>1
    <3>6. d \in open[t] /\ d \in Nat
      BY <3>3, <1>0, <1>1, <1>2, DescFields
    <3>7. \A u \in Tasks : \A e \in open'[u] : e \in open[u] /\ e # d /\ desc'[e] = desc[e] /\ e \in DOMAIN desc'
      <4> TAKE u \in Tasks
      <4> TAKE e \in open'[u]
      <4>1. e \in open[u] /\ e \in DOMAIN desc
        BY <3>4, <3>5
      <4>2. e # d
        <5>1. CASE u = t
          BY <5>1, <3>5
        <5>2. CASE u # t
          <6>1. ~(d <= 3)
            BY <3>3, <3>6
          <6>. QED
            BY <6>1, <5>2, <4>1, <3>4, <3>6
        <5>. QED
          BY <5>1, <5>2
      <4>. QED
        BY <4>1, <4>2, <2>4
    <3>. QED
      BY <3>4, <3>7, <2>1
  <2>. QED
    BY <2>5, <2>6, <2>7, <2>8, <1>6 DEF FilesInv
<1>. QED
  BY <1>7, <1>8

(* Task::add_socket_handle: the id is in use nowhere else. *)
LEMMA AddSocketHandleOK ==
  ASSUME FilesInv, UNCHANGED load, NEW t \in Tasks, AddSocketHandle(t)
  PROVE  FilesInv'
<1>0. /\ load \in Workloads /\ TreeOK(nodes) /\ InCapacity
      /\ DescOK /\ ListingMissesNothing /\ ListsOK /\ IdsOK
  BY DEF FilesInv
<1>1. /\ sockets' = [sockets EXCEPT ![t] = sockets[t] \cup {next_id[t]}]
      /\ next_id' = [next_id EXCEPT ![t] = next_id[t] + 1]
      /\ UNCHANGED <<nodes, desc, handles, open, newestOnly, stop>>
  BY DEF AddSocketHandle
<1>2. TreeOK(nodes)' /\ InCapacity' /\ load' \in Workloads
  BY <1>0, <1>1 DEF InCapacity
<1>3. DescOK'
  BY <1>0, <1>1 DEF DescOK
<1>4. ListingMissesNothing'
  BY <1>0, <1>1 DEF ListingMissesNothing
<1>5. ListsOK'
  BY <1>0, <1>1 DEF ListsOK
<1>6. IdsOK'
  <2>1. newestOnly \in BOOLEAN /\ next_id \in [Tasks -> Nat] /\ sockets \in [Tasks -> SUBSET Nat]
    BY <1>0 DEF IdsOK
  <2>2. /\ next_id' \in [Tasks -> Nat] /\ sockets' \in [Tasks -> SUBSET Nat]
        /\ \A u \in Tasks : /\ next_id'[u] = IF u = t THEN next_id[t] + 1 ELSE next_id[u]
                            /\ sockets'[u] = IF u = t THEN sockets[t] \cup {next_id[t]} ELSE sockets[u]
    BY <2>1, <1>1
  <2>3. SUFFICES ASSUME newestOnly
        PROVE  /\ stop # "list"
               /\ \A u \in Tasks : \A x \in sockets'[u] : x < next_id'[u]
               /\ \A u \in Tasks : \A e \in open[u] :
                    /\ e \in DOMAIN desc /\ desc[e].alive
                    /\ desc[e].id < next_id'[u] /\ desc[e].id \notin sockets'[u]
               /\ \A u \in Tasks : \A e, f \in open[u] : desc[e].id = desc[f].id => e = f
               /\ \A u, w \in Tasks : \A e : e \in open[u] /\ e \in open[w] => u = w \/ e <= 3
    BY <2>1, <2>2, <1>1 DEF IdsOK
  <2>4. /\ stop # "list"
        /\ \A u \in Tasks : \A x \in sockets[u] : x < next_id[u]
        /\ \A u \in Tasks : \A e \in open[u] :
             /\ e \in DOMAIN desc /\ desc[e].alive
             /\ desc[e].id < next_id[u] /\ desc[e].id \notin sockets[u]
        /\ \A u \in Tasks : \A e, f \in open[u] : desc[e].id = desc[f].id => e = f
        /\ \A u, w \in Tasks : \A e : e \in open[u] /\ e \in open[w] => u = w \/ e <= 3
    BY <2>3, <1>0 DEF IdsOK
  <2>5. ASSUME NEW u \in Tasks, NEW x \in sockets'[u]
        PROVE  x < next_id'[u]
    <3>1. next_id[u] \in Nat /\ sockets[u] \subseteq Nat
      BY <2>1
    <3>2. CASE x \in sockets[u]
      <4>1. x \in Nat /\ x < next_id[u]
        BY <3>1, <3>2, <2>4
      <4>. QED
        BY <4>1, <3>1, <2>2
    <3>3. CASE x \notin sockets[u]
      <4>1. u = t /\ x = next_id[t]
        BY <3>3, <2>2
      <4>. QED
        BY <4>1, <3>1, <2>2
    <3>. QED
      BY <3>2, <3>3
  <2>6. ASSUME NEW u \in Tasks, NEW e \in open[u]
        PROVE  desc[e].id < next_id'[u] /\ desc[e].id \notin sockets'[u]
    <3>1. e \in DOMAIN desc /\ desc[e].id < next_id[u] /\ desc[e].id \notin sockets[u]
      BY <2>4
    <3>2. desc[e].id \in Nat /\ next_id[u] \in Nat
      BY <3>1, <2>1, <1>0, DescFields
    <3>3. next_id'[u] = next_id[u] \/ next_id'[u] = next_id[u] + 1
      BY <2>2
    <3>4. sockets'[u] \subseteq sockets[u] \cup {next_id[u]}
      BY <2>2
    <3>. QED
      BY <3>1, <3>2, <3>3, <3>4
  <2>. QED
    BY <2>4, <2>5, <2>6
<1>. QED
  BY <1>2, <1>3, <1>4, <1>5, <1>6 DEF FilesInv

(* sys_open. *)
LEMMA SysOpenOK ==
  ASSUME FilesInv, UNCHANGED load, NEW t \in Tasks, NEW path \in PathType,
         NEW mode \in {"r", "w", "rw"}, SysOpen(t, path, mode)
  PROVE  FilesInv'
<1> DEFINE n == GetNode(nodes, path.names)
<1>1. path.names \in Seq(Names) /\ TreeOK(nodes)
  BY DEF PathType, FilesInv
<1>2. n \in {Nil, Bad} \cup DOMAIN nodes
  BY <1>1, GetNodeOK
<1>3. n # Nil /\ IF n = Bad THEN Stops("path") ELSE AddFileHandle(t, n, mode)
  BY DEF SysOpen
<1> HIDE DEF n
<1>4. CASE n = Bad
  <2>1. Stops("path")
    BY <1>3, <1>4
  <2>. QED
    BY <2>1, StopsOK DEF Stops
<1>5. CASE n # Bad
  <2>1. n \in DOMAIN nodes /\ AddFileHandle(t, n, mode)
    BY <1>2, <1>3, <1>5
  <2>. QED
    BY <2>1, AddFileHandleOK
<1>. QED
  BY <1>4, <1>5

(* sys_openat. *)
LEMMA SysOpenatOK ==
  ASSUME FilesInv, UNCHANGED load, NEW t \in Tasks, NEW path \in PathType,
         NEW mode \in {"r", "w", "rw"}, NEW directory \in BOOLEAN,
         SysOpenat(t, path, mode, directory)
  PROVE  FilesInv'
<1> DEFINE n == GetNode(nodes, path.names)
<1>1. path.names \in Seq(Names) /\ TreeOK(nodes)
  BY DEF PathType, FilesInv
<1>2. n \in {Nil, Bad} \cup DOMAIN nodes
  BY <1>1, GetNodeOK
<1>3. Stops("path") \/ (n # Bad /\ n # Nil /\ AddFileHandle(t, n, mode))
  BY DEF SysOpenat
<1> HIDE DEF n
<1>4. CASE Stops("path")
  BY <1>4, StopsOK DEF Stops
<1>5. CASE n # Bad /\ n # Nil /\ AddFileHandle(t, n, mode)
  <2>1. n \in DOMAIN nodes
    BY <1>2, <1>5
  <2>. QED
    BY <2>1, <1>5, AddFileHandleOK
<1>. QED
  BY <1>3, <1>4, <1>5

(* A lookup meets freed memory only after a handle other than the newest   *)
(* was closed.                                                             *)
LEMMA BadHandleOK ==
  ASSUME FilesInv, UNCHANGED load, NEW t \in Tasks, NEW id, BadHandle(t, id)
  PROVE  FilesInv'
<1>1. GetFileHandle(t, id) = Bad /\ Stops("list")
  BY DEF BadHandle
<1>2. ~newestOnly
  <2>1. newestOnly => Bad \in {Nil} \cup open[t]
    BY <1>1, HandleIs
  <2>2. newestOnly => open[t] \subseteq DOMAIN desc
    BY DEF FilesInv, IdsOK
  <2>3. Bad \notin DOMAIN desc /\ Bad # Nil
    BY DescFields DEF FilesInv, Bad, Nil
  <2>. QED
    BY <2>1, <2>2, <2>3
<1>. QED
  BY <1>1, <1>2, StopsOK DEF Stops

(* The descriptor that a call on a handle uses. *)
LEMMA HandleUsed ==
  ASSUME FilesInv, NEW t \in Tasks, NEW id, GetFileHandle(t, id) \notin {Nil, Bad}
  PROVE  /\ GetFileHandle(t, id) \in DOMAIN desc
         /\ desc[GetFileHandle(t, id)] \in DescType
         /\ desc[GetFileHandle(t, id)].pos \in Nat
         /\ desc[GetFileHandle(t, id)].node \in DOMAIN nodes
         /\ nodes \in Seq(NodeType)
         /\ nodes[desc[GetFileHandle(t, id)].node].size \in Nat
         /\ nodes[desc[GetFileHandle(t, id)].node].capacity \in Nat
<1> DEFINE d == GetFileHandle(t, id)
<1>1. d \in DOMAIN desc
  BY HandleIs
<1>2. DescOK /\ nodes \in Seq(NodeType)
  BY DEF FilesInv, TreeOK
<1> HIDE DEF d
<1>3. desc[d] \in DescType /\ desc[d].pos \in Nat /\ desc[d].node \in DOMAIN nodes
  BY <1>1, <1>2, DescFields
<1>4. nodes[desc[d].node].size \in Nat /\ nodes[desc[d].node].capacity \in Nat
  BY <1>2, <1>3, NodeFields
<1>. QED
  BY <1>1, <1>2, <1>3, <1>4 DEF d

(* sys_read moves the position of a file, which has no entries. *)
LEMMA SysReadOK ==
  ASSUME FilesInv, UNCHANGED load, NEW t \in Tasks, NEW id, NEW len \in Lengths,
         SysRead(t, id, len)
  PROVE  FilesInv'
<1> DEFINE d == GetFileHandle(t, id)
<1>1. d \notin {Nil, Bad} /\ VfsRead(d, len)
  BY DEF SysRead
<1>2. d \in DOMAIN desc /\ desc[d] \in DescType /\ desc[d].pos \in Nat
  BY <1>1, HandleUsed
<1> HIDE DEF d
<1> DEFINE pos == Wrapped(desc[d].pos + len)
<1>3. /\ ~nodes[desc[d].node].dir /\ desc' = [desc EXCEPT ![d].pos = pos]
      /\ UNCHANGED <<nodes, handles, sockets, next_id, open, newestOnly, stop>>
  BY <1>1 DEF VfsRead, OnlyDesc
<1>4. pos \in Nat
  <2>1. desc[d].pos + len \in Int
    BY <1>2, FilesAssumption
  <2>. QED
    BY <2>1, WrappedIs
<1> HIDE DEF pos
<1>5. desc' = [desc EXCEPT ![d].pos = pos, ![d].todo = desc[d].todo]
  <2>1. \A r \in DescType : \A x : [r EXCEPT !.pos = x] = [r EXCEPT !.pos = x, !.todo = r.todo]
    BY DEF DescType
  <2>2. desc' = [desc EXCEPT ![d] = [desc[d] EXCEPT !.pos = pos]]
    BY <1>2, <1>3
  <2>3. desc' = [desc EXCEPT ![d] = [desc[d] EXCEPT !.pos = pos, !.todo = desc[d].todo]]
    BY <1>2, <2>1, <2>2
  <2>. QED
    BY <1>2, <2>3
<1>6. \A n \in desc[d].todo : Hash[nodes[n].name] = 0
  BY <1>2, <1>3, FileHasNoEntries
<1> DEFINE todo == desc[d].todo
<1>7. pos \in Nat /\ todo \in SUBSET desc[d].todo
  BY <1>4
<1>8. desc' = [desc EXCEPT ![d].pos = pos, ![d].todo = todo]
  BY <1>5
<1>9. \A n \in todo : Hash[nodes[n].name] # 0 =>
        \E i \in Counted(nodes, desc[d].node) :
          nodes[desc[d].node].children[i] = n /\ Count(nodes, desc[d].node, i) >= pos
  BY <1>6
<1>10. UNCHANGED <<load, nodes, handles, sockets, next_id, open, newestOnly, stop>>
  BY <1>3
<1> HIDE DEF todo
<1>. QED
  BY <1>2, <1>7, <1>8, <1>9, <1>10, MovesOK

(* sys_seek starts a listing anew. *)
LEMMA SysSeekOK ==
  ASSUME FilesInv, UNCHANGED load, NEW t \in Tasks, NEW id, NEW base \in {"set", "current", "end"},
         NEW offset \in load.offsets, SysSeek(t, id, base, offset)
  PROVE  FilesInv'
<1> DEFINE d == GetFileHandle(t, id)
           pos == SeekTo(d, base, offset)
<1>1. d \notin {Nil, Bad}
  BY DEF SysSeek
<1>2. d \in DOMAIN desc /\ desc[d].pos \in Nat /\ nodes[desc[d].node].size \in Nat
  BY <1>1, HandleUsed
<1>3. /\ desc' = [desc EXCEPT ![d].pos = pos, ![d].todo = {}]
      /\ UNCHANGED <<nodes, handles, sockets, next_id, open, newestOnly, stop>>
  BY DEF SysSeek, OnlyDesc
<1>4. offset \in Int
  BY LoadFacts DEF FilesInv
<1> HIDE DEF d
<1>5. pos \in Nat
  <2> DEFINE from == CASE base = "set" -> 0
                       [] base = "current" -> desc[d].pos
                       [] base = "end" -> nodes[desc[d].node].size
  <2>1. from \in Nat
    BY <1>2
  <2>2. pos = Wrapped(from + offset)
    BY DEF SeekTo
  <2> HIDE DEF from, pos
  <2>. QED
    BY <2>1, <2>2, <1>4, WrappedIs
<1> HIDE DEF pos
<1>6. {} \in SUBSET desc[d].todo
  OBVIOUS
<1>. QED
  BY <1>2, <1>3, <1>5, <1>6, MovesOK

(* sys_read_entries: the entry returned was the only one at the position. *)
LEMMA SysReadEntriesOK ==
  ASSUME FilesInv, UNCHANGED load, NEW t \in Tasks, NEW id, SysReadEntries(t, id)
  PROVE  FilesInv'
<1> DEFINE d == GetFileHandle(t, id)
           p == desc[d].node
           pos == desc[d].pos
           child == Nth(nodes, p, pos)
           next == Wrapped(pos + 1)
<1>1. d \notin {Nil, Bad}
  BY DEF SysReadEntries
<1>2. d \in DOMAIN desc /\ pos \in Nat /\ p \in DOMAIN nodes /\ nodes \in Seq(NodeType)
  BY <1>1, HandleUsed
<1>3. \/ Stops("path")
      \/ /\ child # Nil
         /\ desc' = [desc EXCEPT ![d].pos = next, ![d].todo = desc[d].todo \ {child}]
         /\ UNCHANGED <<nodes, handles, sockets, next_id, open, newestOnly, stop>>
  BY DEF SysReadEntries, OnlyDesc
<1> HIDE DEF d
<1>6. next \in Nat /\ next <= pos + 1
  <2>1. pos + 1 \in Nat /\ pos + 1 \in Int
    BY <1>2
  <2>. QED
    BY <2>1, WrappedIs
<1> HIDE DEF next
<1>4. CASE Stops("path")
  BY <1>4, StopsOK DEF Stops
<1>5. CASE /\ child # Nil
           /\ desc' = [desc EXCEPT ![d].pos = next, ![d].todo = desc[d].todo \ {child}]
           /\ UNCHANGED <<nodes, handles, sockets, next_id, open, newestOnly, stop>>
  <2> DEFINE hits == {i \in Counted(nodes, p) : Count(nodes, p, i) = pos}
             h == CHOOSE i \in hits : TRUE
  <2>1. child = IF hits = {} THEN Nil ELSE nodes[p].children[h]
    BY DEF Nth
  <2>2. h \in hits /\ child = nodes[p].children[h]
    BY <2>1, <1>5
  <2>3. h \in Counted(nodes, p) /\ Count(nodes, p, h) = pos
    BY <2>2
  <2> HIDE DEF hits, h, child
  <2>4. ASSUME NEW n \in desc[d].todo \ {child}, Hash[nodes[n].name] # 0
        PROVE  \E i \in Counted(nodes, p) :
                 nodes[p].children[i] = n /\ Count(nodes, p, i) >= next
    <3>1. PICK i \in Counted(nodes, p) : nodes[p].children[i] = n /\ Count(nodes, p, i) >= pos
      BY <2>4, <1>2 DEF FilesInv, ListingMissesNothing
    <3>2. i # h
      BY <3>1, <2>2, <2>4
    <3>3. Count(nodes, p, i) # pos
      BY <3>1, <3>2, <2>3, <1>2, CountInjective
    <3>4. Count(nodes, p, i) \in Nat
      BY <1>2, CountIs
    <3>5. Count(nodes, p, i) >= next
      BY <3>1, <3>3, <3>4, <1>2, <1>6
    <3>. QED
      BY <3>1, <3>5
  <2>5. next \in Nat /\ desc[d].todo \ {child} \in SUBSET desc[d].todo
    BY <1>6
  <2>. QED
    BY <1>2, <1>5, <2>4, <2>5, MovesOK
<1>. QED
  BY <1>3, <1>4, <1>5

(* What a write makes of a file: its size and capacity afterwards. *)
LEMMA WriteSizes ==
  ASSUME NEW size0 \in Nat, NEW cap0 \in Nat, NEW pos \in Nat, NEW len \in Nat, NEW std \in BOOLEAN,
         ~std /\ cap0 > 0 => size0 <= cap0
  PROVE  LET needed == Wrapped(pos + len)
             grows == size0 # 0 /\ needed > cap0
             capacity == IF size0 = 0 THEN len ELSE IF grows THEN Grown(cap0, needed) ELSE cap0
             size == IF size0 = 0 THEN len ELSE size0
             final == IF needed > size THEN needed ELSE size
         IN  /\ ~(grows /\ (capacity < needed \/ needed > MaxFile))
             /\ ~(~std /\ len > 0 /\ pos + len > capacity)
             => /\ capacity \in Nat /\ final \in Nat
                /\ ~std /\ capacity > 0 => final <= capacity
<1> DEFINE needed == Wrapped(pos + len)
           grown == Grown(cap0, needed)
<1>1. pos + len \in Nat /\ pos + len \in Int
  OBVIOUS
<1>2. needed \in Nat /\ needed <= pos + len
  BY <1>1, WrappedIs
<1> HIDE DEF needed
<1>3. grown \in Nat /\ (cap0 = 0 => grown = 0)
  BY <1>2, GrownIs
<1> HIDE DEF grown
<1>4. CASE size0 = 0
  BY <1>2, <1>4 DEF needed
<1>5. CASE size0 # 0 /\ ~(needed > cap0)
  BY <1>2, <1>5 DEF needed
<1>6. CASE size0 # 0 /\ needed > cap0
  <2>1. ~(grown < needed) /\ ~std /\ grown > 0 =>
          (IF needed > size0 THEN needed ELSE size0) <= grown
    BY <1>2, <1>3, <1>6
  <2>. QED
    BY <1>2, <1>3, <1>6, <2>1 DEF needed, grown
<1>. QED
  BY <1>4, <1>5, <1>6 DEF needed

(* A file is resized and a descriptor of it moves. *)
LEMMA ResizesOK ==
  ASSUME FilesInv, NEW d \in DOMAIN desc, NEW pos \in Nat, NEW size \in Nat, NEW capacity \in Nat,
         ~nodes[desc[d].node].dir,
         Resizes(nodes, nodes', desc[d].node, size, capacity),
         desc' = [desc EXCEPT ![d].pos = pos],
         desc[d].node \notin StdNodes /\ capacity > 0 => size <= capacity,
         UNCHANGED <<load, handles, sockets, next_id, open, newestOnly, stop>>
  PROVE  FilesInv'
<1> DEFINE n == desc[d].node
<1>0. /\ load \in Workloads /\ TreeOK(nodes) /\ InCapacity
      /\ DescOK /\ ListingMissesNothing /\ ListsOK /\ IdsOK
  BY DEF FilesInv
<1>1. desc[d] \in DescType /\ n \in DOMAIN nodes /\ DOMAIN desc = 1 .. Len(desc) /\ desc \in Seq(DescType)
  BY <1>0, DescFields DEF DescOK
<1>2. /\ TreeOK(nodes') /\ DOMAIN nodes' = DOMAIN nodes
      /\ \A p \in DOMAIN nodes : /\ nodes'[p].name = nodes[p].name
                                 /\ nodes'[p].children = nodes[p].children
                                 /\ Counted(nodes', p) = Counted(nodes, p)
                                 /\ \A i : Count(nodes', p, i) = Count(nodes, p, i)
      /\ nodes'[n].size = size /\ nodes'[n].capacity = capacity
      /\ \A p \in DOMAIN nodes : p # n => nodes'[p] = nodes[p]
  BY <1>0, <1>1, Resized
<1> DEFINE r == [desc[d] EXCEPT !.pos = pos]
<1>3. /\ r \in DescType /\ r.alive = desc[d].alive /\ r.id = desc[d].id /\ r.node = desc[d].node
      /\ r.todo = desc[d].todo
  BY <1>1 DEF DescType
<1>4. /\ desc' \in Seq(DescType) /\ Len(desc') = Len(desc) /\ DOMAIN desc' = DOMAIN desc
      /\ desc'[d] = r /\ \A e \in DOMAIN desc : e # d => desc'[e] = desc[e]
  <2>1. PICK dd : dd = desc'
    OBVIOUS
  <2>2. desc' = [desc EXCEPT ![d] = r]
    BY <1>1
  <2> HIDE DEF r
  <2>3. dd = [desc EXCEPT ![d] = r]
    BY <2>1, <2>2, Zenon
  <2>4. /\ dd \in Seq(DescType) /\ Len(dd) = Len(desc) /\ DOMAIN dd = DOMAIN desc
        /\ dd[d] = r /\ \A e \in DOMAIN desc : e # d => dd[e] = desc[e]
    BY <2>3, <1>1, <1>3, SeqExcept
  <2>. QED
    BY <2>1, <2>4
<1> HIDE DEF r
<1>5. \A e \in DOMAIN desc : /\ desc'[e].alive = desc[e].alive /\ desc'[e].id = desc[e].id
                             /\ desc'[e].node = desc[e].node /\ desc'[e].todo = desc[e].todo
  BY <1>3, <1>4
<1>6. InCapacity'
  <2>1. ASSUME NEW p \in DOMAIN nodes \ StdNodes, nodes'[p].capacity > 0
        PROVE  nodes'[p].size <= nodes'[p].capacity
    <3>1. CASE p = n
      BY <3>1, <2>1, <1>2
    <3>2. CASE p # n
      BY <3>2, <2>1, <1>0, <1>2 DEF InCapacity
    <3>. QED
      BY <3>1, <3>2
  <2>. QED
    BY <2>1, <1>2 DEF InCapacity
<1>7. DescOK'
  <2>1. \A e \in DOMAIN desc : desc'[e].node \in DOMAIN nodes /\ desc'[e].todo \subseteq DOMAIN nodes
    BY <1>0, <1>5 DEF DescOK
  <2>2. Len(desc') >= 3
    BY <1>0, <1>4 DEF DescOK
  <2>. QED
    BY <2>1, <2>2, <1>2, <1>4 DEF DescOK
<1>8. ListingMissesNothing'
  <2>1. ASSUME NEW e \in DOMAIN desc, NEW x \in desc[e].todo, Hash[nodes'[x].name] # 0
        PROVE  \E i \in Counted(nodes', desc'[e].node) :
                 nodes'[desc'[e].node].children[i] = x /\ Count(nodes', desc'[e].node, i) >= desc'[e].pos
    <3>1. x \in DOMAIN nodes /\ desc[e].node \in DOMAIN nodes
      BY <1>0 DEF DescOK
    <3>2. Hash[nodes[x].name] # 0
      BY <3>1, <2>1, <1>2
    <3>3. e # d
      BY <3>2, FileHasNoEntries
    <3>4. desc'[e] = desc[e]
      BY <3>3, <1>4
    <3>5. PICK i \in Counted(nodes, desc[e].node) :
            nodes[desc[e].node].children[i] = x /\ Count(nodes, desc[e].node, i) >= desc[e].pos
      BY <3>2, <1>0 DEF ListingMissesNothing
    <3>6. /\ i \in Counted(nodes', desc[e].node) /\ nodes'[desc[e].node].children[i] = x
          /\ Count(nodes', desc[e].node, i) >= desc[e].pos
      BY <3>1, <3>5, <1>2
    <3>. QED
      BY <3>4, <3>6
  <2>2. DOMAIN desc' = DOMAIN desc /\ \A e \in DOMAIN desc : desc'[e].todo = desc[e].todo
    BY <1>4, <1>5
  <2>. QED
    BY <2>1, <2>2 DEF ListingMissesNothing
<1>9. ListsOK'
  BY <1>0, <1>4 DEF ListsOK
<1>10. IdsOK'
  BY <1>0, <1>4, <1>5 DEF IdsOK
<1>. QED
  BY <1>0, <1>2, <1>6, <1>7, <1>8, <1>9, <1>10 DEF FilesInv

(* sys_write. *)
LEMMA SysWriteOK ==
  ASSUME FilesInv, UNCHANGED load, NEW t \in Tasks, NEW id, NEW len \in Lengths,
         SysWrite(t, id, len)
  PROVE  FilesInv'
<1> DEFINE d == GetFileHandle(t, id)
<1>1. d \notin {Nil, Bad} /\ VfsWrite(d, len)
  BY DEF SysWrite
<1> DEFINE n == desc[d].node
           pos == desc[d].pos
           needed == Wrapped(pos + len)
           grows == nodes[n].size # 0 /\ needed > nodes[n].capacity
           capacity == IF nodes[n].size = 0 THEN len
                       ELSE IF grows THEN Grown(nodes[n].capacity, needed) ELSE nodes[n].capacity
           size == IF nodes[n].size = 0 THEN len ELSE nodes[n].size
           final == IF needed > size THEN needed ELSE size
<1>2. /\ d \in DOMAIN desc /\ pos \in Nat /\ n \in DOMAIN nodes /\ nodes \in Seq(NodeType)
      /\ nodes[n].size \in Nat /\ nodes[n].capacity \in Nat
  BY <1>1, HandleUsed
<1> HIDE DEF d
<1>3. len \in Nat /\ needed \in Nat
  <2>1. len \in Nat
    BY FilesAssumption
  <2>2. pos + len \in Int
    BY <1>2, <2>1
  <2>. QED
    BY <2>1, <2>2, WrappedIs
<1>4. \/ Stops("file")
      \/ /\ ~nodes[n].dir
         /\ ~(grows /\ (capacity < needed \/ needed > MaxFile))
         /\ ~(n \notin StdNodes /\ len > 0 /\ pos + len > capacity)
         /\ nodes' = [nodes EXCEPT ![n].capacity = capacity, ![n].size = final]
         /\ desc' = [desc EXCEPT ![d].pos = needed]
         /\ UNCHANGED <<handles, sockets, next_id, open, newestOnly, stop>>
  BY <1>1 DEF VfsWrite
<1>5. CASE Stops("file")
  BY <1>5, StopsOK DEF Stops
<1>6. CASE /\ ~nodes[n].dir
           /\ ~(grows /\ (capacity < needed \/ needed > MaxFile))
           /\ ~(n \notin StdNodes /\ len > 0 /\ pos + len > capacity)
           /\ nodes' = [nodes EXCEPT ![n].capacity = capacity, ![n].size = final]
           /\ desc' = [desc EXCEPT ![d].pos = needed]
           /\ UNCHANGED <<handles, sockets, next_id, open, newestOnly, stop>>
  <2>1. n \notin StdNodes /\ nodes[n].capacity > 0 => nodes[n].size <= nodes[n].capacity
    BY <1>2 DEF FilesInv, InCapacity
  <2>2. /\ capacity \in Nat /\ final \in Nat
        /\ n \notin StdNodes /\ capacity > 0 => final <= capacity
    <3> DEFINE std == n \in StdNodes
    <3>1. std \in BOOLEAN
      OBVIOUS
    <3>2. ~std /\ nodes[n].capacity > 0 => nodes[n].size <= nodes[n].capacity
      BY <2>1
    <3>3. ~(~std /\ len > 0 /\ pos + len > capacity)
      BY <1>6
    <3>4. ~(grows /\ (capacity < needed \/ needed > MaxFile))
      BY <1>6
    <3> HIDE DEF n, pos, std
    <3>5. /\ capacity \in Nat /\ final \in Nat
          /\ ~std /\ capacity > 0 => final <= capacity
      BY <1>2, <1>3, <3>1, <3>2, <3>3, <3>4, WriteSizes
    <3>. QED
      BY <3>5 DEF std
  <2> HIDE DEF capacity, final
  <2>3. Resizes(nodes, nodes', n, final, capacity)
    <3>1. nodes[n] \in NodeType
      BY <1>2, NodeFields
    <3>2. \A r \in NodeType : \A x, y : [r EXCEPT !.capacity = x, !.size = y] = [r EXCEPT !.size = y, !.capacity = x]
      BY DEF NodeType
    <3>3. nodes' = [nodes EXCEPT ![n] = [nodes[n] EXCEPT !.capacity = capacity, !.size = final]]
      BY <1>2, <1>6
    <3>. QED
      BY <3>1, <3>2, <3>3 DEF Resizes
  <2> HIDE DEF needed
  <2>4. desc' = [desc EXCEPT ![d].pos = needed]
    BY <1>6
  <2>5. UNCHANGED <<load, handles, sockets, next_id, open, newestOnly, stop>> /\ ~nodes[n].dir
    BY <1>6
  <2>. QED
    BY <1>2, <1>3, <2>2, <2>3, <2>4, <2>5, ResizesOK
<1>. QED
  BY <1>4, <1>5, <1>6

(* A write that the model does not follow has one of the three reasons.    *)
Lost(size0, cap0, pos, len) ==
  \/ pos + len > MaxFile
  \/ size0 = 0 /\ pos > 0 /\ len > 0
  \/ size0 > 0 /\ cap0 = 0

LEMMA WriteLost ==
  ASSUME NEW size0 \in Nat, NEW cap0 \in Nat, NEW pos \in Nat, NEW len \in Nat
  PROVE  LET needed == Wrapped(pos + len)
             grows == size0 # 0 /\ needed > cap0
             capacity == IF size0 = 0 THEN len ELSE IF grows THEN Grown(cap0, needed) ELSE cap0
         IN  \/ grows /\ (capacity < needed \/ needed > MaxFile)
             \/ len > 0 /\ pos + len > capacity
             => Lost(size0, cap0, pos, len)
<1> DEFINE needed == Wrapped(pos + len)
           grown == Grown(cap0, needed)
<1>1. pos + len \in Nat /\ pos + len \in Int
  OBVIOUS
<1>2. needed \in Nat /\ needed <= pos + len /\ (pos + len < SizeRange => needed = pos + len)
  BY <1>1, WrappedIs
<1>3. MaxFile \in Nat /\ SizeRange \in Nat /\ MaxFile < SizeRange
  BY FilesAssumption
<1> HIDE DEF needed
<1>4. grown \in Nat /\ (cap0 > 0 /\ needed <= MaxFile => grown >= needed)
  BY <1>2, GrownIs
<1> HIDE DEF grown
<1>5. CASE size0 = 0
  BY <1>1, <1>2, <1>3, <1>5 DEF Lost, needed
<1>6. CASE size0 # 0 /\ ~(needed > cap0)
  <2>1. pos + len > cap0 => ~(pos + len < SizeRange)
    BY <1>1, <1>2, <1>6
  <2>2. ~(pos + len < SizeRange) => pos + len > MaxFile
    BY <1>1, <1>3
  <2>. QED
    BY <1>6, <2>1, <2>2 DEF Lost, needed
<1>7. CASE size0 # 0 /\ needed > cap0
  <2>1. needed > MaxFile => pos + len > MaxFile
    BY <1>1, <1>2, <1>3
  <2>2. grown < needed /\ cap0 > 0 => needed > MaxFile
    BY <1>2, <1>3, <1>4
  <2>3. ~(grown < needed) /\ pos + len > grown => ~(pos + len < SizeRange)
    BY <1>1, <1>2, <1>4
  <2>4. ~(pos + len < SizeRange) => pos + len > MaxFile
    BY <1>1, <1>3
  <2>. QED
    BY <1>7, <2>1, <2>2, <2>3, <2>4 DEF Lost, needed, grown
<1>. QED
  BY <1>5, <1>6, <1>7 DEF needed

(* sys_write. *)
LEMMA SysWriteLost ==
  ASSUME FilesInv, NEW t \in Tasks, NEW id, NEW len \in Lengths, stop = "no",
         SysWrite(t, id, len)
  PROVE  WritesLost'
<1> DEFINE d == GetFileHandle(t, id)
<1>1. d \notin {Nil, Bad} /\ VfsWrite(d, len)
  BY DEF SysWrite
<1> DEFINE n == desc[d].node
           pos == desc[d].pos
           needed == Wrapped(pos + len)
           grows == nodes[n].size # 0 /\ needed > nodes[n].capacity
           capacity == IF nodes[n].size = 0 THEN len
                       ELSE IF grows THEN Grown(nodes[n].capacity, needed) ELSE nodes[n].capacity
<1>2. /\ d \in DOMAIN desc /\ pos \in Nat
      /\ nodes[n].size \in Nat /\ nodes[n].capacity \in Nat
  BY <1>1, HandleUsed
<1> HIDE DEF d
<1>3. len \in Nat
  BY FilesAssumption
<1>4. \/ /\ \/ grows /\ (capacity < needed \/ needed > MaxFile)
            \/ len > 0 /\ pos + len > capacity
         /\ UNCHANGED <<nodes, desc>>
      \/ UNCHANGED stop
  BY <1>1 DEF VfsWrite, Stops
<1>5. CASE UNCHANGED stop
  BY <1>5 DEF WritesLost
<1>6. CASE /\ \/ grows /\ (capacity < needed \/ needed > MaxFile)
              \/ len > 0 /\ pos + len > capacity
           /\ UNCHANGED <<nodes, desc>>
  <2>1. Lost(nodes[n].size, nodes[n].capacity, pos, len)
    BY <1>2, <1>3, <1>6, WriteLost
  <2>. QED
    BY <1>2, <1>6, <2>1 DEF Lost, WritesLost
<1>. QED
  BY <1>4, <1>5, <1>6

(* sys_mkdir: what is listed by somebody else stays ahead of its position. *)
LEMMA SysMkdirOK ==
  ASSUME FilesInv, UNCHANGED load, NEW path \in PathType, NEW dirty \in BOOLEAN,
         SysMkdir(path, dirty)
  PROVE  FilesInv'
<1> DEFINE c == Create(nodes, path, TRUE, dirty)
<1>0. /\ load \in Workloads /\ TreeOK(nodes) /\ InCapacity
      /\ DescOK /\ ListingMissesNothing /\ ListsOK /\ IdsOK
  BY DEF FilesInv
<1>1. TRUE \in BOOLEAN /\ c \in CreateStates(nodes)
  BY <1>0, CreateOK
<1>2. \/ Stops("path")
      \/ nodes' = c.ns /\ UNCHANGED <<desc, handles, sockets, next_id, open, newestOnly, stop>>
  BY DEF SysMkdir
<1> HIDE DEF c
<1>3. CASE Stops("path")
  BY <1>3, StopsOK DEF Stops
<1>4. CASE nodes' = c.ns /\ UNCHANGED <<desc, handles, sockets, next_id, open, newestOnly, stop>>
  <2>1. TreeOK(nodes') /\ Grows(nodes, nodes')
    BY <1>1, <1>4 DEF CreateStates
  <2>2. /\ nodes \in Seq(NodeType) /\ nodes' \in Seq(NodeType)
    BY <1>0, <2>1 DEF TreeOK
  <2>3. DOMAIN nodes \subseteq DOMAIN nodes'
    <3>1. Len(nodes) <= Len(nodes')
      BY <2>1 DEF Grows
    <3>2. DOMAIN nodes = 1 .. Len(nodes) /\ Len(nodes) \in Nat
      BY <2>2, NodeFields
    <3>3. DOMAIN nodes' = 1 .. Len(nodes') /\ Len(nodes') \in Nat
      BY <2>2, NodeFields
    <3>. QED
      BY <3>1, <3>2, <3>3
  <2>4. InCapacity'
    <3>1. ASSUME NEW n \in DOMAIN nodes' \ StdNodes, nodes'[n].capacity > 0
          PROVE  nodes'[n].size <= nodes'[n].capacity
      <4>1. CASE n \in DOMAIN nodes
        <5>1. nodes'[n].size = nodes[n].size /\ nodes'[n].capacity = nodes[n].capacity
          BY <4>1, <2>1 DEF Grows
        <5>. QED
          BY <4>1, <5>1, <3>1, <1>0 DEF InCapacity
      <4>2. CASE n \notin DOMAIN nodes
        <5>1. nodes'[n].capacity = 0
          BY <4>2, <2>1 DEF Grows
        <5>. QED
          BY <5>1, <3>1
      <4>. QED
        BY <4>1, <4>2
    <3>. QED
      BY <3>1 DEF InCapacity
  <2>5. DescOK'
    BY <2>3, <1>0, <1>4 DEF DescOK
  <2>6. ListingMissesNothing'
    <3>1. ASSUME NEW e \in DOMAIN desc, NEW x \in desc[e].todo, Hash[nodes'[x].name] # 0
          PROVE  \E i \in Counted(nodes', desc[e].node) :
                   nodes'[desc[e].node].children[i] = x /\ Count(nodes', desc[e].node, i) >= desc[e].pos
      <4> DEFINE p == desc[e].node
      <4>1. x \in DOMAIN nodes /\ p \in DOMAIN nodes /\ desc[e].pos \in Nat
        BY <1>0, DescFields
      <4>2. Hash[nodes[x].name] # 0
        <5>1. nodes'[x].name = nodes[x].name
          BY <4>1, <2>1 DEF Grows
        <5>. QED
          BY <5>1, <3>1
      <4>3. PICK i \in Counted(nodes, p) : nodes[p].children[i] = x /\ Count(nodes, p, i) >= desc[e].pos
        BY <4>2, <1>0 DEF ListingMissesNothing
      <4> HIDE DEF p
      <4>4. PICK j \in Counted(nodes', p) :
              nodes'[p].children[j] = nodes[p].children[i] /\ Count(nodes', p, j) >= Count(nodes, p, i)
        BY <4>1, <4>3, <2>1 DEF Grows
      <4>5. Count(nodes, p, i) \in Nat
        BY <4>1, <2>2, CountIs
      <4>6. Count(nodes', p, j) \in Nat
        <5>1. p \in DOMAIN nodes'
          BY <4>1, <2>3
        <5>. QED
          BY <5>1, <2>2, CountIs
      <4>7. Count(nodes', p, j) >= desc[e].pos
        BY <4>1, <4>3, <4>4, <4>5, <4>6
      <4>. QED
        BY <4>3, <4>4, <4>7 DEF p
    <3>. QED
      BY <3>1, <1>4 DEF ListingMissesNothing
  <2>7. ListsOK'
    BY <1>0, <1>4 DEF ListsOK
  <2>8. IdsOK'
    BY <1>0, <1>4 DEF IdsOK
  <2>. QED
    BY <2>1, <2>4, <2>5, <2>6, <2>7, <2>8, <1>0 DEF FilesInv
<1>. QED
  BY <1>2, <1>3, <1>4

-----------------------------------------------------------------------------
(* The handles that Task::create makes. *)
LEMMA FirstList == IsList(Push(Push(Push(EmptyList, 1), 2), 3), {1, 2, 3}, 3)
<1>1. IsList(Push(EmptyList, 0 + 1), {} \cup {0 + 1}, 0 + 1)
  BY ListEmpty, ListPush
<1>2. IsList(Push(EmptyList, 1), {1}, 1)
  <2>1. 0 + 1 = 1 /\ {} \cup {1} = {1}
    OBVIOUS
  <2>. QED
    BY <1>1, <2>1
<1>3. IsList(Push(Push(EmptyList, 1), 1 + 1), {1} \cup {1 + 1}, 1 + 1)
  BY <1>2, ListPush
<1>4. IsList(Push(Push(EmptyList, 1), 2), {1, 2}, 2)
  <2>1. 1 + 1 = 2 /\ {1} \cup {2} = {1, 2}
    OBVIOUS
  <2>. QED
    BY <1>3, <2>1
<1>5. IsList(Push(Push(Push(EmptyList, 1), 2), 2 + 1), {1, 2} \cup {2 + 1}, 2 + 1)
  BY <1>4, ListPush
<1>6. 2 + 1 = 3 /\ {1, 2} \cup {3} = {1, 2, 3}
  OBVIOUS
<1>. QED
  BY <1>5, <1>6

(* The archive is unpacked and every task has the standard handles. *)
LEMMA FilesInit ==
  ASSUME Init
  PROVE  FilesInv
<1>1. nodes \in FreshTrees
  BY FirstNodes, UnpackedOK DEF Init
<1>2. TreeOK(nodes) /\ \A n \in DOMAIN nodes \ StdNodes : nodes[n].capacity = 0
  BY <1>1 DEF FreshTrees
<1>3. InCapacity
  BY <1>2 DEF InCapacity
<1>4. \A d \in 1 .. 3 : d + 1 \in DOMAIN nodes
  <2>1. Len(nodes) >= 4 /\ DOMAIN nodes = 1 .. Len(nodes) /\ Len(nodes) \in Nat
    BY <1>2, NodeFields DEF TreeOK
  <2>. QED
    BY <2>1
<1>5. \A d \in 1 .. 3 : /\ StdDesc(d) \in DescType /\ StdDesc(d).node = d + 1 /\ StdDesc(d).todo = {}
                        /\ StdDesc(d).alive = TRUE /\ StdDesc(d).id = d - 1
  BY DEF StdDesc, DescType
<1>6. DOMAIN desc = 1 .. 3 /\ \A d \in 1 .. 3 : desc[d] = StdDesc(d)
  BY DEF Init
<1>7. desc \in Seq(DescType) /\ Len(desc) = 3
  <2>1. desc \in [1 .. 3 -> DescType]
    BY <1>5 DEF Init
  <2>2. desc \in Seq(DescType)
    BY <2>1, SeqDef, 3 \in Nat
  <2>3. Len(desc) \in Nat /\ DOMAIN desc = 1 .. Len(desc)
    BY <2>2
  <2>4. 1 .. Len(desc) = 1 .. 3
    BY <1>6, <2>3
  <2>. QED
    BY <2>2, <2>3, <2>4
<1>8. DescOK
  BY <1>4, <1>5, <1>6, <1>7 DEF DescOK
<1>9. ListingMissesNothing
  BY <1>5, <1>6 DEF ListingMissesNothing
<1>10. ListsOK
  <2>1. DOMAIN handles = Tasks /\ DOMAIN open = Tasks
    BY DEF Init
  <2>2. ASSUME NEW t \in Tasks
        PROVE  IsList(handles[t], {1, 2, 3}, Len(desc)) /\ {1, 2, 3} = open[t]
    <3>1. handles[t] = Push(Push(Push(EmptyList, 1), 2), 3) /\ open[t] = {1, 2, 3}
      BY DEF Init
    <3>. QED
      BY <3>1, <1>7, FirstList
  <2>. QED
    BY <2>1, <2>2 DEF ListsOK
<1>11. IdsOK
  <2>1. /\ newestOnly = TRUE /\ stop = "no" /\ next_id \in [Tasks -> Nat] /\ sockets \in [Tasks -> SUBSET Nat]
        /\ \A t \in Tasks : open[t] = 1 .. 3 /\ next_id[t] = 6 /\ sockets[t] = {}
    BY DEF Init
  <2>2. \A d \in 1 .. 3 : d \in DOMAIN desc /\ desc[d].alive /\ desc[d].id = d - 1
    BY <1>5, <1>6
  <2>3. \A t \in Tasks : \A d \in open[t] :
          /\ d \in DOMAIN desc /\ desc[d].alive
          /\ desc[d].id < next_id[t] /\ desc[d].id \notin sockets[t]
    BY <2>1, <2>2
  <2>4. \A t \in Tasks : \A d, e \in open[t] : desc[d].id = desc[e].id => d = e
    BY <2>1, <2>2
  <2>5. \A t, u \in Tasks : \A d : d \in open[t] /\ d \in open[u] => t = u \/ d <= 3
    BY <2>1
  <2>. QED
    BY <2>1, <2>3, <2>4, <2>5 DEF IdsOK
<1>12. load \in Workloads
  BY DEF Init
<1>. QED
  BY <1>2, <1>3, <1>8, <1>9, <1>10, <1>11, <1>12 DEF FilesInv

(* Every system call preserves the invariant. *)
LEMMA FilesStep ==
  ASSUME FilesInv, [Next]_vars
  PROVE  FilesInv'
<1>1. CASE UNCHANGED vars
  <2>1. stop' = "list" => ~newestOnly
    BY <1>1 DEF vars, FilesInv, IdsOK
  <2>. QED
    BY <1>1, <2>1, StopsOK DEF vars
<1>2. CASE Next
  <2>1. UNCHANGED load /\ stop = "no"
    BY <1>2 DEF Next
  <2>2. PICK t \in load.tasks : \/ Opens(t)
                                \/ \E id \in load.ids : UsesHandle(t, id)
                                \/ UsesPath(t)
                                \/ AddSocketHandle(t)
    BY <1>2 DEF Next
  <2>3. /\ t \in Tasks /\ load.paths \subseteq PathType /\ load.modes \subseteq {"r", "w", "rw"}
    BY <2>2, LoadFacts DEF FilesInv
  <2>4. CASE Opens(t)
    <3>1. PICK path \in load.paths, mode \in load.modes :
             SysOpen(t, path, mode) \/ \E directory \in BOOLEAN : SysOpenat(t, path, mode, directory)
      BY <2>4 DEF Opens
    <3>2. path \in PathType /\ mode \in {"r", "w", "rw"}
      BY <2>3, <3>1
    <3>3. CASE SysOpen(t, path, mode)
      BY <2>1, <2>3, <3>2, <3>3, SysOpenOK
    <3>4. CASE \E directory \in BOOLEAN : SysOpenat(t, path, mode, directory)
      BY <2>1, <2>3, <3>2, <3>4, SysOpenatOK
    <3>. QED
      BY <3>1, <3>3, <3>4
  <2>5. CASE \E id \in load.ids : UsesHandle(t, id)
    <3>1. PICK id \in load.ids : UsesHandle(t, id)
      BY <2>5
    <3>2. CASE BadHandle(t, id)
      BY <2>1, <2>3, <3>2, BadHandleOK
    <3>3. CASE SysClose(t, id)
      BY <2>1, <2>3, <3>3, SysCloseOK
    <3>4. CASE SysReadEntries(t, id)
      BY <2>1, <2>3, <3>4, SysReadEntriesOK
    <3>5. CASE \E len \in Lengths : SysRead(t, id, len) \/ SysWrite(t, id, len)
      <4>1. PICK len \in Lengths : SysRead(t, id, len) \/ SysWrite(t, id, len)
        BY <3>5
      <4>2. CASE SysRead(t, id, len)
        BY <2>1, <2>3, <4>2, SysReadOK
      <4>3. CASE SysWrite(t, id, len)
        BY <2>1, <2>3, <4>3, SysWriteOK
      <4>. QED
        BY <4>1, <4>2, <4>3
    <3>6. CASE \E base \in {"set", "current", "end"}, offset \in load.offsets : SysSeek(t, id, base, offset)
      BY <2>1, <2>3, <3>6, SysSeekOK
    <3>. QED
      BY <3>1, <3>2, <3>3, <3>4, <3>5, <3>6 DEF UsesHandle
  <2>6. CASE UsesPath(t)
    <3>1. PICK path \in load.paths : \/ SysChdir(t, path)
                                     \/ SysStat(t, path)
                                     \/ \E dirty \in BOOLEAN : SysMkdir(path, dirty)
      BY <2>6 DEF UsesPath
    <3>2. path \in PathType
      BY <2>3, <3>1
    <3>3. CASE SysChdir(t, path)
      <4>1. /\ UNCHANGED <<load, nodes, desc, handles, sockets, next_id, open, newestOnly>>
            /\ stop' # "list"
        BY <2>1, <3>3 DEF SysChdir, Stops
      <4>. QED
        BY <4>1, StopsOK
    <3>4. CASE SysStat(t, path)
      BY <2>1, <3>4, StopsOK DEF SysStat, Stops
    <3>5. CASE \E dirty \in BOOLEAN : SysMkdir(path, dirty)
      BY <2>1, <3>2, <3>5, SysMkdirOK
    <3>. QED
      BY <3>1, <3>3, <3>4, <3>5
  <2>7. CASE AddSocketHandle(t)
    BY <2>1, <2>3, <2>7, AddSocketHandleOK
  <2>. QED
    BY <2>2, <2>4, <2>5, <2>6, <2>7
<1>. QED
  BY <1>1, <1>2

(* In every reachable state the tree is in order with one parent for each  *)
(* node, the chains of handles are exact and descending, ids are given out *)
(* once, and listings and capacities are as the properties below say.      *)
THEOREM FilesInvariance == Spec => []FilesInv
<1>1. Init => FilesInv
  BY FilesInit
<1>2. FilesInv /\ [Next]_vars => FilesInv'
  BY FilesStep
<1>. QED
  BY <1>1, <1>2, PTL DEF Spec

(* sys_close and Task::get_file_handle: while a task closes only its       *)
(* newest handles, the list it walks is exactly what it has open, newest   *)
(* first, no freed memory is met and no id is held twice; and a push never *)
(* follows a dangling pointer, whatever was closed.                        *)
THEOREM HandlesFoundCorrect == Spec => []HandlesFound
<1>1. FilesInv => HandlesFound
  <2> SUFFICES ASSUME FilesInv PROVE HandlesFound
    OBVIOUS
  <2>1. ListsOK /\ IdsOK
    BY DEF FilesInv
  <2>2. ASSUME NEW t \in Tasks PROVE PushIsSafe(handles[t])
    BY <2>1, ListFacts DEF ListsOK
  <2>3. ASSUME newestOnly, NEW t \in Tasks
        PROVE  LET list == Values(handles[t])
               IN  /\ {list[i] : i \in DOMAIN list} = open[t]
                   /\ \A i, j \in DOMAIN list : i < j => list[i] > list[j]
    <3>1. IsList(handles[t], open[t], Len(desc))
      BY <2>1, <2>3 DEF ListsOK
    <3>. QED
      BY <3>1, ListFacts
  <2>4. newestOnly => /\ stop # "list"
                      /\ \A t \in Tasks : \A d \in open[t] : desc[d].alive /\ desc[d].id \notin sockets[t]
                      /\ \A t \in Tasks : \A d, e \in open[t] : desc[d].id = desc[e].id => d = e
    BY <2>1 DEF IdsOK
  <2>. QED
    BY <2>2, <2>3, <2>4 DEF HandlesFound
<1>. QED
  BY <1>1, FilesInvariance, PTL

(* sys_read_entries and StringHashMap::get_nth: an entry that was there at *)
(* open and has not been returned is still ahead of the position, whatever *)
(* sys_mkdir inserts meanwhile.                                            *)
THEOREM ListingMissesNothingCorrect == Spec => []ListingMissesNothing
<1>1. FilesInv => ListingMissesNothing
  BY DEF FilesInv
<1>. QED
  BY <1>1, FilesInvariance, PTL

(* Vfs::create and StringHashMap::get: every node but the root and the     *)
(* standard ones is in exactly one directory, and a lookup there finds it. *)
THEOREM NodesFoundCorrect == Spec => []NodesFound
<1>1. FilesInv => NodesFound
  <2> SUFFICES ASSUME FilesInv PROVE NodesFound
    OBVIOUS
  <2> DEFINE parents(n) == {p \in DOMAIN nodes : \E i \in DOMAIN nodes[p].children :
                                                   nodes[p].children[i] = n}
  <2>1. TreeOK(nodes)
    BY DEF FilesInv
  <2>2. DOMAIN nodes = 1 .. Len(nodes) /\ Len(nodes) \in Nat /\ nodes \in Seq(NodeType)
    BY <2>1, NodeFields DEF TreeOK
  <2>3. ASSUME NEW n \in DOMAIN nodes \ ({RootNode} \cup StdNodes)
        PROVE  Cardinality(parents(n)) = 1 /\ \A p \in parents(n) : nodes[p].dir /\ Get(nodes, p, nodes[n].name) = n
    <3>1. n \in 5 .. Len(nodes)
      BY <2>2 DEF RootNode, StdNodes
    <3>2. PICK p \in DOMAIN nodes : \E i \in DOMAIN nodes[p].children : nodes[p].children[i] = n
      BY <2>1, <3>1 DEF TreeOK
    <3>3. parents(n) = {p}
      <4>1. \A q \in parents(n) : q = p
        BY <2>1, <3>2 DEF TreeOK
      <4>2. p \in parents(n)
        BY <3>2
      <4>. QED
        BY <4>1, <4>2
    <3>4. Cardinality(parents(n)) = 1
      BY <3>3, FS_Singleton
    <3>5. nodes[p].dir
      <4>1. ~nodes[p].dir => nodes[p].children = <<>>
        BY <2>1, <3>2 DEF TreeOK, DirOK
      <4>. QED
        BY <4>1, <3>2
    <3>6. Get(nodes, p, nodes[n].name) = n
      <4> DEFINE s == nodes[p].children
      <4>1. PICK i \in DOMAIN s : s[i] = n
        BY <3>2
      <4>2. PICK j \in DOMAIN s : Get(nodes, p, nodes[n].name) = s[j] /\ Hash[nodes[s[j]].name] = Hash[nodes[n].name]
        BY <2>1, <3>2, <4>1, GetIs
      <4>3. i = j
        BY <2>1, <3>2, <4>1, <4>2 DEF TreeOK, DirOK
      <4>. QED
        BY <4>1, <4>2, <4>3
    <3>. QED
      BY <3>3, <3>4, <3>5, <3>6
  <2>. QED
    BY <2>3 DEF NodesFound
<1>. QED
  BY <1>1, FilesInvariance, PTL

(* No other step stops the model for a write. *)
LEMMA WritesLostStep ==
  ASSUME FilesInv, WritesLost, [Next]_vars
  PROVE  WritesLost'
<1>1. CASE UNCHANGED vars
  BY <1>1 DEF vars, WritesLost
<1>2. CASE Next
  <2>1. stop = "no" /\ load \in Workloads
    BY <1>2 DEF Next, FilesInv
  <2>2. PICK t \in load.tasks : \/ Opens(t)
                                \/ \E id \in load.ids : UsesHandle(t, id)
                                \/ UsesPath(t)
                                \/ AddSocketHandle(t)
    BY <1>2 DEF Next
  <2>3. t \in Tasks
    BY <2>1, <2>2, LoadFacts
  <2>4. stop' # "file" => WritesLost'
    BY DEF WritesLost
  <2>5. CASE Opens(t)
    BY <2>1, <2>4, <2>5 DEF Opens, SysOpen, SysOpenat, AddFileHandle, Stops
  <2>6. CASE \E id \in load.ids : UsesHandle(t, id)
    <3>1. PICK id \in load.ids : UsesHandle(t, id)
      BY <2>6
    <3>2. CASE BadHandle(t, id)
      BY <2>4, <3>2 DEF BadHandle, Stops
    <3>3. CASE SysClose(t, id)
      BY <2>1, <2>4, <3>3 DEF SysClose
    <3>4. CASE SysReadEntries(t, id)
      BY <2>1, <2>4, <3>4 DEF SysReadEntries, Stops, OnlyDesc
    <3>5. CASE \E len \in Lengths : SysRead(t, id, len) \/ SysWrite(t, id, len)
      <4>1. PICK len \in Lengths : SysRead(t, id, len) \/ SysWrite(t, id, len)
        BY <3>5
      <4>2. CASE SysRead(t, id, len)
        BY <2>1, <2>4, <4>2 DEF SysRead, VfsRead, OnlyDesc
      <4>3. CASE SysWrite(t, id, len)
        BY <2>1, <2>3, <4>3, SysWriteLost
      <4>. QED
        BY <4>1, <4>2, <4>3
    <3>6. CASE \E base \in {"set", "current", "end"}, offset \in load.offsets : SysSeek(t, id, base, offset)
      BY <2>1, <2>4, <3>6 DEF SysSeek, OnlyDesc
    <3>. QED
      BY <3>1, <3>2, <3>3, <3>4, <3>5, <3>6 DEF UsesHandle
  <2>7. CASE UsesPath(t)
    BY <2>1, <2>4, <2>7 DEF UsesPath, SysChdir, SysStat, SysMkdir, Stops
  <2>8. CASE AddSocketHandle(t)
    BY <2>1, <2>4, <2>8 DEF AddSocketHandle
  <2>. QED
    BY <2>2, <2>5, <2>6, <2>7, <2>8
<1>. QED
  BY <1>1, <1>2

(* Vfs::write: whatever is written wherever, a file with a capacity never  *)
(* holds more than it, and a write leaves its data, or does not end, in    *)
(* the three known cases only.                                             *)
THEOREM FileInCapacityCorrect == Spec => []FileInCapacity
<1>1. FilesInv => InCapacity
  BY DEF FilesInv
<1>2. Init => WritesLost
  BY DEF Init, WritesLost
<1>3. FilesInv /\ WritesLost /\ [Next]_vars => WritesLost'
  BY WritesLostStep
<1>4. InCapacity /\ WritesLost => FileInCapacity
  BY DEF FileInCapacity
<1>. QED
  BY <1>1, <1>2, <1>3, <1>4, FilesInvariance, PTL DEF Spec
====
