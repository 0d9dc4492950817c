--------------------------- MODULE TaskListProofs ---------------------------
(***************************************************************************)
(* The pointers of TaskList stay sound for any number of nodes and tasks,  *)
(* and they implement TaskQueueSpec.  The invariant is stated about a list *)
(* of m nodes c[1] .. c[m] that exists, and not about the walk along       *)
(* `next`: what each assignment does to such a list is explicit, and the   *)
(* lemma NodeAtIs says that the walk finds it.                             *)
(***************************************************************************)
EXTENDS TaskList, WellFoundedInduction, FiniteSetTheorems, TLAPS

(* A set of numbers that is not empty has a least one. *)
LEMMA NatMin ==
  ASSUME NEW T, T \subseteq Nat, T # {}
  PROVE  \E x \in T : \A y \in T : x <= y
<1> DEFINE R == OpToRel(<, Nat)
<1>1. IsWellFoundedOn(R, Nat)
  BY NatLessThanWellFounded
<1>2. \A x, y \in Nat : <<x, y>> \in R <=> x < y
  BY DEF OpToRel
<1> HIDE DEF R
<1>3. PICK x \in T : \A y \in T : ~ (<<y, x>> \in R)
  BY <1>1, WFMin
<1>4. \A y \in T : ~ (y < x) /\ y \in Nat /\ x \in Nat
  BY <1>2, <1>3
<1>5. \A y \in T : x <= y
  BY <1>4
<1>. QED
  BY <1>5

-----------------------------------------------------------------------------
(* front and the next pointers lead through c[1] .. c[m], each node once. *)
Linked(m, c) ==
  /\ m \in Nat /\ c \in [1 .. m -> Node]
  /\ \A i, j \in 1 .. m : c[i] = c[j] => i = j
  /\ front = IF m = 0 THEN null ELSE c[1]
  /\ \A i \in 1 .. m : next[c[i]] = IF i = m THEN null ELSE c[i + 1]

(* The node that k steps lead to: NodeAt's recursion has this solution,    *)
(* and no other.                                                           *)
LEMMA NodeAtIs ==
  ASSUME NEW m, NEW c, Linked(m, c), NEW k \in Nat
  PROVE  NodeAt(k) = IF k < m THEN c[k + 1] ELSE null
<1> DEFINE Walk(f) == [i \in 0 .. k |-> IF i = 0 THEN front
                                        ELSE IF f[i - 1] = null THEN null
                                        ELSE next[f[i - 1]]]
           w == [i \in 0 .. k |-> IF i < m THEN c[i + 1] ELSE null]
           at == CHOOSE f : f = Walk(f)
<1>1. NodeAt(k) = at[k]
  BY DEF NodeAt
<1>2. /\ m \in Nat /\ \A i \in 1 .. m : c[i] # null
      /\ front = IF m = 0 THEN null ELSE c[1]
      /\ \A i \in 1 .. m : next[c[i]] = IF i = m THEN null ELSE c[i + 1]
  BY NodeAssumption DEF Linked
<1>3. \A i \in 0 .. k : w[i] = Walk(w)[i]
  <2> TAKE i \in 0 .. k
  <2>1. CASE i = 0
    BY <2>1, <1>2
  <2>2. CASE i # 0
    <3>1. i - 1 \in 0 .. k /\ w[i - 1] = IF i - 1 < m THEN c[i] ELSE null
      BY <2>2
    <3>2. CASE i - 1 < m
      <4>1. i \in 1 .. m
        BY <3>2, <2>2, <1>2
      <4>2. w[i - 1] = c[i] /\ c[i] # null /\ next[c[i]] = IF i = m THEN null ELSE c[i + 1]
        BY <3>1, <3>2, <4>1, <1>2
      <4>3. (i < m) <=> (i # m)
        BY <4>1, <1>2
      <4>. QED
        BY <2>2, <4>2, <4>3
    <3>3. CASE ~(i - 1 < m)
      BY <3>1, <3>3, <2>2, <1>2
    <3>. QED
      BY <3>2, <3>3
  <2>. QED
    BY <2>1, <2>2
<1>4. w = Walk(w)
  BY <1>3, Zenon
<1>5. at = Walk(at)
  BY <1>4, Zenon
<1>6. \A i \in 0 .. k : at[i] = Walk(at)[i]
  BY <1>5, Zenon
<1> HIDE DEF at
<1> DEFINE T == {i \in 0 .. k : at[i] # w[i]}
<1>7. T = {}
  <2> SUFFICES ASSUME T # {} PROVE FALSE
    OBVIOUS
  <2>1. PICK x \in T : \A y \in T : x <= y
    <3>1. T \subseteq Nat
      OBVIOUS
    <3>. QED
      BY <3>1, NatMin
  <2>2. CASE x = 0
    <3>1. 0 \in 0 .. k /\ at[0] # w[0]
      BY <2>1, <2>2
    <3>2. Walk(at)[0] = front /\ Walk(w)[0] = front
      BY <3>1
    <3>. QED
      BY <3>1, <3>2, <1>3, <1>6, Zenon
  <2>3. CASE x # 0
    <3>1. x \in 0 .. k /\ x - 1 \in 0 .. k /\ ~(x <= x - 1)
      BY <2>1, <2>3
    <3>2. at[x - 1] = w[x - 1]
      BY <3>1, <2>1
    <3> HIDE DEF w
    <3>3. at[x] = w[x]
      BY <3>1, <3>2, <1>3, <1>6
    <3>. QED
      BY <3>3, <2>1
  <2>. QED
    BY <2>2, <2>3
<1>8. at[k] = w[k]
  <2>1. k \in 0 .. k
    OBVIOUS
  <2>2. \A i \in 0 .. k : at[i] = w[i]
    <3> HIDE DEF w
    <3>. QED
      BY <1>7
  <2>. QED
    BY <2>1, <2>2
<1>. QED
  BY <1>1, <1>8

(* What the model calls the chain is the list. *)
LEMMA ChainIs ==
  ASSUME NEW m, NEW c, Linked(m, c)
  PROVE  /\ Length = m /\ Chain = c
         /\ NodeAt(Cardinality(Node)) = null
         /\ Reachable = {c[i] : i \in 1 .. m}
<1> DEFINE N == Cardinality(Node)
<1>1. m \in Nat /\ c \in [1 .. m -> Node] /\ N \in Nat
  BY NodeAssumption, FS_CardinalityType DEF Linked
<1>2. m <= N
  <2>1. IsFiniteSet(1 .. m) /\ Cardinality(1 .. m) = m
    BY <1>1, FS_Interval
  <2>2. c \in Injection(1 .. m, Node)
    BY <1>1 DEF Linked, Injection, IsInjective
  <2>3. Cardinality(1 .. m) <= N
    BY <2>1, <2>2, NodeAssumption, FS_Injection
  <2>. QED
    BY <2>1, <2>3
<1>3. \A k \in Nat : NodeAt(k) = IF k < m THEN c[k + 1] ELSE null
  BY NodeAtIs
<1>4. {k \in 0 .. N : NodeAt(k) # null} = 0 .. m - 1
  <2>1. ASSUME NEW k \in 0 .. N PROVE NodeAt(k) # null <=> k < m
    <3>1. k < m => k + 1 \in 1 .. m
      BY <1>1
    <3>. QED
      BY <1>1, <1>3, <3>1, NodeAssumption
  <2>2. 0 .. m - 1 \subseteq 0 .. N
    BY <1>1, <1>2
  <2>. QED
    BY <2>1, <2>2, <1>1
<1>5. Length = m
  <2>1. Cardinality(0 .. m - 1) = m
    BY <1>1, FS_Interval
  <2>. QED
    BY <2>1, <1>4 DEF Length
<1>6. Chain = c
  <2>1. \A i \in 1 .. m : NodeAt(i - 1) = c[i]
    <3> TAKE i \in 1 .. m
    <3>1. i - 1 \in Nat /\ i - 1 < m /\ (i - 1) + 1 = i
      BY <1>1
    <3>. QED
      BY <3>1, <1>3
  <2>2. c = [i \in 1 .. m |-> c[i]]
    BY <1>1
  <2>. QED
    BY <2>1, <2>2, <1>5, Zenon DEF Chain
<1>7. NodeAt(N) = null
  BY <1>1, <1>2, <1>3
<1>. QED
  BY <1>5, <1>6, <1>7 DEF Reachable

-----------------------------------------------------------------------------
(* The list c[1] .. c[m] is sound: its nodes are allocated and carry       *)
(* different tasks, each but the first points back, and current is one.    *)
Sound(m, c) ==
  /\ Linked(m, c)
  /\ \A i \in 1 .. m : c[i] \in allocated /\ task[c[i]] \in Task
  /\ \A i, j \in 1 .. m : task[c[i]] = task[c[j]] => i = j
  /\ \A i \in 2 .. m : prev[c[i]] = c[i - 1]
  /\ m # 0 => \E i \in 1 .. m : current = c[i]

(* How far add_task is with a node that is not in the list yet. *)
Adding(m, c) ==
  LET n == adding.node
  IN  \/ adding = NotAdding
      \/ /\ n \in allocated /\ n \in Node /\ task[n] \in Task
         /\ \A i \in 1 .. m : c[i] # n /\ task[c[i]] # task[n]
         /\ adding \in [at : {"current", "next", "prev", "front"}, node : Node]
         /\ adding.at = "current" => m = 0 /\ next[n] = null
         /\ adding.at = "next" => m # 0
         /\ adding.at = "prev" => m # 0 /\ next[n] = front
         /\ adding.at = "front" => IF m = 0 THEN current = n /\ next[n] = null
                                   ELSE next[n] = front /\ prev[front] = n

Types ==
  /\ front \in Node \cup {null} /\ current \in Node \cup {null}
  /\ task \in [Node -> Task \cup {null}]
  /\ prev \in [Node -> Node \cup {null}] /\ next \in [Node -> Node \cup {null}]

IInv == Types /\ \E m, c : Sound(m, c) /\ Adding(m, c)

(* The abstract state, for a list. *)
Tasks(m, c) == [i \in 1 .. m |-> task[c[i]]]

LEMMA InitInv == Init => Types /\ Sound(0, <<>>) /\ Adding(0, <<>>)
<1> SUFFICES ASSUME Init PROVE Types /\ Sound(0, <<>>) /\ Adding(0, <<>>)
  OBVIOUS
<1>1. Types
  BY DEF Init, Types
<1>2. 1 .. 0 = {} /\ <<>> \in [1 .. 0 -> Node]
  OBVIOUS
<1>3. Linked(0, <<>>)
  BY <1>2 DEF Init, Linked
<1>. QED
  BY <1>1, <1>2, <1>3 DEF Init, Sound, Adding

LEMMA AddNewInv ==
  ASSUME Types, NEW CONSTANT m, NEW CONSTANT c, Sound(m, c), Adding(m, c),
         NEW t \in Task, NEW n \in Node, AddNew(t, n)
  PROVE  Types' /\ Sound(m, c)' /\ Adding(m, c)'
<1>1. /\ m \in Nat /\ c \in [1 .. m -> Node] /\ Linked(m, c)
  BY DEF Sound, Linked
<1>2. \A i \in 1 .. m : c[i] \in Node /\ c[i] # n
  BY <1>1 DEF Sound, AddNew
<1>3. /\ UNCHANGED <<front, current>> /\ allocated' = allocated \cup {n}
      /\ task' = [task EXCEPT ![n] = t] /\ prev' = [prev EXCEPT ![n] = null]
      /\ next' = [next EXCEPT ![n] = null]
      /\ adding' = [at |-> IF front = null THEN "current" ELSE "next", node |-> n]
  BY DEF AddNew
<1>4. Types'
  BY <1>3 DEF Types
<1>5. /\ \A i \in 1 .. m : /\ task'[c[i]] = task[c[i]] /\ prev'[c[i]] = prev[c[i]]
                           /\ next'[c[i]] = next[c[i]]
      /\ task'[n] = t /\ next'[n] = null
  BY <1>2, <1>3 DEF Types
<1>6. Linked(m, c)'
  BY <1>1, <1>3, <1>5 DEF Linked
<1>7. Sound(m, c)'
  <2>1. \A i \in 2 .. m : prev'[c[i]] = c[i - 1]
    <3> TAKE i \in 2 .. m
    <3>1. i \in 1 .. m
      BY <1>1
    <3>. QED
      BY <3>1, <1>5 DEF Sound
  <2>. QED
    BY <1>3, <1>5, <1>6, <2>1 DEF Sound
<1>8. \A i \in 1 .. m : task[c[i]] # t
  BY <1>1, ChainIs DEF AddNew, QueuedTasks
<1>9. front = null <=> m = 0
  BY <1>1, NodeAssumption DEF Linked
<1>10. Adding(m, c)'
  <2>1. adding'.node = n /\ adding' \in [at : {"current", "next", "prev", "front"}, node : Node]
    BY <1>3
  <2>2. adding'.at = IF m = 0 THEN "current" ELSE "next"
    BY <1>3, <1>9
  <2>. QED
    BY <2>1, <2>2, <1>2, <1>3, <1>5, <1>8 DEF Adding
<1>. QED
  BY <1>4, <1>7, <1>10

LEMMA AddCurrentInv ==
  ASSUME Types, NEW CONSTANT m, NEW CONSTANT c, Sound(m, c), Adding(m, c), AddCurrent
  PROVE  Types' /\ Sound(m, c)' /\ Adding(m, c)'
<1>1. /\ adding.at = "current" /\ UNCHANGED <<front, task, prev, next, allocated>>
      /\ current' = adding.node /\ adding' = [adding EXCEPT !.at = "front"]
  BY DEF AddCurrent
<1>2. /\ adding \in [at : {"current", "next", "prev", "front"}, node : Node]
      /\ m = 0 /\ next[adding.node] = null
      /\ adding.node \in allocated /\ task[adding.node] \in Task
  BY <1>1 DEF Adding, NotAdding
<1>3. /\ adding'.at = "front" /\ adding'.node = adding.node
      /\ adding' \in [at : {"current", "next", "prev", "front"}, node : Node]
  BY <1>1, <1>2
<1>4. Types'
  BY <1>1, <1>2 DEF Types
<1>5. Sound(m, c)'
  BY <1>1, <1>2 DEF Sound, Linked
<1>6. Adding(m, c)'
  BY <1>1, <1>2, <1>3 DEF Adding
<1>. QED
  BY <1>4, <1>5, <1>6

LEMMA AddNextInv ==
  ASSUME Types, NEW CONSTANT m, NEW CONSTANT c, Sound(m, c), Adding(m, c), AddNext
  PROVE  Types' /\ Sound(m, c)' /\ Adding(m, c)'
<1> DEFINE n == adding.node
<1>1. /\ adding.at = "next" /\ UNCHANGED <<front, current, task, prev, allocated>>
      /\ next' = [next EXCEPT ![n] = front] /\ adding' = [adding EXCEPT !.at = "prev"]
  BY DEF AddNext
<1>2. /\ adding \in [at : {"current", "next", "prev", "front"}, node : Node]
      /\ m # 0 /\ n \in Node /\ n \in allocated /\ task[n] \in Task
      /\ \A i \in 1 .. m : c[i] # n /\ task[c[i]] # task[n]
  BY <1>1 DEF Adding, NotAdding
<1>3. /\ adding'.at = "prev" /\ adding'.node = n
      /\ adding' \in [at : {"current", "next", "prev", "front"}, node : Node]
  BY <1>1, <1>2
<1>4. Types'
  BY <1>1, <1>2 DEF Types
<1>5. next'[n] = front /\ \A i \in 1 .. m : next'[c[i]] = next[c[i]]
  BY <1>1, <1>2 DEF Types, Sound, Linked
<1>6. Sound(m, c)'
  BY <1>1, <1>5 DEF Sound, Linked
<1>7. Adding(m, c)'
  BY <1>1, <1>2, <1>3, <1>5 DEF Adding
<1>. QED
  BY <1>4, <1>6, <1>7

LEMMA AddPrevInv ==
  ASSUME Types, NEW CONSTANT m, NEW CONSTANT c, Sound(m, c), Adding(m, c), AddPrev
  PROVE  Types' /\ Sound(m, c)' /\ Adding(m, c)'
<1> DEFINE n == adding.node
<1>1. /\ adding.at = "prev" /\ UNCHANGED <<front, current, task, next, allocated>>
      /\ prev' = [prev EXCEPT ![front] = n] /\ adding' = [adding EXCEPT !.at = "front"]
  BY DEF AddPrev
<1>2. /\ adding \in [at : {"current", "next", "prev", "front"}, node : Node]
      /\ m # 0 /\ n \in Node /\ n \in allocated /\ task[n] \in Task /\ next[n] = front
      /\ \A i \in 1 .. m : c[i] # n /\ task[c[i]] # task[n]
  BY <1>1 DEF Adding, NotAdding
<1>3. /\ adding'.at = "front" /\ adding'.node = n
      /\ adding' \in [at : {"current", "next", "prev", "front"}, node : Node]
  BY <1>1, <1>2
<1>4. m \in Nat /\ front = c[1] /\ front \in Node /\ \A i \in 2 .. m : c[i] \in Node /\ c[i] # front
  BY <1>2 DEF Sound, Linked
<1>5. Types'
  BY <1>1, <1>2 DEF Types
<1>6. prev'[front] = n /\ \A i \in 2 .. m : prev'[c[i]] = prev[c[i]]
  BY <1>1, <1>4 DEF Types
<1>7. Sound(m, c)'
  BY <1>1, <1>6 DEF Sound, Linked
<1>8. Adding(m, c)'
  BY <1>1, <1>2, <1>3, <1>6 DEF Adding
<1>. QED
  BY <1>5, <1>7, <1>8

LEMMA NextTaskInv ==
  ASSUME Types, NEW CONSTANT m, NEW CONSTANT c, Sound(m, c), Adding(m, c), NextTask
  PROVE  Types' /\ Sound(m, c)' /\ Adding(m, c)'
<1>1. /\ front # null /\ UNCHANGED <<front, task, prev, next, allocated, adding>>
      /\ current' = IF next[current] # null THEN next[current] ELSE front
  BY DEF NextTask
<1>2. m \in Nat /\ m # 0 /\ front = c[1] /\ c \in [1 .. m -> Node]
  BY <1>1 DEF Sound, Linked
<1>3. PICK k \in 1 .. m : current = c[k]
  BY <1>2 DEF Sound
<1>4. next[c[k]] = IF k = m THEN null ELSE c[k + 1]
  BY DEF Sound, Linked
<1>5. \E i \in 1 .. m : current' = c[i]
  <2>1. CASE k = m
    BY <2>1, <1>1, <1>2, <1>3, <1>4
  <2>2. CASE k # m
    <3>1. k + 1 \in 1 .. m
      BY <2>2, <1>2
    <3>2. c[k + 1] # null
      BY <3>1, <1>2, NodeAssumption
    <3>. QED
      BY <3>1, <3>2, <2>2, <1>1, <1>3, <1>4
  <2>. QED
    BY <2>1, <2>2
<1>6. Types'
  BY <1>1, <1>2, <1>5 DEF Types
<1>7. Sound(m, c)'
  BY <1>1, <1>5 DEF Sound, Linked
<1>8. Adding(m, c)'
  BY <1>1, <1>2 DEF Adding
<1>. QED
  BY <1>6, <1>7, <1>8

(* The list with a node in front. *)
Longer(m, c, n) == [i \in 1 .. m + 1 |-> IF i = 1 THEN n ELSE c[i - 1]]

LEMMA LongerIs ==
  ASSUME NEW m \in Nat, NEW c, NEW n
  PROVE  /\ Longer(m, c, n)[1] = n
         /\ \A i \in 1 .. m : Longer(m, c, n)[i + 1] = c[i]
         /\ \A i \in 1 .. m + 1 : i = 1 \/ (i - 1 \in 1 .. m /\ Longer(m, c, n)[i] = c[i - 1])
<1>1. 1 \in 1 .. m + 1 /\ \A i \in 1 .. m : i + 1 \in 1 .. m + 1 /\ i + 1 # 1 /\ (i + 1) - 1 = i
  OBVIOUS
<1>2. \A i \in 1 .. m + 1 : Longer(m, c, n)[i] = IF i = 1 THEN n ELSE c[i - 1]
  BY DEF Longer
<1>3. \A i \in 1 .. m + 1 : i = 1 \/ i - 1 \in 1 .. m
  OBVIOUS
<1>. QED
  BY <1>1, <1>2, <1>3

LEMMA AddFrontInv ==
  ASSUME Types, NEW CONSTANT m, NEW CONSTANT c, Sound(m, c), Adding(m, c), AddFront,
         NEW CONSTANT n, n = adding.node
  PROVE  LET d == Longer(m, c, n)
         IN  Types' /\ Sound(m + 1, d)' /\ Adding(m + 1, d)'
<1> DEFINE d == Longer(m, c, n)
<1>1. /\ adding.at = "front" /\ UNCHANGED <<current, task, prev, next, allocated>>
      /\ front' = n /\ adding' = NotAdding
  BY DEF AddFront
<1>2. /\ n \in Node /\ n \in allocated /\ task[n] \in Task
      /\ IF m = 0 THEN current = n /\ next[n] = null ELSE next[n] = front /\ prev[front] = n
      /\ \A i \in 1 .. m : c[i] # n /\ task[c[i]] # task[n]
  BY <1>1 DEF Adding, NotAdding
<1>3. /\ m \in Nat /\ m + 1 \in Nat /\ m + 1 # 0 /\ 1 \in 1 .. m + 1
      /\ m # 0 => front = c[1]
      /\ \A i \in 1 .. m : c[i] \in Node /\ c[i] \in allocated /\ task[c[i]] \in Task
      /\ \A i, j \in 1 .. m : c[i] = c[j] \/ task[c[i]] = task[c[j]] => i = j
      /\ \A i \in 1 .. m : next[c[i]] = IF i = m THEN null ELSE c[i + 1]
      /\ \A i \in 2 .. m : prev[c[i]] = c[i - 1]
      /\ m # 0 => \E i \in 1 .. m : current = c[i]
  BY DEF Sound, Linked
<1>4. /\ d[1] = n /\ \A i \in 1 .. m : d[i + 1] = c[i]
      /\ \A i \in 1 .. m + 1 : i = 1 \/ (i - 1 \in 1 .. m /\ d[i] = c[i - 1])
  BY <1>3, LongerIs
<1>5. d \in [1 .. m + 1 -> Node]
  BY <1>2, <1>3 DEF Longer
<1> HIDE DEF d
<1>6. Types'
  BY <1>1, <1>2 DEF Types
<1>7. \A i \in 1 .. m + 1 : d[i] \in allocated /\ task[d[i]] \in Task
  BY <1>2, <1>3, <1>4
<1>8. \A i, j \in 1 .. m + 1 : d[i] = d[j] \/ task[d[i]] = task[d[j]] => i = j
  <2> SUFFICES ASSUME NEW i \in 1 .. m + 1, NEW j \in 1 .. m + 1,
                      d[i] = d[j] \/ task[d[i]] = task[d[j]]
               PROVE  i = j
    OBVIOUS
  <2>1. CASE i = 1 /\ j # 1
    BY <2>1, <1>2, <1>4
  <2>2. CASE i # 1 /\ j = 1
    BY <2>2, <1>2, <1>4
  <2>3. CASE i # 1 /\ j # 1
    <3>1. i - 1 \in 1 .. m /\ d[i] = c[i - 1] /\ j - 1 \in 1 .. m /\ d[j] = c[j - 1]
      BY <2>3, <1>4
    <3>2. i - 1 = j - 1
      BY <3>1, <1>3
    <3>. QED
      BY <3>2, <1>3
  <2>. QED
    BY <2>1, <2>2, <2>3
<1>9. \A i \in 1 .. m + 1 : next[d[i]] = IF i = m + 1 THEN null ELSE d[i + 1]
  <2> TAKE i \in 1 .. m + 1
  <2>1. CASE i = 1
    <3>1. CASE m = 0
      BY <2>1, <3>1, <1>2, <1>4
    <3>2. CASE m # 0
      <4>1. 1 \in 1 .. m /\ d[1 + 1] = c[1] /\ 1 # m + 1
        BY <3>2, <1>3, <1>4
      <4>. QED
        BY <4>1, <3>2, <2>1, <1>2, <1>3, <1>4
    <3>. QED
      BY <3>1, <3>2
  <2>2. CASE i # 1
    <3>1. i - 1 \in 1 .. m /\ d[i] = c[i - 1]
      BY <2>2, <1>4
    <3>2. next[c[i - 1]] = IF i - 1 = m THEN null ELSE c[(i - 1) + 1]
      BY <3>1, <1>3
    <3>3. (i - 1 = m <=> i = m + 1) /\ (i - 1) + 1 = i /\ (i # m + 1 => i \in 1 .. m)
      BY <1>3
    <3>4. i # m + 1 => d[i + 1] = c[i]
      BY <3>3, <1>4
    <3>. QED
      BY <3>1, <3>2, <3>3, <3>4
  <2>. QED
    BY <2>1, <2>2
<1>10. \A i \in 2 .. m + 1 : prev[d[i]] = d[i - 1]
  <2> TAKE i \in 2 .. m + 1
  <2>1. i \in 1 .. m + 1 /\ i # 1 /\ i - 1 \in 1 .. m /\ d[i] = c[i - 1] /\ m # 0
    BY <1>3, <1>4
  <2>2. CASE i = 2
    <3>1. i - 1 = 1
      BY <2>2
    <3>. QED
      BY <3>1, <2>1, <1>2, <1>3, <1>4
  <2>3. CASE i # 2
    <3>1. i - 1 \in 2 .. m /\ i - 1 \in 1 .. m + 1 /\ i - 1 # 1
      BY <2>1, <2>3, <1>3
    <3>2. prev[c[i - 1]] = c[(i - 1) - 1] /\ d[i - 1] = c[(i - 1) - 1]
      BY <3>1, <1>3, <1>4
    <3>. QED
      BY <3>2, <2>1
  <2>. QED
    BY <2>2, <2>3
<1>11. \E i \in 1 .. m + 1 : current = d[i]
  <2>1. CASE m = 0
    BY <2>1, <1>2, <1>3, <1>4
  <2>2. CASE m # 0
    <3>1. PICK i \in 1 .. m : current = c[i]
      BY <2>2, <1>3
    <3>2. i + 1 \in 1 .. m + 1 /\ d[i + 1] = c[i]
      BY <1>3, <1>4
    <3>. QED
      BY <3>1, <3>2
  <2>. QED
    BY <2>1, <2>2
<1>12. Linked(m + 1, d)'
  BY <1>1, <1>3, <1>4, <1>5, <1>8, <1>9 DEF Linked
<1>13. Sound(m + 1, d)'
  BY <1>1, <1>7, <1>8, <1>10, <1>11, <1>12 DEF Sound
<1>14. Adding(m + 1, d)'
  BY <1>1 DEF Adding
<1>. QED
  BY <1>6, <1>13, <1>14 DEF d

(* The list without its k-th node. *)
Shorter(m, c, k) == [j \in 1 .. m - 1 |-> IF j < k THEN c[j] ELSE c[j + 1]]

LEMMA RemoveCurrentInv ==
  ASSUME Types, NEW CONSTANT m, NEW CONSTANT c, Sound(m, c), Adding(m, c), RemoveCurrent,
         NEW k \in 1 .. m, current = c[k]
  PROVE  LET d == Shorter(m, c, k)
         IN  Types' /\ Sound(m - 1, d)' /\ Adding(m - 1, d)'
<1> DEFINE d == Shorter(m, c, k)
           o(i) == IF i < k THEN i ELSE i + 1
<1>1. /\ m \in Nat /\ m # 0 /\ m - 1 \in Nat /\ front = c[1] /\ c \in [1 .. m -> Node]
      /\ \A i \in 1 .. m : c[i] \in Node /\ c[i] \in allocated /\ task[c[i]] \in Task
      /\ \A i, j \in 1 .. m : c[i] = c[j] \/ task[c[i]] = task[c[j]] => i = j
      /\ \A i \in 1 .. m : next[c[i]] = IF i = m THEN null ELSE c[i + 1]
      /\ \A i \in 2 .. m : prev[c[i]] = c[i - 1]
  BY DEF Sound, Linked
<1>2. /\ \A i \in 1 .. m : c[i] # null
      /\ front # null /\ adding = NotAdding
  BY <1>1, NodeAssumption DEF RemoveCurrent, Adding
<1>3. \A i \in 1 .. m - 1 : d[i] = c[o(i)] /\ o(i) \in 1 .. m /\ o(i) # k
  BY <1>1 DEF Shorter
<1>4. d \in [1 .. m - 1 -> Node]
  BY <1>1 DEF Shorter
<1>5. \A i, j \in 1 .. m - 1 : o(i) = o(j) => i = j
  BY <1>1
<1> HIDE DEF d
<1>6. \A i \in 1 .. m - 1 : d[i] # current
  <2> HIDE DEF o
  <2>. QED
    BY <1>1, <1>3
<1>7. /\ task' = [task EXCEPT ![current] = null] /\ allocated' = allocated \ {current}
      /\ UNCHANGED adding
      /\ current' = IF next[current] # null THEN next[current] ELSE front'
  BY DEF RemoveCurrent
<1>8. \A i \in 1 .. m - 1 : /\ d[i] \in Node /\ d[i] \in allocated'
                            /\ task'[d[i]] = task[d[i]] /\ task'[d[i]] \in Task
  <2> TAKE i \in 1 .. m - 1
  <2>1. d[i] \in Node /\ d[i] \in allocated /\ task[d[i]] \in Task
    <3> HIDE DEF o
    <3>. QED
      BY <1>1, <1>3
  <2>2. task'[d[i]] = task[d[i]]
    BY <2>1, <1>6, <1>7 DEF Types
  <2>. QED
    BY <2>1, <2>2, <1>6, <1>7
<1>9. \A i, j \in 1 .. m - 1 : d[i] = d[j] \/ task[d[i]] = task[d[j]] => i = j
  <2> SUFFICES ASSUME NEW i \in 1 .. m - 1, NEW j \in 1 .. m - 1,
                      d[i] = d[j] \/ task[d[i]] = task[d[j]]
               PROVE  i = j
    OBVIOUS
  <2>1. o(i) = o(j)
    <3> HIDE DEF o
    <3>1. /\ o(i) \in 1 .. m /\ o(j) \in 1 .. m
          /\ c[o(i)] = c[o(j)] \/ task[c[o(i)]] = task[c[o(j)]]
      BY <1>3
    <3>. QED
      BY <3>1, <1>1
  <2>. QED
    BY <2>1, <1>5
(* What the assignments to front, prev and next do. *)
<1>10. front' = IF k = 1 THEN next[c[1]] ELSE front
  BY <1>1 DEF RemoveCurrent
<1>11. k # 1 => k - 1 \in 1 .. m /\ prev[c[k]] = c[k - 1]
  BY <1>1
<1>12. k # m => k + 1 \in 1 .. m /\ next[c[k]] = c[k + 1]
  BY <1>1
<1>13. k = m => next[c[k]] = null
  BY <1>1
<1>14. k = 1 => UNCHANGED <<prev, next>>
  BY <1>1 DEF RemoveCurrent
<1>15. k # 1 => current # front
  BY <1>1
<1>16. k # 1 => /\ next' = [next EXCEPT ![c[k - 1]] = next[c[k]]]
                /\ prev' = IF k = m THEN prev ELSE [prev EXCEPT ![c[k + 1]] = c[k - 1]]
  BY <1>2, <1>11, <1>12, <1>13, <1>15 DEF RemoveCurrent
<1>17. Types'
  <2>1. next \in [Node -> Node \cup {null}] /\ next[c[k]] \in Node \cup {null} /\ next[c[1]] \in Node \cup {null}
    BY <1>1 DEF Types
  <2>2. front' \in Node \cup {null}
    BY <2>1, <1>10 DEF Types
  <2>3. current' \in Node \cup {null}
    BY <2>1, <2>2, <1>7
  <2>4. task' \in [Node -> Task \cup {null}]
    BY <1>7 DEF Types
  <2>5. next' \in [Node -> Node \cup {null}]
    BY <2>1, <1>14, <1>16
  <2>6. prev' \in [Node -> Node \cup {null}]
    BY <1>1, <1>11, <1>12, <1>14, <1>16 DEF Types
  <2>. QED
    BY <2>2, <2>3, <2>4, <2>5, <2>6 DEF Types
<1>18. front' = IF m - 1 = 0 THEN null ELSE d[1]
  <2>1. CASE k = 1
    <3>1. m # 1 => 1 \in 1 .. m - 1 /\ d[1] = c[2]
      BY <2>1, <1>1, <1>3
    <3>2. next[c[1]] = IF 1 = m THEN null ELSE c[2]
      BY <1>1
    <3>. QED
      BY <2>1, <3>1, <3>2, <1>1, <1>10
  <2>2. CASE k # 1
    <3>1. 1 \in 1 .. m - 1 /\ d[1] = c[1] /\ m - 1 # 0
      BY <2>2, <1>1, <1>3
    <3>. QED
      BY <2>2, <3>1, <1>1, <1>10
  <2>. QED
    BY <2>1, <2>2
<1>19. \A i \in 1 .. m - 1 : next'[d[i]] = IF i = m - 1 THEN null ELSE d[i + 1]
  <2> TAKE i \in 1 .. m - 1
  <2>1. d[i] = c[o(i)] /\ o(i) \in 1 .. m
    BY <1>3
  <2>2. i # m - 1 => i + 1 \in 1 .. m - 1 /\ d[i + 1] = c[o(i + 1)]
    BY <1>1, <1>3
  <2>3. next[c[o(i)]] = IF o(i) = m THEN null ELSE c[o(i) + 1]
    <3> HIDE DEF o
    <3>. QED
      BY <2>1, <1>1
  <2>4. CASE i = k - 1
    <3>1. k # 1 /\ o(i) = k - 1 /\ d[i] = c[k - 1]
      BY <2>1, <2>4, <1>1
    <3>2. next'[c[k - 1]] = next[c[k]]
      BY <3>1, <1>1, <1>11, <1>16 DEF Types
    <3>3. i # m - 1 => k # m /\ o(i + 1) = k + 1
      BY <2>4, <1>1
    <3>4. i = m - 1 => k = m
      BY <2>4, <1>1
    <3>. QED
      BY <3>1, <3>2, <3>3, <3>4, <2>2, <1>12, <1>13
  <2>5. CASE i # k - 1
    <3>1. o(i) # k - 1 /\ (o(i) = m <=> i = m - 1) /\ (i # m - 1 => o(i) + 1 = o(i + 1))
      BY <2>5, <1>1
    <3>2. k # 1 => k - 1 \in 1 .. m /\ c[o(i)] # c[k - 1]
      <4> HIDE DEF o
      <4>. QED
        BY <2>1, <3>1, <1>1, <1>11
    <3>3. next'[c[o(i)]] = next[c[o(i)]]
      <4>1. c[o(i)] \in Node
        <5> HIDE DEF o
        <5>. QED
          BY <2>1, <1>1
      <4> HIDE DEF o
      <4>. QED
        BY <4>1, <3>2, <1>14, <1>16 DEF Types
    <3> HIDE DEF o
    <3>. QED
      BY <3>1, <3>3, <2>1, <2>2, <2>3
  <2>. QED
    BY <2>4, <2>5
<1>20. \A i \in 2 .. m - 1 : prev'[d[i]] = d[i - 1]
  <2> TAKE i \in 2 .. m - 1
  <2>1. /\ i \in 1 .. m - 1 /\ i - 1 \in 1 .. m - 1
        /\ d[i] = c[o(i)] /\ o(i) \in 1 .. m /\ d[i - 1] = c[o(i - 1)] /\ o(i) \in 2 .. m
    BY <1>1, <1>3
  <2>2. prev[c[o(i)]] = c[o(i) - 1]
    <3> HIDE DEF o
    <3>. QED
      BY <2>1, <1>1
  <2>3. CASE i = k
    <3>1. k # 1 /\ k # m /\ o(i) = k + 1 /\ o(i - 1) = k - 1 /\ k + 1 \in 1 .. m
      BY <2>3, <1>1
    <3>2. prev'[c[k + 1]] = c[k - 1]
      BY <3>1, <1>1, <1>16 DEF Types
    <3>. QED
      BY <3>1, <3>2, <2>1
  <2>4. CASE i # k
    <3>1. o(i) # k + 1 /\ o(i) - 1 = o(i - 1)
      BY <2>4, <1>1
    <3>2. k # m => k + 1 \in 1 .. m /\ c[o(i)] # c[k + 1] /\ c[o(i)] \in Node
      <4> HIDE DEF o
      <4>. QED
        BY <2>1, <3>1, <1>1, <1>12
    <3>3. prev'[c[o(i)]] = prev[c[o(i)]]
      <4> HIDE DEF o
      <4>. QED
        BY <3>2, <1>14, <1>16 DEF Types
    <3> HIDE DEF o
    <3>. QED
      BY <3>1, <3>3, <2>1, <2>2
  <2>. QED
    BY <2>3, <2>4
<1>21. m - 1 # 0 => \E i \in 1 .. m - 1 : current' = d[i]
  <2> SUFFICES ASSUME m - 1 # 0 PROVE \E i \in 1 .. m - 1 : current' = d[i]
    OBVIOUS
  <2>1. CASE k = m
    <3>1. current' = d[1] /\ 1 \in 1 .. m - 1
      BY <2>1, <1>1, <1>7, <1>13, <1>18
    <3>. QED
      BY <3>1
  <2>2. CASE k # m
    <3>1. current' = c[k + 1]
      BY <2>2, <1>2, <1>7, <1>12
    <3>2. k \in 1 .. m - 1 /\ d[k] = c[k + 1]
      BY <2>2, <1>1, <1>3
    <3>. QED
      BY <3>1, <3>2
  <2>. QED
    BY <2>1, <2>2
<1>22. Linked(m - 1, d)'
  BY <1>1, <1>4, <1>9, <1>18, <1>19 DEF Linked
<1>23. Sound(m - 1, d)'
  BY <1>8, <1>9, <1>20, <1>21, <1>22 DEF Sound
<1>24. Adding(m - 1, d)'
  BY <1>2, <1>7 DEF Adding, NotAdding
<1>. QED
  BY <1>17, <1>23, <1>24 DEF d

-----------------------------------------------------------------------------
(* What a step does to the list, in terms of the abstract queue. *)
Cursor == IF front = null THEN null ELSE task[current]
Queue == [i \in 1 .. Length |-> task[Chain[i]]]

QueueOf(m, c) == Linked(m, c) => Queue = Tasks(m, c)

LEMMA QueueIs ==
  ASSUME NEW CONSTANT m, NEW CONSTANT c
  PROVE  QueueOf(m, c) /\ QueueOf(m, c)'
<1>1. QueueOf(m, c)
  BY ChainIs DEF QueueOf, Queue, Tasks
<1>. QED
  BY <1>1, PTL

LEMMA TasksType ==
  ASSUME NEW CONSTANT m, NEW CONSTANT c, Sound(m, c)
  PROVE  /\ m \in Nat /\ Tasks(m, c) \in Seq(Task) /\ Len(Tasks(m, c)) = m
         /\ \A i \in 1 .. m : Tasks(m, c)[i] = task[c[i]]
         /\ \A i, j \in 1 .. m : Tasks(m, c)[i] = Tasks(m, c)[j] => i = j
         /\ m = 0 => Queue = <<>> /\ Cursor = null
         /\ m # 0 => Queue # <<>> /\ Cursor = task[current]
         /\ DOMAIN Tasks(m, c) = 1 .. m
         /\ Queue = Tasks(m, c)
<1>1. m \in Nat /\ front = (IF m = 0 THEN null ELSE c[1]) /\ c \in [1 .. m -> Node] /\ Linked(m, c)
  BY DEF Sound, Linked
<1>2. Tasks(m, c) \in [1 .. m -> Task] /\ \A i \in 1 .. m : Tasks(m, c)[i] = task[c[i]]
  BY DEF Tasks, Sound
<1>3. Tasks(m, c) \in Seq(Task) /\ Len(Tasks(m, c)) = m
  BY <1>1, <1>2
<1>4. Queue = Tasks(m, c)
  BY <1>1, QueueIs DEF QueueOf
<1>5. \A i, j \in 1 .. m : Tasks(m, c)[i] = Tasks(m, c)[j] => i = j
  BY <1>2 DEF Sound
<1>6. m # 0 => front # null
  BY <1>1, NodeAssumption
<1>7. DOMAIN Tasks(m, c) = 1 .. m
  BY <1>2
<1>8. (m = 0 => Queue = <<>>) /\ (m # 0 => Queue # <<>>)
  BY <1>1, <1>3, <1>4
<1>. QED
  BY <1>1, <1>2, <1>3, <1>4, <1>5, <1>6, <1>7, <1>8 DEF Cursor

(* A step that leaves the list and the task of current alone changes       *)
(* nothing for the scheduler.                                              *)
LEMMA Stutters ==
  ASSUME NEW CONSTANT m, NEW CONSTANT c, Sound(m, c), Sound(m, c)',
         \A i \in 1 .. m : task'[c[i]] = task[c[i]],
         m # 0 => current' = current
  PROVE  UNCHANGED <<Queue, Cursor>>
<1>1. Tasks(m, c)' = Tasks(m, c)
  BY DEF Tasks
<1>2. Queue = Tasks(m, c) /\ Queue' = Tasks(m, c)'
  BY QueueIs DEF QueueOf, Sound
<1>3. m # 0 => task'[current'] = task[current]
  BY DEF Sound
<1>4. (front = null <=> m = 0) /\ (front' = null <=> m = 0)
  BY NodeAssumption DEF Sound, Linked
<1>. QED
  BY <1>1, <1>2, <1>3, <1>4 DEF Cursor

(* The k-th task is found at position k. *)
LEMMA PositionIs ==
  ASSUME NEW CONSTANT m, NEW CONSTANT c, Sound(m, c), NEW CONSTANT k \in 1 .. m, current = c[k]
  PROVE  Abstract!Position(Queue, Cursor) = k
<1>1. /\ DOMAIN Queue = 1 .. m /\ Queue[k] = Cursor
      /\ \A i \in 1 .. m : Queue[i] = Cursor => i = k
  BY TasksType
<1>. QED
  BY <1>1 DEF Abstract!Position

LEMMA AddFrontAdds ==
  ASSUME Types, NEW CONSTANT m, NEW CONSTANT c, Sound(m, c), Adding(m, c), AddFront
  PROVE  \E t \in Task : /\ t \notin {Queue[i] : i \in DOMAIN Queue}
                         /\ Queue' = <<t>> \o Queue
                         /\ Cursor' = IF Queue = <<>> THEN t ELSE Cursor
<1>1. PICK n : n = adding.node
  OBVIOUS
<1> DEFINE d == Longer(m, c, n)
           t == task[n]
<1>2. Sound(m + 1, d)'
  BY <1>1, AddFrontInv
<1>3. /\ n \in Node /\ task[n] \in Task /\ (m = 0 => current = n)
      /\ \A i \in 1 .. m : task[c[i]] # task[n]
      /\ UNCHANGED <<task, current>>
  BY <1>1 DEF Adding, NotAdding, AddFront
<1>4. /\ m \in Nat /\ Queue \in Seq(Task) /\ Len(Queue) = m /\ DOMAIN Queue = 1 .. m
      /\ \A i \in 1 .. m : Queue[i] = task[c[i]]
      /\ m = 0 => Queue = <<>> /\ Cursor = null
      /\ m # 0 => Queue # <<>> /\ Cursor = task[current]
  BY TasksType
<1>5. Queue' = Tasks(m + 1, d)'
  BY <1>2, QueueIs DEF QueueOf, Sound
<1>6. Tasks(m + 1, d)' = [i \in 1 .. m + 1 |-> task[d[i]]]
  BY <1>3 DEF Tasks
<1>7. \A i \in 1 .. m + 1 : task[d[i]] = IF i = 1 THEN t ELSE Queue[i - 1]
  BY <1>4, LongerIs
<1> HIDE DEF d
<1> DEFINE q == <<t>> \o Queue
<1>8. q \in Seq(Task) /\ Len(q) = m + 1
  BY <1>3, <1>4
<1>9. \A i \in 1 .. m + 1 : q[i] = IF i = 1 THEN t ELSE Queue[i - 1]
  BY <1>3, <1>4
<1>10. q = [i \in 1 .. m + 1 |-> q[i]]
  BY <1>8
<1> HIDE DEF q
<1>11. q = Queue'
  <2>1. \A i \in 1 .. m + 1 : q[i] = task[d[i]]
    BY <1>7, <1>9
  <2>. QED
    BY <2>1, <1>5, <1>6, <1>10, Zenon
<1>12. Cursor' = task[current]
  <2>1. front' # null
    BY <1>2, <1>4, NodeAssumption DEF Sound, Linked
  <2>. QED
    BY <2>1, <1>3 DEF Cursor
<1>13. Cursor' = IF Queue = <<>> THEN t ELSE Cursor
  BY <1>3, <1>4, <1>12
<1>14. t \notin {Queue[i] : i \in DOMAIN Queue}
  BY <1>3, <1>4
<1>. QED
  BY <1>3, <1>11, <1>13, <1>14 DEF q

LEMMA NextTaskAdvances ==
  ASSUME Types, NEW CONSTANT m, NEW CONSTANT c, Sound(m, c), Adding(m, c), NextTask
  PROVE  Queue # <<>> /\ Queue' = Queue /\ Cursor' = Abstract!NextTask(Queue, Cursor)
<1>1. /\ front # null /\ UNCHANGED <<front, task>>
      /\ current' = IF next[current] # null THEN next[current] ELSE front
  BY DEF NextTask
<1>2. m \in Nat /\ m # 0 /\ front = c[1] /\ c \in [1 .. m -> Node] /\ Linked(m, c)
  BY <1>1 DEF Sound, Linked
<1>3. PICK k \in 1 .. m : current = c[k]
  BY <1>2 DEF Sound
<1>4. next[c[k]] = IF k = m THEN null ELSE c[k + 1]
  BY DEF Sound, Linked
<1>5. Sound(m, c)'
  BY NextTaskInv
<1>6. Queue' = Queue
  BY <1>1, <1>2, <1>5, QueueIs DEF QueueOf, Sound, Tasks
<1>7. /\ Len(Queue) = m /\ Queue # <<>> /\ \A i \in 1 .. m : Queue[i] = task[c[i]]
  BY <1>2, TasksType
<1>8. Cursor' = task[current']
  BY <1>1 DEF Cursor
<1>9. Abstract!Position(Queue, Cursor) = k
  BY <1>3, PositionIs
<1>10. CASE k = m
  <2>1. ~(k < Len(Queue)) /\ 1 \in 1 .. m
    BY <1>2, <1>7, <1>10
  <2>2. Cursor' = Queue[1]
    BY <2>1, <1>1, <1>2, <1>3, <1>4, <1>7, <1>8, <1>10
  <2>. QED
    BY <2>1, <2>2, <1>6, <1>7, <1>9 DEF Abstract!NextTask
<1>11. CASE k # m
  <2>1. k < Len(Queue) /\ k + 1 \in 1 .. m
    BY <1>2, <1>7, <1>11
  <2>2. c[k + 1] # null
    BY <2>1, <1>2, NodeAssumption
  <2>. QED
    BY <2>1, <2>2, <1>1, <1>3, <1>4, <1>6, <1>7, <1>8, <1>9, <1>11 DEF Abstract!NextTask
<1>. QED
  BY <1>6, <1>7, <1>10, <1>11

LEMMA RemoveCurrentRemoves ==
  ASSUME Types, NEW CONSTANT m, NEW CONSTANT c, Sound(m, c), Adding(m, c), RemoveCurrent
  PROVE  /\ Queue # <<>> /\ Queue' = Abstract!Without(Queue, Cursor)
         /\ Cursor' = Abstract!CursorAfterRemove(Queue, Cursor, null)
<1>1. m \in Nat /\ m # 0 /\ front = c[1] /\ c \in [1 .. m -> Node] /\ Linked(m, c)
  BY DEF Sound, Linked, RemoveCurrent
<1>2. PICK k \in 1 .. m : current = c[k]
  BY <1>1 DEF Sound
<1> DEFINE d == Shorter(m, c, k)
<1>3. Sound(m - 1, d)'
  BY <1>2, RemoveCurrentInv
<1>4. /\ Len(Queue) = m /\ Queue # <<>> /\ \A i \in 1 .. m : Queue[i] = task[c[i]]
  BY <1>1, TasksType
<1>5. Abstract!Position(Queue, Cursor) = k
  BY <1>2, PositionIs
<1>6. /\ task' = [task EXCEPT ![c[k]] = null]
      /\ current' = IF next[c[k]] # null THEN next[c[k]] ELSE front'
      /\ next[c[k]] = IF k = m THEN null ELSE c[k + 1]
      /\ \A i, j \in 1 .. m : c[i] = c[j] => i = j
      /\ \A i \in 1 .. m : c[i] \in Node /\ c[i] # null
  BY <1>1, <1>2, NodeAssumption DEF RemoveCurrent, Linked
<1>7. \A i \in 1 .. m : i # k => task'[c[i]] = task[c[i]]
  BY <1>6 DEF Types
<1>8. \A i \in 1 .. m - 1 : task'[d[i]] = IF i < k THEN Queue[i] ELSE Queue[i + 1]
  <2> TAKE i \in 1 .. m - 1
  <2>1. d[i] = IF i < k THEN c[i] ELSE c[i + 1]
    BY DEF Shorter
  <2>2. i \in 1 .. m /\ i + 1 \in 1 .. m /\ (i < k => i # k) /\ (~(i < k) => i + 1 # k)
    BY <1>1
  <2>. QED
    BY <2>1, <2>2, <1>4, <1>7
<1>9. Queue' = Tasks(m - 1, d)'
  BY <1>3, QueueIs DEF QueueOf, Sound
<1> HIDE DEF d
<1>10. Tasks(m - 1, d)' = [i \in 1 .. m - 1 |-> task'[d[i]]]
  BY DEF Tasks
<1>11. Queue' = Abstract!Without(Queue, Cursor)
  BY <1>4, <1>5, <1>8, <1>9, <1>10, Zenon DEF Abstract!Without
<1>12. CASE m = 1
  <2>1. Cursor' = null
    BY <1>3, <1>12 DEF Sound, Linked, Cursor
  <2>. QED
    BY <2>1, <1>4, <1>11, <1>12 DEF Abstract!CursorAfterRemove
<1>13. CASE m # 1
  <2>1. m - 1 \in Nat /\ m - 1 # 0 /\ 1 \in 1 .. m /\ 2 \in 1 .. m /\ 1 \in 1 .. m - 1
    BY <1>1, <1>13
  <2>2. front' # null /\ front' = d[1]
    BY <2>1, <1>3, NodeAssumption DEF Sound, Linked
  <2>3. Cursor' = task'[current']
    BY <2>2 DEF Cursor
  <2>4. CASE k = m
    <3>1. current' = c[1] /\ 1 # k
      BY <2>1, <2>2, <2>4, <1>6, <1>13 DEF d, Shorter
    <3>2. Cursor' = Queue[1] /\ ~(k < Len(Queue))
      BY <3>1, <2>1, <2>3, <2>4, <1>1, <1>4, <1>7
    <3>. QED
      BY <3>2, <1>4, <1>5, <1>11, <1>13 DEF Abstract!CursorAfterRemove, Abstract!NextTask
  <2>5. CASE k # m
    <3>1. k + 1 \in 1 .. m /\ k + 1 # k /\ k < Len(Queue)
      BY <2>5, <1>1, <1>4
    <3>2. current' = c[k + 1]
      BY <3>1, <2>5, <1>6
    <3>3. Cursor' = Queue[k + 1]
      BY <3>1, <3>2, <2>3, <1>4, <1>7
    <3>. QED
      BY <3>1, <3>3, <1>4, <1>5, <1>11, <1>13 DEF Abstract!CursorAfterRemove, Abstract!NextTask
  <2>. QED
    BY <2>4, <2>5
<1>. QED
  BY <1>4, <1>11, <1>12, <1>13

-----------------------------------------------------------------------------
(* One step of add_task, next_task or remove_current, wherever schedule()  *)
(* interrupts add_task: the invariant is kept, and the step is one of      *)
(* TaskQueueSpec or changes nothing there.                                 *)
QueueStep ==
  \/ UNCHANGED <<Queue, Cursor>>
  \/ \E t \in Task : /\ t \notin {Queue[i] : i \in DOMAIN Queue}
                     /\ Queue' = <<t>> \o Queue
                     /\ Cursor' = IF Queue = <<>> THEN t ELSE Cursor
  \/ Queue # <<>> /\ Queue' = Queue /\ Cursor' = Abstract!NextTask(Queue, Cursor)
  \/ /\ Queue # <<>> /\ Queue' = Abstract!Without(Queue, Cursor)
     /\ Cursor' = Abstract!CursorAfterRemove(Queue, Cursor, null)

LEMMA NextInv == IInv /\ [Next]_vars => IInv' /\ QueueStep
<1> SUFFICES ASSUME IInv, [Next]_vars PROVE IInv' /\ QueueStep
  OBVIOUS
<1>1. Types
  BY DEF IInv
<1>2. PICK m, c : Sound(m, c) /\ Adding(m, c)
  BY DEF IInv
<1> DEFINE Keeps == Types' /\ Sound(m, c)' /\ Adding(m, c)'
<1>3. ASSUME Keeps, \A i \in 1 .. m : task'[c[i]] = task[c[i]], m # 0 => current' = current
      PROVE  IInv' /\ QueueStep
  <2>1. UNCHANGED <<Queue, Cursor>>
    BY <1>2, <1>3, Stutters
  <2>. QED
    BY <2>1, <1>3 DEF IInv, QueueStep
<1>4. ASSUME NEW t \in Task, NEW n \in Node, AddNew(t, n) PROVE IInv' /\ QueueStep
  <2>1. Keeps
    BY <1>1, <1>2, <1>4, AddNewInv
  <2>2. \A i \in 1 .. m : task'[c[i]] = task[c[i]]
    <3> TAKE i \in 1 .. m
    <3>1. c[i] \in Node /\ c[i] # n
      BY <1>2, <1>4 DEF Sound, Linked, AddNew
    <3>. QED
      BY <3>1, <1>1, <1>4 DEF AddNew, Types
  <2>3. current' = current
    BY <1>4 DEF AddNew
  <2> HIDE DEF Keeps
  <2>. QED
    BY <2>1, <2>2, <2>3, <1>3
<1>5. CASE AddCurrent
  <2>1. Keeps
    BY <1>1, <1>2, <1>5, AddCurrentInv
  <2>2. task' = task /\ m = 0
    BY <1>2, <1>5 DEF AddCurrent, Adding, NotAdding
  <2> HIDE DEF Keeps
  <2>. QED
    BY <2>1, <2>2, <1>3
<1>6. CASE AddNext
  <2>1. Keeps
    BY <1>1, <1>2, <1>6, AddNextInv
  <2>2. task' = task /\ current' = current
    BY <1>6 DEF AddNext
  <2> HIDE DEF Keeps
  <2>. QED
    BY <2>1, <2>2, <1>3
<1>7. CASE AddPrev
  <2>1. Keeps
    BY <1>1, <1>2, <1>7, AddPrevInv
  <2>2. task' = task /\ current' = current
    BY <1>7 DEF AddPrev
  <2> HIDE DEF Keeps
  <2>. QED
    BY <2>1, <2>2, <1>3
<1>8. CASE AddFront
  <2>1. PICK n : n = adding.node
    OBVIOUS
  <2>2. Types' /\ Sound(m + 1, Longer(m, c, n))' /\ Adding(m + 1, Longer(m, c, n))'
    BY <2>1, <1>1, <1>2, <1>8, AddFrontInv
  <2>3. QueueStep
    BY <1>1, <1>2, <1>8, AddFrontAdds DEF QueueStep
  <2>. QED
    BY <2>2, <2>3 DEF IInv
<1>9. CASE NextTask
  <2>1. Keeps
    BY <1>1, <1>2, <1>9, NextTaskInv
  <2>2. QueueStep
    BY <1>1, <1>2, <1>9, NextTaskAdvances DEF QueueStep
  <2>. QED
    BY <2>1, <2>2 DEF IInv
<1>10. CASE RemoveCurrent
  <2>1. PICK k \in 1 .. m : current = c[k]
    BY <1>2, <1>10 DEF Sound, Linked, RemoveCurrent
  <2>2. Types' /\ Sound(m - 1, Shorter(m, c, k))' /\ Adding(m - 1, Shorter(m, c, k))'
    BY <2>1, <1>1, <1>2, <1>10, RemoveCurrentInv
  <2>3. QueueStep
    BY <1>1, <1>2, <1>10, RemoveCurrentRemoves DEF QueueStep
  <2>. QED
    BY <2>2, <2>3 DEF IInv
<1>11. CASE UNCHANGED vars
  <2>1. Keeps /\ task' = task /\ current' = current
    BY <1>1, <1>2, <1>11 DEF vars, Types, Sound, Linked, Adding
  <2> HIDE DEF Keeps
  <2>. QED
    BY <2>1, <1>3
<1>. QED
  BY <1>4, <1>5, <1>6, <1>7, <1>8, <1>9, <1>10, <1>11 DEF Next

LEMMA Invariance == Spec => []IInv
<1>1. Init => IInv
  BY InitInv DEF IInv
<1>2. IInv /\ [Next]_vars => IInv'
  BY NextInv
<1>. QED
  BY <1>1, <1>2, PTL DEF Spec

(* The pointers that the methods of TaskList follow are sound whenever     *)
(* schedule() may run, for any number of nodes and tasks.                  *)
THEOREM WellLinkedCorrect == Spec => []WellLinked
<1>1. IInv => WellLinked
  <2> SUFFICES ASSUME IInv PROVE WellLinked
    OBVIOUS
  <2>1. PICK m, c : Sound(m, c)
    BY DEF IInv
  <2>2. /\ m \in Nat /\ Length = m /\ Chain = c /\ NodeAt(Cardinality(Node)) = null
        /\ Reachable = {c[i] : i \in 1 .. m}
    <3>1. Linked(m, c) /\ m \in Nat
      BY <2>1 DEF Sound, Linked
    <3>. QED
      BY <3>1, ChainIs
  <2>3. Reachable \subseteq allocated
    BY <2>1, <2>2 DEF Sound
  <2>4. front # null => current \in Reachable
    BY <2>1, <2>2 DEF Sound, Linked
  <2>5. \A i \in 2 .. Length : prev[Chain[i]] = Chain[i - 1]
    BY <2>1, <2>2 DEF Sound
  <2>6. Types
    BY DEF IInv
  <2>. QED
    BY <2>2, <2>3, <2>4, <2>5, <2>6 DEF WellLinked, Types
<1>. QED
  BY <1>1, Invariance, PTL

(* add_task, next_task and remove_current implement the queue with a       *)
(* cursor that Scheduler is built on, although schedule() may interrupt    *)
(* add_task after each of its assignments.                                 *)
THEOREM RefinesQueueCorrect == Spec => RefinesQueue
<1>1. Init => Abstract!Init
  <2> SUFFICES ASSUME Init PROVE Abstract!Init
    OBVIOUS
  <2>1. Queue = <<>> /\ Cursor = null
    BY InitInv, TasksType
  <2>. QED
    BY <2>1 DEF Abstract!Init, Queue, Cursor
<1>2. IInv /\ [Next]_vars => [Abstract!Next]_<<Queue, Cursor>>
  <2> SUFFICES ASSUME QueueStep PROVE [Abstract!Next]_<<Queue, Cursor>>
    BY NextInv
  <2>. QED
    BY DEF QueueStep, Queue, Cursor, Abstract!Next, Abstract!Add, Abstract!Advance, Abstract!Remove,
           Abstract!AddTask, Abstract!CursorAfterAdd, Abstract!Elems
<1>3. [Abstract!Next]_<<Queue, Cursor>>
        => [Abstract!Next]_<<[i \in 1 .. Length |-> task[Chain[i]]],
                             IF front = null THEN null ELSE task[current]>>
  BY DEF Queue, Cursor
<1>. QED
  BY <1>1, <1>2, <1>3, Invariance, PTL DEF Spec, RefinesQueue, Abstract!Spec
=============================================================================
