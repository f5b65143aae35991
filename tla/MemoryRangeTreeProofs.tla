----------------------- MODULE MemoryRangeTreeProofs -----------------------
(* Proofs about MemoryRangeTree for every address space and all objects: the
   leaves hold exactly the objects that overlap them, a leaf of one address
   never splits, the list of the leaves tiles the address space, and queries find
   exactly what overlaps. *)
EXTENDS MemoryRangeTree, WellFoundedInduction, FiniteSetTheorems, TLAPS

(* A set of natural numbers that is not empty has a least member: what these
   proofs use in place of induction. *)
LEMMA Least ==
  ASSUME NEW S, S \subseteq Nat, S # {}
  PROVE  \E x \in S : \A y \in S : x <= y
<1> DEFINE R == OpToRel(<, Nat)
<1>1. IsWellFoundedOn(R, Nat)
  BY NatLessThanWellFounded
<1>2. \A x, y \in Nat : x < y => <<x, y>> \in R
  BY DEF OpToRel
<1> HIDE DEF R
<1>3. PICK x \in S : \A y \in S : <<y, x>> \notin R
  BY <1>1, WFMin
<1>4. \A y \in S : ~(y < x)
  BY <1>2, <1>3
<1>5. \A y \in S : x <= y
  BY <1>4
<1> QED  BY <1>5

Disjoint(m, n) == m[2] < n[1] \/ n[2] < m[1]

(* The nodes are intervals, and those with children are of two addresses at
   least. *)
Shape ==
  /\ nodes \subseteq Node /\ inner \subseteq nodes
  /\ stored \subseteq Items /\ calls \subseteq nodes \X stored
  /\ items \in [nodes -> SUBSET stored]
  /\ \A n \in nodes : n[1] <= n[2]
  /\ \A m \in inner : m[1] < m[2] /\ Left(m) \in nodes /\ Right(m) \in nodes
  /\ nodes = {} => stored = {}
  /\ nodes # {} => Root \in nodes

(* A leaf is within a child of every node that it is not disjoint from. *)
Laminar ==
  \A n \in Leaves, m \in nodes :
    \/ m = n \/ Disjoint(m, n)
    \/ m \in inner /\ (Within(n, Left(m)) \/ Within(n, Right(m)))

CallsOverlap == \A c \in calls : Overlaps(c[2], c[1])

Kept == \A n \in Leaves : \A i \in items[n] : Covers(i, n)

(* In the middle of an insertion too, an object that overlaps a leaf is there
   or on its way there: insert() is still to be called for it, at the leaf or at
   a node above. *)
OnItsWay(i, n) == \E m \in nodes : <<m, i>> \in calls /\ Within(n, m)

Reach ==
  \A n \in Leaves, i \in stored : Overlaps(i, n) => i \in items[n] \/ OnItsWay(i, n)

TreeInv == Shape /\ Laminar /\ CallsOverlap /\ Kept /\ Reach

---------------------------------------------------------------------------
(* The halves of an interval of two addresses or more tile it. *)
LEMMA Halves ==
  ASSUME NEW n \in Node, n[1] < n[2]
  PROVE  /\ Left(n) \in Node /\ Right(n) \in Node
         /\ Left(n)[1] = n[1] /\ Left(n)[1] <= Left(n)[2]
         /\ Right(n)[1] = Left(n)[2] + 1
         /\ Right(n)[2] = n[2] /\ Right(n)[1] <= Right(n)[2]
<1> DEFINE a == n[1]  b == n[2]  m == Middle(n)
<1>1. a \in 0 .. SpaceEnd /\ b \in 0 .. SpaceEnd /\ a < b
  BY DEF Node
<1>2. m \in Int /\ a <= m /\ m < b
  <2> HIDE DEF a, b
  <2>1. m = a + (b - a) \div 2
    BY DEF Middle, a, b
  <2>2. (b - a) \div 2 \in Int /\ 0 <= (b - a) \div 2 /\ (b - a) \div 2 < b - a
    BY <1>1, SpaceAssumption
  <2> QED
    BY <1>1, <2>1, <2>2, SpaceAssumption
<1>3. Left(n) = <<a, m>> /\ Right(n) = <<m + 1, b>>
  BY DEF Left, Right
<1> HIDE DEF a, b, m
<1>4. m \in 0 .. SpaceEnd /\ m + 1 \in 0 .. SpaceEnd
  BY <1>1, <1>2, SpaceAssumption
<1>5. <<a, m>> \in Node /\ <<m + 1, b>> \in Node
  BY <1>1, <1>4 DEF Node
<1> QED
  BY <1>1, <1>2, <1>3, <1>5, SpaceAssumption DEF a, b

(* The intervals of nodes, as numbers. *)
LEMMA NodeNumbers ==
  ASSUME NEW n \in Node
  PROVE  n[1] \in Int /\ n[2] \in Int /\ 0 <= n[1] /\ n[2] <= SpaceEnd /\ 0 <= n[2]
  BY SpaceAssumption DEF Node

(* The root is a node and covers the address space. *)
LEMMA RootNode ==
  Root \in Node /\ Root[1] = 0 /\ Root[2] = SpaceEnd /\ SpaceEnd \in Int /\ 0 <= SpaceEnd
  BY SpaceAssumption DEF Root, Node

(* The intervals of objects, as numbers. *)
LEMMA ItemNumbers ==
  ASSUME NEW i \in Items
  PROVE  Addr[i] \in Int /\ EndAddr[i] \in Int /\ Addr[i] <= EndAddr[i]
         /\ 0 <= Addr[i] /\ Addr[i] <= SpaceEnd
  BY ItemsAssumption, SpaceAssumption

---------------------------------------------------------------------------
(* The empty tree satisfies the invariant. *)
LEMMA TreeInit == Init => TreeInv
  BY DEF Init, TreeInv, Shape, Laminar, CallsOverlap, Kept, Reach, Leaves, OnItsWay

(* MemoryRangeTree::insert() keeps the invariant: the new object is on its
   way to every leaf it overlaps. *)
LEMMA InsertStep ==
  ASSUME TreeInv, NEW i \in Items, Insert(i)
  PROVE  TreeInv'
<1>1. CASE nodes = {}
  <2>1. /\ nodes' = {Root} /\ inner' = {} /\ stored' = {i}
        /\ calls' = {<<Root, i>>} /\ items' = [n \in {Root} |-> {}]
    BY <1>1 DEF TreeInv, Shape, Insert
  <2>2. Leaves' = {Root}
    BY <2>1 DEF Leaves
  <2>3. Overlaps(i, Root)
    BY RootNode, ItemNumbers DEF Overlaps
  <2>4. Shape'
    BY <2>1, RootNode DEF Shape
  <2>5. Laminar'
    BY <2>1, <2>2 DEF Laminar
  <2>6. CallsOverlap'
    BY <2>1, <2>3 DEF CallsOverlap, Overlaps
  <2>7. Kept'
    BY <2>1, <2>2 DEF Kept
  <2>8. Reach'
    <3>1. Within(Root, Root)
      BY RootNode DEF Within
    <3> QED  BY <2>1, <2>2, <3>1 DEF Reach, OnItsWay, Overlaps, Within
  <2> QED  BY <2>4, <2>5, <2>6, <2>7, <2>8 DEF TreeInv
<1>2. CASE nodes # {}
  <2>1. /\ nodes' = nodes /\ inner' = inner /\ stored' = stored \cup {i}
        /\ calls = {} /\ calls' = {<<Root, i>>} /\ items' = items
    BY <1>2 DEF Insert
  <2>2. Leaves' = Leaves
    BY <2>1 DEF Leaves
  <2>3. Overlaps(i, Root)
    BY RootNode, ItemNumbers DEF Overlaps
  <2>4. Shape'
    BY <1>2, <2>1 DEF TreeInv, Shape, Left, Right, Middle
  <2>5. Laminar'
    BY <2>1, <2>2 DEF TreeInv, Laminar, Disjoint, Within, Left, Right, Middle
  <2>6. CallsOverlap'
    BY <2>1, <2>3 DEF CallsOverlap, Overlaps
  <2>7. Kept'
    BY <2>1, <2>2 DEF TreeInv, Kept, Covers
  <2>8. Reach'
    <3> SUFFICES ASSUME NEW n \in Leaves, NEW j \in stored', Overlaps(j, n)
                 PROVE  j \in items[n] \/ OnItsWay(j, n)'
      BY <2>1, <2>2 DEF Reach, Overlaps
    <3>1. CASE j = i
      <4>1. n \in Node
        BY DEF TreeInv, Shape, Leaves
      <4>2. Within(n, Root)
        BY <4>1, NodeNumbers, RootNode DEF Within
      <4> QED  BY <1>2, <2>1, <3>1, <4>2 DEF TreeInv, Shape, OnItsWay, Within
    <3>2. CASE j \in stored
      BY <2>1, <3>2 DEF TreeInv, Reach, OnItsWay
    <3> QED  BY <2>1, <3>1, <3>2
  <2> QED  BY <2>4, <2>5, <2>6, <2>7, <2>8 DEF TreeInv
<1> QED  BY <1>1, <1>2

(* clear() keeps the invariant. *)
LEMMA ClearStep ==
  ASSUME TreeInv, Clear
  PROVE  TreeInv'
  BY DEF Clear, TreeInv, Shape, Laminar, CallsOverlap, Kept, Reach, Leaves, OnItsWay

(* The calls that a node hands down are for its children and overlap them, if
   the node's objects overlap the node. *)
LEMMA HandDownType ==
  ASSUME NEW n \in Node, n[1] < n[2], NEW is \in SUBSET Items,
         \A i \in is : Overlaps(i, n)
  PROVE  /\ HandDown(n, is) \subseteq {Left(n), Right(n)} \X is
         /\ \A c \in HandDown(n, is) : Overlaps(c[2], c[1])
<1> USE Halves
<1>1. HandDown(n, is) \subseteq {Left(n), Right(n)} \X is
  BY DEF HandDown
<1>2. ASSUME NEW c \in HandDown(n, is)
      PROVE  Overlaps(c[2], c[1])
  <2>1. c \in {Left(n), Right(n)} \X is
    BY <1>1
  <2>2. PICK i \in is : \/ c = <<Left(n), i>> /\ Addr[i] <= Left(n)[2]
                        \/ c = <<Right(n), i>> /\ EndAddr[i] >= Right(n)[1]
    BY DEF HandDown
  <2>3. Addr[i] <= n[2] /\ n[1] <= EndAddr[i]
    BY DEF Overlaps
  <2>4. CASE c = <<Left(n), i>> /\ Addr[i] <= Left(n)[2]
    BY <2>3, <2>4 DEF Overlaps
  <2>5. CASE c = <<Right(n), i>> /\ EndAddr[i] >= Right(n)[1]
    <3>1. Right(n)[1] <= EndAddr[i]
      BY <2>5, ItemNumbers, NodeNumbers
    <3> QED  BY <2>3, <2>5, <3>1 DEF Overlaps
  <2> QED  BY <2>2, <2>4, <2>5
<1> QED  BY <1>1, <1>2

(* An object that overlaps a part of one child is handed down to it. *)
LEMMA HandDownReaches ==
  ASSUME NEW n \in Node, n[1] < n[2], NEW is \in SUBSET Items, NEW i \in is,
         NEW k \in Node, Overlaps(i, k)
  PROVE  /\ Within(k, Left(n)) => <<Left(n), i>> \in HandDown(n, is)
         /\ Within(k, Right(n)) => <<Right(n), i>> \in HandDown(n, is)
<1>1. ASSUME Within(k, Left(n)) PROVE Addr[i] <= Left(n)[2]
  BY <1>1, Halves, ItemNumbers, NodeNumbers DEF Within, Overlaps
<1>2. ASSUME Within(k, Right(n)) PROVE EndAddr[i] >= Right(n)[1]
  BY <1>2, Halves, ItemNumbers, NodeNumbers DEF Within, Overlaps
<1> QED  BY <1>1, <1>2 DEF HandDown

(* The step of a node with children keeps the invariant: it passes the
   object on to each child that it overlaps. *)
LEMMA DescendStep ==
  ASSUME TreeInv, NEW n, NEW i, <<n, i>> \in calls, Descend(n, i)
  PROVE  TreeInv'
<1>1. /\ nodes' = nodes /\ inner' = inner /\ items' = items /\ stored' = stored
      /\ calls' = (calls \ {<<n, i>>}) \cup HandDown(n, {i})
      /\ Leaves' = Leaves
  BY DEF Descend, Leaves
<1>2. /\ n \in inner /\ n \in nodes /\ n \in Node /\ i \in stored /\ i \in Items
      /\ n[1] < n[2] /\ Left(n) \in nodes /\ Right(n) \in nodes
      /\ Overlaps(i, n)
  BY DEF Descend, TreeInv, Shape, CallsOverlap
<1>3. /\ HandDown(n, {i}) \subseteq {Left(n), Right(n)} \X {i}
      /\ \A c \in HandDown(n, {i}) : Overlaps(c[2], c[1])
  BY <1>2, HandDownType
<1>4. Shape'
  <2>1. HandDown(n, {i}) \subseteq nodes \X stored
    BY <1>2, <1>3
  <2> QED  BY <1>1, <2>1 DEF TreeInv, Shape, Left, Right, Middle
<1>5. Laminar'
  BY <1>1 DEF TreeInv, Laminar, Disjoint, Within, Left, Right, Middle
<1>6. CallsOverlap'
  BY <1>1, <1>3 DEF TreeInv, CallsOverlap, Overlaps
<1>7. Kept'
  BY <1>1 DEF TreeInv, Kept, Covers
<1>8. Reach'
  <2> SUFFICES ASSUME NEW k \in Leaves, NEW j \in stored, Overlaps(j, k), j \notin items[k]
               PROVE  OnItsWay(j, k)'
    BY <1>1 DEF Reach, Overlaps
  <2>1. PICK m \in nodes : <<m, j>> \in calls /\ Within(k, m)
    BY DEF TreeInv, Reach, OnItsWay
  <2>2. CASE <<m, j>> # <<n, i>>
    BY <1>1, <2>1, <2>2 DEF OnItsWay, Within
  <2>3. CASE m = n /\ j = i
    <3>1. k \in Node /\ k[1] <= k[2]
      BY DEF TreeInv, Shape, Leaves
    <3>2. k # n /\ ~Disjoint(n, k)
      BY <1>2, <2>1, <2>3, <3>1, NodeNumbers DEF Disjoint, Within, Leaves
    <3>3. Within(k, Left(n)) \/ Within(k, Right(n))
      BY <1>2, <3>2 DEF TreeInv, Laminar
    <3>4. PICK h \in {Left(n), Right(n)} : <<h, i>> \in HandDown(n, {i}) /\ Within(k, h)
      BY <1>2, <2>3, <3>1, <3>3, HandDownReaches
    <3> QED  BY <1>1, <1>2, <2>3, <3>4 DEF OnItsWay, Within
  <2> QED  BY <2>2, <2>3
<1> QED  BY <1>4, <1>5, <1>6, <1>7, <1>8 DEF TreeInv

(* The step of a leaf that takes an object keeps the invariant. *)
LEMMA KeepStep ==
  ASSUME TreeInv, NEW n, NEW i, <<n, i>> \in calls, Keep(n, i)
  PROVE  TreeInv'
<1>1. /\ nodes' = nodes /\ inner' = inner /\ stored' = stored
      /\ calls' = calls \ {<<n, i>>} /\ Leaves' = Leaves
      /\ items' = [items EXCEPT ![n] = @ \cup {i}]
  BY DEF Keep, Leaves
<1>2. n \in Leaves /\ n \in nodes /\ n \in Node /\ i \in stored /\ i \in Items /\ Fits(i, n)
  BY DEF Keep, TreeInv, Shape
<1>3. Covers(i, n)
  BY <1>2, ItemNumbers, NodeNumbers DEF Fits, Covers
<1>4. Shape'
  BY <1>1, <1>2 DEF TreeInv, Shape, Left, Right, Middle
<1>5. Laminar'
  BY <1>1 DEF TreeInv, Laminar, Disjoint, Within, Left, Right, Middle
<1>6. CallsOverlap'
  BY <1>1 DEF TreeInv, CallsOverlap, Overlaps
<1>7. Kept'
  <2> SUFFICES ASSUME NEW k \in Leaves, NEW j \in items'[k] PROVE Covers(j, k)
    BY <1>1 DEF Kept, Covers
  <2>1. k \in nodes /\ items \in [nodes -> SUBSET stored]
    BY DEF TreeInv, Shape, Leaves
  <2>2. j \in items[k] \/ (k = n /\ j = i)
    BY <1>1, <2>1
  <2> QED  BY <1>3, <2>2 DEF TreeInv, Kept
<1>8. Reach'
  <2> SUFFICES ASSUME NEW k \in Leaves, NEW j \in stored, Overlaps(j, k), j \notin items'[k]
               PROVE  OnItsWay(j, k)'
    BY <1>1 DEF Reach, Overlaps
  <2>0. k \in nodes /\ items \in [nodes -> SUBSET stored]
    BY DEF TreeInv, Shape, Leaves
  <2>1. PICK m \in nodes : <<m, j>> \in calls /\ Within(k, m)
    BY <1>1, <2>0 DEF TreeInv, Reach, OnItsWay
  <2>2. CASE <<m, j>> # <<n, i>>
    BY <1>1, <2>1, <2>2 DEF OnItsWay, Within
  <2>3. CASE m = n /\ j = i
    <3>1. k \in Node /\ k[1] <= k[2]
      BY DEF TreeInv, Shape, Leaves
    <3>2. ~Disjoint(n, k)
      BY <1>2, <2>1, <2>3, <3>1, NodeNumbers DEF Disjoint, Within
    <3>3. k = n
      BY <1>2, <3>2 DEF TreeInv, Laminar, Leaves
    <3> QED  BY <1>1, <2>0, <2>3, <3>3
  <2> QED  BY <2>2, <2>3
<1> QED  BY <1>4, <1>5, <1>6, <1>7, <1>8 DEF TreeInv

(* The children of a leaf that splits are new nodes, and the leaves they become
   lie within it. *)
LEMMA Children ==
  ASSUME TreeInv, NEW n \in Leaves, n[1] < n[2]
  PROVE  /\ Left(n) \notin nodes /\ Right(n) \notin nodes
         /\ Left(n) # n /\ Right(n) # n /\ Left(n) # Right(n)
         /\ Within(Left(n), n) /\ Within(Right(n), n)
<1>1. n \in Node /\ n \in nodes
  BY DEF TreeInv, Shape, Leaves
<1>2. Within(Left(n), n) /\ Within(Right(n), n)
  BY <1>1, Halves, NodeNumbers DEF Within
<1>3. Left(n) # n /\ Right(n) # n /\ Left(n) # Right(n)
  BY <1>1, Halves, NodeNumbers
<1>4. ASSUME NEW m \in {Left(n), Right(n)}, m \in nodes
      PROVE  FALSE
  <2>1. m \in Node /\ m[1] <= m[2] /\ Within(m, n) /\ m # n
    BY <1>1, <1>2, <1>3, Halves
  <2>2. ~Disjoint(m, n)
    BY <1>1, <2>1, NodeNumbers DEF Disjoint, Within
  <2>3. m \in inner /\ (Within(n, Left(m)) \/ Within(n, Right(m)))
    BY <1>4, <2>1, <2>2 DEF TreeInv, Laminar
  <2>4. m[1] < m[2]
    BY <2>3 DEF TreeInv, Shape
  <2> QED  BY <1>1, <2>1, <2>3, <2>4, Halves, NodeNumbers DEF Within
<1> QED  BY <1>2, <1>3, <1>4

(* A leaf that splits keeps the invariant: its objects are on their way to
   whichever of the two new leaves they overlap. *)
LEMMA SplitStep ==
  ASSUME TreeInv, NEW n, NEW i, <<n, i>> \in calls, Split(n, i)
  PROVE  TreeInv'
<1> DEFINE l == Left(n)  r == Right(n)  is == items[n] \cup {i}
<1>1. /\ n \in Leaves /\ n \in nodes /\ n \in Node /\ i \in stored /\ i \in Items
      /\ ~Fits(i, n) /\ Overlaps(i, n) /\ n[1] <= n[2]
  BY DEF Split, TreeInv, Shape, CallsOverlap
<1>2. n[1] < n[2]
  BY <1>1, ItemNumbers, NodeNumbers DEF Fits, Overlaps
<1>3. /\ nodes' = nodes \cup {l, r} /\ inner' = inner \cup {n} /\ stored' = stored
      /\ calls' = (calls \ {<<n, i>>}) \cup HandDown(n, is)
      /\ items' = [m \in nodes' |-> IF m \in nodes \ {n} THEN items[m] ELSE {}]
  BY DEF Split
<1>4. /\ l \in Node /\ r \in Node /\ l[1] = n[1] /\ l[1] <= l[2]
      /\ r[1] = l[2] + 1 /\ r[2] = n[2] /\ r[1] <= r[2]
  BY <1>1, <1>2, Halves
<1>5. /\ l \notin nodes /\ r \notin nodes /\ l # n /\ r # n /\ l # r
      /\ Within(l, n) /\ Within(r, n)
  BY <1>1, <1>2, Children
<1> HIDE DEF l, r
<1>6. Leaves' = (Leaves \ {n}) \cup {l, r}
  BY <1>1, <1>3, <1>5 DEF Leaves, TreeInv, Shape
<1>7. is \in SUBSET Items /\ is \subseteq stored /\ \A j \in is : Overlaps(j, n)
  <2>1. items[n] \subseteq stored /\ stored \subseteq Items
    BY <1>1 DEF TreeInv, Shape
  <2>2. ASSUME NEW j \in items[n] PROVE Overlaps(j, n)
    <3>1. Covers(j, n) /\ j \in Items
      BY <1>1, <2>1 DEF TreeInv, Kept
    <3> QED  BY <1>1, <3>1, ItemNumbers, NodeNumbers DEF Covers, Overlaps
  <2> QED  BY <1>1, <2>1, <2>2
<1>8. /\ HandDown(n, is) \subseteq {l, r} \X is
      /\ \A c \in HandDown(n, is) : Overlaps(c[2], c[1])
  <2> HIDE DEF is
  <2> QED  BY <1>1, <1>2, <1>7, HandDownType DEF l, r
<1>9. Shape'
  <2>1. HandDown(n, is) \subseteq nodes' \X stored
    BY <1>3, <1>7, <1>8
  <2>2. items' \in [nodes' -> SUBSET stored']
    BY <1>3 DEF TreeInv, Shape
  <2>3. \A m \in inner' : m[1] < m[2] /\ Left(m) \in nodes' /\ Right(m) \in nodes'
    BY <1>2, <1>3 DEF TreeInv, Shape, l, r
  <2>4. \A m \in nodes' : m[1] <= m[2]
    BY <1>3, <1>4 DEF TreeInv, Shape
  <2>5. nodes' \subseteq Node /\ inner' \subseteq nodes' /\ stored' \subseteq Items
    BY <1>1, <1>3, <1>4 DEF TreeInv, Shape
  <2>6. calls' \subseteq nodes' \X stored'
    BY <1>3, <2>1 DEF TreeInv, Shape
  <2>7. nodes' # {} /\ Root \in nodes'
    BY <1>1, <1>3 DEF TreeInv, Shape
  <2> QED
    BY <2>2, <2>3, <2>4, <2>5, <2>6, <2>7 DEF Shape, Left, Right, Middle, Root
<1>10. Laminar'
  <2> SUFFICES ASSUME NEW k \in Leaves', NEW m \in nodes', m # k, ~Disjoint(m, k)
               PROVE  m \in inner' /\ (Within(k, Left(m)) \/ Within(k, Right(m)))
    BY DEF Laminar, Disjoint, Within, Left, Right, Middle
  <2>1. k \in Node /\ m \in Node /\ k[1] <= k[2] /\ m[1] <= m[2]
    BY <1>4, <1>6, <1>3 DEF TreeInv, Shape, Leaves
  <2>2. CASE k \in Leaves \ {n} /\ m \in nodes
    BY <1>3, <2>2 DEF TreeInv, Laminar
  <2>3. CASE k \in Leaves \ {n} /\ m \in {l, r}
    <3>1. Disjoint(n, k)
      BY <1>1, <2>3 DEF TreeInv, Laminar, Leaves
    <3> QED  BY <1>1, <1>5, <2>1, <2>3, <3>1, NodeNumbers DEF Disjoint, Within
  <2>4. CASE k \in {l, r} /\ m = n
    <3>1. Within(l, l) /\ Within(r, r)
      BY <1>4, NodeNumbers DEF Within
    <3> QED  BY <1>3, <2>4, <3>1 DEF l, r
  <2>5. CASE k \in {l, r} /\ m \in nodes \ {n}
    <3>1. ~Disjoint(m, n)
      BY <1>1, <1>5, <2>1, <2>5, NodeNumbers DEF Disjoint, Within
    <3>2. m \in inner /\ (Within(n, Left(m)) \/ Within(n, Right(m)))
      BY <1>1, <2>5, <3>1 DEF TreeInv, Laminar
    <3>3. Left(m) \in Node /\ Right(m) \in Node
      BY <3>2 DEF TreeInv, Shape
    <3>4. Within(k, Left(m)) \/ Within(k, Right(m))
      BY <1>1, <1>5, <2>1, <2>5, <3>2, <3>3, NodeNumbers DEF Within
    <3> QED  BY <1>3, <3>2, <3>4
  <2>6. CASE k \in {l, r} /\ m \in {l, r}
    BY <1>4, <2>1, <2>6, NodeNumbers DEF Disjoint
  <2> QED  BY <1>3, <1>6, <2>2, <2>3, <2>4, <2>5, <2>6
<1>11. CallsOverlap'
  BY <1>3, <1>8 DEF TreeInv, CallsOverlap, Overlaps
<1>12. Kept'
  BY <1>3, <1>5, <1>6 DEF TreeInv, Kept, Covers, Leaves
<1>13. Reach'
  <2> SUFFICES ASSUME NEW k \in Leaves', NEW j \in stored, Overlaps(j, k), j \notin items'[k]
               PROVE  OnItsWay(j, k)'
    BY <1>3 DEF Reach, Overlaps
  <2>0. j \in Items
    BY DEF TreeInv, Shape
  <2>1. CASE k \in Leaves \ {n}
    <3>1. k \in nodes \ {n} /\ j \notin items[k]
      BY <1>3, <2>1 DEF Leaves
    <3>2. PICK m \in nodes : <<m, j>> \in calls /\ Within(k, m)
      BY <2>1, <3>1 DEF TreeInv, Reach, OnItsWay
    <3>3. m # n
      <4>1. Disjoint(n, k) /\ k \in Node /\ k[1] <= k[2]
        BY <1>1, <2>1, <3>1 DEF TreeInv, Laminar, Leaves, Shape
      <4> QED  BY <1>1, <3>2, <4>1, NodeNumbers DEF Disjoint, Within
    <3> QED  BY <1>3, <3>2, <3>3 DEF OnItsWay, Within
  <2>2. CASE k \in {l, r}
    <3>1. k \in Node /\ Within(k, n) /\ k[1] <= k[2]
      BY <1>4, <1>5, <2>2
    <3>2. Overlaps(j, n)
      BY <1>1, <2>0, <3>1, ItemNumbers, NodeNumbers DEF Overlaps, Within
    <3>3. CASE j \in is
      <4>1. Within(l, l) /\ Within(r, r)
        BY <1>4, NodeNumbers DEF Within
      <4>2. <<k, j>> \in HandDown(n, is)
        <5> HIDE DEF is
        <5> QED  BY <1>1, <1>2, <1>7, <2>2, <3>1, <3>3, <4>1, HandDownReaches DEF l, r
      <4> QED  BY <1>3, <2>2, <4>1, <4>2 DEF OnItsWay, Within
    <3>4. CASE j \notin is
      <4>1. PICK m \in nodes : <<m, j>> \in calls /\ Within(n, m)
        BY <1>1, <3>2, <3>4 DEF TreeInv, Reach, OnItsWay
      <4>2. <<m, j>> \in calls' /\ m \in nodes'
        BY <1>3, <3>4, <4>1
      <4>3. m \in Node
        BY DEF TreeInv, Shape
      <4>4. Within(k, m)
        BY <1>1, <3>1, <4>1, <4>3, NodeNumbers DEF Within
      <4> QED  BY <4>2, <4>4 DEF OnItsWay, Within
    <3> QED  BY <3>3, <3>4
  <2> QED  BY <1>6, <2>1, <2>2
<1> QED  BY <1>9, <1>10, <1>11, <1>12, <1>13 DEF TreeInv

(* The invariant of the tree is inductive. *)
LEMMA TreeNext == TreeInv /\ [Next]_vars => TreeInv'
<1> SUFFICES ASSUME TreeInv, [Next]_vars PROVE TreeInv'
  OBVIOUS
<1>1. CASE \E i \in Items : Insert(i)
  BY <1>1, InsertStep
<1>2. CASE Clear
  BY <1>2, ClearStep
<1>3. CASE Call
  <2>1. PICK c \in calls : Descend(c[1], c[2]) \/ Keep(c[1], c[2]) \/ Split(c[1], c[2])
    BY <1>3 DEF Call
  <2>2. <<c[1], c[2]>> \in calls
    BY DEF TreeInv, Shape
  <2> QED  BY <2>1, <2>2, DescendStep, KeepStep, SplitStep
<1>4. CASE UNCHANGED vars
  <2>1. /\ nodes' = nodes /\ inner' = inner /\ items' = items
        /\ stored' = stored /\ calls' = calls
    BY <1>4 DEF vars
  <2> QED
    BY ZenonT(60), <2>1 DEF TreeInv, Shape, Laminar, CallsOverlap, Kept, Reach, OnItsWay, Leaves,
                Disjoint, Within, Covers, Overlaps, Left, Right, Middle, Root
<1> QED  BY <1>1, <1>2, <1>3, <1>4 DEF Next

(* The invariant of the tree holds in every behaviour. *)
LEMMA TreeAlways == Spec => []TreeInv
<1> QED  BY TreeInit, TreeNext, PTL DEF Spec

(* Between insertions a leaf holds what overlaps it, and lies within that. *)
LEMMA LeafHolds ==
  ASSUME TreeInv, AtRest, NEW n \in Leaves
  PROVE  items[n] = Overlapping(n) /\ \A i \in items[n] : Covers(i, n)
<1>1. \A i \in items[n] : Covers(i, n)
  BY DEF TreeInv, Kept
<1>2. n \in Node /\ n[1] <= n[2] /\ items[n] \subseteq stored /\ stored \subseteq Items
  BY DEF TreeInv, Shape, Leaves
<1>3. ASSUME NEW i \in items[n] PROVE i \in Overlapping(n)
  BY <1>1, <1>2, ItemNumbers, NodeNumbers DEF Covers, Overlaps, Overlapping
<1>4. ASSUME NEW i \in Overlapping(n) PROVE i \in items[n]
  BY DEF TreeInv, Reach, OnItsWay, AtRest, Overlapping
<1> QED  BY <1>1, <1>3, <1>4

(* Between insertions a leaf holds exactly the objects that overlap it, and
   covers none in part: MemoryRangeTree::objectsAt() may return its set as is. *)
THEOREM LeavesHold == Spec => []LeavesExact
<1>1. TreeInv => LeavesExact
  BY LeafHolds DEF LeavesExact
<1> QED  BY <1>1, TreeAlways, PTL

(* insert() never splits a leaf of one address: the assertion in split(). *)
THEOREM NoByteSplit == Spec => []SplitsAtLeastTwo
<1>1. TreeInv => SplitsAtLeastTwo
  <2> SUFFICES ASSUME TreeInv, NEW c \in calls, c[1] \in Leaves, ~Fits(c[2], c[1])
               PROVE  c[1][1] < c[1][2]
    BY DEF SplitsAtLeastTwo
  <2>1. c[1] \in Node /\ c[2] \in Items /\ c[1][1] <= c[1][2] /\ Overlaps(c[2], c[1])
    BY DEF TreeInv, Shape, CallsOverlap
  <2> QED  BY <2>1, ItemNumbers, NodeNumbers DEF Fits, Overlaps
<1> QED  BY <1>1, TreeAlways, PTL

---------------------------------------------------------------------------
(* The list can be followed from a leaf to its neighbours and back in both
   directions. *)
PrevBack ==
  \A n \in Leaves : prev[n] # None => prev[n] \in Leaves /\ next[prev[n]] = n

LinkInv ==
  /\ next \in [nodes -> nodes \cup {None}] /\ prev \in [nodes -> nodes \cup {None}]
  /\ LeavesLinked /\ PrevBack
  /\ nodes = {} => first = None /\ last = None

(* The null pointer is no node. *)
LEMMA NoneNoNode == None \notin Node
  BY DEF None, Node

(* The empty tree has an empty list of leaves. *)
LEMMA LinkInit == Init => LinkInv
  BY DEF Init, LinkInv, LeavesLinked, PrevBack, Leaves

(* The pointers after a leaf n has split. *)
LEMMA RelinkValues ==
  ASSUME TreeInv, LinkInv, NEW n \in Leaves, n[1] < n[2], Relink(n),
         nodes' = nodes \cup {Left(n), Right(n)}
  PROVE  /\ next'[Left(n)] = Right(n) /\ next'[Right(n)] = next[n]
         /\ prev'[Right(n)] = Left(n) /\ prev'[Left(n)] = prev[n]
         /\ \A m \in nodes \ {n} :
              /\ next'[m] = IF m = prev[n] THEN Left(n) ELSE next[m]
              /\ prev'[m] = IF m = next[n] THEN Right(n) ELSE prev[m]
         /\ next' \in [nodes' -> nodes' \cup {None}]
         /\ prev' \in [nodes' -> nodes' \cup {None}]
<1> DEFINE l == Left(n)  r == Right(n)
<1>1. /\ l \notin nodes /\ r \notin nodes /\ l # n /\ r # n /\ l # r
      /\ n \in nodes /\ l \in nodes' /\ r \in nodes'
  BY Children DEF Leaves
<1>2. next \in [nodes -> nodes \cup {None}] /\ prev \in [nodes -> nodes \cup {None}]
  BY DEF LinkInv
<1>3. /\ next' = [m \in nodes' |->
           IF m = l THEN r ELSE IF m = r THEN next[n]
           ELSE IF m = n THEN None ELSE IF m = prev[n] THEN l ELSE next[m]]
      /\ prev' = [m \in nodes' |->
           IF m = r THEN l ELSE IF m = l THEN prev[n]
           ELSE IF m = n THEN None ELSE IF m = next[n] THEN r ELSE prev[m]]
  BY DEF Relink
<1> HIDE DEF l, r
<1>4. nodes' = nodes \cup {l, r}
  BY DEF l, r
<1>5. next'[l] = r /\ next'[r] = next[n] /\ prev'[r] = l /\ prev'[l] = prev[n]
  BY <1>1, <1>3
<1>6. next'[n] = None /\ prev'[n] = None
  BY <1>1, <1>3, <1>4
<1>7. ASSUME NEW m \in nodes \ {n}
      PROVE  /\ next'[m] = IF m = prev[n] THEN l ELSE next[m]
             /\ prev'[m] = IF m = next[n] THEN r ELSE prev[m]
  BY <1>1, <1>3, <1>4
<1>8. \A m \in nodes' : next'[m] \in nodes' \cup {None} /\ prev'[m] \in nodes' \cup {None}
  BY <1>1, <1>2, <1>4, <1>5, <1>6, <1>7
<1>9. next' \in [nodes' -> nodes' \cup {None}] /\ prev' \in [nodes' -> nodes' \cup {None}]
  BY <1>3, <1>8
<1> QED  BY <1>5, <1>7, <1>9 DEF l, r

(* A split replaces the leaf in the list by its two halves. *)
LEMMA LinkSplit ==
  ASSUME TreeInv, LinkInv, NEW n, NEW i, <<n, i>> \in calls, Split(n, i)
  PROVE  LinkInv'
<1> DEFINE l == Left(n)  r == Right(n)
<1>1. /\ n \in Leaves /\ n \in nodes /\ n \in Node /\ i \in Items
      /\ ~Fits(i, n) /\ Overlaps(i, n) /\ n[1] <= n[2]
  BY DEF Split, TreeInv, Shape, CallsOverlap
<1>2. n[1] < n[2]
  BY <1>1, ItemNumbers, NodeNumbers DEF Fits, Overlaps
<1>3. /\ nodes' = nodes \cup {l, r} /\ inner' = inner \cup {n} /\ Relink(n)
      /\ first' = (IF n = first THEN l ELSE first)
      /\ last' = (IF n = last THEN r ELSE last)
  BY DEF Split, Relink
<1>4. /\ l[1] = n[1] /\ r[1] = l[2] + 1 /\ r[2] = n[2] /\ l \in Node /\ r \in Node
  BY <1>1, <1>2, Halves
<1>5. l \notin nodes /\ r \notin nodes /\ l # n /\ r # n /\ l # r
  BY <1>1, <1>2, Children
<1>6. /\ next'[l] = r /\ next'[r] = next[n] /\ prev'[r] = l /\ prev'[l] = prev[n]
      /\ \A m \in nodes \ {n} :
           /\ next'[m] = IF m = prev[n] THEN l ELSE next[m]
           /\ prev'[m] = IF m = next[n] THEN r ELSE prev[m]
      /\ next' \in [nodes' -> nodes' \cup {None}]
      /\ prev' \in [nodes' -> nodes' \cup {None}]
  BY <1>1, <1>2, <1>3, RelinkValues
<1> HIDE DEF l, r
<1>7. Leaves' = (Leaves \ {n}) \cup {l, r} /\ Leaves \subseteq nodes
  BY <1>1, <1>3, <1>5 DEF Leaves, TreeInv, Shape
<1>8. /\ {first, last} \subseteq Leaves /\ first[1] = 0 /\ last[2] = SpaceEnd
      /\ \A k \in Leaves :
           /\ k = last => next[k] = None
           /\ k # last => next[k] \in Leaves /\ next[k][1] = k[2] + 1 /\ prev[next[k]] = k
           /\ k = first <=> prev[k] = None
           /\ prev[k] # None => prev[k] \in Leaves /\ next[prev[k]] = k
  BY <1>1 DEF LinkInv, LeavesLinked, PrevBack
<1>9. \A k \in nodes' : k \in Node /\ k # None
  BY <1>3, <1>4, NoneNoNode DEF TreeInv, Shape
<1>10. next[n] # n /\ prev[n] # n
  <2>1. n[2] + 1 # n[1]
    BY <1>1, NodeNumbers
  <2> QED  BY <1>1, <1>8, <1>9, <1>3, <2>1
<1>11. /\ {first', last'} \subseteq Leaves' /\ first'[1] = 0 /\ last'[2] = SpaceEnd
  BY <1>3, <1>4, <1>7, <1>8
<1>12. /\ next'[l] \in Leaves' /\ next'[l][1] = l[2] + 1 /\ prev'[next'[l]] = l /\ l # last'
       /\ l = first' <=> prev'[l] = None
       /\ prev'[l] # None => prev'[l] \in Leaves' /\ next'[prev'[l]] = l
  BY <1>1, <1>3, <1>4, <1>5, <1>6, <1>7, <1>8, <1>10
<1>13. /\ r = last' => next'[r] = None
       /\ r # last' => next'[r] \in Leaves' /\ next'[r][1] = r[2] + 1 /\ prev'[next'[r]] = r
       /\ r = first' <=> prev'[r] = None
       /\ prev'[r] # None => prev'[r] \in Leaves' /\ next'[prev'[r]] = r
  BY <1>1, <1>3, <1>4, <1>5, <1>6, <1>7, <1>8, <1>9, <1>10
<1>14. ASSUME NEW k \in Leaves \ {n}
       PROVE  /\ k = last' => next'[k] = None
              /\ k # last' => next'[k] \in Leaves' /\ next'[k][1] = k[2] + 1
                              /\ prev'[next'[k]] = k
              /\ k = first' <=> prev'[k] = None
              /\ prev'[k] # None => prev'[k] \in Leaves' /\ next'[prev'[k]] = k
  <2>1. k \in nodes \ {n} /\ k # l /\ k # r /\ k \in Node /\ k # None
    BY <1>3, <1>5, <1>7, <1>9
  <2>2. next'[k] = (IF k = prev[n] THEN l ELSE next[k])
        /\ prev'[k] = (IF k = next[n] THEN r ELSE prev[k])
    BY <1>6, <2>1
  <2>3. (k = last' <=> k = last) /\ (k = first' <=> k = first)
    BY <1>3, <2>1
  <2>4. k = prev[n] <=> next[k] = n
    BY <1>1, <1>8, <1>9, <1>3, <2>1
  <2>5. k = next[n] <=> prev[k] = n
    BY <1>1, <1>8, <1>9, <1>3, <2>1
  <2>6. k = last' => next'[k] = None
    BY <1>1, <1>3, <1>8, <1>9, <2>2, <2>3, <2>4
  <2>7. ASSUME k # last'
        PROVE  next'[k] \in Leaves' /\ next'[k][1] = k[2] + 1 /\ prev'[next'[k]] = k
    <3>1. next[k] \in Leaves /\ next[k][1] = k[2] + 1 /\ prev[next[k]] = k
      BY <1>8, <2>3, <2>7
    <3>2. CASE k = prev[n]
      BY <1>4, <1>6, <1>7, <2>2, <2>4, <3>1, <3>2
    <3>3. CASE k # prev[n]
      <4>1. next[k] \in nodes \ {n} /\ next[k] # next[n]
        BY <1>1, <1>3, <1>7, <1>8, <1>9, <2>1, <2>4, <3>1, <3>3
      <4> QED  BY <1>6, <1>7, <2>2, <3>1, <3>3, <4>1
    <3> QED  BY <3>2, <3>3
  <2>8. k = first' <=> prev'[k] = None
    BY <1>1, <1>3, <1>8, <1>9, <2>2, <2>3, <2>5
  <2>9. ASSUME prev'[k] # None
        PROVE  prev'[k] \in Leaves' /\ next'[prev'[k]] = k
    <3>1. CASE k = next[n]
      BY <1>6, <1>7, <2>2, <3>1
    <3>2. CASE k # next[n]
      <4>1. prev[k] \in Leaves /\ next[prev[k]] = k
        BY <1>8, <2>2, <2>9, <3>2
      <4>2. prev[k] \in nodes \ {n} /\ prev[k] # prev[n]
        BY <1>1, <1>3, <1>7, <1>8, <1>9, <2>1, <2>5, <3>2, <4>1
      <4> QED  BY <1>6, <1>7, <2>2, <3>2, <4>1, <4>2
    <3> QED  BY <3>1, <3>2
  <2> QED  BY <2>6, <2>7, <2>8, <2>9
<1>15. LeavesLinked'
  BY <1>7, <1>11, <1>12, <1>13, <1>14 DEF LeavesLinked, None
<1>16. PrevBack'
  BY <1>7, <1>12, <1>13, <1>14 DEF PrevBack, None
<1> QED  BY <1>1, <1>3, <1>6, <1>15, <1>16 DEF LinkInv, None

(* The invariant of the list of leaves is inductive. *)
LEMMA LinkNext == TreeInv /\ LinkInv /\ [Next]_vars => LinkInv'
<1> SUFFICES ASSUME TreeInv, LinkInv, [Next]_vars PROVE LinkInv'
  OBVIOUS
<1>1. CASE UNCHANGED <<nodes, inner, next, prev, first, last>>
  BY <1>1 DEF LinkInv, LeavesLinked, PrevBack, Leaves
<1>2. ASSUME NEW i \in Items, Insert(i) PROVE LinkInv'
  <2>1. CASE nodes = {}
    <3>1. /\ nodes' = {Root} /\ inner' = {} /\ first' = Root /\ last' = Root
          /\ next' = [n \in {Root} |-> None] /\ prev' = [n \in {Root} |-> None]
      BY <1>2, <2>1 DEF Insert, TreeInv, Shape
    <3>2. Leaves' = {Root}
      BY <3>1 DEF Leaves
    <3> QED  BY <3>1, <3>2, RootNode DEF LinkInv, LeavesLinked, PrevBack
  <2>2. CASE nodes # {}
    BY <1>1, <1>2, <2>2 DEF Insert, links
  <2> QED  BY <2>1, <2>2
<1>3. CASE Clear
  BY <1>3 DEF Clear, LinkInv, LeavesLinked, PrevBack, Leaves
<1>4. CASE Call
  <2>1. PICK c \in calls : Descend(c[1], c[2]) \/ Keep(c[1], c[2]) \/ Split(c[1], c[2])
    BY <1>4 DEF Call
  <2>2. <<c[1], c[2]>> \in calls
    BY DEF TreeInv, Shape
  <2>3. CASE Descend(c[1], c[2])
    BY <1>1, <2>3 DEF Descend, links
  <2>4. CASE Keep(c[1], c[2])
    BY <1>1, <2>4 DEF Keep, links
  <2>5. CASE Split(c[1], c[2])
    BY <2>2, <2>5, LinkSplit
  <2> QED  BY <2>1, <2>3, <2>4, <2>5
<1>5. CASE UNCHANGED vars
  BY <1>1, <1>5 DEF vars, links
<1> QED  BY <1>2, <1>3, <1>4, <1>5 DEF Next

(* The list of the leaves runs through the whole address space without a gap,
   at every moment, and its two directions agree. *)
THEOREM LeavesTile == Spec => []LeavesLinked
<1>1. Spec => []LinkInv
  BY TreeAlways, LinkInit, LinkNext, PTL DEF Spec
<1>2. LinkInv => LeavesLinked
  BY DEF LinkInv
<1> QED  BY <1>1, <1>2, PTL

---------------------------------------------------------------------------
TypesOf(is) == {Types[i] : i \in is}

PropertiesInv == count \in [nodes -> Nat] /\ types \in [nodes -> SUBSET TypesOf(stored)]

(* Every step keeps each node's properties to objects that were inserted. *)
LEMMA PropertiesNext == TreeInv /\ PropertiesInv /\ [Next]_vars => PropertiesInv'
<1> SUFFICES ASSUME TreeInv, PropertiesInv, [Next]_vars PROVE PropertiesInv'
  OBVIOUS
<1>1. CASE UNCHANGED <<nodes, count, types, stored>>
  BY <1>1 DEF PropertiesInv, TypesOf
<1>2. ASSUME NEW i \in Items, Insert(i) PROVE PropertiesInv'
  <2>1. CASE nodes = {}
    BY <1>2, <2>1 DEF Insert, PropertiesInv, TypesOf
  <2>2. CASE nodes # {}
    BY <1>2, <2>2 DEF Insert, PropertiesInv, TypesOf, properties
  <2> QED  BY <2>1, <2>2
<1>3. CASE Clear
  BY <1>3 DEF Clear, PropertiesInv, TypesOf
<1>4. ASSUME NEW n \in nodes, NEW i \in stored, UpdateProperties(n, i),
             UNCHANGED <<nodes, stored>>
      PROVE  PropertiesInv'
  BY <1>4 DEF UpdateProperties, PropertiesInv, TypesOf
<1>5. CASE Call
  <2>1. PICK c \in calls : Descend(c[1], c[2]) \/ Keep(c[1], c[2]) \/ Split(c[1], c[2])
    BY <1>5 DEF Call
  <2>2. c[1] \in nodes /\ c[2] \in stored
    BY DEF TreeInv, Shape
  <2>3. CASE Descend(c[1], c[2])
    BY <1>4, <2>2, <2>3 DEF Descend
  <2>4. CASE Keep(c[1], c[2])
    BY <1>4, <2>2, <2>4 DEF Keep
  <2>5. CASE Split(c[1], c[2])
    <3>1. \A m \in nodes : count[m] \in Nat /\ types[m] \subseteq TypesOf(stored)
      BY DEF PropertiesInv
    <3>2. Types[c[2]] \in TypesOf(stored) /\ stored' = stored
      BY <2>2, <2>5 DEF Split, TypesOf
    <3>3. count' \in [nodes' -> Nat]
      BY <2>2, <2>5, <3>1 DEF Split
    <3>4. types' \in [nodes' -> SUBSET TypesOf(stored)]
      BY <2>2, <2>5, <3>1, <3>2 DEF Split
    <3> QED  BY <3>2, <3>3, <3>4 DEF PropertiesInv, TypesOf
  <2> QED  BY <2>1, <2>3, <2>4, <2>5
<1>6. CASE UNCHANGED vars
  BY <1>1, <1>6 DEF vars, properties
<1> QED  BY <1>2, <1>3, <1>5, <1>6 DEF Next

(* Every variable of the tree keeps its type. *)
THEOREM TypeCorrect == Spec => []TypeOK
<1>1. Init => PropertiesInv
  BY DEF Init, PropertiesInv
<1>2. Spec => [](TreeInv /\ LinkInv /\ PropertiesInv)
  BY <1>1, TreeInit, LinkInit, TreeNext, LinkNext, PropertiesNext, PTL DEF Spec
<1>3. TreeInv /\ LinkInv /\ PropertiesInv => TypeOK
  <2> SUFFICES ASSUME TreeInv, LinkInv, PropertiesInv PROVE TypeOK
    OBVIOUS
  <2>1. {first, last} \subseteq nodes \cup {None}
    <3>1. CASE nodes = {}
      BY <3>1 DEF LinkInv
    <3>2. CASE nodes # {}
      BY <3>2 DEF LinkInv, LeavesLinked, Leaves
    <3> QED  BY <3>1, <3>2
  <2> QED  BY <2>1 DEF TypeOK, TreeInv, Shape, LinkInv, PropertiesInv, TypesOf
<1> QED  BY <1>2, <1>3, PTL

---------------------------------------------------------------------------
(* The properties of a node count the objects whose insert() has passed it. *)
Below(k, m) == m \in inner /\ (Within(k, Left(m)) \/ Within(k, Right(m)))

Nesting == \A m, n \in nodes : m = n \/ Disjoint(m, n) \/ Below(m, n) \/ Below(n, m)

(* No path to a leaf meets two calls for one object. *)
CallsApart ==
  \A c, d \in calls : c[2] = d[2] => c = d \/ Disjoint(c[1], d[1])

Arrived == \A n \in Leaves : \A i \in items[n] : ~OnItsWay(i, n)

Passed(n) == {i \in stored : Overlaps(i, n) /\ ~OnItsWay(i, n)}

PropertiesExact ==
  \A n \in nodes : count[n] = Cardinality(Passed(n)) /\ types[n] = TypesOf(Passed(n))

InnerUnlinked == \A n \in inner : next[n] = None

PassInv == Nesting /\ CallsApart /\ Arrived /\ IsFiniteSet(stored) /\ PropertiesExact

(* A node within another one is within one of its children. *)
LEMMA WithinBelow ==
  ASSUME TreeInv, Nesting, NEW k \in nodes, NEW n \in nodes, Within(k, n), k # n
  PROVE  Below(k, n)
<1>1. k \in Node /\ n \in Node /\ k[1] <= k[2] /\ n[1] <= n[2]
  BY DEF TreeInv, Shape
<1>2. ~Disjoint(k, n)
  BY <1>1, NodeNumbers DEF Within, Disjoint
<1>3. ~Below(n, k)
  <2>1. SUFFICES ASSUME Below(n, k) PROVE FALSE
    OBVIOUS
  <2>2. k[1] < k[2]
    BY <2>1 DEF TreeInv, Shape, Below
  <2> QED  BY <1>1, <2>1, <2>2, Halves, NodeNumbers DEF Below, Within
<1> QED  BY <1>2, <1>3 DEF Nesting

(* What a leaf holds overlaps it. *)
LEMMA HeldOverlaps ==
  ASSUME TreeInv, NEW n \in Leaves, NEW i \in items[n]
  PROVE  Overlaps(i, n) /\ i \in stored
<1>1. n \in Node /\ n[1] <= n[2] /\ i \in stored /\ i \in Items
  BY DEF TreeInv, Shape, Leaves
<1>2. Covers(i, n)
  BY DEF TreeInv, Kept
<1> QED  BY <1>1, <1>2, ItemNumbers, NodeNumbers DEF Covers, Overlaps

(* One more object passes a node. *)
LEMMA OneMore ==
  ASSUME IsFiniteSet(stored), NEW n, NEW i \in stored, NEW s, s = Passed(n), i \notin s
  PROVE  /\ Cardinality(s \cup {i}) = Cardinality(s) + 1
         /\ TypesOf(s \cup {i}) = TypesOf(s) \cup {Types[i]}
<1>1. IsFiniteSet(s)
  BY FS_Subset DEF Passed
<1>2. Cardinality(s \cup {i}) = Cardinality(s) + 1
  BY <1>1, FS_AddElement
<1> QED  BY <1>2 DEF TypesOf

(* insert() is on its way to every node that it concerns. *)
LEMMA InsertPasses ==
  ASSUME TreeInv, PassInv, NEW i \in Items, Insert(i)
  PROVE  PassInv'
<1>1. stored' = stored \cup {i} /\ i \notin stored /\ calls = {} /\ calls' = {<<Root, i>>} /\ inner' = inner
  BY DEF Insert
<1>2. IsFiniteSet(stored')
  BY <1>1, FS_AddElement DEF PassInv
<1>3. CallsApart'
  BY <1>1 DEF CallsApart
<1>4. CASE nodes = {}
  <2>1. /\ nodes' = {Root} /\ inner' = {} /\ stored = {}
        /\ items' = [n \in {Root} |-> {}]
        /\ count' = [n \in {Root} |-> 0] /\ types' = [n \in {Root} |-> {}]
    BY <1>4 DEF Insert, TreeInv, Shape
  <2>2. OnItsWay(i, Root)'
    BY <1>1, <2>1, RootNode DEF OnItsWay, Within
  <2>3. Passed(Root)' = {}
    BY <1>1, <2>1, <2>2 DEF Passed
  <2>4. PropertiesExact'
    <3>1. Cardinality({}) = 0 /\ TypesOf({}) = {}
      BY FS_EmptySet DEF TypesOf
    <3>2. count'[Root] = Cardinality(Passed(Root)') /\ types'[Root] = TypesOf(Passed(Root)')
      BY <2>1, <2>3, <3>1
    <3> QED  BY <2>1, <3>2 DEF PropertiesExact, TypesOf
  <2>5. Nesting' /\ Arrived'
    BY <2>1 DEF Nesting, Arrived, Leaves
  <2> QED  BY <1>2, <1>3, <2>4, <2>5 DEF PassInv
<1>5. CASE nodes # {}
  <2>1. nodes' = nodes /\ items' = items /\ count' = count /\ types' = types
    BY <1>5 DEF Insert, properties
  <2>2. Nesting'
    BY <1>1, <2>1 DEF PassInv, Nesting, Below, Disjoint, Within, Left, Right, Middle
  <2>3. ASSUME NEW n \in nodes, NEW j \in stored
        PROVE  OnItsWay(j, n)' <=> OnItsWay(j, n)
    BY <1>1 DEF OnItsWay
  <2>4. ASSUME NEW n \in nodes
        PROVE  OnItsWay(i, n)'
    <3>1. n \in Node /\ Root \in nodes
      BY <1>5 DEF TreeInv, Shape
    <3>2. Within(n, Root)
      BY <3>1, RootNode, NodeNumbers DEF Within
    <3> QED  BY <1>1, <2>1, <3>1, <3>2 DEF OnItsWay, Within
  <2>5. ASSUME NEW n \in nodes
        PROVE  Passed(n)' = Passed(n)
    BY <1>1, <2>3, <2>4, <2>5 DEF Passed, Overlaps
  <2>6. PropertiesExact'
    BY <2>1, <2>5 DEF PassInv, PropertiesExact, TypesOf
  <2>7. Arrived'
    <3> SUFFICES ASSUME NEW n \in Leaves, NEW j \in items[n] PROVE ~OnItsWay(j, n)'
      BY <1>1, <2>1 DEF Arrived, Leaves
    <3>1. n \in nodes /\ j \in stored
      BY HeldOverlaps DEF Leaves
    <3> QED  BY <2>3, <3>1 DEF PassInv, Arrived
  <2> QED  BY <1>2, <1>3, <2>2, <2>6, <2>7 DEF PassInv
<1> QED  BY <1>4, <1>5

(* After clear() there is no node. *)
LEMMA ClearPasses ==
  ASSUME Clear
  PROVE  PassInv'
<1>1. nodes' = {} /\ inner' = {} /\ stored' = {} /\ calls' = {}
  BY DEF Clear
<1>2. IsFiniteSet({})
  BY FS_EmptySet
<1> QED  BY <1>1, <1>2 DEF PassInv, Nesting, CallsApart, Arrived, PropertiesExact, Leaves

(* The calls for the children of a node replace one for the node itself: no two
   calls for an object meet on a path. *)
LEMMA HandDownApart ==
  ASSUME TreeInv, CallsApart, NEW n \in Node, n[1] < n[2], NEW i, <<n, i>> \in calls,
         NEW is \in SUBSET Items, \A j \in is : Overlaps(j, n),
         \A c \in calls : c[2] \in is /\ c # <<n, i>> => Disjoint(c[1], n),
         calls' = (calls \ {<<n, i>>}) \cup HandDown(n, is)
  PROVE  CallsApart'
<1> DEFINE l == Left(n)  r == Right(n)
<1>1. /\ l \in Node /\ r \in Node /\ l[1] = n[1] /\ l[1] <= l[2]
      /\ r[1] = l[2] + 1 /\ r[2] = n[2] /\ r[1] <= r[2]
  BY Halves
<1>2. HandDown(n, is) \subseteq {l, r} \X is
  BY HandDownType
<1> HIDE DEF l, r
<1>3. Disjoint(l, r) /\ Disjoint(r, l)
  BY <1>1, NodeNumbers DEF Disjoint
<1>4. ASSUME NEW c \in calls, c # <<n, i>>, c[2] \in is, NEW h \in {l, r}
      PROVE  Disjoint(c[1], h) /\ Disjoint(h, c[1])
  <2>1. Disjoint(c[1], n) /\ c[1] \in Node
    BY <1>4 DEF TreeInv, Shape
  <2> QED  BY <1>1, <2>1, NodeNumbers DEF Disjoint
<1> SUFFICES ASSUME NEW c \in calls', NEW d \in calls', c[2] = d[2], c # d
             PROVE  Disjoint(c[1], d[1])
  BY DEF CallsApart, Disjoint
<1>5. CASE c \in calls /\ d \in calls
  BY <1>5 DEF CallsApart
<1>6. CASE c \in calls \ {<<n, i>>} /\ d \in HandDown(n, is)
  <2>1. d[1] \in {l, r} /\ d[2] \in is
    BY <1>2, <1>6
  <2> QED  BY <1>4, <1>6, <2>1
<1>7. CASE d \in calls \ {<<n, i>>} /\ c \in HandDown(n, is)
  <2>1. c[1] \in {l, r} /\ c[2] \in is
    BY <1>2, <1>7
  <2> QED  BY <1>4, <1>7, <2>1
<1>8. CASE c \in HandDown(n, is) /\ d \in HandDown(n, is)
  <2>1. c[1] \in {l, r} /\ d[1] \in {l, r} /\ c[1] # d[1]
    <3>1. c \in {l, r} \X is /\ d \in {l, r} \X is
      BY <1>2, <1>8
    <3> QED  BY <3>1
  <2> QED  BY <1>3, <2>1
<1> QED  BY <1>5, <1>6, <1>7, <1>8

(* When a call has been made, its object has passed the node: the properties
   of the node, and of no other, are updated. *)
LEMMA Counted ==
  ASSUME TreeInv, PassInv, PropertiesInv, NEW n, NEW i, <<n, i>> \in calls,
         UpdateProperties(n, i), nodes' = nodes, stored' = stored,
         \A k \in nodes, j \in stored :
           Overlaps(j, k) => (OnItsWay(j, k)' <=> OnItsWay(j, k) /\ <<k, j>> # <<n, i>>)
  PROVE  PropertiesExact'
<1>1. /\ n \in nodes /\ n \in Node /\ i \in stored /\ Overlaps(i, n) /\ IsFiniteSet(stored)
  BY DEF TreeInv, Shape, CallsOverlap, PassInv
<1>2. i \notin Passed(n)
  <2>1. Within(n, n)
    BY <1>1, NodeNumbers DEF Within
  <2> QED  BY <1>1, <2>1 DEF Passed, OnItsWay
<1>3. Passed(n)' = Passed(n) \cup {i}
  BY <1>1 DEF Passed, Overlaps
<1>4. ASSUME NEW k \in nodes, k # n PROVE Passed(k)' = Passed(k)
  BY <1>4 DEF Passed, Overlaps
<1>5. /\ count'[n] = count[n] + 1 /\ types'[n] = types[n] \cup {Types[i]}
      /\ \A k \in nodes : k # n => count'[k] = count[k] /\ types'[k] = types[k]
  BY <1>1 DEF UpdateProperties, PropertiesInv
<1>6. \A k \in nodes : count[k] = Cardinality(Passed(k)) /\ types[k] = TypesOf(Passed(k))
  BY DEF PassInv, PropertiesExact
<1>7. /\ Cardinality(Passed(n) \cup {i}) = Cardinality(Passed(n)) + 1
      /\ TypesOf(Passed(n) \cup {i}) = TypesOf(Passed(n)) \cup {Types[i]}
  BY <1>1, <1>2, OneMore
<1>8. ASSUME NEW k \in nodes
      PROVE  count'[k] = Cardinality(Passed(k)') /\ types'[k] = TypesOf(Passed(k)')
  <2>1. CASE k = n
    BY <1>1, <1>3, <1>5, <1>6, <1>7, <2>1
  <2>2. CASE k # n
    BY <1>4, <1>5, <1>6, <2>2
  <2> QED  BY <2>1, <2>2
<1> QED  BY <1>8 DEF PropertiesExact, TypesOf

(* A step of a node with children: the object passes this node, and is still on
   its way to the nodes below. *)
LEMMA DescendPasses ==
  ASSUME TreeInv, PassInv, PropertiesInv, NEW n, NEW i, <<n, i>> \in calls, Descend(n, i)
  PROVE  PassInv'
<1> DEFINE l == Left(n)  r == Right(n)
<1>1. /\ nodes' = nodes /\ inner' = inner /\ items' = items /\ stored' = stored
      /\ calls' = (calls \ {<<n, i>>}) \cup HandDown(n, {i})
      /\ UpdateProperties(n, i)
  BY DEF Descend
<1>2. /\ n \in inner /\ n \in nodes /\ n \in Node /\ i \in stored /\ i \in Items
      /\ n[1] < n[2] /\ l \in nodes /\ r \in nodes /\ Overlaps(i, n)
  BY DEF Descend, TreeInv, Shape, CallsOverlap
<1>3. HandDown(n, {i}) \subseteq {l, r} \X {i}
  BY <1>2, HandDownType
<1>4. \A c \in calls : c[2] = i /\ c # <<n, i>> => Disjoint(c[1], n)
  BY DEF PassInv, CallsApart
<1>5. CallsApart'
  BY <1>1, <1>2, <1>4, HandDownApart DEF PassInv
<1>6. Nesting'
  BY <1>1 DEF PassInv, Nesting, Below, Disjoint, Within, Left, Right, Middle
<1>7. Within(l, n) /\ Within(r, n) /\ ~Within(n, l) /\ ~Within(n, r)
  BY <1>2, Halves, NodeNumbers DEF Within
<1>8. ASSUME NEW k \in nodes, NEW j \in stored, Overlaps(j, k)
      PROVE  OnItsWay(j, k)' <=> OnItsWay(j, k) /\ <<k, j>> # <<n, i>>
  <2>1. k \in Node /\ k[1] <= k[2]
    BY DEF TreeInv, Shape
  <2>2. ASSUME OnItsWay(j, k)'
        PROVE  OnItsWay(j, k) /\ <<k, j>> # <<n, i>>
    <3>1. PICK m \in nodes : <<m, j>> \in calls' /\ Within(k, m)
      BY <1>1, <2>2 DEF OnItsWay, Within
    <3>2. CASE <<m, j>> \in calls \ {<<n, i>>}
      <4>1. OnItsWay(j, k)
        BY <3>1, <3>2 DEF OnItsWay
      <4>2. ASSUME k = n, j = i PROVE FALSE
        <5>1. Disjoint(m, n) /\ m \in Node
          BY <1>4, <3>2, <4>2 DEF TreeInv, Shape
        <5> QED  BY <2>1, <3>1, <4>2, <5>1, NodeNumbers DEF Disjoint, Within
      <4> QED  BY <4>1, <4>2
    <3>3. CASE <<m, j>> \in HandDown(n, {i})
      <4>1. m \in {l, r} /\ j = i
        BY <1>3, <3>3
      <4>2. Within(k, n) /\ k # n
        <5>1. m \in Node
          BY <1>2, <4>1, Halves
        <5> QED  BY <1>2, <1>7, <2>1, <3>1, <4>1, <5>1, NodeNumbers DEF Within
      <4> QED  BY <1>2, <4>1, <4>2 DEF OnItsWay
    <3> QED  BY <1>1, <3>1, <3>2, <3>3
  <2>3. ASSUME OnItsWay(j, k), <<k, j>> # <<n, i>>
        PROVE  OnItsWay(j, k)'
    <3>1. PICK m \in nodes : <<m, j>> \in calls /\ Within(k, m)
      BY <2>3 DEF OnItsWay
    <3>2. CASE <<m, j>> # <<n, i>>
      BY <1>1, <3>1, <3>2 DEF OnItsWay, Within
    <3>3. CASE m = n /\ j = i
      <4>1. Below(k, n)
        BY <1>2, <2>3, <3>1, <3>3, WithinBelow DEF PassInv
      <4>2. PICK h \in {l, r} : <<h, i>> \in HandDown(n, {i}) /\ Within(k, h)
        BY <1>2, <1>8, <2>1, <3>3, <4>1, HandDownReaches DEF Below
      <4> QED  BY <1>1, <1>2, <3>3, <4>2 DEF OnItsWay, Within
    <3> QED  BY <3>2, <3>3
  <2> QED  BY <2>2, <2>3
<1>9. PropertiesExact'
  BY <1>1, <1>8, Counted
<1>10. Arrived'
  <2> SUFFICES ASSUME NEW k \in Leaves, NEW j \in items[k] PROVE ~OnItsWay(j, k)'
    BY <1>1 DEF Arrived, Leaves
  <2>1. k \in nodes /\ j \in stored /\ Overlaps(j, k)
    BY HeldOverlaps DEF Leaves
  <2> QED  BY <1>8, <2>1 DEF PassInv, Arrived
<1> QED  BY <1>1, <1>5, <1>6, <1>9, <1>10 DEF PassInv

(* A leaf takes the object, which arrives there. *)
LEMMA KeepPasses ==
  ASSUME TreeInv, PassInv, PropertiesInv, NEW n, NEW i, <<n, i>> \in calls, Keep(n, i)
  PROVE  PassInv'
<1>1. /\ nodes' = nodes /\ inner' = inner /\ stored' = stored
      /\ items' = [items EXCEPT ![n] = @ \cup {i}]
      /\ calls' = calls \ {<<n, i>>} /\ UpdateProperties(n, i)
  BY DEF Keep
<1>2. /\ n \in Leaves /\ n \in nodes /\ n \in Node /\ n[1] <= n[2] /\ i \in stored
      /\ Overlaps(i, n)
  BY DEF Keep, TreeInv, Shape, CallsOverlap
<1>3. \A c \in calls : c[2] = i /\ c # <<n, i>> => Disjoint(c[1], n)
  BY DEF PassInv, CallsApart
<1>4. CallsApart'
  BY <1>1 DEF PassInv, CallsApart, Disjoint
<1>5. Nesting'
  BY <1>1 DEF PassInv, Nesting, Below, Disjoint, Within, Left, Right, Middle
<1>6. ASSUME NEW k \in nodes, NEW j \in stored
      PROVE  OnItsWay(j, k)' <=> OnItsWay(j, k) /\ <<k, j>> # <<n, i>>
  <2>1. ASSUME OnItsWay(j, k)'
        PROVE  OnItsWay(j, k) /\ <<k, j>> # <<n, i>>
    <3>1. PICK m \in nodes : <<m, j>> \in calls \ {<<n, i>>} /\ Within(k, m)
      BY <1>1, <2>1 DEF OnItsWay, Within
    <3>2. ASSUME k = n, j = i PROVE FALSE
      <4>1. Disjoint(m, n) /\ m \in Node
        BY <1>3, <3>1, <3>2 DEF TreeInv, Shape
      <4> QED  BY <1>2, <3>1, <3>2, <4>1, NodeNumbers DEF Disjoint, Within
    <3> QED  BY <3>1, <3>2 DEF OnItsWay
  <2>2. ASSUME OnItsWay(j, k), <<k, j>> # <<n, i>>
        PROVE  OnItsWay(j, k)'
    <3>1. PICK m \in nodes : <<m, j>> \in calls /\ Within(k, m)
      BY <2>2 DEF OnItsWay
    <3>2. <<m, j>> # <<n, i>>
      BY <1>2, <2>2, <3>1, WithinBelow DEF PassInv, Below, Leaves
    <3> QED  BY <1>1, <3>1, <3>2 DEF OnItsWay, Within
  <2> QED  BY <2>1, <2>2
<1>7. PropertiesExact'
  BY <1>1, <1>6, Counted
<1>8. Arrived'
  <2> SUFFICES ASSUME NEW k \in Leaves, NEW j \in items'[k] PROVE ~OnItsWay(j, k)'
    BY <1>1 DEF Arrived, Leaves
  <2>1. items \in [nodes -> SUBSET stored] /\ k \in nodes
    BY DEF TreeInv, Shape, Leaves
  <2>2. j \in items[k] \/ <<k, j>> = <<n, i>>
    BY <1>1, <2>1
  <2>3. j \in stored
    BY <1>2, <2>1, <2>2
  <2> QED  BY <1>6, <2>1, <2>2, <2>3 DEF PassInv, Arrived
<1> QED  BY <1>1, <1>4, <1>5, <1>7, <1>8 DEF PassInv

(* A leaf splits: nothing has passed its children yet. *)
LEMMA SplitPasses ==
  ASSUME TreeInv, PassInv, PropertiesInv, NEW n, NEW i, <<n, i>> \in calls, Split(n, i)
  PROVE  PassInv'
<1> DEFINE l == Left(n)  r == Right(n)  is == items[n] \cup {i}
<1>1. /\ n \in Leaves /\ n \in nodes /\ n \in Node /\ i \in stored /\ i \in Items
      /\ ~Fits(i, n) /\ Overlaps(i, n) /\ n[1] <= n[2]
  BY DEF Split, TreeInv, Shape, CallsOverlap
<1>2. n[1] < n[2]
  BY <1>1, ItemNumbers, NodeNumbers DEF Fits, Overlaps
<1>3. /\ nodes' = nodes \cup {l, r} /\ inner' = inner \cup {n} /\ stored' = stored
      /\ calls' = (calls \ {<<n, i>>}) \cup HandDown(n, is)
      /\ items' = [m \in nodes' |-> IF m \in nodes \ {n} THEN items[m] ELSE {}]
      /\ count' = [m \in nodes' |->
           IF m = n THEN count[n] + 1 ELSE IF m \in nodes THEN count[m] ELSE 0]
      /\ types' = [m \in nodes' |->
           IF m = n THEN types[n] \cup {Types[i]} ELSE IF m \in nodes THEN types[m] ELSE {}]
  BY DEF Split
<1>4. /\ l \in Node /\ r \in Node /\ l[1] = n[1] /\ l[1] <= l[2]
      /\ r[1] = l[2] + 1 /\ r[2] = n[2] /\ r[1] <= r[2]
  BY <1>1, <1>2, Halves
<1>5. /\ l \notin nodes /\ r \notin nodes /\ l # n /\ r # n /\ l # r
      /\ Within(l, n) /\ Within(r, n)
  BY <1>1, <1>2, Children
<1>6. is \in SUBSET Items /\ is \subseteq stored /\ \A j \in is : Overlaps(j, n)
  BY <1>1, HeldOverlaps DEF TreeInv, Shape
<1>7. HandDown(n, is) \subseteq {l, r} \X is
  <2> HIDE DEF is
  <2> QED  BY <1>1, <1>2, <1>6, HandDownType
<1>8. ASSUME NEW k \in nodes, Within(n, k) PROVE ~Within(k, l) /\ ~Within(k, r)
  <2>1. k \in Node
    BY DEF TreeInv, Shape
  <2> QED  BY <1>1, <1>2, <1>4, <1>8, <2>1, NodeNumbers DEF Within
<1>9. \A k \in nodes : Within(k, n) => k = n
  BY <1>1, WithinBelow DEF PassInv, Below, Leaves
<1>10. \A c \in calls : c[2] \in is /\ c # <<n, i>> => Disjoint(c[1], n)
  <2> SUFFICES ASSUME NEW c \in calls, c[2] \in is, c # <<n, i>> PROVE Disjoint(c[1], n)
    OBVIOUS
  <2>1. CASE c[2] = i
    BY <2>1 DEF PassInv, CallsApart
  <2>2. CASE c[2] \in items[n]
    <3>1. c[1] \in nodes /\ c[1] \in Node /\ <<c[1], c[2]>> \in calls
      BY DEF TreeInv, Shape
    <3>2. ~Within(n, c[1])
      BY <1>1, <2>2, <3>1 DEF PassInv, Arrived, OnItsWay
    <3>3. \/ c[1] = n \/ Disjoint(c[1], n)
          \/ c[1] \in inner /\ (Within(n, Left(c[1])) \/ Within(n, Right(c[1])))
      BY <1>1, <3>1 DEF TreeInv, Laminar
    <3>4. ASSUME c[1] \in inner, Within(n, Left(c[1])) \/ Within(n, Right(c[1]))
          PROVE  Within(n, c[1])
      <4>1. c[1][1] < c[1][2]
        BY <3>4 DEF TreeInv, Shape
      <4> QED  BY <1>1, <3>1, <3>4, <4>1, Halves, NodeNumbers DEF Within
    <3>5. Within(n, n)
      BY <1>1, NodeNumbers DEF Within
    <3> QED  BY <3>2, <3>3, <3>4, <3>5
  <2> QED  BY <2>1, <2>2
<1>11. CallsApart'
  <2> HIDE DEF is
  <2> QED  BY <1>1, <1>2, <1>3, <1>6, <1>10, HandDownApart DEF PassInv
<1>12. Nesting'
  <2>1. \A k \in nodes' : Below(k, n)' <=> Within(k, l) \/ Within(k, r)
    BY <1>3 DEF Below, Within, Left, Right, Middle
  <2>2. \A k, m \in nodes : Below(k, m) => Below(k, m)'
    BY <1>3 DEF Below, Within, Left, Right, Middle
  <2>3. \A h \in {l, r} : Below(h, n)'
    <3>1. Within(l, l) /\ Within(r, r)
      BY <1>4, NodeNumbers DEF Within
    <3> QED  BY <1>3, <2>1, <3>1
  <2>4. ASSUME NEW m \in nodes, m # n, NEW h \in {l, r}
        PROVE  (Disjoint(m, h) /\ Disjoint(h, m)) \/ Below(h, m)'
    <3>1. \/ Disjoint(m, n)
          \/ m \in inner /\ (Within(n, Left(m)) \/ Within(n, Right(m)))
      BY <1>1, <2>4 DEF TreeInv, Laminar
    <3>2. m \in Node /\ h \in Node /\ Within(h, n)
      BY <1>4, <1>5 DEF TreeInv, Shape
    <3>3. CASE Disjoint(m, n)
      BY <1>1, <3>2, <3>3, NodeNumbers DEF Disjoint, Within
    <3>4. ASSUME m \in inner, NEW g \in {Left(m), Right(m)}, Within(n, g)
          PROVE  Within(h, g)
      <4>1. g \in Node
        BY <3>4 DEF TreeInv, Shape
      <4> QED  BY <1>1, <3>2, <3>4, <4>1, NodeNumbers DEF Within
    <3>5. m \in inner => m \in inner'
      BY <1>3
    <3> QED  BY <3>1, <3>3, <3>4, <3>5 DEF Below, Within, Left, Right, Middle
  <2>5. Disjoint(l, r) /\ Disjoint(r, l)
    BY <1>4, NodeNumbers DEF Disjoint
  <2> SUFFICES ASSUME NEW k \in nodes', NEW m \in nodes'
               PROVE  k = m \/ Disjoint(k, m) \/ Below(k, m)' \/ Below(m, k)'
    BY DEF Nesting, Disjoint
  <2>6. CASE k \in nodes /\ m \in nodes
    BY <2>2, <2>6 DEF PassInv, Nesting
  <2>7. CASE k \in nodes /\ m \in {l, r}
    BY <2>3, <2>4, <2>7
  <2>8. CASE k \in {l, r} /\ m \in nodes
    BY <2>3, <2>4, <2>8
  <2>9. CASE k \in {l, r} /\ m \in {l, r}
    BY <2>5, <2>9
  <2> QED  BY <1>3, <2>6, <2>7, <2>8, <2>9
<1>13. ASSUME NEW k \in nodes, NEW j \in stored
       PROVE  OnItsWay(j, k)' <=> OnItsWay(j, k) /\ <<k, j>> # <<n, i>>
  <2>0. k \in Node /\ k[1] <= k[2] /\ Within(k, k)
    BY NodeNumbers DEF TreeInv, Shape, Within
  <2>1. ASSUME OnItsWay(j, k)'
        PROVE  OnItsWay(j, k) /\ <<k, j>> # <<n, i>>
    <3>1. PICK m \in nodes' : <<m, j>> \in calls' /\ Within(k, m)
      BY <2>1 DEF OnItsWay, Within
    <3>2. <<m, j>> \in calls \ {<<n, i>>}
      <4>1. SUFFICES ASSUME <<m, j>> \in HandDown(n, is) PROVE FALSE
        BY <1>3, <3>1
      <4>2. m \in {l, r}
        BY <1>7, <4>1
      <4>3. Within(k, n)
        BY <1>1, <1>4, <2>0, <3>1, <4>2, NodeNumbers DEF Within
      <4> QED  BY <1>8, <1>9, <2>0, <3>1, <4>2, <4>3
    <3>3. m \in nodes /\ m \in Node
      BY <3>2 DEF TreeInv, Shape
    <3>4. ASSUME k = n, j = i PROVE FALSE
      <4>1. Disjoint(m, n)
        BY <1>10, <3>2, <3>4
      <4> QED  BY <1>1, <3>1, <3>3, <3>4, <4>1, NodeNumbers DEF Disjoint, Within
    <3> QED  BY <3>1, <3>2, <3>3, <3>4 DEF OnItsWay
  <2>2. ASSUME OnItsWay(j, k), <<k, j>> # <<n, i>>
        PROVE  OnItsWay(j, k)'
    <3>1. PICK m \in nodes : <<m, j>> \in calls /\ Within(k, m)
      BY <2>2 DEF OnItsWay
    <3>2. <<m, j>> # <<n, i>>
      BY <1>9, <2>2, <3>1
    <3> QED  BY <1>3, <3>1, <3>2 DEF OnItsWay, Within
  <2> QED  BY <2>1, <2>2
<1>14. ASSUME NEW h \in {l, r}, NEW j \in stored, Overlaps(j, h)
       PROVE  OnItsWay(j, h)'
  <2>1. h \in Node /\ Within(h, h) /\ Within(h, n) /\ j \in Items
    BY <1>4, <1>5, NodeNumbers DEF Within, TreeInv, Shape
  <2>2. CASE j \in is
    <3>1. <<h, j>> \in HandDown(n, is)
      BY <1>1, <1>2, <1>6, <1>14, <2>1, <2>2, HandDownReaches
    <3> QED  BY <1>3, <2>1, <3>1 DEF OnItsWay, Within
  <2>3. CASE j \notin is
    <3>1. Overlaps(j, n)
      BY <1>1, <1>14, <2>1, ItemNumbers, NodeNumbers DEF Overlaps, Within
    <3>2. PICK m \in nodes : <<m, j>> \in calls /\ Within(n, m)
      BY <1>1, <2>3, <3>1 DEF TreeInv, Reach, OnItsWay
    <3>3. m \in Node
      BY DEF TreeInv, Shape
    <3>4. Within(h, m)
      BY <1>1, <2>1, <3>2, <3>3, NodeNumbers DEF Within
    <3> QED  BY <1>3, <2>3, <3>2, <3>4 DEF OnItsWay, Within
  <2> QED  BY <2>2, <2>3
<1>15. Arrived'
  <2> SUFFICES ASSUME NEW k \in Leaves', NEW j \in items'[k] PROVE ~OnItsWay(j, k)'
    BY DEF Arrived
  <2>1. k \in Leaves /\ k # n /\ j \in items[k]
    BY <1>3 DEF Leaves
  <2>2. k \in nodes /\ j \in stored
    BY <2>1, HeldOverlaps DEF Leaves
  <2> QED  BY <1>13, <2>1, <2>2 DEF PassInv, Arrived
<1>16. PropertiesExact'
  <2>1. i \notin Passed(n)
    <3>1. Within(n, n)
      BY <1>1, NodeNumbers DEF Within
    <3> QED  BY <1>1, <3>1 DEF Passed, OnItsWay
  <2>2. Passed(n)' = Passed(n) \cup {i}
    BY <1>1, <1>3, <1>13 DEF Passed, Overlaps
  <2>3. ASSUME NEW k \in nodes, k # n PROVE Passed(k)' = Passed(k)
    BY <1>3, <1>13, <2>3 DEF Passed, Overlaps
  <2>4. \A h \in {l, r} : Passed(h)' = {}
    BY <1>3, <1>14 DEF Passed, Overlaps
  <2>5. \A k \in nodes : count[k] = Cardinality(Passed(k)) /\ types[k] = TypesOf(Passed(k))
    BY DEF PassInv, PropertiesExact
  <2>6. /\ Cardinality(Passed(n) \cup {i}) = Cardinality(Passed(n)) + 1
        /\ TypesOf(Passed(n) \cup {i}) = TypesOf(Passed(n)) \cup {Types[i]}
    BY <1>1, <2>1, OneMore DEF PassInv
  <2>7. Cardinality({}) = 0 /\ TypesOf({}) = {}
    BY FS_EmptySet DEF TypesOf
  <2>8. /\ count'[n] = count[n] + 1 /\ types'[n] = types[n] \cup {Types[i]}
        /\ \A k \in nodes : k # n => count'[k] = count[k] /\ types'[k] = types[k]
        /\ \A h \in {l, r} : count'[h] = 0 /\ types'[h] = {}
    BY <1>1, <1>3, <1>5
  <2>9. ASSUME NEW k \in nodes'
        PROVE  count'[k] = Cardinality(Passed(k)') /\ types'[k] = TypesOf(Passed(k)')
    <3>1. CASE k = n
      BY <1>1, <2>2, <2>5, <2>6, <2>8, <3>1
    <3>2. CASE k \in nodes \ {n}
      BY <2>3, <2>5, <2>8, <3>2
    <3>3. CASE k \in {l, r}
      BY <2>4, <2>7, <2>8, <3>3
    <3> QED  BY <1>3, <3>1, <3>2, <3>3
  <2> QED  BY <2>9 DEF PropertiesExact, TypesOf
<1> QED  BY <1>3, <1>11, <1>12, <1>15, <1>16 DEF PassInv

(* The count of each node is that of the objects which have passed it. *)
LEMMA PassNext == TreeInv /\ PropertiesInv /\ PassInv /\ [Next]_vars => PassInv'
<1> SUFFICES ASSUME TreeInv, PropertiesInv, PassInv, [Next]_vars PROVE PassInv'
  OBVIOUS
<1>1. CASE \E i \in Items : Insert(i)
  BY <1>1, InsertPasses
<1>2. CASE Clear
  BY <1>2, ClearPasses
<1>3. CASE Call
  <2>1. PICK c \in calls : Descend(c[1], c[2]) \/ Keep(c[1], c[2]) \/ Split(c[1], c[2])
    BY <1>3 DEF Call
  <2>2. <<c[1], c[2]>> \in calls
    BY DEF TreeInv, Shape
  <2> QED  BY <2>1, <2>2, DescendPasses, KeepPasses, SplitPasses
<1>4. CASE UNCHANGED vars
  <2>1. /\ nodes' = nodes /\ inner' = inner /\ items' = items /\ count' = count
        /\ types' = types /\ stored' = stored /\ calls' = calls
    BY <1>4 DEF vars, properties
  <2>2. IsFiniteSet(stored)' /\ CallsApart'
    BY <2>1 DEF PassInv, CallsApart, Disjoint
  <2>3. Nesting'
    BY <2>1 DEF PassInv, Nesting, Below, Disjoint, Within, Left, Right, Middle
  <2>4. \A n, i : OnItsWay(i, n)' <=> OnItsWay(i, n)
    BY <2>1 DEF OnItsWay, Within
  <2>5. \A n : Passed(n)' = Passed(n)
    BY <2>1, <2>4 DEF Passed, Overlaps
  <2>6. Arrived'
    BY <2>1, <2>4 DEF PassInv, Arrived, Leaves
  <2>7. PropertiesExact'
    BY <2>1, <2>5 DEF PassInv, PropertiesExact, TypesOf
  <2> QED  BY <2>2, <2>3, <2>6, <2>7 DEF PassInv
<1> QED  BY <1>1, <1>2, <1>3, <1>4 DEF Next

(* A node with children is in no list. *)
LEMMA UnlinkedNext == TreeInv /\ LinkInv /\ InnerUnlinked /\ [Next]_vars => InnerUnlinked'
<1> SUFFICES ASSUME TreeInv, LinkInv, InnerUnlinked, [Next]_vars PROVE InnerUnlinked'
  OBVIOUS
<1>1. CASE UNCHANGED <<inner, next>>
  BY <1>1 DEF InnerUnlinked
<1>2. ASSUME NEW i \in Items, Insert(i) PROVE InnerUnlinked'
  <2>1. CASE nodes = {}
    BY <1>2, <2>1 DEF Insert, TreeInv, Shape, InnerUnlinked
  <2>2. CASE nodes # {}
    BY <1>1, <1>2, <2>2 DEF Insert, links
  <2> QED  BY <2>1, <2>2
<1>3. CASE Clear
  BY <1>3 DEF Clear, InnerUnlinked
<1>4. CASE Call
  <2>1. PICK c \in calls : Descend(c[1], c[2]) \/ Keep(c[1], c[2]) \/ Split(c[1], c[2])
    BY <1>4 DEF Call
  <2>2. CASE Descend(c[1], c[2]) \/ Keep(c[1], c[2])
    BY <1>1, <2>2 DEF Descend, Keep, links
  <2>3. CASE Split(c[1], c[2])
    <3>1. PICK n, i : <<n, i>> \in calls /\ Split(n, i)
      BY <2>3 DEF TreeInv, Shape
    <3>2. /\ n \in Leaves /\ n \in nodes /\ n \in Node /\ i \in Items
          /\ ~Fits(i, n) /\ Overlaps(i, n) /\ n[1] <= n[2]
      BY <3>1 DEF Split, TreeInv, Shape, CallsOverlap
    <3>3. n[1] < n[2]
      BY <3>2, ItemNumbers, NodeNumbers DEF Fits, Overlaps
    <3>4. /\ nodes' = nodes \cup {Left(n), Right(n)} /\ inner' = inner \cup {n} /\ Relink(n)
      BY <3>1 DEF Split
    <3>5. /\ Left(n) \notin nodes /\ Right(n) \notin nodes /\ Left(n) # n /\ Right(n) # n
      BY <3>2, <3>3, Children
    <3>6. next'[n] = None
      BY <3>2, <3>4, <3>5 DEF Relink
    <3>7. ASSUME NEW m \in inner PROVE next'[m] = None
      <4>1. m \in nodes \ {n}
        BY <3>2 DEF TreeInv, Shape, Leaves
      <4>2. m # prev[n]
        <5>1. m # None
          BY <4>1, NoneNoNode DEF TreeInv, Shape
        <5> QED  BY <3>2, <5>1 DEF LinkInv, PrevBack, Leaves
      <4>3. next'[m] = next[m]
        BY <3>2, <3>3, <3>4, <4>1, <4>2, RelinkValues
      <4> QED  BY <4>3 DEF InnerUnlinked
    <3> QED  BY <3>4, <3>6, <3>7 DEF InnerUnlinked, None
  <2> QED  BY <2>1, <2>2, <2>3
<1>5. CASE UNCHANGED vars
  BY <1>1, <1>5 DEF vars, links
<1> QED  BY <1>2, <1>3, <1>4, <1>5 DEF Next

---------------------------------------------------------------------------
(* Queries. A descent goes to the child on the side of an address; Nearest is
   the address of the node that it leads to. *)
Holds(n, x) == n[1] <= x /\ x <= n[2]
Child(n, x) == IF x <= Middle(n) THEN Left(n) ELSE Right(n)
Nearest(n, x) == IF x < n[1] THEN n[1] ELSE IF x > n[2] THEN n[2] ELSE x
Size(n) == n[2] - n[1]

(* What a step of a descent leads to. *)
LEMMA ChildIs ==
  ASSUME TreeInv, NEW n \in inner, NEW x \in Int, NEW c, c = Child(n, x)
  PROVE  /\ n \in nodes /\ n \in Node /\ c \in nodes /\ c \in Node /\ c \in {Left(n), Right(n)}
         /\ Within(c, n) /\ c # n /\ Size(c) < Size(n)
         /\ Nearest(c, x) = Nearest(n, x)
         /\ Holds(n, x) => Holds(c, x)
         /\ \A h \in {Left(n), Right(n)} : Holds(h, Nearest(n, x)) => h = c
<1> DEFINE l == Left(n)  r == Right(n)
<1>1. n \in nodes /\ n \in Node /\ n[1] < n[2] /\ l \in nodes /\ r \in nodes
  BY DEF TreeInv, Shape
<1>2. /\ l \in Node /\ r \in Node /\ l[1] = n[1] /\ l[1] <= l[2]
      /\ r[1] = l[2] + 1 /\ r[2] = n[2] /\ r[1] <= r[2] /\ l[2] = Middle(n)
  BY <1>1, Halves DEF Left
<1>3. c = IF x <= l[2] THEN l ELSE r
  BY <1>2 DEF Child
<1> HIDE DEF l, r
<1>4. /\ n[1] \in Int /\ n[2] \in Int /\ l[1] \in Int /\ l[2] \in Int /\ r[1] \in Int /\ r[2] \in Int
  BY <1>1, <1>2, NodeNumbers
<1>5. CASE x <= l[2]
  <2>1. c = l
    BY <1>3, <1>5
  <2>2. ~Holds(r, Nearest(n, x))
    BY <1>1, <1>2, <1>4, <1>5 DEF Holds, Nearest
  <2>3. Within(c, n) /\ c # n /\ Size(c) < Size(n) /\ Nearest(c, x) = Nearest(n, x)
    BY <1>1, <1>2, <1>4, <1>5, <2>1 DEF Within, Size, Nearest
  <2> QED  BY <1>1, <1>2, <1>4, <1>5, <2>1, <2>2, <2>3 DEF Holds, l, r
<1>6. CASE ~(x <= l[2])
  <2>1. c = r
    BY <1>3, <1>6
  <2>2. ~Holds(l, Nearest(n, x))
    BY <1>1, <1>2, <1>4, <1>6 DEF Holds, Nearest
  <2>3. Within(c, n) /\ c # n /\ Size(c) < Size(n) /\ Nearest(c, x) = Nearest(n, x)
    BY <1>1, <1>2, <1>4, <1>6, <2>1 DEF Within, Size, Nearest
  <2> QED  BY <1>1, <1>2, <1>4, <1>6, <2>1, <2>2, <2>3 DEF Holds, l, r
<1> QED  BY <1>5, <1>6

(* The size of a node is a number. *)
LEMMA SizeNumber ==
  ASSUME TreeInv, NEW n \in nodes
  PROVE  /\ n \in Node /\ n[1] \in Int /\ n[2] \in Int /\ n[1] <= n[2] /\ 0 <= n[1] /\ n[2] <= SpaceEnd
         /\ Size(n) \in Nat
<1>1. n \in Node /\ n[1] <= n[2]
  BY DEF TreeInv, Shape
<1> QED  BY <1>1, NodeNumbers DEF Size

(* A set of nodes that is not empty has a smallest member. *)
LEMMA Smallest ==
  ASSUME TreeInv, NEW S \in SUBSET nodes, S # {}
  PROVE  \E n \in S : \A m \in S : Size(n) <= Size(m)
<1> DEFINE sizes == {Size(n) : n \in S}
<1>1. sizes \subseteq Nat /\ sizes # {}
  BY SizeNumber
<1>2. \E x \in sizes : \A y \in sizes : x <= y
  BY <1>1, Least
<1> QED  BY <1>2

(* An address of a node is in one of the leaves below it, *)
LEMMA LeafThere ==
  ASSUME TreeInv, NEW m \in nodes, NEW x \in Int, Holds(m, x)
  PROVE  \E n \in Leaves : Within(n, m) /\ Holds(n, x)
<1> DEFINE S == {n \in nodes : Within(n, m) /\ Holds(n, x)}
<1>1. m \in S
  BY SizeNumber DEF Within
<1>2. PICK n \in S : \A k \in S : Size(n) <= Size(k)
  BY <1>1, Smallest
<1>3. n \notin inner
  <2>1. SUFFICES ASSUME n \in inner PROVE FALSE
    OBVIOUS
  <2>2. PICK c : c = Child(n, x)
    OBVIOUS
  <2>3. c \in nodes /\ Within(c, n) /\ Size(c) < Size(n) /\ Holds(c, x)
    BY <1>2, <2>1, <2>2, ChildIs
  <2>4. Within(c, m)
    BY <1>2, <2>3, SizeNumber DEF Within
  <2> QED  BY <1>2, <2>3, <2>4, SizeNumber
<1> QED  BY <1>2, <1>3 DEF Leaves

(* and in no other leaf. *)
LEMMA LeafOnce ==
  ASSUME TreeInv, NEW n \in Leaves, NEW k \in Leaves, NEW x \in Int, Holds(n, x), Holds(k, x)
  PROVE  n = k
<1>1. n \in nodes /\ k \in nodes /\ k \notin inner
  BY DEF Leaves
<1>2. ~Disjoint(k, n)
  BY <1>1, SizeNumber DEF Disjoint, Holds
<1> QED  BY <1>1, <1>2 DEF TreeInv, Laminar

(* The function that LeafAt() defines. *)
LeafBody(f, x) ==
  [n \in nodes |-> IF n \notin inner THEN n
                   ELSE f[IF x <= Middle(n) THEN Left(n) ELSE Right(n)]]

(* If a function satisfies the definition, LeafAt() is the value of such a one. *)
LEMMA LeafFixed ==
  ASSUME NEW x, NEW g, g = LeafBody(g, x)
  PROVE  \E f : f = LeafBody(f, x) /\ LeafAt(x) = f[Root]
<1>1. LeafAt(x) = (CHOOSE f : f = LeafBody(f, x))[Root]
  BY Zenon DEF LeafAt, LeafBody
<1>2. (CHOOSE f : f = LeafBody(f, x)) = LeafBody((CHOOSE f : f = LeafBody(f, x)), x)
  BY Zenon
<1> QED  BY <1>1, <1>2, Zenon

(* The descent from the root leads to the leaf of the address. *)
LEMMA LeafAtIs ==
  ASSUME TreeInv, nodes # {}, NEW x \in 0 .. SpaceEnd
  PROVE  LeafAt(x) \in Leaves /\ Holds(LeafAt(x), x)
<1> DEFINE leaf(n) == CHOOSE k \in Leaves : Holds(k, Nearest(n, x))
           g == [n \in nodes |-> leaf(n)]
<1>1. x \in Int /\ Root \in nodes /\ Holds(Root, x)
  BY RootNode, SpaceAssumption DEF TreeInv, Shape, Holds
<1>2. ASSUME NEW n \in nodes PROVE leaf(n) \in Leaves /\ Holds(leaf(n), Nearest(n, x))
  <2>1. Holds(n, Nearest(n, x)) /\ Nearest(n, x) \in Int
    BY <1>1, SizeNumber DEF Holds, Nearest
  <2>2. \E k \in Leaves : Holds(k, Nearest(n, x))
    BY <2>1, LeafThere
  <2> QED  BY <2>2, Zenon
<1>3. ASSUME NEW n \in nodes
      PROVE  g[n] = IF n \notin inner THEN n ELSE g[IF x <= Middle(n) THEN Left(n) ELSE Right(n)]
  <2>1. CASE n \notin inner
    <3>1. n \in Leaves /\ Holds(n, Nearest(n, x)) /\ Nearest(n, x) \in Int
      BY <1>1, <2>1, SizeNumber DEF Leaves, Holds, Nearest
    <3>2. leaf(n) = n
      BY <1>2, <3>1, LeafOnce
    <3> QED  BY <2>1, <3>2
  <2>2. CASE n \in inner
    <3>1. Child(n, x) \in nodes /\ Nearest(Child(n, x), x) = Nearest(n, x)
      BY <1>1, <2>2, ChildIs
    <3>2. g[Child(n, x)] = g[n]
      BY <3>1
    <3> QED  BY <2>2, <3>2 DEF Child
  <2> QED  BY <2>1, <2>2
<1>4. g = LeafBody(g, x)
  <2> HIDE DEF leaf
  <2>1. g = [n \in nodes |-> IF n \notin inner THEN n ELSE g[IF x <= Middle(n) THEN Left(n) ELSE Right(n)]]
    BY <1>3, Zenon
  <2> QED  BY <2>1, Zenon DEF LeafBody
<1> HIDE DEF g
<1>5. PICK f : f = LeafBody(f, x) /\ LeafAt(x) = f[Root]
  BY <1>4, LeafFixed
<1> DEFINE S == {n \in nodes : Holds(n, x) /\ ~(f[n] \in Leaves /\ Holds(f[n], x))}
<1>6. S = {}
  <2>1. SUFFICES ASSUME S # {} PROVE FALSE
    OBVIOUS
  <2>2. PICK n \in S : \A m \in S : Size(n) <= Size(m)
    BY <2>1, Smallest
  <2>3. f[n] = IF n \notin inner THEN n ELSE f[Child(n, x)]
    BY <1>5, <2>2, Zenon DEF LeafBody, Child
  <2>4. CASE n \notin inner
    BY <2>2, <2>3, <2>4 DEF Leaves
  <2>5. CASE n \in inner
    <3>1. PICK c : c = Child(n, x)
      OBVIOUS
    <3>2. c \in nodes /\ Size(c) < Size(n) /\ Holds(c, x)
      BY <1>1, <2>2, <2>5, <3>1, ChildIs
    <3>3. c \notin S
      BY <2>2, <3>2, SizeNumber
    <3> QED  BY <2>2, <2>3, <2>5, <3>1, <3>2, <3>3
  <2> QED  BY <2>4, <2>5
<1> QED  BY <1>1, <1>5, <1>6

---------------------------------------------------------------------------
(* The leaves in the list from leaf m on, up to the address b. *)
LeavesFrom(m, b) == {k \in Leaves : m # None /\ m[1] <= k[1] /\ k[1] <= b}
HeldFrom(m, b) == UNION {items[k] : k \in LeavesFrom(m, b)}

(* The leaves behind a leaf are the next one and those behind that. *)
LEMMA LeavesAfter ==
  ASSUME TreeInv, LinkInv, NEW m \in Leaves, NEW b \in Int, m[1] <= b
  PROVE  /\ m # None /\ next[m] \in Leaves \cup {None}
         /\ next[m] # None => next[m][1] > m[1]
         /\ LeavesFrom(m, b) = {m} \cup LeavesFrom(next[m], b)
<1>1. /\ m \in nodes /\ m \in Node /\ m[1] \in Int /\ m[2] \in Int /\ m[1] <= m[2] /\ m # None
      /\ nodes # {}
  BY SizeNumber, NoneNoNode DEF Leaves
<1>2. ASSUME NEW k \in Leaves, m[1] <= k[1], k # m PROVE m[2] < k[1]
  <2>1. k \in nodes /\ k[1] \in Int /\ k[2] \in Int /\ k[1] <= k[2] /\ m \notin inner
    BY SizeNumber DEF Leaves
  <2>2. Disjoint(m, k)
    BY <1>1, <1>2, <2>1 DEF TreeInv, Laminar
  <2> QED  BY <1>1, <1>2, <2>1, <2>2 DEF Disjoint
<1>3. \A k \in Leaves : k[1] \in Int /\ k[2] \in Int /\ k[1] <= k[2] /\ k[2] <= SpaceEnd /\ k # None
  BY SizeNumber, NoneNoNode DEF Leaves
<1>4. CASE m = last
  <2>1. next[m] = None /\ m[2] = SpaceEnd
    BY <1>1, <1>4 DEF LinkInv, LeavesLinked
  <2>2. \A k \in Leaves : m[1] <= k[1] => k = m
    BY <1>1, <1>2, <1>3, <2>1, SpaceAssumption
  <2> QED  BY <1>1, <1>3, <2>1, <2>2 DEF LeavesFrom
<1>5. CASE m # last
  <2>1. next[m] \in Leaves /\ next[m][1] = m[2] + 1
    BY <1>1, <1>5 DEF LinkInv, LeavesLinked
  <2>2. \A k \in Leaves : m[1] <= k[1] <=> k = m \/ next[m][1] <= k[1]
    BY <1>1, <1>2, <1>3, <2>1
  <2> QED  BY <1>1, <1>3, <2>1, <2>2 DEF LeavesFrom
<1> QED  BY <1>4, <1>5

(* The function that Walk() defines. *)
WalkBody(f, b) ==
  [m \in nodes \cup {None} |->
     IF m = None THEN {} ELSE IF m[1] > b THEN {} ELSE items[m] \cup f[next[m]]]

(* If a function satisfies it, Walk() is the value of such a one. *)
LEMMA WalkFixed ==
  ASSUME NEW n, NEW b, NEW g, g = WalkBody(g, b)
  PROVE  \E f : f = WalkBody(f, b) /\ Walk(n, b) = f[n]
<1>1. Walk(n, b) = (CHOOSE f : f = WalkBody(f, b))[n]
  BY Zenon DEF Walk, WalkBody
<1>2. (CHOOSE f : f = WalkBody(f, b)) = WalkBody((CHOOSE f : f = WalkBody(f, b)), b)
  BY Zenon
<1> QED  BY <1>1, <1>2, Zenon

(* The walk along the list collects the objects of the leaves up to an address. *)
LEMMA WalkIs ==
  ASSUME TreeInv, LinkInv, InnerUnlinked, NEW n \in Leaves \cup {None}, NEW b \in Int
  PROVE  Walk(n, b) = HeldFrom(n, b)
<1> DEFINE g == [m \in nodes \cup {None} |->
                   IF m \in inner THEN IF m[1] > b THEN {} ELSE items[m] ELSE HeldFrom(m, b)]
<1>0. None \notin nodes /\ inner \subseteq nodes /\ \A m \in nodes : m[1] \in Int
  BY NoneNoNode, SizeNumber DEF TreeInv, Shape
<1>1. HeldFrom(None, b) = {}
  BY DEF HeldFrom, LeavesFrom
<1>2. ASSUME NEW m \in Leaves
      PROVE  /\ m[1] > b => HeldFrom(m, b) = {}
             /\ ~(m[1] > b) => HeldFrom(m, b) = items[m] \cup HeldFrom(next[m], b)
  <2>1. m[1] \in Int /\ \A k \in Leaves : k[1] \in Int
    BY <1>0 DEF Leaves
  <2>2. ASSUME m[1] > b PROVE HeldFrom(m, b) = {}
    <3>1. LeavesFrom(m, b) = {}
      BY <2>1, <2>2 DEF LeavesFrom
    <3> QED  BY <3>1 DEF HeldFrom
  <2>3. ASSUME ~(m[1] > b) PROVE HeldFrom(m, b) = items[m] \cup HeldFrom(next[m], b)
    <3>1. LeavesFrom(m, b) = {m} \cup LeavesFrom(next[m], b)
      BY <2>1, <2>3, LeavesAfter
    <3> QED  BY <3>1 DEF HeldFrom
  <2> QED  BY <2>2, <2>3
<1>3. ASSUME NEW m \in nodes \cup {None}
      PROVE  g[m] = IF m = None THEN {} ELSE IF m[1] > b THEN {} ELSE items[m] \cup g[next[m]]
  <2>1. CASE m = None
    BY <1>0, <1>1, <2>1
  <2>2. CASE m \in inner
    <3>1. next[m] = None /\ g[None] = {}
      BY <1>0, <1>1, <2>2 DEF InnerUnlinked
    <3> QED  BY <1>0, <2>2, <3>1
  <2>3. CASE m \in Leaves
    <3>1. m \notin inner /\ m # None /\ g[m] = HeldFrom(m, b)
      BY <1>0, <2>3 DEF Leaves
    <3>2. CASE m[1] > b
      BY <1>2, <2>3, <3>1, <3>2
    <3>3. CASE ~(m[1] > b)
      <4>1. next[m] \in Leaves \cup {None}
        BY <1>0, <2>3, <3>3, LeavesAfter DEF Leaves
      <4>2. g[next[m]] = HeldFrom(next[m], b)
        BY <1>0, <4>1 DEF Leaves
      <4> QED  BY <1>2, <2>3, <3>1, <3>3, <4>2
    <3> QED  BY <3>2, <3>3
  <2> QED  BY <2>1, <2>2, <2>3 DEF Leaves
<1>4. g = WalkBody(g, b)
  <2>1. g = [m \in nodes \cup {None} |-> g[m]]
    OBVIOUS
  <2> HIDE DEF g
  <2>2. g = [m \in nodes \cup {None} |->
               IF m = None THEN {} ELSE IF m[1] > b THEN {} ELSE items[m] \cup g[next[m]]]
    BY <1>3, <2>1
  <2> QED  BY <2>2, Zenon DEF WalkBody
<1> HIDE DEF g
<1>5. PICK f : f = WalkBody(f, b) /\ Walk(n, b) = f[n]
  BY <1>4, WalkFixed
<1>6. \A m \in nodes \cup {None} :
        f[m] = IF m = None THEN {} ELSE IF m[1] > b THEN {} ELSE items[m] \cup f[next[m]]
  BY <1>5, Zenon DEF WalkBody
<1>7. f[None] = {}
  BY <1>6
<1> DEFINE S == {m \in Leaves : f[m] # HeldFrom(m, b)}
           left == {SpaceEnd - m[1] : m \in S}
<1>8. S = {}
  <2>1. SUFFICES ASSUME S # {} PROVE FALSE
    OBVIOUS
  <2>2. \A m \in Leaves : m[1] \in Int /\ m[1] <= SpaceEnd /\ SpaceEnd - m[1] \in Nat
    BY SizeNumber, SpaceAssumption DEF Leaves
  <2>3. left \subseteq Nat /\ left # {}
    BY <2>1, <2>2
  <2>4. \E x \in left : \A y \in left : x <= y
    BY <2>3, Least
  <2>5. PICK m \in S : \A k \in S : SpaceEnd - m[1] <= SpaceEnd - k[1]
    BY <2>4
  <2>6. m \in nodes /\ m # None /\ m[1] \in Int
    BY <1>0 DEF Leaves
  <2>7. CASE m[1] > b
    BY <1>2, <1>6, <2>5, <2>6, <2>7
  <2>8. CASE ~(m[1] > b)
    <3>1. next[m] \in Leaves \cup {None} /\ (next[m] # None => next[m][1] > m[1])
      BY <2>6, <2>8, LeavesAfter
    <3>2. f[m] = items[m] \cup f[next[m]] /\ HeldFrom(m, b) = items[m] \cup HeldFrom(next[m], b)
      BY <1>2, <1>6, <2>6, <2>8
    <3>3. f[next[m]] = HeldFrom(next[m], b)
      <4>1. CASE next[m] = None
        BY <1>1, <1>7, <4>1
      <4>2. CASE next[m] \in Leaves /\ next[m] # None
        <5>1. next[m] \notin S
          BY <2>2, <2>5, <3>1, <4>2, SpaceAssumption
        <5> QED  BY <4>2, <5>1
      <4> QED  BY <3>1, <4>1, <4>2
    <3> QED  BY <2>5, <3>2, <3>3
  <2> QED  BY <2>7, <2>8
<1> QED  BY <1>1, <1>5, <1>7, <1>8

---------------------------------------------------------------------------
(* An object that overlaps a range is at one of its addresses. *)
LEMMA SomeAddress ==
  ASSUME TreeInv, NEW a \in 0 .. SpaceEnd, NEW b \in 0 .. SpaceEnd, a <= b,
         NEW i \in Overlapping(<<a, b>>)
  PROVE  \E x \in a .. b : Addr[i] <= x /\ x <= EndAddr[i]
<1>1. i \in Items /\ Addr[i] <= b /\ a <= EndAddr[i]
  BY DEF Overlapping, Overlaps, TreeInv, Shape
<1>2. CASE Addr[i] <= a
  BY <1>1, <1>2, ItemNumbers, SpaceAssumption
<1>3. CASE ~(Addr[i] <= a)
  <2>1. Addr[i] \in a .. b
    BY <1>1, <1>3, ItemNumbers, SpaceAssumption
  <2> QED  BY <1>1, <2>1, ItemNumbers
<1> QED  BY <1>2, <1>3

(* A range is served by the leaf of its start and those behind it. *)
LEMMA RangeLeaves ==
  ASSUME TreeInv, LinkInv, InnerUnlinked, AtRest, nodes # {},
         NEW a \in 0 .. SpaceEnd, NEW b \in 0 .. SpaceEnd, a <= b
  PROVE  ObjectsInRange(a, b) = Overlapping(<<a, b>>)
<1> DEFINE n == LeafAt(a)  S == LeavesFrom(n, b)
<1>1. n \in Leaves /\ Holds(n, a) /\ n \in nodes /\ n \in Node
  BY LeafAtIs, SizeNumber DEF Leaves
<1>2. Sanitized(a, b) = <<a, b>>
  BY SpaceAssumption DEF Sanitized
<1> HIDE DEF n
<1>3. n[1] \in Int /\ n[2] \in Int /\ n[1] <= a /\ a <= n[2] /\ n[1] <= b
  BY <1>1, SizeNumber DEF Holds
<1>4. next[n] \in Leaves \cup {None} /\ S = {n} \cup LeavesFrom(next[n], b)
  BY <1>1, <1>3, LeavesAfter
<1>5. ObjectsInRange(a, b) = items[n] \cup Walk(next[n], b)
  BY <1>2, SpaceAssumption DEF ObjectsInRange, n
<1>6. Walk(next[n], b) = HeldFrom(next[n], b)
  BY <1>4, WalkIs
<1>7. ObjectsInRange(a, b) = UNION {items[k] : k \in S}
  BY <1>4, <1>5, <1>6 DEF HeldFrom
<1>8. ASSUME NEW k \in S, NEW i \in items[k] PROVE i \in Overlapping(<<a, b>>)
  <2>1. k \in Leaves /\ n[1] <= k[1] /\ k[1] <= b /\ k[1] \in Int /\ k[2] \in Int /\ k[1] <= k[2]
        /\ k \in nodes
    BY SizeNumber DEF LeavesFrom, Leaves
  <2>2. a <= k[2]
    <3>1. CASE k = n
      BY <1>3, <3>1
    <3>2. CASE k # n
      <4>1. Disjoint(n, k)
        BY <1>1, <2>1, <3>2 DEF TreeInv, Laminar, Leaves
      <4> QED  BY <1>3, <2>1, <4>1 DEF Disjoint
    <3> QED  BY <3>1, <3>2
  <2>3. Covers(i, k) /\ i \in stored /\ i \in Items
    BY <2>1, LeafHolds DEF Overlapping, TreeInv, Shape
  <2> QED  BY <2>1, <2>2, <2>3, ItemNumbers DEF Covers, Overlapping, Overlaps
<1>9. ASSUME NEW i \in Overlapping(<<a, b>>) PROVE \E k \in S : i \in items[k]
  <2>1. PICK x \in a .. b : Addr[i] <= x /\ x <= EndAddr[i]
    BY SomeAddress
  <2>2. x \in Int /\ x \in 0 .. SpaceEnd /\ x <= b /\ a <= x /\ i \in stored /\ i \in Items
    <3>1. x \in Int /\ x \in 0 .. SpaceEnd /\ x <= b /\ a <= x
      BY SpaceAssumption
    <3> QED  BY <3>1 DEF Overlapping, TreeInv, Shape
  <2>3. PICK k \in Leaves : Holds(k, x)
    BY <2>2, LeafAtIs
  <2>4. k \in nodes /\ k[1] \in Int /\ k[2] \in Int /\ k[1] <= x /\ x <= k[2]
    BY <2>3, SizeNumber DEF Leaves, Holds
  <2>5. i \in items[k]
    <3>1. i \in Overlapping(k)
      BY <2>1, <2>2, <2>4, ItemNumbers DEF Overlapping, Overlaps
    <3> QED  BY <3>1, LeafHolds
  <2>6. n[1] <= k[1]
    <3>1. CASE k = n
      BY <1>3, <3>1
    <3>2. CASE k # n
      <4>1. Disjoint(n, k)
        BY <1>1, <2>4, <3>2 DEF TreeInv, Laminar, Leaves
      <4> QED  BY <1>3, <2>2, <2>4, <4>1 DEF Disjoint
    <3> QED  BY <3>1, <3>2
  <2>7. k \in S
    <3>1. n # None
      BY <1>1, NoneNoNode
    <3> QED  BY <2>2, <2>4, <2>6, <3>1 DEF LeavesFrom
  <2> QED  BY <2>5, <2>7
<1> QED  BY <1>7, <1>8, <1>9

(* A query by address. *)
LEMMA AddressLeaf ==
  ASSUME TreeInv, AtRest, nodes # {}, NEW a \in 0 .. SpaceEnd
  PROVE  ObjectsAt(a) = Overlapping(<<a, a>>)
<1>1. PICK n \in Leaves : n = LeafAt(a) /\ Holds(n, a)
  BY LeafAtIs
<1>2. ObjectsAt(a) = items[n] /\ items[n] = Overlapping(n) /\ \A i \in items[n] : Covers(i, n)
  BY <1>1, LeafHolds, SpaceAssumption DEF ObjectsAt
<1>3. n[1] \in Int /\ n[2] \in Int /\ n[1] <= a /\ a <= n[2] /\ a \in Int
  BY <1>1, SizeNumber, SpaceAssumption DEF Leaves, Holds
<1>4. stored \subseteq Items
  BY DEF TreeInv, Shape
<1>5. ASSUME NEW i \in items[n] PROVE i \in Overlapping(<<a, a>>)
  BY <1>2, <1>3, <1>4, ItemNumbers DEF Overlapping, Overlaps, Covers
<1>6. ASSUME NEW i \in Overlapping(<<a, a>>) PROVE i \in Overlapping(n)
  BY <1>3, <1>4, ItemNumbers DEF Overlapping, Overlaps
<1> QED  BY <1>2, <1>5, <1>6

---------------------------------------------------------------------------
(* The two descents of propertiesOfRange(). On is what a descent towards x meets
   below node n, until it is done. *)
On(n, x, r) ==
  {m \in nodes : /\ Within(m, n) /\ Holds(m, Nearest(n, x))
                 /\ \A k \in nodes : Within(k, n) /\ Within(m, k) /\ k # m => ~Done(k, r)}

(* What is below a node is within it and smaller. *)
LEMMA BelowSmaller ==
  ASSUME TreeInv, NEW k \in nodes, NEW m \in nodes, Below(k, m)
  PROVE  Within(k, m) /\ k # m /\ Size(k) < Size(m)
<1>1. m[1] < m[2] /\ m \in Node
  BY DEF TreeInv, Shape, Below
<1>2. /\ Left(m)[1] = m[1] /\ Right(m)[1] = Left(m)[2] + 1 /\ Right(m)[2] = m[2]
      /\ Left(m)[1] <= Left(m)[2] /\ Right(m)[1] <= Right(m)[2]
      /\ Left(m)[2] \in Int
  BY <1>1, Halves, NodeNumbers
<1> QED  BY <1>1, <1>2, SizeNumber DEF Below, Within, Size

(* Two nodes that hold an address are on one path. *)
LEMMA OnOnePath ==
  ASSUME TreeInv, Nesting, NEW m \in nodes, NEW n \in nodes, NEW x \in Int, Holds(m, x), Holds(n, x)
  PROVE  m = n \/ Below(m, n) \/ Below(n, m)
<1>1. ~Disjoint(m, n)
  BY SizeNumber DEF Disjoint, Holds
<1> QED  BY <1>1 DEF Nesting

(* A descent that is done stops, another one goes on with a child. *)
LEMMA OnStep ==
  ASSUME TreeInv, Nesting, NEW n \in nodes, NEW x \in Int, NEW r
  PROVE  /\ Done(n, r) => On(n, x, r) = {n}
         /\ ~Done(n, r) => n \in inner /\ On(n, x, r) = {n} \cup On(Child(n, x), x, r)
<1>0. PICK y : y = Nearest(n, x)
  OBVIOUS
<1>1. y \in Int /\ Holds(n, y) /\ Within(n, n)
  BY <1>0, SizeNumber DEF Holds, Nearest, Within
<1>2. ASSUME NEW k \in nodes, Within(k, n), Within(n, k) PROVE k = n
  <2>1. k # n => Below(k, n)
    BY <1>2, WithinBelow
  <2> QED  BY <1>2, <2>1, BelowSmaller, SizeNumber DEF Within, Size
<1>3. n \in On(n, x, r)
  BY <1>0, <1>1, <1>2 DEF On
<1>4. ASSUME Done(n, r) PROVE On(n, x, r) = {n}
  <2>1. ASSUME NEW m \in On(n, x, r) PROVE m = n
    BY <1>1, <1>4 DEF On
  <2> QED  BY <1>3, <2>1
<1>5. ASSUME ~Done(n, r) PROVE n \in inner /\ On(n, x, r) = {n} \cup On(Child(n, x), x, r)
  <2>1. n \in inner
    BY <1>5 DEF Done
  <2>2. PICK c : c = Child(n, x)
    OBVIOUS
  <2>3. /\ c \in nodes /\ c \in {Left(n), Right(n)} /\ Within(c, n) /\ c # n /\ Nearest(c, x) = y
        /\ \A h \in {Left(n), Right(n)} : Holds(h, y) => h = c
    BY <1>0, <2>1, <2>2, ChildIs
  <2>4. ASSUME NEW k \in nodes, Within(k, n), k # n, Holds(k, y) PROVE Within(k, c)
    <3>1. Below(k, n)
      BY <2>4, WithinBelow
    <3>2. PICK h \in {Left(n), Right(n)} : Within(k, h)
      BY <3>1 DEF Below
    <3>3. h \in nodes
      BY <2>1 DEF TreeInv, Shape
    <3>4. Holds(h, y)
      BY <1>1, <2>4, <3>2, <3>3, SizeNumber DEF Holds, Within
    <3> QED  BY <2>3, <3>2, <3>4
  <2>5. \A k \in nodes : Within(k, c) => Within(k, n) /\ k # n
    <3>1. ~Within(n, c)
      BY <1>2, <2>3
    <3> QED  BY <2>3, <3>1, SizeNumber DEF Within
  <2>6. ASSUME NEW m \in On(n, x, r), m # n PROVE m \in On(c, x, r)
    <3>1. m \in nodes /\ Within(m, n) /\ Holds(m, y)
      BY <1>0 DEF On
    <3>2. Within(m, c)
      BY <2>4, <2>6, <3>1
    <3> QED  BY <2>3, <2>5, <3>1, <3>2 DEF On
  <2>7. ASSUME NEW m \in On(c, x, r) PROVE m \in On(n, x, r)
    <3>1. m \in nodes /\ Within(m, c) /\ Holds(m, y) /\ Within(m, n)
      BY <2>3, <2>5 DEF On
    <3>2. ASSUME NEW k \in nodes, Within(k, n), Within(m, k), k # m PROVE ~Done(k, r)
      <4>1. Holds(k, y)
        BY <1>1, <3>1, <3>2, SizeNumber DEF Holds, Within
      <4>2. CASE k = n
        BY <1>5, <4>2
      <4>3. CASE k # n
        <5>1. Within(k, c)
          BY <2>4, <3>2, <4>1, <4>3
        <5> QED  BY <3>2, <5>1 DEF On
      <4> QED  BY <4>2, <4>3
    <3> QED  BY <1>0, <3>1, <3>2 DEF On
  <2> QED  BY <1>3, <2>1, <2>2, <2>6, <2>7
<1> QED  BY <1>4, <1>5

(* The functions that the two descents define. *)
PathBody(f, x, r) ==
  [n \in nodes |-> IF Done(n, r) THEN {n}
                   ELSE {n} \cup f[IF x <= Middle(n) THEN Left(n) ELSE Right(n)]]

(* If a function satisfies the definitions, the paths are values of such a one. *)
LEMMA PathFixed ==
  ASSUME NEW r, NEW x, NEW g, g = PathBody(g, x, r)
  PROVE  \E f : /\ f = PathBody(f, x, r)
                /\ x = r[1] => PathToStart(r) = f[Root]
                /\ x = r[2] => PathToEnd(r) = f[SubTreeRoot(r)]
<1>1. x = r[1] => PathToStart(r) = (CHOOSE f : f = PathBody(f, x, r))[Root]
  <2>1. PathToStart(r) = (CHOOSE f : f = PathBody(f, r[1], r))[Root]
    BY Zenon DEF PathToStart, PathBody
  <2> QED  BY <2>1, Zenon
<1>2. x = r[2] => PathToEnd(r) = (CHOOSE f : f = PathBody(f, x, r))[SubTreeRoot(r)]
  <2>1. PathToEnd(r) = (CHOOSE f : f = PathBody(f, r[2], r))[SubTreeRoot(r)]
    BY Zenon DEF PathToEnd, PathBody
  <2> QED  BY <2>1, Zenon
<1>3. (CHOOSE f : f = PathBody(f, x, r)) = PathBody((CHOOSE f : f = PathBody(f, x, r)), x, r)
  BY Zenon
<1> QED  BY <1>1, <1>2, <1>3, Zenon

(* The nodes on the paths. *)
LEMMA PathIs ==
  ASSUME TreeInv, Nesting, NEW r, NEW x \in Int, Root \in nodes
  PROVE  /\ x = r[1] => PathToStart(r) = On(Root, x, r)
         /\ x = r[2] /\ SubTreeRoot(r) \in nodes => PathToEnd(r) = On(SubTreeRoot(r), x, r)
<1> DEFINE g == [n \in nodes |-> On(n, x, r)]
<1>1. ASSUME NEW n \in nodes
      PROVE  g[n] = IF Done(n, r) THEN {n}
                    ELSE {n} \cup g[IF x <= Middle(n) THEN Left(n) ELSE Right(n)]
  <2>1. CASE Done(n, r)
    BY <2>1, OnStep
  <2>2. CASE ~Done(n, r)
    <3>1. n \in inner /\ On(n, x, r) = {n} \cup On(Child(n, x), x, r)
      BY <2>2, OnStep
    <3>2. Child(n, x) \in nodes
      BY <3>1, ChildIs
    <3>3. g[n] = {n} \cup g[Child(n, x)]
      BY <3>1, <3>2
    <3> QED  BY <2>2, <3>3 DEF Child
  <2> QED  BY <2>1, <2>2
<1>2. g = PathBody(g, x, r)
  <2>1. g = [n \in nodes |-> g[n]]
    OBVIOUS
  <2> HIDE DEF g
  <2>2. g = [n \in nodes |-> IF Done(n, r) THEN {n}
                             ELSE {n} \cup g[IF x <= Middle(n) THEN Left(n) ELSE Right(n)]]
    BY <1>1, <2>1
  <2> QED  BY <2>2, Zenon DEF PathBody
<1> HIDE DEF g
<1>3. PICK f : /\ f = PathBody(f, x, r)
               /\ x = r[1] => PathToStart(r) = f[Root]
               /\ x = r[2] => PathToEnd(r) = f[SubTreeRoot(r)]
  BY <1>2, PathFixed
<1> DEFINE S == {n \in nodes : f[n] # On(n, x, r)}
<1>4. S = {}
  <2>1. SUFFICES ASSUME S # {} PROVE FALSE
    OBVIOUS
  <2>2. PICK n \in S : \A m \in S : Size(n) <= Size(m)
    BY <2>1, Smallest
  <2>3. f[n] = IF Done(n, r) THEN {n} ELSE {n} \cup f[Child(n, x)]
    BY <1>3, <2>2, Zenon DEF PathBody, Child
  <2>4. CASE Done(n, r)
    BY <2>2, <2>3, <2>4, OnStep
  <2>5. CASE ~Done(n, r)
    <3>1. n \in inner /\ On(n, x, r) = {n} \cup On(Child(n, x), x, r)
      BY <2>5, OnStep
    <3>2. PICK c : c = Child(n, x)
      OBVIOUS
    <3>3. c \in nodes /\ Size(c) < Size(n)
      BY <3>1, <3>2, ChildIs
    <3>4. c \notin S
      BY <2>2, <3>3, SizeNumber
    <3> QED  BY <2>2, <2>3, <2>5, <3>1, <3>2, <3>3, <3>4
  <2> QED  BY <2>4, <2>5
<1> QED  BY <1>3, <1>4

(* What a path from a node that holds x to the place of x meets: nodes that hold
   x, and with a node that is not done its child. *)
LEMMA OnPath ==
  ASSUME TreeInv, Nesting, NEW n \in nodes, NEW x \in Int, Holds(n, x), NEW r
  PROVE  /\ n \in On(n, x, r)
         /\ \A m \in On(n, x, r) :
              /\ m \in nodes /\ Within(m, n) /\ Holds(m, x)
              /\ ~Done(m, r) => m \in inner /\ Child(m, x) \in On(n, x, r)
<1>1. Nearest(n, x) = x
  BY SizeNumber DEF Nearest, Holds
<1>2. n \in On(n, x, r)
  BY OnStep
<1>3. ASSUME NEW m \in On(n, x, r) PROVE m \in nodes /\ Within(m, n) /\ Holds(m, x)
  BY <1>1 DEF On
<1>4. ASSUME NEW m \in On(n, x, r), ~Done(m, r) PROVE m \in inner /\ Child(m, x) \in On(n, x, r)
  <2>1. m \in inner
    BY <1>3, <1>4 DEF Done
  <2>2. PICK c : c = Child(m, x)
    OBVIOUS
  <2>3. /\ c \in nodes /\ Within(c, m) /\ c # m /\ Holds(c, x) /\ c \in {Left(m), Right(m)}
        /\ Nearest(m, x) = x
        /\ \A h \in {Left(m), Right(m)} : Holds(h, Nearest(m, x)) => h = c
    <3>1. Nearest(m, x) = x
      BY <1>3, SizeNumber DEF Nearest, Holds
    <3> QED  BY <1>3, <2>1, <2>2, <3>1, ChildIs
  <2>4. Within(c, n)
    BY <1>3, <2>3, SizeNumber DEF Within
  <2>5. ASSUME NEW k \in nodes, Within(k, n), Within(c, k), k # c PROVE ~Done(k, r)
    <3>1. Holds(k, x)
      BY <2>3, <2>5, SizeNumber DEF Holds, Within
    <3>2. m = k \/ Below(m, k) \/ Below(k, m)
      BY <1>3, <3>1, OnOnePath
    <3>3. CASE m = k
      BY <1>4, <3>3
    <3>4. CASE Below(m, k)
      <4>1. Within(m, k) /\ m # k
        BY <1>3, <3>4, BelowSmaller
      <4> QED  BY <2>5, <4>1 DEF On
    <3>5. CASE Below(k, m)
      <4>1. PICK h \in {Left(m), Right(m)} : Within(k, h)
        BY <3>5 DEF Below
      <4>2. h \in nodes
        BY <2>1 DEF TreeInv, Shape
      <4>3. Holds(h, x)
        BY <3>1, <4>1, <4>2, SizeNumber DEF Holds, Within
      <4>4. h = c
        BY <2>3, <4>3
      <4>5. k # c => Below(k, c)
        BY <2>3, <2>5, <4>1, <4>4, WithinBelow
      <4> QED  BY <2>3, <2>5, <4>5, BelowSmaller, SizeNumber DEF Within, Size
    <3> QED  BY <3>2, <3>3, <3>4, <3>5
  <2> QED  BY <1>1, <2>1, <2>2, <2>3, <2>4, <2>5 DEF On
<1> QED  BY <1>2, <1>3, <1>4

(* The second descent begins at the deepest node that holds the range. *)
LEMMA SubTreeRootIs ==
  ASSUME TreeInv, Nesting, nodes # {}, NEW a \in 0 .. SpaceEnd, NEW b \in 0 .. SpaceEnd, a <= b,
         NEW r, r = <<a, b>>, NEW s, s = SubTreeRoot(r)
  PROVE  /\ s \in PathToStart(r) /\ s \in nodes /\ Within(r, s)
         /\ \A m \in PathToStart(r) : Within(r, m) => Within(s, m)
<1> DEFINE P == PathToStart(r)
           C == {n \in P : n = Root \/ Within(r, n)}
<1>1. a \in Int /\ b \in Int /\ r[1] = a /\ r[2] = b /\ Root \in nodes /\ Holds(Root, a)
      /\ Within(r, Root)
  BY RootNode, SpaceAssumption DEF TreeInv, Shape, Holds, Within
<1>2. P = On(Root, a, r)
  BY <1>1, PathIs
<1>3. Root \in P /\ \A m \in P : m \in nodes /\ Holds(m, a)
  BY <1>1, <1>2, OnPath
<1> HIDE DEF P
<1>4. PICK n \in C : \A m \in C : Size(n) <= Size(m)
  BY <1>3, Smallest
<1>5. ASSUME NEW m \in C PROVE Within(n, m)
  <2>1. n = m \/ Below(n, m) \/ Below(m, n)
    BY <1>1, <1>3, OnOnePath
  <2>2. Size(n) <= Size(m) /\ Size(n) \in Nat /\ Size(m) \in Nat
    BY <1>3, <1>4, SizeNumber
  <2>3. ~Below(m, n)
    BY <1>3, <2>2, BelowSmaller
  <2>4. Within(n, n)
    BY <1>3, SizeNumber DEF Within
  <2> QED  BY <1>3, <2>1, <2>3, <2>4, BelowSmaller
<1>6. \E k \in P : (k = Root \/ Within(r, k)) /\ \A m \in P : m = Root \/ Within(r, m) => Within(k, m)
  BY <1>4, <1>5
<1>7. s = CHOOSE k \in P : /\ k = Root \/ Within(r, k)
                           /\ \A m \in P : m = Root \/ Within(r, m) => Within(k, m)
  BY Zenon DEF SubTreeRoot, P
<1>8. s \in P /\ (s = Root \/ Within(r, s)) /\ \A m \in P : m = Root \/ Within(r, m) => Within(s, m)
  BY <1>6, <1>7, Zenon
<1> QED  BY <1>1, <1>3, <1>8 DEF P

(* What is united is in the range or a leaf at one of its ends: its objects
   overlap the range. *)
LEMMA UnitedInRange ==
  ASSUME TreeInv, AtRest, NEW a \in 0 .. SpaceEnd, NEW b \in 0 .. SpaceEnd, a <= b,
         NEW u \in nodes, Within(u, <<a, b>>) \/ (u \in Leaves /\ (Holds(u, a) \/ Holds(u, b))),
         NEW i \in Overlapping(u)
  PROVE  i \in Overlapping(<<a, b>>)
<1>1. /\ a \in Int /\ b \in Int /\ i \in stored /\ i \in Items /\ Overlaps(i, u)
      /\ u[1] \in Int /\ u[2] \in Int /\ u[1] <= u[2]
  BY SizeNumber, SpaceAssumption DEF Overlapping, TreeInv, Shape
<1>2. CASE Within(u, <<a, b>>)
  BY <1>1, <1>2, ItemNumbers DEF Overlapping, Overlaps, Within
<1>3. CASE u \in Leaves /\ (Holds(u, a) \/ Holds(u, b))
  <2>1. Covers(i, u)
    BY <1>3, LeafHolds
  <2> QED  BY <1>1, <1>3, <2>1, ItemNumbers DEF Overlapping, Overlaps, Covers, Holds
<1> QED  BY <1>2, <1>3

(* Left of the parting of the two descents, each address of the range is in
   something that the first one unites. *)
LEMMA StartCovered ==
  ASSUME TreeInv, Nesting, nodes # {}, NEW a \in 0 .. SpaceEnd, NEW b \in 0 .. SpaceEnd, a <= b,
         NEW r, r = <<a, b>>, NEW s \in PathToStart(r), ~Done(s, r), Holds(s, a),
         a <= Middle(s), Middle(s) < b,
         NEW x \in a .. b, x <= Middle(s)
  PROVE  \E u \in UnitedRight(r) \cup Ends(PathToStart(r), r) : Holds(u, x)
<1> DEFINE P == PathToStart(r)
           S == {p \in P : Within(p, Left(s)) /\ Holds(p, x)}
<1>1. a \in Int /\ b \in Int /\ x \in Int /\ a <= x /\ x <= b /\ r[1] = a /\ r[2] = b
      /\ Root \in nodes /\ Holds(Root, a)
  BY RootNode, SpaceAssumption DEF TreeInv, Shape, Holds
<1>2. P = On(Root, a, r)
  BY <1>1, PathIs
<1>3. \A m \in P : /\ m \in nodes /\ Holds(m, a)
                   /\ ~Done(m, r) => m \in inner /\ Child(m, a) \in P
  BY <1>1, <1>2, OnPath
<1> HIDE DEF P
<1>4. \A m \in inner : /\ m \in nodes /\ Left(m) \in nodes /\ Right(m) \in nodes
                       /\ Left(m)[1] = m[1] /\ Left(m)[2] = Middle(m) /\ Middle(m) \in Int
                       /\ Right(m)[1] = Middle(m) + 1 /\ Right(m)[2] = m[2]
  <2> TAKE m \in inner
  <2>1. m \in nodes /\ Left(m) \in nodes /\ Right(m) \in nodes /\ m \in Node /\ m[1] < m[2]
    BY DEF TreeInv, Shape
  <2>2. Left(m)[2] = Middle(m) /\ Right(m)[1] = Middle(m) + 1
    BY DEF Left, Right
  <2> QED  BY <2>1, <2>2, Halves, SizeNumber
<1>5. s \in P /\ s \in inner /\ Left(s) \in P
  <2>1. s \in P
    BY DEF P
  <2>2. Child(s, a) = Left(s)
    BY DEF Child
  <2> QED  BY <1>3, <2>1, <2>2
<1>6. Left(s) \in S
  <2>1. Within(Left(s), Left(s))
    BY <1>4, <1>5, SizeNumber DEF Within
  <2> QED  BY <1>1, <1>4, <1>5, <2>1, SizeNumber DEF Holds
<1>7. PICK p \in S : \A m \in S : Size(p) <= Size(m)
  BY <1>3, <1>6, Smallest
<1>8. CASE Done(p, r)
  BY <1>7, <1>8 DEF Ends, P
<1>9. CASE ~Done(p, r)
  <2>1. p \in nodes /\ p \in inner /\ p \in P /\ Holds(p, x) /\ p[2] <= Middle(s)
    BY <1>3, <1>4, <1>5, <1>7, <1>9 DEF Within
  <2>2. PICK c : c = Child(p, a)
    OBVIOUS
  <2>3. c \in P /\ c \in nodes /\ Within(c, p) /\ Size(c) < Size(p)
    BY <1>1, <1>3, <1>9, <2>1, <2>2, ChildIs
  <2>4. Within(c, Left(s))
    BY <1>4, <1>5, <1>7, <2>1, <2>3, SizeNumber DEF Within
  <2>5. ~Holds(c, x)
    BY <1>7, <2>1, <2>3, <2>4, SizeNumber
  <2>6. CASE a <= Middle(p)
    <3>1. c = Left(p)
      BY <2>2, <2>6 DEF Child
    <3>2. x > Middle(p)
      BY <1>1, <1>4, <2>1, <2>5, <3>1 DEF Holds
    <3>3. Holds(Right(p), x)
      BY <1>1, <1>4, <2>1, <3>2 DEF Holds
    <3>4. Right(p)[2] <= r[2]
      BY <1>1, <1>4, <1>5, <2>1, SizeNumber
    <3>5. Right(p) \in UnitedRight(r)
      BY <1>1, <1>9, <2>1, <2>6, <3>4 DEF UnitedRight, P
    <3> QED  BY <3>3, <3>5
  <2>7. CASE ~(a <= Middle(p))
    <3>1. c = Right(p)
      BY <2>2, <2>7 DEF Child
    <3>2. Holds(c, x)
      BY <1>1, <1>4, <2>1, <2>7, <3>1 DEF Holds
    <3> QED  BY <2>5, <3>2
  <2> QED  BY <2>6, <2>7
<1> QED  BY <1>8, <1>9

(* The same to the right, for the second one. *)
LEMMA EndCovered ==
  ASSUME TreeInv, Nesting, nodes # {}, NEW a \in 0 .. SpaceEnd, NEW b \in 0 .. SpaceEnd, a <= b,
         NEW r, r = <<a, b>>, NEW s, s = SubTreeRoot(r), ~Done(s, r),
         a <= Middle(s), Middle(s) < b,
         NEW x \in a .. b, x > Middle(s)
  PROVE  \E u \in UnitedLeft(r) \cup Ends(PathToEnd(r), r) : Holds(u, x)
<1> DEFINE P == PathToEnd(r)
           S == {p \in P : Within(p, Right(s)) /\ Holds(p, x)}
<1>1. a \in Int /\ b \in Int /\ x \in Int /\ a <= x /\ x <= b /\ r[1] = a /\ r[2] = b /\ Root \in nodes
  BY SpaceAssumption DEF TreeInv, Shape
<1>2. s \in nodes /\ Holds(s, b)
  <2>1. s \in nodes /\ Within(r, s)
    BY SubTreeRootIs
  <2> QED  BY <1>1, <2>1, SizeNumber DEF Within, Holds
<1>3. P = On(s, b, r)
  BY <1>1, <1>2, PathIs
<1>4. s \in P /\ \A m \in P : /\ m \in nodes /\ Holds(m, b)
                              /\ ~Done(m, r) => m \in inner /\ Child(m, b) \in P
  BY <1>1, <1>2, <1>3, OnPath
<1> HIDE DEF P
<1>5. \A m \in inner : /\ m \in nodes /\ Left(m) \in nodes /\ Right(m) \in nodes
                       /\ Left(m)[1] = m[1] /\ Left(m)[2] = Middle(m) /\ Middle(m) \in Int
                       /\ Right(m)[1] = Middle(m) + 1 /\ Right(m)[2] = m[2]
  <2> TAKE m \in inner
  <2>1. m \in nodes /\ Left(m) \in nodes /\ Right(m) \in nodes /\ m \in Node /\ m[1] < m[2]
    BY DEF TreeInv, Shape
  <2>2. Left(m)[2] = Middle(m) /\ Right(m)[1] = Middle(m) + 1
    BY DEF Left, Right
  <2> QED  BY <2>1, <2>2, Halves, SizeNumber
<1>6. s \in inner /\ Right(s) \in P
  <2>1. s \in inner
    BY <1>4
  <2>2. Child(s, b) = Right(s)
    <3>1. ~(b <= Middle(s))
      BY <1>1, <1>5, <2>1
    <3> QED  BY <3>1 DEF Child
  <2> QED  BY <1>4, <2>1, <2>2
<1>7. Right(s) \in S
  <2>1. Within(Right(s), Right(s))
    BY <1>5, <1>6, SizeNumber DEF Within
  <2>2. Holds(Right(s), x)
    <3>1. Middle(s) \in Int /\ Right(s)[1] = Middle(s) + 1 /\ Right(s)[2] = s[2] /\ s[2] \in Int
      BY <1>2, <1>5, <1>6, SizeNumber
    <3> QED  BY <1>1, <1>2, <3>1 DEF Holds
  <2> QED  BY <1>6, <2>1, <2>2
<1>8. PICK p \in S : \A m \in S : Size(p) <= Size(m)
  BY <1>4, <1>7, Smallest
<1>9. CASE Done(p, r)
  BY <1>8, <1>9 DEF Ends, P
<1>10. CASE ~Done(p, r)
  <2>1. p \in nodes /\ p \in inner /\ p \in P /\ Holds(p, x) /\ p[1] >= Middle(s) + 1
    BY <1>4, <1>5, <1>6, <1>8, <1>10, SizeNumber DEF Within
  <2>2. PICK c : c = Child(p, b)
    OBVIOUS
  <2>3. c \in P /\ c \in nodes /\ Within(c, p) /\ Size(c) < Size(p)
    BY <1>1, <1>4, <1>10, <2>1, <2>2, ChildIs
  <2>4. Within(c, Right(s))
    BY <1>5, <1>6, <1>8, <2>1, <2>3, SizeNumber DEF Within
  <2>5. ~Holds(c, x)
    BY <1>8, <2>1, <2>3, <2>4, SizeNumber
  <2>6. CASE b <= Middle(p)
    <3>1. c = Left(p)
      BY <2>2, <2>6 DEF Child
    <3>2. Holds(c, x)
      BY <1>1, <1>5, <2>1, <2>6, <3>1 DEF Holds
    <3> QED  BY <2>5, <3>2
  <2>7. CASE ~(b <= Middle(p))
    <3>1. c = Right(p)
      BY <2>2, <2>7 DEF Child
    <3>2. x <= Middle(p)
      BY <1>1, <1>5, <2>1, <2>5, <3>1 DEF Holds
    <3>3. Holds(Left(p), x)
      BY <1>1, <1>5, <2>1, <3>2 DEF Holds
    <3>4. Left(p)[1] >= r[1]
      BY <1>1, <1>5, <1>6, <2>1, SizeNumber
    <3>5. r[2] > Middle(p)
      BY <1>1, <1>5, <2>1, <2>7
    <3>6. Left(p) \in UnitedLeft(r)
      BY <1>10, <2>1, <3>4, <3>5 DEF UnitedLeft, P
    <3> QED  BY <3>3, <3>6
  <2> QED  BY <2>6, <2>7
<1> QED  BY <1>9, <1>10

(* The nodes whose properties a range query unites. *)
United(r) == UnitedRight(r) \cup UnitedLeft(r) \cup Ends(PathToStart(r), r) \cup Ends(PathToEnd(r), r)

(* Each address of a range is in something that is united. *)
LEMMA AllCovered ==
  ASSUME TreeInv, Nesting, nodes # {}, NEW a \in 0 .. SpaceEnd, NEW b \in 0 .. SpaceEnd, a <= b,
         NEW x \in a .. b
  PROVE  \E u \in United(<<a, b>>) : Holds(u, x)
<1>1. PICK r : r = <<a, b>>
  OBVIOUS
<1>2. PICK s : s = SubTreeRoot(r)
  OBVIOUS
<1>3. a \in Int /\ b \in Int /\ x \in Int /\ a <= x /\ x <= b /\ r[1] = a /\ r[2] = b
  BY <1>1, SpaceAssumption
<1>4. /\ s \in PathToStart(r) /\ s \in nodes /\ Within(r, s)
      /\ \A m \in PathToStart(r) : Within(r, m) => Within(s, m)
  BY <1>1, <1>2, SubTreeRootIs
<1>5. s[1] \in Int /\ s[2] \in Int /\ s[1] <= a /\ b <= s[2] /\ Holds(s, a) /\ Holds(s, x)
  BY <1>3, <1>4, SizeNumber DEF Within, Holds
<1>6. CASE Done(s, r)
  BY <1>1, <1>4, <1>5, <1>6 DEF United, Ends
<1>7. CASE ~Done(s, r)
  <2>1. s \in inner
    BY <1>7 DEF Done
  <2>2. PICK c : c = Child(s, a)
    OBVIOUS
  <2>3. c \in nodes /\ c \in {Left(s), Right(s)} /\ Within(c, s) /\ c # s /\ Size(c) < Size(s)
    BY <1>3, <2>1, <2>2, ChildIs
  <2>4. c \in PathToStart(r)
    <3>1. Root \in nodes /\ Holds(Root, a)
      BY <1>3, RootNode DEF TreeInv, Shape, Holds
    <3>2. PathToStart(r) = On(Root, a, r)
      BY <1>3, <3>1, PathIs
    <3> QED  BY <1>3, <1>4, <1>7, <2>2, <3>1, <3>2, OnPath
  <2>5. ~Within(r, c)
    <3>1. SUFFICES ASSUME Within(r, c) PROVE FALSE
      OBVIOUS
    <3>2. Within(s, c)
      BY <1>4, <2>4, <3>1
    <3> QED  BY <1>4, <2>3, <3>2, SizeNumber DEF Within, Size
  <2>6. /\ s \in Node /\ s[1] < s[2] /\ Left(s)[2] = Middle(s) /\ Right(s)[1] = Middle(s) + 1
        /\ Left(s)[1] = s[1] /\ Right(s)[2] = s[2] /\ Middle(s) \in Int
    <3>1. s \in Node /\ s[1] < s[2] /\ Left(s) \in nodes
      BY <2>1 DEF TreeInv, Shape
    <3>2. Left(s)[2] = Middle(s) /\ Right(s)[1] = Middle(s) + 1
      BY DEF Left, Right
    <3> QED  BY <3>1, <3>2, Halves, SizeNumber
  <2>7. a <= Middle(s)
    <3>1. SUFFICES ASSUME ~(a <= Middle(s)) PROVE FALSE
      OBVIOUS
    <3>2. c = Right(s)
      BY <2>2, <3>1 DEF Child
    <3> QED  BY <1>3, <1>5, <2>5, <2>6, <3>1, <3>2 DEF Within
  <2>8. Middle(s) < b
    <3>1. SUFFICES ASSUME ~(Middle(s) < b) PROVE FALSE
      OBVIOUS
    <3>2. c = Left(s)
      BY <2>2, <2>7 DEF Child
    <3> QED  BY <1>3, <1>5, <2>5, <2>6, <3>1, <3>2 DEF Within
  <2>9. CASE x <= Middle(s)
    <3>1. \E u \in UnitedRight(r) \cup Ends(PathToStart(r), r) : Holds(u, x)
      BY <1>1, <1>4, <1>5, <1>7, <2>7, <2>8, <2>9, StartCovered
    <3> QED  BY <1>1, <3>1 DEF United
  <2>10. CASE ~(x <= Middle(s))
    <3>1. x > Middle(s)
      BY <1>3, <2>6, <2>10
    <3>2. \E u \in UnitedLeft(r) \cup Ends(PathToEnd(r), r) : Holds(u, x)
      BY <1>1, <1>2, <1>7, <2>7, <2>8, <3>1, EndCovered
    <3> QED  BY <1>1, <3>2 DEF United
  <2> QED  BY <2>9, <2>10
<1> QED  BY <1>6, <1>7

(* What is united lies in the range, but for leaves at its ends. *)
LEMMA UnitedWithin ==
  ASSUME TreeInv, Nesting, nodes # {}, NEW a \in 0 .. SpaceEnd, NEW b \in 0 .. SpaceEnd, a <= b,
         NEW u \in United(<<a, b>>)
  PROVE  /\ u \in nodes
         /\ Within(u, <<a, b>>) \/ (u \in Leaves /\ (Holds(u, a) \/ Holds(u, b)))
<1>1. PICK r : r = <<a, b>>
  OBVIOUS
<1>2. PICK s : s = SubTreeRoot(r)
  OBVIOUS
<1>3. a \in Int /\ b \in Int /\ r[1] = a /\ r[2] = b /\ Root \in nodes /\ Holds(Root, a)
  BY <1>1, RootNode, SpaceAssumption DEF TreeInv, Shape, Holds
<1>4. s \in nodes /\ Holds(s, b)
  <2>1. s \in nodes /\ Within(r, s)
    BY <1>1, <1>2, SubTreeRootIs
  <2> QED  BY <1>3, <2>1, SizeNumber DEF Within, Holds
<1>5. PathToStart(r) = On(Root, a, r) /\ PathToEnd(r) = On(s, b, r)
  BY <1>2, <1>3, <1>4, PathIs
<1>6. /\ \A m \in PathToStart(r) : m \in nodes /\ Holds(m, a) /\ (~Done(m, r) => m \in inner)
      /\ \A m \in PathToEnd(r) : m \in nodes /\ Holds(m, b) /\ (~Done(m, r) => m \in inner)
  BY <1>3, <1>4, <1>5, OnPath
<1>7. \A m \in inner : /\ m \in nodes /\ Left(m) \in nodes /\ Right(m) \in nodes
                       /\ Left(m)[2] = Middle(m) /\ Right(m)[1] = Middle(m) + 1 /\ Middle(m) \in Int
  <2> TAKE m \in inner
  <2>1. m \in nodes /\ Left(m) \in nodes /\ Right(m) \in nodes
    BY DEF TreeInv, Shape
  <2>2. Left(m)[2] = Middle(m) /\ Right(m)[1] = Middle(m) + 1
    BY DEF Left, Right
  <2> QED  BY <2>1, <2>2, SizeNumber
<1>8. CASE u \in UnitedRight(r)
  <2>1. PICK m \in PathToStart(r) : u = Right(m) /\ ~Done(m, r) /\ r[1] <= Middle(m) /\ Right(m)[2] <= r[2]
    BY <1>8 DEF UnitedRight
  <2>2. m \in inner
    BY <1>6, <2>1
  <2>3. u \in nodes /\ Within(u, r)
    BY <1>3, <1>7, <2>1, <2>2, SizeNumber DEF Within
  <2> QED  BY <1>1, <2>3
<1>9. CASE u \in UnitedLeft(r)
  <2>1. PICK m \in PathToEnd(r) : u = Left(m) /\ ~Done(m, r) /\ r[2] > Middle(m) /\ Left(m)[1] >= r[1]
    BY <1>9 DEF UnitedLeft
  <2>2. m \in inner
    BY <1>6, <2>1
  <2>3. u \in nodes /\ Within(u, r)
    BY <1>3, <1>7, <2>1, <2>2, SizeNumber DEF Within
  <2> QED  BY <1>1, <2>3
<1>10. CASE u \in Ends(PathToStart(r), r) \cup Ends(PathToEnd(r), r)
  <2>1. u \in nodes /\ Done(u, r) /\ (Holds(u, a) \/ Holds(u, b))
    BY <1>6, <1>10 DEF Ends
  <2> QED  BY <1>1, <2>1 DEF Done, Leaves
<1> QED  BY <1>1, <1>8, <1>9, <1>10 DEF United

(* The properties of a range are those of the objects that overlap it. *)
LEMMA RangeProperties ==
  ASSUME TreeInv, PassInv, AtRest, nodes # {},
         NEW a \in 0 .. SpaceEnd, NEW b \in 0 .. SpaceEnd, a <= b
  PROVE  TypesOfRange(a, b) = TypesOf(Overlapping(<<a, b>>))
<1> DEFINE r == <<a, b>>
<1>1. Sanitized(a, b) = r /\ ~(r[1] > SpaceEnd)
  BY SpaceAssumption DEF Sanitized
<1>2. Nesting
  BY DEF PassInv
<1>3. \A n \in nodes : types[n] = TypesOf(Overlapping(n))
  <2> TAKE n \in nodes
  <2>1. Passed(n) = Overlapping(n)
    BY DEF Passed, Overlapping, OnItsWay, AtRest
  <2> QED  BY <2>1 DEF PassInv, PropertiesExact
<1>4. TypesOfRange(a, b) = UNION {types[n] : n \in United(r)}
  <2> HIDE DEF r
  <2> QED  BY <1>1 DEF TypesOfRange, United
<1>5. ASSUME NEW t \in TypesOfRange(a, b) PROVE t \in TypesOf(Overlapping(r))
  <2>1. PICK u \in United(r) : t \in types[u]
    BY <1>4, <1>5
  <2>2. /\ u \in nodes
        /\ Within(u, r) \/ (u \in Leaves /\ (Holds(u, a) \/ Holds(u, b)))
    BY <1>2, UnitedWithin
  <2>3. PICK i \in Overlapping(u) : t = Types[i]
    BY <1>3, <2>1, <2>2 DEF TypesOf
  <2>4. i \in Overlapping(r)
    BY <2>2, UnitedInRange
  <2> QED  BY <2>3, <2>4 DEF TypesOf
<1>6. ASSUME NEW i \in Overlapping(r) PROVE Types[i] \in TypesOfRange(a, b)
  <2>1. PICK x \in a .. b : Addr[i] <= x /\ x <= EndAddr[i]
    BY SomeAddress
  <2>2. PICK u \in United(r) : Holds(u, x)
    BY <1>2, AllCovered
  <2>3. u \in nodes
    BY <1>2, UnitedWithin
  <2>4. i \in Overlapping(u)
    <3>1. i \in stored /\ i \in Items /\ x \in Int
      BY SpaceAssumption DEF Overlapping, TreeInv, Shape
    <3> QED  BY <2>1, <2>2, <2>3, <3>1, ItemNumbers, SizeNumber DEF Overlapping, Overlaps, Holds
  <2>5. Types[i] \in types[u]
    BY <1>3, <2>3, <2>4 DEF TypesOf
  <2> QED  BY <1>4, <2>2, <2>5
<1> QED  BY <1>5, <1>6 DEF TypesOf

(* Queries by address and range, and the properties of a range, are about exactly
   the objects that overlap, whatever the order of insertions. *)
THEOREM QueriesAlwaysExact == Spec => []QueriesExact
<1>1. Init => PropertiesInv /\ PassInv /\ InnerUnlinked
  <2> SUFFICES ASSUME Init PROVE PropertiesInv /\ PassInv /\ InnerUnlinked
    OBVIOUS
  <2>1. IsFiniteSet({})
    BY FS_EmptySet
  <2> QED  BY <2>1 DEF Init, PropertiesInv, InnerUnlinked, PassInv, Nesting, CallsApart, Arrived,
                       PropertiesExact, Leaves
<1>2. Spec => [](TreeInv /\ LinkInv /\ PropertiesInv /\ PassInv /\ InnerUnlinked)
  BY <1>1, TreeInit, LinkInit, TreeNext, LinkNext, PropertiesNext, PassNext, UnlinkedNext, PTL DEF Spec
<1>3. TreeInv /\ LinkInv /\ PassInv /\ InnerUnlinked => QueriesExact
  <2> SUFFICES ASSUME TreeInv, LinkInv, PassInv, InnerUnlinked, AtRest PROVE QueriesExact
    BY DEF QueriesExact
  <2>1. ASSUME NEW n \in nodes PROVE count[n] = Cardinality(Overlapping(n))
    <3>1. Passed(n) = Overlapping(n)
      BY DEF Passed, Overlapping, OnItsWay, AtRest
    <3> QED  BY <3>1 DEF PassInv, PropertiesExact
  <2>2. ASSUME NEW a \in 0 .. SpaceEnd, NEW b \in 0 .. SpaceEnd, a <= b
        PROVE  /\ ObjectsInRange(a, b) = Overlapping(<<a, b>>)
               /\ a = b => ObjectsAt(a) = Overlapping(<<a, a>>)
               /\ TypesOfRange(a, b) = {Types[i] : i \in Overlapping(<<a, b>>)}
    <3>1. CASE nodes # {}
      BY <2>2, <3>1, RangeLeaves, AddressLeaf, RangeProperties DEF TypesOf
    <3>2. CASE nodes = {}
      <4>1. stored = {}
        BY <3>2 DEF TreeInv, Shape
      <4>2. ObjectsInRange(a, b) = {} /\ ObjectsAt(a) = {} /\ TypesOfRange(a, b) = {}
        BY <3>2 DEF ObjectsInRange, ObjectsAt, TypesOfRange
      <4> QED  BY <4>1, <4>2 DEF Overlapping
    <3> QED  BY <3>1, <3>2
  <2> QED  BY <2>1, <2>2 DEF QueriesExact
<1> QED  BY <1>2, <1>3, PTL
=============================================================================
