-------------------------- MODULE MemoryRangeTree --------------------------
(* MemoryRangeTree (libinsight/include/insight/memoryrangetree.h): the index
   from addresses to the objects that occupy them. A binary tree halves the
   address space until each leaf lies within every object it holds; the leaves
   form a list in the order of their addresses, which range queries and the
   iterators follow.

   A node is the interval <<addrStart, addrEnd>> it stands for. insert() is
   recursive; its calls that have not been made yet are the set calls, so the
   order in which a QSet of objects is iterated is left open. *)
EXTENDS Integers, FiniteSets

CONSTANTS
  SpaceEnd,        \* _addrSpaceEnd, the last address
  Items,           \* objects that may be inserted
  Addr, EndAddr,   \* [Items -> Nat]: the first and the last address of an object
  Types            \* [Items -> the type of the object]

None == <<>>

ASSUME SpaceAssumption == SpaceEnd \in Nat
ASSUME ItemsAssumption ==
  /\ Addr \in [Items -> 0 .. SpaceEnd]
  /\ EndAddr \in [Items -> Nat]
  /\ \A i \in Items : Addr[i] <= EndAddr[i]

VARIABLES
  nodes,          \* the nodes of the tree
  inner,          \* those that have children
  items,          \* [nodes -> SUBSET Items]: the objects in a leaf
  count, types,   \* [nodes -> ...]: MemMapProperties::objectCount, baseTypes
  next, prev,     \* [nodes -> nodes \cup {None}]: the list of the leaves
  first, last,    \* _first, _last
  stored,         \* objects that were inserted (all of them: _size counts them)
  calls           \* <<node, object>> pairs: insert() is still to be called

links == <<next, prev, first, last>>
properties == <<count, types>>
vars == <<nodes, inner, items, properties, links, stored, calls>>

Node == (0 .. SpaceEnd) \X (0 .. SpaceEnd)
Root == <<0, SpaceEnd>>
Leaves == nodes \ inner

Middle(n) == n[1] + (n[2] - n[1]) \div 2
Left(n) == <<n[1], Middle(n)>>
Right(n) == <<Middle(n) + 1, n[2]>>

Overlaps(i, n) == Addr[i] <= n[2] /\ n[1] <= EndAddr[i]
Covers(i, n) == Addr[i] <= n[1] /\ n[2] <= EndAddr[i]
Overlapping(n) == {i \in stored : Overlaps(i, n)}

TypeOK ==
  /\ nodes \subseteq Node /\ inner \subseteq nodes
  /\ items \in [nodes -> SUBSET stored]
  /\ count \in [nodes -> Nat]
  /\ types \in [nodes -> SUBSET {Types[i] : i \in stored}]
  /\ next \in [nodes -> nodes \cup {None}] /\ prev \in [nodes -> nodes \cup {None}]
  /\ {first, last} \subseteq nodes \cup {None}
  /\ stored \subseteq Items
  /\ calls \subseteq nodes \X stored

Init ==
  /\ nodes = {} /\ inner = {} /\ stored = {} /\ calls = {}
  /\ items = [n \in {} |-> {}]
  /\ count = [n \in {} |-> 0] /\ types = [n \in {} |-> {}]
  /\ next = [n \in {} |-> None] /\ prev = [n \in {} |-> None]
  /\ first = None /\ last = None

(* MemoryRangeTree::insert(), up to the call for the root, which the first
   object creates. An object is inserted once. *)
Insert(i) ==
  /\ calls = {} /\ i \notin stored
  /\ stored' = stored \cup {i}
  /\ calls' = {<<Root, i>>}
  /\ IF nodes # {} THEN UNCHANGED <<nodes, items, properties, links>>
     ELSE /\ nodes' = {Root}
          /\ items' = [n \in {Root} |-> {}]
          /\ count' = [n \in {Root} |-> 0] /\ types' = [n \in {Root} |-> {}]
          /\ next' = [n \in {Root} |-> None] /\ prev' = [n \in {Root} |-> None]
          /\ first' = Root /\ last' = Root
  /\ UNCHANGED inner

(* Mutant: clear() forgets the leaf list's ends. *)
MutClear ==
  /\ calls = {} /\ nodes # {}
  /\ nodes' = {} /\ inner' = {} /\ stored' = {} /\ calls' = {}
  /\ items' = [n \in {} |-> {}]
  /\ count' = [n \in {} |-> 0] /\ types' = [n \in {} |-> {}]
  /\ next' = [n \in {} |-> None] /\ prev' = [n \in {} |-> None]
  /\ UNCHANGED <<first, last>>

(* MemoryRangeTree::clear() *)
Clear ==
  /\ calls = {} /\ nodes # {}
  /\ nodes' = {} /\ inner' = {} /\ stored' = {} /\ calls' = {}
  /\ items' = [n \in {} |-> {}]
  /\ count' = [n \in {} |-> 0] /\ types' = [n \in {} |-> {}]
  /\ next' = [n \in {} |-> None] /\ prev' = [n \in {} |-> None]
  /\ first' = None /\ last' = None

(* properties.update(item), the first thing the node's insert() does. *)
UpdateProperties(n, i) ==
  /\ count' = [count EXCEPT ![n] = @ + 1]
  /\ types' = [types EXCEPT ![n] = @ \cup {Types[i]}]

(* Mutant: the right child gets an object that ends one address before it. *)
MutHandDown(n, is) == {<<Left(n), i>> : i \in {j \in is : Addr[j] <= Left(n)[2]}} \cup
                      {<<Right(n), i>> : i \in {j \in is : EndAddr[j] >= Left(n)[2]}}

(* The calls for the children of n that the objects of is belong to. *)
HandDown(n, is) == {<<Left(n), i>> : i \in {j \in is : Addr[j] <= Left(n)[2]}} \cup
                   {<<Right(n), i>> : i \in {j \in is : EndAddr[j] >= Right(n)[1]}}

(* A node with children hands the object down. *)
Descend(n, i) ==
  /\ n \in inner
  /\ UpdateProperties(n, i)
  /\ calls' = (calls \ {<<n, i>>}) \cup HandDown(n, {i})
  /\ UNCHANGED <<nodes, inner, items, links, stored>>

(* Mutant: the object must cover the leaf's first address only. *)
MutFits(i, n) == Addr[i] <= n[1]
Fits(i, n) == ~(Addr[i] > n[1] \/ EndAddr[i] < n[2])

(* A leaf within the object takes it. *)
Keep(n, i) ==
  /\ n \in Leaves /\ Fits(i, n)
  /\ UpdateProperties(n, i)
  /\ items' = [items EXCEPT ![n] = @ \cup {i}]
  /\ calls' = calls \ {<<n, i>>}
  /\ UNCHANGED <<nodes, inner, links, stored>>

(* Mutant: the leaf after the right child still points back to the parent. *)
MutRelink(n) ==
  /\ next' = [m \in nodes' |->
       IF m = Left(n) THEN Right(n) ELSE IF m = Right(n) THEN next[n]
       ELSE IF m = n THEN None ELSE IF m = prev[n] THEN Left(n) ELSE next[m]]
  /\ prev' = [m \in nodes' |->
       IF m = Right(n) THEN Left(n) ELSE IF m = Left(n) THEN prev[n]
       ELSE IF m = n THEN None ELSE prev[m]]
  /\ first' = (IF n = first THEN Left(n) ELSE first)
  /\ last' = (IF n = last THEN Right(n) ELSE last)

(* The children take their parent's place in the list. *)
Relink(n) ==
  /\ next' = [m \in nodes' |->
       IF m = Left(n) THEN Right(n) ELSE IF m = Right(n) THEN next[n]
       ELSE IF m = n THEN None ELSE IF m = prev[n] THEN Left(n) ELSE next[m]]
  /\ prev' = [m \in nodes' |->
       IF m = Right(n) THEN Left(n) ELSE IF m = Left(n) THEN prev[n]
       ELSE IF m = n THEN None ELSE IF m = next[n] THEN Right(n) ELSE prev[m]]
  /\ first' = (IF n = first THEN Left(n) ELSE first)
  /\ last' = (IF n = last THEN Right(n) ELSE last)

(* Any other leaf splits and hands all its objects down to its new children. *)
Split(n, i) ==
  /\ n \in Leaves /\ ~Fits(i, n)
  /\ nodes' = nodes \cup {Left(n), Right(n)}
  /\ inner' = inner \cup {n}
  /\ items' = [m \in nodes' |-> IF m \in nodes \ {n} THEN items[m] ELSE {}]
  /\ count' = [m \in nodes' |->
       IF m = n THEN count[n] + 1 ELSE IF m \in nodes THEN count[m] ELSE 0]
  /\ types' = [m \in nodes' |->
       IF m = n THEN types[n] \cup {Types[i]} ELSE IF m \in nodes THEN types[m] ELSE {}]
  /\ Relink(n)
  /\ calls' = (calls \ {<<n, i>>}) \cup HandDown(n, items[n] \cup {i})
  /\ UNCHANGED stored

Call == \E c \in calls : Descend(c[1], c[2]) \/ Keep(c[1], c[2]) \/ Split(c[1], c[2])

Next == (\E i \in Items : Insert(i)) \/ Clear \/ Call

Spec == Init /\ [][Next]_vars

---------------------------------------------------------------------------
(* Queries. They run between insertions, under the same lock. *)

(* Mutant: the descent to a leaf goes right at the split address. *)
MutLeafAt(a) ==
  LET descend[n \in nodes] ==
        IF n \notin inner THEN n
        ELSE descend[IF a < Middle(n) THEN Left(n) ELSE Right(n)]
  IN descend[Root]

(* The descent from the root to the leaf that contains an address. *)
LeafAt(a) ==
  LET descend[n \in nodes] ==
        IF n \notin inner THEN n
        ELSE descend[IF a <= Middle(n) THEN Left(n) ELSE Right(n)]
  IN descend[Root]

ObjectsAt(a) == IF nodes = {} \/ a > SpaceEnd THEN {} ELSE items[LeafAt(a)]

(* The objects from leaf n on, along the list, up to the address b. *)
Walk(n, b) ==
  LET walk[m \in nodes \cup {None}] ==
        IF m = None THEN {} ELSE IF m[1] > b THEN {} ELSE items[m] \cup walk[next[m]]
  IN walk[n]

(* sanitizeInterval(): cut at the end of the address space, then put in order. *)
Sanitized(a, b) ==
  LET c == IF b > SpaceEnd THEN SpaceEnd ELSE b
  IN IF a > c THEN <<c, a>> ELSE <<a, c>>

(* objectsInRange(); objectsInRangeFast() returns the same, as a list. *)
ObjectsInRange(a, b) ==
  LET r == Sanitized(a, b)
  IN IF nodes = {} \/ r[1] > SpaceEnd THEN {}
     ELSE LET n == LeafAt(r[1]) IN items[n] \cup Walk(next[n], r[2])

(* propertiesOfRange(): the first descent, to the start of the range, unites the
   right children within the range; the second, to its end and from the deepest
   node that covers the range, the left children. Both add their last node. *)
Within(n, r) == r[1] <= n[1] /\ n[2] <= r[2]
Done(n, r) == Within(n, r) \/ n \notin inner

PathToStart(r) ==
  LET path[n \in nodes] ==
        IF Done(n, r) THEN {n}
        ELSE {n} \cup path[IF r[1] <= Middle(n) THEN Left(n) ELSE Right(n)]
  IN path[Root]

SubTreeRoot(r) ==
  CHOOSE n \in PathToStart(r) :
    /\ n = Root \/ Within(r, n)
    /\ \A m \in PathToStart(r) : m = Root \/ Within(r, m) => Within(n, m)

PathToEnd(r) ==
  LET path[n \in nodes] ==
        IF Done(n, r) THEN {n}
        ELSE {n} \cup path[IF r[2] <= Middle(n) THEN Left(n) ELSE Right(n)]
  IN path[SubTreeRoot(r)]

(* Mutant: the right child is united when it begins within the range. *)
MutUnitedRight(r) ==
  {Right(n) : n \in {m \in PathToStart(r) :
     ~Done(m, r) /\ r[1] <= Middle(m) /\ Right(m)[1] <= r[2]}}

UnitedRight(r) ==
  {Right(n) : n \in {m \in PathToStart(r) :
     ~Done(m, r) /\ r[1] <= Middle(m) /\ Right(m)[2] <= r[2]}}

UnitedLeft(r) ==
  {Left(n) : n \in {m \in PathToEnd(r) :
     ~Done(m, r) /\ r[2] > Middle(m) /\ Left(m)[1] >= r[1]}}

Ends(path, r) == {n \in path : Done(n, r)}

(* The baseTypes of the result; the probabilities and validities are united in
   the same way. *)
TypesOfRange(a, b) ==
  LET r == Sanitized(a, b)
      united == UnitedRight(r) \cup UnitedLeft(r) \cup
                Ends(PathToStart(r), r) \cup Ends(PathToEnd(r), r)
  IN IF nodes = {} \/ r[1] > SpaceEnd THEN {} ELSE UNION {types[n] : n \in united}

(* What an iteration from begin() to end() visits: the constructor advances to
   the node after the first one, then the iterators follow the list. *)
Iterated ==
  IF first = None THEN {}
  ELSE Walk(IF next[first] = None THEN first ELSE next[first], SpaceEnd)

---------------------------------------------------------------------------
(* Between insertions the leaves hold what they should: a leaf has the objects
   that overlap it, and lies within each of them. So a query need not look at
   the objects of a leaf to know that they are at the address. *)
AtRest == calls = {}

LeavesExact ==
  AtRest => \A n \in Leaves :
    items[n] = Overlapping(n) /\ \A i \in items[n] : Covers(i, n)

(* A leaf of one address never splits: the assertion in split(). *)
SplitsAtLeastTwo ==
  \A c \in calls : c[1] \in Leaves /\ ~Fits(c[2], c[1]) => c[1][1] < c[1][2]

(* The list runs through all leaves by address, from _first to _last and back,
   and the leaves tile the address space, even in the middle of an insertion. *)
LeavesLinked ==
  nodes # {} =>
    /\ {first, last} \subseteq Leaves /\ first[1] = 0 /\ last[2] = SpaceEnd
    /\ \A n \in Leaves :
         /\ IF n = last THEN next[n] = None
            ELSE /\ next[n] \in Leaves /\ next[n][1] = n[2] + 1
                 /\ prev[next[n]] = n
         /\ n = first <=> prev[n] = None

(* Queries by address and by range return the objects that overlap, no more and
   no fewer: what tests/memoryrangetree checks for random objects. The properties
   of a range are those of the same objects, though the tree is searched along
   two paths only. *)
QueriesExact ==
  AtRest =>
    /\ \A n \in nodes : count[n] = Cardinality(Overlapping(n))
    /\ \A a, b \in 0 .. SpaceEnd : a <= b =>
         /\ ObjectsInRange(a, b) = Overlapping(<<a, b>>)
         /\ a = b => ObjectsAt(a) = Overlapping(<<a, a>>)
         /\ TypesOfRange(a, b) = {Types[i] : i \in Overlapping(<<a, b>>)}

---------------------------------------------------------------------------
(* tests/memoryrangetree/memoryrangetreetester.cpp:171: an iteration visits all
   objects. *)
IterationComplete == AtRest => Iterated = stored
=============================================================================
