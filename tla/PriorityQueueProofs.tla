------------------------ MODULE PriorityQueueProofs ------------------------
(* Theorems about PriorityQueue for any keys, any values and any number of
   calls: the list stays sorted wherever the search for a place begins, and the
   queue keeps what a priority queue promises. *)
EXTENDS PriorityQueue, FiniteSetsExt, TLAPS, WellFoundedInduction

(* A set of natural numbers that is not empty has a least member: what these
   proofs use in place of induction. *)
LEMMA Least ==
  ASSUME NEW S, S \subseteq Nat, S # {}
  PROVE  \E x \in S : \A y \in S : x <= y
<1> DEFINE R == OpToRel(<, Nat)
<1>1. IsWellFoundedOn(R, Nat)
  BY NatLessThanWellFounded
<1>2. \A x, y \in Nat : x < y => <<x, y>> \in R
  BY DEF OpToRel
<1> HIDE DEF R
<1>3. PICK x \in S : \A y \in S : <<y, x>> \notin R
  BY <1>1, WFMin
<1>4. \A y \in S : ~(y < x)
  BY <1>2, <1>3
<1>5. \A y \in S : x <= y
  BY <1>4
<1> QED  BY <1>5

(* The least one is what Min returns. *)
LEMMA MinIs ==
  ASSUME NEW S, S \subseteq Nat, S # {}
  PROVE  Min(S) \in S /\ \A y \in S : Min(S) <= y
<1>1. \E x \in S : \A y \in S : x <= y
  BY Least
<1> QED  BY <1>1, Zenon DEF Min

(* Of those up to a bound, Max returns the largest. *)
LEMMA MaxIs ==
  ASSUME NEW b \in Nat, NEW S, S \subseteq 0 .. b, S # {}
  PROVE  Max(S) \in S /\ \A y \in S : Max(S) >= y
<1> DEFINE T == {b - x : x \in S}
<1>1. T \subseteq Nat /\ T # {}
  <2>1. \A x \in S : x \in Nat /\ b - x \in Nat
    OBVIOUS
  <2>2. PICK x \in S : TRUE
    OBVIOUS
  <2>3. b - x \in T
    OBVIOUS
  <2> QED  BY <2>1, <2>3
<1>2. \A z \in T : \E x \in S : z = b - x
  OBVIOUS
<1>3. PICK z \in T : \A y \in T : z <= y
  <2> HIDE DEF T
  <2> QED  BY <1>1, Least
<1>4. PICK x \in S : z = b - x
  BY <1>2
<1>5. \A y \in S : x >= y
  <2> TAKE y \in S
  <2>1. b - y \in T /\ x \in 0 .. b /\ y \in 0 .. b
    OBVIOUS
  <2>2. z <= b - y
    BY <1>3, <2>1
  <2> QED  BY <1>4, <2>1, <2>2
<1>6. \E m \in S : \A y \in S : m >= y
  BY <1>5
<1> QED  BY <1>6, Zenon DEF Max

---------------------------------------------------------------------------
(* The list is sorted, and a value is in it once: _cur names one place only. *)

InOrder == \A p, q \in DOMAIN list : p < q => list[p].key <= list[q].key
Distinct == \A p, q \in DOMAIN list : p # q => list[p].value # list[q].value
QueueInv == TypeOK /\ InOrder /\ Distinct

(* A list's elements are items, whose keys compare. *)
LEMMA ItemsType ==
  ASSUME TypeOK
  PROVE  /\ Len(list) \in Nat /\ DOMAIN list = 1 .. Len(list)
         /\ \A p \in 1 .. Len(list) :
              list[p] \in Item /\ list[p].key \in Int /\ list[p].value \in Values
<1>1. \A p \in 1 .. Len(list) : list[p] \in Item
  BY DEF TypeOK
<1>2. Len(list) \in Nat /\ DOMAIN list = 1 .. Len(list)
  BY DEF TypeOK
<1> QED  BY <1>1, <1>2, KeysAssumption DEF Item

---------------------------------------------------------------------------
(* Where an item is inserted. *)

(* i fits at P: what is before has no larger key, what is from there on no smaller. *)
Fits(P, k) ==
  /\ P \in 1 .. Len(list) + 1
  /\ \A p \in 1 .. Len(list) : /\ p < P => list[p].key <= k
                               /\ p >= P => k <= list[p].key

(* l is the list with i inserted at P. *)
HasInserted(l, P, i) ==
  /\ l \in Seq(Item) /\ Len(l) = Len(list) + 1
  /\ \A p \in 1 .. Len(list) + 1 :
       l[p] = IF p < P THEN list[p] ELSE IF p = P THEN i ELSE list[p - 1]

(* Wherever the search begins, it begins at an item. *)
LEMMA StartIs ==
  ASSUME QueueInv, list # <<>>, NEW k \in Int
  PROVE  Start(k) \in 1 .. Len(list)
<1>1. Len(list) \in Nat \ {0} /\ DOMAIN list = 1 .. Len(list)
  BY ItemsType DEF QueueInv, TypeOK
<1>2. CASE cur = End
  BY <1>1, <1>2 DEF Start
<1>3. CASE cur # End
  <2>1. \E p \in DOMAIN list : list[p].value = cur
    BY <1>3 DEF QueueInv, TypeOK, CurInList
  <2>2. Position(cur) \in DOMAIN list
    BY <1>3, <2>1 DEF Position
  <2> QED  BY <1>1, <2>2 DEF Start
<1> QED  BY <1>2, <1>3

(* The walk from there ends at a place where the item fits. *)
LEMMA InsertPositionFits ==
  ASSUME QueueInv, NEW k \in Int, list # <<>>, list[1].key < k
  PROVE  Fits(InsertPosition(k), k)
<1> DEFINE p == Start(k)
           n == Len(list)
<1>1. /\ n \in Nat \ {0} /\ DOMAIN list = 1 .. n
      /\ \A q \in 1 .. n : list[q].key \in Int
  BY ItemsType DEF QueueInv, TypeOK
<1>2. p \in 1 .. n
  BY StartIs
<1>3. \A q, r \in 1 .. n : q <= r => list[q].key <= list[r].key
  BY <1>1 DEF QueueInv, InOrder
<1> HIDE DEF p, n
<1>4. CASE k < list[p].key
  <2> DEFINE S == {r \in 1 .. p : r = 1 \/ k >= list[r].key}
             q == Max(S)
  <2>1. S \subseteq 0 .. p /\ 1 \in S /\ p \in Nat
    BY <1>1, <1>2
  <2>2. q \in S /\ \A r \in S : q >= r
    BY <2>1, MaxIs
  <2>3. q \in 1 .. p /\ k >= list[q].key
    BY <1>1, <2>2
  <2>4. WalkBack(k, p) = q + 1
    BY <2>3 DEF WalkBack
  <2>5. InsertPosition(k) = q + 1
    BY <1>4, <2>4 DEF InsertPosition, p
  <2> HIDE DEF q
  <2>6. q # p
    BY <1>1, <1>2, <1>4, <2>3
  <2>7. q + 1 \in 1 .. n
    BY <1>1, <1>2, <2>3, <2>6
  <2>8. \A r \in 1 .. n : r < q + 1 => list[r].key <= k
    BY <1>1, <1>2, <1>3, <2>3
  <2>9. k <= list[q + 1].key
    <3>1. q + 1 \in 1 .. p /\ ~(q >= q + 1)
      BY <1>2, <2>3, <2>6
    <3>2. q + 1 \notin S
      BY <2>2, <3>1
    <3> QED  BY <1>1, <2>7, <3>1, <3>2
  <2>10. \A r \in 1 .. n : r >= q + 1 => k <= list[r].key
    BY <1>1, <1>3, <2>7, <2>9
  <2> QED  BY <1>1, <2>5, <2>7, <2>8, <2>10 DEF Fits, n
<1>5. CASE ~(k < list[p].key)
  <2> DEFINE S == {q \in p .. n + 1 : q > n \/ k <= list[q].key}
             q == Min(S)
  <2>1. S \subseteq Nat /\ n + 1 \in S
    BY <1>1, <1>2
  <2>2. q \in S /\ \A r \in S : q <= r
    BY <2>1, MinIs
  <2>3. WalkForward(k, p) = q
    BY DEF WalkForward, n
  <2>4. InsertPosition(k) = q
    BY <1>5, <2>3 DEF InsertPosition, p
  <2> HIDE DEF q
  <2>5. q \in 1 .. n + 1 /\ p <= q /\ (q <= n => k <= list[q].key)
    BY <1>1, <1>2, <2>2
  <2>6. \A r \in 1 .. n : r >= q => k <= list[r].key
    BY <1>1, <1>3, <2>5
  <2>7. \A r \in 1 .. n : r < q => list[r].key <= k
    <3> TAKE r \in 1 .. n
    <3>1. CASE r <= p
      BY <1>1, <1>2, <1>3, <1>5, <3>1
    <3>2. CASE r > p /\ r < q
      <4>1. r \in p .. n + 1 /\ r \notin S
        BY <1>1, <1>2, <2>2, <2>5, <3>2
      <4> QED  BY <1>1, <4>1
    <3> QED  BY <1>2, <2>5, <3>1, <3>2
  <2> QED  BY <2>4, <2>5, <2>6, <2>7 DEF Fits, n
<1> QED  BY <1>4, <1>5

---------------------------------------------------------------------------
(* What inserting and taking do to the list. *)

LEMMA ConcatIs ==
  ASSUME NEW S, NEW a \in Seq(S), NEW b \in Seq(S)
  PROVE  /\ a \o b \in Seq(S) /\ Len(a \o b) = Len(a) + Len(b)
         /\ \A p \in 1 .. Len(a) : (a \o b)[p] = a[p]
         /\ \A p \in Len(a) + 1 .. Len(a) + Len(b) : (a \o b)[p] = b[p - Len(a)]
OBVIOUS

(* The three ways of inserting put the item at a place. *)
LEMMA InsertAtIs ==
  ASSUME list \in Seq(Item), NEW i \in Item, NEW P \in 1 .. Len(list) + 1
  PROVE  HasInserted(InsertAt(list, P, i), P, i)
<1> DEFINE before == SubSeq(list, 1, P - 1)
           after == SubSeq(list, P, Len(list))
<1>1. /\ before \in Seq(Item) /\ Len(before) = P - 1
      /\ \A p \in 1 .. P - 1 : before[p] = list[p]
  OBVIOUS
<1>2. /\ after \in Seq(Item) /\ Len(after) = Len(list) - P + 1
      /\ \A p \in 1 .. Len(list) - P + 1 : after[p] = list[P + p - 1]
  OBVIOUS
<1>3. InsertAt(list, P, i) = before \o <<i>> \o after
  BY DEF InsertAt
<1>4. Len(list) \in Nat
  OBVIOUS
<1> HIDE DEF before, after
<1>5. /\ before \o <<i>> \in Seq(Item) /\ Len(before \o <<i>>) = P
      /\ (before \o <<i>>)[P] = i
      /\ \A p \in 1 .. P - 1 : (before \o <<i>>)[p] = list[p]
  BY <1>1
<1> DEFINE start == before \o <<i>>
<1> HIDE DEF start
<1>6. /\ start \o after \in Seq(Item) /\ Len(start \o after) = Len(list) + 1
      /\ \A p \in 1 .. P : (start \o after)[p] = start[p]
      /\ \A p \in P + 1 .. Len(list) + 1 : (start \o after)[p] = after[p - P]
  <2>1. start \in Seq(Item) /\ Len(start) = P
    BY <1>5 DEF start
  <2>2. P + Len(after) = Len(list) + 1
    BY <1>2, <1>4
  <2> QED  BY <1>2, <2>1, <2>2, ConcatIs
<1>7. \A p \in P + 1 .. Len(list) + 1 : after[p - P] = list[p - 1]
  <2> TAKE p \in P + 1 .. Len(list) + 1
  <2>1. p - P \in 1 .. Len(list) - P + 1 /\ P + (p - P) - 1 = p - 1
    BY <1>4
  <2> QED  BY <1>2, <2>1
<1>8. \A p \in 1 .. Len(list) + 1 :
        (start \o after)[p] = IF p < P THEN list[p] ELSE IF p = P THEN i ELSE list[p - 1]
  <2> TAKE p \in 1 .. Len(list) + 1
  <2>1. CASE p \in P + 1 .. Len(list) + 1
    <3>1. ~(p < P) /\ p # P
      BY <1>4, <2>1
    <3> QED  BY <1>6, <1>7, <2>1, <3>1
  <2>2. CASE p = P
    <3>1. P \in 1 .. P
      OBVIOUS
    <3> QED  BY <1>5, <1>6, <2>2, <3>1 DEF start
  <2>3. CASE p \in 1 .. P - 1
    <3>1. p \in 1 .. P /\ p < P
      BY <2>3
    <3> QED  BY <1>5, <1>6, <2>3, <3>1 DEF start
  <2>4. p \in 1 .. P - 1 \/ p = P \/ p \in P + 1 .. Len(list) + 1
    BY <1>4
  <2> QED  BY <2>1, <2>2, <2>3, <2>4
<1> QED  BY <1>3, <1>6, <1>8 DEF HasInserted, start

LEMMA AppendIs ==
  ASSUME list \in Seq(Item), NEW i \in Item
  PROVE  HasInserted(Append(list, i), Len(list) + 1, i)
BY DEF HasInserted

LEMMA ConsIs ==
  ASSUME list \in Seq(Item), NEW i \in Item
  PROVE  HasInserted(<<i>> \o list, 1, i)
BY DEF HasInserted

(* Inserting where an item fits keeps the order and adds the item. *)
LEMMA InsertedKeeps ==
  ASSUME QueueInv, NEW i \in Item, NEW P, Fits(P, i.key), HasInserted(list', P, i),
         \A p \in DOMAIN list : list[p].value # i.value
  PROVE  InOrder' /\ Distinct' /\ Range(list') = Range(list) \cup {i}
<1> DEFINE n == Len(list)
<1>1. /\ n \in Nat /\ DOMAIN list = 1 .. n /\ P \in 1 .. n + 1 /\ i.key \in Int
      /\ \A p \in 1 .. n : list[p].key \in Int
  BY ItemsType, KeysAssumption DEF QueueInv, Fits, Item
<1>2. /\ DOMAIN list' = 1 .. n + 1
      /\ \A p \in 1 .. n + 1 :
           list'[p] = IF p < P THEN list[p] ELSE IF p = P THEN i ELSE list[p - 1]
  BY DEF HasInserted
<1>3. \A p, q \in 1 .. n : p < q => list[p].key <= list[q].key
  BY <1>1 DEF QueueInv, InOrder
<1>4. \A p, q \in 1 .. n : p # q => list[p].value # list[q].value
  BY <1>1 DEF QueueInv, Distinct
<1>5. \A p \in 1 .. n : (p < P => list[p].key <= i.key) /\ (p >= P => i.key <= list[p].key)
  BY <1>1 DEF Fits
<1> HIDE DEF n
<1>6. ASSUME NEW p \in 1 .. n + 1, NEW q \in 1 .. n + 1, p < q
      PROVE  list'[p].key <= list'[q].key
  <2>1. CASE q < P
    BY <1>1, <1>2, <1>3, <1>6, <2>1
  <2>2. CASE q = P
    BY <1>1, <1>2, <1>5, <1>6, <2>2
  <2>3. CASE q > P /\ p < P
    <3>1. q - 1 \in 1 .. n /\ p \in 1 .. n /\ q - 1 >= P
      BY <1>1, <2>3
    <3> QED  BY <1>1, <1>2, <1>5, <2>3, <3>1
  <2>4. CASE q > P /\ p = P
    <3>1. q - 1 \in 1 .. n /\ q - 1 >= P
      BY <1>1, <2>4
    <3> QED  BY <1>1, <1>2, <1>5, <2>4, <3>1
  <2>5. CASE q > P /\ p > P
    <3>1. q - 1 \in 1 .. n /\ p - 1 \in 1 .. n /\ p - 1 < q - 1
      BY <1>1, <1>6, <2>5
    <3> QED  BY <1>1, <1>2, <1>3, <2>5, <3>1
  <2> QED  BY <1>1, <2>1, <2>2, <2>3, <2>4, <2>5
<1>7. \A p \in 1 .. n + 1 :
        IF p = P THEN list'[p] = i
        ELSE \E q \in 1 .. n : list'[p] = list[q] /\ q = IF p < P THEN p ELSE p - 1
  BY <1>1, <1>2
<1>8. ASSUME NEW p \in 1 .. n + 1, NEW q \in 1 .. n + 1, p # q
      PROVE  list'[p].value # list'[q].value
  <2>1. CASE p = P
    BY <1>1, <1>7, <1>8, <2>1
  <2>2. CASE q = P
    BY <1>1, <1>7, <1>8, <2>2
  <2>3. CASE p # P /\ q # P
    <3>1. PICK r \in 1 .. n : list'[p] = list[r] /\ r = IF p < P THEN p ELSE p - 1
      BY <1>7, <2>3
    <3>2. PICK s \in 1 .. n : list'[q] = list[s] /\ s = IF q < P THEN q ELSE q - 1
      BY <1>7, <2>3
    <3>3. r # s
      BY <1>1, <1>8, <2>3, <3>1, <3>2
    <3> QED  BY <1>4, <3>1, <3>2, <3>3
  <2> QED  BY <2>1, <2>2, <2>3
<1>9. Range(list') \subseteq Range(list) \cup {i}
  BY <1>1, <1>2, <1>7 DEF Range
<1>10. i \in Range(list')
  BY <1>1, <1>2, <1>7 DEF Range
<1>11. ASSUME NEW q \in 1 .. n PROVE list[q] \in Range(list')
  <2>1. CASE q < P
    <3>1. q \in 1 .. n + 1 /\ list'[q] = list[q]
      BY <1>1, <1>2, <2>1
    <3> QED  BY <1>2, <3>1 DEF Range
  <2>2. CASE q >= P
    <3>1. q + 1 \in 1 .. n + 1 /\ list'[q + 1] = list[q]
      BY <1>1, <1>2, <2>2
    <3> QED  BY <1>2, <3>1 DEF Range
  <2> QED  BY <1>1, <2>1, <2>2
<1>12. Range(list) \subseteq Range(list')
  BY <1>1, <1>11 DEF Range
<1> QED  BY <1>2, <1>6, <1>8, <1>9, <1>10, <1>12 DEF InOrder, Distinct

(* Taking an end of the list takes that item only. *)
LEMMA TailIs ==
  ASSUME QueueInv, list # <<>>
  PROVE  /\ Tail(list) \in Seq(Item) /\ Len(Tail(list)) = Len(list) - 1
         /\ \A p \in 1 .. Len(list) - 1 : Tail(list)[p] = list[p + 1]
         /\ Range(Tail(list)) = Range(list) \ {list[1]}
<1>1. /\ Len(list) \in Nat \ {0} /\ DOMAIN list = 1 .. Len(list)
  BY ItemsType DEF QueueInv, TypeOK
<1>2. /\ Tail(list) \in Seq(Item) /\ Len(Tail(list)) = Len(list) - 1
      /\ \A p \in 1 .. Len(list) - 1 : Tail(list)[p] = list[p + 1]
  BY DEF QueueInv, TypeOK
<1>3. DOMAIN Tail(list) = 1 .. Len(list) - 1
  BY <1>2
<1>4. Range(Tail(list)) \subseteq Range(list) \ {list[1]}
  BY <1>1, <1>2, <1>3 DEF Range, QueueInv, Distinct
<1>5. ASSUME NEW p \in 1 .. Len(list), list[p] # list[1] PROVE list[p] \in Range(Tail(list))
  <2>1. p - 1 \in 1 .. Len(list) - 1 /\ (p - 1) + 1 = p
    BY <1>1, <1>5
  <2>2. Tail(list)[p - 1] = list[p]
    BY <1>2, <2>1
  <2> QED  BY <1>3, <2>1, <2>2 DEF Range
<1>6. Range(list) \ {list[1]} \subseteq Range(Tail(list))
  BY <1>1, <1>5 DEF Range
<1> QED  BY <1>2, <1>4, <1>6

LEMMA FrontIs ==
  ASSUME QueueInv, list # <<>>
  PROVE  /\ Front(list) \in Seq(Item) /\ Len(Front(list)) = Len(list) - 1
         /\ \A p \in 1 .. Len(list) - 1 : Front(list)[p] = list[p]
         /\ Range(Front(list)) = Range(list) \ {Last(list)}
<1>1. /\ Len(list) \in Nat \ {0} /\ DOMAIN list = 1 .. Len(list)
  BY ItemsType DEF QueueInv, TypeOK
<1>2. /\ Front(list) \in Seq(Item) /\ Len(Front(list)) = Len(list) - 1
      /\ \A p \in 1 .. Len(list) - 1 : Front(list)[p] = list[p]
  BY <1>1 DEF Front, QueueInv, TypeOK
<1>3. DOMAIN Front(list) = 1 .. Len(list) - 1
  BY <1>2
<1>4. Range(Front(list)) \subseteq Range(list) \ {list[Len(list)]}
  BY <1>1, <1>2, <1>3 DEF Range, QueueInv, Distinct
<1>5. ASSUME NEW p \in 1 .. Len(list), list[p] # list[Len(list)]
      PROVE  list[p] \in Range(Front(list))
  <2>1. p \in 1 .. Len(list) - 1
    BY <1>1, <1>5
  <2> QED  BY <1>2, <1>3, <2>1 DEF Range
<1>6. Range(list) \ {list[Len(list)]} \subseteq Range(Front(list))
  BY <1>1, <1>5 DEF Range
<1> QED  BY <1>2, <1>4, <1>6 DEF Last

---------------------------------------------------------------------------
(* The steps. *)

LEMMA InsertStep ==
  ASSUME QueueInv, NEW i \in Item, Insert(i)
  PROVE  QueueInv' /\ Range(list') = Range(list) \cup {i}
<1>1. /\ list \in Seq(Item) /\ Len(list) \in Nat /\ DOMAIN list = 1 .. Len(list)
      /\ \A p \in 1 .. Len(list) : list[p].key \in Int
      /\ i.key \in Int /\ i.value \in Values
      /\ \A p \in DOMAIN list : list[p].value # i.value
  BY ItemsType, KeysAssumption DEF Insert, QueueInv, TypeOK, Item
<1>2. \A p, q \in 1 .. Len(list) : p <= q => list[p].key <= list[q].key
  BY <1>1 DEF QueueInv, InOrder
<1>3. \E P : /\ Fits(P, i.key) /\ HasInserted(list', P, i)
             /\ cur' = cur \/ cur' = i.value
  <2>1. CASE (list # <<>> => Last(list).key < i.key) /\ list' = Append(list, i) /\ UNCHANGED cur
    <3>1. \A p \in 1 .. Len(list) : list[p].key <= i.key
      <4>1. CASE list = <<>>
        BY <4>1
      <4>2. CASE list # <<>>
        <5>1. list[Len(list)].key < i.key
          BY <2>1, <4>2 DEF Last
        <5> QED  BY <1>1, <1>2, <5>1
      <4> QED  BY <4>1, <4>2
    <3>2. Fits(Len(list) + 1, i.key)
      BY <1>1, <3>1 DEF Fits
    <3> QED  BY <1>1, <2>1, <3>2, AppendIs
  <2>2. CASE /\ list # <<>> /\ Last(list).key >= i.key /\ list[1].key >= i.key
             /\ list' = <<i>> \o list /\ UNCHANGED cur
    <3>1. \A p \in 1 .. Len(list) : list[p].key >= i.key
      BY <1>1, <1>2, <2>2
    <3>2. Fits(1, i.key)
      BY <1>1, <3>1 DEF Fits
    <3> QED  BY <1>1, <2>2, <3>2, ConsIs
  <2>3. CASE /\ list # <<>> /\ Last(list).key >= i.key /\ list[1].key < i.key
             /\ list' = InsertAt(list, InsertPosition(i.key), i)
             /\ cur' = i.value
    <3>1. Fits(InsertPosition(i.key), i.key)
      BY <1>1, <2>3, InsertPositionFits
    <3>2. HasInserted(list', InsertPosition(i.key), i)
      BY <1>1, <2>3, <3>1, InsertAtIs DEF Fits
    <3> QED  BY <2>3, <3>1, <3>2
  <2> QED  BY <2>1, <2>2, <2>3 DEF Insert
<1>4. PICK P : /\ Fits(P, i.key) /\ HasInserted(list', P, i)
               /\ cur' = cur \/ cur' = i.value
  BY <1>3
<1>5. InOrder' /\ Distinct' /\ Range(list') = Range(list) \cup {i}
  BY <1>1, <1>4, InsertedKeeps
<1>6. {list'[p].value : p \in DOMAIN list'}
        = {list[p].value : p \in DOMAIN list} \cup {i.value}
  BY <1>5 DEF Range
<1>7. CurInList'
  BY <1>4, <1>6 DEF CurInList, QueueInv, TypeOK
<1>8. TypeOK'
  BY <1>4, <1>7 DEF TypeOK, Insert, HasInserted
<1> QED  BY <1>5, <1>8 DEF QueueInv

LEMMA TakeSmallestStep ==
  ASSUME QueueInv, TakeSmallest
  PROVE  QueueInv' /\ Range(list') = Range(list) \ {list[1]}
<1>1. /\ list # <<>> /\ Len(list) \in Nat \ {0} /\ DOMAIN list = 1 .. Len(list)
      /\ \A p \in 1 .. Len(list) : list[p] \in Item
  BY ItemsType DEF QueueInv, TypeOK, TakeSmallest
<1>2. /\ list' \in Seq(Item) /\ Len(list') = Len(list) - 1 /\ DOMAIN list' = 1 .. Len(list) - 1
      /\ \A p \in 1 .. Len(list) - 1 : list'[p] = list[p + 1]
      /\ Range(list') = Range(list) \ {list[1]}
  BY <1>1, TailIs DEF TakeSmallest
<1>3. InOrder' /\ Distinct'
  <2>1. \A p, q \in 1 .. Len(list) - 1 :
          /\ p + 1 \in 1 .. Len(list) /\ q + 1 \in 1 .. Len(list)
          /\ p < q => p + 1 < q + 1
          /\ p # q => p + 1 # q + 1
    BY <1>1
  <2>2. \A p, q \in 1 .. Len(list) :
          /\ p < q => list[p].key <= list[q].key
          /\ p # q => list[p].value # list[q].value
    BY <1>1 DEF InOrder, Distinct, QueueInv
  <2>3. \A p, q \in 1 .. Len(list) - 1 :
          /\ p < q => list'[p].key <= list'[q].key
          /\ p # q => list'[p].value # list'[q].value
    <3> TAKE p, q \in 1 .. Len(list) - 1
    <3>1. list'[p] = list[p + 1] /\ list'[q] = list[q + 1]
      BY <1>2
    <3> QED  BY <2>1, <2>2, <3>1
  <2> QED  BY <1>2, <2>3 DEF InOrder, Distinct
<1>4. CurInList'
  <2>1. CASE cur = list[1].value
    <3>1. CASE Len(list) = 1
      BY <2>1, <3>1 DEF TakeSmallest, CurInList
    <3>2. CASE Len(list) # 1
      <4>1. 1 \in DOMAIN list' /\ list'[1] = list[2]
        BY <1>1, <1>2, <3>2
      <4>2. cur' = list[2].value
        BY <2>1, <3>2 DEF TakeSmallest
      <4> QED  BY <4>1, <4>2 DEF CurInList
    <3> QED  BY <3>1, <3>2
  <2>2. CASE cur # list[1].value /\ cur # End
    <3>1. PICK p \in 1 .. Len(list) : list[p].value = cur
      BY <1>1, <2>2 DEF QueueInv, TypeOK, CurInList
    <3>2. p - 1 \in DOMAIN list' /\ list'[p - 1] = list[p]
      BY <1>1, <1>2, <2>2, <3>1
    <3>3. cur' = cur
      BY <2>2 DEF TakeSmallest
    <3> QED  BY <3>1, <3>2, <3>3 DEF CurInList
  <2>3. CASE cur # list[1].value /\ cur = End
    BY <2>3 DEF TakeSmallest, CurInList
  <2> QED  BY <2>1, <2>2, <2>3
<1>5. ret' \in {<<i>> : i \in Item}
  BY <1>1 DEF TakeSmallest
<1> QED  BY <1>2, <1>3, <1>4, <1>5 DEF QueueInv, TypeOK

LEMMA TakeLargestStep ==
  ASSUME QueueInv, TakeLargest
  PROVE  QueueInv' /\ Range(list') = Range(list) \ {Last(list)}
<1>1. /\ list # <<>> /\ Len(list) \in Nat \ {0} /\ DOMAIN list = 1 .. Len(list)
      /\ \A p \in 1 .. Len(list) : list[p] \in Item
  BY ItemsType DEF QueueInv, TypeOK, TakeLargest
<1>2. /\ list' \in Seq(Item) /\ Len(list') = Len(list) - 1 /\ DOMAIN list' = 1 .. Len(list) - 1
      /\ \A p \in 1 .. Len(list) - 1 : list'[p] = list[p]
      /\ Range(list') = Range(list) \ {Last(list)}
  <2>1. list' = Front(list)
    BY DEF TakeLargest
  <2>2. /\ list' \in Seq(Item) /\ Len(list') = Len(list) - 1
        /\ \A p \in 1 .. Len(list) - 1 : list'[p] = list[p]
        /\ Range(list') = Range(list) \ {Last(list)}
    BY <1>1, <2>1, FrontIs
  <2> QED  BY <1>1, <2>2
<1>3. InOrder' /\ Distinct'
  BY <1>1, <1>2 DEF InOrder, Distinct, QueueInv
<1>4. CurInList'
  <2>1. CASE cur = Last(list).value
    <3>1. CASE Len(list) = 1
      BY <2>1, <3>1 DEF TakeLargest, CurInList
    <3>2. CASE Len(list) # 1
      <4>1. Len(list) - 1 \in DOMAIN list' /\ list'[Len(list) - 1] = list[Len(list) - 1]
        BY <1>1, <1>2, <3>2
      <4>2. cur' = list[Len(list) - 1].value
        BY <2>1, <3>2 DEF TakeLargest
      <4> QED  BY <4>1, <4>2 DEF CurInList
    <3> QED  BY <3>1, <3>2
  <2>2. CASE cur # Last(list).value /\ cur # End
    <3>1. PICK p \in 1 .. Len(list) : list[p].value = cur
      BY <1>1, <2>2 DEF QueueInv, TypeOK, CurInList
    <3>2. p \in DOMAIN list' /\ list'[p] = list[p]
      BY <1>1, <1>2, <2>2, <3>1 DEF Last
    <3>3. cur' = cur
      BY <2>2 DEF TakeLargest
    <3> QED  BY <3>1, <3>2, <3>3 DEF CurInList
  <2>3. CASE cur # Last(list).value /\ cur = End
    BY <2>3 DEF TakeLargest, CurInList
  <2> QED  BY <2>1, <2>2, <2>3
<1>5. ret' \in {<<i>> : i \in Item}
  BY <1>1 DEF TakeLargest, Last
<1> QED  BY <1>2, <1>3, <1>4, <1>5 DEF QueueInv, TypeOK

LEMMA ClearStep == Clear => QueueInv' /\ Range(list') = {}
BY DEF Clear, QueueInv, TypeOK, CurInList, InOrder, Distinct, Range

LEMMA InitInv == Init => QueueInv /\ Range(list) = {}
BY DEF Init, QueueInv, TypeOK, CurInList, InOrder, Distinct, Range

(* Every call keeps the list sorted, its values distinct and _cur on it. *)
LEMMA QueueStep == QueueInv /\ [Next]_vars => QueueInv'
<1> SUFFICES ASSUME QueueInv, [Next]_vars PROVE QueueInv'
  OBVIOUS
<1>1. CASE UNCHANGED vars
  BY <1>1 DEF vars, QueueInv, TypeOK, CurInList, InOrder, Distinct
<1>2. CASE Next
  BY <1>2, InsertStep, TakeSmallestStep, TakeLargestStep, ClearStep DEF Next
<1> QED  BY <1>1, <1>2

(* The list stays sorted wherever the search for a place starts, and the cached
   iterator stays on it. *)
THEOREM AlwaysSorted == Spec => []Sorted
<1>1. QueueInv => Sorted
  BY DEF QueueInv, InOrder, Sorted
<1> QED  BY InitInv, QueueStep, <1>1, PTL DEF Spec

---------------------------------------------------------------------------
(* The queue keeps what a priority queue promises. *)

(* Every call does what the bag of items that the list stands for allows. *)
LEMMA BagStep ==
  ASSUME QueueInv, [Next]_vars
  PROVE  [Bag!Next]_<<Range(list), ret>>
<1>1. /\ Len(list) \in Nat /\ DOMAIN list = 1 .. Len(list)
      /\ \A p \in 1 .. Len(list) : list[p] \in Item /\ list[p].key \in Int
      /\ \A p, q \in 1 .. Len(list) : p <= q => list[p].key <= list[q].key
  BY SMTT(30), ItemsType DEF QueueInv, InOrder
<1>2. CASE UNCHANGED vars
  BY <1>2 DEF vars
<1>3. ASSUME NEW i \in Item, Insert(i) PROVE Bag!Next
  <2>1. Range(list') = Range(list) \cup {i} /\ ret' = <<>>
    BY <1>3, InsertStep DEF Insert
  <2>2. \A j \in Range(list) : j.value # i.value
    BY <1>3 DEF Insert, Range
  <2>3. Bag!Insert(i)
    BY <2>1, <2>2 DEF Bag!Insert
  <2> QED  BY <2>3 DEF Bag!Next, Bag!Item, Item
<1>4. CASE TakeSmallest
  <2>1. Range(list') = Range(list) \ {list[1]} /\ ret' = <<list[1]>> /\ list # <<>>
    BY <1>4, TakeSmallestStep DEF TakeSmallest
  <2>2. 1 \in 1 .. Len(list)
    BY <1>1, <2>1 DEF QueueInv, TypeOK
  <2>3. list[1] \in Range(list) /\ \A j \in Range(list) : list[1].key <= j.key
    BY <1>1, <2>2 DEF Range
  <2>4. Bag!TakeSmallest(list[1])
    BY <2>1, <2>3 DEF Bag!TakeSmallest
  <2>5. list[1] \in Bag!Item
    BY <1>1, <2>2 DEF Bag!Item, Item
  <2> QED  BY <2>4, <2>5 DEF Bag!Next
<1>5. CASE TakeLargest
  <2>1. Range(list') = Range(list) \ {Last(list)} /\ ret' = <<Last(list)>> /\ list # <<>>
    BY <1>5, TakeLargestStep DEF TakeLargest
  <2>2. Len(list) \in 1 .. Len(list)
    BY <1>1, <2>1 DEF QueueInv, TypeOK
  <2>3. Last(list) \in Range(list) /\ \A j \in Range(list) : j.key <= Last(list).key
    BY <1>1, <2>2 DEF Range, Last
  <2>4. Bag!TakeLargest(Last(list))
    BY <2>1, <2>3 DEF Bag!TakeLargest
  <2>5. Last(list) \in Bag!Item
    BY <1>1, <2>2 DEF Bag!Item, Item, Last
  <2> QED  BY <2>4, <2>5 DEF Bag!Next
<1>6. CASE Clear
  <2>1. Bag!Clear
    BY <1>6, ClearStep DEF Clear, Bag!Clear
  <2> QED  BY <2>1 DEF Bag!Next
<1> QED  BY <1>2, <1>3, <1>4, <1>5, <1>6 DEF Next

(* The queue implements the bag: it holds the items inserted and not taken, and takes
   one with the smallest or the largest key. *)
THEOREM PromiseKept == Spec => KeepsPromise
<1>1. Init => Bag!Init
  BY InitInv DEF Init, Bag!Init
<1> QED  BY InitInv, QueueStep, BagStep, <1>1, PTL DEF Spec, KeepsPromise, Bag!Spec
=============================================================================
