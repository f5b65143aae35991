--------------------------- MODULE PriorityQueue ---------------------------
(* PriorityQueue<Key, T> (libinsight/include/insight/priorityqueue.h): a linked
   list sorted by key, ascending, and an iterator _cur at the last place an
   item was inserted, from which the next insertion may start its search.

   An iterator stays at its item however the list around it changes, so _cur
   is the value of an item, or End for the list's end(). *)
EXTENDS Integers, Sequences, FiniteSetsExt, SequencesExt

CONSTANTS Keys, Values, End

ASSUME KeysAssumption == Keys \subseteq Int /\ End \notin Values

VARIABLES list,  \* _list
          cur,   \* _cur
          ret    \* what the last operation returned: <<item>> or nothing

vars == <<list, cur, ret>>

Item == [key : Keys, value : Values]

(* The cached iterator never outlives its item: it is at one of the list's, or
   at the end, whatever was taken since insert() left it there. *)
CurInList == cur \in {list[p].value : p \in DOMAIN list} \cup {End}

TypeOK == /\ list \in Seq(Item)
          /\ CurInList
          /\ ret \in {<<i>> : i \in Item} \cup {<<>>}

Init == list = <<>> /\ cur = End /\ ret = <<>>

Distance(a, b) == IF a < b THEN b - a ELSE a - b

(* The position an iterator is at; end() is one past the last item. *)
Position(c) ==
  IF c = End THEN Len(list) + 1 ELSE CHOOSE p \in DOMAIN list : list[p].value = c

(* Where the search begins: at _cur, unless the beginning is nearer in key. *)
Start(k) ==
  IF cur = End \/ Distance(k, list[Position(cur)].key) > Distance(k, list[1].key)
  THEN 1 ELSE Position(cur)

(* Mutant: no step back towards the end after the walk to smaller keys. *)
MutWalkBack(k, p) == Max({q \in 1 .. p : q = 1 \/ k >= list[q].key})

(* The walk from p towards smaller keys, and the step back that makes up for
   inserting before the iterator. *)
WalkBack(k, p) ==
  LET q == Max({r \in 1 .. p : r = 1 \/ k >= list[r].key})
  IN IF k >= list[q].key THEN q + 1 ELSE q

(* Mutant: the item is inserted after the one the walk stops at. *)
MutWalkForward(k, p) ==
  1 + Min({q \in p .. Len(list) : q = Len(list) \/ k <= list[q].key})

(* The walk from p towards larger keys. *)
WalkForward(k, p) == Min({q \in p .. Len(list) + 1 : q > Len(list) \/ k <= list[q].key})

InsertPosition(k) ==
  LET p == Start(k)
  IN IF k < list[p].key THEN WalkBack(k, p) ELSE WalkForward(k, p)

Insert(i) ==
  /\ \A p \in DOMAIN list : list[p].value # i.value
  /\ \/ /\ list # <<>> => Last(list).key < i.key
        /\ list' = Append(list, i) /\ UNCHANGED cur
     \/ /\ list # <<>> /\ Last(list).key >= i.key /\ list[1].key >= i.key
        /\ list' = <<i>> \o list /\ UNCHANGED cur
     \/ /\ list # <<>> /\ Last(list).key >= i.key /\ list[1].key < i.key
        /\ list' = InsertAt(list, InsertPosition(i.key), i)
        /\ cur' = i.value
  /\ ret' = <<>>

(* Taking an item moves _cur off it. The list is circular: before its first
   item and after its last one comes end(). *)
TakeSmallest ==
  /\ list # <<>>
  /\ cur' = IF cur # list[1].value THEN cur
            ELSE IF Len(list) = 1 THEN End ELSE list[2].value
  /\ ret' = <<list[1]>>
  /\ list' = Tail(list)

(* Mutant: takeLargest() leaves _cur at the item it deletes. *)
MutTakeLargest ==
  /\ list # <<>>
  /\ ret' = <<Last(list)>> /\ list' = Front(list) /\ UNCHANGED cur

TakeLargest ==
  /\ list # <<>>
  /\ cur' = IF cur # Last(list).value THEN cur
            ELSE IF Len(list) = 1 THEN End ELSE list[Len(list) - 1].value
  /\ ret' = <<Last(list)>>
  /\ list' = Front(list)

Clear == list' = <<>> /\ cur' = End /\ ret' = <<>>

Next == (\E i \in Item : Insert(i)) \/ TakeSmallest \/ TakeLargest \/ Clear

Spec == Init /\ [][Next]_vars

---------------------------------------------------------------------------
(* The list stays sorted wherever the search for a place starts, and the cached
   iterator stays on it: the test tests/priorityqueue checks the order for a few
   sequences of calls. *)
Sorted == TypeOK /\ \A p, q \in DOMAIN list : p < q => list[p].key <= list[q].key

(* The queue keeps what a priority queue promises. *)
Bag == INSTANCE PriorityBag WITH items <- Range(list)
KeepsPromise == Bag!Spec
=============================================================================
