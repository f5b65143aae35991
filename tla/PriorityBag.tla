---------------------------- MODULE PriorityBag ----------------------------
(* What a priority queue promises: it holds the items that were inserted and
   not taken, and takes one with the smallest or the largest key. The map
   builder's queue of nodes relies on no more than this. *)
EXTENDS Integers

CONSTANTS Keys,    \* the keys, integers
          Values   \* what is stored; a value is in the queue at most once

VARIABLES items,   \* set of [key, value] records in the queue
          ret      \* what the last operation returned: <<item>> or nothing

Item == [key : Keys, value : Values]

Init == items = {} /\ ret = <<>>

Insert(i) ==
  /\ \A j \in items : j.value # i.value
  /\ items' = items \cup {i} /\ ret' = <<>>

TakeSmallest(i) ==
  /\ i \in items /\ \A j \in items : i.key <= j.key
  /\ items' = items \ {i} /\ ret' = <<i>>

TakeLargest(i) ==
  /\ i \in items /\ \A j \in items : j.key <= i.key
  /\ items' = items \ {i} /\ ret' = <<i>>

Clear == items' = {} /\ ret' = <<>>

Next == \/ \E i \in Item : Insert(i) \/ TakeSmallest(i) \/ TakeLargest(i)
        \/ Clear

Spec == Init /\ [][Next]_<<items, ret>>
=============================================================================
