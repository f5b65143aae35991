-------------------------- MODULE MCPriorityQueue --------------------------
(* PriorityQueue with up to five items, keys with gaps and duplicates. The
   values are interchangeable. *)
EXTENDS PriorityQueue, TLC

ValueSymmetry == Permutations(Values)
=============================================================================
