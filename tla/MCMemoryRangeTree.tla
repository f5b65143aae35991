------------------------- MODULE MCMemoryRangeTree -------------------------
(* A MemoryRangeTree over eight addresses, and objects at its first and its
   last address, of one address, overlapping, nested, adjacent, equal and
   reaching beyond the address space. *)
EXTENDS MemoryRangeTree

MCItems == {"whole", "start", "byte", "left", "cross", "twin", "last", "beyond"}
MCAddr == [i \in MCItems |->
  CASE i = "whole" -> 0 [] i = "start" -> 0 [] i = "byte" -> 5 [] i = "left" -> 1
    [] i = "cross" -> 2 [] i = "twin" -> 2 [] i = "last" -> 7 [] i = "beyond" -> 6]
MCEndAddr == [i \in MCItems |->
  CASE i = "whole" -> 7 [] i = "start" -> 0 [] i = "byte" -> 5 [] i = "left" -> 3
    [] i = "cross" -> 5 [] i = "twin" -> 5 [] i = "last" -> 7 [] i = "beyond" -> 9]
MCTypes == [i \in MCItems |-> IF i \in {"cross", "start"} THEN "struct" ELSE i]
=============================================================================
