--------------------------- MODULE MCMapBuilder ---------------------------
(* A small guest for MapBuilder: two variables that both point to obj, a
   cycle, an embedded instance, a rule with a far candidate and one with an
   enclosing candidate, a function, and an instance of each kind that is not
   added or not followed. *)
EXTENDS MapBuilder, TLC

MCInsts == {"vara", "varb", "obj", "emb", "far", "cand", "fn", "fnp", "low", "paged"}

MCAddr == [i \in MCInsts |->
  CASE i = "vara" -> 10 [] i = "varb" -> 20 [] i = "obj" -> 30 [] i = "emb" -> 31
    [] i = "far" -> 90 [] i = "cand" -> 50 [] i = "fn" -> 60 [] i = "fnp" -> 61
    [] i = "low" -> 70 [] i = "paged" -> 80]

MCSize == [i \in MCInsts |-> CASE i = "paged" -> 0 [] i \in {"emb", "fnp"} -> 1 [] OTHER -> 4]

MCEncloses == {<<i, i>> : i \in MCInsts} \cup {<<"obj", "emb">>}

(* Below its parent an instance loses what is wrong with itself. Whoever reaches
   obj first decides whether low is probable enough below it. *)
Own == [i \in MCInsts |->
  CASE i = "low" -> 40 [] i = "varb" -> 60 [] i = "far" -> 80 [] i = "cand" -> 85 [] OTHER -> 90]
MCProb == [i \in MCInsts |->
  [p \in -1 .. 100 |-> IF p = NoParent THEN Own[i] ELSE (p * Own[i]) \div 100]]

Pointer(i) == [kind |-> "pointer", orig |-> i, cand |-> NoInst]
Rule(i, c) == [kind |-> "rule", orig |-> i, cand |-> c]
Func == [kind |-> "func"]

MCRefs == [i \in MCInsts |->
  CASE i = "vara" -> <<Pointer("obj"), Rule("far", "cand")>>
    [] i = "varb" -> <<Rule("emb", "obj"), Func>>
    [] i = "obj"  -> <<Pointer("vara"), Pointer("emb"), Pointer("low")>>
    [] i = "cand" -> <<Pointer("fnp"), Pointer("low")>>
    [] OTHER      -> <<>>]

MCPages == [i \in MCInsts |-> 2]
MCGoodPages == [i \in MCInsts |-> IF i = "paged" THEN 1 ELSE 2]
MCEnqueueable == MCInsts \ {"fn", "fnp"}

(* The guest for the races and for two builds: all roots point to obj. *)
MCRaceRefs == [i \in MCInsts |->
  CASE i \in {"vara", "varb", "cand"} -> <<Pointer("obj")>>
    [] i = "obj" -> <<Pointer("vara"), Func>>
    [] OTHER     -> <<>>]

TwoRoots == <<"vara", "varb">>
MCRoots == <<"paged", "vara", "varb">>
OneFunction == <<"fn">>
OneSlubObject == <<"obj">>
NoInsts == <<>>
=============================================================================
