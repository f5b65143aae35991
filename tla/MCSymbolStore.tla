--------------------------- MODULE MCSymbolStore ---------------------------
(* What parsing a kernel and a module leaves: types that were merged and are *)
(* referred to by either ID, also along a chain, a structure that was       *)
(* declared only, and types over an ID that is in no file.                  *)
EXTENDS SymbolStore

Symbol(tag, id, name, size, ref) ==
    [tag |-> tag, id |-> id, name |-> name, size |-> size, ref |-> ref,
     location |-> "address", external |-> FALSE, members |-> <<>>, params |-> <<>>]
Part(ref) == <<[name |-> "m", ref |-> ref]>>

Kernel ==
    <<Symbol("struct", "s1", "s", 0, None),
      Symbol("pointer", "p1", "", 8, "s1"),
      [Symbol("subroutine", "f1", "", 0, None) EXCEPT !.params = Part("p1")],
      Symbol("typedef", "t1", "cb", 0, "f1"),
      Symbol("variable", "x1", "x", 0, "t1")>>
Module ==
    <<Symbol("typedef", "t2", "cb", 0, "f2"),
      [Symbol("subroutine", "f2", "", 0, None) EXCEPT !.params = Part("p2")],
      [Symbol("struct", "s2", "s", 8, None) EXCEPT !.members = Part("t2")],
      Symbol("pointer", "p2", "", 8, "s2"),
      Symbol("pointer", "q2", "", 8, "t2"),
      Symbol("const", "c2", "", 0, "missing"),
      Symbol("struct", "o2", "o", 0, None),
      Symbol("variable", "y2", "y", 0, "q2")>>

\* Read by two threads in turn: what is kept of one file refers to what was
\* merged into the other one's
Number(id) == Symbol("base", id, "int", 4, None)
Merged ==
    <<Number("i1"), Number("i2"),
      Symbol("pointer", "j2", "", 8, "i2"), Symbol("pointer", "j1", "", 8, "i1"),
      Symbol("typedef", "k1", "ip", 0, "j1"), Symbol("typedef", "k2", "ip", 0, "j2"),
      Symbol("const", "l2", "", 0, "k2")>>

MCParses == {Kernel \o Module, Module \o Kernel, Merged \o SubSeq(Module, 1, 4)}
============================================================================
