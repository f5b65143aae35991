-------------------------- MODULE MCSymbolParser --------------------------
(* Two threads, the kernel and a module that share their types: the kernel  *)
(* declares a structure that the module defines, and both use it in a      *)
(* function type with a name.                                              *)
EXTENDS SymbolParser

Entry(tag, id, name, size, ref, kids) ==
    [tag |-> tag, id |-> id, name |-> name, size |-> size, ref |-> ref,
     location |-> IF tag = "variable" THEN "address" ELSE "any",
     external |-> FALSE, kids |-> kids]

Part(tag, id, ref) == Entry(tag, id, "m", 0, ref, <<>>)
Param1(id, ref) == <<Part("parameter", id, ref)>>

Declaration == Entry("struct", "s1", "s", 0, None, <<>>)
Pointer1 == Entry("pointer", "p1", "", 8, "s1", <<>>)
Function1 == Entry("subroutine", "f1", "", 0, None, Param1("a1", "p1"))
Typedef1 == Entry("typedef", "t1", "cb", 0, "f1", <<>>)
External1 == [Entry("variable", "x1", "x", 0, "p1", <<>>)
                 EXCEPT !.location = "zero", !.external = TRUE]

Definition == Entry("struct", "s2", "s", 8, None, <<Part("member", "m2", "p2")>>)
Pointer2 == Entry("pointer", "p2", "", 8, "s2", <<>>)
Function2 == Entry("subroutine", "f2", "", 0, None, Param1("a2", "p2"))
Typedef2 == Entry("typedef", "t2", "cb", 0, "f2", <<>>)
Local2 == [Entry("variable", "l2", "l", 0, "p2", <<>>) EXCEPT !.location = "local"]
Main2 == Entry("subprogram", "g2", "g", 0, "p2", Param1("b2", "t2") \o <<Local2>>)
Variable2 == Entry("variable", "x2", "x", 0, "p2", <<>>)

\* No entry with children is the last one of its level
Ends(blocks) == {b \in blocks : b.kids = <<>>}
Permuted(blocks) ==
    {order \in SetToSeqs(blocks) : order[Len(order)] \in Ends(blocks)}

\* A number of 16 bytes, as compilers have them, before a structure
Invalid == <<Entry("base", "i1", "__int128", 16, None, <<>>),
             Entry("struct", "u1", "u", 4, None, <<Part("member", "m1", "p1")>>),
             Pointer1>>

MCOrders ==
    <<{<<External1>> \o order : order \in
            Permuted({Declaration, Pointer1, Function1, Typedef1})} \cup {Invalid},
      {<<Variable2, Main2, Typedef2, Function2, Definition, Pointer2>>}>>
InvalidOrders == <<{Invalid}>>

\* Threads differ in nothing
WorkerSymmetry == Permutations(Workers)

\* Two structures, each defined by the other file: both files have a function
\* type over pointers to both, and a name for a pointer to it
Struct(id, name, size) == Entry("struct", id, name, size, None, <<>>)
Crossed(n, sizeA, sizeB) ==
    LET Id(name) == <<name, n>> IN
    <<Struct(Id("a"), "a", sizeA), Struct(Id("b"), "b", sizeB),
      Entry("pointer", Id("pa"), "", 8, Id("a"), <<>>),
      Entry("pointer", Id("pb"), "", 8, Id("b"), <<>>),
      Entry("subroutine", Id("f"), "", 0, None,
            Param1(Id("fa"), Id("pa")) \o Param1(Id("fb"), Id("pb"))),
      Entry("pointer", Id("pf"), "", 8, Id("f"), <<>>),
      Entry("typedef", Id("t"), "cb", 0, Id("pf"), <<>>)>>
CrossedOrders == <<{Crossed(1, 0, 8)}, {Crossed(2, 4, 0)}>>
=============================================================================
