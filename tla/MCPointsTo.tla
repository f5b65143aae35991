----------------------------- MODULE MCPointsTo -----------------------------
(* All files of three assignments and of four, of a few forms each; the last one
   writes r through s. *)
EXTENDS PointsTo

Plain(v, o) == [sym |-> v, ops |-> o, plain |-> TRUE]
Sum(v) == [sym |-> v, ops |-> <<>>, plain |-> FALSE]
Of(kind, L, R) == {s \in {[kind |-> kind, lhs |-> l, rhs |-> r] : l \in L, r \in R} :
                     s.lhs.sym # s.rhs.sym}
Exprs(syms, ops) == {Plain(v, o) : v \in syms, o \in ops}

Vars == {"p", "q", "s"}
Operators == {<<>>, <<"*">>, <<"&">>}

Assignments == Of("assignment", Exprs(Vars, {<<>>}), Exprs(Vars, Operators))
               \cup Of("assignment", Exprs(Vars, {<<"*">>}), Exprs(Vars, {<<>>, <<"&">>}))
Sums == Of("assignment", Exprs(Vars, {<<>>}), {Sum(v) : v \in Vars})
Calls == Of("assignment", Exprs(Vars, {<<>>}), {Plain("f", <<"()">>)})
Inits == Of("init", Exprs(Vars, {<<>>}), Exprs(Vars, {<<>>}))
Returns == Of("return", {Plain("f", <<>>)}, Exprs(Vars, {<<>>, <<"&">>}))
Through1 == Of("assignment", {Plain("s", <<"*">>)}, {Plain("r", <<>>)})
Through2 == Of("assignment", Exprs({"s"}, {<<"*", "*">>, <<"*", "m">>}), {Plain("r", <<>>)})

\* t = &s first, so that *t = p is found to be s = p in a later round
Address == Of("assignment", {Plain("t", <<>>)}, {Plain("s", <<"&">>)})
Later == Of("assignment", {Plain("p", <<>>), Plain("s", <<>>), Plain("t", <<"*">>)},
                          Exprs(Vars, Operators))

MCFiles ==
  {<<a, b, c>> : a \in Assignments \cup Sums \cup Calls \cup Inits,
                 b \in Assignments \cup Returns, c \in Through1}
  \cup {<<a, b, c>> : a \in Calls \cup Inits, b \in Sums \cup Returns, c \in Through2}
  \cup {<<t, a, b, c>> : t \in Address, a \in Later, b \in Later, c \in Through1}
=============================================================================
