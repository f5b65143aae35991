---------------------------- MODULE MCTypeRules ----------------------------
(* Two files that include a third one, which includes the first in turn; two *)
(* kernels that give the same IDs to different types; and rules whose       *)
(* results, priorities and fields make them compete.                        *)
EXTENDS TypeRules

MCContent == [main   |-> <<"common">>,
              common |-> <<"c", "main">>,
              other  |-> <<"d", "common", "a">>]
MCLoads == {<<"main">>, <<"other", "main">>}
MCCuts == {{"t2", "t4"}}

\* A typedef of a const structure, and a structure of its own
MCRefType == [old |-> [t1 |-> "t2", t2 |-> "t3", t3 |-> None, t4 |-> None],
              new |-> [t1 |-> None, t2 |-> "t4", t4 |-> None]]

MCRule ==
    [a |-> [os |-> {"old", "new"}, needs |-> {}, types |-> [old |-> {"t1", "t3"}, new |-> {"t2"}]],
     c |-> [os |-> {"old", "new"}, needs |-> {"t1"},
            types |-> [old |-> {"t3", "t4"}, new |-> {"t1", "t4"}]],
     d |-> [os |-> {"old"}, needs |-> {}, types |-> [old |-> {"t1"}, new |-> {"t4"}]]]

Action(prio, members, result, name) ==
    [prio |-> prio, members |-> members, result |-> result, name |-> name]

\* The priorities of c and d, where a has 0: two rules, or all, compete
MCPriorities == {<<-1, 0>>, <<0, 0>>, <<0, 1>>}

Table(one, two, p, members) ==
    [a |-> Action(0, <<"m">>, one, None),
     c |-> Action(p[1], members, two, None),
     d |-> Action(p[2], <<"m">>, "x", "v")]

\* c needs the same field as the others, or one more
MCTables ==
    {Table(one, two, p, <<"m">>) :
        one \in {"x", "default"}, two \in {"y", "invalid"}, p \in MCPriorities} \cup
    {Table("x", "y", p, <<"m", "n">>) : p \in MCPriorities}

Level(type, name, members) == [type |-> type, name |-> name, members |-> members]
MCQueries ==
    {<<Level(t, "v", <<"m">>)>> : t \in {"t1", "t3"}} \cup
    {<<Level("t3", "v", <<"m", "n">>), Level("t4", "w", <<"m">>)>>}
============================================================================
