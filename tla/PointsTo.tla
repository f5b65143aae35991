------------------------------ MODULE PointsTo ------------------------------
(* Phases 1 to 3 of ASTTypeEvaluator::evaluateTypes() (libcparser/src/
   asttypeevaluator.cpp): what is assigned to the pointers of a C file, directly
   or through another pointer. A walk over the file records an assignment for
   every place that is written to; a second one links the node that was
   assigned with the uses of what it was assigned to; the next round follows
   these links, until a round finds nothing new.

   A file is its assignments in the order of the walk. An expression is a
   symbol and what is applied to it, in the order the walk meets it on its way
   up; `plain' says that there is no operator among it that yields no lvalue.
   Every symbol can hold a pointer. A node is an assignment and a side: the
   symbol on that side, for a return statement also the statement itself, the
   side "lhs" of which is the function. The node that is assigned is named by
   its assignment. Where the code keeps a hash, the model keeps what it is of. *)
EXTENDS Integers, Sequences, FiniteSets, SequencesExt, FiniteSetsExt

CONSTANTS
  Files,       \* the files: sequences of [kind, lhs, rhs]
  MaxRounds    \* bound: rounds of one analysis

VARIABLES
  file,        \* _ast
  phase,       \* _phase, "done" or "interrupted"
  at,          \* how many nodes the walk has passed
  round,       \* _pointsToRound
  assigned,    \* _assignedAstNodes of each symbol: {[node, trans, round]}
  rev,         \* _assignedNodesRev: [node -> Seq of [sym, trans, use, round]]
  deadEnds,    \* _pointsToDeadEnds
  added        \* _assignments

vars == <<file, phase, at, round, assigned, rev, deadEnds, added>>

Side(n) == file[n[1]][n[2]]

-----------------------------------------------------------------------------
(* SymbolTransformations *)

Cancels(a, b) == {a, b} = {"&", "*"}

\* append(): an address operator and a dereference cancel each other out
AppendTrans(t, op) == IF t # <<>> /\ Cancels(Last(t), op) THEN Front(t) ELSE Append(t, op)
Joined(t, ops) == FoldLeft(AppendTrans, t, ops)

\* derefCount(): those after the last member access or call
RECURSIVE DerefCount(_)
DerefCount(t) ==
  IF t = <<>> \/ Last(t) \notin {"*", "[]", "&"} THEN 0
  ELSE DerefCount(Front(t)) + IF Last(t) = "&" THEN -1 ELSE 1

\* combineTansformations(): the last link's transformations are part of the local ones
Combined(global, local, last) == Joined(global, SubSeq(local, Len(last) + 1, Len(local)))

-----------------------------------------------------------------------------
(* The walk *)

\* Children come before their parents
Sources == FlattenSeq([k \in DOMAIN file |->
             IF file[k].kind = "return" THEN <<<<k, "rhs">>, <<k, "lhs">>>>
             ELSE <<<<k, "lhs">>, <<k, "rhs">>>>])

Local(n) == IF n[2] = "lhs" /\ file[n[1]].kind # "assignment" THEN <<>>
            ELSE Joined(<<>>, Side(n).ops)

\* A declarator and a return statement are no primary expressions
Primary(n) == n[2] = "rhs" \/ file[n[1]].kind = "assignment"

\* collectSymbols(): the symbols below the node that is assigned
SymbolBelow(k) == <<file[k].rhs.sym, Joined(<<>>, file[k].rhs.ops)>>

\* appendAssignedNode(): the round makes no difference
Record(st, sym, k, trans) ==
  IF \E a \in st.assigned[sym] : a.node = k /\ a.trans = trans THEN [st EXCEPT !.found = 0]
  ELSE [st EXCEPT !.assigned[sym] = @ \cup {[node |-> k, trans |-> trans, round |-> round]},
                  !.added = @ + 1, !.found = 1]

Nothing(st) == [st EXCEPT !.found = 0]

(* Mutant: as many dereferences as the last link are enough. *)
MutAssignTo(es, st) ==
  LET k == es.node[1]
      local == Local(es.node)
      trans == Combined(es.trans, local, es.last)
  IN IF \/ ~IsPrefix(es.last, local)
        \/ k \in es.links
        \/ es.links # {} /\ DerefCount(local) < DerefCount(es.last)
        \/ ~(es.valid /\ Side(es.node).plain) \/ DerefCount(trans) < 0
        \/ SymbolBelow(k) = <<es.sym, trans>>
     THEN Nothing(st)
     ELSE Record(st, es.sym, k, trans)

\* The left-hand side of an assignment expression
AssignTo(es, st) ==
  LET k == es.node[1]
      local == Local(es.node)
      trans == Combined(es.trans, local, es.last)
  IN IF \/ ~IsPrefix(es.last, local)
        \/ k \in es.links
        \/ es.links # {} /\ DerefCount(local) <= DerefCount(es.last)
        \/ ~(es.valid /\ Side(es.node).plain) \/ DerefCount(trans) < 0
        \/ SymbolBelow(k) = <<es.sym, trans>>
     THEN Nothing(st)
     ELSE Record(st, es.sym, k, trans)

\* A return statement assigns to the call of its function
AssignResult(es, st) ==
  LET k == es.node[1] IN
  IF \/ ~IsPrefix(es.last, Local(es.node))
     \/ SymbolBelow(k)[1] = file[k].lhs.sym
  THEN Nothing(st)
  ELSE Record(st, file[k].lhs.sym, k, <<"()">>)

RECURSIVE Evaluate(_, _), FollowLinks(_, _, _)

\* evaluateIdentifierPointsToRek(): from a node up to what decides about it
Evaluate(es, st) ==
  LET k == es.node[1]
      here == [es EXCEPT !.nodes = @ \cup {es.node}]
      linked == IF IsPrefix(es.last, Local(es.node))
                THEN FollowLinks([here EXCEPT !.valid = @ /\ file[k].rhs.plain], rev[k], st)
                ELSE st
  IN IF es.node \in es.nodes THEN Nothing(st)
     ELSE IF es.node[2] = "rhs"
     THEN IF file[k].kind = "return" THEN AssignResult(here, linked) ELSE Nothing(linked)
     ELSE CASE file[k].kind = "assignment" -> AssignTo(here, st)
            [] file[k].kind = "init"       -> Record(st, es.sym, k, <<>>)
            [] OTHER                       -> AssignResult(here, st)

\* The node that the expression is part of was assigned to other variables
FollowLinks(es, links, st) ==
  IF links = <<>> THEN st
  ELSE
  LET it == Head(links)
      trans == Combined(es.trans, Local(es.node), es.last)
      end == <<es.sym, trans, it.use, it.trans>>
      after == Evaluate([es EXCEPT !.symbols = @ \cup {<<it.sym, it.trans>>},
                                   !.node = it.use, !.last = it.trans, !.trans = trans,
                                   !.links = @ \cup {es.node[1]}], st)
      marked == IF after.found = 0 /\ round > 1
                THEN [after EXCEPT !.deadEnds = @ \cup {end}] ELSE after
  IN FollowLinks(es, Tail(links),
       IF \/ es.links = {} /\ it.round # round - 1
          \/ <<it.sym, it.trans>> \in es.symbols
          \/ round > 1 /\ end \in st.deadEnds
       THEN st ELSE marked)

Source(n) == [sym |-> Side(n).sym, trans |-> <<>>, node |-> n, last |-> <<>>, valid |-> TRUE,
              links |-> {}, symbols |-> {<<Side(n).sym, <<>>>>}, nodes |-> {}]

-----------------------------------------------------------------------------
Symbols(f) == {f[k].lhs.sym : k \in DOMAIN f} \cup {f[k].rhs.sym : k \in DOMAIN f}

Init ==
  /\ file \in Files
  /\ phase = "pointsTo" /\ at = 0 /\ round = 1 /\ added = 0 /\ deadEnds = {}
  /\ assigned = [s \in Symbols(file) |-> {}]
  /\ rev = [k \in DOMAIN file |-> <<>>]

Walk(p) == phase = p /\ at < Len(Sources) /\ at' = at + 1 /\ UNCHANGED <<file, phase, round>>
Walked(p) == phase = p /\ at = Len(Sources)

\* evaluateIdentifierPointsTo()
PointsTo ==
  /\ Walk("pointsTo")
  /\ LET st == Evaluate(Source(Sources[at']), [assigned |-> assigned, deadEnds |-> deadEnds,
                                             added |-> added, found |-> 0])
     IN assigned' = st.assigned /\ deadEnds' = st.deadEnds /\ added' = st.added
  /\ UNCHANGED rev

\* The new assignments to a symbol, for one of its uses, in the order of a hash
NewLinks(n) ==
  {[node |-> a.node, sym |-> Side(n).sym, trans |-> a.trans, use |-> n, round |-> round] :
   a \in {a \in assigned[Side(n).sym] : a.round = round}}

(* Mutant: of a node, the latest link only. *)
MutPointsToRev ==
  /\ Walk("pointsToRev")
  /\ LET n == Sources[at'] IN
     IF ~Primary(n) THEN rev' = rev
     ELSE \E order \in SetToSeqs(NewLinks(n)) :
            rev' = [k \in DOMAIN file |->
                      LET new == SelectSeq(order, LAMBDA l : l.node = k)
                      IN IF new = <<>> THEN rev[k] ELSE <<Last(new)>>]
  /\ UNCHANGED <<assigned, deadEnds, added>>

\* evaluateIdentifierPointsToRev(); of one node, the latest link comes first
PointsToRev ==
  /\ Walk("pointsToRev")
  /\ LET n == Sources[at'] IN
     IF ~Primary(n) THEN rev' = rev
     ELSE \E order \in SetToSeqs(NewLinks(n)) :
            rev' = [k \in DOMAIN file |->
                      Reverse(SelectSeq(order, LAMBDA l : l.node = k)) \o rev[k]]
  /\ UNCHANGED <<assigned, deadEnds, added>>

\* evaluateTypes(): what follows a walk
EndPointsTo ==
  /\ Walked("pointsTo")
  /\ IF added > 0 THEN phase' = "pointsToRev" /\ at' = 0 ELSE phase' = "done" /\ at' = at
  /\ UNCHANGED <<file, round, assigned, rev, deadEnds, added>>

(* Mutant: the assignments of all rounds are counted. *)
MutNextRound ==
  /\ Walked("pointsToRev") /\ round < MaxRounds
  /\ phase' = "pointsTo" /\ at' = 0 /\ round' = round + 1 /\ deadEnds' = {}
  /\ UNCHANGED <<file, assigned, rev, added>>

NextRound ==
  /\ Walked("pointsToRev") /\ round < MaxRounds
  /\ phase' = "pointsTo" /\ at' = 0 /\ round' = round + 1 /\ added' = 0 /\ deadEnds' = {}
  /\ UNCHANGED <<file, assigned, rev>>

Interrupt ==
  /\ phase \in {"pointsTo", "pointsToRev"}
  /\ phase' = "interrupted"
  /\ UNCHANGED <<file, at, round, assigned, rev, deadEnds, added>>

Ended == phase \in {"done", "interrupted"} /\ UNCHANGED vars

Next == PointsTo \/ PointsToRev \/ EndPointsTo \/ NextRound \/ Interrupt \/ Ended

\* The walk goes on; what it does at a node is always possible.
GoesOn == Walk("pointsTo") \/ Walk("pointsToRev") \/ EndPointsTo \/ NextRound

Spec == Init /\ [][Next]_vars /\ WF_<<phase, at, round>>(GoesOn)

-----------------------------------------------------------------------------
(* Properties. *)

Recorded == UNION {{<<s, a.trans, a.node>> : a \in assigned[s]} : s \in DOMAIN assigned}

(* What the file says, from the assignment that writes to the place through
   which it does: x.t = y.u gives y.u whatever is written to x.t.rest. The
   analysis compares dereferences only on the last of these copies. *)

Directly ==
  {[sym |-> file[k].lhs.sym, node |-> k, via |-> {},
    trans |-> IF file[k].kind = "return" THEN <<"()">> ELSE Local(<<k, "lhs">>)] :
   k \in {k \in DOMAIN file : file[k].lhs.plain}}

Through(copy, write) ==
  [sym |-> file[copy.node].rhs.sym, node |-> write.node,
   via |-> write.via \cup {<<copy.sym, copy.trans>>},
   trans |-> Combined(SymbolBelow(copy.node)[2], write.trans, copy.trans)]

\* exactly: only what is written through a pointer is written to its copies, too.
Copied(copy, write, exactly) ==
  /\ copy.sym = write.sym /\ copy.node # write.node /\ file[copy.node].rhs.plain
  /\ IsPrefix(copy.trans, write.trans)
  /\ exactly \/ write.via = {} => DerefCount(write.trans) > DerefCount(copy.trans)
  /\ <<copy.sym, copy.trans>> \notin write.via

RECURSIVE Closure(_, _)
Closure(W, exactly) ==
  LET V == W \cup {Through(p[1], p[2]) : p \in {p \in W \X W : Copied(p[1], p[2], exactly)}}
  IN IF V = W THEN W ELSE Closure(V, exactly)

Says(exactly) == {<<w.sym, w.trans, w.node>> : w \in Closure(Directly, exactly)}

\* Whatever was recorded, the file says: a link that is followed leads to a
\* place that the symbol may really stand for (the checks on the left-hand side
\* of evaluateIdentifierPointsToRek()).
Justified ==
  phase = "done" => Recorded \subseteq Says(FALSE)

(* What the links say, without dead ends and in any order: the expressions a
   symbol gets into, link by link, and what is assigned there. *)

Start(n) == [sym |-> Side(n).sym, trans |-> <<>>, at |-> n, last |-> <<>>, valid |-> TRUE,
             links |-> {}, first |-> 0, via |-> {<<Side(n).sym, <<>>>>}, seen |-> {n}]

Uses(sym) == {n \in Range(Sources) : Primary(n) /\ Side(n).sym = sym}

\* in order: after a link that was found in the last round come older ones only
Steps(a, inOrder) ==
  IF a.at[2] = "lhs" \/ ~IsPrefix(a.last, Local(a.at)) THEN {}
  ELSE UNION {{[a EXCEPT !.trans = Combined(@, Local(a.at), a.last), !.at = u, !.last = l.trans,
                         !.valid = @ /\ Side(a.at).plain, !.links = @ \cup {a.at[1]},
                         !.first = IF a.links = {} THEN l.round ELSE @,
                         !.via = @ \cup {<<s, l.trans>>}, !.seen = @ \cup {u}] :
               u \in Uses(s) \ a.seen,
               l \in {l \in assigned[s] : /\ l.node = a.at[1] /\ <<s, l.trans>> \notin a.via
                                          /\ inOrder /\ a.links # {} => l.round <= a.first}} :
              s \in DOMAIN assigned}

RECURSIVE Aliases(_, _)
Aliases(A, inOrder) ==
  LET B == A \cup UNION {Steps(a, inOrder) : a \in A} IN IF B = A THEN A ELSE Aliases(B, inOrder)

Written(a) ==
  LET k == a.at[1]  local == Local(a.at)  trans == Combined(a.trans, local, a.last) IN
  IF /\ a.at[2] = "lhs" /\ k \notin a.links /\ IsPrefix(a.last, local)
     /\ a.links # {} => DerefCount(local) > DerefCount(a.last)
     /\ a.valid /\ Side(a.at).plain /\ DerefCount(trans) >= 0
     /\ SymbolBelow(k) # <<a.sym, trans>>
  THEN {<<a.sym, trans, k>>} ELSE {}

WrittenThroughLinks(inOrder) ==
  UNION {Written(a) : a \in Aliases({Start(n) : n \in {n \in Range(Sources) : Primary(n)}}, inOrder)}

AllPlain == \A k \in DOMAIN file : file[k].rhs.plain

\* Along links in that order nothing that the file says is lost, by no dead end
\* and no loop (_pointsToDeadEnds, evalNodeStack, followedSymStack), if nothing
\* but a dereference or an address is applied to a symbol.
LinksFollowed ==
  phase = "done" /\ AllPlain => WrittenThroughLinks(TRUE) \cap Says(TRUE) \subseteq Recorded

\* Violated: whether a state is a dead end also depends on the operators that
\* were applied on the way to it.
DeadEndsDead ==
  phase = "done" => WrittenThroughLinks(TRUE) \cap Says(TRUE) \subseteq Recorded

\* Violated: a link that was found last may be the second one of a path.
OlderLinksDone ==
  phase = "done" /\ AllPlain => WrittenThroughLinks(FALSE) \cap Says(TRUE) \subseteq Recorded

\* Violated: only the last link of a path is compared with what is assigned to.
JustifiedExactly == phase = "done" => Recorded \subseteq Says(TRUE)

\* A round that finds nothing new comes (the loop of evaluateTypes()).
Ends == <>(phase \in {"done", "interrupted"})
=============================================================================
