---------------------------- MODULE SymFactory ----------------------------
(***************************************************************************)
(* The symbol factory (libinsight/symfactory.cpp) while symbols are        *)
(* parsed.  It is a passive object: every caller holds the parser's        *)
(* _factoryMutex, so that each operation is a function from one state of   *)
(* the factory, a record, to the next.  Module SymbolParser holds that     *)
(* record in a variable.                                                   *)
(*                                                                         *)
(* A type object is named by the internal ID it was created with.  Its     *)
(* hash is the tree of names, sizes and kinds that the code mixes into 32  *)
(* bits: equal trees have equal hashes, and BaseType::operator==, which    *)
(* compares name, size and kind again, is taken to tell all others apart.  *)
(* As in the code a structure is hashed by the names of its members, never *)
(* by their types, so that the tree is finite.                             *)
(***************************************************************************)
EXTENDS Integers, Sequences, FiniteSets, SequencesExt

CONSTANTS None          \* the type ID 0, i. e. "void" or no reference

NoHash == <<>>          \* the hash of a type that depends on a missing one

FunctionTypes == {"subroutine", "subprogram"}
StructOrUnion == {"struct", "union"}
RefBaseTypes == FunctionTypes \cup {"pointer", "typedef", "const"}

\* The factory before the first symbol: SymFactory::clear()
EmptyFactory ==
    [obj       |-> <<>>,    \* the TypeInfo of every object ever created
     hash      |-> <<>>,    \* BaseType::_hash of an object, NoHash if invalid
     byId      |-> <<>>,    \* _typesById
     equiv     |-> {},      \* _equivalentTypes: <<kept ID, merged ID>>
     types     |-> {},      \* _types and _typesByName
     doubled   |-> {},      \* IDs that were entered into _types again
     byHash    |-> {},      \* _typesByHash: <<hash, ID>>
     postponed |-> <<>>,    \* _postponedTypes, the newest entry first
     usedBy    |-> {},      \* the four _usedBy... tables: <<ID, user>>
     zero      |-> <<>>,    \* _zeroSizeStructs
     vars      |-> {},      \* _vars
     external  |-> <<>>,    \* _externalVars
     mapped    |-> {},      \* _idRevMapping: <<file, original ID>>
     issued    |-> {},      \* every ID that ever got an internal ID
     remapped  |-> {},      \* IDs that got a second internal ID
     dead      |-> {},      \* objects that were deleted
     touched   |-> {},      \* deleted objects that were used again
     down      |-> FALSE]   \* the order in which QSet and QHash list elements

-----------------------------------------------------------------------------
(* Users: whatever holds a reference to a type.                            *)

Type(id) == <<"type", id, 0>>
Member(id, n) == <<"member", id, n>>
Param(id, n) == <<"param", id, n>>
Variable(id) == <<"variable", id, 0>>

RefTypeId(f, user) ==
    LET i == f.obj[user[2]]
    IN  CASE user[1] = "member" -> i.members[user[3]].ref
          [] user[1] = "param"  -> i.params[user[3]].ref
          [] OTHER              -> i.ref

\* refType(): whether the type with this ID is known
Resolved(f, id) == id \in DOMAIN f.byId

ParamsOf(f, id) == {Param(id, n) : n \in DOMAIN f.obj[id].params}
MembersOf(f, id) == {Member(id, n) : n \in DOMAIN f.obj[id].members}

\* The elements of a set, in the order the hash table happens to have
Listed(f, S) == IF f.down THEN Reverse(SetToSeq(S)) ELSE SetToSeq(S)

Entries(f, users) == {<<RefTypeId(f, u), u>> : u \in users}

-----------------------------------------------------------------------------
(* Hashes.                                                                 *)

Names(seq) == [n \in DOMAIN seq |-> seq[n].name]

\* What a type contributes itself: BaseType::hash(), Structured::hash()
Own(i) == <<i.tag, i.name, i.size, Names(i.members), Names(i.params)>>

\* The IDs whose types are part of the hash: RefBaseType, FuncPointer::hash()
HashedIds(i) ==
    (IF i.ref = None THEN <<>> ELSE <<i.ref>>) \o
    [n \in DOMAIN i.params |-> i.params[n].ref]

Hash(f, id) ==
    LET ids == HashedIds(f.obj[id])
        Target(n) == IF Resolved(f, ids[n]) THEN f.hash[f.byId[ids[n]]]
                     ELSE NoHash
    IN  IF \E n \in DOMAIN ids : Target(n) = NoHash THEN NoHash
        ELSE <<Own(f.obj[id]), [n \in DOMAIN ids |-> Target(n)]>>

\* hashIsValid(), hash(): an invalid hash is calculated again, a valid one
\* is returned as it is
Hashed(f, id) ==
    IF f.hash[id] # NoHash THEN f ELSE [f EXCEPT !.hash[id] = Hash(f, id)]

\* rehash() and hash()
Rehashed(f, id) == [f EXCEPT !.hash[id] = Hash(f, id)]

Equals(f, id) == {e \in f.byHash : e[1] = f.hash[id] /\ e[2] # id
                                   /\ f.hash[e[2]] = f.hash[id]}

\* findTypeByHash(): another type that equals this one, or None
FindTypeByHash(f, id) ==
    IF f.hash[id] = NoHash \/ Equals(f, id) = {} THEN None
    ELSE (CHOOSE e \in Equals(f, id) : TRUE)[2]

-----------------------------------------------------------------------------
(* References that wait for their type.                                    *)

Postpone(f, id, user) ==
    IF \E n \in DOMAIN f.postponed : f.postponed[n] = <<id, user>> THEN f
    ELSE [f EXCEPT !.postponed = <<<<id, user>>>> \o @]

\* A bug: a function only waits for its result
MutInsertPostponed(f, user) ==
    IF RefTypeId(f, user) = None THEN f ELSE Postpone(f, RefTypeId(f, user), user)

\* A function waits under the ID of its result, known or not, and under the
\* IDs of the parameters that are missing
InsertPostponed(f, user) ==
    LET ref == RefTypeId(f, user)
        first == IF ref = None THEN f ELSE Postpone(f, ref, user)
        missing == IF user[1] = "type"
                   THEN SelectSeq([n \in DOMAIN f.obj[user[2]].params |->
                                        f.obj[user[2]].params[n].ref],
                                  LAMBDA id : ~Resolved(f, id))
                   ELSE <<>>
    IN  IF \E n \in DOMAIN f.postponed : f.postponed[n] = <<ref, user>> THEN f
        ELSE FoldLeft(LAMBDA g, id : Postpone(g, id, user), first, missing)

RemovePostponed(f, user) ==
    [f EXCEPT !.postponed = SelectSeq(@, LAMBDA e : e[2] # user)]

\* resolveReference()
ResolveReference(f, user) ==
    IF RefTypeId(f, user) # None /\ ~Resolved(f, RefTypeId(f, user))
    THEN InsertPostponed(f, user)
    ELSE [f EXCEPT !.usedBy = @ \cup Entries(f, {user})]

\* resolveReferences() of a structure, for each member that has a type
ResolveReferences(f, id) ==
    FoldLeft(ResolveReference, f,
             SelectSeq([n \in DOMAIN f.obj[id].members |-> Member(id, n)],
                       LAMBDA m : RefTypeId(f, m) # None))

Delete(f, id) == [f EXCEPT !.dead = @ \cup {id}]

\* An object is used: a deleted one must not be
Touch(f, id) == [f EXCEPT !.touched = @ \cup ({id} \cap f.dead)]

\* The entry of a type into the lists, by updateTypeRelations()
AppendType(f, id) ==
    LET i == f.obj[id]
        users == (IF i.tag \in RefBaseTypes THEN {Type(id)} ELSE {}) \cup
                 (IF i.tag \in FunctionTypes THEN ParamsOf(f, id) ELSE {})
    IN  [f EXCEPT !.types = @ \cup {id},
                  !.doubled = IF id \in f.types THEN @ \cup {id} ELSE @,
                  !.byHash = IF f.hash[id] = NoHash THEN @
                             ELSE @ \cup {<<f.hash[id], id>>},
                  !.usedBy = @ \cup Entries(f, users)]

RECURSIVE UpdateTypeRelations(_, _, _, _, _), ResolveWaiting(_, _, _)

\* postponedTypeResolved() for one waiting user
PostponedTypeResolved(f, user) ==
    LET id == user[2]
        used == Touch(f, id)
        g == Hashed(used, id)
        freed == RemovePostponed(g, user)
        other == FindTypeByHash(freed, id)
    IN  CASE user[1] = "member" /\ Resolved(f, RefTypeId(f, user)) ->
               RemovePostponed(ResolveReference(used, user), user)
          [] user[1] = "variable" /\ Resolved(f, RefTypeId(f, user)) ->
               RemovePostponed(used, user)
          [] user[1] = "type" /\ g.hash[id] # NoHash /\ other # None ->
               Delete(UpdateTypeRelations(freed, id, other, TRUE, FALSE), id)
          [] user[1] = "type" /\ g.hash[id] # NoHash /\ other = None ->
               UpdateTypeRelations(freed, id, id, TRUE, FALSE)
          [] OTHER -> used

\* The loop over the users that wait for an ID; it starts over when the table
\* has changed
ResolveWaiting(f, id, n) ==
    LET waiting == SelectSeq(f.postponed, LAMBDA e : e[1] = id)
        g == PostponedTypeResolved(f, waiting[n][2])
    IN  IF n > Len(waiting) THEN f
        ELSE ResolveWaiting(g, id,
                 IF Len(g.postponed) = Len(f.postponed) THEN n + 1 ELSE 1)

UpdateTypeRelations(f, newId, target, checkPostponed, forceInsert) ==
    LET g == Hashed(f, target)
        known == [g EXCEPT !.byId = (newId :> target) @@ @,
                           !.equiv = IF newId = target THEN @
                                     ELSE @ \cup {<<target, newId>>}]
        listed == IF newId = target THEN AppendType(known, newId) ELSE known
    IN  CASE g.hash[target] = NoHash /\ ~forceInsert ->
               InsertPostponed(g, Type(target))
          [] checkPostponed /\ (g.hash[target] # NoHash \/ forceInsert) ->
               ResolveWaiting(listed, newId, 1)
          [] OTHER -> listed

-----------------------------------------------------------------------------
(* Replacing one type by another.                                          *)

\* equivalentTypes(): the IDs that were merged into the type with this ID
EquivalentTypes(f, id) ==
    LET kept == IF Resolved(f, id) THEN f.byId[id] ELSE id
    IN  {e[2] : e \in {e \in f.equiv : e[1] = kept}} \cup
        (IF Resolved(f, id) THEN {kept} ELSE {})

\* The first part of replaceType(): the old type leaves every table
Unlisted(f, old) ==
    LET i == f.obj[old]
        users == (IF i.tag \in RefBaseTypes THEN {Type(old)} ELSE {}) \cup
                 (IF i.tag \in FunctionTypes THEN ParamsOf(f, old) ELSE {}) \cup
                 (IF i.tag \in StructOrUnion THEN MembersOf(f, old) ELSE {})
        g == IF i.tag \in RefBaseTypes /\ i.ref # None /\ ~Resolved(f, i.ref)
             THEN RemovePostponed(f, Type(old)) ELSE f
    IN  [g EXCEPT !.types = @ \ {old},
                  !.byHash = @ \ {<<f.hash[old], old>>},
                  !.zero = SelectSeq(@, LAMBDA s : s # old),
                  !.usedBy = @ \ Entries(f, users)]

RECURSIVE ReplaceType(_, _, _)

\* A type that refers to the replaced one is hashed again: it may now equal
\* another type, and is then replaced in its turn.  oldHash was saved before.
RehashUser(f, id, oldHash) ==
    LET g == Rehashed(Touch(f, id), id)
        h == [g EXCEPT !.byHash = @ \ {<<oldHash, id>>}]
        other == FindTypeByHash(h, id)
    IN  CASE g.hash[id] = oldHash -> g
          [] g.hash[id] # oldHash /\ other # None ->
               Delete(ReplaceType(h, id, other), id)
          [] g.hash[id] # oldHash /\ other = None ->
               [h EXCEPT !.byHash = @ \cup {<<g.hash[id], id>>}]

\* The functions with a parameter of the replaced type, one after the other
RECURSIVE RehashParams(_, _, _)
RehashParams(f, id, done) ==
    LET params == {e[2] : e \in {e \in f.usedBy : e[1] = id /\ e[2][1] = "param"}}
        todo == Listed(f, params \ done)
        owner == todo[1][2]
        target == f.byId[id]
    IN  IF todo = <<>> THEN f
        ELSE RehashParams(RehashUser(Rehashed(f, target), owner, f.hash[owner]),
                          id, done \cup {todo[1]})

\* A bug: the new type does not take over the ID of the old one
MutRedirectId(f, id, new) ==
    LET users == {e[2][2] : e \in {e \in f.usedBy : e[1] = id /\ e[2][1] = "type"}}
        g == [f EXCEPT !.byId = (id :> new) @@ @]
        h == FoldLeft(LAMBDA k, u : RehashUser(k, u, f.hash[u]), g, Listed(f, users))
    IN  RehashParams(h, id, {})

\* One equivalent ID of the old type now means the new type
RedirectId(f, id, new) ==
    LET users == {e[2][2] : e \in {e \in f.usedBy : e[1] = id /\ e[2][1] = "type"}}
        g == [f EXCEPT !.byId = (id :> new) @@ @,
                       !.equiv = IF id = new THEN @ ELSE @ \cup {<<new, id>>}]
        h == FoldLeft(LAMBDA k, u : RehashUser(k, u, f.hash[u]), g, Listed(f, users))
    IN  RehashParams(h, id, {})

ReplaceType(f, old, new) ==
    LET g == Unlisted(f, old)
        ids == EquivalentTypes(g, old) \cup {old}
        h == [g EXCEPT !.equiv = {e \in @ : e[1] # old}]
    IN  FoldLeft(LAMBDA k, id : RedirectId(k, id, new), h, Listed(f, ids))

\* The structures with a size that have the name of an empty one
Definitions(f, id) ==
    {t \in f.types : /\ f.obj[t].tag \in StructOrUnion
                     /\ f.obj[t].size > 0
                     /\ f.obj[t].name = f.obj[id].name}

\* replaceZeroSizeStructs(): an empty structure whose name is unique is
\* replaced by its definition
ReplaceZeroSizeStructs(f) ==
    FoldLeft(LAMBDA g, s :
                 IF g.obj[s].name # "" /\ Cardinality(Definitions(g, s)) = 1
                 THEN Delete(ReplaceType(g, s, CHOOSE t \in Definitions(g, s) : TRUE), s)
                 ELSE g,
             f, f.zero)

-----------------------------------------------------------------------------
(* Variables.                                                              *)

\* varDeclAvailable(): a variable of this name and of an equal type is known
VarDeclAvailable(f, id) ==
    LET TypeHash(v) == IF Resolved(f, f.obj[v].ref) THEN f.hash[f.byId[f.obj[v].ref]]
                       ELSE NoHash
    IN  \E v \in f.vars : /\ f.obj[v].name = f.obj[id].name /\ f.obj[id].name # ""
                          /\ TypeHash(v) = TypeHash(id) /\ TypeHash(v) # NoHash

InsertVariable(f, id) ==
    [f EXCEPT !.vars = @ \cup {id}, !.usedBy = @ \cup Entries(f, {Variable(id)})]

\* scanExternalVars(): declarations are dropped when the variable is known
ScanExternalVars(f, insertRemaining) ==
    LET Scan(g, id) ==
            CASE VarDeclAvailable(g, id) -> Delete(g, id)
              [] ~VarDeclAvailable(g, id) /\ insertRemaining -> InsertVariable(g, id)
              [] OTHER -> [g EXCEPT !.external = Append(@, id)]
    IN  FoldLeft(Scan, [f EXCEPT !.external = <<>>], f.external)

-----------------------------------------------------------------------------
(* The operations the parser calls.                                        *)

\* mapToInternalIds(): an ID of a file gets an internal ID when it is met
\* first.  The internal ID of a symbol is written as the symbol itself.
MapToInternalIds(f, file, ids) ==
    [f EXCEPT !.mapped = @ \cup ({file} \X ids),
              !.issued = @ \cup ids,
              !.remapped = @ \cup {id \in ids \cap f.issued :
                                      <<file, id>> \notin f.mapped}]

\* A bug: the IDs of all files are forgotten
MutClearIdRevMap(f, file) == [f EXCEPT !.mapped = {}]

ClearIdRevMap(f, file) == [f EXCEPT !.mapped = {m \in @ : m[1] # file}]

\* getTypeInstance2(): a type that is known already is deleted again
AddType(f, id) ==
    LET g == Hashed(f, id)
        other == FindTypeByHash(g, id)
        members == IF f.obj[id].tag \in StructOrUnion THEN ResolveReferences(g, id)
                   ELSE g
    IN  IF other # None
        THEN UpdateTypeRelations(Delete(g, id), id, other, TRUE, FALSE)
        ELSE UpdateTypeRelations(members, id, id, TRUE, FALSE)

\* What addSymbol() does after the instance was created
ResolveNew(f, id) ==
    LET i == f.obj[id] IN
    CASE i.tag \in StructOrUnion /\ i.size = 0 /\ id \notin f.dead ->
           [f EXCEPT !.zero = Append(@, id)]
      [] i.tag \in RefBaseTypes \ FunctionTypes /\ id \notin f.dead ->
           ResolveReference(f, Type(id))
      [] OTHER -> f

\* getVarInstance(): declarations are kept apart until the end
AddVariable(f, id) ==
    CASE f.obj[id].location # "address" /\ f.obj[id].external ->
           IF VarDeclAvailable(f, id) THEN Delete(f, id)
           ELSE [f EXCEPT !.external = Append(@, id)]
      [] OTHER -> ResolveReference(InsertVariable(f, id), Variable(id))

\* isSymbolValid(): if not, addSymbol() throws
SymbolValid(i) ==
    CASE i.tag = "base"     -> i.size \in {1, 2, 4, 8}
      [] i.tag = "pointer"  -> i.size > 0
      [] i.tag \in {"typedef", "subprogram"} -> i.name # ""
      [] i.tag = "variable" -> i.location # "none" \/ i.external
      [] OTHER              -> TRUE

AddSymbol(f, i) ==
    LET g == [f EXCEPT !.obj = (i.id :> i) @@ @, !.hash = (i.id :> NoHash) @@ @]
    IN  IF i.tag = "variable" THEN AddVariable(g, i.id)
        ELSE ResolveNew(AddType(g, i.id), i.id)

\* The loop of symbolsFinished() over all that still wait
RECURSIVE ResolveAll(_, _, _)
ResolveAll(f, n, changes) ==
    LET user == f.postponed[n][2]
        g == PostponedTypeResolved(f, user)
        changed == changes \/ (user[1] # "member" /\
                               Len(g.postponed) # Len(f.postponed))
    IN  CASE n > Len(f.postponed) /\ changes -> ResolveAll(f, 1, FALSE)
          [] n > Len(f.postponed) /\ ~changes -> f
          [] OTHER -> ResolveAll(g, IF Len(g.postponed) = Len(f.postponed)
                                    THEN n + 1 ELSE 1, changed)

\* Types that could not be resolved are added regardless of that
ForceInsert(f) ==
    FoldLeft(LAMBDA g, e : IF e[2][1] = "type"
                           THEN UpdateTypeRelations(g, e[2][2], e[2][2], FALSE, TRUE)
                           ELSE g,
             f, f.postponed)

SymbolsFinished(f) ==
    ScanExternalVars(ForceInsert(ResolveAll(ReplaceZeroSizeStructs(f), 1, FALSE)),
                     TRUE)
=============================================================================
