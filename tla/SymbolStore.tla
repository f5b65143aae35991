---------------------------- MODULE SymbolStore ----------------------------
(***************************************************************************)
(* KernelSymbols::saveSymbols() and loadSymbols(): the symbols of a        *)
(* factory are written to a file (libinsight/kernelsymbolwriter.cpp) and   *)
(* read into an empty one (libinsight/kernelsymbolreader.cpp).             *)
(*                                                                         *)
(* The file lists elementary types, then types that refer to one type,     *)
(* then structures, then further IDs of types, then variables.  So nearly  *)
(* every type is read before what it refers to, and the relations between  *)
(* the types have to come about again.  Within a list the order is that of *)
(* the internal IDs or of a hash table: it is left open.                   *)
(***************************************************************************)
EXTENDS SymFactory

CONSTANTS Parses        \* sequences of symbols, in the order they are parsed

VARIABLES phase,        \* "parsed", "saved", "reading", "loaded" or "reverted"
          fac,          \* the factory
          saved,        \* the file: the factory as it was saved last
          unread,       \* what loadSymbols() has not read yet
          waiting,      \* typeRelations: IDs of types that are not known yet
          interrupted   \* Console::interrupted()

vars == <<phase, fac, saved, unread, waiting, interrupted>>

Nothing == [types |-> {}, relations |-> {}, vars |-> {}]

\* KernelSymbolWriter::write(): the IDs that are not the ID of a type itself
Written(f) ==
    [types     |-> f.types,
     relations |-> {<<id, f.byId[id]>> : id \in DOMAIN f.byId \ f.types},
     vars      |-> f.vars]

\* The factory that parsing leaves
Parsed(symbols, down) ==
    SymbolsFinished([FoldLeft(AddSymbol, EmptyFactory, symbols) EXCEPT !.down = down])

Init ==
    /\ phase = "parsed"
    /\ \E symbols \in Parses, down \in BOOLEAN : fac = Parsed(symbols, down)
    /\ saved = EmptyFactory
    /\ unread = Nothing
    /\ waiting = <<>>
    /\ interrupted = FALSE

\* An object as readFrom() makes it: with its ID, its hash not valid
Created(f, id) ==
    [f EXCEPT !.obj = (id :> saved.obj[id]) @@ @, !.hash = (id :> NoHash) @@ @]

\* addSymbol(BaseType*): other than a type that was just parsed, it is not
\* looked up by its hash first
AddLoaded(f, id) ==
    LET g == UpdateTypeRelations(Created(f, id), id, id, TRUE, FALSE)
        i == g.obj[id]
        h == IF i.size = 0 THEN [g EXCEPT !.zero = Append(@, id)] ELSE g
    IN  CASE i.tag \in RefBaseTypes  -> ResolveReference(g, Type(id))
          [] i.tag \in StructOrUnion -> ResolveReferences(h, id)
          [] OTHER                   -> g

Round(id) == CASE saved.obj[id].tag \in RefBaseTypes  -> 2
               [] saved.obj[id].tag \in StructOrUnion -> 3
               [] OTHER                               -> 1

-----------------------------------------------------------------------------
\* saveSymbols(): the writer pays no attention to interrupts
Save ==
    /\ phase \in {"parsed", "loaded"}
    /\ phase' = "saved"
    /\ saved' = fac
    /\ UNCHANGED <<fac, unread, waiting, interrupted>>

\* loadSymbols(), at first or again: it begins with an empty factory
Load ==
    /\ phase \in {"saved", "reverted"}
    /\ phase' = "reading"
    /\ unread' = Written(saved)
    /\ fac' = EmptyFactory
    /\ interrupted' = FALSE
    /\ UNCHANGED <<saved, waiting>>

Reading == phase = "reading" /\ ~interrupted

ReadType(id) ==
    /\ Reading
    /\ id \in unread.types
    /\ \A other \in unread.types : Round(id) <= Round(other)
    /\ fac' = AddLoaded(fac, id)
    /\ unread' = [unread EXCEPT !.types = @ \ {id}]
    /\ UNCHANGED <<phase, saved, waiting, interrupted>>

\* A relation as <<ID, ID of the type>> is entered, if the type is known
Relate(f, r) ==
    IF Resolved(f, r[2]) THEN UpdateTypeRelations(f, r[1], f.byId[r[2]], TRUE, FALSE)
    ELSE f

\* A bug: a relation is dropped if its type is not known yet
MutReadRelation(r) ==
    /\ Reading
    /\ unread.types = {}
    /\ r \in unread.relations
    /\ fac' = Relate(fac, r)
    /\ unread' = [unread EXCEPT !.relations = @ \ {r}]
    /\ UNCHANGED <<phase, saved, waiting, interrupted>>

ReadRelation(r) ==
    /\ Reading
    /\ unread.types = {}
    /\ r \in unread.relations
    /\ fac' = Relate(fac, r)
    /\ waiting' = IF Resolved(fac, r[2]) THEN waiting ELSE Append(waiting, r)
    /\ unread' = [unread EXCEPT !.relations = @ \ {r}]
    /\ UNCHANGED <<phase, saved, interrupted>>

\* One pass through the relations that wait; the last one is without success
RetryRelations ==
    LET Pass(s, r) == IF Resolved(s.fac, r[2])
                      THEN [s EXCEPT !.fac = Relate(@, r)]
                      ELSE [s EXCEPT !.left = Append(@, r)]
        done == FoldLeft(Pass, [fac |-> fac, left |-> <<>>], waiting)
    IN
    /\ Reading
    /\ unread.types = {} /\ unread.relations = {} /\ waiting # <<>>
    /\ fac' = done.fac
    /\ waiting' = IF Len(done.left) = Len(waiting) THEN <<>> ELSE done.left
    /\ UNCHANGED <<phase, saved, unread, interrupted>>

ReadVariable(v) ==
    /\ Reading
    /\ unread.types = {} /\ unread.relations = {} /\ waiting = <<>>
    /\ v \in unread.vars
    /\ fac' = InsertVariable(Created(fac, v), v)
    /\ unread' = [unread EXCEPT !.vars = @ \ {v}]
    /\ UNCHANGED <<phase, saved, waiting, interrupted>>

FinishLoad ==
    /\ Reading
    /\ unread = Nothing /\ waiting = <<>>
    /\ phase' = "loaded"
    /\ \E down \in BOOLEAN : fac' = SymbolsFinished([fac EXCEPT !.down = down])
    /\ UNCHANGED <<saved, unread, waiting, interrupted>>

Interrupt ==
    /\ phase = "reading" /\ ~interrupted
    /\ interrupted' = TRUE
    /\ UNCHANGED <<phase, fac, saved, unread, waiting>>

\* The reader returns early, and loadSymbols() reverts everything
Revert ==
    /\ phase = "reading" /\ interrupted
    /\ phase' = "reverted"
    /\ fac' = EmptyFactory
    /\ unread' = Nothing /\ waiting' = <<>>
    /\ UNCHANGED <<saved, interrupted>>

Next ==
    \/ Save \/ Load \/ RetryRelations \/ FinishLoad \/ Interrupt \/ Revert
    \/ \E id \in unread.types : ReadType(id)
    \/ \E r \in unread.relations : ReadRelation(r)
    \/ \E v \in unread.vars : ReadVariable(v)

Spec == Init /\ [][Next]_vars

-----------------------------------------------------------------------------
(* Properties.                                                             *)

\* The variables have their types; no type is read or entered twice, and what
\* was deleted is neither used nor listed again.
TypeOK ==
    /\ phase \in {"parsed", "saved", "reading", "loaded", "reverted"}
    /\ unread.types \subseteq saved.types /\ unread.vars \subseteq saved.vars
    /\ Range(waiting) \cap unread.relations = {}
    /\ fac.doubled = {} /\ fac.touched = {}
    /\ \A e \in fac.usedBy : e[2][2] \notin fac.dead
    /\ \A n \in DOMAIN fac.postponed : fac.postponed[n][2][2] \notin fac.dead

Users(f, t) == {e[2] : e \in {e \in f.usedBy : e[1] \in EquivalentTypes(f, t)}}

\* loadSymbols() restores what saveSymbols() wrote, in whatever order types,
\* their further IDs and variables are read: the same types are found under the
\* same IDs, with the same hashes and the same users, the same ones are
\* incomplete.  If it was interrupted it reverts everything.  On the way nothing is
\* entered twice and nothing deleted is used.
LoadRestores ==
    /\ TypeOK
    /\ phase = "loaded" =>
         /\ fac.types = saved.types /\ fac.vars = saved.vars
         /\ fac.byId = saved.byId
         /\ Range(fac.zero) = Range(saved.zero)
         /\ \A t \in fac.types : /\ fac.hash[t] = saved.hash[t]
                                 /\ Users(fac, t) = Users(saved, t)
    /\ phase = "reverted" => fac = EmptyFactory
=============================================================================
