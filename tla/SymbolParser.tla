--------------------------- MODULE SymbolParser ---------------------------
(***************************************************************************)
(* KernelSymbolParser::parse(bool): a pool of threads reads the debugging  *)
(* symbols of the kernel and of its modules (libinsight/                   *)
(* kernelsymbolparser.cpp).  Each thread takes file after file, builds     *)
(* symbols out of the entries of objdump's listing and hands them to the   *)
(* symbol factory; when all have ended the main thread post-processes the  *)
(* factory.                                                                *)
(*                                                                         *)
(* An entry stands for its header line and its attributes.  Its offset in  *)
(* the listing, which the code calls its ID as well, is its position; the  *)
(* symbol it describes is its field id.  A step of a thread is what it     *)
(* does under one lock: _filesMutex guards the list of files and the       *)
(* progress, _factoryMutex the factory.                                    *)
(***************************************************************************)
EXTENDS SymFactory

CONSTANTS Workers,      \* the threads, MultiThreading::maxThreads() of them
          Orders        \* per file, the orders its entries may be listed in

VARIABLES main,         \* parse(): "idle", "waiting" or "finished"
          streams,      \* the listing of each file
          filesIndex,   \* how many files were taken
          counted,      \* the files counted in _binBytesRead
          interrupted,  \* Console::interrupted()
          crashed,      \* a null pointer was followed
          worker,       \* the state of each thread
          fac,          \* the factory
          cut           \* symbols an interrupt left half-read

vars == <<main, streams, filesIndex, counted, interrupted, crashed, worker, fac, cut>>

Files == DOMAIN Orders

SubHdrTypes == {"member", "parameter"}
RelevantHdr == {"base", "pointer", "const", "typedef", "struct", "union",
                "subroutine", "subprogram", "member", "variable"}

\* An entry of the input: its children are listed after it.  The compiler
\* gives an entry with children the offset of the next one on its level.
RECURSIVE Listing(_, _)
Listing(blocks, start) ==
    IF blocks = <<>> THEN <<>>
    ELSE LET b == Head(blocks)
             kids == Listing(b.kids, start + 1)
             after == start + 1 + Len(kids)
         IN  <<[b EXCEPT !.kids = IF kids # <<>> /\ Len(blocks) > 1 THEN after ELSE -1]>>
             \o kids \o Listing(Tail(blocks), after)

\* TypeInfo::clear()
Cleared == [relevant |-> FALSE, id |-> None, tag |-> "unknown", name |-> "",
            size |-> 0, ref |-> None, location |-> "none", external |-> FALSE,
            sibling |-> -1, members |-> <<>>, params |-> <<>>]

Idle == [pc |-> "files", file |-> 0, nextId |-> 0, infos |-> <<Cleared>>]

\* Which headers are of interest depends on the scope they are in
Relevant(tag, parentTag) ==
    CASE parentTag = "subprogram" -> tag \in (RelevantHdr \cup {"parameter"}) \ {"variable"}
      [] parentTag = "subroutine" -> tag \in RelevantHdr \cup {"parameter"}
      [] OTHER                    -> tag \in RelevantHdr

\* A header and its attributes, as parseSymbols() and parseParam() read them;
\* the attributes of what is of no interest are skipped, and a variable that
\* is neither global nor declared is forgotten
Read(entry, parentTag) ==
    IF ~Relevant(entry.tag, parentTag) \/ entry.location = "local" THEN Cleared
    ELSE [relevant |-> TRUE, id |-> entry.id, tag |-> entry.tag,
          name |-> entry.name, size |-> entry.size, ref |-> entry.ref,
          location |-> entry.location, external |-> entry.external,
          sibling |-> entry.kids, members |-> <<>>, params |-> <<>>]

\* The entry an interrupt may leave: the later attributes were not read
HalfRead(i) == {i, [i EXCEPT !.sibling = -1, !.ref = None]}

-----------------------------------------------------------------------------
(* Scopes: _infos is a stack, _info its top and _parentInfo the one below. *)

Info(w) == Last(worker[w].infos)
HasParent(w) == Len(worker[w].infos) > 1
ParentTag(infos) == IF Len(infos) > 1 THEN infos[Len(infos) - 1].tag ELSE "unknown"
Parent(w) == worker[w].infos[Len(worker[w].infos) - 1]

SetTop(infos, i) == Append(Front(infos), i)

\* The offset _nextId of the header that closes the last symbol
At(w) == IF worker[w].pc = "line" THEN worker[w].nextId + 1 ELSE worker[w].nextId

\* That header is read into the top of the stack
WithHeader(w, infos) ==
    [worker[w] EXCEPT
        !.pc = "line",
        !.nextId = At(w),
        !.infos = SetTop(infos, Read(streams[worker[w].file][At(w)], ParentTag(infos)))]

\* A sub-entry is merged into the symbol that is open
Merged(parent, i) ==
    LET part == [name |-> i.name, ref |-> i.ref] IN
    IF i.tag = "member" THEN [parent EXCEPT !.members = Append(@, part)]
    ELSE [parent EXCEPT !.params = Append(@, part)]

Named(i) == IF i.tag = "const" THEN [i EXCEPT !.name = ""] ELSE i

Mapped(file, i) == MapToInternalIds(fac, file, {i.id, i.ref} \ {None})

\* finishLastSymbol(): the symbols that are handed to the factory
Submits(i) == /\ i.relevant
              /\ i.tag \notin SubHdrTypes
              /\ ~(i.tag = "subprogram" /\ i.name = "")
              /\ i.tag # "variable" \/ i.location # "none"

Fails(i) == Submits(i) /\ ~SymbolValid(i)

-----------------------------------------------------------------------------
Init ==
    /\ main = "idle"
    /\ \E order \in [Files -> UNION {Orders[n] : n \in Files}] :
          /\ \A n \in Files : order[n] \in Orders[n]
          /\ streams = [n \in Files |-> Listing(order[n], 1)]
    /\ filesIndex = 0
    /\ counted = {}
    /\ interrupted = FALSE
    /\ crashed = FALSE
    /\ worker = [w \in Workers |-> Idle]
    /\ fac = EmptyFactory
    /\ cut = {}

Running(w, pc) == main = "waiting" /\ ~crashed /\ worker[w].pc = pc

\* parse(): the files were collected, the threads are started
Start ==
    /\ main = "idle"
    /\ main' = "waiting"
    /\ UNCHANGED <<streams, filesIndex, counted, interrupted, crashed, worker, fac, cut>>

\* WorkerThread::run(): the next file is taken
TakeFile(w) ==
    /\ Running(w, "files")
    /\ ~interrupted
    /\ filesIndex < Len(Orders)
    /\ filesIndex' = filesIndex + 1
    /\ worker' = [worker EXCEPT ![w] = [Idle EXCEPT !.pc = "line", !.file = filesIndex']]
    /\ UNCHANGED <<main, streams, counted, interrupted, crashed, fac, cut>>

\* No file is left, or the user interrupted
EndThread(w) ==
    /\ Running(w, "files")
    /\ interrupted \/ filesIndex >= Len(Orders)
    /\ worker' = [worker EXCEPT ![w].pc = "done"]
    /\ UNCHANGED <<main, streams, filesIndex, counted, interrupted, crashed, fac, cut>>

HeaderFollows(w) == /\ ~interrupted
                    /\ worker[w].nextId < Len(streams[worker[w].file])

\* parseSymbols(), finishLastSymbol(): the next header is the first child of
\* the last symbol and opens its scope
OpenScope(w) ==
    /\ Running(w, "line") /\ HeaderFollows(w)
    /\ Info(w).sibling > At(w)
    /\ worker' = [worker EXCEPT ![w] = WithHeader(w, Append(worker[w].infos, Cleared))]
    /\ UNCHANGED <<main, streams, filesIndex, counted, interrupted, crashed, fac, cut>>

\* The listing ends, or the user interrupted: the last symbol is finished
EndOfListing(w) ==
    LET last == Info(w) IN
    /\ Running(w, "line")
    /\ interrupted \/ worker[w].nextId = Len(streams[worker[w].file])
    /\ \E i \in IF interrupted THEN HalfRead(last) ELSE {last} :
          /\ worker' = [worker EXCEPT ![w] =
                 IF i.relevant /\ i.sibling <= @.nextId
                 THEN [@ EXCEPT !.pc = "last", !.infos = SetTop(@, i)]
                 ELSE [@ EXCEPT !.pc = "end", !.infos = <<Cleared>>]]
          /\ cut' = IF i = last THEN cut ELSE cut \cup {last.id}
    /\ UNCHANGED <<main, streams, filesIndex, counted, interrupted, crashed, fac>>

\* A symbol is to be finished: the next header ends it, or ended the scope it
\* is in, or it is the last one
Closing(w) ==
    \/ Running(w, "line") /\ HeaderFollows(w) /\ Info(w).sibling <= At(w)
    \/ Running(w, "close")
    \/ Running(w, "last")

\* A bug: a scope ends after its next sibling only
MutFinishSymbol(w) ==
    LET i == Info(w)
        infos == worker[w].infos
        merged == [infos EXCEPT ![Len(infos) - 1] = Merged(Parent(w), i)]
        kept == IF i.relevant /\ i.tag \in SubHdrTypes /\ HasParent(w) THEN merged ELSE infos
        scopeEnds == HasParent(w) /\ Parent(w).sibling < At(w)
    IN
    /\ Closing(w)
    /\ ~(i.relevant /\ i.tag \in SubHdrTypes /\ ~HasParent(w))
    /\ ~Fails(i)
    /\ fac' = IF Submits(i) THEN AddSymbol(Mapped(worker[w].file, i), Named(i))
              ELSE IF i.relevant /\ i.tag \in SubHdrTypes THEN Mapped(worker[w].file, i)
              ELSE fac
    /\ worker' = [worker EXCEPT ![w] =
           IF scopeEnds THEN [@ EXCEPT !.pc = IF @ = "line" THEN "close" ELSE @,
                                       !.nextId = At(w), !.infos = Front(kept)]
           ELSE IF @.pc = "last" THEN [@ EXCEPT !.pc = "end", !.infos = <<Cleared>>]
           ELSE WithHeader(w, SetTop(kept, Cleared))]
    /\ UNCHANGED <<main, streams, filesIndex, counted, interrupted, crashed, cut>>

\* finishLastSymbol(), once around its loop
FinishSymbol(w) ==
    LET i == Info(w)
        infos == worker[w].infos
        merged == [infos EXCEPT ![Len(infos) - 1] = Merged(Parent(w), i)]
        kept == IF i.relevant /\ i.tag \in SubHdrTypes /\ HasParent(w) THEN merged ELSE infos
        scopeEnds == HasParent(w) /\ Parent(w).sibling <= At(w)
    IN
    /\ Closing(w)
    /\ ~(i.relevant /\ i.tag \in SubHdrTypes /\ ~HasParent(w))
    /\ ~Fails(i)
    /\ fac' = IF Submits(i) THEN AddSymbol(Mapped(worker[w].file, i), Named(i))
              ELSE IF i.relevant /\ i.tag \in SubHdrTypes THEN Mapped(worker[w].file, i)
              ELSE fac
    /\ worker' = [worker EXCEPT ![w] =
           IF scopeEnds THEN [@ EXCEPT !.pc = IF @ = "line" THEN "close" ELSE @,
                                       !.nextId = At(w), !.infos = Front(kept)]
           ELSE IF @.pc = "last" THEN [@ EXCEPT !.pc = "end", !.infos = <<Cleared>>]
           ELSE WithHeader(w, SetTop(kept, Cleared))]
    /\ UNCHANGED <<main, streams, filesIndex, counted, interrupted, crashed, cut>>

\* addSymbol() throws: the symbol is not processed again, and the header that
\* was to be read is given up with it
RejectSymbol(w) ==
    /\ Closing(w)
    /\ Fails(Info(w))
    /\ fac' = Mapped(worker[w].file, Info(w))
    /\ worker' = [worker EXCEPT ![w] =
           IF @.pc = "last" THEN [@ EXCEPT !.pc = "end", !.infos = <<Cleared>>]
           ELSE [@ EXCEPT !.pc = "line", !.nextId = At(w),
                          !.infos = SetTop(@, [Info(w) EXCEPT !.relevant = FALSE])]]
    /\ UNCHANGED <<main, streams, filesIndex, counted, interrupted, crashed, cut>>

\* A sub-entry for which no scope is open: _parentInfo is null
FollowNull(w) ==
    /\ Closing(w)
    /\ Info(w).relevant /\ Info(w).tag \in SubHdrTypes /\ ~HasParent(w)
    /\ crashed' = TRUE
    /\ UNCHANGED <<main, streams, filesIndex, counted, interrupted, worker, fac, cut>>

\* run(): the file is counted, the declarations are scanned and the IDs of
\* the file forgotten; parseSymbols() begins the next one with an empty stack
FinishFile(w) ==
    /\ Running(w, "end")
    /\ counted' = counted \cup {worker[w].file}
    /\ fac' = ClearIdRevMap(ScanExternalVars(fac, FALSE), worker[w].file)
    /\ worker' = [worker EXCEPT ![w] = Idle]
    /\ UNCHANGED <<main, streams, filesIndex, interrupted, crashed, cut>>

\* parse(): every thread has ended, the symbols are post-processed
Finish ==
    /\ main = "waiting" /\ ~crashed
    /\ \A w \in Workers : worker[w].pc = "done"
    /\ main' = "finished"
    /\ \E down \in BOOLEAN : fac' = SymbolsFinished([fac EXCEPT !.down = down])
    /\ UNCHANGED <<streams, filesIndex, counted, interrupted, crashed, worker, cut>>

Interrupt ==
    /\ main = "waiting" /\ ~interrupted
    /\ interrupted' = TRUE
    /\ UNCHANGED <<main, streams, filesIndex, counted, crashed, worker, fac, cut>>

\* parse() has returned, or the process has died
Stopped ==
    /\ main = "finished" \/ crashed
    /\ UNCHANGED vars

WorkerStep(w) ==
    \/ TakeFile(w) \/ EndThread(w) \/ OpenScope(w) \/ EndOfListing(w)
    \/ FinishSymbol(w) \/ RejectSymbol(w) \/ FollowNull(w)
    \/ FinishFile(w)

Next == Start \/ Finish \/ Interrupt \/ Stopped \/ \E w \in Workers : WorkerStep(w)

Spec == Init /\ [][Next]_vars

-----------------------------------------------------------------------------
(* What the input says.                                                    *)

\* Every entry of a file with the tag of the entry it is a child of
RECURSIVE Entered(_, _)
Entered(blocks, parentTag) ==
    UNION {{<<blocks[n], parentTag>>} \cup Entered(blocks[n].kids, blocks[n].tag) :
           n \in DOMAIN blocks}

Input == [n \in Files |-> UNION {Entered(order, "unknown") : order \in Orders[n]}]

\* The symbols a file should add to the factory
Expected ==
    [n \in Files |->
        {e[1].id : e \in {e \in Input[n] : /\ Relevant(e[1].tag, e[2])
                                           /\ e[1].tag \notin SubHdrTypes
                                           /\ e[1].location \notin {"local", "none"}}}]

ListedIds(n) == {streams[n][k].id : k \in DOMAIN streams[n]}
AllValid(n) == \A k \in DOMAIN streams[n] : SymbolValid(streams[n][k])

\* The sub-entries of a symbol, of one kind and in their order
Parts(entry, tag) ==
    LET kids == SelectSeq(entry.kids, LAMBDA k : k.tag = tag)
    IN  [n \in DOMAIN kids |-> [name |-> kids[n].name, ref |-> kids[n].ref]]

KnownTypes == {s \in DOMAIN fac.obj : fac.obj[s].tag # "variable"}

\* An empty structure stands, once parse() is done, for its only definition
Sized(name) == {s \in KnownTypes : /\ fac.obj[s].tag \in StructOrUnion
                                   /\ fac.obj[s].name = name
                                   /\ fac.obj[s].size > 0}
Meant(s) ==
    LET i == fac.obj[s]
        defs == {Own(fac.obj[t]) : t \in Sized(i.name)}
    IN  IF /\ main = "finished" /\ i.tag \in StructOrUnion
           /\ i.size = 0 /\ i.name # "" /\ Cardinality(defs) = 1
        THEN fac.obj[CHOOSE t \in Sized(i.name) : TRUE]
        ELSE i

\* The type as its declaration describes it, over the symbols known so far
RECURSIVE Declared(_)
Declared(s) ==
    LET ids == HashedIds(Meant(s)) IN
    IF \E n \in DOMAIN ids : ids[n] \notin KnownTypes \/ Declared(ids[n]) = NoHash
    THEN NoHash
    ELSE <<Own(Meant(s)), [n \in DOMAIN ids |-> Declared(ids[n])]>>

-----------------------------------------------------------------------------
(* Properties.                                                             *)

\* Each symbol reaches the factory with its own members and parameters and
\* no others, and of a file that was read to its end, and that the factory did
\* not object to, none is missing (finishLastSymbol(): where a scope ends is
\* only known by the offset of the next sibling); no ID of a file is mapped
\* twice, whatever the files of the other threads use (mapToInternalIds()).
SymbolsExact ==
    /\ \A n \in Files : \A e \in Input[n] :
          e[1].id \in DOMAIN fac.obj \ cut =>
              /\ e[1].id \in Expected[n]
              /\ fac.obj[e[1].id].members = Parts(e[1], "member")
              /\ fac.obj[e[1].id].params = Parts(e[1], "parameter")
    /\ \A n \in counted :
          ~interrupted /\ AllValid(n) => Expected[n] \cap ListedIds(n) \subseteq DOMAIN fac.obj
    /\ fac.remapped = {}

\* Whatever the order in which the threads add the symbols: a type is found
\* by its ID as soon as all it depends on is known, what it finds is the type
\* that was declared, and equal types are one object (addSymbol(),
\* updateTypeRelations(), postponedTypeResolved(), replaceType()).
TypesExact ==
    LET declared == [s \in KnownTypes |-> Declared(s)] IN
    /\ \A s \in KnownTypes :
          s \in DOMAIN fac.byId <=> declared[s] # NoHash \/ main = "finished"
    /\ \A s \in DOMAIN fac.byId :
          fac.byId[s] \notin fac.dead /\ declared[fac.byId[s]] = declared[s]
    /\ \A s, t \in DOMAIN fac.byId :
          declared[s] = declared[t] /\ declared[s] # NoHash => fac.byId[s] = fac.byId[t]

\* For a type that is completely known, the users the factory finds under its
\* ID and under the IDs that were merged into it are those that refer to it
\* (typesUsingId(), varsUsingId()). No deleted object is used again.
UsersExact ==
    /\ fac.touched = {} /\ fac.types \cap fac.dead = {}
    /\ \A t \in {t \in fac.types : Declared(t) # NoHash} :
           LET found == {e[2] : e \in {e \in fac.usedBy : e[1] \in EquivalentTypes(fac, t)}}
               To(users) == {u \in users : /\ Resolved(fac, RefTypeId(fac, u))
                                           /\ fac.byId[RefTypeId(fac, u)] = t}
               inTypes == {s \in fac.types : fac.obj[s].tag \in RefBaseTypes}
           IN  found = To({Type(s) : s \in inTypes}
                          \cup UNION {ParamsOf(fac, s) : s \in inTypes}
                          \cup UNION {MembersOf(fac, s) : s \in fac.types \ inTypes}
                          \cup {Variable(v) : v \in fac.vars})

\* Asserted by updateTypeRelations(): an ID is entered once only.
EnteredOnce == fac.doubled = {}

\* Asserted by finishLastSymbol(): the scope of a sub-entry is open.
ParentKnown == ~crashed
=============================================================================
