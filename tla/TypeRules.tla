----------------------------- MODULE TypeRules -----------------------------
(***************************************************************************)
(* Type rules: reading them from files (libinsight/typerulereader.cpp),    *)
(* finding the types they apply to and applying them to an instance        *)
(* (libinsight/typeruleengine.cpp), and the commands that change either    *)
(* the rules or the symbols (libinsight/kernelsymbols.cpp and the "rules"  *)
(* and "symbols" commands of insightd/shell.cpp).                          *)
(*                                                                         *)
(* A command runs to its end before the next one begins.  Reading files    *)
(* goes step by step, one per item; the other commands are one step each.  *)
(* What a command does is open in three ways: the user may interrupt it, a *)
(* file may turn out to be broken, and the symbols may be read in part.    *)
(***************************************************************************)
EXTENDS Integers, Sequences, FiniteSets, SequencesExt, FiniteSetsExt

CONSTANTS
    None,
    Content,    \* file -> sequence of its items: rules, and files to include
    Loads,      \* the lists of files that are given to "rules load"
    Rule,       \* rule -> for which OS, symbols and types: [os, needs, types]
    Tables,     \* what rules do: functions from rules to [prio, name, members, result]
    RefType,    \* kernel -> type ID -> the ID that a lexical type refers to, or None
    Queries,    \* member accesses, as sequences of [type, name, members]
    Cuts,       \* bound: what a broken "symbols load" or "parse" may have read
    MaxRules,   \* bound: no file is loaded once there are that many rules,
    MaxFiles    \* or the list of files has that many entries

Files == DOMAIN Content
Rules == DOMAIN Rule
Kernels == DOMAIN RefType
TypeIds == UNION {DOMAIN RefType[k] : k \in Kernels}

\* A rule is an object of its own: it stands in one place of one file.
ContentAssumption ==
    /\ Files \cap Rules = {} /\ None \notin Files
    /\ \A f \in Files : Content[f] \in Seq(Rules \cup Files)
    /\ \A f, g \in Files : \A m \in DOMAIN Content[f], n \in DOMAIN Content[g] :
         Content[f][m] \in Rules /\ Content[f][m] = Content[g][n] => f = g /\ m = n
    /\ Loads \subseteq Seq(Files)

ASSUME ContentAssumption

\* An action's result is never the value that stands for "no instance yet"
TablesAssumption ==
    /\ \A table \in Tables, r \in Rules :
         table[r].prio \in Int /\ table[r].result # None
    /\ \A levels \in Queries : /\ levels \in Seq(Range(levels))
                               /\ \A n \in DOMAIN levels : levels[n].type \in TypeIds

ASSUME TablesAssumption

TypesAssumption == IsFiniteSet(TypeIds)

ASSUME TypesAssumption

VARIABLES eng,      \* the rule engine
          reader,   \* the TypeRuleReader of a "rules load"
          symbols,  \* the factory's types, whose they are, and _memSpecs
          attached, \* Instance::_ruleEngine is set
          excused,  \* ghost: rules that a command left unchecked or took out
          torn,     \* ghost: files whose reading broke off
          broken    \* an index beyond the end of _hits was used

vars == <<eng, reader, symbols, attached, excused, torn, broken>>

EmptyEngine ==
    [rules  |-> <<>>,                         \* _rules: [rule, index], the index of
                                              \* its file in _ruleFiles
     files  |-> <<>>,                         \* _ruleFiles: names, or None if cleared
     hits   |-> <<>>,                         \* _hits, may be shorter than rules
     active |-> <<>>,                         \* _activeRules, by index
     listed |-> [t \in TypeIds |-> <<>>]]     \* _rulesPerType, latest first

IdleReader ==
    [busy  |-> FALSE,
     todo  |-> <<>>,   \* what is left of the command's list
     stack |-> <<>>,   \* _contexts and the current file, which is the last one:
                       \* [file, index, next], next is the item to be read next
     from  |-> 0]      \* how many rules there were before

NoSymbols(specs) == [kernel |-> None, types |-> {}, specs |-> specs]
Part(k, ids) == [kernel |-> k, types |-> ids \cap DOMAIN RefType[k], specs |-> k]
SymbolsOf(k) == Part(k, TypeIds)

Indexes == 1..Len(eng.rules)

\* fileAlreadyRead()
FilesRead == Range(eng.files) \ {None}

\* ruleFile(): the name at the rule's index, which an exception may have cleared
RuleFile(i) == eng.files[eng.rules[i].index]

-----------------------------------------------------------------------------
(* Reading.  One file is read while those that include it wait.  An         *)
(* exception ends the command.                                             *)

Top == reader.stack[Len(reader.stack)]
Waiting == {reader.stack[n].file : n \in DOMAIN reader.stack}

\* _fileIndex is that of the entry that indexForRuleFile() appends
Opened(file) == [file |-> file, index |-> Len(eng.files) + 1, next |-> 1]

\* A bug: the file is looked for only among those that are being read
MutOpen(file, rd) ==
    IF file \in Waiting
    THEN reader' = rd /\ UNCHANGED eng
    ELSE /\ eng' = [eng EXCEPT !.files = Append(@, file)]
         /\ reader' = [rd EXCEPT !.stack = Append(@, Opened(file))]

\* readFromRek(): a file is entered into the list before it is read, so that an
\* include of it ends at once
Open(file, rd) ==
    IF file \in FilesRead
    THEN reader' = rd /\ UNCHANGED eng
    ELSE /\ eng' = [eng EXCEPT !.files = Append(@, file)]
         /\ reader' = [rd EXCEPT !.stack = Append(@, Opened(file))]

\* The next file of the command
ReadNext ==
    /\ reader.busy /\ reader.stack = <<>> /\ reader.todo # <<>>
    /\ Open(Head(reader.todo), [reader EXCEPT !.todo = Tail(@)])
    /\ UNCHANGED <<symbols, attached, excused, torn, broken>>

\* The next item of the current file: appendRule() or includeRulesFile()
ReadItem ==
    /\ reader.busy /\ reader.stack # <<>>
    /\ Top.next <= Len(Content[Top.file])
    /\ LET item == Content[Top.file][Top.next]
           read == [reader EXCEPT !.stack[Len(reader.stack)].next = @ + 1]
       IN  IF item \in Files THEN Open(item, read)
           ELSE /\ eng' = [eng EXCEPT !.rules = Append(@, [rule |-> item, index |-> Top.index])]
                /\ reader' = read
    /\ UNCHANGED <<symbols, attached, excused, torn, broken>>

\* The context of the including file is restored
EndOfFile ==
    /\ reader.busy /\ reader.stack # <<>>
    /\ Top.next > Len(Content[Top.file])
    /\ reader' = [reader EXCEPT !.stack = Front(@)]
    /\ UNCHANGED <<eng, symbols, attached, excused, torn, broken>>

\* The file at which an exception may be thrown now: the current one, or the one
\* that is to be opened and does not exist or cannot be read
Breakable ==
    IF reader.stack # <<>>
    THEN {Top.file} \cup {Content[Top.file][n] : n \in {Top.next} \cap DOMAIN Content[Top.file]}
    ELSE {reader.todo[n] : n \in {1} \cap DOMAIN reader.todo}

\* TypeRuleEngine::readFrom() clears the name of that file, and of no other, in the
\* list.  The rules that were read remain, unchecked, with their indexes.
Break(file) ==
    /\ reader.busy /\ file \in Breakable \cap Files
    /\ eng' = [eng EXCEPT !.files = [n \in DOMAIN @ |-> IF @[n] = file THEN None ELSE @[n]]]
    /\ reader' = IdleReader
    /\ torn' = torn \cup ((Waiting \cup {file}) \cap FilesRead)
    /\ excused' = excused \cup reader.from + 1..Len(eng.rules)
    /\ UNCHANGED <<symbols, attached, broken>>

-----------------------------------------------------------------------------
(* Checking.                                                               *)

\* The type t and those it refers to, one through the other as long as types are
\* lexical ones, up to where a type is unknown or one of the given ones
LexicalTypes(s, t, given) ==
    LET types == s.types \ given
        Closed(S) == \A u \in S : LET ref == RefType[s.kernel][u]
                                 IN  ref \in types => ref \in S
    IN  IF t \notin types THEN {}
        ELSE {u \in types : \A S \in SUBSET types : t \in S /\ Closed(S) => u \in S}

\* The types that checkRule() finds for a rule, if it gets that far: the rule is
\* for this OS, and its action's types are known
MatchedTypes(s, r) ==
    IF s.types # {} /\ s.specs \in r.os /\ r.needs \subseteq s.types
    THEN s.types \cap r.types[s.kernel]
    ELSE {}

Listed(c, i) == {u \in TypeIds : i \in Range(c.listed[u])}

Insert(c, i, add) ==
    [listed |-> [u \in TypeIds |-> IF u \in add THEN <<i>> \o c.listed[u] ELSE c.listed[u]],
     hits   |-> c.hits + Cardinality(add)]

\* A bug: the rule is not looked for among those of the type
MutAddAllLexicalTypes(s, c, i, t) == Insert(c, i, LexicalTypes(s, t, {}))

\* addAllLexicalTypes(): up to the first type that the rule is listed for
AddAllLexicalTypes(s, c, i, t) == Insert(c, i, LexicalTypes(s, t, Listed(c, i)))

CheckRule(e, s, i) ==
    LET matched == SetToSeq(MatchedTypes(s, Rule[e.rules[i].rule]))
        add[n \in 0..Len(matched)] ==
            IF n = 0 THEN [listed |-> e.listed, hits |-> 0]
            ELSE AddAllLexicalTypes(s, add[n - 1], i, matched[n])
        done == add[Len(matched)]
    IN  IF done.hits = 0 THEN e
        ELSE [e EXCEPT !.listed = done.listed, !.hits[i] = done.hits,
                       !.active = Append(@, i)]

\* TypeRuleEngine::checkRules(): the rules after the first "from" ones, the last
\* one first, until the user interrupts: those up to "left" remain unchecked.
\* With from = 0 everything begins anew.
CheckRules(e, s, from, left) ==
    LET n == Len(e.rules)
        begun == IF from = 0
                 THEN [EmptyEngine EXCEPT !.rules = e.rules, !.files = e.files,
                                          !.hits = [i \in 1..n |-> 0]]
                 ELSE [e EXCEPT !.hits = [i \in 1..n |-> IF i <= Len(@) THEN @[i] ELSE 0]]
        check[k \in 0..n - left] ==
            IF k = 0 THEN begun ELSE CheckRule(check[k - 1], s, n + 1 - k)
    IN  IF s.types = {} THEN begun ELSE check[n - left]

\* KernelSymbols::checkRules()
CheckAndAttach(e, s, from, left) ==
    /\ eng' = CheckRules(e, s, from, left)
    /\ attached' = (eng'.active # <<>>)
    /\ excused' = (IF from = 0 THEN {} ELSE excused) \cup from + 1..left

-----------------------------------------------------------------------------
(* Applying.  A rule's result is what its action evaluates to: an instance, *)
(* an invalid one, or the request for the default handler.                  *)

NoMatch == [match |-> FALSE, ambiguous |-> FALSE, defer |-> FALSE,
            default |-> FALSE, prio |-> 0, new |-> None]

\* A bug: what was found at a lower priority remains ambiguous
MutEvaluated(m, r) ==
    LET value == IF r.result = "default" THEN "invalid" ELSE r.result
        higher == r.prio > m.prio
        already == m.match /\ ~higher
        differs == already /\ m.new \notin {None, value}
        known == m.new # None \/ value # "invalid"
        n == [m EXCEPT !.match = TRUE,
                       !.ambiguous = @ \/ differs,
                       !.default = @ /\ ~higher]
    IN  IF already THEN n
        ELSE IF r.result = "default" THEN [n EXCEPT !.prio = r.prio, !.default = TRUE]
        ELSE [n EXCEPT !.prio = r.prio, !.new = IF known THEN value ELSE None]

\* A rule whose fields are all given is evaluated.  m.new is *newInst: what it
\* points to is only overwritten by the first rule of a higher priority.
Evaluated(m, r) ==
    LET value == IF r.result = "default" THEN "invalid" ELSE r.result
        higher == r.prio > m.prio
        already == m.match /\ ~higher
        differs == already /\ m.new \notin {None, value}
        known == m.new # None \/ value # "invalid"
        n == [m EXCEPT !.match = TRUE,
                       !.ambiguous = ~higher /\ (@ \/ differs),
                       !.default = @ /\ ~higher]
    IN  IF already THEN n
        ELSE IF r.result = "default" THEN [n EXCEPT !.prio = r.prio, !.default = TRUE]
        ELSE [n EXCEPT !.prio = r.prio, !.new = IF known THEN value ELSE None]

NameMatches(r, q) == r.name \in {None, q.name}

\* One rule of the list: skipped, deferred, evaluated or neither
TryRule(m, r, q) ==
    LET decided == m.match /\ m.ambiguous
        considered == /\ ~(decided /\ m.defer /\ ~m.default /\ r.prio <= m.prio)
                      /\ m.match => r.prio >= m.prio
                      /\ NameMatches(r, q)
    IN  IF ~considered THEN m
        ELSE IF r.members = q.members /\ (~decided \/ r.prio > m.prio) THEN Evaluated(m, r)
        ELSE IF IsStrictPrefix(q.members, r.members) THEN [m EXCEPT !.defer = TRUE]
        ELSE m

\* TypeRuleEngine::match()
Match(table, q) ==
    LET list == eng.listed[q.type]
        try[n \in 0..Len(list)] ==
            IF n = 0 THEN NoMatch
            ELSE TryRule(try[n - 1], table[eng.rules[list[n]].rule], q)
        m == try[Len(list)]
    IN  IF m.new = "invalid" \/ m.default THEN [m EXCEPT !.new = None] ELSE m

\* Instance::typeRuleMatchRek(): the outermost parent first
MatchRek(table, levels) ==
    LET try[n \in 0..Len(levels)] ==
            IF n = 0 THEN NoMatch
            ELSE IF try[n - 1].match THEN try[n - 1]
            ELSE [Match(table, levels[n]) EXCEPT !.defer = @ \/ try[n - 1].defer]
    IN  try[Len(levels)]

\* TypeRuleEngine::useMatchedInst()
UseMatchedInst(m) == m.match /\ ~m.ambiguous /\ ~m.default

-----------------------------------------------------------------------------
(* Commands.                                                               *)

Init ==
    /\ eng = EmptyEngine
    /\ reader = IdleReader
    /\ symbols = NoSymbols(None)
    /\ attached = FALSE
    /\ excused = {} /\ torn = {}
    /\ broken = FALSE

\* No other command runs
Ready == ~broken /\ ~reader.busy

\* "rules load": KernelSymbols::loadRules()
LoadRules(files) ==
    /\ Ready /\ Len(eng.rules) < MaxRules /\ Len(eng.files) < MaxFiles
    /\ reader' = [busy |-> TRUE, todo |-> files, stack |-> <<>>, from |-> Len(eng.rules)]
    /\ UNCHANGED <<eng, symbols, attached, excused, torn, broken>>

\* All files are read, and the new rules are checked
RulesLoaded ==
    /\ reader.busy /\ reader.stack = <<>> /\ reader.todo = <<>>
    /\ reader' = IdleReader
    /\ \E left \in reader.from..Len(eng.rules) :
         /\ symbols.types = {} => left = reader.from
         /\ CheckAndAttach(eng, symbols, reader.from, left)
    /\ UNCHANGED <<symbols, torn, broken>>

\* "rules flush", "rules load -f"
FlushRules ==
    /\ Ready
    /\ eng' = EmptyEngine
    /\ attached' = FALSE
    /\ excused' = {} /\ torn' = {}
    /\ UNCHANGED <<reader, symbols, broken>>

\* "rules enable": setActive() reads and writes _hits at the rule's index.  The
\* rule is checked, the engine is not attached.
SetActive(i) ==
    /\ Ready
    /\ i \in Indexes
    /\ IF i > Len(eng.hits)
       THEN broken' = TRUE /\ UNCHANGED <<eng, excused>>
       ELSE /\ eng.hits[i] = 0
            /\ eng' = CheckRule(eng, symbols, i)
            /\ excused' = excused \ {i}
            /\ UNCHANGED broken
    /\ UNCHANGED <<reader, symbols, attached, torn>>

\* A list without the rule i
Erase(list, i) ==
    LET kept[n \in 0..Len(list)] ==
            IF n = 0 THEN <<>>
            ELSE IF list[n] = i THEN kept[n - 1] ELSE Append(kept[n - 1], list[n])
    IN  kept[Len(list)]

\* "rules disable"
SetInactive(i) ==
    /\ Ready
    /\ i \in Range(eng.active)
    /\ eng' = [eng EXCEPT !.active = Erase(@, i), !.hits[i] = 0,
                          !.listed = [t \in TypeIds |-> Erase(eng.listed[t], i)]]
    /\ excused' = excused \cup {i}
    /\ UNCHANGED <<reader, symbols, attached, torn, broken>>

\* "symbols load": the rules are checked again
LoadSymbols(k) ==
    /\ Ready
    /\ symbols' = SymbolsOf(k)
    /\ \E left \in 0..Len(eng.rules) : CheckAndAttach(eng, symbols', 0, left)
    /\ UNCHANGED <<reader, torn, broken>>

\* The user interrupts, or the file breaks off: an exception leaves what was
\* read.  Either way the rules are not checked, and not detached.
LoadSymbolsFails(k) ==
    /\ Ready
    /\ symbols' \in {NoSymbols(None), NoSymbols(k)} \cup {Part(k, ids) : ids \in Cuts}
    /\ excused' = Indexes
    /\ UNCHANGED <<reader, eng, attached, torn, broken>>

\* "symbols parse": the rules are checked when the memory specifications are
\* known, that is before there is a symbol; of these any number may follow
ParseSymbols(k) ==
    /\ Ready
    /\ CheckAndAttach(eng, NoSymbols(k), 0, Len(eng.rules))
    /\ symbols' \in {NoSymbols(k), SymbolsOf(k)} \cup {Part(k, ids) : ids \in Cuts}
    /\ UNCHANGED <<reader, torn, broken>>

\* The kernel's specifications cannot be determined
ParseSpecsFails ==
    /\ Ready
    /\ symbols' = NoSymbols(symbols.specs)
    /\ excused' = Indexes
    /\ UNCHANGED <<reader, eng, attached, torn, broken>>

Next ==
    \/ \E files \in Loads : LoadRules(files)
    \/ ReadNext \/ ReadItem \/ EndOfFile \/ RulesLoaded
    \/ \E file \in Files : Break(file)
    \/ FlushRules
    \/ \E i \in Indexes : SetActive(i) \/ SetInactive(i)
    \/ \E k \in Kernels : LoadSymbols(k) \/ LoadSymbolsFails(k) \/ ParseSymbols(k)
    \/ ParseSpecsFails

Spec == Init /\ [][Next]_vars

-----------------------------------------------------------------------------
(* Properties.                                                             *)

RulesOf(file) == Range(Content[file]) \cap Rules
CopiesOf(rule) == {i \in Indexes : eng.rules[i].rule = rule}

\* Asked for its file, rule i gives f, or nothing if the name was cleared
Names(i, f) == RuleFile(i) \in IF f \in torn THEN {f, None} ELSE {f}

\* A file that was read without a break gave each of its rules once, however
\* often and in however roundabout a way it is included; a file that was not
\* read gave none; and the name that a rule's index finds is that of the file the
\* rule is from, or none if reading that file broke off, whatever was read before
\* and since.
FilesExact ==
    /\ \A f \in Files \ (torn \cup Waiting) : \A r \in RulesOf(f) :
         IF f \in FilesRead THEN \E i \in Indexes : CopiesOf(r) = {i}
                           ELSE CopiesOf(r) = {}
    /\ \A i \in Indexes :
         /\ eng.rules[i].index \in DOMAIN eng.files
         /\ \E f \in Files : eng.rules[i].rule \in RulesOf(f) /\ Names(i, f)

\* What a check of all rules for the present symbols would list rule i for
Expected(i) ==
    UNION {LexicalTypes(symbols, t, {}) :
             t \in MatchedTypes(symbols, Rule[eng.rules[i].rule])}

\* The rules that a "rules load" has read and not checked yet
Pending == IF reader.busy THEN reader.from + 1..Len(eng.rules) ELSE {}

\* Whatever was loaded in which pieces, enabled, disabled or interrupted: a rule
\* is active exactly if it is listed for some type, as often as it has hits and
\* once for a type; and unless a command left it out it is listed for the very
\* types that a check of all rules for the present symbols would list it for.
RulesExact ==
    /\ Len(eng.hits) <= Len(eng.rules)
    /\ IsInjective(eng.active)
    /\ \A t \in TypeIds : IsInjective(eng.listed[t])
    /\ \A i \in Indexes :
         LET types == Listed(eng, i)
         IN  /\ i \in Range(eng.active) <=> types # {}
             /\ IF i <= Len(eng.hits) THEN eng.hits[i] = Cardinality(types)
                ELSE types = {}
             /\ i \notin excused \cup Pending => types = Expected(i)

\* The rules of a level that have all their fields given, and those that lack some
Complete(table, q) == {table[eng.rules[i].rule] : i \in
                  {j \in Range(eng.listed[q.type]) :
                     LET r == table[eng.rules[j].rule]
                     IN  NameMatches(r, q) /\ r.members = q.members}}
Longer(table, q) == {table[eng.rules[i].rule] : i \in
                {j \in Range(eng.listed[q.type]) :
                   LET r == table[eng.rules[j].rule]
                   IN  NameMatches(r, q) /\ IsStrictPrefix(q.members, r.members)}}

\* Whatever the order of the rules in the list, an access is decided by the
\* complete rules of the highest priority, at the outermost instance that has
\* any.  If they agree, their result is used (that of several default handlers may
\* be called ambiguous); an instance is used only if they all agree on it;
\* instances that differ are ambiguous, unless one of the rules gave none, which
\* may hide it.  That a longer rule may follow is said only if there is one, and
\* always if its priority suffices.
MatchExact ==
    \A table \in Tables, levels \in Queries :
        LET m == MatchRek(table, levels)
            full == {n \in DOMAIN levels : Complete(table, levels[n]) # {}}
            q == levels[Min(full)]
            prio == Max({r.prio : r \in Complete(table, q)})
            results == {r.result : r \in {c \in Complete(table, q) : c.prio = prio}}
            none == {"default", "invalid"}
            seen == IF full = {} THEN DOMAIN levels ELSE 1..Min(full)
        IN
        /\ m.match <=> full # {}
        /\ full # {} =>
             /\ m.prio = prio
             /\ \A x \in results : results = {x} =>
                  /\ x # "default" => ~m.ambiguous
                  /\ m.default <=> x = "default"
                  /\ m.new = IF x \in none THEN None ELSE x
             /\ UseMatchedInst(m) /\ m.new # None => results = {m.new}
             /\ (\E x, y \in results : x # y) /\ results \cap none = {} => m.ambiguous
             /\ m.default => "default" \in results
        /\ m.defer => \E n \in seen : Longer(table, levels[n]) # {}
        /\ (\E n \in seen : \E r \in Longer(table, levels[n]) :
              n \in full => r.prio >= prio) => m.defer

(* What the code does not keep, for whoever wants to see how.              *)

\* "rules enable" finds room for the rule's hits
HitsComplete == ~broken

\* Active rules are applied
Effective == eng.active # <<>> => attached
=============================================================================
