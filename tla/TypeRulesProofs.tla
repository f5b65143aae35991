-------------------------- MODULE TypeRulesProofs --------------------------
(***************************************************************************)
(* Proofs about the type rules: what reading files in pieces, checks in    *)
(* pieces, enabling and disabling keep (FilesExact, RulesExact), and what  *)
(* an access yields whatever the order of the rules (MatchExact).          *)
(***************************************************************************)
EXTENDS TypeRules, FiniteSetTheorems, WellFoundedInduction, TLAPS

(* A set of natural numbers that is not empty has a least member. *)
LEMMA Least ==
  ASSUME NEW S, S \subseteq Nat, S # {}
  PROVE  \E x \in S : \A y \in S : x <= y
<1> DEFINE R == OpToRel(<, Nat)
<1>1. IsWellFoundedOn(R, Nat)
  BY NatLessThanWellFounded
<1>2. \A x, y \in Nat : x < y => <<x, y>> \in R
  BY DEF OpToRel
<1> HIDE DEF R
<1>3. PICK x \in S : \A y \in S : <<y, x>> \notin R
  BY <1>1, WFMin
<1>4. \A y \in S : ~(y < x)
  BY <1>2, <1>3
<1>5. \A y \in S : x <= y
  BY <1>4
<1> QED  BY <1>5

(* A set that has the first number, and with each number the next one, has all
   up to a bound: what the proofs about the loops of the engine need. *)
LEMMA Stepwise ==
  ASSUME NEW L \in Nat, NEW G, 0 \in G,
         \A n \in 1 .. L : n - 1 \in G => n \in G
  PROVE  0 .. L \subseteq G
<1> DEFINE B == {n \in 0 .. L : n \notin G}
<1>1. SUFFICES ASSUME B # {} PROVE FALSE
  OBVIOUS
<1>2. B \subseteq Nat
  OBVIOUS
<1>3. PICK n \in B : \A m \in B : n <= m
  BY <1>1, <1>2, Least
<1>4. n \in 0 .. L /\ n # 0
  OBVIOUS
<1>5. n - 1 \in 0 .. L /\ ~(n <= n - 1)
  BY <1>4
<1>6. n - 1 \in G
  BY <1>3, <1>5
<1> QED  BY <1>3, <1>4, <1>6

(* A loop: the results of the first n rounds. *)
Rounds(L, base, step, f) ==
  f = [n \in 0 .. L |-> IF n = 0 THEN base ELSE step[<<n, f[n - 1]>>]]

(* Whatever one round does, all rounds can be done. *)
LEMMA RoundsExist ==
  ASSUME NEW L \in Nat, NEW S, NEW base \in S, NEW step \in [(1 .. L) \X S -> S]
  PROVE  \E f \in [0 .. L -> S] : Rounds(L, base, step, f)
<1> DEFINE G == {n \in 0 .. L : \E f \in [0 .. n -> S] : Rounds(n, base, step, f)}
<1>1. 0 \in G
  <2> DEFINE f == [n \in 0 .. 0 |-> base]
  <2>1. f \in [0 .. 0 -> S]
    OBVIOUS
  <2>2. Rounds(0, base, step, f)
    <3>1. f = [n \in 0 .. 0 |-> IF n = 0 THEN base ELSE step[<<n, f[n - 1]>>]]
      OBVIOUS
    <3> QED  BY <3>1 DEF Rounds
  <2> QED  BY <2>1, <2>2
<1>2. ASSUME NEW n \in 1 .. L, n - 1 \in G PROVE n \in G
  <2>1. PICK m \in Nat : m = n - 1
    OBVIOUS
  <2>2. PICK f \in [0 .. m -> S] : Rounds(m, base, step, f)
    BY <1>2, <2>1
  <2>3. PICK y \in S : y = step[<<n, f[m]>>]
    <3>1. f[m] \in S
      BY <2>1, <2>2
    <3> QED  BY <3>1
  <2> DEFINE g == [k \in 0 .. n |-> IF k = n THEN y ELSE f[k]]
  <2>4. \A k \in 0 .. n : k = n \/ k \in 0 .. m
    BY <2>1
  <2>5. g \in [0 .. n -> S]
    BY <2>4
  <2>6. \A k \in 0 .. m : f[k] = IF k = 0 THEN base ELSE step[<<k, f[k - 1]>>]
    BY <2>2, Zenon DEF Rounds
  <2>7. ASSUME NEW k \in 0 .. n
        PROVE  g[k] = IF k = 0 THEN base ELSE step[<<k, g[k - 1]>>]
    <3>1. CASE k = n
      <4>1. k # 0 /\ g[k] = y /\ g[k - 1] = f[m]
        BY <2>1, <3>1
      <4> QED  BY <2>3, <3>1, <4>1
    <3>2. CASE k # n
      <4>1. k \in 0 .. m /\ g[k] = f[k] /\ (k # 0 => g[k - 1] = f[k - 1])
        BY <2>1, <2>4, <3>2
      <4> QED  BY <2>6, <4>1
    <3> QED  BY <3>1, <3>2
  <2>8. Rounds(n, base, step, g)
    BY <2>7 DEF Rounds
  <2> QED  BY <2>5, <2>8
<1>3. 0 .. L \subseteq G
  <2> HIDE DEF G
  <2> QED  BY <1>1, <1>2, Stepwise
<1>4. L \in G
  BY <1>3
<1> QED  BY <1>4

-----------------------------------------------------------------------------
(* Sequences.                                                               *)

LEMMA RangeHas ==
  ASSUME NEW S, NEW s \in Seq(S)
  PROVE  /\ Range(s) = {s[n] : n \in 1 .. Len(s)}
         /\ Range(s) \subseteq S
BY DEF Range

LEMMA RangeOfAppend ==
  ASSUME NEW S, NEW s \in Seq(S), NEW x \in S
  PROVE  Append(s, x) \in Seq(S) /\ Range(Append(s, x)) = Range(s) \cup {x}
<1> DEFINE r == Append(s, x)
<1>1. r \in Seq(S) /\ Len(r) = Len(s) + 1 /\ r[Len(s) + 1] = x
  OBVIOUS
<1>2. \A n \in 1 .. Len(s) : r[n] = s[n]
  OBVIOUS
<1>3. \A n \in 1 .. Len(r) : n \in 1 .. Len(s) \/ n = Len(s) + 1
  BY <1>1
<1> HIDE DEF r
<1>4. Range(s) = {s[n] : n \in 1 .. Len(s)} /\ Range(r) = {r[n] : n \in 1 .. Len(r)}
  BY <1>1, RangeHas
<1>5. 1 .. Len(s) \subseteq 1 .. Len(r) /\ Len(s) + 1 \in 1 .. Len(r)
  BY <1>1
<1>6. Range(r) \subseteq Range(s) \cup {x}
  BY <1>1, <1>2, <1>3, <1>4
<1>7. Range(s) \cup {x} \subseteq Range(r)
  BY <1>1, <1>2, <1>4, <1>5
<1> QED  BY <1>1, <1>6, <1>7 DEF r

LEMMA OnceAppended ==
  ASSUME NEW S, NEW s \in Seq(S), NEW x \in S, IsInjective(s), x \notin Range(s)
  PROVE  IsInjective(Append(s, x))
<1>0. PICK r : r = Append(s, x)
  OBVIOUS
<1>1. r \in Seq(S) /\ DOMAIN r = 1 .. Len(s) + 1 /\ r[Len(s) + 1] = x
  BY <1>0
<1>2. \A n \in 1 .. Len(s) : r[n] = s[n] /\ s[n] # x
  BY <1>0 DEF Range
<1>3. \A a, b \in 1 .. Len(s) : s[a] = s[b] => a = b
  BY DEF IsInjective
<1>4. \A a, b \in DOMAIN r : r[a] = r[b] => a = b
  <2> TAKE a, b \in DOMAIN r
  <2>1. (a \in 1 .. Len(s) \/ a = Len(s) + 1) /\ (b \in 1 .. Len(s) \/ b = Len(s) + 1)
    BY <1>1
  <2> QED  BY <1>1, <1>2, <1>3, <2>1
<1>5. IsInjective(r)
  BY <1>4 DEF IsInjective
<1>6. IsInjective(Append(s, x))
  BY <1>0, <1>5
<1> QED  BY <1>6

(* A new first element. *)
LEMMA Prepended ==
  ASSUME NEW S, NEW s \in Seq(S), NEW x \in S
  PROVE  /\ <<x>> \o s \in Seq(S)
         /\ Range(<<x>> \o s) = {x} \cup Range(s)
         /\ x \notin Range(s) /\ IsInjective(s) => IsInjective(<<x>> \o s)
<1> DEFINE r == <<x>> \o s
<1>1. r \in Seq(S) /\ DOMAIN r = 1 .. Len(s) + 1 /\ Len(r) = Len(s) + 1 /\ r[1] = x
  OBVIOUS
<1>2. \A n \in 1 .. Len(s) : r[n + 1] = s[n]
  OBVIOUS
<1> HIDE DEF r
<1>3. \A n \in DOMAIN r : n = 1 \/ \E m \in 1 .. Len(s) : n = m + 1
  <2> TAKE n \in DOMAIN r
  <2>1. n = 1 \/ (n - 1 \in 1 .. Len(s) /\ n = (n - 1) + 1)
    BY <1>1
  <2> QED  BY <2>1
<1>4. \A n \in 1 .. Len(s) : n + 1 \in DOMAIN r
  BY <1>1
<1>5. 1 \in DOMAIN r /\ DOMAIN s = 1 .. Len(s)
  BY <1>1
<1>6. Range(r) = {x} \cup Range(s)
  <2>1. \A y \in Range(r) : y = x \/ y \in Range(s)
    BY <1>1, <1>2, <1>3, <1>5 DEF Range
  <2>2. \A y \in Range(s) : y \in Range(r)
    <3> TAKE y \in Range(s)
    <3>1. PICK n \in 1 .. Len(s) : y = s[n]
      BY <1>5 DEF Range
    <3>2. y = r[n + 1] /\ n + 1 \in DOMAIN r
      BY <1>2, <1>4, <3>1
    <3> QED  BY <3>2 DEF Range
  <2>3. x \in Range(r)
    BY <1>1, <1>5 DEF Range
  <2> QED  BY <2>1, <2>2, <2>3
<1>7. ASSUME x \notin Range(s), IsInjective(s) PROVE IsInjective(r)
  <2>1. \A n \in 1 .. Len(s) : s[n] # x
    BY <1>5, <1>7 DEF Range
  <2>2. \A a, b \in 1 .. Len(s) : s[a] = s[b] => a = b
    BY <1>5, <1>7 DEF IsInjective
  <2>3. \A a, b \in DOMAIN r : r[a] = r[b] => a = b
    <3> TAKE a, b \in DOMAIN r
    <3>1. (a = 1 \/ \E m \in 1 .. Len(s) : a = m + 1) /\ (b = 1 \/ \E m \in 1 .. Len(s) : b = m + 1)
      BY <1>3
    <3> QED  BY SMTT(30), <1>1, <1>2, <2>1, <2>2, <3>1
  <2> QED  BY <2>3 DEF IsInjective
<1> QED  BY <1>1, <1>6, <1>7 DEF r

(* The members of a finite set in some order. *)
LEMMA SetToSeqIs ==
  ASSUME NEW S, IsFiniteSet(S)
  PROVE  /\ SetToSeq(S) \in Seq(S)
         /\ Range(SetToSeq(S)) = S
<1> DEFINE c == Cardinality(S)
           F == [1 .. c -> S]
<1>1. c \in Nat /\ \E f \in F : IsInjective(f)
  BY FS_CardinalityType DEF ExistsBijection, Bijection, Injection
<1>2. SetToSeq(S) \in F /\ IsInjective(SetToSeq(S))
  BY <1>1, Zenon DEF SetToSeq
<1>3. PICK f : f = SetToSeq(S)
  OBVIOUS
<1>4. f \in Injection(1 .. c, S)
  BY <1>2, <1>3 DEF Injection
<1>5. Cardinality(1 .. c) = c
  <2>1. c >= 0 /\ 1 \in Int /\ c \in Int
    BY <1>1
  <2>2. Cardinality(1 .. c) = IF 1 > c THEN 0 ELSE c - 1 + 1
    BY <2>1, FS_Interval
  <2> QED  BY <1>1, <2>2
<1>6. f \in Surjection(1 .. c, S)
  BY <1>4, <1>5, FS_Injection
<1>7. f \in Seq(S) /\ DOMAIN f = 1 .. c
  BY <1>1, <1>2, <1>3
<1>8. \A x \in S : \E n \in 1 .. c : f[n] = x
  BY <1>6, <1>7 DEF Surjection
<1>9. Range(f) = S
  BY <1>2, <1>3, <1>7, <1>8 DEF Range
<1> QED  BY <1>3, <1>7, <1>9
-----------------------------------------------------------------------------
(* The inductive invariant.                                                 *)

Engine ==
    [rules : Seq([rule : Rules, index : Nat]), files : Seq(Files \cup {None}),
     hits : Seq(Nat), active : Seq(Nat), listed : [TypeIds -> Seq(Nat)]]

Readers ==
    [busy : BOOLEAN, todo : Seq(Files), stack : Seq([file : Files, index : Nat, next : Nat]), from : Nat]

\* The types that a check lists a rule for
Wanted(s, rule) == UNION {LexicalTypes(s, t, {}) : t \in MatchedTypes(s, Rule[rule])}

\* Rules are listed and active as their hits tell
Consistent(e) ==
    /\ Len(e.hits) <= Len(e.rules)
    /\ Range(e.active) \subseteq DOMAIN e.hits /\ IsInjective(e.active)
    /\ \A t \in TypeIds : Range(e.listed[t]) \subseteq DOMAIN e.hits /\ IsInjective(e.listed[t])
    /\ \A i \in DOMAIN e.hits : /\ e.hits[i] = Cardinality(Listed(e, i))
                                /\ i \in Range(e.active) <=> Listed(e, i) # {}

\* All rules but some are listed as the symbols want it
Agrees(e, s, except) ==
    \A i \in DOMAIN e.rules \ except : Listed(e, i) = Wanted(s, e.rules[i].rule)

\* The n-th item of a file has been read
HasRead(f, n) ==
    /\ f \in FilesRead
    /\ \A k \in DOMAIN reader.stack : reader.stack[k].file = f => n < reader.stack[k].next

RulesOnce ==
    \A f \in Files \ torn : \A n \in DOMAIN Content[f] :
        Content[f][n] \in Rules =>
          IF HasRead(f, n) THEN \E i \in Indexes : CopiesOf(Content[f][n]) = {i}
                           ELSE CopiesOf(Content[f][n]) = {}

RulesNamed ==
    \A i \in Indexes :
      /\ eng.rules[i].index \in DOMAIN eng.files
      /\ \E f \in Files : eng.rules[i].rule \in RulesOf(f) /\ Names(i, f)

Nested ==
    /\ \A k \in DOMAIN reader.stack :
         /\ reader.stack[k].file \in FilesRead
         /\ reader.stack[k].index \in DOMAIN eng.files
         /\ eng.files[reader.stack[k].index] = reader.stack[k].file
         /\ reader.stack[k].next \in 1..Len(Content[reader.stack[k].file]) + 1
    /\ \A k, l \in DOMAIN reader.stack : reader.stack[k].file = reader.stack[l].file => k = l
    /\ reader.busy => Len(eng.hits) <= reader.from /\ reader.from <= Len(eng.rules)
    /\ ~reader.busy => reader = IdleReader

TypeOK ==
    /\ eng \in Engine
    /\ reader \in Readers
    /\ symbols.types \subseteq TypeIds

IInv ==
    /\ TypeOK
    /\ Consistent(eng) /\ Agrees(eng, symbols, excused \cup Pending)
    /\ Nested /\ RulesOnce /\ RulesNamed
-----------------------------------------------------------------------------
(* The types that a rule is listed for.                                     *)

\* A set of known types that has what its types refer to
Followed(s, D) ==
    /\ D \subseteq s.types
    /\ \A u \in D : RefType[s.kernel][u] \in s.types => RefType[s.kernel][u] \in D

LEMMA LexicalFollowed ==
  ASSUME NEW s, NEW t
  PROVE  Followed(s, LexicalTypes(s, t, {}))
<1> DEFINE next(u) == RefType[s.kernel][u]
           Closed(S) == \A u \in S : next(u) \in s.types => next(u) \in S
           L == LexicalTypes(s, t, {})
<1>1. s.types \ {} = s.types
  OBVIOUS
<1>2. CASE t \notin s.types
  BY <1>2, Zenon DEF LexicalTypes, Followed
<1>3. CASE t \in s.types
  <2>1. L = {u \in s.types : \A S \in SUBSET s.types : t \in S /\ Closed(S) => u \in S}
    BY <1>1, <1>3, Zenon DEF LexicalTypes
  <2> HIDE DEF L
  <2>2. ASSUME NEW u \in L, next(u) \in s.types PROVE next(u) \in L
    <3>1. ASSUME NEW S \in SUBSET s.types, t \in S, Closed(S) PROVE next(u) \in S
      BY <2>1, <2>2, <3>1
    <3> QED  BY <2>1, <2>2, <3>1
  <2>3. L \subseteq s.types
    BY <2>1
  <2> QED  BY <2>2, <2>3 DEF Followed, L
<1> QED  BY <1>2, <1>3

(* Once a rule is listed for a type it is so for all that follow: whoever stops
   there gets the same types in the end. *)
LEMMA LexicalRest ==
  ASSUME NEW s, NEW t, NEW D, Followed(s, D)
  PROVE  /\ D \cup LexicalTypes(s, t, D) = D \cup LexicalTypes(s, t, {})
         /\ D \cap LexicalTypes(s, t, D) = {}
<1> DEFINE next(u) == RefType[s.kernel][u]
           Closed(T, S) == \A u \in S : next(u) \in T => next(u) \in S
           Reached(T) == {u \in T : \A S \in SUBSET T : t \in S /\ Closed(T, S) => u \in S}
           A == s.types
           B == s.types \ D
<1>1. A \ {} = A
  OBVIOUS
<1>2. D \subseteq A /\ \A u \in D : next(u) \in A => next(u) \in D
  BY DEF Followed
<1>3. LexicalTypes(s, t, {}) = IF t \notin A THEN {} ELSE Reached(A)
  BY <1>1, Zenon DEF LexicalTypes
<1>4. LexicalTypes(s, t, D) = IF t \notin B THEN {} ELSE Reached(B)
  BY Zenon DEF LexicalTypes
<1>5. D \cap LexicalTypes(s, t, D) = {}
  BY <1>4
<1>6. ASSUME NEW u \in LexicalTypes(s, t, {}), u \notin D PROVE u \in LexicalTypes(s, t, D)
  <2>1. t \in A /\ u \in Reached(A)
    BY <1>3, <1>6
  <2>2. t \notin D
    <3>1. Closed(A, D)
      BY <1>2
    <3> QED  BY <1>2, <1>6, <2>1, <3>1
  <2>3. ASSUME NEW S \in SUBSET B, t \in S, Closed(B, S) PROVE u \in S
    <3> DEFINE R == S \cup D
    <3>1. R \in SUBSET A /\ t \in R
      BY <1>2, <2>3
    <3>2. Closed(A, R)
      <4> SUFFICES ASSUME NEW v \in R, next(v) \in A PROVE next(v) \in R
        OBVIOUS
      <4>1. CASE v \in D
        BY <1>2, <4>1
      <4>2. CASE v \in S /\ next(v) \notin D
        BY <2>3, <4>2
      <4> QED  BY <4>1, <4>2
    <3>3. u \in R
      <4> HIDE DEF R, Closed
      <4> QED  BY <2>1, <3>1, <3>2
    <3> QED  BY <1>6, <3>3
  <2>4. t \in B /\ u \in B
    BY <1>6, <2>1, <2>2
  <2> QED  BY <1>4, <2>3, <2>4
<1>7. ASSUME NEW u \in LexicalTypes(s, t, D) PROVE u \in LexicalTypes(s, t, {})
  <2>1. t \in B /\ u \in Reached(B)
    BY <1>4, <1>7
  <2>2. ASSUME NEW S \in SUBSET A, t \in S, Closed(A, S) PROVE u \in S
    <3> DEFINE R == S \ D
    <3>1. R \in SUBSET B /\ t \in R
      BY <2>1, <2>2
    <3>2. Closed(B, R)
      BY <2>2
    <3>3. u \in R
      <4> HIDE DEF R, Closed
      <4> QED  BY <2>1, <3>1, <3>2
    <3> QED  BY <3>3
  <2>3. t \in A /\ u \in A
    BY <2>1
  <2> QED  BY <1>3, <2>2, <2>3
<1>8. LexicalTypes(s, t, D) \subseteq LexicalTypes(s, t, {})
  BY <1>7
<1>9. LexicalTypes(s, t, {}) \subseteq D \cup LexicalTypes(s, t, D)
  BY <1>6
<1> QED  BY <1>5, <1>8, <1>9
-----------------------------------------------------------------------------
(* Checking one rule.                                                       *)

Counts == [listed : [TypeIds -> Seq(Nat)], hits : Nat]

LEMMA ListedAfterInsert ==
  ASSUME NEW c \in Counts, NEW i \in Nat, NEW D, D \subseteq TypeIds
  PROVE  /\ Insert(c, i, D).listed \in [TypeIds -> Seq(Nat)]
         /\ Listed(c, i) = {} => Listed(Insert(c, i, D), i) = D
         /\ \A j : j # i => Listed(Insert(c, i, D), j) = Listed(c, j)
<1>1. PICK f : f = Insert(c, i, D).listed
  OBVIOUS
<1>2. f = [u \in TypeIds |-> IF u \in D THEN <<i>> \o c.listed[u] ELSE c.listed[u]]
  BY <1>1 DEF Insert
<1>3. c.listed \in [TypeIds -> Seq(Nat)]
  BY DEF Counts
<1>4. \A u \in TypeIds : <<i>> \o c.listed[u] \in Seq(Nat) /\ Range(<<i>> \o c.listed[u]) = {i} \cup Range(c.listed[u])
  BY <1>3, Prepended
<1>5. f \in [TypeIds -> Seq(Nat)]
  BY <1>2, <1>3, <1>4
<1>6. \A u \in TypeIds : Range(f[u]) = IF u \in D THEN {i} \cup Range(c.listed[u]) ELSE Range(c.listed[u])
  BY <1>2, <1>4
<1>7. \A j : Listed(Insert(c, i, D), j) = {u \in TypeIds : j \in Range(f[u])}
  BY <1>1 DEF Listed
<1>8. \A j : Listed(c, j) = {u \in TypeIds : j \in Range(c.listed[u])}
  BY DEF Listed
<1>9. ASSUME Listed(c, i) = {} PROVE Listed(Insert(c, i, D), i) = D
  <2>1. \A u \in TypeIds : i \in Range(f[u]) <=> i \in Range(c.listed[u]) \/ u \in D
    BY <1>6
  <2>2. \A u \in TypeIds : i \notin Range(c.listed[u])
    BY <1>8, <1>9
  <2> QED  BY <1>7, <2>1, <2>2
<1>10. ASSUME NEW j, j # i PROVE Listed(Insert(c, i, D), j) = Listed(c, j)
  <2>1. \A u \in TypeIds : j \in Range(f[u]) <=> j \in Range(c.listed[u])
    BY <1>6, <1>10
  <2> QED  BY <1>7, <1>8, <2>1
<1> QED  BY <1>1, <1>5, <1>9, <1>10

Grown(s, D, t) == D \cup LexicalTypes(s, t, {})

\* The rule i is listed for no type yet
Fresh(c, i) == c \in Counts /\ i \in Nat /\ Listed(c, i) = {} /\ c.hits = 0

LEMMA InsertMore ==
  ASSUME NEW s, s.types \subseteq TypeIds, NEW c, NEW i, Fresh(c, i), NEW D, Followed(s, D), NEW t
  PROVE  AddAllLexicalTypes(s, Insert(c, i, D), i, t) = Insert(c, i, Grown(s, D, t))
<1>0. c \in Counts /\ i \in Nat /\ Listed(c, i) = {} /\ c.hits = 0
  BY DEF Fresh
<1>1. D \subseteq TypeIds
  BY DEF Followed
<1>2. PICK b : b = Insert(c, i, D)
  OBVIOUS
<1>3. Listed(b, i) = D
  <2>1. Listed(Insert(c, i, D), i) = D
    BY <1>0, <1>1, ListedAfterInsert
  <2> QED  BY <1>0, <1>2, <2>1
<1>4. PICK E : E = LexicalTypes(s, t, D)
  OBVIOUS
<1>5. D \cup E = D \cup LexicalTypes(s, t, {}) /\ D \cap E = {}
  BY <1>4, LexicalRest
<1>6. E \subseteq TypeIds
  <2>1. LexicalTypes(s, t, {}) \subseteq s.types
    BY LexicalFollowed DEF Followed
  <2> QED  BY <1>5, <2>1
<1>7. IsFiniteSet(D) /\ IsFiniteSet(E) /\ Cardinality(D) \in Nat /\ Cardinality(E) \in Nat
  BY <1>1, <1>6, TypesAssumption, FS_Subset, FS_CardinalityType DEF TypesAssumption
<1>8. Cardinality(D \cup E) = Cardinality(D) + Cardinality(E)
  BY <1>5, <1>7, FS_Union, FS_EmptySet
<1>9. AddAllLexicalTypes(s, b, i, t) = Insert(b, i, E)
  BY <1>3, <1>4 DEF AddAllLexicalTypes
<1>10. b.hits = Cardinality(D) /\ b.listed = [u \in TypeIds |-> IF u \in D THEN <<i>> \o c.listed[u] ELSE c.listed[u]]
  BY <1>0, <1>2, <1>7 DEF Insert
<1>11. [u \in TypeIds |-> IF u \in E THEN <<i>> \o b.listed[u] ELSE b.listed[u]]
         = [u \in TypeIds |-> IF u \in D \cup E THEN <<i>> \o c.listed[u] ELSE c.listed[u]]
  <2>1. ASSUME NEW u \in TypeIds
        PROVE  (IF u \in E THEN <<i>> \o b.listed[u] ELSE b.listed[u])
                 = IF u \in D \cup E THEN <<i>> \o c.listed[u] ELSE c.listed[u]
    BY <1>5, <1>10, Zenon
  <2> QED  BY <2>1, Zenon
<1>12. b.hits + Cardinality(E) = c.hits + Cardinality(D \cup E)
  BY <1>0, <1>8, <1>10, <1>7
<1>13. Insert(b, i, E) = Insert(c, i, D \cup E)
  BY <1>11, <1>12, Zenon DEF Insert
<1>14. Grown(s, D, t) = D \cup E
  BY <1>5 DEF Grown
<1> QED  BY <1>2, <1>9, <1>13, <1>14

(* The types that a check lists a rule for, one matched type after the other. *)
Reached(s, m, n) == UNION {LexicalTypes(s, m[k], {}) : k \in 1 .. n}

LEMMA ReachedNext ==
  ASSUME NEW s, NEW m, NEW n \in Nat \ {0}
  PROVE  Reached(s, m, n) = Reached(s, m, n - 1) \cup LexicalTypes(s, m[n], {})
<1>1. \A k : k \in 1 .. n <=> k \in 1 .. n - 1 \/ k = n
  OBVIOUS
<1> QED  BY <1>1, Zenon DEF Reached

LEMMA ReachedFollowed ==
  ASSUME NEW s, NEW m, NEW n \in Nat
  PROVE  Followed(s, Reached(s, m, n))
<1>1. \A k : Followed(s, LexicalTypes(s, m[k], {}))
  BY LexicalFollowed
<1>2. \A u \in Reached(s, m, n) : \E k \in 1 .. n : u \in LexicalTypes(s, m[k], {})
  BY DEF Reached
<1>3. \A k \in 1 .. n : \A u \in LexicalTypes(s, m[k], {}) : u \in Reached(s, m, n)
  BY DEF Reached
<1> QED  BY <1>1, <1>2, <1>3 DEF Followed

Adds(s, c, i, m, f) ==
  f = [n \in 0 .. Len(m) |-> IF n = 0 THEN c ELSE AddAllLexicalTypes(s, f[n - 1], i, m[n])]

LEMMA InsertNothing ==
  ASSUME NEW s, NEW m, NEW c, NEW i, Fresh(c, i)
  PROVE  Insert(c, i, Reached(s, m, 0)) = c
<1>1. 1 .. 0 = {}
  OBVIOUS
<1>2. Reached(s, m, 0) = {}
  BY <1>1, Zenon DEF Reached
<1>3. c.listed = [u \in TypeIds |-> c.listed[u]] /\ c = [listed |-> c.listed, hits |-> c.hits]
  BY DEF Counts, Fresh
<1>4. c.hits + Cardinality({}) = c.hits
  BY FS_EmptySet DEF Fresh
<1>5. [u \in TypeIds |-> IF u \in {} THEN <<i>> \o c.listed[u] ELSE c.listed[u]] = [u \in TypeIds |-> c.listed[u]]
  BY Zenon
<1> QED  BY <1>2, <1>3, <1>4, <1>5, Zenon DEF Insert

LEMMA AddRound ==
  ASSUME NEW s, s.types \subseteq TypeIds, NEW c, NEW i, Fresh(c, i), NEW m, NEW n \in Nat \ {0}
  PROVE  AddAllLexicalTypes(s, Insert(c, i, Reached(s, m, n - 1)), i, m[n]) = Insert(c, i, Reached(s, m, n))
<1>1. PICK D : D = Reached(s, m, n - 1)
  OBVIOUS
<1>2. Followed(s, D)
  BY <1>1, ReachedFollowed
<1>3. PICK t : t = m[n]
  OBVIOUS
<1>4. AddAllLexicalTypes(s, Insert(c, i, D), i, t) = Insert(c, i, Grown(s, D, t))
  BY <1>2, InsertMore
<1>5. Reached(s, m, n) = Grown(s, D, t)
  BY <1>1, <1>3, ReachedNext DEF Grown
<1> QED  BY <1>1, <1>3, <1>4, <1>5

LEMMA AddLoop ==
  ASSUME NEW s, s.types \subseteq TypeIds, NEW c, NEW i, Fresh(c, i), NEW T, NEW m \in Seq(T)
  PROVE  /\ \E f : Adds(s, c, i, m, f)
         /\ \A f : Adds(s, c, i, m, f) => f[Len(m)] = Insert(c, i, Reached(s, m, Len(m)))
<1>1. PICK L \in Nat : L = Len(m)
  OBVIOUS
<1>2. \E f : Adds(s, c, i, m, f)
  <2> DEFINE g == [n \in 0 .. L |-> Insert(c, i, Reached(s, m, n))]
  <2>1. ASSUME NEW n \in 0 .. L
        PROVE  g[n] = IF n = 0 THEN c ELSE AddAllLexicalTypes(s, g[n - 1], i, m[n])
    <3>1. CASE n = 0
      BY <3>1, InsertNothing
    <3>2. CASE n # 0
      <4>1. n \in Nat \ {0} /\ n - 1 \in 0 .. L
        BY <3>2
      <4> QED  BY <3>2, <4>1, AddRound
    <3> QED  BY <3>1, <3>2
  <2>2. g = [n \in 0 .. L |-> IF n = 0 THEN c ELSE AddAllLexicalTypes(s, g[n - 1], i, m[n])]
    BY <2>1
  <2> QED  BY <1>1, <2>2 DEF Adds
<1>3. ASSUME NEW f, Adds(s, c, i, m, f) PROVE f[Len(m)] = Insert(c, i, Reached(s, m, Len(m)))
  <2>1. \A n \in 0 .. L : f[n] = IF n = 0 THEN c ELSE AddAllLexicalTypes(s, f[n - 1], i, m[n])
    BY <1>1, <1>3, Zenon DEF Adds
  <2> DEFINE G == {n \in 0 .. L : f[n] = Insert(c, i, Reached(s, m, n))}
  <2>2. 0 \in G
    BY <2>1, InsertNothing
  <2>3. ASSUME NEW n \in 1 .. L, n - 1 \in G PROVE n \in G
    <3>1. n \in 0 .. L /\ n # 0 /\ n \in Nat \ {0}
      OBVIOUS
    <3>2. f[n] = AddAllLexicalTypes(s, Insert(c, i, Reached(s, m, n - 1)), i, m[n])
      BY <2>1, <2>3, <3>1
    <3> QED  BY <3>1, <3>2, AddRound
  <2>4. 0 .. L \subseteq G
    <3> HIDE DEF G
    <3> QED  BY <2>2, <2>3, Stepwise
  <2> QED  BY <1>1, <2>4
<1> QED  BY <1>2, <1>3

LEMMA Matched ==
  ASSUME NEW s, s.types \subseteq TypeIds, NEW rule
  PROVE  LET m == SetToSeq(MatchedTypes(s, Rule[rule]))
         IN  m \in Seq(s.types) /\ Reached(s, m, Len(m)) = Wanted(s, rule)
<1>1. PICK M : M = MatchedTypes(s, Rule[rule])
  OBVIOUS
<1>2. M \subseteq s.types
  BY <1>1 DEF MatchedTypes
<1>3. IsFiniteSet(M)
  BY <1>2, TypesAssumption, FS_Subset DEF TypesAssumption
<1>4. PICK m : m = SetToSeq(M)
  OBVIOUS
<1>5. m \in Seq(M) /\ Range(m) = M
  BY <1>3, <1>4, SetToSeqIs
<1>6. m \in Seq(s.types) /\ M = {m[k] : k \in 1 .. Len(m)}
  BY <1>2, <1>5 DEF Range
<1>7. Reached(s, m, Len(m)) = UNION {LexicalTypes(s, t, {}) : t \in M}
  BY <1>6, Zenon DEF Reached
<1> QED  BY <1>1, <1>4, <1>6, <1>7 DEF Wanted

\* What a check makes of a rule that is to be listed for the types in W
Checked(e, i, W) ==
  IF W = {} THEN e
  ELSE [e EXCEPT !.listed = Insert([listed |-> e.listed, hits |-> 0], i, W).listed,
                 !.hits[i] = Cardinality(W), !.active = Append(@, i)]

LEMMA CheckRuleIs ==
  ASSUME NEW e \in Engine, NEW s, s.types \subseteq TypeIds, NEW i \in Nat, Listed(e, i) = {}
  PROVE  /\ CheckRule(e, s, i) = Checked(e, i, Wanted(s, e.rules[i].rule))
         /\ Wanted(s, e.rules[i].rule) \subseteq TypeIds
<1> DEFINE m == SetToSeq(MatchedTypes(s, Rule[e.rules[i].rule]))
           c == [listed |-> e.listed, hits |-> 0]
           f == CHOOSE f : Adds(s, c, i, m, f)
           done == f[Len(m)]
           W == Wanted(s, e.rules[i].rule)
<1>1. CheckRule(e, s, i) = IF done.hits = 0 THEN e
                           ELSE [e EXCEPT !.listed = done.listed, !.hits[i] = done.hits,
                                          !.active = Append(@, i)]
  BY Zenon DEF CheckRule, Adds
<1>2. Fresh(c, i)
  <2>1. c \in Counts /\ c.hits = 0 /\ c.listed = e.listed
    BY DEF Engine, Counts
  <2>2. Listed(c, i) = Listed(e, i)
    BY <2>1 DEF Listed
  <2> QED  BY <2>1, <2>2 DEF Fresh
<1>3. m \in Seq(s.types) /\ Reached(s, m, Len(m)) = W
  BY Matched
<1> HIDE DEF m, c, W
<1>4. done = Insert(c, i, W)
  <2>1. (\E g : Adds(s, c, i, m, g)) /\ \A g : Adds(s, c, i, m, g) => g[Len(m)] = Insert(c, i, Reached(s, m, Len(m)))
    BY <1>2, <1>3, AddLoop
  <2>2. Adds(s, c, i, m, f)
    BY <2>1, Zenon
  <2> QED  BY <1>3, <2>1, <2>2, Zenon
<1> HIDE DEF f
<1>5. W \subseteq TypeIds
  <2>1. W \subseteq s.types
    <3>1. \A t : LexicalTypes(s, t, {}) \subseteq s.types
      BY LexicalFollowed DEF Followed
    <3> QED  BY <3>1 DEF W, Wanted
  <2> QED  BY <2>1
<1>6. IsFiniteSet(W) /\ Cardinality(W) \in Nat /\ (Cardinality(W) = 0 <=> W = {})
  BY <1>5, TypesAssumption, FS_Subset, FS_CardinalityType, FS_EmptySet DEF TypesAssumption
<1>7. done.hits = Cardinality(W)
  <2>1. done.hits = c.hits + Cardinality(W)
    BY <1>4 DEF Insert
  <2> QED  BY <1>2, <1>6, <2>1 DEF Fresh
<1>8. CheckRule(e, s, i) = Checked(e, i, W)
  <2> HIDE DEF done
  <2> QED  BY <1>1, <1>4, <1>6, <1>7 DEF Checked, c
<1> QED  BY <1>5, <1>8 DEF W
-----------------------------------------------------------------------------
(* What a check keeps.                                                      *)

LEMMA CheckRuleKeeps ==
  ASSUME NEW e \in Engine, Consistent(e), NEW s, s.types \subseteq TypeIds,
         NEW i \in DOMAIN e.hits, Listed(e, i) = {}
  PROVE  LET g == CheckRule(e, s, i)
         IN  /\ g \in Engine /\ Consistent(g)
             /\ g.rules = e.rules /\ g.files = e.files /\ Len(g.hits) = Len(e.hits)
             /\ Listed(g, i) = Wanted(s, e.rules[i].rule)
             /\ \A j : j # i => Listed(g, j) = Listed(e, j)
<1>1. PICK W : W = Wanted(s, e.rules[i].rule)
  OBVIOUS
<1>2. /\ e.rules \in Seq([rule : Rules, index : Nat]) /\ e.files \in Seq(Files \cup {None})
      /\ e.hits \in Seq(Nat) /\ e.active \in Seq(Nat) /\ e.listed \in [TypeIds -> Seq(Nat)]
  BY DEF Engine
<1>3. i \in 1 .. Len(e.hits) /\ i \in Nat
  BY <1>2
<1>4. CheckRule(e, s, i) = Checked(e, i, W) /\ W \subseteq TypeIds
  BY <1>1, <1>3, CheckRuleIs
<1>5. PICK g : g = Checked(e, i, W)
  OBVIOUS
<1>6. CASE W = {}
  BY <1>1, <1>4, <1>5, <1>6 DEF Checked
<1>7. CASE W # {}
  <2> DEFINE c == [listed |-> e.listed, hits |-> 0]
  <2>1. PICK h : h = Insert(c, i, W).listed
    OBVIOUS
  <2>2. g = [e EXCEPT !.listed = h, !.hits[i] = Cardinality(W), !.active = Append(@, i)]
    BY <1>5, <1>7, <2>1 DEF Checked
  <2>3. c \in Counts /\ c.listed = e.listed
    BY <1>2 DEF Counts
  <2>4. \A j : Listed(c, j) = Listed(e, j)
    BY <2>3 DEF Listed
  <2>5. h = [u \in TypeIds |-> IF u \in W THEN <<i>> \o e.listed[u] ELSE e.listed[u]]
    BY <2>1 DEF Insert
  <2> HIDE DEF c
  <2>6. h \in [TypeIds -> Seq(Nat)]
    BY <1>3, <1>4, <2>1, <2>3, ListedAfterInsert
  <2>7. IsFiniteSet(W) /\ Cardinality(W) \in Nat /\ Cardinality(W) # 0
    BY <1>4, <1>7, TypesAssumption, FS_Subset, FS_CardinalityType, FS_EmptySet DEF TypesAssumption
  <2>8. /\ g.rules = e.rules /\ g.files = e.files /\ g.listed = h
        /\ g.hits = [e.hits EXCEPT ![i] = Cardinality(W)] /\ g.active = Append(e.active, i)
    BY <1>2, <2>2 DEF Engine
  <2>9. g.hits \in Seq(Nat) /\ Len(g.hits) = Len(e.hits) /\ DOMAIN g.hits = DOMAIN e.hits
    BY <1>2, <1>3, <2>7, <2>8
  <2>10. g.active \in Seq(Nat) /\ Range(g.active) = Range(e.active) \cup {i}
    <3>1. PICK l \in Seq(Nat) : l = e.active
      BY <1>2
    <3>2. Append(l, i) \in Seq(Nat) /\ Range(Append(l, i)) = Range(l) \cup {i}
      BY <1>3, RangeOfAppend
    <3> QED  BY <2>8, <3>1, <3>2
  <2>11. g \in Engine
    BY <1>2, <2>2, <2>6, <2>9, <2>10 DEF Engine
  <2>12. \A j : Listed(g, j) = Listed(Insert(c, i, W), j)
    BY <2>1, <2>8 DEF Listed
  <2>13. Listed(g, i) = W
    <3>1. Listed(Insert(c, i, W), i) = W
      BY <1>3, <1>4, <2>3, <2>4, ListedAfterInsert
    <3> QED  BY <2>12, <3>1
  <2>14. ASSUME NEW j, j # i PROVE Listed(g, j) = Listed(e, j)
    <3>1. Listed(Insert(c, i, W), j) = Listed(c, j)
      BY <1>3, <1>4, <2>3, <2>14, ListedAfterInsert
    <3> QED  BY <2>4, <2>12, <3>1
  <2>15. i \notin Range(e.active)
    BY DEF Consistent
  <2>16. Range(g.active) \subseteq DOMAIN g.hits /\ IsInjective(g.active)
    <3>1. IsInjective(e.active) /\ Range(e.active) \subseteq DOMAIN e.hits
      BY DEF Consistent
    <3>2. IsInjective(Append(e.active, i))
      BY <1>2, <1>3, <2>15, <3>1, OnceAppended
    <3> QED  BY <2>8, <2>9, <2>10, <3>1, <3>2
  <2>17. ASSUME NEW t \in TypeIds
         PROVE  Range(g.listed[t]) \subseteq DOMAIN g.hits /\ IsInjective(g.listed[t])
    <3>1. PICK l \in Seq(Nat) : l = e.listed[t]
      BY <1>2
    <3>2. Range(l) \subseteq DOMAIN e.hits /\ IsInjective(l)
      BY <3>1 DEF Consistent
    <3>3. i \notin Range(l)
      BY <3>1 DEF Listed
    <3>4. Range(<<i>> \o l) = {i} \cup Range(l) /\ IsInjective(<<i>> \o l)
      BY <1>3, <3>2, <3>3, Prepended
    <3>5. g.listed[t] = <<i>> \o l \/ g.listed[t] = l
      BY <2>5, <2>8, <3>1
    <3> QED  BY <2>9, <3>2, <3>4, <3>5
  <2>18. ASSUME NEW j \in DOMAIN g.hits
         PROVE  g.hits[j] = Cardinality(Listed(g, j)) /\ (j \in Range(g.active) <=> Listed(g, j) # {})
    <3>1. CASE j = i
      <4>1. g.hits[i] = Cardinality(W)
        BY <1>2, <1>3, <2>8
      <4> QED  BY <1>7, <2>10, <2>13, <3>1, <4>1
    <3>2. CASE j # i
      <4>1. g.hits[j] = e.hits[j] /\ j \in DOMAIN e.hits
        BY <1>2, <2>8, <2>9, <3>2
      <4>2. e.hits[j] = Cardinality(Listed(e, j)) /\ (j \in Range(e.active) <=> Listed(e, j) # {})
        BY <4>1 DEF Consistent
      <4>3. Listed(g, j) = Listed(e, j)
        BY <2>14, <3>2
      <4> QED  BY <2>10, <3>2, <4>1, <4>2, <4>3
    <3> QED  BY <3>1, <3>2
  <2>19. Consistent(g)
    <3>1. Len(g.hits) <= Len(g.rules)
      BY <2>8, <2>9 DEF Consistent
    <3> QED  BY <2>16, <2>17, <2>18, <3>1 DEF Consistent
  <2> QED  BY <1>1, <1>4, <1>5, <2>8, <2>9, <2>11, <2>13, <2>14, <2>19
<1> QED  BY <1>6, <1>7

\* What CheckRules() begins with
Begun(e, from) ==
  LET n == Len(e.rules)
  IN  IF from = 0
      THEN [EmptyEngine EXCEPT !.rules = e.rules, !.files = e.files, !.hits = [i \in 1 .. n |-> 0]]
      ELSE [e EXCEPT !.hits = [i \in 1 .. n |-> IF i <= Len(@) THEN @[i] ELSE 0]]

\* The engine and the rules to be checked go together
Checkable(e, from) ==
  /\ e \in Engine /\ Consistent(e) /\ from \in 0 .. Len(e.rules)
  /\ from # 0 => Len(e.hits) <= from

LEMMA BegunKeeps ==
  ASSUME NEW e, NEW from, Checkable(e, from)
  PROVE  LET b == Begun(e, from)
         IN  /\ b \in Engine /\ Consistent(b)
             /\ b.rules = e.rules /\ b.files = e.files /\ Len(b.hits) = Len(e.rules)
             /\ \A j : from = 0 => Listed(b, j) = {}
             /\ \A j : from # 0 => Listed(b, j) = Listed(e, j)
             /\ \A j \in Int : j > from => Listed(b, j) = {}
<1>1. PICK b : b = Begun(e, from)
  OBVIOUS
<1>2. /\ e.rules \in Seq([rule : Rules, index : Nat]) /\ e.files \in Seq(Files \cup {None})
      /\ e.hits \in Seq(Nat) /\ e.active \in Seq(Nat) /\ e.listed \in [TypeIds -> Seq(Nat)]
  BY DEF Engine, Checkable
<1>3. PICK n \in Nat : n = Len(e.rules)
  BY <1>2
<1>4. CASE from = 0
  <2>1. /\ b.rules = e.rules /\ b.files = e.files /\ b.hits = [i \in 1 .. n |-> 0]
        /\ b.active = <<>> /\ b.listed = [t \in TypeIds |-> <<>>]
    BY <1>1, <1>3, <1>4 DEF Begun, EmptyEngine
  <2>2. b \in [rules : Seq([rule : Rules, index : Nat]), files : Seq(Files \cup {None}),
               hits : Seq(Nat), active : Seq(Nat), listed : [TypeIds -> Seq(Nat)]]
    <3>1. b = [rules |-> e.rules, files |-> e.files, hits |-> [i \in 1 .. n |-> 0],
               active |-> <<>>, listed |-> [t \in TypeIds |-> <<>>]]
      BY <1>1, <1>3, <1>4 DEF Begun, EmptyEngine
    <3>2. [i \in 1 .. n |-> 0] \in Seq(Nat) /\ <<>> \in Seq(Nat)
      OBVIOUS
    <3>3. [t \in TypeIds |-> <<>>] \in [TypeIds -> Seq(Nat)]
      BY <3>2
    <3> QED  BY <1>2, <3>1, <3>2, <3>3
  <2>3. Range(<<>>) = {} /\ IsInjective(<<>>)
    BY DEF Range, IsInjective
  <2>4. \A j : Listed(b, j) = {}
    BY <2>1, <2>3 DEF Listed
  <2>5. Consistent(b)
    <3>1. Len(b.hits) = n /\ Len(b.rules) = n /\ DOMAIN b.hits = 1 .. n /\ \A j \in 1 .. n : b.hits[j] = 0
      BY <1>3, <2>1
    <3>2. \A t \in TypeIds : b.listed[t] = <<>>
      BY <2>1
    <3>3. Range(b.active) = {} /\ IsInjective(b.active)
      BY <2>1, <2>3
    <3>4. \A t \in TypeIds : Range(b.listed[t]) = {} /\ IsInjective(b.listed[t])
      BY <2>3, <3>2
    <3>5. \A j \in DOMAIN b.hits : b.hits[j] = Cardinality(Listed(b, j)) /\ Listed(b, j) = {}
      BY <2>4, <3>1, FS_EmptySet
    <3>6. Range(b.active) \subseteq DOMAIN b.hits
      BY <3>3
    <3>7. \A t \in TypeIds : Range(b.listed[t]) \subseteq DOMAIN b.hits
      BY <3>4
    <3>8. \A j \in DOMAIN b.hits : j \notin Range(b.active)
      BY <3>3
    <3>9. Len(b.hits) <= Len(b.rules)
      BY <3>1
    <3> QED  BY <3>3, <3>4, <3>5, <3>6, <3>7, <3>8, <3>9 DEF Consistent
  <2>6. Len(b.hits) = n
    BY <1>3, <2>1
  <2> QED  BY <1>1, <1>3, <1>4, <2>1, <2>2, <2>4, <2>5, <2>6 DEF Engine
<1>5. CASE from # 0
  <2>1. PICK m \in Nat : m = Len(e.hits) /\ m <= from /\ from <= n
    BY <1>2, <1>3, <1>5 DEF Checkable
  <2>2. PICK h : h = [i \in 1 .. n |-> IF i <= m THEN e.hits[i] ELSE 0]
    OBVIOUS
  <2>3. b = [e EXCEPT !.hits = h]
    BY <1>1, <1>3, <1>5, <2>1, <2>2, Zenon DEF Begun
  <2>4. h \in Seq(Nat) /\ Len(h) = n /\ DOMAIN h = 1 .. n
    <3>1. \A i \in 1 .. n : i <= m => e.hits[i] \in Nat
      BY <1>2, <2>1
    <3>2. h \in [1 .. n -> Nat]
      BY <2>2, <3>1
    <3> QED  BY <3>2
  <2>5. /\ b.rules = e.rules /\ b.files = e.files /\ b.hits = h
        /\ b.active = e.active /\ b.listed = e.listed
    BY <2>3 DEF Engine, Checkable
  <2>6. b \in Engine
    BY <2>3, <2>4 DEF Engine, Checkable
  <2>7. \A j : Listed(b, j) = Listed(e, j)
    BY <2>5 DEF Listed
  <2>8. DOMAIN e.hits = 1 .. m /\ 1 .. m \subseteq 1 .. n
    <3>1. from \in Nat
      BY <1>3 DEF Checkable
    <3>2. m <= n
      BY <2>1, <3>1
    <3>3. 1 .. m \subseteq 1 .. n
      BY <3>2
    <3>4. DOMAIN e.hits = 1 .. Len(e.hits)
      BY <1>2
    <3> QED  BY <2>1, <3>3, <3>4
  <2>9. \A t \in TypeIds : Range(e.listed[t]) \subseteq 1 .. m /\ IsInjective(e.listed[t])
    BY <2>8 DEF Consistent, Checkable
  <2>10. \A j \in Int : j > m => Listed(e, j) = {}
    BY <2>9 DEF Listed
  <2>11. Range(e.active) \subseteq 1 .. m /\ IsInjective(e.active)
    BY <2>8 DEF Consistent, Checkable
  <2>12. ASSUME NEW j \in 1 .. n
         PROVE  h[j] = Cardinality(Listed(e, j)) /\ (j \in Range(e.active) <=> Listed(e, j) # {})
    <3>1. CASE j <= m
      <4>1. j \in DOMAIN e.hits /\ h[j] = e.hits[j]
        BY <2>2, <2>8, <3>1
      <4> QED  BY <4>1 DEF Consistent, Checkable
    <3>2. CASE j > m
      <4>1. h[j] = 0 /\ Listed(e, j) = {} /\ j \notin Range(e.active)
        BY <2>2, <2>10, <2>11, <3>2
      <4> QED  BY <4>1, FS_EmptySet
    <3> QED  BY <3>1, <3>2
  <2>13. Consistent(b)
    <3>1. Len(b.hits) <= Len(b.rules) /\ DOMAIN b.hits = 1 .. n
      BY <1>3, <2>4, <2>5
    <3>2. Range(b.active) \subseteq DOMAIN b.hits /\ IsInjective(b.active)
      BY <2>5, <2>8, <2>11, <3>1
    <3>3. \A t \in TypeIds : Range(b.listed[t]) \subseteq DOMAIN b.hits /\ IsInjective(b.listed[t])
      BY <2>5, <2>8, <2>9, <3>1
    <3>4. \A j \in DOMAIN b.hits :
            b.hits[j] = Cardinality(Listed(b, j)) /\ (j \in Range(b.active) <=> Listed(b, j) # {})
      BY <2>5, <2>7, <2>12, <3>1
    <3> QED  BY <3>1, <3>2, <3>3, <3>4 DEF Consistent
  <2>14. \A j \in Int : j > from => Listed(e, j) = {}
    BY <2>1, <2>10 DEF Checkable
  <2> QED  BY <1>1, <1>3, <1>5, <2>4, <2>5, <2>6, <2>7, <2>13, <2>14
<1> QED  BY <1>4, <1>5
-----------------------------------------------------------------------------
(* Checking several rules, the last one first.                              *)

Checks(b, s, n, left, f) ==
  f = [k \in 0 .. n - left |-> IF k = 0 THEN b ELSE CheckRule(f[k - 1], s, n + 1 - k)]

\* k of the n rules have been checked
After(b, s, n, k, x) ==
  /\ x \in Engine /\ Consistent(x)
  /\ x.rules = b.rules /\ x.files = b.files /\ Len(x.hits) = n
  /\ \A j \in 1 .. n : Listed(x, j) = IF j > n - k THEN Wanted(s, b.rules[j].rule) ELSE Listed(b, j)

\* The engine can go through the rules after the first "left" ones
Starts(b, n, left) ==
  /\ b \in Engine /\ Consistent(b) /\ Len(b.hits) = n /\ Len(b.rules) = n
  /\ left \in 0 .. n /\ \A j \in 1 .. n : j > left => Listed(b, j) = {}

LEMMA CheckRound ==
  ASSUME NEW s, s.types \subseteq TypeIds, NEW n \in Nat, NEW left, NEW b, Starts(b, n, left),
         NEW k \in 1 .. n - left, NEW x, After(b, s, n, k - 1, x)
  PROVE  After(b, s, n, k, CheckRule(x, s, n + 1 - k))
<1>1. left \in 0 .. n
  BY DEF Starts
<1>2. PICK i \in 1 .. n : i = n + 1 - k /\ i > left
  <2>1. n + 1 - k \in 1 .. n /\ n + 1 - k > left
    BY <1>1
  <2> QED  BY <2>1
<1>3. PICK g : g = CheckRule(x, s, i)
  OBVIOUS
<1>4. /\ x \in Engine /\ Consistent(x) /\ x.rules = b.rules /\ x.files = b.files /\ Len(x.hits) = n
  BY DEF After
<1>5. \A j \in 1 .. n : Listed(x, j) = IF j > i THEN Wanted(s, b.rules[j].rule) ELSE Listed(b, j)
  <2>1. n - (k - 1) = i
    BY <1>1, <1>2
  <2> QED  BY <2>1 DEF After
<1>6. Listed(x, i) = {}
  BY <1>2, <1>5 DEF Starts
<1>7. i \in DOMAIN x.hits
  <2>1. x.hits \in Seq(Nat)
    BY <1>4 DEF Engine
  <2> QED  BY <1>4, <2>1
<1>8. /\ g \in Engine /\ Consistent(g)
      /\ g.rules = x.rules /\ g.files = x.files /\ Len(g.hits) = Len(x.hits)
      /\ Listed(g, i) = Wanted(s, x.rules[i].rule)
      /\ \A j : j # i => Listed(g, j) = Listed(x, j)
  BY <1>3, <1>4, <1>6, <1>7, CheckRuleKeeps
<1>9. ASSUME NEW j \in 1 .. n
      PROVE  Listed(g, j) = IF j > n - k THEN Wanted(s, b.rules[j].rule) ELSE Listed(b, j)
  <2>1. j > n - k <=> j > i \/ j = i
    BY <1>1, <1>2
  <2>2. CASE j = i
    BY <1>4, <1>8, <2>1, <2>2
  <2>3. CASE j # i
    <3>1. Listed(g, j) = Listed(x, j)
      BY <1>8, <2>3
    <3> QED  BY <1>5, <2>1, <2>3, <3>1
  <2> QED  BY <2>2, <2>3
<1> QED  BY <1>2, <1>3, <1>4, <1>8, <1>9 DEF After

LEMMA CheckLoop ==
  ASSUME NEW s, s.types \subseteq TypeIds, NEW n \in Nat, NEW left, NEW b, Starts(b, n, left)
  PROVE  /\ \E f : Checks(b, s, n, left, f)
         /\ \A f : Checks(b, s, n, left, f) => After(b, s, n, n - left, f[n - left])
<1>1. PICK L \in Nat : L = n - left
  <2>1. n - left \in Nat
    BY DEF Starts
  <2> QED  BY <2>1
<1>2. After(b, s, n, 0, b)
  <2>1. \A j \in 1 .. n : ~(j > n - 0)
    OBVIOUS
  <2> QED  BY <2>1 DEF After, Starts
<1>3. \E f : Checks(b, s, n, left, f)
  <2> DEFINE step == [p \in (1 .. L) \X Engine |->
                        IF After(b, s, n, p[1] - 1, p[2]) THEN CheckRule(p[2], s, n + 1 - p[1]) ELSE p[2]]
  <2>1. ASSUME NEW k \in 1 .. L, NEW x \in Engine
        PROVE  /\ step[<<k, x>>] = IF After(b, s, n, k - 1, x) THEN CheckRule(x, s, n + 1 - k) ELSE x
               /\ step[<<k, x>>] \in Engine
    <3>1. <<k, x>> \in (1 .. L) \X Engine
      OBVIOUS
    <3>2. step[<<k, x>>] = IF After(b, s, n, k - 1, x) THEN CheckRule(x, s, n + 1 - k) ELSE x
      BY <3>1
    <3>3. After(b, s, n, k - 1, x) => CheckRule(x, s, n + 1 - k) \in Engine
      BY ZenonT(30), <1>1, CheckRound DEF After
    <3> QED  BY <3>2, <3>3
  <2>2. step \in [(1 .. L) \X Engine -> Engine]
    <3>1. ASSUME NEW p \in (1 .. L) \X Engine PROVE step[p] \in Engine
      <4>1. PICK k \in 1 .. L, x \in Engine : p = <<k, x>>
        OBVIOUS
      <4> HIDE DEF step
      <4> QED  BY <2>1, <4>1
    <3>2. DOMAIN step = (1 .. L) \X Engine /\ step = [p \in (1 .. L) \X Engine |-> step[p]]
      OBVIOUS
    <3> HIDE DEF step
    <3> QED  BY <3>1, <3>2
  <2> HIDE DEF step
  <2>3. b \in Engine
    BY DEF Starts
  <2>4. PICK f \in [0 .. L -> Engine] : Rounds(L, b, step, f)
    BY <2>2, <2>3, RoundsExist
  <2>5. \A k \in 0 .. L : f[k] = IF k = 0 THEN b ELSE step[<<k, f[k - 1]>>]
    BY <2>4, Zenon DEF Rounds
  <2> DEFINE G == {k \in 0 .. L : After(b, s, n, k, f[k])}
  <2>6. 0 \in G
    <3>1. 0 \in 0 .. L
      OBVIOUS
    <3>2. f[0] = b
      BY <2>5, <3>1, Zenon
    <3> QED  BY <1>2, <3>1, <3>2
  <2>7. ASSUME NEW k \in 1 .. L, After(b, s, n, k - 1, f[k - 1])
        PROVE  f[k] = CheckRule(f[k - 1], s, n + 1 - k) /\ After(b, s, n, k, f[k])
    <3>1. k \in 0 .. L /\ k # 0 /\ k - 1 \in 0 .. L
      OBVIOUS
    <3>2. PICK x \in Engine : x = f[k - 1]
      BY <2>4, <3>1
    <3>3. f[k] = step[<<k, x>>]
      BY <2>5, <3>1, <3>2
    <3>4. f[k] = CheckRule(x, s, n + 1 - k)
      BY <2>1, <2>7, <3>2, <3>3
    <3>5. After(b, s, n, k, CheckRule(x, s, n + 1 - k))
      BY <1>1, <2>7, <3>2, CheckRound
    <3> QED  BY <3>2, <3>4, <3>5
  <2>8. ASSUME NEW k \in 1 .. L, k - 1 \in G PROVE k \in G
    BY <2>7, <2>8
  <2>9. \A k \in 0 .. L : After(b, s, n, k, f[k])
    <3>1. 0 .. L \subseteq G
      <4> HIDE DEF G
      <4> QED  BY <2>6, <2>8, Stepwise
    <3> QED  BY <3>1
  <2>10. ASSUME NEW k \in 0 .. L
         PROVE  f[k] = IF k = 0 THEN b ELSE CheckRule(f[k - 1], s, n + 1 - k)
    <3>1. CASE k = 0
      BY <2>5, <3>1
    <3>2. CASE k # 0
      <4>1. k \in 1 .. L /\ k - 1 \in 0 .. L
        BY <3>2
      <4> QED  BY <2>7, <2>9, <3>2, <4>1
    <3> QED  BY <3>1, <3>2
  <2>11. f = [k \in 0 .. L |-> f[k]]
    BY <2>4
  <2>12. f = [k \in 0 .. L |-> IF k = 0 THEN b ELSE CheckRule(f[k - 1], s, n + 1 - k)]
    BY <2>10, <2>11
  <2> QED  BY <1>1, <2>12, Zenon DEF Checks
<1>4. ASSUME NEW f, Checks(b, s, n, left, f) PROVE After(b, s, n, n - left, f[n - left])
  <2>1. \A k \in 0 .. L : f[k] = IF k = 0 THEN b ELSE CheckRule(f[k - 1], s, n + 1 - k)
    BY <1>1, <1>4, Zenon DEF Checks
  <2> DEFINE G == {k \in 0 .. L : After(b, s, n, k, f[k])}
  <2>2. 0 \in G
    BY <1>2, <2>1
  <2>3. ASSUME NEW k \in 1 .. L, k - 1 \in G PROVE k \in G
    <3>1. PICK x : x = f[k - 1]
      OBVIOUS
    <3>2. After(b, s, n, k, CheckRule(x, s, n + 1 - k))
      BY <1>1, <2>3, <3>1, CheckRound
    <3>3. k \in 0 .. L /\ f[k] = CheckRule(x, s, n + 1 - k)
      BY <2>1, <3>1
    <3> QED  BY <3>2, <3>3
  <2>4. 0 .. L \subseteq G
    <3> HIDE DEF G
    <3> QED  BY <2>2, <2>3, Stepwise
  <2> QED  BY <1>1, <2>4
<1> QED  BY <1>3, <1>4

(* Whatever is checked: the rules after the first "left" ones are listed as the
   symbols want it, the first "from" ones as before. *)
LEMMA CheckRulesKeeps ==
  ASSUME NEW e, NEW s, s.types \subseteq TypeIds, NEW from, Checkable(e, from),
         NEW left \in from .. Len(e.rules)
  PROVE  LET g == CheckRules(e, s, from, left)
         IN  /\ g \in Engine /\ Consistent(g)
             /\ g.rules = e.rules /\ g.files = e.files
             /\ \A j \in 1 .. Len(e.rules) : j > left => Listed(g, j) = Wanted(s, e.rules[j].rule)
             /\ \A j \in 1 .. Len(e.rules) : j <= from => Listed(g, j) = Listed(e, j)
<1> DEFINE n == Len(e.rules)
           b == Begun(e, from)
           f == CHOOSE f : Checks(b, s, n, left, f)
<1>1. CheckRules(e, s, from, left) = IF s.types = {} THEN b ELSE f[n - left]
  BY Zenon DEF CheckRules, Begun, Checks
<1>2. PICK g : g = CheckRules(e, s, from, left)
  OBVIOUS
<1>3. n \in Nat /\ from \in 0 .. n
  BY DEF Checkable, Engine
<1>4. /\ b \in Engine /\ Consistent(b)
      /\ b.rules = e.rules /\ b.files = e.files /\ Len(b.hits) = n
      /\ \A j : from = 0 => Listed(b, j) = {}
      /\ \A j : from # 0 => Listed(b, j) = Listed(e, j)
      /\ \A j \in Int : j > from => Listed(b, j) = {}
  BY BegunKeeps
<1> HIDE DEF b
<1>5. \A j \in 1 .. n : j <= from => Listed(b, j) = Listed(e, j)
  <2>1. \A j \in 1 .. n : j <= from => from # 0
    BY <1>3
  <2> QED  BY <1>4, <2>1
<1>6. CASE s.types = {}
  <2>1. g = b
    BY <1>1, <1>2, <1>6
  <2>2. \A r : Wanted(s, r) = {}
    <3>1. \A r : MatchedTypes(s, r) = {}
      BY <1>6 DEF MatchedTypes
    <3> QED  BY <3>1 DEF Wanted
  <2>3. \A j \in 1 .. n : j > left => Listed(b, j) = {}
    BY <1>3, <1>4
  <2> QED  BY <1>2, <1>4, <1>5, <2>1, <2>2, <2>3
<1>7. CASE s.types # {}
  <2>1. Starts(b, n, left)
    <3>1. left \in 0 .. n /\ \A j \in 1 .. n : j > left => j > from
      BY <1>3
    <3> QED  BY <1>3, <1>4, <3>1 DEF Starts
  <2>2. (\E h : Checks(b, s, n, left, h)) /\ \A h : Checks(b, s, n, left, h) => After(b, s, n, n - left, h[n - left])
    BY <1>3, <2>1, CheckLoop
  <2>3. Checks(b, s, n, left, f)
    BY <2>2, Zenon
  <2> HIDE DEF f
  <2>4. After(b, s, n, n - left, g)
    BY <1>1, <1>2, <1>7, <2>2, <2>3
  <2>5. n - (n - left) = left
    BY <1>3
  <2>6. \A j \in 1 .. n : Listed(g, j) = IF j > left THEN Wanted(s, b.rules[j].rule) ELSE Listed(b, j)
    BY <2>4, <2>5 DEF After
  <2>7. /\ g \in Engine /\ Consistent(g) /\ g.rules = e.rules /\ g.files = e.files
    BY <1>4, <2>4 DEF After
  <2>8. \A j \in 1 .. n : j <= from => ~(j > left)
    BY <1>3
  <2> QED  BY <1>2, <1>4, <1>5, <2>6, <2>7, <2>8
<1> QED  BY <1>6, <1>7
-----------------------------------------------------------------------------
(* Taking a rule out.                                                       *)

Erases(list, i, f) ==
  f = [n \in 0 .. Len(list) |->
         IF n = 0 THEN <<>>
         ELSE IF list[n] = i THEN f[n - 1] ELSE Append(f[n - 1], list[n])]

\* What is kept of the first n
Kept(list, i, n, x) ==
  /\ x \in Seq(Nat)
  /\ Range(x) = {list[k] : k \in 1 .. n} \ {i}
  /\ IsInjective(list) => IsInjective(x)

LEMMA EraseRound ==
  ASSUME NEW list \in Seq(Nat), NEW i, NEW n \in 1 .. Len(list), NEW x, Kept(list, i, n - 1, x)
  PROVE  Kept(list, i, n, IF list[n] = i THEN x ELSE Append(x, list[n]))
<1> DEFINE B(m) == {list[k] : k \in 1 .. m}
<1>1. x \in Seq(Nat) /\ Range(x) = B(n - 1) \ {i} /\ (IsInjective(list) => IsInjective(x))
  BY DEF Kept
<1>2. B(n) = B(n - 1) \cup {list[n]}
  <2>1. \A k : k \in 1 .. n <=> k \in 1 .. n - 1 \/ k = n
    OBVIOUS
  <2> QED  BY <2>1, Zenon
<1>3. PICK v \in Nat : v = list[n]
  OBVIOUS
<1>4. CASE v = i
  <2>1. B(n) \ {i} = B(n - 1) \ {i}
    BY <1>2, <1>3, <1>4
  <2> QED  BY <1>1, <1>3, <1>4, <2>1 DEF Kept
<1>5. CASE v # i
  <2>1. Append(x, v) \in Seq(Nat) /\ Range(Append(x, v)) = Range(x) \cup {v}
    BY <1>1, <1>3, RangeOfAppend
  <2>2. Range(Append(x, v)) = B(n) \ {i}
    BY <1>1, <1>2, <1>3, <1>5, <2>1
  <2>3. ASSUME IsInjective(list) PROVE IsInjective(Append(x, v))
    <3>1. \A a, b \in 1 .. Len(list) : list[a] = list[b] => a = b
      BY <2>3 DEF IsInjective
    <3>2. v \notin B(n - 1)
      BY <1>3, <3>1
    <3>3. v \notin Range(x)
      BY <1>1, <3>2
    <3> QED  BY <1>1, <2>3, <3>3, OnceAppended
  <2> QED  BY <1>3, <1>5, <2>1, <2>2, <2>3 DEF Kept
<1> QED  BY <1>4, <1>5

LEMMA EraseIs ==
  ASSUME NEW list \in Seq(Nat), NEW i
  PROVE  /\ Erase(list, i) \in Seq(Nat)
         /\ Range(Erase(list, i)) = Range(list) \ {i}
         /\ IsInjective(list) => IsInjective(Erase(list, i))
<1> DEFINE f == CHOOSE f : Erases(list, i, f)
<1>1. Erase(list, i) = f[Len(list)]
  BY Zenon DEF Erase, Erases
<1>2. PICK L \in Nat : L = Len(list)
  OBVIOUS
<1>3. \E g : Erases(list, i, g)
  <2> DEFINE step == [p \in (1 .. L) \X Seq(Nat) |->
                        IF list[p[1]] = i THEN p[2] ELSE Append(p[2], list[p[1]])]
  <2>1. ASSUME NEW n \in 1 .. L, NEW x \in Seq(Nat)
        PROVE  /\ step[<<n, x>>] = IF list[n] = i THEN x ELSE Append(x, list[n])
               /\ step[<<n, x>>] \in Seq(Nat)
    <3>1. <<n, x>> \in (1 .. L) \X Seq(Nat)
      OBVIOUS
    <3>2. step[<<n, x>>] = IF list[n] = i THEN x ELSE Append(x, list[n])
      BY <3>1
    <3>3. PICK v \in Nat : v = list[n]
      BY <1>2
    <3>4. Append(x, v) \in Seq(Nat)
      OBVIOUS
    <3> QED  BY <3>2, <3>3, <3>4
  <2>2. step \in [(1 .. L) \X Seq(Nat) -> Seq(Nat)]
    <3>1. ASSUME NEW p \in (1 .. L) \X Seq(Nat) PROVE step[p] \in Seq(Nat)
      <4>1. PICK n \in 1 .. L, x \in Seq(Nat) : p = <<n, x>>
        OBVIOUS
      <4> HIDE DEF step
      <4> QED  BY <2>1, <4>1
    <3>2. step = [p \in (1 .. L) \X Seq(Nat) |-> step[p]]
      OBVIOUS
    <3> HIDE DEF step
    <3> QED  BY <3>1, <3>2
  <2> HIDE DEF step
  <2>3. <<>> \in Seq(Nat)
    OBVIOUS
  <2>4. PICK g \in [0 .. L -> Seq(Nat)] : Rounds(L, <<>>, step, g)
    BY <2>2, <2>3, RoundsExist
  <2>5. \A n \in 0 .. L : g[n] = IF n = 0 THEN <<>> ELSE step[<<n, g[n - 1]>>]
    BY <2>4, Zenon DEF Rounds
  <2>6. ASSUME NEW n \in 0 .. L
        PROVE  g[n] = IF n = 0 THEN <<>>
                      ELSE IF list[n] = i THEN g[n - 1] ELSE Append(g[n - 1], list[n])
    <3>1. CASE n = 0
      BY <2>5, <3>1, Zenon
    <3>2. CASE n # 0
      <4>1. n \in 1 .. L /\ n - 1 \in 0 .. L
        BY <3>2
      <4>2. PICK x \in Seq(Nat) : x = g[n - 1]
        BY <2>4, <4>1
      <4>3. g[n] = step[<<n, x>>]
        BY <2>5, <3>2, <4>2, Zenon
      <4> QED  BY <2>1, <3>2, <4>1, <4>2, <4>3, Zenon
    <3> QED  BY <3>1, <3>2
  <2>7. g = [n \in 0 .. L |-> IF n = 0 THEN <<>>
                              ELSE IF list[n] = i THEN g[n - 1] ELSE Append(g[n - 1], list[n])]
    <3>1. g = [n \in 0 .. L |-> g[n]]
      BY <2>4
    <3> QED  BY <2>6, <3>1, Zenon
  <2> QED  BY <1>2, <2>7, Zenon DEF Erases
<1>4. ASSUME NEW g, Erases(list, i, g) PROVE Kept(list, i, L, g[L])
  <2>1. \A n \in 0 .. L : g[n] = IF n = 0 THEN <<>>
                                 ELSE IF list[n] = i THEN g[n - 1] ELSE Append(g[n - 1], list[n])
    BY <1>2, <1>4, Zenon DEF Erases
  <2> DEFINE G == {n \in 0 .. L : Kept(list, i, n, g[n])}
  <2>2. 0 \in G
    <3>1. 0 \in 0 .. L /\ 1 .. 0 = {}
      OBVIOUS
    <3>2. g[0] = <<>>
      BY <2>1, <3>1, Zenon
    <3>3. Range(<<>>) = {} /\ IsInjective(<<>>) /\ <<>> \in Seq(Nat)
      BY DEF Range, IsInjective
    <3>4. {list[k] : k \in 1 .. 0} \ {i} = {}
      BY <3>1
    <3>5. Kept(list, i, 0, <<>>)
      BY <3>3, <3>4 DEF Kept
    <3> QED  BY <3>1, <3>2, <3>5
  <2>3. ASSUME NEW n \in 1 .. L, n - 1 \in G PROVE n \in G
    <3>1. PICK x : x = g[n - 1]
      OBVIOUS
    <3>2. n \in 0 .. L /\ n # 0 /\ Kept(list, i, n - 1, x)
      BY <2>3, <3>1
    <3>3. g[n] = IF list[n] = i THEN x ELSE Append(x, list[n])
      BY <2>1, <3>1, <3>2, Zenon
    <3>4. Kept(list, i, n, IF list[n] = i THEN x ELSE Append(x, list[n]))
      BY <1>2, <3>2, EraseRound
    <3> QED  BY <3>2, <3>3, <3>4
  <2>4. 0 .. L \subseteq G
    <3> HIDE DEF G
    <3> QED  BY <2>2, <2>3, Stepwise
  <2> QED  BY <2>4
<1>5. Kept(list, i, L, f[L])
  BY <1>3, <1>4, Zenon
<1> HIDE DEF f
<1>6. {list[k] : k \in 1 .. L} = Range(list)
  BY <1>2, RangeHas
<1> QED  BY <1>1, <1>2, <1>5, <1>6 DEF Kept

(* Whatever was listed and active, but for the rule that is taken out, stays so. *)
Disabled(e, i, g) ==
  g = [e EXCEPT !.active = Erase(@, i), !.hits[i] = 0,
                !.listed = [t \in TypeIds |-> Erase(e.listed[t], i)]]

LEMMA EraseKeeps ==
  ASSUME NEW e \in Engine, Consistent(e), NEW i \in DOMAIN e.hits, NEW g, Disabled(e, i, g)
  PROVE  /\ g \in Engine /\ Consistent(g)
         /\ g.rules = e.rules /\ g.files = e.files /\ Len(g.hits) = Len(e.hits)
         /\ \A j : j # i => Listed(g, j) = Listed(e, j)
<1>2. /\ e.rules \in Seq([rule : Rules, index : Nat]) /\ e.files \in Seq(Files \cup {None})
      /\ e.hits \in Seq(Nat) /\ e.active \in Seq(Nat) /\ e.listed \in [TypeIds -> Seq(Nat)]
  BY DEF Engine
<1>3. i \in 1 .. Len(e.hits)
  BY <1>2
<1>4. PICK a : a = Erase(e.active, i)
  OBVIOUS
<1>5. a \in Seq(Nat) /\ Range(a) = Range(e.active) \ {i} /\ (IsInjective(e.active) => IsInjective(a))
  BY <1>2, <1>4, EraseIs
<1>6. PICK h : h = [t \in TypeIds |-> Erase(e.listed[t], i)]
  OBVIOUS
<1>7. ASSUME NEW t \in TypeIds
      PROVE  /\ h[t] \in Seq(Nat) /\ Range(h[t]) = Range(e.listed[t]) \ {i}
             /\ IsInjective(e.listed[t]) => IsInjective(h[t])
  <2>1. PICK l \in Seq(Nat) : l = e.listed[t]
    BY <1>2
  <2>2. h[t] = Erase(l, i)
    BY <1>6, <2>1
  <2> QED  BY <2>1, <2>2, EraseIs
<1>8. h \in [TypeIds -> Seq(Nat)]
  <2>1. h = [t \in TypeIds |-> h[t]]
    BY <1>6
  <2> QED  BY <1>7, <2>1
<1>9. g = [e EXCEPT !.active = a, !.hits[i] = 0, !.listed = h]
  BY <1>4, <1>6 DEF Disabled
<1>10. /\ g.rules = e.rules /\ g.files = e.files /\ g.listed = h /\ g.active = a
       /\ g.hits = [e.hits EXCEPT ![i] = 0]
  BY <1>9 DEF Engine
<1>11. /\ g.hits \in Seq(Nat) /\ Len(g.hits) = Len(e.hits) /\ DOMAIN g.hits = DOMAIN e.hits
  BY <1>2, <1>3, <1>10
<1>12. g \in Engine
  BY <1>2, <1>5, <1>8, <1>9, <1>11 DEF Engine
<1>13. \A j : Listed(g, j) = {u \in TypeIds : j \in Range(h[u])}
  BY <1>10 DEF Listed
<1>14. Listed(g, i) = {}
  BY <1>7, <1>13
<1>15. ASSUME NEW j, j # i PROVE Listed(g, j) = Listed(e, j)
  <2>1. \A u \in TypeIds : j \in Range(h[u]) <=> j \in Range(e.listed[u])
    BY <1>7, <1>15
  <2> QED  BY <1>13, <2>1 DEF Listed
<1>16. Consistent(g)
  <2>1. Len(g.hits) <= Len(g.rules)
    BY <1>10, <1>11 DEF Consistent
  <2>2. Range(g.active) \subseteq DOMAIN g.hits /\ IsInjective(g.active)
    BY <1>5, <1>10, <1>11 DEF Consistent
  <2>3. \A t \in TypeIds : Range(g.listed[t]) \subseteq DOMAIN g.hits /\ IsInjective(g.listed[t])
    BY ZenonT(30), <1>7, <1>10, <1>11 DEF Consistent
  <2>4. ASSUME NEW j \in DOMAIN g.hits
        PROVE  g.hits[j] = Cardinality(Listed(g, j)) /\ (j \in Range(g.active) <=> Listed(g, j) # {})
    <3>1. CASE j = i
      <4>1. g.hits[i] = 0 /\ i \notin Range(g.active)
        BY <1>2, <1>3, <1>5, <1>10
      <4> QED  BY <1>14, <3>1, <4>1, FS_EmptySet
    <3>2. CASE j # i
      <4>1. g.hits[j] = e.hits[j] /\ j \in DOMAIN e.hits
        BY <1>2, <1>10, <1>11, <3>2
      <4>2. e.hits[j] = Cardinality(Listed(e, j)) /\ (j \in Range(e.active) <=> Listed(e, j) # {})
        BY <4>1 DEF Consistent
      <4>3. Listed(g, j) = Listed(e, j)
        BY <1>15, <3>2
      <4> QED  BY <1>5, <1>10, <3>2, <4>1, <4>2, <4>3
    <3> QED  BY <3>1, <3>2
  <2> QED  BY <2>1, <2>2, <2>3, <2>4 DEF Consistent
<1> QED  BY <1>10, <1>11, <1>12, <1>15, <1>16
-----------------------------------------------------------------------------
(* The steps of the commands.                                               *)

\* The engine's part of the invariant
EngineInv ==
  /\ TypeOK
  /\ Consistent(eng) /\ Agrees(eng, symbols, excused \cup Pending)

\* The reader's part
ReaderInv == Nested /\ RulesOnce /\ RulesNamed

LEMMA IInvParts == IInv <=> EngineInv /\ ReaderInv
BY DEF IInv, EngineInv, ReaderInv

(* Commands that read no file leave the reader's part as it is. *)
LEMMA SameRules ==
  ASSUME RulesOnce, RulesNamed, eng'.rules = eng.rules, eng'.files = eng.files,
         reader'.stack = reader.stack, torn' = torn
  PROVE  RulesOnce' /\ RulesNamed'
<1>1. \A f, n : HasRead(f, n)' <=> HasRead(f, n)
  BY DEF HasRead, FilesRead
<1>2. Indexes' = Indexes
  BY DEF Indexes
<1>3. \A r : CopiesOf(r)' = CopiesOf(r)
  BY <1>2 DEF CopiesOf
<1>4. RulesOnce'
  BY <1>1, <1>2, <1>3 DEF RulesOnce
<1>5. RulesNamed'
  BY <1>2 DEF RulesNamed, Names, RuleFile
<1> QED  BY <1>4, <1>5

(* No command runs: the reader is idle. *)
LEMMA ReadyIsIdle ==
  ASSUME IInv, Ready
  PROVE  reader = IdleReader /\ Pending = {} /\ reader.stack = <<>>
BY DEF IInv, Nested, Ready, Pending, IdleReader

LEMMA IdleNested ==
  ASSUME reader' = IdleReader
  PROVE  Nested' /\ Pending' = {} /\ reader' \in Readers /\ reader'.stack = <<>>
<1>1. reader'.busy = FALSE /\ reader'.stack = <<>>
  BY DEF IdleReader
<1>2. DOMAIN <<>> = {} /\ <<>> \in Seq(Files) /\ <<>> \in Seq([file : Files, index : Nat, next : Nat])
  OBVIOUS
<1>3. IdleReader \in Readers
  BY <1>2 DEF IdleReader, Readers
<1>4. Nested'
  BY <1>1, <1>2 DEF Nested
<1>5. Pending' = {}
  BY <1>1 DEF Pending
<1> QED  BY <1>1, <1>3, <1>4, <1>5

LEMMA StepLoadRules ==
  ASSUME IInv, NEW files \in Loads, LoadRules(files)
  PROVE  IInv'
<1>1. reader = IdleReader /\ Pending = {} /\ reader.stack = <<>>
  BY ReadyIsIdle DEF LoadRules
<1>2. /\ reader' = [busy |-> TRUE, todo |-> files, stack |-> <<>>, from |-> Len(eng.rules)]
      /\ eng' = eng /\ symbols' = symbols /\ excused' = excused /\ torn' = torn
  BY DEF LoadRules
<1>3. PICK n \in Nat : n = Len(eng.rules)
  BY DEF IInv, TypeOK, Engine
<1>4. files \in Seq(Files)
  BY ContentAssumption DEF ContentAssumption
<1>5. reader' \in Readers
  <2>1. <<>> \in Seq([file : Files, index : Nat, next : Nat])
    OBVIOUS
  <2> QED  BY <1>2, <1>3, <1>4, <2>1 DEF Readers
<1>6. Pending' = {}
  <2>1. n + 1 .. n = {}
    OBVIOUS
  <2> QED  BY <1>2, <1>3, <2>1 DEF Pending
<1>7. TypeOK' /\ Consistent(eng)' /\ Agrees(eng, symbols, excused \cup Pending)'
  <2>1. TypeOK /\ Consistent(eng) /\ Agrees(eng, symbols, excused)
    BY <1>1 DEF IInv
  <2>2. TypeOK'
    BY <1>2, <1>5, <2>1 DEF TypeOK
  <2>3. excused' \cup Pending' = excused
    BY <1>2, <1>6
  <2> QED  BY <1>2, <2>1, <2>2, <2>3
<1>8. Nested'
  <2>1. reader'.busy /\ reader'.stack = <<>> /\ reader'.from = n /\ Len(eng'.rules) = n
    BY <1>2, <1>3
  <2>2. Len(eng'.hits) <= n
    BY <1>2, <1>3 DEF IInv, Consistent
  <2>3. DOMAIN <<>> = {}
    OBVIOUS
  <2> QED  BY <1>3, <2>1, <2>2, <2>3 DEF Nested
<1>9. RulesOnce' /\ RulesNamed'
  BY <1>1, <1>2, SameRules DEF IInv
<1> QED  BY <1>7, <1>8, <1>9 DEF IInv

(* A check, whoever asks for it. *)
LEMMA StepCheck ==
  ASSUME IInv, NEW from, Checkable(eng, from), NEW left \in from .. Len(eng.rules),
         NEW s, s.types \subseteq TypeIds, CheckAndAttach(eng, s, from, left),
         reader.stack = <<>>, reader' = IdleReader, torn' = torn,
         s = symbols \/ from = 0, reader.busy => reader.from = from,
         symbols'.types \subseteq TypeIds, symbols' = s \/ (from = 0 /\ left = Len(eng.rules))
  PROVE  IInv'
<1>1. PICK g : g = CheckRules(eng, s, from, left)
  OBVIOUS
<1>2. /\ g \in Engine /\ Consistent(g)
      /\ g.rules = eng.rules /\ g.files = eng.files
      /\ \A j \in 1 .. Len(eng.rules) : j > left => Listed(g, j) = Wanted(s, eng.rules[j].rule)
      /\ \A j \in 1 .. Len(eng.rules) : j <= from => Listed(g, j) = Listed(eng, j)
  BY <1>1, CheckRulesKeeps
<1>3. eng' = g /\ excused' = (IF from = 0 THEN {} ELSE excused) \cup from + 1 .. left
  BY <1>1 DEF CheckAndAttach
<1>4. PICK n \in Nat : n = Len(eng.rules) /\ DOMAIN eng.rules = 1 .. n
  BY DEF IInv, TypeOK, Engine
<1>5. from \in Nat /\ left \in Nat /\ from <= left /\ left <= n
  BY <1>4 DEF Checkable
<1>6. Nested' /\ Pending' = {} /\ reader' \in Readers /\ reader'.stack = <<>>
  BY IdleNested
<1>7. RulesOnce' /\ RulesNamed'
  BY <1>2, <1>3, <1>6, SameRules DEF IInv
<1>8. TypeOK' /\ Consistent(eng)'
  BY <1>2, <1>3, <1>6 DEF TypeOK
<1>9. ASSUME NEW j \in 1 .. n, j \notin excused'
      PROVE  Listed(g, j) = Wanted(symbols', g.rules[j].rule)
  <2>1. CASE j > left
    <3>1. ~(left = n)
      BY <1>4, <1>5, <2>1
    <3>2. symbols' = s
      BY <1>4, <3>1
    <3> QED  BY <1>2, <1>4, <2>1, <3>2
  <2>2. CASE j <= left
    <3>1. j <= from /\ from # 0 /\ j \notin excused
      BY <1>3, <1>5, <1>9, <2>2
    <3>2. symbols' = s /\ s = symbols
      BY <3>1
    <3>3. j \notin Pending
      BY <1>5, <3>1 DEF Pending
    <3>4. Listed(eng, j) = Wanted(symbols, eng.rules[j].rule)
      BY <1>4, <3>1, <3>3 DEF IInv, Agrees
    <3> QED  BY <1>2, <1>4, <3>1, <3>2, <3>4
  <2> QED  BY <1>5, <2>1, <2>2
<1>10. Agrees(eng, symbols, excused \cup Pending)'
  BY <1>2, <1>3, <1>4, <1>6, <1>9 DEF Agrees
<1> QED  BY <1>6, <1>7, <1>8, <1>10 DEF IInv

LEMMA StepRulesLoaded ==
  ASSUME IInv, RulesLoaded
  PROVE  IInv'
<1>1. /\ reader.busy /\ reader.stack = <<>> /\ reader' = IdleReader
      /\ symbols' = symbols /\ torn' = torn
  BY DEF RulesLoaded
<1>2. PICK left \in reader.from .. Len(eng.rules) : CheckAndAttach(eng, symbols, reader.from, left)
  BY DEF RulesLoaded
<1>3. PICK s : s = symbols
  OBVIOUS
<1>4. PICK from : from = reader.from
  OBVIOUS
<1>5. Checkable(eng, from)
  <2>1. Len(eng.hits) <= from /\ from <= Len(eng.rules)
    BY <1>1, <1>4 DEF IInv, Nested
  <2>2. from \in Nat /\ Len(eng.rules) \in Nat
    BY <1>4 DEF IInv, TypeOK, Readers, Engine
  <2> QED  BY <2>1, <2>2 DEF Checkable, IInv, TypeOK
<1>6. CheckAndAttach(eng, s, from, left)
  BY <1>2, <1>3, <1>4
<1>7. s.types \subseteq TypeIds /\ symbols'.types \subseteq TypeIds
  BY <1>1, <1>3 DEF IInv, TypeOK
<1> QED  BY <1>1, <1>2, <1>3, <1>4, <1>5, <1>6, <1>7, StepCheck

LEMMA CheckableAnew == ASSUME IInv PROVE Checkable(eng, 0) /\ Len(eng.rules) \in Nat
<1>1. Len(eng.rules) \in Nat
  BY DEF IInv, TypeOK, Engine
<1> QED  BY <1>1 DEF Checkable, IInv, TypeOK

LEMMA SymbolsTyped ==
  ASSUME NEW k \in Kernels
  PROVE  /\ SymbolsOf(k).types \subseteq TypeIds
         /\ \A ids : Part(k, ids).types \subseteq TypeIds
         /\ \A specs : NoSymbols(specs).types = {}
<1>1. DOMAIN RefType[k] \subseteq TypeIds
  BY DEF TypeIds, Kernels
<1> QED  BY <1>1 DEF SymbolsOf, Part, NoSymbols

LEMMA StepLoadSymbols ==
  ASSUME IInv, NEW k \in Kernels, LoadSymbols(k)
  PROVE  IInv'
<1>1. PICK s : s = SymbolsOf(k)
  OBVIOUS
<1>2. symbols' = s /\ reader' = reader /\ torn' = torn
  BY <1>1 DEF LoadSymbols
<1>3. PICK left \in 0 .. Len(eng.rules) : CheckAndAttach(eng, s, 0, left)
  BY <1>1, <1>2 DEF LoadSymbols
<1>4. reader = IdleReader /\ reader.stack = <<>> /\ ~reader.busy
  BY ReadyIsIdle DEF LoadSymbols, Ready
<1>5. s.types \subseteq TypeIds
  BY <1>1, SymbolsTyped
<1> QED  BY <1>2, <1>3, <1>4, <1>5, CheckableAnew, StepCheck

LEMMA StepParseSymbols ==
  ASSUME IInv, NEW k \in Kernels, ParseSymbols(k)
  PROVE  IInv'
<1>1. PICK s : s = NoSymbols(k)
  OBVIOUS
<1>2. reader' = reader /\ torn' = torn /\ CheckAndAttach(eng, s, 0, Len(eng.rules))
  BY <1>1 DEF ParseSymbols
<1>3. reader = IdleReader /\ reader.stack = <<>> /\ ~reader.busy
  BY ReadyIsIdle DEF ParseSymbols, Ready
<1>4. s.types \subseteq TypeIds
  BY <1>1, SymbolsTyped
<1>5. symbols'.types \subseteq TypeIds
  <2>1. symbols' \in {NoSymbols(k), SymbolsOf(k)} \cup {Part(k, ids) : ids \in Cuts}
    BY DEF ParseSymbols
  <2> QED  BY <2>1, SymbolsTyped
<1>6. Len(eng.rules) \in 0 .. Len(eng.rules)
  BY CheckableAnew
<1> QED  BY <1>2, <1>3, <1>4, <1>5, <1>6, CheckableAnew, StepCheck

(* The engine is left alone and all rules are left unchecked. *)
LEMMA StepUnchecked ==
  ASSUME IInv, Ready, eng' = eng, reader' = reader, torn' = torn,
         excused' = Indexes, symbols'.types \subseteq TypeIds
  PROVE  IInv'
<1>1. reader = IdleReader /\ reader.stack = <<>>
  BY ReadyIsIdle
<1>2. Nested' /\ Pending' = {} /\ reader' \in Readers /\ reader'.stack = <<>>
  BY <1>1, IdleNested
<1>3. RulesOnce' /\ RulesNamed'
  BY <1>1, SameRules DEF IInv
<1>4. TypeOK' /\ Consistent(eng)'
  BY <1>2 DEF IInv, TypeOK
<1>5. Agrees(eng, symbols, excused \cup Pending)'
  <2>1. DOMAIN eng.rules = Indexes
    BY DEF Indexes, IInv, TypeOK, Engine
  <2> QED  BY <2>1 DEF Agrees
<1> QED  BY <1>2, <1>3, <1>4, <1>5 DEF IInv

LEMMA StepLoadSymbolsFails ==
  ASSUME IInv, NEW k \in Kernels, LoadSymbolsFails(k)
  PROVE  IInv'
<1>1. Ready /\ eng' = eng /\ reader' = reader /\ torn' = torn /\ excused' = Indexes
  BY DEF LoadSymbolsFails
<1>2. symbols' \in {NoSymbols(None), NoSymbols(k)} \cup {Part(k, ids) : ids \in Cuts}
  BY DEF LoadSymbolsFails
<1>3. symbols'.types \subseteq TypeIds
  BY <1>2, SymbolsTyped
<1> QED  BY <1>1, <1>3, StepUnchecked

LEMMA StepParseSpecsFails ==
  ASSUME IInv, ParseSpecsFails
  PROVE  IInv'
<1>1. Ready /\ eng' = eng /\ reader' = reader /\ torn' = torn /\ excused' = Indexes
  BY DEF ParseSpecsFails
<1>2. symbols' = NoSymbols(symbols.specs)
  BY DEF ParseSpecsFails
<1>3. symbols'.types \subseteq TypeIds
  BY <1>2 DEF NoSymbols
<1> QED  BY <1>1, <1>3, StepUnchecked

LEMMA EmptyEngineIs ==
  /\ EmptyEngine \in Engine /\ Consistent(EmptyEngine)
  /\ EmptyEngine.rules = <<>> /\ EmptyEngine.files = <<>>
<1>1. PICK e : e = EmptyEngine
  OBVIOUS
<1>2. /\ e.rules = <<>> /\ e.files = <<>> /\ e.hits = <<>> /\ e.active = <<>>
      /\ \A t \in TypeIds : e.listed[t] = <<>>
  BY <1>1 DEF EmptyEngine
<1>3. Range(<<>>) = {} /\ IsInjective(<<>>) /\ DOMAIN <<>> = {} /\ Len(<<>>) = 0
  BY DEF Range, IsInjective
<1>4. e \in Engine
  <2>1. <<>> \in Seq(Nat) /\ <<>> \in Seq([rule : Rules, index : Nat]) /\ <<>> \in Seq(Files \cup {None})
    OBVIOUS
  <2>2. [t \in TypeIds |-> <<>>] \in [TypeIds -> Seq(Nat)]
    BY <2>1
  <2> QED  BY <1>1, <2>1, <2>2 DEF EmptyEngine, Engine
<1>5. Consistent(e)
  <2>1. Range(e.active) = {} /\ IsInjective(e.active) /\ DOMAIN e.hits = {}
    BY <1>2, <1>3
  <2>2. \A t \in TypeIds : Range(e.listed[t]) = {} /\ IsInjective(e.listed[t])
    BY <1>2, <1>3
  <2>3. Len(e.hits) <= Len(e.rules)
    BY <1>2, <1>3
  <2> QED  BY <2>1, <2>2, <2>3 DEF Consistent
<1> QED  BY <1>1, <1>2, <1>4, <1>5

\* Nothing has been read
LEMMA NothingRead ==
  ASSUME eng.rules = <<>>, eng.files = <<>>
  PROVE  RulesOnce /\ RulesNamed /\ \A s, X : Agrees(eng, s, X)
<1>1. Indexes = {} /\ DOMAIN eng.rules = {}
  BY DEF Indexes
<1>2. \A f, n : ~HasRead(f, n)
  BY DEF HasRead, FilesRead, Range
<1>3. \A r : CopiesOf(r) = {}
  BY <1>1 DEF CopiesOf
<1>4. RulesOnce
  BY <1>2, <1>3 DEF RulesOnce
<1> QED  BY <1>1, <1>4 DEF RulesNamed, Agrees

LEMMA StepFlushRules ==
  ASSUME IInv, FlushRules
  PROVE  IInv'
<1>1. Ready /\ eng' = EmptyEngine /\ reader' = reader /\ symbols' = symbols
  BY DEF FlushRules
<1>2. reader = IdleReader
  BY <1>1, ReadyIsIdle
<1>3. Nested' /\ Pending' = {} /\ reader' \in Readers
  BY <1>1, <1>2, IdleNested
<1>4. TypeOK' /\ Consistent(eng)'
  BY <1>1, <1>3, EmptyEngineIs DEF IInv, TypeOK
<1>5. eng'.rules = <<>> /\ eng'.files = <<>>
  BY <1>1, EmptyEngineIs
<1>6. Indexes' = {} /\ DOMAIN (eng'.rules) = {}
  BY <1>5 DEF Indexes
<1>7. \A f, n : ~HasRead(f, n)'
  BY <1>5 DEF HasRead, FilesRead, Range
<1>8. \A r : CopiesOf(r)' = {}
  BY <1>6 DEF CopiesOf
<1>9. RulesOnce'
  BY <1>7, <1>8 DEF RulesOnce
<1>10. RulesNamed' /\ Agrees(eng, symbols, excused \cup Pending)'
  BY <1>6 DEF RulesNamed, Agrees
<1> QED  BY <1>3, <1>4, <1>9, <1>10 DEF IInv

LEMMA Initially == Init => IInv
<1> SUFFICES ASSUME Init PROVE IInv
  OBVIOUS
<1>1. eng = EmptyEngine /\ reader = IdleReader /\ symbols = NoSymbols(None)
  BY DEF Init
<1>2. reader.busy = FALSE /\ reader.stack = <<>> /\ DOMAIN <<>> = {}
  BY <1>1 DEF IdleReader
<1>3. reader \in Readers
  <2>1. <<>> \in Seq(Files) /\ <<>> \in Seq([file : Files, index : Nat, next : Nat])
    OBVIOUS
  <2> QED  BY <1>1, <2>1 DEF IdleReader, Readers
<1>4. Nested
  BY <1>1, <1>2 DEF Nested
<1>5. TypeOK /\ Consistent(eng)
  BY <1>1, <1>3, EmptyEngineIs DEF TypeOK, NoSymbols
<1>6. RulesOnce /\ RulesNamed /\ Agrees(eng, symbols, excused \cup Pending)
  BY <1>1, EmptyEngineIs, NothingRead
<1> QED  BY <1>4, <1>5, <1>6 DEF IInv

(* Enabling and disabling. *)
LEMMA StepSetActive ==
  ASSUME IInv, NEW i \in Indexes, SetActive(i)
  PROVE  IInv'
<1>1. Ready /\ reader' = reader /\ symbols' = symbols /\ torn' = torn
  BY DEF SetActive
<1>2. reader = IdleReader /\ Pending = {} /\ reader.stack = <<>>
  BY <1>1, ReadyIsIdle
<1>3. Nested' /\ Pending' = {} /\ reader' \in Readers /\ reader'.stack = <<>>
  BY <1>1, <1>2, IdleNested
<1>4. /\ eng \in Engine /\ Consistent(eng) /\ symbols.types \subseteq TypeIds
      /\ Agrees(eng, symbols, excused)
  BY <1>2 DEF IInv, TypeOK
<1>5. CASE i > Len(eng.hits)
  <2>1. eng' = eng /\ excused' = excused
    BY <1>5 DEF SetActive
  <2>2. excused' \cup Pending' = excused
    BY <1>3, <2>1
  <2>3. RulesOnce' /\ RulesNamed'
    BY <1>1, <2>1, SameRules DEF IInv
  <2> QED  BY <1>1, <1>3, <1>4, <2>1, <2>2, <2>3 DEF IInv, TypeOK
<1>6. CASE ~(i > Len(eng.hits))
  <2>1. PICK e : e = eng
    OBVIOUS
  <2>2. PICK s : s = symbols
    OBVIOUS
  <2>3. e.hits[i] = 0 /\ eng' = CheckRule(e, s, i) /\ excused' = excused \ {i}
    BY <1>6, <2>1, <2>2 DEF SetActive
  <2>4. i \in DOMAIN e.hits /\ i \in DOMAIN e.rules /\ DOMAIN e.rules = 1 .. Len(e.rules)
    BY <1>4, <1>6, <2>1 DEF Engine, Indexes
  <2>5. Listed(e, i) = {}
    <3>1. Cardinality(Listed(e, i)) = 0
      BY <1>4, <2>1, <2>3, <2>4 DEF Consistent
    <3>2. IsFiniteSet(Listed(e, i))
      <4>1. Listed(e, i) \subseteq TypeIds
        BY DEF Listed
      <4> QED  BY <4>1, TypesAssumption, FS_Subset DEF TypesAssumption
    <3> QED  BY <3>1, <3>2, FS_EmptySet
  <2>6. PICK g : g = CheckRule(e, s, i)
    OBVIOUS
  <2>7. /\ g \in Engine /\ Consistent(g)
        /\ g.rules = e.rules /\ g.files = e.files
        /\ Listed(g, i) = Wanted(s, e.rules[i].rule)
        /\ \A j : j # i => Listed(g, j) = Listed(e, j)
    BY <1>4, <2>1, <2>2, <2>4, <2>5, <2>6, CheckRuleKeeps
  <2>8. RulesOnce' /\ RulesNamed'
    BY <1>1, <2>1, <2>3, <2>6, <2>7, SameRules DEF IInv
  <2>9. TypeOK' /\ Consistent(eng)'
    BY <1>1, <1>3, <1>4, <2>3, <2>6, <2>7 DEF TypeOK
  <2>10. ASSUME NEW j \in DOMAIN g.rules, j \notin excused \ {i}
         PROVE  Listed(g, j) = Wanted(s, g.rules[j].rule)
    <3>1. CASE j = i
      BY <2>7, <3>1
    <3>2. CASE j # i
      <4>1. Listed(e, j) = Wanted(s, e.rules[j].rule)
        BY <1>4, <2>1, <2>2, <2>7, <2>10, <3>2 DEF Agrees
      <4> QED  BY <2>7, <3>2, <4>1
    <3> QED  BY <3>1, <3>2
  <2>11. Agrees(eng, symbols, excused \cup Pending)'
    BY <1>1, <1>3, <2>2, <2>3, <2>6, <2>10 DEF Agrees
  <2> QED  BY <1>3, <2>8, <2>9, <2>11 DEF IInv
<1> QED  BY <1>5, <1>6

LEMMA StepSetInactive ==
  ASSUME IInv, NEW i \in Indexes, SetInactive(i)
  PROVE  IInv'
<1>1. Ready /\ reader' = reader /\ symbols' = symbols /\ torn' = torn /\ excused' = excused \cup {i}
  BY DEF SetInactive
<1>2. reader = IdleReader /\ Pending = {} /\ reader.stack = <<>>
  BY <1>1, ReadyIsIdle
<1>3. Nested' /\ Pending' = {} /\ reader' \in Readers /\ reader'.stack = <<>>
  BY <1>1, <1>2, IdleNested
<1>4. /\ eng \in Engine /\ Consistent(eng) /\ symbols.types \subseteq TypeIds
      /\ Agrees(eng, symbols, excused)
  BY <1>2 DEF IInv, TypeOK
<1>5. PICK e : e = eng
  OBVIOUS
<1>6. PICK g : g = eng'
  OBVIOUS
<1>7. eng' = g /\ Disabled(e, i, g)
  BY <1>5, <1>6 DEF SetInactive, Disabled
<1>8. i \in DOMAIN e.hits
  BY <1>4, <1>5 DEF SetInactive, Consistent
<1>9. /\ g \in Engine /\ Consistent(g) /\ g.rules = e.rules /\ g.files = e.files
      /\ \A j : j # i => Listed(g, j) = Listed(e, j)
  BY <1>4, <1>5, <1>7, <1>8, EraseKeeps
<1>10. RulesOnce' /\ RulesNamed'
  BY <1>1, <1>5, <1>7, <1>9, SameRules DEF IInv
<1>11. TypeOK' /\ Consistent(eng)'
  BY <1>1, <1>3, <1>4, <1>7, <1>9 DEF TypeOK
<1>12. ASSUME NEW j \in DOMAIN g.rules, j \notin excused \cup {i}
       PROVE  Listed(g, j) = Wanted(symbols, g.rules[j].rule)
  <2>1. Listed(e, j) = Wanted(symbols, e.rules[j].rule)
    BY <1>4, <1>5, <1>9, <1>12 DEF Agrees
  <2> QED  BY <1>9, <1>12, <2>1
<1>13. Agrees(eng, symbols, excused \cup Pending)'
  BY <1>1, <1>3, <1>7, <1>12 DEF Agrees
<1> QED  BY <1>3, <1>10, <1>11, <1>13 DEF IInv
-----------------------------------------------------------------------------
(* The steps of reading.                                                    *)

(* What is listed depends on neither the files nor further rules. *)
LEMMA SameLists ==
  ASSUME NEW e \in Engine, NEW g \in Engine, Consistent(e), Len(e.rules) <= Len(g.rules),
         g.hits = e.hits, g.active = e.active, g.listed = e.listed
  PROVE  Consistent(g) /\ \A j : Listed(g, j) = Listed(e, j)
<1>1. \A j : Listed(g, j) = Listed(e, j)
  BY DEF Listed
<1>2. Len(e.hits) \in Nat /\ Len(e.rules) \in Nat /\ Len(g.rules) \in Nat
  BY DEF Engine
<1>3. Len(g.hits) <= Len(g.rules)
  BY <1>2 DEF Consistent
<1> QED  BY <1>1, <1>3 DEF Consistent

\* rd is what the reader becomes, up to the file that is opened: of the items
\* that rules are no more is read
Advanced(rd) ==
  /\ rd \in Readers /\ rd.busy /\ rd.from = reader.from
  /\ Len(rd.stack) = Len(reader.stack)
  /\ \A k \in DOMAIN reader.stack :
       LET f == reader.stack[k].file
       IN  /\ rd.stack[k].file = f /\ rd.stack[k].index = reader.stack[k].index
           /\ rd.stack[k].next \in 1 .. Len(Content[f]) + 1
           /\ \A n \in DOMAIN Content[f] : Content[f][n] \in Rules =>
                (n < rd.stack[k].next <=> n < reader.stack[k].next)

LEMMA StepOpen ==
  ASSUME IInv, reader.busy, NEW file \in Files, NEW rd, Advanced(rd), Open(file, rd),
         symbols' = symbols, excused' = excused, torn' = torn
  PROVE  IInv'
<1>1. /\ reader \in Readers /\ eng \in Engine /\ Consistent(eng) /\ Nested
      /\ symbols.types \subseteq TypeIds /\ Agrees(eng, symbols, excused \cup Pending)
      /\ RulesOnce /\ RulesNamed
  BY DEF IInv, TypeOK
<1>2. PICK K \in Nat : /\ K = Len(reader.stack) /\ K = Len(rd.stack)
                       /\ DOMAIN reader.stack = 1 .. K /\ DOMAIN rd.stack = 1 .. K
  BY <1>1 DEF Readers, Advanced
<1>3. /\ eng'.rules = eng.rules /\ eng'.hits = eng.hits
      /\ eng'.active = eng.active /\ eng'.listed = eng.listed
      /\ FilesRead' = FilesRead \cup {file} /\ eng' \in Engine
      /\ file \in FilesRead => eng'.files = eng.files
      /\ file \notin FilesRead => /\ Opened(file).index \in DOMAIN (eng'.files)
                                 /\ eng'.files[Opened(file).index] = file
      /\ \A n \in DOMAIN eng.files : n \in DOMAIN (eng'.files) /\ eng'.files[n] = eng.files[n]
  <2>1. CASE file \in FilesRead
    BY <1>1, <2>1 DEF Open, FilesRead
  <2>2. CASE file \notin FilesRead
    <3>1. eng' = [eng EXCEPT !.files = Append(@, file)]
      BY <2>2 DEF Open
    <3>2. PICK l \in Seq(Files \cup {None}) : l = eng.files
      BY <1>1 DEF Engine
    <3>3. PICK m : m = Append(l, file)
      OBVIOUS
    <3>4. /\ m \in Seq(Files \cup {None}) /\ DOMAIN m = DOMAIN l \cup {Len(l) + 1}
          /\ \A n \in DOMAIN l : m[n] = l[n]
          /\ m[Len(l) + 1] = file
      BY <3>3
    <3>5. /\ eng'.rules = eng.rules /\ eng'.hits = eng.hits
          /\ eng'.active = eng.active /\ eng'.listed = eng.listed
          /\ eng'.files = m /\ eng' \in Engine
      BY <1>1, <3>1, <3>2, <3>3, <3>4 DEF Engine
    <3>6. file # None
      BY ContentAssumption DEF ContentAssumption
    <3>7. FilesRead' = FilesRead \cup {file}
      BY <3>2, <3>4, <3>5, <3>6 DEF FilesRead, Range
    <3>8. Opened(file).index = Len(l) + 1
      BY <3>2 DEF Opened
    <3> QED  BY <2>2, <3>2, <3>4, <3>5, <3>7, <3>8
  <2> QED  BY <2>1, <2>2
<1>4. Consistent(eng)' /\ \A j : Listed(eng', j) = Listed(eng, j)
  <2>1. PICK g \in Engine : g = eng'
    BY <1>3
  <2>2. Len(eng.rules) \in Nat
    BY <1>1 DEF Engine
  <2> QED  BY <1>1, <1>3, <2>1, <2>2, SameLists
<1>5. reader' \in Readers /\ reader'.busy /\ reader'.from = reader.from
  <2>1. CASE file \in FilesRead
    BY <2>1 DEF Open, Advanced
  <2>2. CASE file \notin FilesRead
    <3>1. reader' = [rd EXCEPT !.stack = Append(@, Opened(file))]
      BY <2>2 DEF Open
    <3>2. PICK stack \in Seq([file : Files, index : Nat, next : Nat]) : stack = rd.stack
      BY DEF Advanced, Readers
    <3>3. PICK top \in [file : Files, index : Nat, next : Nat] : top = Opened(file)
      <4>1. Len(eng.files) \in Nat
        BY <1>1 DEF Engine
      <4>2. PICK n \in Nat : n = Len(eng.files) + 1
        BY <4>1
      <4>3. Opened(file) = [file |-> file, index |-> n, next |-> 1]
        BY <4>2 DEF Opened
      <4> QED  BY <4>3
    <3>4. Append(stack, top) \in Seq([file : Files, index : Nat, next : Nat])
      OBVIOUS
    <3>5. reader' = [rd EXCEPT !.stack = Append(stack, top)]
      BY <3>1, <3>2, <3>3
    <3> QED  BY <3>4, <3>5 DEF Advanced, Readers
  <2> QED  BY <2>1, <2>2
<1>6. Pending' = Pending
  BY <1>3, <1>5 DEF Pending
<1>7. TypeOK' /\ Agrees(eng, symbols, excused \cup Pending)'
  BY <1>1, <1>3, <1>4, <1>5, <1>6 DEF TypeOK, Agrees
<1>8. ASSUME NEW k \in 1 .. K
      PROVE  /\ rd.stack[k].file = reader.stack[k].file
             /\ rd.stack[k].next \in 1 .. Len(Content[rd.stack[k].file]) + 1
             /\ rd.stack[k].file \in FilesRead
             /\ rd.stack[k].index \in DOMAIN eng.files
             /\ eng.files[rd.stack[k].index] = rd.stack[k].file
             /\ \A l \in 1 .. K : rd.stack[k].file = rd.stack[l].file => k = l
  BY ZenonT(30), <1>1, <1>2 DEF Advanced, Nested
<1>9. \/ file \in FilesRead /\ reader'.stack = rd.stack
      \/ /\ file \notin FilesRead /\ DOMAIN (reader'.stack) = 1 .. K + 1
         /\ reader'.stack[K + 1] = Opened(file)
         /\ \A k \in 1 .. K : reader'.stack[k] = rd.stack[k]
  <2>1. CASE file \in FilesRead
    BY <2>1 DEF Open
  <2>2. CASE file \notin FilesRead
    <3>1. reader' = [rd EXCEPT !.stack = Append(@, Opened(file))]
      BY <2>2 DEF Open
    <3>2. reader'.stack = Append(rd.stack, Opened(file))
      BY <3>1 DEF Advanced, Readers
    <3>3. PICK stack \in Seq([file : Files, index : Nat, next : Nat]) : stack = rd.stack
      BY DEF Advanced, Readers
    <3>4. Len(stack) = K
      BY <1>2, <3>3
    <3> QED  BY <2>2, <3>2, <3>3, <3>4
  <2> QED  BY <2>1, <2>2
<1>10. Content[file] \in Seq(Rules \cup Files)
  BY ContentAssumption DEF ContentAssumption
<1>11. Nested'
  <2>1. CASE file \in FilesRead /\ reader'.stack = rd.stack
    <3>1. /\ \A k \in DOMAIN (reader'.stack) :
               /\ reader'.stack[k].file \in FilesRead'
               /\ reader'.stack[k].index \in DOMAIN (eng'.files)
               /\ eng'.files[reader'.stack[k].index] = reader'.stack[k].file
               /\ reader'.stack[k].next \in 1 .. Len(Content[reader'.stack[k].file]) + 1
          /\ \A k, l \in DOMAIN (reader'.stack) : reader'.stack[k].file = reader'.stack[l].file => k = l
      BY SMTT(30), <1>2, <1>3, <1>8, <2>1
    <3> QED  BY <1>1, <1>3, <1>5, <3>1 DEF Nested
  <2>2. CASE ~(file \in FilesRead /\ reader'.stack = rd.stack)
    <3>1. /\ file \notin FilesRead /\ DOMAIN (reader'.stack) = 1 .. K + 1
          /\ reader'.stack[K + 1] = Opened(file)
          /\ \A k \in 1 .. K : reader'.stack[k] = rd.stack[k]
      BY <1>9, <2>2
    <3>2. \A k \in 1 .. K + 1 : k = K + 1 \/ k \in 1 .. K
      OBVIOUS
    <3>3. 1 \in 1 .. Len(Content[file]) + 1
      BY <1>10
    <3>4. ASSUME NEW k \in DOMAIN (reader'.stack)
          PROVE  /\ reader'.stack[k].file \in FilesRead'
                 /\ reader'.stack[k].index \in DOMAIN (eng'.files)
                 /\ eng'.files[reader'.stack[k].index] = reader'.stack[k].file
                 /\ reader'.stack[k].next \in 1 .. Len(Content[reader'.stack[k].file]) + 1
      <4>1. CASE k = K + 1
        <5>1. /\ reader'.stack[k].file = file /\ reader'.stack[k].next = 1
              /\ reader'.stack[k].index = Opened(file).index
          BY <3>1, <4>1 DEF Opened
        <5> QED  BY <1>3, <3>1, <3>3, <5>1
      <4>2. CASE k \in 1 .. K
        BY SMTT(30), <1>3, <1>8, <3>1, <4>2
      <4> QED  BY <3>1, <3>2, <4>1, <4>2
    <3>5. ASSUME NEW k \in DOMAIN (reader'.stack), NEW l \in DOMAIN (reader'.stack),
                 reader'.stack[k].file = reader'.stack[l].file
          PROVE  k = l
      <4>1. reader'.stack[K + 1].file = file
        BY <3>1 DEF Opened
      <4>2. \A m \in 1 .. K : reader'.stack[m].file = rd.stack[m].file /\ rd.stack[m].file # file
        BY <1>8, <3>1
      <4>3. (k = K + 1 \/ k \in 1 .. K) /\ (l = K + 1 \/ l \in 1 .. K)
        BY <3>1, <3>2
      <4> QED  BY <1>8, <3>5, <4>1, <4>2, <4>3
    <3> QED  BY <1>1, <1>3, <1>5, <3>4, <3>5 DEF Nested
  <2> QED  BY <2>1, <2>2
<1>12. ASSUME NEW f \in Files, NEW n \in DOMAIN Content[f], Content[f][n] \in Rules
       PROVE  HasRead(f, n)' <=> HasRead(f, n)
  <2>1. \A k \in 1 .. K : reader.stack[k].file = f => (n < rd.stack[k].next <=> n < reader.stack[k].next)
    BY <1>2, <1>12 DEF Advanced
  <2>2. HasRead(f, n) <=> f \in FilesRead /\ \A k \in 1 .. K : rd.stack[k].file = f => n < rd.stack[k].next
    BY <1>2, <1>8, <2>1 DEF HasRead
  <2>3. CASE file \in FilesRead /\ reader'.stack = rd.stack
    <3>1. HasRead(f, n)' <=> f \in FilesRead' /\ \A k \in 1 .. K : rd.stack[k].file = f => n < rd.stack[k].next
      BY <1>2, <2>3 DEF HasRead
    <3>2. FilesRead' = FilesRead
      BY <1>3, <2>3
    <3> QED  BY <2>2, <3>1, <3>2
  <2>4. CASE ~(file \in FilesRead /\ reader'.stack = rd.stack)
    <3>1. /\ file \notin FilesRead /\ DOMAIN (reader'.stack) = 1 .. K + 1
          /\ reader'.stack[K + 1] = Opened(file)
          /\ \A k \in 1 .. K : reader'.stack[k] = rd.stack[k]
      BY <1>9, <2>4
    <3>2. \A k \in 1 .. K + 1 : k = K + 1 \/ k \in 1 .. K
      OBVIOUS
    <3>3. CASE f = file
      <4>1. K + 1 \in 1 .. K + 1 /\ reader'.stack[K + 1].file = file /\ reader'.stack[K + 1].next = 1
        BY <3>1 DEF Opened
      <4>2. ~(n < 1)
        <5>1. DOMAIN Content[f] = 1 .. Len(Content[f])
          BY <1>10, <3>3
        <5> QED  BY <5>1
      <4>3. ~HasRead(f, n)'
        BY <3>1, <3>3, <4>1, <4>2 DEF HasRead
      <4> QED  BY <2>2, <3>1, <3>3, <4>3
    <3>4. CASE f # file
      <4>1. reader'.stack[K + 1].file # f
        BY <3>1, <3>4 DEF Opened
      <4>2. HasRead(f, n)' <=> f \in FilesRead' /\ \A k \in 1 .. K : rd.stack[k].file = f => n < rd.stack[k].next
        <5>1. \A k \in 1 .. K : reader'.stack[k].file = rd.stack[k].file /\ reader'.stack[k].next = rd.stack[k].next
          BY <3>1
        <5>2. \A k \in 1 .. K + 1 : reader'.stack[k].file = f => k \in 1 .. K
          BY <3>2, <4>1
        <5>3. \A k \in 1 .. K : k \in 1 .. K + 1
          OBVIOUS
        <5>4. HasRead(f, n)' <=> f \in FilesRead' /\ \A k \in 1 .. K + 1 : reader'.stack[k].file = f => n < reader'.stack[k].next
          BY <3>1 DEF HasRead
        <5> QED  BY <5>1, <5>2, <5>3, <5>4
      <4> QED  BY <1>3, <2>2, <3>4, <4>2
    <3> QED  BY <3>3, <3>4
  <2> QED  BY <2>3, <2>4
<1>13. Indexes' = Indexes /\ \A r : CopiesOf(r)' = CopiesOf(r)
  BY <1>3 DEF Indexes, CopiesOf
<1>14. RulesOnce' /\ RulesNamed'
  <2>1. RulesOnce'
    BY <1>1, <1>12, <1>13 DEF RulesOnce
  <2>2. RulesNamed'
    <3>1. \A i \in Indexes : eng.rules[i].index \in DOMAIN (eng'.files) /\ RuleFile(i)' = RuleFile(i)
      BY <1>1, <1>3 DEF RulesNamed, RuleFile
    <3> QED  BY <1>1, <1>3, <1>13, <3>1 DEF RulesNamed, Names
  <2> QED  BY <2>1, <2>2
<1> QED  BY <1>4, <1>7, <1>11, <1>14 DEF IInv

LEMMA MemberOf ==
  ASSUME NEW S, NEW s \in Seq(S), NEW n \in 1 .. Len(s)
  PROVE  s[n] \in S
OBVIOUS

LEMMA StepReadNext ==
  ASSUME IInv, ReadNext
  PROVE  IInv'
<1>1. /\ reader.busy /\ reader.stack = <<>> /\ reader.todo # <<>>
      /\ symbols' = symbols /\ excused' = excused /\ torn' = torn
  BY DEF ReadNext
<1>2. reader \in Readers
  BY DEF IInv, TypeOK
<1>3. PICK todo \in Seq(Files) : todo = reader.todo /\ todo # <<>>
  BY <1>1, <1>2 DEF Readers
<1>4. PICK file \in Files : file = Head(todo)
  BY <1>3
<1>5. PICK rd : rd = [reader EXCEPT !.todo = Tail(@)]
  OBVIOUS
<1>6. Open(file, rd)
  BY <1>3, <1>4, <1>5 DEF ReadNext
<1>7. Tail(todo) \in Seq(Files)
  BY <1>3
<1>8. rd \in Readers /\ rd.busy /\ rd.from = reader.from /\ rd.stack = reader.stack
  BY <1>1, <1>2, <1>3, <1>5, <1>7 DEF Readers
<1>9. Advanced(rd)
  <2>1. DOMAIN reader.stack = {}
    BY <1>1
  <2> QED  BY <1>8, <2>1 DEF Advanced
<1> QED  BY <1>1, <1>6, <1>9, StepOpen

\* Where the reader is
LEMMA AtTop ==
  ASSUME IInv, reader.stack # <<>>
  PROVE  \E K \in Nat \ {0} :
           /\ K = Len(reader.stack) /\ DOMAIN reader.stack = 1 .. K
           /\ reader.stack \in Seq([file : Files, index : Nat, next : Nat])
           /\ Top = reader.stack[K] /\ Top \in [file : Files, index : Nat, next : Nat]
           /\ Top.file \in FilesRead
           /\ Top.index \in DOMAIN eng.files /\ eng.files[Top.index] = Top.file
           /\ Content[Top.file] \in Seq(Rules \cup Files)
           /\ Top.next \in 1 .. Len(Content[Top.file]) + 1
           /\ \A k \in 1 .. K : reader.stack[k].file = Top.file <=> k = K
<1>1. PICK stack \in Seq([file : Files, index : Nat, next : Nat]) : stack = reader.stack /\ stack # <<>>
  BY DEF IInv, TypeOK, Readers
<1>2. PICK K \in Nat \ {0} : K = Len(stack) /\ DOMAIN stack = 1 .. K /\ K \in 1 .. K
  BY <1>1
<1>3. Top = stack[K] /\ Top \in [file : Files, index : Nat, next : Nat]
  <2>1. Top = stack[K]
    BY <1>1, <1>2, Zenon DEF Top
  <2>2. stack[K] \in [file : Files, index : Nat, next : Nat]
    BY <1>1, <1>2, MemberOf
  <2> QED  BY <2>1, <2>2
<1>4. Content[Top.file] \in Seq(Rules \cup Files)
  BY <1>3, ContentAssumption DEF ContentAssumption
<1>5. /\ Top.index \in DOMAIN eng.files /\ eng.files[Top.index] = Top.file
      /\ Top.file \in FilesRead /\ Top.next \in 1 .. Len(Content[Top.file]) + 1
      /\ \A k \in 1 .. K : reader.stack[k].file = Top.file <=> k = K
  BY <1>1, <1>2, <1>3 DEF IInv, Nested
<1> QED  BY <1>1, <1>2, <1>3, <1>4, <1>5

\* The current file is read on
ReadOn == [reader EXCEPT !.stack[Len(reader.stack)].next = @ + 1]

LEMMA ReadOnIs ==
  ASSUME IInv, reader.stack # <<>>, reader.busy, NEW rd, rd = ReadOn
  PROVE  /\ rd \in Readers /\ rd.busy /\ rd.from = reader.from
         /\ Len(rd.stack) = Len(reader.stack) /\ DOMAIN rd.stack = DOMAIN reader.stack
         /\ \A k \in DOMAIN reader.stack :
              /\ rd.stack[k].file = reader.stack[k].file
              /\ rd.stack[k].index = reader.stack[k].index
              /\ rd.stack[k].next = reader.stack[k].next + (IF k = Len(reader.stack) THEN 1 ELSE 0)
<1>1. reader \in Readers
  BY DEF IInv, TypeOK
<1>2. PICK K \in Nat \ {0} :
        /\ K = Len(reader.stack) /\ DOMAIN reader.stack = 1 .. K
        /\ Top = reader.stack[K] /\ Top \in [file : Files, index : Nat, next : Nat]
  BY AtTop
<1>3. PICK stack \in Seq([file : Files, index : Nat, next : Nat]) : stack = reader.stack
  BY <1>1 DEF Readers
<1>4. PICK s : s = [stack EXCEPT ![K].next = @ + 1]
  OBVIOUS
<1>5. rd = [reader EXCEPT !.stack = s]
  BY <1>2, <1>3, <1>4, Zenon DEF ReadOn
<1>6. K \in 1 .. K /\ Len(stack) = K /\ stack[K] \in [file : Files, index : Nat, next : Nat]
  BY <1>2, <1>3
<1>7. PICK top \in [file : Files, index : Nat, next : Nat] :
        /\ top = [stack[K] EXCEPT !.next = @ + 1] /\ top.file = stack[K].file
        /\ top.index = stack[K].index /\ top.next = stack[K].next + 1
  <2>1. PICK old \in [file : Files, index : Nat, next : Nat] : old = stack[K]
    BY <1>6
  <2>2. PICK new : new = [file |-> old.file, index |-> old.index, next |-> old.next + 1]
    OBVIOUS
  <2>3. new \in [file : Files, index : Nat, next : Nat] /\ new.file = old.file
        /\ new.index = old.index /\ new.next = old.next + 1
    BY <2>1, <2>2
  <2>4. new = [stack[K] EXCEPT !.next = @ + 1]
    BY <2>1, <2>2
  <2> QED  BY <2>1, <2>3, <2>4
<1>8. s = [stack EXCEPT ![K] = top]
  BY <1>4, <1>7
<1>9. s \in Seq([file : Files, index : Nat, next : Nat]) /\ Len(s) = K /\ DOMAIN s = 1 .. K
  BY <1>6, <1>8
<1>10. ASSUME NEW k \in 1 .. K
       PROVE  s[k].file = stack[k].file /\ s[k].index = stack[k].index /\ s[k].next = stack[k].next + (IF k = K THEN 1 ELSE 0)
  <2>1. stack[k] \in [file : Files, index : Nat, next : Nat]
    BY <1>3, <1>6, MemberOf
  <2>2. CASE k = K
    <3>1. s[k] = top
      BY <1>6, <1>8, <2>2
    <3> QED  BY <1>7, <2>2, <3>1
  <2>3. CASE k # K
    <3>1. s[k] = stack[k]
      BY <1>6, <1>8, <2>3
    <3> QED  BY <2>1, <2>3, <3>1
  <2> QED  BY <2>2, <2>3
<1>11. rd \in Readers /\ rd.busy /\ rd.from = reader.from /\ rd.stack = s
  BY <1>1, <1>5, <1>9 DEF Readers
<1>12. /\ Len(rd.stack) = Len(reader.stack)
       /\ DOMAIN rd.stack = 1 .. K /\ DOMAIN reader.stack = 1 .. K
  BY <1>2, <1>9, <1>11
<1>13. ASSUME NEW k \in 1 .. K
       PROVE  /\ rd.stack[k].file = reader.stack[k].file
              /\ rd.stack[k].index = reader.stack[k].index
              /\ rd.stack[k].next = reader.stack[k].next + (IF k = Len(reader.stack) THEN 1 ELSE 0)
  BY <1>2, <1>3, <1>10, <1>11
<1> QED  BY <1>11, <1>12, <1>13

LEMMA StepReadFile ==
  ASSUME IInv, ReadItem, Content[Top.file][Top.next] \in Files
  PROVE  IInv'
<1>1. /\ reader.busy /\ reader.stack # <<>> /\ Top.next <= Len(Content[Top.file])
      /\ symbols' = symbols /\ excused' = excused /\ torn' = torn
  BY DEF ReadItem
<1>2. PICK K \in Nat \ {0} :
        /\ K = Len(reader.stack) /\ DOMAIN reader.stack = 1 .. K
        /\ Top = reader.stack[K] /\ Top \in [file : Files, index : Nat, next : Nat]
        /\ Content[Top.file] \in Seq(Rules \cup Files)
        /\ Top.next \in 1 .. Len(Content[Top.file]) + 1
        /\ \A k \in 1 .. K : reader.stack[k].file = Top.file <=> k = K
  BY <1>1, AtTop
<1>3. PICK file \in Files : file = Content[Top.file][Top.next]
  OBVIOUS
<1>4. PICK rd : rd = ReadOn
  OBVIOUS
<1>5. Open(file, rd)
  BY <1>3, <1>4 DEF ReadItem, ReadOn
<1>6. /\ rd \in Readers /\ rd.busy /\ rd.from = reader.from
      /\ Len(rd.stack) = Len(reader.stack)
      /\ \A k \in 1 .. K :
           /\ rd.stack[k].file = reader.stack[k].file
           /\ rd.stack[k].index = reader.stack[k].index
           /\ rd.stack[k].next = reader.stack[k].next + (IF k = K THEN 1 ELSE 0)
  BY <1>1, <1>2, <1>4, ReadOnIs
<1>7. ASSUME NEW k \in 1 .. K
      PROVE  LET f == reader.stack[k].file
             IN  /\ rd.stack[k].file = f /\ rd.stack[k].index = reader.stack[k].index
                 /\ rd.stack[k].next \in 1 .. Len(Content[f]) + 1
                 /\ \A n \in DOMAIN Content[f] : Content[f][n] \in Rules =>
                      (n < rd.stack[k].next <=> n < reader.stack[k].next)
  <2>1. reader.stack[k].next \in 1 .. Len(Content[reader.stack[k].file]) + 1
    BY <1>2 DEF IInv, Nested
  <2>2. CASE k = K
    <3>1. PICK c \in Seq(Rules \cup Files) : c = Content[Top.file]
      BY <1>2
    <3>2. PICK m \in 1 .. Len(c) : m = Top.next
      BY <1>1, <1>2, <3>1
    <3>3. c[m] \notin Rules
      BY <1>3, <3>1, <3>2, ContentAssumption DEF ContentAssumption
    <3>4. \A n \in DOMAIN c : c[n] \in Rules => (n < m + 1 <=> n < m)
      BY <3>1, <3>2, <3>3
    <3>5. /\ rd.stack[k].file = Top.file /\ rd.stack[k].next = m + 1 /\ reader.stack[k] = Top
          /\ rd.stack[k].index = Top.index
      BY <1>2, <1>6, <2>2, <3>2
    <3>6. m + 1 \in 1 .. Len(c) + 1
      BY <3>1, <3>2
    <3> QED  BY <3>1, <3>2, <3>4, <3>5, <3>6
  <2>3. CASE k # K
    <3>1. /\ rd.stack[k].file = reader.stack[k].file /\ rd.stack[k].next = reader.stack[k].next
          /\ rd.stack[k].index = reader.stack[k].index
      BY <1>6, <2>1, <2>3
    <3> QED  BY <2>1, <3>1
  <2> QED  BY <2>2, <2>3
<1>8. Advanced(rd)
  BY <1>2, <1>6, <1>7 DEF Advanced
<1> QED  BY <1>1, <1>5, <1>8, StepOpen

LEMMA StepReadRule ==
  ASSUME IInv, ReadItem, Content[Top.file][Top.next] \notin Files
  PROVE  IInv'
<1>1. /\ reader.busy /\ reader.stack # <<>> /\ Top.next <= Len(Content[Top.file])
      /\ symbols' = symbols /\ excused' = excused /\ torn' = torn
  BY DEF ReadItem
<1>2. PICK K \in Nat \ {0} :
        /\ K = Len(reader.stack) /\ DOMAIN reader.stack = 1 .. K
        /\ Top = reader.stack[K] /\ Top \in [file : Files, index : Nat, next : Nat]
        /\ Top.file \in FilesRead
        /\ Top.index \in DOMAIN eng.files /\ eng.files[Top.index] = Top.file
        /\ Content[Top.file] \in Seq(Rules \cup Files)
        /\ Top.next \in 1 .. Len(Content[Top.file]) + 1
        /\ \A k \in 1 .. K : reader.stack[k].file = Top.file <=> k = K
  BY <1>1, AtTop
<1>3. PICK file \in Files : file = Top.file
  BY <1>2
<1>0. PICK index \in Nat : index = Top.index
  BY <1>2
<1>4. PICK m \in 1 .. Len(Content[file]) : m = Top.next
  BY <1>1, <1>2, <1>3
<1>5. PICK rule \in Rules : rule = Content[file][m]
  <2>1. PICK c \in Seq(Rules \cup Files) : c = Content[file]
    BY <1>2, <1>3
  <2>2. c[m] \in Rules \cup Files
    BY <2>1, <1>4, MemberOf
  <2>3. c[m] \notin Files
    BY <1>3, <1>4, <2>1
  <2> QED  BY <2>1, <2>2, <2>3
<1>6. PICK rd : rd = ReadOn
  OBVIOUS
<1>7. reader' = rd /\ eng' = [eng EXCEPT !.rules = Append(@, [rule |-> rule, index |-> index])]
  BY <1>0, <1>3, <1>4, <1>5, <1>6 DEF ReadItem, ReadOn
<1>8. /\ rd \in Readers /\ rd.busy /\ rd.from = reader.from
      /\ Len(rd.stack) = Len(reader.stack) /\ DOMAIN rd.stack = 1 .. K
      /\ \A k \in 1 .. K :
           /\ rd.stack[k].file = reader.stack[k].file
           /\ rd.stack[k].index = reader.stack[k].index
           /\ rd.stack[k].next = reader.stack[k].next + (IF k = K THEN 1 ELSE 0)
  <2>1. /\ rd \in Readers /\ rd.busy /\ rd.from = reader.from
        /\ Len(rd.stack) = Len(reader.stack) /\ DOMAIN rd.stack = DOMAIN reader.stack
    BY <1>1, <1>6, ReadOnIs
  <2>2. \A k \in DOMAIN reader.stack :
           /\ rd.stack[k].file = reader.stack[k].file
           /\ rd.stack[k].index = reader.stack[k].index
           /\ rd.stack[k].next = reader.stack[k].next + (IF k = Len(reader.stack) THEN 1 ELSE 0)
    BY <1>1, <1>6, ReadOnIs
  <2> QED  BY <1>2, <2>1, <2>2
<1>9. /\ eng \in Engine /\ Consistent(eng) /\ Nested /\ symbols.types \subseteq TypeIds
      /\ Agrees(eng, symbols, excused \cup Pending) /\ RulesOnce /\ RulesNamed
  BY DEF IInv, TypeOK
<1>10. PICK rules \in Seq([rule : Rules, index : Nat]) : rules = eng.rules
  BY <1>9 DEF Engine
<1>11. PICK N \in Nat : N = Len(rules) /\ DOMAIN rules = 1 .. N
  OBVIOUS
<1>12. PICK new \in [rule : Rules, index : Nat] :
         new = [rule |-> rule, index |-> index] /\ new.rule = rule /\ new.index = index
  <2>1. PICK x : x = [rule |-> rule, index |-> index]
    OBVIOUS
  <2>2. x \in [rule : Rules, index : Nat] /\ x.rule = rule /\ x.index = index
    BY <1>5, <2>1
  <2> QED  BY <2>1, <2>2
<1>13. PICK more : more = Append(rules, new)
  OBVIOUS
<1>14. /\ more \in Seq([rule : Rules, index : Nat]) /\ Len(more) = N + 1 /\ DOMAIN more = 1 .. N + 1
       /\ more[N + 1] = new /\ \A i \in 1 .. N : more[i] = rules[i]
  BY <1>11, <1>13
<1>15. eng' = [eng EXCEPT !.rules = more]
  BY <1>7, <1>10, <1>12, <1>13
<1>16. /\ eng'.rules = more /\ eng'.hits = eng.hits
       /\ eng'.active = eng.active /\ eng'.listed = eng.listed
       /\ eng'.files = eng.files /\ eng' \in Engine
  BY <1>9, <1>14, <1>15 DEF Engine
<1>17. Consistent(eng)' /\ \A j : Listed(eng', j) = Listed(eng, j)
  <2>1. PICK g \in Engine : g = eng'
    BY <1>16
  <2>2. Len(eng.rules) <= Len(g.rules)
    BY <1>10, <1>11, <1>14, <1>16, <2>1
  <2> QED  BY <1>9, <1>16, <2>1, <2>2, SameLists
<1>18. \A i \in 1 .. N + 1 : i \in 1 .. N \/ i = N + 1
  OBVIOUS
<1>19. Agrees(eng, symbols, excused \cup Pending)'
  <2>1. reader.from \in Nat /\ reader.from <= N
    BY <1>1, <1>9, <1>10, <1>11 DEF Nested, IInv, TypeOK, Readers
  <2>2. Pending = reader.from + 1 .. N /\ Pending' = reader.from + 1 .. N + 1
    BY <1>1, <1>7, <1>8, <1>10, <1>11, <1>14, <1>16 DEF Pending
  <2>3. ASSUME NEW i \in 1 .. N + 1, i \notin excused \cup Pending'
        PROVE  Listed(eng, i) = Wanted(symbols, more[i].rule)
    <3>1. i \in 1 .. N /\ i \notin Pending
      BY <2>1, <2>2, <2>3
    <3>2. Listed(eng, i) = Wanted(symbols, rules[i].rule)
      BY <1>9, <1>10, <1>11, <2>3, <3>1 DEF Agrees
    <3> QED  BY <1>14, <3>1, <3>2
  <2> QED  BY <1>1, <1>14, <1>16, <1>17, <2>3 DEF Agrees
<1>20. TypeOK'
  BY <1>1, <1>7, <1>8, <1>9, <1>16 DEF TypeOK
<1>21. Nested'
  <2>1. ASSUME NEW k \in 1 .. K
        PROVE  /\ rd.stack[k].file \in FilesRead
               /\ rd.stack[k].index \in DOMAIN eng.files
               /\ eng.files[rd.stack[k].index] = rd.stack[k].file
               /\ rd.stack[k].next \in 1 .. Len(Content[rd.stack[k].file]) + 1
               /\ \A l \in 1 .. K : rd.stack[k].file = rd.stack[l].file => k = l
    <3>1. /\ reader.stack[k].file \in FilesRead
          /\ reader.stack[k].index \in DOMAIN eng.files
          /\ eng.files[reader.stack[k].index] = reader.stack[k].file
          /\ reader.stack[k].next \in 1 .. Len(Content[reader.stack[k].file]) + 1
          /\ \A l \in 1 .. K : reader.stack[k].file = reader.stack[l].file => k = l
      BY <1>2, <1>9 DEF Nested
    <3>2. CASE k = K
      <4>1. rd.stack[k].file = file /\ rd.stack[k].next = m + 1
        BY <1>2, <1>3, <1>4, <1>8, <3>2
      <4>2. Len(Content[file]) \in Nat
        BY SMTT(30), <1>2, <1>3
      <4>3. m + 1 \in 1 .. Len(Content[file]) + 1
        BY <1>4, <4>2
      <4> QED  BY <1>8, <3>1, <4>1, <4>3
    <3>3. CASE k # K
      <4>1. rd.stack[k].next = reader.stack[k].next
        BY SMTT(30), <1>8, <3>1, <3>3
      <4> QED  BY <1>8, <3>1, <4>1
    <3> QED  BY <3>2, <3>3
  <2>2. Len(eng.hits) <= reader.from /\ reader.from <= N /\ reader.from \in Nat
    BY <1>1, <1>9, <1>10, <1>11 DEF Nested, IInv, TypeOK, Readers
  <2>3. reader.from <= N + 1
    BY <2>2
  <2>4. FilesRead' = FilesRead
    BY <1>16 DEF FilesRead
  <2>5. DOMAIN (reader'.stack) = 1 .. K /\ reader'.stack = rd.stack /\ reader'.busy /\ reader'.from = reader.from
    BY <1>7, <1>8
  <2>6. Len(eng'.hits) <= reader'.from /\ reader'.from <= Len(eng'.rules)
    BY <1>14, <1>16, <2>2, <2>3, <2>5
  <2>7. \A k \in 1 .. K : reader'.stack[k].file \in FilesRead' /\ eng'.files = eng.files
    BY <1>16, <2>1, <2>4, <2>5
  <2>8. \A k \in DOMAIN (reader'.stack) :
          /\ reader'.stack[k].file \in FilesRead'
          /\ reader'.stack[k].index \in DOMAIN (eng'.files)
          /\ eng'.files[reader'.stack[k].index] = reader'.stack[k].file
          /\ reader'.stack[k].next \in 1 .. Len(Content[reader'.stack[k].file]) + 1
    BY <1>16, <2>1, <2>5, <2>7
  <2>9. \A k, l \in DOMAIN (reader'.stack) : reader'.stack[k].file = reader'.stack[l].file => k = l
    BY <2>1, <2>5
  <2> QED  BY <2>5, <2>6, <2>8, <2>9 DEF Nested
<1>22. Indexes = 1 .. N /\ Indexes' = 1 .. N + 1
  BY <1>10, <1>11, <1>14, <1>16 DEF Indexes
<1>23. ASSUME NEW r PROVE CopiesOf(r)' = IF r = rule THEN CopiesOf(r) \cup {N + 1} ELSE CopiesOf(r)
  <2>1. CopiesOf(r)' = {i \in 1 .. N + 1 : more[i].rule = r}
    BY <1>16, <1>22 DEF CopiesOf
  <2>2. CopiesOf(r) = {i \in 1 .. N : rules[i].rule = r}
    BY <1>10, <1>22 DEF CopiesOf
  <2>3. \A i \in 1 .. N : i \in 1 .. N + 1 /\ more[i].rule = rules[i].rule
    BY <1>14
  <2>4. N + 1 \in 1 .. N + 1 /\ more[N + 1].rule = rule
    BY <1>12, <1>14
  <2> QED  BY <1>18, <2>1, <2>2, <2>3, <2>4
<1>24. ASSUME NEW f \in Files, NEW n \in DOMAIN Content[f]
       PROVE  HasRead(f, n)' <=> HasRead(f, n) \/ (f = file /\ n = m)
  <2>1. n \in Nat
    BY ContentAssumption DEF ContentAssumption
  <2>2. HasRead(f, n)' <=> f \in FilesRead /\ \A k \in 1 .. K : reader.stack[k].file = f => n < rd.stack[k].next
    <3>1. FilesRead' = FilesRead /\ reader'.stack = rd.stack
      BY <1>7, <1>16 DEF FilesRead
    <3>2. HasRead(f, n)' <=> f \in FilesRead /\ \A k \in 1 .. K : rd.stack[k].file = f => n < rd.stack[k].next
      BY <1>8, <3>1 DEF HasRead
    <3> QED  BY <1>8, <3>2
  <2>3. HasRead(f, n) <=> f \in FilesRead /\ \A k \in 1 .. K : reader.stack[k].file = f => n < reader.stack[k].next
    BY <1>2 DEF HasRead
  <2>4. K \in 1 .. K /\ \A k \in 1 .. K : reader.stack[k].file = file <=> k = K
    BY <1>2, <1>3
  <2>5. reader.stack[K].next = m /\ rd.stack[K].next = m + 1
    <3>1. rd.stack[K].next = reader.stack[K].next + 1
      BY <1>8, <2>4
    <3>2. reader.stack[K].next = m
      BY <1>2, <1>4
    <3> QED  BY <3>1, <3>2
  <2>6. CASE f = file
    <3>1. f \in FilesRead
      BY <1>2, <1>3, <2>6
    <3>2. (HasRead(f, n)' <=> n < m + 1) /\ (HasRead(f, n) <=> n < m)
      BY <2>2, <2>3, <2>4, <2>5, <2>6, <3>1
    <3>3. n < m + 1 <=> n < m \/ n = m
      BY <2>1
    <3> QED  BY <2>6, <3>2, <3>3
  <2>7. CASE f # file
    <3>1. \A k \in 1 .. K : reader.stack[k].file = f => rd.stack[k].next = reader.stack[k].next
      <4>1. \A k \in 1 .. K : reader.stack[k].next \in Nat
        <5>1. PICK stack \in Seq([file : Files, index : Nat, next : Nat]) : stack = reader.stack
          BY DEF IInv, TypeOK, Readers
        <5>2. \A k \in 1 .. K : stack[k] \in [file : Files, index : Nat, next : Nat]
          BY <1>2, <5>1, MemberOf
        <5> QED  BY <5>1, <5>2
      <4>2. \A k \in 1 .. K : reader.stack[k].file = f => k # K
        BY <2>4, <2>7
      <4> QED  BY <1>8, <4>1, <4>2
    <3> QED  BY <2>2, <2>3, <2>7, <3>1
  <2> QED  BY <2>6, <2>7
<1>25. RulesOnce'
  <2>1. ASSUME NEW f \in Files \ torn, NEW n \in DOMAIN Content[f], Content[f][n] \in Rules
        PROVE  IF HasRead(f, n)' THEN \E i \in 1 .. N + 1 : CopiesOf(Content[f][n])' = {i}
               ELSE CopiesOf(Content[f][n])' = {}
    <3>1. PICK r \in Rules : r = Content[f][n]
      BY <2>1
    <3>2. IF HasRead(f, n) THEN \E i \in 1 .. N : CopiesOf(r) = {i} ELSE CopiesOf(r) = {}
      BY <1>9, <1>22, <3>1 DEF RulesOnce
    <3>3. CASE r = rule
      <4>1. m \in DOMAIN Content[file]
        BY <1>2, <1>3, <1>4
      <4>2. f = file /\ n = m
        BY <1>5, <3>1, <3>3, <4>1, ContentAssumption DEF ContentAssumption
      <4>3. ~HasRead(f, n)
        <5>1. K \in 1 .. K /\ reader.stack[K].file = f /\ reader.stack[K].next = m
          BY <1>2, <1>3, <1>4, <4>2
        <5>2. ~(m < m)
          OBVIOUS
        <5> QED  BY <1>2, <4>2, <5>1, <5>2 DEF HasRead
      <4>4. CopiesOf(r)' = {N + 1} /\ N + 1 \in 1 .. N + 1
        BY <1>23, <3>2, <3>3, <4>3
      <4>5. HasRead(f, n)'
        BY <1>24, <4>2
      <4> QED  BY <3>1, <4>4, <4>5
    <3>4. CASE r # rule
      <4>1. ~(f = file /\ n = m)
        BY <1>5, <3>1, <3>4
      <4>2. (HasRead(f, n)' <=> HasRead(f, n)) /\ CopiesOf(r)' = CopiesOf(r)
        BY <1>23, <1>24, <3>4, <4>1
      <4>3. 1 .. N \subseteq 1 .. N + 1
        OBVIOUS
      <4> QED  BY <3>1, <3>2, <4>2, <4>3
    <3> QED  BY <3>3, <3>4
  <2> QED  BY <1>1, <1>22, <2>1 DEF RulesOnce
<1>26. RulesNamed'
  <2>1. rule \in RulesOf(file)
    <3>1. m \in DOMAIN Content[file]
      BY <1>2, <1>3, <1>4
    <3> QED  BY <1>5, <3>1 DEF RulesOf, Range
  <2>2. \A i \in 1 .. N : /\ rules[i].index \in DOMAIN eng.files
                          /\ \E f \in Files : rules[i].rule \in RulesOf(f) /\ Names(i, f)
    BY <1>9, <1>10, <1>22 DEF RulesNamed
  <2>3. \A i \in 1 .. N, f \in Files : more[i] = rules[i] /\ (Names(i, f)' <=> Names(i, f))
    BY <1>1, <1>10, <1>14, <1>16 DEF Names, RuleFile
  <2>4. more[N + 1].rule \in RulesOf(file) /\ more[N + 1].index \in DOMAIN eng.files /\ Names(N + 1, file)'
    <3>1. eng'.files[more[N + 1].index] = file
      BY <1>0, <1>2, <1>3, <1>12, <1>14, <1>16
    <3> QED  BY <1>0, <1>2, <1>12, <1>14, <1>16, <2>1, <3>1 DEF Names, RuleFile
  <2>5. ASSUME NEW i \in 1 .. N + 1
        PROVE  /\ more[i].index \in DOMAIN eng.files
               /\ \E f \in Files : more[i].rule \in RulesOf(f) /\ Names(i, f)'
    <3>1. CASE i = N + 1
      BY <2>4, <3>1
    <3>2. CASE i \in 1 .. N
      BY <2>2, <2>3, <3>2
    <3> QED  BY <1>18, <3>1, <3>2
  <2> QED  BY <1>16, <1>22, <2>5 DEF RulesNamed
<1> QED  BY <1>17, <1>19, <1>20, <1>21, <1>25, <1>26 DEF IInv

LEMMA StepEndOfFile ==
  ASSUME IInv, EndOfFile
  PROVE  IInv'
<1>1. /\ reader.busy /\ reader.stack # <<>> /\ Top.next > Len(Content[Top.file])
      /\ reader' = [reader EXCEPT !.stack = Front(@)]
      /\ eng' = eng /\ symbols' = symbols /\ excused' = excused /\ torn' = torn
  BY DEF EndOfFile
<1>2. PICK K \in Nat \ {0} :
        /\ K = Len(reader.stack) /\ DOMAIN reader.stack = 1 .. K
        /\ reader.stack \in Seq([file : Files, index : Nat, next : Nat])
        /\ Top = reader.stack[K] /\ Top \in [file : Files, index : Nat, next : Nat]
        /\ Top.file \in FilesRead
        /\ Content[Top.file] \in Seq(Rules \cup Files)
        /\ \A k \in 1 .. K : reader.stack[k].file = Top.file <=> k = K
  BY <1>1, AtTop
<1>3. PICK stack \in Seq([file : Files, index : Nat, next : Nat]) : stack = reader.stack /\ Len(stack) = K
  BY <1>2
<1>4. PICK front : front = Front(stack)
  OBVIOUS
<1>5. /\ front \in Seq([file : Files, index : Nat, next : Nat]) /\ DOMAIN front = 1 .. K - 1
      /\ \A k \in 1 .. K - 1 : front[k] = stack[k]
  <2>1. front = SubSeq(stack, 1, K - 1)
    BY <1>3, <1>4, Zenon DEF Front
  <2>2. 1 .. K - 1 \subseteq 1 .. K /\ K - 1 \in Nat
    BY <1>2
  <2>3. \A k \in 1 .. K - 1 : stack[k] \in [file : Files, index : Nat, next : Nat]
    BY <1>3, <2>2, MemberOf
  <2> QED  BY <1>3, <2>1, <2>2, <2>3
<1>6. /\ reader'.stack = front /\ reader'.busy /\ reader'.from = reader.from
      /\ reader' \in Readers
  <2>1. reader \in Readers
    BY DEF IInv, TypeOK
  <2>2. reader' = [reader EXCEPT !.stack = front]
    BY <1>1, <1>3, <1>4
  <2> QED  BY <1>1, <1>5, <2>1, <2>2 DEF Readers
<1>7. \A k \in 1 .. K : k \in 1 .. K - 1 \/ k = K
  BY <1>2
<1>8. 1 .. K - 1 \subseteq 1 .. K /\ K \in 1 .. K /\ K \notin 1 .. K - 1
  BY <1>2
<1>9. Pending' = Pending
  BY <1>1, <1>6 DEF Pending
<1>10. TypeOK' /\ Consistent(eng)' /\ Agrees(eng, symbols, excused \cup Pending)'
  <2>1. TypeOK /\ Consistent(eng) /\ Agrees(eng, symbols, excused \cup Pending)
    BY DEF IInv
  <2> QED  BY <1>1, <1>6, <1>9, <2>1 DEF TypeOK
<1>11. Nested'
  <2>1. Nested
    BY DEF IInv
  <2>2. \A k \in 1 .. K : /\ stack[k].file \in FilesRead
                          /\ stack[k].index \in DOMAIN eng.files
                          /\ eng.files[stack[k].index] = stack[k].file
                          /\ stack[k].next \in 1 .. Len(Content[stack[k].file]) + 1
                          /\ \A l \in 1 .. K : stack[k].file = stack[l].file => k = l
    BY <1>2, <1>3, <2>1 DEF Nested
  <2>3. /\ \A k \in DOMAIN (reader'.stack) :
               /\ reader'.stack[k].file \in FilesRead'
               /\ reader'.stack[k].index \in DOMAIN (eng'.files)
               /\ eng'.files[reader'.stack[k].index] = reader'.stack[k].file
               /\ reader'.stack[k].next \in 1 .. Len(Content[reader'.stack[k].file]) + 1
        /\ \A k, l \in DOMAIN (reader'.stack) : reader'.stack[k].file = reader'.stack[l].file => k = l
    <3>1. \A k \in 1 .. K - 1 : k \in 1 .. K /\ reader'.stack[k] = stack[k]
      BY <1>5, <1>6, <1>8
    <3>2. DOMAIN (reader'.stack) = 1 .. K - 1 /\ eng'.files = eng.files /\ FilesRead' = FilesRead
      BY <1>1, <1>5, <1>6 DEF FilesRead
    <3> QED  BY <2>2, <3>1, <3>2
  <2>4. Len(eng'.hits) <= reader'.from /\ reader'.from <= Len(eng'.rules)
    BY <1>1, <1>6, <2>1 DEF Nested
  <2> QED  BY <1>6, <2>3, <2>4 DEF Nested
<1>12. ASSUME NEW f \in Files, NEW n \in DOMAIN Content[f]
       PROVE  HasRead(f, n)' <=> HasRead(f, n)
  <2>1. HasRead(f, n)' <=> f \in FilesRead /\ \A k \in 1 .. K - 1 : stack[k].file = f => n < stack[k].next
    BY <1>1, <1>5, <1>6 DEF HasRead, FilesRead
  <2>2. HasRead(f, n) <=> f \in FilesRead /\ \A k \in 1 .. K : stack[k].file = f => n < stack[k].next
    BY <1>2, <1>3 DEF HasRead
  <2>3. stack[K].file = f => n < stack[K].next
    <3>1. SUFFICES ASSUME Top.file = f PROVE n < Top.next
      BY <1>2, <1>3
    <3>2. PICK c \in Seq(Rules \cup Files) : c = Content[f]
      BY <1>2, <3>1
    <3>3. n \in 1 .. Len(c) /\ Top.next > Len(c) /\ Top.next \in Nat /\ Len(c) \in Nat
      BY <1>1, <1>2, <3>1, <3>2
    <3> QED  BY <3>3
  <2> QED  BY <1>7, <1>8, <2>1, <2>2, <2>3
<1>13. Indexes' = Indexes /\ \A r : CopiesOf(r)' = CopiesOf(r)
  BY <1>1 DEF Indexes, CopiesOf
<1>14. RulesOnce'
  <2>1. RulesOnce
    BY DEF IInv
  <2> QED  BY <1>1, <1>12, <1>13, <2>1 DEF RulesOnce
<1>15. RulesNamed'
  <2>1. RulesNamed
    BY DEF IInv
  <2> QED  BY <1>1, <1>13, <2>1 DEF RulesNamed, Names, RuleFile
<1> QED  BY <1>10, <1>11, <1>14, <1>15 DEF IInv

LEMMA StepBreak ==
  ASSUME IInv, NEW file \in Files, Break(file)
  PROVE  IInv'
<1>1. /\ reader.busy /\ reader' = IdleReader /\ symbols' = symbols
      /\ eng' = [eng EXCEPT !.files = [n \in DOMAIN @ |-> IF @[n] = file THEN None ELSE @[n]]]
      /\ torn' = torn \cup ((Waiting \cup {file}) \cap FilesRead)
      /\ excused' = excused \cup reader.from + 1 .. Len(eng.rules)
  BY DEF Break
<1>2. /\ eng \in Engine /\ Consistent(eng) /\ Nested /\ symbols.types \subseteq TypeIds
      /\ Agrees(eng, symbols, excused \cup Pending) /\ RulesOnce /\ RulesNamed
  BY DEF IInv, TypeOK
<1>3. /\ eng'.rules = eng.rules /\ eng'.hits = eng.hits
      /\ eng'.active = eng.active /\ eng'.listed = eng.listed
      /\ FilesRead' = FilesRead \ {file} /\ eng' \in Engine
      /\ DOMAIN (eng'.files) = DOMAIN eng.files
      /\ \A n \in DOMAIN eng.files : eng'.files[n] = IF eng.files[n] = file THEN None ELSE eng.files[n]
  <2>1. PICK l \in Seq(Files \cup {None}) : l = eng.files
    BY <1>2 DEF Engine
  <2>2. PICK m : m = [n \in DOMAIN l |-> IF l[n] = file THEN None ELSE l[n]]
    OBVIOUS
  <2>3. m \in Seq(Files \cup {None}) /\ DOMAIN m = DOMAIN l
    BY <2>1, <2>2
  <2>4. eng' = [eng EXCEPT !.files = m]
    BY <1>1, <2>1, <2>2
  <2>5. /\ eng'.rules = eng.rules /\ eng'.hits = eng.hits
        /\ eng'.active = eng.active /\ eng'.listed = eng.listed
        /\ eng'.files = m /\ eng' \in Engine
    BY <1>2, <2>3, <2>4 DEF Engine
  <2>6. file # None
    BY ContentAssumption DEF ContentAssumption
  <2>7. FilesRead' = FilesRead \ {file}
    BY <2>1, <2>2, <2>3, <2>5, <2>6 DEF FilesRead, Range
  <2> QED  BY <2>1, <2>2, <2>3, <2>5, <2>7
<1>4. Consistent(eng)' /\ \A j : Listed(eng', j) = Listed(eng, j)
  <2>1. PICK g \in Engine : g = eng'
    BY <1>3
  <2>2. Len(eng.rules) \in Nat
    BY <1>2 DEF Engine
  <2> QED  BY <1>2, <1>3, <2>1, <2>2, SameLists
<1>5. Nested' /\ Pending' = {} /\ reader' \in Readers /\ reader'.stack = <<>>
  BY <1>1, IdleNested
<1>6. excused' = excused \cup Pending
  BY <1>1 DEF Pending
<1>7. TypeOK' /\ Agrees(eng, symbols, excused \cup Pending)'
  <2>1. excused' \cup Pending' = excused \cup Pending
    BY <1>5, <1>6
  <2> QED  BY <1>1, <1>2, <1>3, <1>4, <1>5, <2>1 DEF TypeOK, Agrees
<1>8. ASSUME NEW f \in Files \ torn', NEW n
      PROVE  HasRead(f, n)' <=> HasRead(f, n)
  <2>1. HasRead(f, n)' <=> f \in FilesRead /\ f # file
    <3>1. DOMAIN (reader'.stack) = {}
      BY <1>5
    <3> QED  BY <1>3, <3>1 DEF HasRead
  <2>2. f \in FilesRead => f \notin Waiting /\ f # file
    BY <1>1, <1>8
  <2>3. \A k \in DOMAIN reader.stack : reader.stack[k].file \in Waiting
    BY DEF Waiting
  <2> QED  BY <2>1, <2>2, <2>3 DEF HasRead
<1>9. Indexes' = Indexes /\ \A r : CopiesOf(r)' = CopiesOf(r)
  BY <1>3 DEF Indexes, CopiesOf
<1>10. RulesOnce'
  <2>1. torn \subseteq torn'
    BY <1>1
  <2> QED  BY <1>2, <1>8, <1>9, <2>1 DEF RulesOnce
<1>11. RulesNamed'
  <2>1. ASSUME NEW i \in Indexes
        PROVE  /\ eng'.rules[i].index \in DOMAIN (eng'.files)
               /\ \E f \in Files : eng'.rules[i].rule \in RulesOf(f) /\ Names(i, f)'
    <3>1. eng.rules[i].index \in DOMAIN eng.files
      BY <1>2 DEF RulesNamed
    <3>2. PICK f \in Files : eng.rules[i].rule \in RulesOf(f) /\ Names(i, f)
      BY <1>2 DEF RulesNamed
    <3>3. RuleFile(i)' = IF RuleFile(i) = file THEN None ELSE RuleFile(i)
      BY <1>3, <3>1 DEF RuleFile
    <3>4. RuleFile(i) = file => file \in torn'
      BY <1>1, <3>1, ContentAssumption DEF ContentAssumption, RuleFile, FilesRead, Range
    <3>5. torn \subseteq torn'
      BY <1>1
    <3>6. Names(i, f)'
      BY <3>2, <3>3, <3>4, <3>5, ContentAssumption DEF Names, ContentAssumption
    <3> QED  BY <1>3, <3>1, <3>2, <3>6
  <2> QED  BY <1>3, <1>9, <2>1 DEF RulesNamed
<1> QED  BY <1>4, <1>5, <1>7, <1>10, <1>11 DEF IInv

-----------------------------------------------------------------------------
(* The theorems.                                                            *)

LEMMA Stuttering ==
  ASSUME IInv, UNCHANGED vars
  PROVE  IInv'
<1>1. /\ eng' = eng /\ reader' = reader /\ symbols' = symbols
      /\ excused' = excused /\ torn' = torn
  BY DEF vars
<1>2. Pending' = Pending /\ Indexes' = Indexes
  BY <1>1 DEF Pending, Indexes
<1>3. RulesOnce' /\ RulesNamed'
  BY <1>1, SameRules DEF IInv
<1>4. Nested'
  BY <1>1 DEF IInv, Nested, FilesRead
<1> QED  BY <1>1, <1>2, <1>3, <1>4 DEF IInv, TypeOK

LEMMA Inductive == IInv /\ [Next]_vars => IInv'
<1> SUFFICES ASSUME IInv, [Next]_vars PROVE IInv'
  OBVIOUS
<1>1. CASE UNCHANGED vars
  BY <1>1, Stuttering
<1>2. ASSUME NEW files \in Loads, LoadRules(files) PROVE IInv'
  BY <1>2, StepLoadRules
<1>3. CASE ReadNext
  BY <1>3, StepReadNext
<1>4. CASE ReadItem
  BY <1>4, StepReadFile, StepReadRule
<1>5. CASE EndOfFile
  BY <1>5, StepEndOfFile
<1>6. CASE RulesLoaded
  BY <1>6, StepRulesLoaded
<1>7. ASSUME NEW file \in Files, Break(file) PROVE IInv'
  BY <1>7, StepBreak
<1>8. CASE FlushRules
  BY <1>8, StepFlushRules
<1>9. ASSUME NEW i \in Indexes, SetActive(i) PROVE IInv'
  BY <1>9, StepSetActive
<1>10. ASSUME NEW i \in Indexes, SetInactive(i) PROVE IInv'
  BY <1>10, StepSetInactive
<1>11. ASSUME NEW k \in Kernels, LoadSymbols(k) PROVE IInv'
  BY <1>11, StepLoadSymbols
<1>12. ASSUME NEW k \in Kernels, LoadSymbolsFails(k) PROVE IInv'
  BY <1>12, StepLoadSymbolsFails
<1>13. ASSUME NEW k \in Kernels, ParseSymbols(k) PROVE IInv'
  BY <1>13, StepParseSymbols
<1>14. CASE ParseSpecsFails
  BY <1>14, StepParseSpecsFails
<1> QED
  BY <1>1, <1>2, <1>3, <1>4, <1>5, <1>6, <1>7, <1>8, <1>9, <1>10, <1>11, <1>12,
     <1>13, <1>14 DEF Next

(* In every reachable state rules are listed, active and counted alike, as the
   symbols want it unless a command left them out, and the rules that are there
   are those that the reader has come by: engine, reader and ghosts agree
   (checkRule(), setActive(), setInactive(), appendRule()). *)
THEOREM Invariance == Spec => []IInv
<1>1. Init => IInv
  BY Initially
<1>2. IInv /\ [Next]_vars => IInv'
  BY Inductive
<1> QED  BY <1>1, <1>2, PTL DEF Spec

LEMMA ImpliesRulesExact == IInv => RulesExact
<1> SUFFICES ASSUME IInv PROVE RulesExact
  OBVIOUS
<1>1. eng \in Engine /\ Consistent(eng) /\ Agrees(eng, symbols, excused \cup Pending)
  BY DEF IInv, TypeOK
<1>2. DOMAIN eng.rules = Indexes
  BY <1>1 DEF Engine, Indexes
<1>3. Len(eng.hits) \in Nat /\ DOMAIN eng.hits = 1 .. Len(eng.hits) /\ Len(eng.rules) \in Nat
  BY <1>1 DEF Engine
<1>4. ASSUME NEW i \in Indexes
      PROVE  /\ i \in Range(eng.active) <=> Listed(eng, i) # {}
             /\ IF i <= Len(eng.hits) THEN eng.hits[i] = Cardinality(Listed(eng, i))
                                     ELSE Listed(eng, i) = {}
             /\ i \notin excused \cup Pending => Listed(eng, i) = Expected(i)
  <2>1. i \in DOMAIN eng.hits <=> i <= Len(eng.hits)
    BY <1>3 DEF Indexes
  <2>2. i \notin DOMAIN eng.hits => Listed(eng, i) = {} /\ i \notin Range(eng.active)
    BY <1>1 DEF Consistent, Listed
  <2>3. i \in DOMAIN eng.hits => /\ eng.hits[i] = Cardinality(Listed(eng, i))
                                 /\ i \in Range(eng.active) <=> Listed(eng, i) # {}
    BY <1>1 DEF Consistent
  <2>4. Expected(i) = Wanted(symbols, eng.rules[i].rule)
    BY Zenon DEF Expected, Wanted
  <2>5. i \notin excused \cup Pending => Listed(eng, i) = Expected(i)
    BY <1>1, <1>2, <2>4 DEF Agrees
  <2> QED  BY <2>1, <2>2, <2>3, <2>5
<1>5. /\ Len(eng.hits) <= Len(eng.rules) /\ IsInjective(eng.active)
      /\ \A t \in TypeIds : IsInjective(eng.listed[t])
  BY <1>1 DEF Consistent
<1> QED  BY <1>4, <1>5 DEF RulesExact

(* Whatever was loaded in which pieces, enabled, disabled or interrupted, rules
   are active, listed and counted alike (typeruleengine.cpp). *)
THEOREM RulesAreExact == Spec => []RulesExact
<1>1. IInv => RulesExact
  BY ImpliesRulesExact
<1> QED  BY <1>1, Invariance, PTL

LEMMA ImpliesFilesExact == IInv => FilesExact
<1> SUFFICES ASSUME IInv PROVE FilesExact
  OBVIOUS
<1>1. RulesOnce /\ RulesNamed
  BY DEF IInv
<1>2. ASSUME NEW f \in Files \ (torn \cup Waiting), NEW r \in RulesOf(f)
      PROVE  IF f \in FilesRead THEN \E i \in Indexes : CopiesOf(r) = {i}
                                ELSE CopiesOf(r) = {}
  <2>1. PICK n \in DOMAIN Content[f] : Content[f][n] = r
    BY DEF RulesOf, Range
  <2>2. r \in Rules
    BY DEF RulesOf
  <2>3. HasRead(f, n) <=> f \in FilesRead
    BY DEF HasRead, Waiting
  <2> QED  BY <1>1, <2>1, <2>2, <2>3 DEF RulesOnce
<1> QED  BY <1>1, <1>2 DEF FilesExact, RulesNamed

(* Each rule of a file that was read stands once in the list, however files
   include each other and wherever reading broke off (TypeRuleReader::readFrom(),
   TypeRuleEngine::readFrom()). *)
THEOREM FilesAreExact == Spec => []FilesExact
<1>1. IInv => FilesExact
  BY ImpliesFilesExact
<1> QED  BY <1>1, Invariance, PTL
-----------------------------------------------------------------------------
(* Applying the rules of one level.                                         *)

Outcomes(V) ==
  [match : BOOLEAN, ambiguous : BOOLEAN, defer : BOOLEAN, default : BOOLEAN,
   prio : Int, new : V]

IsFull(r, q) == NameMatches(r, q) /\ r.members = q.members
IsLong(r, q) == NameMatches(r, q) /\ IsStrictPrefix(q.members, r.members)

\* The value that a rule with this result stores
Value(result) == IF result = "default" THEN "invalid" ELSE result

LEMMA EvaluatedIs ==
  ASSUME NEW V, None \in V, "invalid" \in V, NEW m \in Outcomes(V),
         NEW r, r.prio \in Int, r.result \in V
  PROVE  LET e == Evaluated(m, r)
             already == m.match /\ ~(r.prio > m.prio)
         IN  /\ e \in Outcomes(V) /\ e.match /\ e.defer = m.defer
             /\ e.prio = IF already THEN m.prio ELSE r.prio
             /\ already =>
                  /\ e.new = m.new /\ (e.default <=> m.default)
                  /\ e.ambiguous <=> m.ambiguous \/ m.new \notin {None, Value(r.result)}
             /\ ~already =>
                  /\ e.ambiguous => ~m.match /\ m.ambiguous
                  /\ r.result = "default" => e.default
                  /\ r.result # "default" =>
                       /\ e.default => ~m.match /\ m.default
                       /\ e.new = r.result \/ (r.result = "invalid" /\ e.new = None)
<1> DEFINE value == Value(r.result)
           higher == r.prio > m.prio
           already == m.match /\ ~higher
           differs == already /\ m.new \notin {None, value}
           known == m.new # None \/ value # "invalid"
           n == [m EXCEPT !.match = TRUE,
                          !.ambiguous = ~higher /\ (@ \/ differs),
                          !.default = @ /\ ~higher]
           e == Evaluated(m, r)
<1>1. e = IF already THEN n
          ELSE IF r.result = "default" THEN [n EXCEPT !.prio = r.prio, !.default = TRUE]
          ELSE [n EXCEPT !.prio = r.prio, !.new = IF known THEN value ELSE None]
  BY Zenon DEF Evaluated, Value
<1>2. value \in V
  BY DEF Value
<1>3. PICK a \in BOOLEAN : a <=> ~higher /\ (m.ambiguous \/ differs)
  OBVIOUS
<1>4. PICK d \in BOOLEAN : d <=> m.default /\ ~higher
  OBVIOUS
<1>5. n = [m EXCEPT !.match = TRUE, !.ambiguous = a, !.default = d]
  BY <1>3, <1>4 DEF Outcomes
<1>6. /\ n \in Outcomes(V) /\ n.match = TRUE /\ n.ambiguous = a /\ n.default = d
      /\ n.defer = m.defer /\ n.prio = m.prio /\ n.new = m.new
  BY <1>5 DEF Outcomes
<1> HIDE DEF n, e
<1>7. CASE already
  <2>1. e = n
    BY <1>1, <1>7
  <2> QED  BY <1>3, <1>4, <1>6, <1>7, <2>1 DEF e
<1>8. CASE ~already /\ r.result = "default"
  <2>1. e = [n EXCEPT !.prio = r.prio, !.default = TRUE]
    BY <1>1, <1>8
  <2>2. /\ e \in Outcomes(V) /\ e.match = TRUE /\ e.ambiguous = a /\ e.default = TRUE
        /\ e.defer = m.defer /\ e.prio = r.prio
    BY <1>6, <2>1 DEF Outcomes
  <2> QED  BY <1>3, <1>8, <2>2 DEF e
<1>9. CASE ~already /\ r.result # "default"
  <2>1. PICK v \in V : v = IF known THEN value ELSE None
    BY <1>2
  <2>2. e = [n EXCEPT !.prio = r.prio, !.new = v]
    BY <1>1, <1>9, <2>1
  <2>3. /\ e \in Outcomes(V) /\ e.match = TRUE /\ e.ambiguous = a /\ e.default = d
        /\ e.defer = m.defer /\ e.prio = r.prio /\ e.new = v
    BY <1>6, <2>2 DEF Outcomes
  <2>4. v = r.result \/ (r.result = "invalid" /\ v = None)
    BY <1>9, <2>1 DEF Value
  <2> QED  BY <1>3, <1>4, <1>9, <2>3, <2>4 DEF e
<1> QED  BY <1>7, <1>8, <1>9

\* What has been found is empty as long as no rule matches
Blank(m) == ~m.match => ~m.ambiguous /\ ~m.default

(* One rule of the list, by what it is. *)
LEMMA TryRuleIs ==
  ASSUME NEW V, None \in V, "invalid" \in V, NEW m \in Outcomes(V), Blank(m),
         NEW r, r.prio \in Int, r.result \in V, NEW q
  PROVE  LET e == TryRule(m, r, q)
         IN  /\ e \in Outcomes(V) /\ Blank(e)
             /\ IsFull(r, q) /\ (~m.match \/ r.prio > m.prio) =>
                  /\ e.match /\ ~e.ambiguous /\ e.defer = m.defer /\ e.prio = r.prio
                  /\ e.default <=> r.result = "default"
                  /\ r.result # "default" =>
                       e.new = r.result \/ (r.result = "invalid" /\ e.new = None)
             /\ IsFull(r, q) /\ m.match /\ r.prio = m.prio =>
                  /\ e.match /\ e.defer = m.defer /\ e.prio = m.prio
                  /\ e.new = m.new /\ (e.default <=> m.default)
                  /\ e.ambiguous <=> m.ambiguous \/ m.new \notin {None, Value(r.result)}
             /\ IsFull(r, q) /\ m.match /\ r.prio < m.prio => e = m
             /\ IsLong(r, q) =>
                  /\ e.match = m.match /\ e.ambiguous = m.ambiguous /\ e.default = m.default
                  /\ e.prio = m.prio /\ e.new = m.new
                  /\ m.defer => e.defer
                  /\ (m.match => r.prio >= m.prio) => e.defer
             /\ ~IsFull(r, q) /\ ~IsLong(r, q) => e = m
<1> DEFINE decided == m.match /\ m.ambiguous
           considered == /\ ~(decided /\ m.defer /\ ~m.default /\ r.prio <= m.prio)
                         /\ m.match => r.prio >= m.prio
                         /\ NameMatches(r, q)
           taken == r.members = q.members /\ (~decided \/ r.prio > m.prio)
           longer == IsStrictPrefix(q.members, r.members)
           e == TryRule(m, r, q)
<1>1. e = IF ~considered THEN m
          ELSE IF taken THEN Evaluated(m, r)
          ELSE IF longer THEN [m EXCEPT !.defer = TRUE]
          ELSE m
  BY Zenon DEF TryRule
<1>2. longer => r.members # q.members
  BY DEF IsStrictPrefix
<1>3. m.prio \in Int
  BY DEF Outcomes
<1>4. PICK v : v = Evaluated(m, r)
  OBVIOUS
<1>5. PICK d : d = [m EXCEPT !.defer = TRUE]
  OBVIOUS
<1>6. /\ d \in Outcomes(V) /\ d.match = m.match /\ d.ambiguous = m.ambiguous
      /\ d.default = m.default /\ d.prio = m.prio /\ d.new = m.new /\ d.defer
  BY <1>5 DEF Outcomes
<1>7. LET already == m.match /\ ~(r.prio > m.prio)
      IN  /\ v \in Outcomes(V) /\ v.match /\ v.defer = m.defer
          /\ v.prio = IF already THEN m.prio ELSE r.prio
          /\ already =>
               /\ v.new = m.new /\ (v.default <=> m.default)
               /\ v.ambiguous <=> m.ambiguous \/ m.new \notin {None, Value(r.result)}
          /\ ~already =>
               /\ v.ambiguous => ~m.match /\ m.ambiguous
               /\ r.result = "default" => v.default
               /\ r.result # "default" =>
                    /\ v.default => ~m.match /\ m.default
                    /\ v.new = r.result \/ (r.result = "invalid" /\ v.new = None)
  BY <1>4, EvaluatedIs
<1> HIDE DEF e
<1>8. CASE ~considered
  <2>1. e = m
    BY <1>1, <1>8
  <2> QED  BY <1>3, <1>8, <2>1 DEF e, IsFull, IsLong, Blank
<1>9. CASE considered /\ taken
  <2>1. e = v
    BY <1>1, <1>4, <1>9
  <2>2. IsFull(r, q) /\ ~IsLong(r, q)
    BY <1>2, <1>9 DEF IsFull, IsLong
  <2>3. Blank(v)
    BY <1>7 DEF Blank
  <2> QED  BY <1>3, <1>7, <1>9, <2>1, <2>2, <2>3 DEF e, Blank
<1>10. CASE considered /\ ~taken /\ longer
  <2>1. e = d
    BY <1>1, <1>5, <1>10, Zenon
  <2>2. ~IsFull(r, q) /\ IsLong(r, q)
    BY <1>2, <1>10 DEF IsFull, IsLong
  <2> QED  BY <1>6, <2>1, <2>2 DEF e, Blank
<1>11. CASE considered /\ ~taken /\ ~longer
  <2>1. e = m
    BY <1>1, <1>11, Zenon
  <2> QED  BY <1>3, <1>11, <2>1 DEF e, IsFull, IsLong
<1> QED  BY <1>8, <1>9, <1>10, <1>11

(* What the rules 1 to k of a list have come to. *)
Full(rs, q, k) == {n \in 1 .. k : IsFull(rs[n], q)}
Long(rs, q, k) == {n \in 1 .. k : IsLong(rs[n], q)}

\* The values that rules may store
Ranked(rs, L, V) ==
  /\ None \in V /\ "invalid" \in V
  /\ \A n \in 1 .. L : rs[n].prio \in Int /\ rs[n].result \in V /\ rs[n].result # None

\* The j-th rule is the one that decides: the first of the highest priority
Leads(rs, q, k, m, j) ==
  LET first == rs[j].result
      same == {n \in Full(rs, q, k) : rs[n].prio = m.prio}
  IN  /\ j \in Full(rs, q, k) /\ rs[j].prio = m.prio
      /\ \A n \in Full(rs, q, k) : rs[n].prio <= m.prio
      /\ m.default <=> first = "default"
      /\ first # "default" => m.new = first \/ (first = "invalid" /\ m.new = None)
      /\ first # "default" /\ m.ambiguous => \E n \in same : rs[n].result # first
      /\ first \notin {"default", "invalid"} /\ ~m.ambiguous => \A n \in same : rs[n].result = first

Tried(rs, q, k, V, m) ==
  /\ m \in Outcomes(V) /\ Blank(m)
  /\ Full(rs, q, k) = {} => ~m.match
  /\ Full(rs, q, k) # {} => m.match /\ \E j \in 1 .. k : Leads(rs, q, k, m, j)
  /\ m.defer => Long(rs, q, k) # {}
  /\ \A n \in Long(rs, q, k) : (m.match => rs[n].prio >= m.prio) => m.defer

LEMMA TryRound ==
  ASSUME NEW V, NEW L \in Nat, NEW rs, Ranked(rs, L, V), NEW q, NEW k \in 1 .. L,
         NEW m, Tried(rs, q, k - 1, V, m)
  PROVE  Tried(rs, q, k, V, TryRule(m, rs[k], q))
<1>1. PICK r : r = rs[k]
  OBVIOUS
<1>2. PICK e : e = TryRule(m, r, q)
  OBVIOUS
<1>3. None \in V /\ "invalid" \in V /\ r.prio \in Int /\ r.result \in V /\ r.result # None
  BY <1>1 DEF Ranked
<1>4. /\ m \in Outcomes(V) /\ Blank(m)
      /\ Full(rs, q, k - 1) = {} => ~m.match
      /\ Full(rs, q, k - 1) # {} => m.match /\ \E j \in 1 .. k - 1 : Leads(rs, q, k - 1, m, j)
      /\ m.defer => Long(rs, q, k - 1) # {}
      /\ \A n \in Long(rs, q, k - 1) : (m.match => rs[n].prio >= m.prio) => m.defer
  BY DEF Tried
<1>5. /\ e \in Outcomes(V) /\ Blank(e)
      /\ IsFull(r, q) /\ (~m.match \/ r.prio > m.prio) =>
           /\ e.match /\ ~e.ambiguous /\ e.defer = m.defer /\ e.prio = r.prio
           /\ e.default <=> r.result = "default"
           /\ r.result # "default" =>
                e.new = r.result \/ (r.result = "invalid" /\ e.new = None)
      /\ IsFull(r, q) /\ m.match /\ r.prio = m.prio =>
           /\ e.match /\ e.defer = m.defer /\ e.prio = m.prio
           /\ e.new = m.new /\ (e.default <=> m.default)
           /\ e.ambiguous <=> m.ambiguous \/ m.new \notin {None, Value(r.result)}
      /\ IsFull(r, q) /\ m.match /\ r.prio < m.prio => e = m
      /\ IsLong(r, q) =>
           /\ e.match = m.match /\ e.ambiguous = m.ambiguous /\ e.default = m.default
           /\ e.prio = m.prio /\ e.new = m.new
           /\ m.defer => e.defer
           /\ (m.match => r.prio >= m.prio) => e.defer
      /\ ~IsFull(r, q) /\ ~IsLong(r, q) => e = m
  BY <1>2, <1>3, <1>4, TryRuleIs
<1>6. \A n : n \in 1 .. k <=> n \in 1 .. k - 1 \/ n = k
  OBVIOUS
<1>7. k \notin 1 .. k - 1
  OBVIOUS
<1>8. /\ \A n : n \in Full(rs, q, k) <=> n \in Full(rs, q, k - 1) \/ (n = k /\ IsFull(r, q))
      /\ \A n : n \in Long(rs, q, k) <=> n \in Long(rs, q, k - 1) \/ (n = k /\ IsLong(r, q))
      /\ Full(rs, q, k - 1) \subseteq 1 .. k - 1
      /\ Long(rs, q, k - 1) \subseteq 1 .. k - 1
  BY <1>1, <1>6 DEF Full, Long
<1>9. ~(IsFull(r, q) /\ IsLong(r, q))
  BY DEF IsFull, IsLong, IsStrictPrefix
<1>10. \A n \in 1 .. k : rs[n].prio \in Int
  BY DEF Ranked
<1>11. m.prio \in Int /\ e.prio \in Int
  BY <1>4, <1>5 DEF Outcomes
<1>12. CASE IsFull(r, q) /\ (~m.match \/ r.prio > m.prio)
  <2>1. /\ e.match /\ ~e.ambiguous /\ e.defer = m.defer /\ e.prio = r.prio
        /\ e.default <=> r.result = "default"
        /\ r.result # "default" =>
             e.new = r.result \/ (r.result = "invalid" /\ e.new = None)
    BY <1>5, <1>12
  <2>2. \A n : n \in Long(rs, q, k) <=> n \in Long(rs, q, k - 1)
    BY <1>8, <1>9, <1>12
  <2>3. ASSUME NEW n \in Full(rs, q, k - 1) PROVE m.match /\ rs[n].prio <= m.prio
    BY <1>4, <2>3 DEF Leads
  <2>4. ASSUME NEW n \in Full(rs, q, k - 1) PROVE rs[n].prio < r.prio
    <3>1. n \in 1 .. k
      BY <1>6, <1>8
    <3> QED  BY <1>3, <1>10, <1>11, <1>12, <2>3, <3>1
  <2>5. Leads(rs, q, k, e, k)
    <3>1. k \in Full(rs, q, k) /\ rs[k].prio = e.prio
      BY <1>1, <1>8, <1>12, <2>1
    <3>2. \A n \in Full(rs, q, k) : rs[n].prio <= e.prio
      <4> TAKE n \in Full(rs, q, k)
      <4>1. n = k \/ n \in Full(rs, q, k - 1)
        BY <1>8
      <4>2. n \in 1 .. k
        BY <1>6, <1>8
      <4> QED  BY <1>1, <1>3, <1>10, <2>1, <2>4, <4>1, <4>2
    <3>3. \A n \in Full(rs, q, k) : rs[n].prio = e.prio => n = k
      <4> TAKE n \in Full(rs, q, k)
      <4>1. n = k \/ n \in Full(rs, q, k - 1)
        BY <1>8
      <4>2. n \in 1 .. k
        BY <1>6, <1>8
      <4> QED  BY <1>3, <1>10, <2>1, <2>4, <4>1, <4>2
    <3>4. \A n \in Full(rs, q, k) : rs[n].prio = e.prio => rs[n].result = rs[k].result
      BY <3>3
    <3> QED  BY <1>1, <2>1, <3>1, <3>2, <3>4 DEF Leads
  <2>6. Full(rs, q, k) # {} /\ k \in 1 .. k
    BY <1>8, <1>12
  <2>7. ASSUME NEW n \in Long(rs, q, k), rs[n].prio >= e.prio PROVE e.defer
    <3>1. n \in Long(rs, q, k - 1) /\ n \in 1 .. k
      BY <1>6, <1>8, <2>2
    <3>2. m.match => rs[n].prio >= m.prio
      BY <1>3, <1>10, <1>11, <1>12, <2>1, <2>7, <3>1
    <3> QED  BY <1>4, <2>1, <3>1, <3>2
  <2>8. e.defer => Long(rs, q, k) # {}
    BY <1>4, <2>1, <2>2
  <2> QED  BY <1>1, <1>2, <1>5, <2>1, <2>5, <2>6, <2>7, <2>8 DEF Tried
<1>13. CASE IsFull(r, q) /\ m.match /\ r.prio = m.prio
  <2>1. /\ e.match /\ e.defer = m.defer /\ e.prio = m.prio
        /\ e.new = m.new /\ (e.default <=> m.default)
        /\ e.ambiguous <=> m.ambiguous \/ m.new \notin {None, Value(r.result)}
    BY <1>5, <1>13
  <2>2. \A n : n \in Long(rs, q, k) <=> n \in Long(rs, q, k - 1)
    BY <1>8, <1>9, <1>13
  <2>3. PICK j \in 1 .. k - 1 : Leads(rs, q, k - 1, m, j)
    BY <1>4, <1>13
  <2>4. PICK v : v = rs[j].result
    OBVIOUS
  <2>5. v # None
    BY <1>6, <2>4 DEF Ranked
  <2>6. /\ j \in Full(rs, q, k - 1) /\ rs[j].prio = m.prio
        /\ \A n \in Full(rs, q, k - 1) : rs[n].prio <= m.prio
        /\ m.default <=> v = "default"
        /\ v # "default" => m.new = v \/ (v = "invalid" /\ m.new = None)
        /\ v # "default" /\ m.ambiguous =>
             \E n \in Full(rs, q, k - 1) : rs[n].prio = m.prio /\ rs[n].result # v
        /\ v \notin {"default", "invalid"} /\ ~m.ambiguous =>
             \A n \in Full(rs, q, k - 1) : rs[n].prio = m.prio => rs[n].result = v
    BY <2>3, <2>4 DEF Leads
  <2>7. /\ j \in Full(rs, q, k) /\ k \in Full(rs, q, k) /\ rs[k].prio = m.prio /\ rs[k].result = r.result
        /\ \A n \in Full(rs, q, k - 1) : n \in Full(rs, q, k)
        /\ \A n \in Full(rs, q, k) : n = k \/ n \in Full(rs, q, k - 1)
    BY <1>1, <1>8, <1>13, <2>6
  <2>8. \A n \in Full(rs, q, k) : rs[n].prio <= m.prio
    BY <1>11, <2>6, <2>7
  <2>9. ASSUME v # "default", e.ambiguous
        PROVE  \E n \in Full(rs, q, k) : rs[n].prio = m.prio /\ rs[n].result # v
    <3>1. CASE m.ambiguous
      BY <2>6, <2>7, <2>9, <3>1
    <3>2. CASE m.new \notin {None, Value(r.result)}
      <4>1. m.new = v
        BY <2>6, <2>9, <3>2
      <4>2. r.result # v
        BY <2>9, <3>2, <4>1 DEF Value
      <4> QED  BY <2>7, <4>2
    <3> QED  BY <2>1, <2>9, <3>1, <3>2
  <2>10. ASSUME v \notin {"default", "invalid"}, ~e.ambiguous
         PROVE  \A n \in Full(rs, q, k) : rs[n].prio = m.prio => rs[n].result = v
    <3>1. ~m.ambiguous /\ m.new \in {None, Value(r.result)} /\ m.new = v
      BY <2>1, <2>6, <2>10
    <3>2. r.result = v
      BY <2>5, <2>10, <3>1 DEF Value
    <3> QED  BY <2>6, <2>7, <2>10, <3>1, <3>2
  <2>11. Leads(rs, q, k, e, j)
    BY <2>1, <2>4, <2>6, <2>7, <2>8, <2>9, <2>10 DEF Leads
  <2>12. Full(rs, q, k) # {} /\ j \in 1 .. k
    BY <1>6, <2>7
  <2>13. \A n \in Long(rs, q, k) : rs[n].prio >= e.prio => e.defer
    BY <1>4, <1>13, <2>1, <2>2
  <2>14. e.defer => Long(rs, q, k) # {}
    BY <1>4, <2>1, <2>2
  <2> QED  BY <1>1, <1>2, <1>5, <2>1, <2>11, <2>12, <2>13, <2>14 DEF Tried
<1>14. CASE IsFull(r, q) /\ m.match /\ r.prio < m.prio
  <2>1. e = m
    BY <1>5, <1>14
  <2>2. \A n : n \in Long(rs, q, k) <=> n \in Long(rs, q, k - 1)
    BY <1>8, <1>9, <1>14
  <2>3. PICK j \in 1 .. k - 1 : Leads(rs, q, k - 1, m, j)
    BY <1>4, <1>14
  <2>4. /\ \A n \in Full(rs, q, k - 1) : n \in Full(rs, q, k)
        /\ \A n \in Full(rs, q, k) : n = k \/ n \in Full(rs, q, k - 1)
    BY <1>8
  <2>5. rs[k].prio # m.prio /\ rs[k].prio <= m.prio
    BY <1>1, <1>3, <1>11, <1>14
  <2>6. Leads(rs, q, k, m, j)
    BY <2>3, <2>4, <2>5 DEF Leads
  <2>7. Full(rs, q, k) # {} /\ j \in 1 .. k
    BY <1>6, <1>8, <1>14
  <2>8. \A n \in Long(rs, q, k) : rs[n].prio >= m.prio => m.defer
    BY <1>4, <2>2
  <2>9. m.defer => Long(rs, q, k) # {}
    BY <1>4, <2>2
  <2> QED  BY <1>1, <1>2, <1>5, <1>14, <2>1, <2>6, <2>7, <2>8, <2>9 DEF Tried
<1>15. CASE ~IsFull(r, q)
  <2>1. \A n : n \in Full(rs, q, k) <=> n \in Full(rs, q, k - 1)
    BY <1>8, <1>15
  <2>2. Full(rs, q, k) = Full(rs, q, k - 1)
    BY <2>1
  <2>3. /\ e.match = m.match /\ e.ambiguous = m.ambiguous /\ e.default = m.default
        /\ e.prio = m.prio /\ e.new = m.new
    BY <1>5, <1>15
  <2>4. \A j : Leads(rs, q, k, e, j) <=> Leads(rs, q, k - 1, m, j)
    BY <2>2, <2>3 DEF Leads
  <2>5. Full(rs, q, k) = {} => ~e.match
    BY <1>4, <2>2, <2>3
  <2>6. Full(rs, q, k) # {} => e.match /\ \E j \in 1 .. k : Leads(rs, q, k, e, j)
    BY <1>4, <1>6, <2>2, <2>3, <2>4
  <2>7. CASE IsLong(r, q)
    <3>1. (m.defer => e.defer) /\ ((m.match => r.prio >= m.prio) => e.defer)
      BY <1>5, <2>7
    <3>2. Long(rs, q, k) # {}
      BY <1>8, <2>7
    <3>3. \A n \in Long(rs, q, k) : (e.match => rs[n].prio >= e.prio) => e.defer
      BY <1>1, <1>4, <1>8, <2>3, <3>1
    <3> QED  BY <1>1, <1>2, <1>5, <2>5, <2>6, <3>2, <3>3 DEF Tried
  <2>8. CASE ~IsLong(r, q)
    <3>1. e = m
      BY <1>5, <1>15, <2>8
    <3>2. \A n : n \in Long(rs, q, k) <=> n \in Long(rs, q, k - 1)
      BY <1>8, <2>8
    <3>3. \A n \in Long(rs, q, k) : (e.match => rs[n].prio >= e.prio) => e.defer
      BY <1>4, <3>1, <3>2
    <3>4. e.defer => Long(rs, q, k) # {}
      BY <1>4, <3>1, <3>2
    <3> QED  BY <1>1, <1>2, <1>5, <2>5, <2>6, <3>3, <3>4 DEF Tried
  <2> QED  BY <2>7, <2>8
<1>16. r.prio > m.prio \/ r.prio = m.prio \/ r.prio < m.prio
  BY <1>3, <1>11
<1> QED  BY <1>12, <1>13, <1>14, <1>15, <1>16

Tries(L, rs, q, f) ==
  f = [n \in 0 .. L |-> IF n = 0 THEN NoMatch ELSE TryRule(f[n - 1], rs[n], q)]

LEMMA NoMatchTried ==
  ASSUME NEW V, None \in V, NEW rs, NEW q
  PROVE  Tried(rs, q, 0, V, NoMatch)
<1>1. 1 .. 0 = {}
  OBVIOUS
<1>2. Full(rs, q, 0) = {} /\ Long(rs, q, 0) = {}
  BY <1>1 DEF Full, Long
<1>3. PICK m : m = NoMatch
  OBVIOUS
<1>4. m \in Outcomes(V) /\ ~m.match /\ ~m.defer /\ Blank(m)
  BY <1>3 DEF NoMatch, Outcomes, Blank
<1> QED  BY <1>2, <1>3, <1>4 DEF Tried

LEMMA TryLoop ==
  ASSUME NEW V, NEW L \in Nat, NEW rs, Ranked(rs, L, V), NEW q
  PROVE  /\ \E f : Tries(L, rs, q, f)
         /\ \A f : Tries(L, rs, q, f) => Tried(rs, q, L, V, f[L])
<1>1. Tried(rs, q, 0, V, NoMatch)
  BY NoMatchTried DEF Ranked
<1>2. \E f : Tries(L, rs, q, f)
  <2> DEFINE S == Outcomes(V)
             step == [p \in (1 .. L) \X S |->
                        IF Tried(rs, q, p[1] - 1, V, p[2]) THEN TryRule(p[2], rs[p[1]], q) ELSE p[2]]
  <2>1. ASSUME NEW k \in 1 .. L, NEW x \in S
        PROVE  /\ step[<<k, x>>] = IF Tried(rs, q, k - 1, V, x) THEN TryRule(x, rs[k], q) ELSE x
               /\ step[<<k, x>>] \in S
    <3>1. <<k, x>> \in (1 .. L) \X S
      OBVIOUS
    <3>2. step[<<k, x>>] = IF Tried(rs, q, k - 1, V, x) THEN TryRule(x, rs[k], q) ELSE x
      BY <3>1
    <3>3. Tried(rs, q, k - 1, V, x) => TryRule(x, rs[k], q) \in S
      BY TryRound DEF Tried
    <3> QED  BY <3>2, <3>3
  <2>2. step \in [(1 .. L) \X S -> S]
    <3>1. ASSUME NEW p \in (1 .. L) \X S PROVE step[p] \in S
      <4>1. PICK k \in 1 .. L, x \in S : p = <<k, x>>
        OBVIOUS
      <4> HIDE DEF step
      <4> QED  BY <2>1, <4>1
    <3>2. step = [p \in (1 .. L) \X S |-> step[p]]
      OBVIOUS
    <3> HIDE DEF step
    <3> QED  BY <3>1, <3>2
  <2> HIDE DEF step
  <2>3. NoMatch \in S
    BY <1>1 DEF Tried
  <2>4. PICK f \in [0 .. L -> S] : Rounds(L, NoMatch, step, f)
    <3> HIDE DEF S
    <3> QED  BY <2>2, <2>3, RoundsExist
  <2>5. \A k \in 0 .. L : f[k] = IF k = 0 THEN NoMatch ELSE step[<<k, f[k - 1]>>]
    BY <2>4, Zenon DEF Rounds
  <2> DEFINE G == {k \in 0 .. L : Tried(rs, q, k, V, f[k])}
  <2>6. 0 \in G
    <3>1. 0 \in 0 .. L
      OBVIOUS
    <3>2. f[0] = NoMatch
      BY <2>5, <3>1, Zenon
    <3> QED  BY <1>1, <3>1, <3>2
  <2>7. ASSUME NEW k \in 1 .. L, Tried(rs, q, k - 1, V, f[k - 1])
        PROVE  f[k] = TryRule(f[k - 1], rs[k], q) /\ Tried(rs, q, k, V, f[k])
    <3>1. k \in 0 .. L /\ k # 0 /\ k - 1 \in 0 .. L
      OBVIOUS
    <3>2. PICK x \in S : x = f[k - 1]
      BY <2>4, <3>1
    <3>3. f[k] = step[<<k, x>>]
      BY <2>5, <3>1, <3>2, Zenon
    <3>4. f[k] = TryRule(x, rs[k], q)
      BY <2>1, <2>7, <3>2, <3>3
    <3>5. Tried(rs, q, k, V, TryRule(x, rs[k], q))
      BY <2>7, <3>2, TryRound
    <3> QED  BY <3>2, <3>4, <3>5
  <2>8. ASSUME NEW k \in 1 .. L, k - 1 \in G PROVE k \in G
    BY <2>7, <2>8
  <2>9. \A k \in 0 .. L : Tried(rs, q, k, V, f[k])
    <3>1. 0 .. L \subseteq G
      <4> HIDE DEF G
      <4> QED  BY <2>6, <2>8, Stepwise
    <3> QED  BY <3>1
  <2>10. ASSUME NEW k \in 0 .. L
         PROVE  f[k] = IF k = 0 THEN NoMatch ELSE TryRule(f[k - 1], rs[k], q)
    <3>1. CASE k = 0
      BY <2>5, <3>1, Zenon
    <3>2. CASE k # 0
      <4>1. k \in 1 .. L /\ k - 1 \in 0 .. L
        BY <3>2
      <4> QED  BY <2>7, <2>9, <3>2, <4>1
    <3> QED  BY <3>1, <3>2
  <2>11. f = [k \in 0 .. L |-> f[k]]
    BY <2>4
  <2>12. f = [k \in 0 .. L |-> IF k = 0 THEN NoMatch ELSE TryRule(f[k - 1], rs[k], q)]
    BY <2>10, <2>11, Zenon
  <2> QED  BY <2>12, Zenon DEF Tries
<1>3. ASSUME NEW f, Tries(L, rs, q, f) PROVE Tried(rs, q, L, V, f[L])
  <2>1. \A k \in 0 .. L : f[k] = IF k = 0 THEN NoMatch ELSE TryRule(f[k - 1], rs[k], q)
    BY <1>3, Zenon DEF Tries
  <2> DEFINE G == {k \in 0 .. L : Tried(rs, q, k, V, f[k])}
  <2>2. 0 \in G
    <3>1. 0 \in 0 .. L
      OBVIOUS
    <3>2. f[0] = NoMatch
      BY <2>1, <3>1, Zenon
    <3> QED  BY <1>1, <3>1, <3>2
  <2>3. ASSUME NEW k \in 1 .. L, k - 1 \in G PROVE k \in G
    <3>1. PICK x : x = f[k - 1]
      OBVIOUS
    <3>2. k \in 0 .. L /\ k # 0 /\ Tried(rs, q, k - 1, V, x)
      BY <2>3, <3>1
    <3>3. f[k] = TryRule(x, rs[k], q)
      BY <2>1, <3>1, <3>2, Zenon
    <3>4. Tried(rs, q, k, V, TryRule(x, rs[k], q))
      BY <3>2, TryRound
    <3> QED  BY <3>2, <3>3, <3>4
  <2>4. 0 .. L \subseteq G
    <3> HIDE DEF G
    <3> QED  BY <2>2, <2>3, Stepwise
  <2> QED  BY <2>4
<1> QED  BY <1>2, <1>3

(* What the theorem says of a level by its complete rules C. *)
Prio(C) == Max({r.prio : r \in C})
Results(C, prio) == {r.result : r \in {c \in C : c.prio = prio}}

SettledBy(prio, results, m) ==
  LET none == {"default", "invalid"}
  IN  /\ m.prio = prio
      /\ \A x \in results : results = {x} =>
           /\ x # "default" => ~m.ambiguous
           /\ m.default <=> x = "default"
           /\ m.new = IF x \in none THEN None ELSE x
      /\ UseMatchedInst(m) /\ m.new # None => results = {m.new}
      /\ (\E x, y \in results : x # y) /\ results \cap none = {} => m.ambiguous
      /\ m.default => "default" \in results

Settled(C, m) == SettledBy(Prio(C), Results(C, Prio(C)), m)

LEMMA MaxIs ==
  ASSUME NEW S, S \subseteq Int, NEW x \in S, \A y \in S : y <= x
  PROVE  Max(S) = x
<1>1. \A y \in S : x >= y
  OBVIOUS
<1>2. \A z \in S : (\A y \in S : z >= y) => z = x
  OBVIOUS
<1> QED  BY <1>1, <1>2 DEF Max

LEMMA MinIs ==
  ASSUME NEW S, S \subseteq Int, NEW x \in S, \A y \in S : x <= y
  PROVE  Min(S) = x
<1>1. \A z \in S : (\A y \in S : z <= y) => z = x
  OBVIOUS
<1> QED  BY <1>1 DEF Min

\* TypeRuleEngine::match(): at the end an invalid instance is none
Final(m) == IF m.new = "invalid" \/ m.default THEN [m EXCEPT !.new = None] ELSE m

LEMMA TriedSettles ==
  ASSUME NEW V, NEW L \in Nat, NEW rs, Ranked(rs, L, V), NEW q, NEW m, Tried(rs, q, L, V, m),
         NEW C, C = {rs[n] : n \in Full(rs, q, L)}, C # {}
  PROVE  Settled(C, Final(m))
<1>1. /\ m \in Outcomes(V) /\ m.match /\ None \in V
  BY DEF Tried, Ranked
<1>2. PICK j \in 1 .. L : Leads(rs, q, L, m, j)
  BY DEF Tried
<1>3. PICK F : F = Full(rs, q, L) /\ F \subseteq 1 .. L
  BY DEF Full
<1>4. PICK v : v = rs[j].result
  OBVIOUS
<1>5. /\ j \in F /\ rs[j].prio = m.prio
      /\ \A n \in F : rs[n].prio <= m.prio
      /\ m.default <=> v = "default"
      /\ v # "default" => m.new = v \/ (v = "invalid" /\ m.new = None)
      /\ v # "default" /\ m.ambiguous => \E n \in F : rs[n].prio = m.prio /\ rs[n].result # v
      /\ v \notin {"default", "invalid"} /\ ~m.ambiguous =>
           \A n \in F : rs[n].prio = m.prio => rs[n].result = v
  BY <1>2, <1>3, <1>4 DEF Leads
<1>6. PICK e : e = Final(m)
  OBVIOUS
<1>7. /\ e.match /\ e.prio = m.prio /\ (e.ambiguous <=> m.ambiguous) /\ (e.default <=> m.default)
      /\ e.new = IF m.new = "invalid" \/ m.default THEN None ELSE m.new
  <2>1. CASE m.new = "invalid" \/ m.default
    <3>1. e = [m EXCEPT !.new = None]
      BY <1>6, <2>1 DEF Final
    <3> QED  BY <1>1, <2>1, <3>1 DEF Outcomes
  <2>2. CASE ~(m.new = "invalid" \/ m.default)
    BY <1>1, <1>6, <2>2 DEF Final
  <2> QED  BY <2>1, <2>2
<1>8. PICK prio : prio = Prio(C)
  OBVIOUS
<1>9. prio = m.prio
  <2> DEFINE P == {r.prio : r \in C}
  <2>1. P = {rs[n].prio : n \in F}
    BY <1>3
  <2>2. P \subseteq Int
    BY <1>3, <2>1 DEF Ranked
  <2>3. m.prio \in P /\ \A y \in P : y <= m.prio
    BY <1>5, <2>1
  <2> HIDE DEF P
  <2>4. Max(P) = m.prio
    BY <2>2, <2>3, MaxIs
  <2> QED  BY <1>8, <2>4 DEF P, Prio
<1>10. PICK results : results = Results(C, prio)
  OBVIOUS
<1>11. \A x : x \in results <=> \E n \in F : rs[n].prio = m.prio /\ rs[n].result = x
  BY <1>3, <1>9, <1>10 DEF Results
<1>12. v \in results /\ v # None
  BY <1>3, <1>4, <1>5, <1>11 DEF Ranked
<1>13. /\ v # "default" /\ m.ambiguous => \E x \in results : x # v
       /\ v \notin {"default", "invalid"} /\ ~m.ambiguous => results = {v}
  BY <1>5, <1>11
<1>14. ASSUME NEW x \in results, results = {x}
       PROVE  /\ x # "default" => ~e.ambiguous
              /\ e.default <=> x = "default"
              /\ e.new = IF x \in {"default", "invalid"} THEN None ELSE x
  <2>1. x = v
    BY <1>12, <1>14
  <2> QED  BY <1>5, <1>7, <1>13, <1>14, <2>1
<1>15. UseMatchedInst(e) /\ e.new # None => results = {e.new}
  BY <1>5, <1>7, <1>13 DEF UseMatchedInst
<1>16. ASSUME \E x, y \in results : x # y, results \cap {"default", "invalid"} = {}
       PROVE  e.ambiguous
  BY <1>7, <1>12, <1>13, <1>16
<1>17. e.default => "default" \in results
  BY <1>5, <1>7, <1>12
<1>18. SettledBy(prio, results, e)
  BY <1>7, <1>9, <1>14, <1>15, <1>16, <1>17 DEF SettledBy
<1> QED  BY <1>6, <1>8, <1>10, <1>18, Zenon DEF Settled

(* One level of an access: TypeRuleEngine::match() for the complete rules C and the
   longer ones of the level. *)
Judged(C, longer, V, m) ==
  /\ m \in Outcomes(V)
  /\ m.match <=> C # {}
  /\ C # {} => Settled(C, m)
  /\ m.defer => longer # {}
  /\ \A r \in longer : (C # {} => r.prio >= Prio(C)) => m.defer

LEMMA TriedJudged ==
  ASSUME NEW V, NEW L \in Nat, NEW rs, Ranked(rs, L, V), NEW q, NEW m, Tried(rs, q, L, V, m)
  PROVE  Judged({rs[n] : n \in Full(rs, q, L)}, {rs[n] : n \in Long(rs, q, L)}, V, Final(m))
<1>1. PICK C : C = {rs[n] : n \in Full(rs, q, L)}
  OBVIOUS
<1>2. PICK longer : longer = {rs[n] : n \in Long(rs, q, L)}
  OBVIOUS
<1>3. PICK e : e = Final(m)
  OBVIOUS
<1>4. m \in Outcomes(V) /\ None \in V
  BY DEF Tried, Ranked
<1>5. e \in Outcomes(V) /\ (e.match <=> m.match) /\ (e.defer <=> m.defer) /\ e.prio = m.prio
  <2>1. CASE m.new = "invalid" \/ m.default
    <3>1. e = [m EXCEPT !.new = None]
      BY <1>3, <2>1 DEF Final
    <3> QED  BY <1>4, <3>1 DEF Outcomes
  <2>2. CASE ~(m.new = "invalid" \/ m.default)
    BY <1>3, <1>4, <2>2 DEF Final
  <2> QED  BY <2>1, <2>2
<1>6. C # {} <=> Full(rs, q, L) # {}
  BY <1>1
<1>7. e.match <=> C # {}
  BY <1>5, <1>6 DEF Tried
<1>8. C # {} => Settled(C, e)
  BY <1>1, <1>3, TriedSettles
<1>9. e.defer => longer # {}
  BY <1>2, <1>5 DEF Tried
<1>10. ASSUME NEW r \in longer, C # {} => r.prio >= Prio(C) PROVE e.defer
  <2>1. PICK n \in Long(rs, q, L) : r = rs[n]
    BY <1>2
  <2>2. C # {} => Prio(C) = m.prio
    BY <1>5, <1>8, Zenon DEF Settled, SettledBy
  <2>3. m.match => rs[n].prio >= m.prio
    BY <1>5, <1>7, <1>10, <2>1, <2>2
  <2> QED  BY <1>5, <2>1, <2>3 DEF Tried
<1>11. Judged(C, longer, V, e)
  BY <1>5, <1>7, <1>8, <1>9, <1>10 DEF Judged
<1> QED  BY <1>1, <1>2, <1>3, <1>11

\* Rules are only listed that there are
Applicable ==
  /\ eng.listed \in [TypeIds -> Seq(Nat)]
  /\ \A t \in TypeIds : \A i \in Range(eng.listed[t]) : eng.rules[i].rule \in Rules

Values(table) == {None, "invalid"} \cup {table[r].result : r \in Rules}

LEMMA MatchIs ==
  ASSUME Applicable, NEW table \in Tables, NEW q, q.type \in TypeIds
  PROVE  Judged(Complete(table, q), Longer(table, q), Values(table), Match(table, q))
<1>1. PICK list \in Seq(Nat) : list = eng.listed[q.type]
  BY DEF Applicable
<1>2. PICK L \in Nat : L = Len(list) /\ DOMAIN list = 1 .. L
  BY <1>1
<1>3. PICK rs : rs = [n \in 1 .. L |-> table[eng.rules[list[n]].rule]]
  OBVIOUS
<1>4. PICK V : V = Values(table)
  OBVIOUS
<1>5. Ranked(rs, L, V)
  <2>1. None \in V /\ "invalid" \in V
    BY <1>4 DEF Values
  <2>2. ASSUME NEW n \in 1 .. L
        PROVE  rs[n].prio \in Int /\ rs[n].result \in V /\ rs[n].result # None
    <3>1. list[n] \in Range(list)
      BY <1>2 DEF Range
    <3>2. PICK r \in Rules : r = eng.rules[list[n]].rule
      BY <1>1, <3>1 DEF Applicable
    <3>3. rs[n] = table[r]
      BY <1>3, <3>2
    <3>4. table[r].prio \in Int /\ table[r].result # None
      BY <3>2, TablesAssumption DEF TablesAssumption
    <3>5. table[r].result \in V
      BY <1>4, <3>2 DEF Values
    <3> QED  BY <3>3, <3>4, <3>5
  <2> QED  BY <2>1, <2>2 DEF Ranked
<1> DEFINE TryAll(f) == f = [n \in 0 .. Len(eng.listed[q.type]) |->
                               IF n = 0 THEN NoMatch
                               ELSE TryRule(f[n - 1], table[eng.rules[eng.listed[q.type][n]].rule], q)]
<1>6. \A f : TryAll(f) <=> Tries(L, rs, q, f)
  <2> TAKE f
  <2>1. ASSUME NEW n \in 0 .. L
        PROVE  (IF n = 0 THEN NoMatch
                ELSE TryRule(f[n - 1], table[eng.rules[list[n]].rule], q))
                 = IF n = 0 THEN NoMatch ELSE TryRule(f[n - 1], rs[n], q)
    <3>1. n # 0 => n \in 1 .. L
      OBVIOUS
    <3>2. n # 0 => rs[n] = table[eng.rules[list[n]].rule]
      BY <1>3, <3>1
    <3> QED  BY <3>2, Zenon
  <2>2. [n \in 0 .. L |-> IF n = 0 THEN NoMatch
                          ELSE TryRule(f[n - 1], table[eng.rules[list[n]].rule], q)]
          = [n \in 0 .. L |-> IF n = 0 THEN NoMatch ELSE TryRule(f[n - 1], rs[n], q)]
    BY <2>1, Zenon
  <2> QED  BY <1>1, <1>2, <2>2, Zenon DEF Tries
<1>7. PICK g : g = CHOOSE f : TryAll(f)
  OBVIOUS
<1>8. Match(table, q) = Final(g[L])
  <2>1. Match(table, q) = Final((CHOOSE f : TryAll(f))[Len(eng.listed[q.type])])
    BY Zenon DEF Match, Final
  <2> HIDE DEF TryAll
  <2> QED  BY <1>1, <1>2, <1>7, <2>1
<1> HIDE DEF TryAll
<1>9. Tried(rs, q, L, V, g[L])
  <2>1. \E f : Tries(L, rs, q, f)
    BY <1>5, TryLoop
  <2>2. Tries(L, rs, q, g)
    BY <1>6, <1>7, <2>1, Zenon
  <2> QED  BY <1>5, <2>2, TryLoop
<1>10. Range(list) = {list[n] : n \in 1 .. L}
  BY <1>2 DEF Range
<1>11. Complete(table, q) = {rs[n] : n \in Full(rs, q, L)}
  <2>1. \A n \in 1 .. L : rs[n] = table[eng.rules[list[n]].rule]
    BY <1>3
  <2>2. Complete(table, q) = {table[eng.rules[i].rule] : i \in
                               {j \in Range(list) : IsFull(table[eng.rules[j].rule], q)}}
    BY <1>1, Zenon DEF Complete, IsFull
  <2> QED  BY <1>10, <2>1, <2>2 DEF Full
<1>12. Longer(table, q) = {rs[n] : n \in Long(rs, q, L)}
  <2>1. \A n \in 1 .. L : rs[n] = table[eng.rules[list[n]].rule]
    BY <1>3
  <2>2. Longer(table, q) = {table[eng.rules[i].rule] : i \in
                             {j \in Range(list) : IsLong(table[eng.rules[j].rule], q)}}
    BY <1>1, Zenon DEF Longer, IsLong
  <2> QED  BY <1>10, <2>1, <2>2 DEF Long
<1>13. PICK m : m = g[L]
  OBVIOUS
<1>14. Judged({rs[n] : n \in Full(rs, q, L)}, {rs[n] : n \in Long(rs, q, L)}, V, Final(m))
  BY <1>5, <1>9, <1>13, TriedJudged
<1> QED  BY <1>4, <1>8, <1>11, <1>12, <1>13, <1>14
-----------------------------------------------------------------------------
(* Applying the rules of all levels, the outermost first.                   *)

\* What is found at one level, after some levels where nothing was
Below(m, before) == [m EXCEPT !.defer = @ \/ before.defer]

Climbs(K, ms, f) ==
  f = [n \in 0 .. K |-> IF n = 0 THEN NoMatch
                        ELSE IF f[n - 1].match THEN f[n - 1] ELSE Below(ms[n], f[n - 1])]

\* The first k levels, with their complete and their longer rules
Climbed(cs, ls, k, V, m) ==
  /\ m \in Outcomes(V)
  /\ ~m.match => /\ \A n \in 1 .. k : cs[n] = {}
                 /\ m.defer => \E n \in 1 .. k : ls[n] # {}
                 /\ \A n \in 1 .. k : \A r \in ls[n] : m.defer
  /\ m.match =>
       \E p \in 1 .. k :
         /\ cs[p] # {} /\ \A n \in 1 .. p - 1 : cs[n] = {}
         /\ Settled(cs[p], m)
         /\ m.defer => \E n \in 1 .. p : ls[n] # {}
         /\ \A n \in 1 .. p : \A r \in ls[n] : (n = p => r.prio >= Prio(cs[p])) => m.defer

LEMMA BelowIs ==
  ASSUME NEW V, NEW m \in Outcomes(V), NEW b \in Outcomes(V), NEW C
  PROVE  LET d == Below(m, b)
         IN  /\ d \in Outcomes(V) /\ d.match = m.match /\ (d.defer <=> m.defer \/ b.defer)
             /\ Settled(C, m) => Settled(C, d)
<1>1. PICK d : d = Below(m, b)
  OBVIOUS
<1>2. PICK x \in BOOLEAN : x <=> m.defer \/ b.defer
  OBVIOUS
<1>3. d = [m EXCEPT !.defer = x]
  BY <1>1, <1>2 DEF Below, Outcomes
<1>4. /\ d \in Outcomes(V) /\ d.match = m.match /\ (d.defer <=> m.defer \/ b.defer)
      /\ d.prio = m.prio /\ d.ambiguous = m.ambiguous /\ d.default = m.default /\ d.new = m.new
  BY <1>2, <1>3 DEF Outcomes
<1>5. UseMatchedInst(d) <=> UseMatchedInst(m)
  BY <1>4 DEF UseMatchedInst
<1>6. \A prio, results : SettledBy(prio, results, m) => SettledBy(prio, results, d)
  BY <1>4, <1>5 DEF SettledBy
<1>7. Settled(C, m) => Settled(C, d)
  BY <1>6, Zenon DEF Settled
<1> QED  BY <1>1, <1>4, <1>7

LEMMA ClimbRound ==
  ASSUME NEW V, NEW K \in Nat, NEW cs, NEW ls, NEW ms, NEW k \in 1 .. K,
         Judged(cs[k], ls[k], V, ms[k]), NEW m, Climbed(cs, ls, k - 1, V, m)
  PROVE  Climbed(cs, ls, k, V, IF m.match THEN m ELSE Below(ms[k], m))
<1>1. \A n : n \in 1 .. k <=> n \in 1 .. k - 1 \/ n = k
  OBVIOUS
<1>2. m \in Outcomes(V)
  BY DEF Climbed
<1>3. CASE m.match
  <2>1. PICK p \in 1 .. k - 1 :
          /\ cs[p] # {} /\ \A n \in 1 .. p - 1 : cs[n] = {}
          /\ Settled(cs[p], m)
          /\ m.defer => \E n \in 1 .. p : ls[n] # {}
          /\ \A n \in 1 .. p : \A r \in ls[n] : (n = p => r.prio >= Prio(cs[p])) => m.defer
    BY <1>3 DEF Climbed
  <2>2. p \in 1 .. k
    BY <1>1
  <2>3. Climbed(cs, ls, k, V, m)
    BY <1>2, <1>3, <2>1, <2>2 DEF Climbed
  <2> QED  BY <1>3, <2>3
<1>4. CASE ~m.match
  <2>1. PICK e : e = ms[k]
    OBVIOUS
  <2>2. PICK d : d = Below(e, m)
    OBVIOUS
  <2>3. PICK C : C = cs[k]
    OBVIOUS
  <2>4. PICK longer : longer = ls[k]
    OBVIOUS
  <2>5. /\ e \in Outcomes(V) /\ (e.match <=> C # {})
        /\ C # {} => Settled(C, e)
        /\ e.defer => longer # {}
        /\ \A r \in longer : (C # {} => r.prio >= Prio(C)) => e.defer
    BY <2>1, <2>3, <2>4 DEF Judged
  <2>6. /\ d \in Outcomes(V) /\ d.match = e.match /\ (d.defer <=> e.defer \/ m.defer)
        /\ Settled(C, e) => Settled(C, d)
    BY <1>2, <2>2, <2>5, BelowIs
  <2>7. /\ \A n \in 1 .. k - 1 : cs[n] = {}
        /\ m.defer => \E n \in 1 .. k - 1 : ls[n] # {}
        /\ \A n \in 1 .. k - 1 : \A r \in ls[n] : m.defer
    BY <1>4 DEF Climbed
  <2>8. k \in 1 .. k
    BY <1>1
  <2>9. d.defer => \E n \in 1 .. k : ls[n] # {}
    BY <1>1, <2>4, <2>5, <2>6, <2>7, <2>8
  <2>10. CASE C = {}
    <3>1. ~d.match
      BY <2>5, <2>6, <2>10
    <3>2. \A n \in 1 .. k : cs[n] = {}
      BY <1>1, <2>3, <2>7, <2>10
    <3>3. \A n \in 1 .. k : \A r \in ls[n] : d.defer
      BY <1>1, <2>4, <2>5, <2>6, <2>7, <2>10
    <3>4. Climbed(cs, ls, k, V, d)
      BY <2>6, <2>9, <3>1, <3>2, <3>3 DEF Climbed
    <3> QED  BY <1>4, <2>1, <2>2, <3>4
  <2>11. CASE C # {}
    <3>1. d.match /\ Settled(cs[k], d)
      BY <2>3, <2>5, <2>6, <2>11
    <3>2. ASSUME NEW n \in 1 .. k, NEW r \in ls[n], n = k => r.prio >= Prio(cs[k])
          PROVE  d.defer
      <4>1. CASE n = k
        BY <2>3, <2>4, <2>5, <2>6, <3>2, <4>1
      <4>2. CASE n # k
        BY <1>1, <2>6, <2>7, <3>2, <4>2
      <4> QED  BY <4>1, <4>2
    <3>3. Climbed(cs, ls, k, V, d)
      BY <2>3, <2>6, <2>7, <2>8, <2>9, <2>11, <3>1, <3>2 DEF Climbed
    <3> QED  BY <1>4, <2>1, <2>2, <3>3
  <2> QED  BY <2>10, <2>11
<1> QED  BY <1>3, <1>4

LEMMA ClimbLoop ==
  ASSUME NEW V, None \in V, NEW K \in Nat, NEW cs, NEW ls, NEW ms,
         \A k \in 1 .. K : Judged(cs[k], ls[k], V, ms[k])
  PROVE  /\ \E f : Climbs(K, ms, f)
         /\ \A f : Climbs(K, ms, f) => Climbed(cs, ls, K, V, f[K])
<1>1. NoMatch \in Outcomes(V)
  BY DEF NoMatch, Outcomes
<1>2. Climbed(cs, ls, 0, V, NoMatch)
  <2>1. 1 .. 0 = {}
    OBVIOUS
  <2>2. PICK m : m = NoMatch
    OBVIOUS
  <2>3. ~m.match /\ ~m.defer /\ m \in Outcomes(V)
    BY <1>1, <2>2 DEF NoMatch
  <2>4. Climbed(cs, ls, 0, V, m)
    BY <2>1, <2>3 DEF Climbed
  <2> QED  BY <2>2, <2>4
<1>3. \E f : Climbs(K, ms, f)
  <2> DEFINE S == Outcomes(V)
             step == [p \in (1 .. K) \X S |-> IF p[2].match THEN p[2] ELSE Below(ms[p[1]], p[2])]
  <2>1. ASSUME NEW k \in 1 .. K, NEW x \in S
        PROVE  /\ step[<<k, x>>] = IF x.match THEN x ELSE Below(ms[k], x)
               /\ step[<<k, x>>] \in S
    <3>1. <<k, x>> \in (1 .. K) \X S
      OBVIOUS
    <3>2. step[<<k, x>>] = IF x.match THEN x ELSE Below(ms[k], x)
      BY <3>1
    <3>3. ms[k] \in S
      BY DEF Judged
    <3>4. Below(ms[k], x) \in S
      BY <3>3, BelowIs
    <3> HIDE DEF S, step
    <3> QED  BY <3>2, <3>4
  <2>2. step \in [(1 .. K) \X S -> S]
    <3>1. ASSUME NEW p \in (1 .. K) \X S PROVE step[p] \in S
      <4>1. PICK k \in 1 .. K, x \in S : p = <<k, x>>
        OBVIOUS
      <4> HIDE DEF step
      <4> QED  BY <2>1, <4>1
    <3>2. step = [p \in (1 .. K) \X S |-> step[p]]
      OBVIOUS
    <3> HIDE DEF step
    <3> QED  BY <3>1, <3>2
  <2> HIDE DEF step
  <2>3. PICK f \in [0 .. K -> S] : Rounds(K, NoMatch, step, f)
    <3> HIDE DEF S
    <3>1. NoMatch \in S
      BY <1>1 DEF S
    <3> QED  BY <2>2, <3>1, RoundsExist
  <2>4. \A k \in 0 .. K : f[k] = IF k = 0 THEN NoMatch ELSE step[<<k, f[k - 1]>>]
    BY <2>3, Zenon DEF Rounds
  <2>5. ASSUME NEW k \in 0 .. K
        PROVE  f[k] = IF k = 0 THEN NoMatch
                      ELSE IF f[k - 1].match THEN f[k - 1] ELSE Below(ms[k], f[k - 1])
    <3>1. CASE k = 0
      BY <2>4, <3>1, Zenon
    <3>2. CASE k # 0
      <4>1. k \in 1 .. K /\ k - 1 \in 0 .. K
        BY <3>2
      <4>2. PICK x \in S : x = f[k - 1]
        BY <2>3, <4>1
      <4>3. f[k] = step[<<k, x>>]
        BY <2>4, <3>2, <4>2, Zenon
      <4> QED  BY <2>1, <3>2, <4>1, <4>2, <4>3, Zenon
    <3> QED  BY <3>1, <3>2
  <2>6. f = [k \in 0 .. K |-> f[k]]
    BY <2>3
  <2>7. f = [k \in 0 .. K |-> IF k = 0 THEN NoMatch
                              ELSE IF f[k - 1].match THEN f[k - 1] ELSE Below(ms[k], f[k - 1])]
    BY <2>5, <2>6, Zenon
  <2> QED  BY <2>7, Zenon DEF Climbs
<1>4. ASSUME NEW f, Climbs(K, ms, f) PROVE Climbed(cs, ls, K, V, f[K])
  <2>1. \A k \in 0 .. K : f[k] = IF k = 0 THEN NoMatch
                                 ELSE IF f[k - 1].match THEN f[k - 1] ELSE Below(ms[k], f[k - 1])
    BY <1>4, Zenon DEF Climbs
  <2> DEFINE G == {k \in 0 .. K : Climbed(cs, ls, k, V, f[k])}
  <2>2. 0 \in G
    <3>1. 0 \in 0 .. K
      OBVIOUS
    <3>2. f[0] = NoMatch
      BY <2>1, <3>1, Zenon
    <3> QED  BY <1>2, <3>1, <3>2
  <2>3. ASSUME NEW k \in 1 .. K, k - 1 \in G PROVE k \in G
    <3>1. PICK x : x = f[k - 1]
      OBVIOUS
    <3>2. k \in 0 .. K /\ k # 0 /\ Climbed(cs, ls, k - 1, V, x)
      BY <2>3, <3>1
    <3>3. f[k] = IF x.match THEN x ELSE Below(ms[k], x)
      BY <2>1, <3>1, <3>2, Zenon
    <3>4. Climbed(cs, ls, k, V, IF x.match THEN x ELSE Below(ms[k], x))
      BY <3>2, ClimbRound
    <3> QED  BY <3>2, <3>3, <3>4
  <2>4. 0 .. K \subseteq G
    <3> HIDE DEF G
    <3> QED  BY <2>2, <2>3, Stepwise
  <2> QED  BY <2>4
<1> QED  BY <1>3, <1>4

LEMMA ApplicableMatchExact == Applicable => MatchExact
<1> SUFFICES ASSUME Applicable, NEW table \in Tables, NEW levels \in Queries
             PROVE
        LET m == MatchRek(table, levels)
            full == {n \in DOMAIN levels : Complete(table, levels[n]) # {}}
            q == levels[Min(full)]
            prio == Max({r.prio : r \in Complete(table, q)})
            results == {r.result : r \in {c \in Complete(table, q) : c.prio = prio}}
            none == {"default", "invalid"}
            seen == IF full = {} THEN DOMAIN levels ELSE 1..Min(full)
        IN
        /\ m.match <=> full # {}
        /\ full # {} =>
             /\ m.prio = prio
             /\ \A x \in results : results = {x} =>
                  /\ x # "default" => ~m.ambiguous
                  /\ m.default <=> x = "default"
                  /\ m.new = IF x \in none THEN None ELSE x
             /\ UseMatchedInst(m) /\ m.new # None => results = {m.new}
             /\ (\E x, y \in results : x # y) /\ results \cap none = {} => m.ambiguous
             /\ m.default => "default" \in results
        /\ m.defer => \E n \in seen : Longer(table, levels[n]) # {}
        /\ (\E n \in seen : \E r \in Longer(table, levels[n]) :
              n \in full => r.prio >= prio) => m.defer
  BY Zenon DEF MatchExact
<1>1. PICK K \in Nat : K = Len(levels) /\ DOMAIN levels = 1 .. K
  BY TablesAssumption DEF TablesAssumption
<1>2. \A n \in 1 .. K : levels[n].type \in TypeIds
  BY <1>1, TablesAssumption DEF TablesAssumption
<1>3. PICK cs : cs = [n \in 1 .. K |-> Complete(table, levels[n])]
  OBVIOUS
<1>4. PICK ls : ls = [n \in 1 .. K |-> Longer(table, levels[n])]
  OBVIOUS
<1>5. PICK ms : ms = [n \in 1 .. K |-> Match(table, levels[n])]
  OBVIOUS
<1>6. PICK V : V = Values(table)
  OBVIOUS
<1>7. \A k \in 1 .. K : Judged(cs[k], ls[k], V, ms[k])
  <2> TAKE k \in 1 .. K
  <2>1. PICK q : q = levels[k] /\ q.type \in TypeIds
    BY <1>2
  <2>2. Judged(Complete(table, q), Longer(table, q), Values(table), Match(table, q))
    BY <2>1, MatchIs
  <2>3. cs[k] = Complete(table, q) /\ ls[k] = Longer(table, q) /\ ms[k] = Match(table, q)
    BY <1>3, <1>4, <1>5, <2>1
  <2> QED  BY <1>6, <2>2, <2>3
<1>8. None \in V
  BY <1>6 DEF Values
<1> DEFINE ClimbAll(f) == f = [n \in 0 .. Len(levels) |->
                                 IF n = 0 THEN NoMatch
                                 ELSE IF f[n - 1].match THEN f[n - 1]
                                 ELSE [Match(table, levels[n]) EXCEPT !.defer = @ \/ f[n - 1].defer]]
<1>9. \A f : ClimbAll(f) <=> Climbs(K, ms, f)
  <2> TAKE f
  <2>1. ASSUME NEW n \in 0 .. K
        PROVE  (IF n = 0 THEN NoMatch
                ELSE IF f[n - 1].match THEN f[n - 1]
                ELSE [Match(table, levels[n]) EXCEPT !.defer = @ \/ f[n - 1].defer])
                 = IF n = 0 THEN NoMatch
                   ELSE IF f[n - 1].match THEN f[n - 1] ELSE Below(ms[n], f[n - 1])
    <3>1. n # 0 => n \in 1 .. K
      OBVIOUS
    <3>2. n # 0 => ms[n] = Match(table, levels[n])
      BY <1>5, <3>1
    <3> QED  BY <3>2, Zenon DEF Below
  <2>2. [n \in 0 .. K |-> IF n = 0 THEN NoMatch
                ELSE IF f[n - 1].match THEN f[n - 1]
                ELSE [Match(table, levels[n]) EXCEPT !.defer = @ \/ f[n - 1].defer]]
          = [n \in 0 .. K |-> IF n = 0 THEN NoMatch
                   ELSE IF f[n - 1].match THEN f[n - 1] ELSE Below(ms[n], f[n - 1])]
    BY <2>1, Zenon
  <2> QED  BY <1>1, <2>2, Zenon DEF Climbs
<1>10. PICK g : g = CHOOSE f : ClimbAll(f)
  OBVIOUS
<1>11. PICK m : m = MatchRek(table, levels)
  OBVIOUS
<1>12. m = g[K]
  <2>1. MatchRek(table, levels) = (CHOOSE f : ClimbAll(f))[Len(levels)]
    BY Zenon DEF MatchRek
  <2> HIDE DEF ClimbAll
  <2> QED  BY <1>1, <1>10, <1>11, <2>1
<1> HIDE DEF ClimbAll
<1>13. Climbed(cs, ls, K, V, m)
  <2>1. \E f : Climbs(K, ms, f)
    BY <1>7, <1>8, ClimbLoop
  <2>2. Climbs(K, ms, g)
    BY <1>9, <1>10, <2>1, Zenon
  <2> QED  BY <1>7, <1>8, <1>12, <2>2, ClimbLoop
<1>14. PICK full : full = {n \in DOMAIN levels : Complete(table, levels[n]) # {}}
  OBVIOUS
<1>15. full = {n \in 1 .. K : cs[n] # {}} /\ full \subseteq Int
  BY <1>1, <1>3, <1>14
<1>16. \A n \in 1 .. K : cs[n] = Complete(table, levels[n]) /\ ls[n] = Longer(table, levels[n])
  BY <1>3, <1>4
<1>17. CASE ~m.match
  <2>1. /\ \A n \in 1 .. K : cs[n] = {}
        /\ m.defer => \E n \in 1 .. K : ls[n] # {}
        /\ \A n \in 1 .. K : \A r \in ls[n] : m.defer
    BY <1>13, <1>17 DEF Climbed
  <2>2. full = {}
    BY <1>15, <2>1
  <2>3. m.defer => \E n \in DOMAIN levels : Longer(table, levels[n]) # {}
    BY <1>1, <1>16, <2>1
  <2>4. \A n \in DOMAIN levels : \A r \in Longer(table, levels[n]) : m.defer
    BY <1>1, <1>16, <2>1
  <2> QED  BY <1>11, <1>14, <1>17, <2>2, <2>3, <2>4, Zenon
<1>18. CASE m.match
  <2>1. PICK p \in 1 .. K :
          /\ cs[p] # {} /\ \A n \in 1 .. p - 1 : cs[n] = {}
          /\ Settled(cs[p], m)
          /\ m.defer => \E n \in 1 .. p : ls[n] # {}
          /\ \A n \in 1 .. p : \A r \in ls[n] : (n = p => r.prio >= Prio(cs[p])) => m.defer
    BY <1>13, <1>18 DEF Climbed
  <2>2. p \in full /\ \A n \in full : p <= n
    <3>1. \A n \in 1 .. K : n \in 1 .. p - 1 \/ p <= n
      OBVIOUS
    <3> QED  BY <1>15, <2>1, <3>1
  <2>3. Min(full) = p /\ full # {}
    BY <1>15, <2>2, MinIs
  <2>4. \A n \in 1 .. p : n \in 1 .. K /\ (n \in full <=> n = p)
    <3>1. \A n \in 1 .. p : n \in 1 .. K /\ (n = p \/ n \in 1 .. p - 1)
      OBVIOUS
    <3> QED  BY <1>15, <2>1, <2>2, <3>1
  <2>5. PICK C : C = Complete(table, levels[p])
    OBVIOUS
  <2>6. C = cs[p]
    BY <1>16, <2>5
  <2>7. PICK prio : prio = Max({r.prio : r \in C})
    OBVIOUS
  <2>8. PICK results : results = {r.result : r \in {c \in C : c.prio = prio}}
    OBVIOUS
  <2>9. SettledBy(prio, results, m)
    BY <2>1, <2>6, <2>7, <2>8, Zenon DEF Settled, Prio, Results
  <2>10. m.defer => \E n \in 1 .. p : Longer(table, levels[n]) # {}
    BY <1>16, <2>1, <2>4
  <2>11. (\E n \in 1 .. p : \E r \in Longer(table, levels[n]) :
            n \in full => r.prio >= prio) => m.defer
    <3>1. prio = Prio(cs[p])
      BY <2>6, <2>7, Zenon DEF Prio
    <3> QED  BY <1>16, <2>1, <2>4, <3>1
  <2> DEFINE mm == MatchRek(table, levels)
             ff == {n \in DOMAIN levels : Complete(table, levels[n]) # {}}
             qq == levels[Min(ff)]
             pp == Max({r.prio : r \in Complete(table, qq)})
             rr == {r.result : r \in {c \in Complete(table, qq) : c.prio = pp}}
             ss == IF ff = {} THEN DOMAIN levels ELSE 1..Min(ff)
  <2>12. mm = m /\ ff = full /\ Min(ff) = p
    BY <1>11, <1>14, <2>3
  <2>13. ss = 1 .. p
    BY <1>14, <2>3
  <2>14. Complete(table, qq) = C
    BY <2>5, <2>12
  <2> HIDE DEF qq
  <2>15. pp = prio
    BY <2>7, <2>14
  <2> HIDE DEF pp
  <2>16. rr = results
    BY <2>8, <2>14, <2>15
  <2> HIDE DEF mm, ff, rr, ss
  <2>17. /\ mm.match <=> ff # {}
         /\ ff # {} => SettledBy(pp, rr, mm)
         /\ mm.defer => \E n \in ss : Longer(table, levels[n]) # {}
         /\ (\E n \in ss : \E r \in Longer(table, levels[n]) : n \in ff => r.prio >= pp) => mm.defer
    BY <1>18, <2>3, <2>9, <2>10, <2>11, <2>12, <2>13, <2>15, <2>16
  <2> QED  BY <2>17, Zenon DEF mm, ff, qq, pp, rr, ss, SettledBy
<1> QED  BY <1>17, <1>18

LEMMA IInvApplicable == IInv => Applicable
<1> SUFFICES ASSUME IInv PROVE Applicable
  OBVIOUS
<1>1. eng \in Engine /\ Consistent(eng)
  BY DEF IInv, TypeOK
<1>2. eng.listed \in [TypeIds -> Seq(Nat)]
  BY <1>1 DEF Engine
<1>3. PICK rules \in Seq([rule : Rules, index : Nat]) : rules = eng.rules
  BY <1>1 DEF Engine
<1>4. PICK hits \in Seq(Nat) : hits = eng.hits
  BY <1>1 DEF Engine
<1>5. Len(hits) <= Len(rules)
  BY <1>1, <1>3, <1>4 DEF Consistent
<1>6. ASSUME NEW t \in TypeIds, NEW i \in Range(eng.listed[t]) PROVE eng.rules[i].rule \in Rules
  <2>1. i \in DOMAIN hits
    BY <1>1, <1>4, <1>6 DEF Consistent
  <2>2. i \in 1 .. Len(rules)
    BY <1>5, <2>1
  <2>3. rules[i] \in [rule : Rules, index : Nat]
    BY <2>2, MemberOf
  <2> QED  BY <1>3, <2>3
<1> QED  BY <1>2, <1>6 DEF Applicable

(* Whatever the order in which the rules of a type are listed, an access is
   decided by the complete rules of the highest priority at the outermost
   instance that has any (TypeRuleEngine::match(), Instance::typeRuleMatchRek()). *)
THEOREM MatchesAreExact == Spec => []MatchExact
<1>1. IInv => MatchExact
  BY IInvApplicable, ApplicableMatchExact
<1> QED  BY <1>1, Invariance, PTL
=============================================================================
