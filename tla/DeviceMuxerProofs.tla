------------------------- MODULE DeviceMuxerProofs -------------------------
(* Proofs about DeviceMuxer: for any threads, messages and channels, and wherever
   the stream is cut, each channel is a pipe of its own. *)
EXTENDS DeviceMuxer, FiniteSetsExt, TLAPS, WellFoundedInduction, SequenceTheorems

(* A set of natural numbers that is not empty has a least member: what these
   proofs use in place of induction. *)
LEMMA Least ==
  ASSUME NEW S, S \subseteq Nat, S # {}
  PROVE  \E x \in S : \A y \in S : x <= y
<1> DEFINE R == OpToRel(<, Nat)
<1>1. IsWellFoundedOn(R, Nat)
  BY NatLessThanWellFounded
<1>2. \A x, y \in Nat : x < y => <<x, y>> \in R
  BY DEF OpToRel
<1> HIDE DEF R
<1>3. PICK x \in S : \A y \in S : <<y, x>> \notin R
  BY <1>1, WFMin
<1>4. \A y \in S : ~(y < x)
  BY <1>2, <1>3
<1>5. \A y \in S : x <= y
  BY <1>4
<1> QED  BY <1>5

(* Of those up to a bound, Max returns the largest. *)
LEMMA MaxIs ==
  ASSUME NEW b \in Nat, NEW S, S \subseteq 0 .. b, S # {}
  PROVE  Max(S) \in S /\ \A y \in S : Max(S) >= y
<1> DEFINE T == {b - x : x \in S}
<1>1. T \subseteq Nat /\ T # {}
  <2>1. \A x \in S : x \in Nat /\ b - x \in Nat
    OBVIOUS
  <2>2. PICK x \in S : TRUE
    OBVIOUS
  <2>3. b - x \in T
    OBVIOUS
  <2> QED  BY <2>1, <2>3
<1>2. \A z \in T : \E x \in S : z = b - x
  OBVIOUS
<1>3. PICK z \in T : \A y \in T : z <= y
  <2> HIDE DEF T
  <2> QED  BY <1>1, Least
<1>4. PICK x \in S : z = b - x
  BY <1>2
<1>5. \A y \in S : x >= y
  <2> TAKE y \in S
  <2>1. b - y \in T /\ x \in 0 .. b /\ y \in 0 .. b
    OBVIOUS
  <2>2. z <= b - y
    BY <1>3, <2>1
  <2> QED  BY <1>4, <2>1, <2>2
<1>6. \E m \in S : \A y \in S : m >= y
  BY <1>5
<1> QED  BY <1>6, Zenon DEF Max

---------------------------------------------------------------------------
(* How handleReadyRead() takes a stream apart: InTransit, as a function of the
   stream. *)

Stream == buffer \o device \o wire

(* The packet at k is there as a whole, and where the next one begins. *)
After(s, k) == k + HdrSize + s[k + HdrSize]
Whole(s, k) == k + HdrSize <= Len(s) /\ After(s, k) <= Len(s)
DataFor(s, k, c) == IF s[k + 1] = c THEN SubSeq(s, k + HdrSize + 1, After(s, k)) ELSE <<>>

Packets(s, c, f, k) ==
  IF Len(s) < k + HdrSize THEN <<>>
  ELSE IF Len(s) < k + HdrSize + s[k + 2] THEN <<>>
  ELSE (IF s[k + 1] = c THEN SubSeq(s, k + HdrSize + 1, k + HdrSize + s[k + 2]) ELSE <<>>)
       \o f[k + HdrSize + s[k + 2]]
ParseFrom(s, c, n, f) == f = [k \in n .. Len(s) |-> Packets(s, c, f, k)]
IsParse(s, c, f) == ParseFrom(s, c, 0, f)
Parse(s, c) == CHOOSE f : IsParse(s, c, f)

LEMMA InTransitIs ==
  \A c : InTransit(c) = Parse(Stream, c)[0] /\ InTransit(c)' = Parse(Stream', c)[0]
<1>1. \A c : InTransit(c) = Parse(Stream, c)[0]
  BY Zenon DEF InTransit, Stream, Parse, IsParse, ParseFrom, Packets
<1>2. \A c : InTransit(c)' = Parse(Stream', c)[0]
  BY Zenon DEF InTransit, Stream, Parse, IsParse, ParseFrom, Packets
<1> QED  BY <1>1, <1>2

(* The units of a concatenation, and of a part of a sequence. *)
LEMMA ConcatIs ==
  ASSUME NEW S, NEW a \in Seq(S), NEW b \in Seq(S)
  PROVE  /\ a \o b \in Seq(S) /\ Len(a \o b) = Len(a) + Len(b)
         /\ \A p \in 1 .. Len(a) : (a \o b)[p] = a[p]
         /\ \A p \in Len(a) + 1 .. Len(a) + Len(b) : (a \o b)[p] = b[p - Len(a)]
OBVIOUS

LEMMA Associative ==
  ASSUME NEW a \in Seq(Nat), NEW b \in Seq(Nat), NEW c \in Seq(Nat)
  PROVE  (a \o b) \o c = a \o (b \o c)
BY ConcatAssociative, SMT

LEMMA PartIs ==
  ASSUME NEW S, NEW s \in Seq(S), NEW m \in Nat, NEW n \in Nat, m <= n, n <= Len(s)
  PROVE  /\ SubSeq(s, m + 1, n) \in Seq(S) /\ Len(SubSeq(s, m + 1, n)) = n - m
         /\ \A p \in 1 .. n - m : SubSeq(s, m + 1, n)[p] = s[m + p]
OBVIOUS

Joined(a, b, c) == c = a \o b
Split(x, k, t, o) == t = SubSeq(x, 1, k) /\ o = SubSeq(x, k + 1, Len(x))

(* A sequence that is cut in two. *)
LEMMA Cut ==
  ASSUME NEW x \in Seq(Nat), NEW k \in 1 .. Len(x), NEW t, NEW o, Split(x, k, t, o)
  PROVE  t \in Seq(Nat) /\ o \in Seq(Nat) /\ Joined(t, o, x) /\ (k < Len(x) => o # <<>>)
<1>1. PICK z, n : z = 0 /\ n = Len(x)
  OBVIOUS
<1> t = SubSeq(x, 1, k) /\ o = SubSeq(x, k + 1, n)
  BY <1>1 DEF Split
<1>2. z \in Nat /\ n \in Nat /\ k \in Nat /\ z <= k /\ k <= n /\ z + 1 = 1 /\ k - z = k
  BY <1>1
<1>3. t \in Seq(Nat) /\ Len(t) = k /\ \A p \in 1 .. k : t[p] = x[p]
  <2>1. /\ SubSeq(x, z + 1, k) \in Seq(Nat) /\ Len(SubSeq(x, z + 1, k)) = k - z
        /\ \A p \in 1 .. k - z : SubSeq(x, z + 1, k)[p] = x[z + p]
    BY <1>1, <1>2, PartIs
  <2>2. \A p \in 1 .. k : z + p = p
    BY <1>1
  <2> QED  BY <1>2, <2>1, <2>2
<1>4. o \in Seq(Nat) /\ Len(o) = n - k /\ \A p \in 1 .. n - k : o[p] = x[k + p]
  <2>1. k <= n /\ n <= Len(x)
    BY <1>1, <1>2
  <2>2. /\ SubSeq(x, k + 1, n) \in Seq(Nat) /\ Len(SubSeq(x, k + 1, n)) = n - k
        /\ \A p \in 1 .. n - k : SubSeq(x, k + 1, n)[p] = x[k + p]
    BY SMTT(30), <1>2, <2>1, PartIs
  <2> QED  BY <1>1, <2>2
<1>5. PICK y : y = t \o o
  OBVIOUS
<1>6. /\ y \in Seq(Nat) /\ Len(y) = n
      /\ \A p \in 1 .. k : y[p] = t[p]
      /\ \A p \in k + 1 .. n : y[p] = o[p - k]
  <2>1. t \in Seq(Nat) /\ o \in Seq(Nat) /\ k + (n - k) = n /\ Len(t) = k /\ Len(o) = n - k
    BY <1>2, <1>3, <1>4
  <2>2. /\ t \o o \in Seq(Nat) /\ Len(t \o o) = Len(t) + Len(o)
        /\ \A p \in 1 .. Len(t) : (t \o o)[p] = t[p]
        /\ \A p \in Len(t) + 1 .. Len(t) + Len(o) : (t \o o)[p] = o[p - Len(t)]
    BY <2>1, ConcatIs
  <2> QED  BY <1>5, <2>1, <2>2
<1>7. \A p \in 1 .. Len(y) : y[p] = x[p]
  <2> TAKE p \in 1 .. Len(y)
  <2>1. CASE p \in 1 .. k
    BY <1>3, <1>6, <2>1
  <2>2. CASE p \in k + 1 .. n
    <3>1. p - k \in 1 .. n - k /\ k + (p - k) = p
      BY <1>2, <2>2
    <3> QED  BY <1>4, <1>6, <2>2, <3>1
  <2> QED  BY <1>2, <1>6, <2>1, <2>2
<1>8. y = x
  BY <1>1, <1>6, <1>7, SeqEqual
<1>9. k < Len(x) => Len(o) # 0
  BY <1>1, <1>2, <1>4
<1> QED  BY <1>3, <1>4, <1>5, <1>8, <1>9 DEF Joined

(* A whole packet ends within the stream, and its data is a part of it. *)
LEMMA PacketAt ==
  ASSUME NEW s \in Seq(Nat), NEW k \in 0 .. Len(s), Whole(s, k), NEW c
  PROVE  /\ After(s, k) \in k + HdrSize .. Len(s)
         /\ s[k + 1] \in Nat /\ s[k + 2] \in Nat
         /\ DataFor(s, k, c) \in Seq(Nat)
<1>1. k \in Nat /\ Len(s) \in Nat /\ k + 1 \in 1 .. Len(s) /\ k + 2 \in 1 .. Len(s)
  BY DEF Whole, HdrSize
<1>2. s[k + 1] \in Nat /\ s[k + 2] \in Nat
  BY <1>1
<1>3. After(s, k) \in k + HdrSize .. Len(s)
  BY <1>1, <1>2 DEF Whole, After, HdrSize
<1>4. SubSeq(s, k + HdrSize + 1, After(s, k)) \in Seq(Nat)
  BY <1>1, <1>3, PartIs DEF HdrSize
<1> QED  BY <1>2, <1>3, <1>4 DEF DataFor

(* What the recursion does at k: the data of the packet there, and what follows. *)
LEMMA ParseAt ==
  ASSUME NEW s \in Seq(Nat), NEW c, NEW f, IsParse(s, c, f), NEW k \in 0 .. Len(s)
  PROVE  f[k] = IF Whole(s, k) THEN DataFor(s, k, c) \o f[After(s, k)] ELSE <<>>
<1>1. f[k] = IF Len(s) < k + HdrSize THEN <<>>
             ELSE IF Len(s) < k + HdrSize + s[k + 2] THEN <<>>
             ELSE (IF s[k + 1] = c THEN SubSeq(s, k + HdrSize + 1, k + HdrSize + s[k + 2]) ELSE <<>>)
                  \o f[k + HdrSize + s[k + 2]]
  BY DEF IsParse, ParseFrom, Packets
<1>2. k \in Nat /\ Len(s) \in Nat /\ (k + 2 <= Len(s) => s[k + 2] \in Nat)
  <2>1. k \in Nat /\ Len(s) \in Nat
    OBVIOUS
  <2>2. k + 2 <= Len(s) => k + 2 \in 1 .. Len(s)
    BY <2>1
  <2> QED  BY <2>1, <2>2
<1>3. Len(s) < k + HdrSize <=> ~(k + HdrSize <= Len(s))
  BY <1>2 DEF HdrSize
<1>4. k + HdrSize <= Len(s) =>
        (Len(s) < k + HdrSize + s[k + 2] <=> ~(After(s, k) <= Len(s)))
  BY <1>2 DEF HdrSize, After
<1>5. After(s, k) = k + HdrSize + s[k + 2]
  BY DEF HdrSize, After
<1> QED  BY <1>1, <1>3, <1>4, <1>5 DEF Whole, DataFor

(* The recursion has a value: from the end of the stream backwards. *)
LEMMA ParseExists ==
  ASSUME NEW s \in Seq(Nat), NEW c
  PROVE  IsParse(s, c, Parse(s, c))
<1> DEFINE T == {n \in 0 .. Len(s) : \E f : ParseFrom(s, c, n, f)}
<1>1. Len(s) \in Nat
  OBVIOUS
<1>2. Len(s) \in T
  <2> DEFINE g == [k \in Len(s) .. Len(s) |-> <<>>]
  <2>1. \A k \in Len(s) .. Len(s) : Packets(s, c, g, k) = <<>>
    BY <1>1 DEF HdrSize, Packets
  <2>2. ParseFrom(s, c, Len(s), g)
    BY <2>1 DEF ParseFrom
  <2>3. Len(s) \in 0 .. Len(s)
    BY <1>1
  <2> QED  BY <2>2, <2>3
<1>3. PICK n \in T : \A m \in T : n <= m
  <2>1. T \subseteq Nat /\ T # {}
    <3>1. 0 .. Len(s) \subseteq Nat /\ T \subseteq 0 .. Len(s)
      BY <1>1
    <3> QED  BY <1>2, <3>1
  <2> HIDE DEF T
  <2> QED  BY <2>1, Least
<1>4. ASSUME n # 0 PROVE FALSE
  <2>1. n \in Nat /\ n - 1 \in 0 .. Len(s) /\ n <= Len(s)
    BY <1>1, <1>3, <1>4
  <2>2. PICK f : ParseFrom(s, c, n, f)
    BY <1>3
  <2> DEFINE g == [k \in n - 1 .. Len(s) |-> IF k = n - 1 THEN Packets(s, c, f, k) ELSE f[k]]
  <2>3. ASSUME NEW k \in n - 1 .. Len(s) PROVE Packets(s, c, g, k) = Packets(s, c, f, k)
    <3>1. CASE Len(s) < k + HdrSize \/ Len(s) < k + HdrSize + s[k + 2]
      BY <3>1 DEF Packets
    <3>2. CASE ~(Len(s) < k + HdrSize) /\ ~(Len(s) < k + HdrSize + s[k + 2])
      <4>1. k \in Nat /\ k + 2 \in 1 .. Len(s)
        BY <1>1, <2>1, <3>2 DEF HdrSize
      <4>2. s[k + 2] \in Nat
        BY <4>1
      <4>3. k + HdrSize + s[k + 2] \in n .. Len(s) /\ k + HdrSize + s[k + 2] # n - 1
            /\ k + HdrSize + s[k + 2] \in n - 1 .. Len(s)
        BY SMTT(30), <1>1, <2>1, <3>2, <4>1, <4>2 DEF HdrSize
      <4>4. g[k + HdrSize + s[k + 2]] = f[k + HdrSize + s[k + 2]]
        BY <4>3
      <4> HIDE DEF g
      <4> QED  BY <3>2, <4>4 DEF Packets
    <3> QED  BY <3>1, <3>2
  <2>4. ASSUME NEW k \in n - 1 .. Len(s) PROVE g[k] = Packets(s, c, f, k)
    <3>1. CASE k = n - 1
      BY <3>1
    <3>2. CASE k # n - 1
      <4>1. k \in n .. Len(s)
        BY <2>1, <3>2
      <4>2. f[k] = Packets(s, c, f, k)
        BY <2>2, <4>1 DEF ParseFrom
      <4> QED  BY <3>2, <4>2
    <3> QED  BY <3>1, <3>2
  <2>5. ParseFrom(s, c, n - 1, g)
    <3> DEFINE h == [k \in n - 1 .. Len(s) |-> Packets(s, c, g, k)]
    <3>1. \A k \in n - 1 .. Len(s) : g[k] = h[k]
      BY <2>3, <2>4
    <3>2. g = h
      <4>1. DOMAIN g = n - 1 .. Len(s) /\ DOMAIN h = n - 1 .. Len(s)
        OBVIOUS
      <4>2. g = [k \in DOMAIN g |-> g[k]] /\ h = [k \in DOMAIN h |-> h[k]]
        OBVIOUS
      <4> HIDE DEF g, h
      <4> QED  BY <3>1, <4>1, <4>2
    <3> QED  BY <3>2 DEF ParseFrom
  <2>6. n - 1 \in T
    <3> HIDE DEF g
    <3> QED  BY <2>1, <2>5
  <2>7. n <= n - 1
    BY <1>3, <2>6
  <2> QED  BY <2>1, <2>7
<1>5. PICK f : ParseFrom(s, c, 0, f)
  BY <1>3, <1>4
<1>6. IsParse(s, c, f)
  BY <1>5 DEF IsParse
<1> QED  BY <1>6, Zenon DEF Parse

(* The largest member of a bounded set: arguments go from the end backwards. *)
LEMMA Largest ==
  ASSUME NEW b \in Nat, NEW S, S \subseteq 0 .. b, S # {}
  PROVE  \E k \in S : \A m \in S : m <= k
<1>1. Max(S) \in S /\ \A y \in S : Max(S) >= y
  BY MaxIs
<1>2. \A y \in S : y \in Nat
  OBVIOUS
<1> QED  BY <1>1, <1>2

(* Its values are units. *)
LEMMA ParseType ==
  ASSUME NEW s \in Seq(Nat), NEW c, NEW f, IsParse(s, c, f)
  PROVE  \A k \in 0 .. Len(s) : f[k] \in Seq(Nat)
<1> DEFINE S == {k \in 0 .. Len(s) : f[k] \notin Seq(Nat)}
<1>1. SUFFICES ASSUME S # {} PROVE FALSE
  OBVIOUS
<1>2. Len(s) \in Nat /\ S \subseteq 0 .. Len(s)
  OBVIOUS
<1>3. PICK k \in S : \A m \in S : m <= k
  <2> HIDE DEF S
  <2> QED  BY <1>1, <1>2, Largest
<1>4. k \in 0 .. Len(s) /\ f[k] \notin Seq(Nat) /\ <<>> \in Seq(Nat)
  OBVIOUS
<1>5. Whole(s, k) /\ f[k] = DataFor(s, k, c) \o f[After(s, k)]
  BY <1>4, ParseAt
<1>6. After(s, k) \in k + HdrSize .. Len(s) /\ DataFor(s, k, c) \in Seq(Nat)
  BY <1>4, <1>5, PacketAt
<1>7. After(s, k) \in 0 .. Len(s) /\ ~(After(s, k) <= k)
  BY <1>2, <1>4, <1>6 DEF HdrSize
<1>8. f[After(s, k)] \in Seq(Nat)
  BY <1>3, <1>7
<1>9. DataFor(s, k, c) \o f[After(s, k)] \in Seq(Nat)
  BY <1>6, <1>8
<1> QED  BY <1>4, <1>5, <1>9

---------------------------------------------------------------------------
(* What more units at the end, and fewer at the beginning, change. *)

(* b has the units of a, m places further on. *)
Shifted(a, b, m) ==
  m + Len(a) <= Len(b) /\ \A p \in 1 .. Len(a) : \A x : x = m + p => b[x] = a[p]

(* A packet of a is one of b, if b has the same units m places further on. *)
LEMMA SamePacket ==
  ASSUME NEW a \in Seq(Nat), NEW b \in Seq(Nat), NEW m \in Nat, NEW k \in 0 .. Len(a), NEW n, n = m + k,
         Whole(a, k), Shifted(a, b, m)
  PROVE  /\ Whole(b, n) /\ After(b, n) = m + After(a, k)
         /\ b[n + 1] = a[k + 1]
         /\ \A c : DataFor(b, n, c) = DataFor(a, k, c)
<1> DEFINE d == a[k + 2]
<1>1. /\ Len(a) \in Nat /\ Len(b) \in Nat /\ k \in Nat /\ n \in Nat
      /\ k + 1 \in 1 .. Len(a) /\ k + 2 \in 1 .. Len(a)
  BY DEF Whole, HdrSize
<1>2. b[n + 1] = a[k + 1] /\ b[n + 2] = d /\ d \in Nat
  <2>1. n + 1 = m + (k + 1) /\ n + 2 = m + (k + 2)
    BY <1>1
  <2>2. d \in Nat
    BY <1>1
  <2> QED  BY <1>1, <2>1, <2>2 DEF Shifted
<1>3. After(a, k) = k + 2 + d /\ After(b, n) = n + 2 + d /\ k + 2 + d <= Len(a)
  <2>1. After(a, k) = k + 2 + d
    BY DEF After, HdrSize
  <2>2. After(b, n) = n + 2 + b[n + 2]
    BY DEF After, HdrSize
  <2> HIDE DEF d
  <2> QED  BY <1>2, <2>1, <2>2 DEF Whole
<1> HIDE DEF d
<1>4. Whole(b, n) /\ After(b, n) = m + After(a, k)
  <2>1. d \in Nat /\ k + 2 + d <= Len(a) /\ m + Len(a) <= Len(b)
    BY <1>2, <1>3 DEF Shifted
  <2>2. n + 2 + d <= Len(b) /\ n + 2 <= Len(b) /\ n + 2 + d = m + (k + 2 + d)
    BY SMTT(30), <1>1, <2>1
  <2> QED  BY <1>3, <2>2 DEF Whole, HdrSize
<1>5. SubSeq(b, n + HdrSize + 1, After(b, n)) = SubSeq(a, k + HdrSize + 1, After(a, k))
  <2>1. n + 2 \in Nat /\ k + 2 \in Nat /\ n + 2 + d <= Len(b)
    BY <1>1, <1>3, <1>4 DEF Whole
  <2>2. ASSUME NEW p \in 1 .. d PROVE b[n + 2 + p] = a[k + 2 + p]
    <3>1. k + 2 + p \in 1 .. Len(a) /\ m + (k + 2 + p) = n + 2 + p
      BY <1>1, <1>2, <1>3
    <3> QED  BY <3>1 DEF Shifted
  <2>3. SubSeq(b, n + 2 + 1, n + 2 + d) = SubSeq(a, k + 2 + 1, k + 2 + d)
    <3>1. k + 2 + d <= Len(a) /\ d \in Nat
      BY <1>2, <1>3
    <3>2. PICK x, y : x = n + 2 /\ y = k + 2
      OBVIOUS
    <3>3. /\ x \in Nat /\ y \in Nat /\ x + d <= Len(b) /\ y + d <= Len(a)
          /\ \A p \in 1 .. d : b[x + p] = a[y + p]
      BY <2>1, <2>2, <3>1, <3>2
    <3>4. SubSeq(b, x + 1, x + d) = SubSeq(a, y + 1, y + d)
      <4>1. PICK i, j : i = x + d /\ j = y + d
        OBVIOUS
      <4>2. /\ SubSeq(b, x + 1, i) \in Seq(Nat) /\ Len(SubSeq(b, x + 1, i)) = d
            /\ \A p \in 1 .. d : SubSeq(b, x + 1, i)[p] = b[x + p]
        <5>0. x \in Nat /\ b \in Seq(Nat)
          BY <3>3
        <5>1. i \in Nat /\ x <= i /\ i - x = d /\ i <= Len(b)
          BY <3>1, <3>3, <4>1
        <5>2. /\ SubSeq(b, x + 1, i) \in Seq(Nat) /\ Len(SubSeq(b, x + 1, i)) = i - x
              /\ \A p \in 1 .. i - x : SubSeq(b, x + 1, i)[p] = b[x + p]
          BY <5>1, <5>0, PartIs
        <5> QED  BY <5>1, <5>2
      <4>3. /\ SubSeq(a, y + 1, j) \in Seq(Nat) /\ Len(SubSeq(a, y + 1, j)) = d
            /\ \A p \in 1 .. d : SubSeq(a, y + 1, j)[p] = a[y + p]
        <5>0. y \in Nat /\ a \in Seq(Nat)
          BY <3>3
        <5>1. j \in Nat /\ y <= j /\ j - y = d /\ j <= Len(a)
          BY <3>1, <3>3, <4>1
        <5>2. /\ SubSeq(a, y + 1, j) \in Seq(Nat) /\ Len(SubSeq(a, y + 1, j)) = j - y
              /\ \A p \in 1 .. j - y : SubSeq(a, y + 1, j)[p] = a[y + p]
          BY <5>1, <5>0, PartIs
        <5> QED  BY <5>1, <5>2
      <4>4. PICK u, v : u = SubSeq(b, x + 1, i) /\ v = SubSeq(a, y + 1, j)
        OBVIOUS
      <4>5. /\ u \in Seq(Nat) /\ v \in Seq(Nat) /\ Len(u) = d /\ Len(v) = d
            /\ \A p \in 1 .. d : u[p] = v[p]
        BY <3>3, <4>2, <4>3, <4>4
      <4>6. u = v
        BY <4>5, SeqEqual
      <4> QED  BY <4>1, <4>4, <4>6
    <3> QED  BY <3>2, <3>4
  <2> QED  BY <1>3, <2>3 DEF HdrSize
<1> QED  BY <1>2, <1>4, <1>5 DEF DataFor

(* The packets of a stream are found from B, and e is where the next begins, or
   the part of it that is there. *)
Chain(s, e, B) ==
  /\ B \subseteq 0 .. Len(s) /\ 0 \in B /\ e \in B
  /\ \A k \in B : k <= e
  /\ ~Whole(s, e)
  /\ \A k \in B \ {e} : Whole(s, k) /\ After(s, k) \in B /\ s[k + 1] \in Channels

(* Packets stay where they are when units are appended. *)
LEMMA Extended ==
  ASSUME NEW s \in Seq(Nat), NEW t \in Seq(Nat), NEW k \in 0 .. Len(s), Whole(s, k)
  PROVE  /\ Whole(s \o t, k) /\ After(s \o t, k) = After(s, k)
         /\ (s \o t)[k + 1] = s[k + 1]
         /\ \A c : DataFor(s \o t, k, c) = DataFor(s, k, c)
<1>1. s \o t \in Seq(Nat) /\ Len(s) \in Nat /\ Shifted(s, s \o t, 0)
  <2>1. /\ s \o t \in Seq(Nat) /\ Len(s \o t) = Len(s) + Len(t)
        /\ \A p \in 1 .. Len(s) : (s \o t)[p] = s[p]
    BY ConcatIs
  <2>2. \A p \in 1 .. Len(s) : 0 + p = p
    OBVIOUS
  <2>3. Len(s) \in Nat /\ Len(t) \in Nat
    OBVIOUS
  <2> QED  BY <2>1, <2>2, <2>3 DEF Shifted
<1>2. k = 0 + k /\ 0 + After(s, k) = After(s, k)
  <2>1. After(s, k) \in k + HdrSize .. Len(s)
    BY PacketAt
  <2> QED  BY <1>1, <2>1 DEF HdrSize
<1>3. /\ Whole(s \o t, k) /\ After(s \o t, k) = 0 + After(s, k)
      /\ (s \o t)[k + 1] = s[k + 1]
      /\ \A c : DataFor(s \o t, k, c) = DataFor(s, k, c)
  <2>1. PICK u, z : u = s \o t /\ z = 0
    OBVIOUS
  <2>2. /\ u \in Seq(Nat) /\ Shifted(s, u, z) /\ z \in Nat
        /\ k = z + k
    BY <1>1, <1>2, <2>1
  <2>3. /\ Whole(u, k) /\ After(u, k) = z + After(s, k) /\ u[k + 1] = s[k + 1]
        /\ \A c : DataFor(u, k, c) = DataFor(s, k, c)
    BY <2>2, SamePacket
  <2> QED  BY <2>1, <2>3
<1> QED  BY <1>2, <1>3

(* What is appended adds what can be taken out from e on, and nothing else. *)
LEMMA Appended ==
  ASSUME NEW s \in Seq(Nat), NEW t \in Seq(Nat), NEW r, r = s \o t, NEW e, NEW B, Chain(s, e, B),
         NEW c, NEW f, IsParse(s, c, f), NEW g, IsParse(r, c, g)
  PROVE  f[0] \in Seq(Nat) /\ g[e] \in Seq(Nat) /\ Joined(f[0], g[e], g[0])
<1>1. Len(s) \in Nat /\ r \in Seq(Nat) /\ Len(s) <= Len(r) /\ Len(r) \in Nat
  BY ConcatIs
<1>2. \A k \in B : k \in 0 .. Len(s) /\ k \in 0 .. Len(r) /\ f[k] \in Seq(Nat) /\ g[k] \in Seq(Nat)
  <2>1. \A k \in B : k \in 0 .. Len(s) /\ k \in 0 .. Len(r)
    BY <1>1 DEF Chain
  <2> QED  BY <1>1, <2>1, ParseType
<1>3. e \in B /\ 0 \in B
  BY DEF Chain
<1> DEFINE S == {k \in B : g[k] # f[k] \o g[e]}
<1>4. CASE S = {}
  BY <1>2, <1>3, <1>4 DEF Joined
<1>5. CASE S # {}
  <2>1. PICK k \in S : \A m \in S : m <= k
    <3>1. S \subseteq 0 .. Len(s)
      BY <1>2
    <3> HIDE DEF S
    <3> QED  BY <1>1, <1>5, <3>1, Largest
  <2>2. k \in B /\ g[k] # f[k] \o g[e]
    OBVIOUS
  <2>3. k # e
    <3>1. f[e] = <<>>
      BY <1>2, <1>3, ParseAt DEF Chain
    <3>2. <<>> \o g[e] = g[e]
      BY <1>2, <1>3
    <3> QED  BY <2>2, <3>1, <3>2
  <2>4. Whole(s, k) /\ After(s, k) \in B
    BY <2>2, <2>3 DEF Chain
  <2>5. /\ Whole(r, k) /\ After(r, k) = After(s, k)
        /\ DataFor(r, k, c) = DataFor(s, k, c) /\ DataFor(s, k, c) \in Seq(Nat)
        /\ ~(After(s, k) <= k)
    <3>1. After(s, k) \in k + HdrSize .. Len(s) /\ DataFor(s, k, c) \in Seq(Nat)
      BY <1>2, <2>2, <2>4, PacketAt
    <3>2. ~(After(s, k) <= k)
      BY <1>1, <1>2, <2>2, <3>1 DEF HdrSize
    <3>3. /\ Whole(s \o t, k) /\ After(s \o t, k) = After(s, k)
          /\ DataFor(s \o t, k, c) = DataFor(s, k, c)
      BY <1>2, <2>2, <2>4, Extended
    <3> QED  BY <3>1, <3>2, <3>3
  <2> DEFINE n == After(s, k)
             d == DataFor(s, k, c)
  <2>6. f[k] = d \o f[n] /\ g[k] = d \o g[n]
    <3>1. f[k] = d \o f[n]
      BY <1>2, <2>2, <2>4, ParseAt
    <3>2. g[k] = DataFor(r, k, c) \o g[After(r, k)]
      BY <1>1, <1>2, <2>2, <2>5, ParseAt
    <3> QED  BY <2>5, <3>1, <3>2
  <2>7. g[n] = f[n] \o g[e]
    BY <2>1, <2>4, <2>5
  <2>8. d \in Seq(Nat) /\ f[n] \in Seq(Nat) /\ g[e] \in Seq(Nat)
    BY <1>2, <1>3, <2>4, <2>5
  <2> HIDE DEF d, n
  <2>9. d \o (f[n] \o g[e]) = (d \o f[n]) \o g[e]
    BY ZenonT(30), <2>8, Associative
  <2> QED  BY <2>2, <2>6, <2>7, <2>9
<1> QED  BY <1>4, <1>5

(* r is what is left of s behind the first m units. *)
Behind(r, s, m) == r \in Seq(Nat) /\ Len(r) = Len(s) - m /\ Shifted(r, s, m)

(* What SubSeq() leaves. *)
LEMMA BehindIs ==
  ASSUME NEW s \in Seq(Nat), NEW m \in 0 .. Len(s)
  PROVE  Behind(SubSeq(s, m + 1, Len(s)), s, m)
<1>1. Len(s) \in Nat /\ m \in Nat /\ m <= Len(s)
  OBVIOUS
<1>2. /\ SubSeq(s, m + 1, Len(s)) \in Seq(Nat) /\ Len(SubSeq(s, m + 1, Len(s))) = Len(s) - m
      /\ \A p \in 1 .. Len(s) - m : SubSeq(s, m + 1, Len(s))[p] = s[m + p]
  BY <1>1, PartIs
<1>3. PICK r : r = SubSeq(s, m + 1, Len(s))
  OBVIOUS
<1>4. r \in Seq(Nat) /\ Len(r) = Len(s) - m /\ \A p \in 1 .. Len(r) : r[p] = s[m + p]
  BY <1>2, <1>3
<1>5. m + Len(r) <= Len(s)
  BY <1>1, <1>4
<1>6. Behind(r, s, m)
  BY <1>4, <1>5 DEF Behind, Shifted
<1> QED  BY <1>3, <1>6

(* A packet behind the first units is one of what they leave. *)
LEMMA WholeBehind ==
  ASSUME NEW s \in Seq(Nat), NEW m \in 0 .. Len(s), NEW r, Behind(r, s, m),
         NEW k \in 0 .. Len(r), NEW x, x = m + k, Whole(s, x)
  PROVE  Whole(r, k)
<1>1. Len(s) \in Nat /\ m \in Nat /\ Len(r) \in Nat /\ k \in Nat /\ x \in Nat
      /\ r \in Seq(Nat) /\ Len(r) = Len(s) - m
  BY DEF Behind
<1>2. x + 2 <= Len(s) /\ x + 2 + s[x + 2] <= Len(s)
  BY DEF Whole, HdrSize, After
<1>3. k + 2 \in 1 .. Len(r) /\ m + (k + 2) = x + 2
  BY <1>1, <1>2
<1>4. PICK n : n = r[k + 2]
  OBVIOUS
<1>5. n \in Nat
  BY SMTT(30), <1>1, <1>3, <1>4
<1>6. s[x + 2] = n
  BY <1>3, <1>4 DEF Behind, Shifted
<1>7. k + 2 <= Len(r) /\ k + 2 + n <= Len(r)
  <2>1. x + 2 + n <= Len(s)
    BY <1>2, <1>6
  <2> QED  BY <1>1, <1>3, <1>5, <2>1
<1> QED  BY <1>4, <1>7 DEF Whole, HdrSize, After

(* Units that follow stay where they are. *)
LEMMA BehindBoth ==
  ASSUME NEW s \in Seq(Nat), NEW m \in 0 .. Len(s), NEW r, Behind(r, s, m),
         NEW t \in Seq(Nat), NEW u, Joined(s, t, u), NEW v, Joined(r, t, v)
  PROVE  u \in Seq(Nat) /\ Len(u) = Len(s) + Len(t) /\ Behind(v, u, m)
<1>1. Len(s) \in Nat /\ Len(t) \in Nat /\ Len(r) \in Nat /\ m \in Nat
      /\ r \in Seq(Nat) /\ Len(r) = Len(s) - m
  BY DEF Behind
<1>2. /\ u \in Seq(Nat) /\ Len(u) = Len(s) + Len(t)
      /\ \A p \in 1 .. Len(s) : u[p] = s[p]
      /\ \A p \in Len(s) + 1 .. Len(s) + Len(t) : u[p] = t[p - Len(s)]
  BY ConcatIs DEF Joined
<1>3. /\ v \in Seq(Nat) /\ Len(v) = Len(r) + Len(t)
      /\ \A p \in 1 .. Len(r) : v[p] = r[p]
      /\ \A p \in Len(r) + 1 .. Len(r) + Len(t) : v[p] = t[p - Len(r)]
  <2>1. r \in Seq(Nat)
    BY <1>1
  <2> QED  BY <2>1, ConcatIs DEF Joined
<1>4. ASSUME NEW p \in 1 .. Len(v), NEW x, x = m + p PROVE u[x] = v[p]
  <2>1. CASE p \in 1 .. Len(r)
    <3>1. x \in 1 .. Len(s)
      BY <1>1, <1>4, <2>1
    <3>2. s[x] = r[p]
      BY <1>4, <2>1 DEF Behind, Shifted
    <3>3. u[x] = s[x] /\ v[p] = r[p]
      BY <1>2, <1>3, <2>1, <3>1
    <3> QED  BY <3>2, <3>3
  <2>2. CASE p \in Len(r) + 1 .. Len(r) + Len(t)
    <3>1. x \in Len(s) + 1 .. Len(s) + Len(t) /\ x - Len(s) = p - Len(r)
      BY <1>1, <1>4, <2>2
    <3>2. u[x] = t[x - Len(s)] /\ v[p] = t[p - Len(r)]
      BY <1>2, <1>3, <2>2, <3>1
    <3> QED  BY <3>1, <3>2
  <2>3. p \in 1 .. Len(r) \/ p \in Len(r) + 1 .. Len(r) + Len(t)
    BY <1>1, <1>3
  <2> QED  BY <2>1, <2>2, <2>3
<1>5. Len(v) = Len(u) - m /\ m + Len(v) <= Len(u)
  BY <1>1, <1>2, <1>3
<1> QED  BY <1>2, <1>3, <1>4, <1>5 DEF Behind, Shifted

(* The packets that are left when the first has gone. *)
LEMMA ChainBehind ==
  ASSUME NEW s \in Seq(Nat), NEW e, NEW B, Chain(s, e, B), Whole(s, 0),
         NEW m, m = After(s, 0), NEW r, Behind(r, s, m)
  PROVE  /\ m \in 0 .. Len(s) /\ s[1] \in Channels /\ e \in m .. Len(s)
         /\ \E D : Chain(r, e - m, D)
<1>1. 0 \in B \ {e} /\ Len(s) \in Nat /\ e \in B
  BY DEF Chain
<1>2. m \in B /\ s[0 + 1] \in Channels
  BY <1>1 DEF Chain
<1>3. m \in 0 .. Len(s) /\ e \in 0 .. Len(s) /\ m <= e
  BY <1>1, <1>2 DEF Chain
<1>4. m \in Nat /\ e \in Nat /\ r \in Seq(Nat) /\ Len(r) = Len(s) - m /\ Shifted(r, s, m) /\ Len(r) \in Nat
  BY <1>3 DEF Behind
<1>5. PICK n : n = e - m
  OBVIOUS
<1> DEFINE D == {k \in 0 .. Len(r) : \E x \in B : x = m + k}
<1>6. \A k \in 0 .. Len(r) : k \in Nat
  BY <1>4
<1>7. 0 \in D /\ n \in D
  <2>1. m = m + 0 /\ 0 \in 0 .. Len(r)
    BY <1>4
  <2>2. e = m + n /\ n \in 0 .. Len(r)
    BY <1>1, <1>3, <1>4, <1>5
  <2> QED  BY <1>1, <1>2, <2>1, <2>2
<1>8. \A k \in D : k <= n
  <2> TAKE k \in D
  <2>1. PICK x \in B : x = m + k
    OBVIOUS
  <2>2. x <= e /\ k \in Nat
    BY <1>6, <2>1 DEF Chain
  <2> QED  BY <1>4, <1>5, <2>1, <2>2
<1>9. ~Whole(r, n)
  <2> SUFFICES ASSUME Whole(r, n) PROVE FALSE
    OBVIOUS
  <2>1. n \in 0 .. Len(r) /\ e = m + n
    BY <1>1, <1>3, <1>4, <1>5
  <2>2. Whole(s, e)
    BY <1>4, <2>1, SamePacket
  <2> QED  BY <2>2 DEF Chain
<1>10. ASSUME NEW k \in D \ {n}
       PROVE  Whole(r, k) /\ After(r, k) \in D /\ r[k + 1] \in Channels
  <2>1. k \in 0 .. Len(r) /\ k # n
    OBVIOUS
  <2>2. PICK x \in B : x = m + k
    BY <1>10
  <2>3. x # e
    BY <1>4, <1>5, <1>6, <2>1, <2>2
  <2>4. Whole(s, x) /\ After(s, x) \in B /\ s[x + 1] \in Channels
    BY <2>2, <2>3 DEF Chain
  <2>5. Whole(r, k)
    BY <1>3, <2>1, <2>2, <2>4, WholeBehind
  <2>6. After(s, x) = m + After(r, k) /\ s[x + 1] = r[k + 1]
    <3> HIDE DEF D
    <3>1. r \in Seq(Nat) /\ m \in Nat /\ Shifted(r, s, m)
      BY <1>4
    <3> QED  BY <2>1, <2>2, <2>5, <3>1, SamePacket
  <2>7. After(r, k) \in 0 .. Len(r)
    <3>1. After(r, k) \in k + HdrSize .. Len(r) /\ k \in Nat
      BY <1>4, <1>6, <2>1, <2>5, PacketAt
    <3>2. \A y \in k + 2 .. Len(r) : y \in 0 .. Len(r)
      BY <1>4, <3>1
    <3> QED  BY <3>1, <3>2 DEF HdrSize
  <2> QED  BY <2>4, <2>5, <2>6, <2>7
<1>11. Chain(r, n, D)
  <2>1. D \subseteq 0 .. Len(r)
    OBVIOUS
  <2> HIDE DEF D
  <2> QED  BY <1>7, <1>8, <1>9, <1>10, <2>1 DEF Chain
<1>12. 0 + 1 = 1
  OBVIOUS
<1> QED  BY <1>1, <1>2, <1>3, <1>4, <1>5, <1>11, <1>12

(* The first packet leaves the stream. *)
LEMMA Dropped ==
  ASSUME NEW s \in Seq(Nat), Whole(s, 0), NEW r, Behind(r, s, After(s, 0)),
         NEW c, NEW f, IsParse(s, c, f), NEW g, IsParse(r, c, g)
  PROVE  f[0] = DataFor(s, 0, c) \o g[0] /\ g[0] \in Seq(Nat)
<1> DEFINE m == After(s, 0)
<1>1. Len(s) \in Nat /\ m \in 2 .. Len(s) /\ m \in Nat
  <2>1. Len(s) \in Nat /\ 0 \in 0 .. Len(s)
    OBVIOUS
  <2>2. m \in 0 + HdrSize .. Len(s)
    BY <2>1, PacketAt
  <2> QED  BY <2>1, <2>2 DEF HdrSize
<1>2. r \in Seq(Nat) /\ Len(r) = Len(s) - m /\ Shifted(r, s, m)
  BY DEF Behind
<1> HIDE DEF m
<1>3. \A k \in 0 .. Len(r) : k \in Nat /\ m + k \in 0 .. Len(s) /\ g[k] \in Seq(Nat) /\ f[m + k] \in Seq(Nat)
  <2>1. \A k \in 0 .. Len(r) : k \in Nat /\ m + k \in 0 .. Len(s)
    BY <1>1, <1>2
  <2> QED  BY <1>2, <2>1, ParseType
<1> DEFINE S == {k \in 0 .. Len(r) : f[m + k] # g[k]}
<1>4. S = {}
  <2> SUFFICES ASSUME S # {} PROVE FALSE
    OBVIOUS
  <2>1. PICK k \in S : \A j \in S : j <= k
    <3>1. S \subseteq 0 .. Len(r) /\ Len(r) \in Nat
      BY <1>2
    <3> HIDE DEF S
    <3> QED  BY <3>1, Largest
  <2>2. k \in 0 .. Len(r) /\ f[m + k] # g[k]
    OBVIOUS
  <2>3. CASE Whole(r, k)
    <3>1. /\ Whole(s, m + k) /\ After(s, m + k) = m + After(r, k)
          /\ DataFor(s, m + k, c) = DataFor(r, k, c)
      <4>2. PICK x : x = m + k
        OBVIOUS
      <4>3. Whole(s, x) /\ After(s, x) = m + After(r, k) /\ DataFor(s, x, c) = DataFor(r, k, c)
        <5>1. m \in Nat /\ r \in Seq(Nat) /\ Shifted(r, s, m)
          BY <1>1, <1>2
        <5> QED  BY <2>2, <2>3, <4>2, <5>1, SamePacket
      <4> QED  BY <4>2, <4>3
    <3>2. After(r, k) \in k + HdrSize .. Len(r)
      BY <1>2, <2>2, <2>3, PacketAt
    <3>3. After(r, k) \in 0 .. Len(r) /\ ~(After(r, k) <= k)
      <4>1. Len(r) \in Nat /\ k \in Nat
        BY <1>2, <1>3, <2>2
      <4>2. \A x \in k + 2 .. Len(r) : x \in 0 .. Len(r) /\ ~(x <= k)
        BY <4>1
      <4> QED  BY <3>2, <4>2 DEF HdrSize
    <3>4. f[m + After(r, k)] = g[After(r, k)]
      BY <2>1, <3>3
    <3>5. g[k] = DataFor(r, k, c) \o g[After(r, k)]
      <4>1. r \in Seq(Nat)
        BY <1>2
      <4> QED  BY <2>2, <2>3, <4>1, ParseAt
    <3>6. PICK x : x = m + k
      OBVIOUS
    <3>7. x \in 0 .. Len(s) /\ Whole(s, x)
      BY <1>3, <2>2, <3>1, <3>6
    <3>8. f[x] = DataFor(s, x, c) \o f[After(s, x)]
      BY <3>7, ParseAt
    <3> QED  BY <2>2, <3>1, <3>4, <3>5, <3>6, <3>8
  <2>4. CASE ~Whole(r, k)
    <3>1. PICK x : x = m + k
      OBVIOUS
    <3>2. k \in Nat /\ x \in 0 .. Len(s) /\ x \in Nat /\ Len(r) \in Nat
      BY <1>2, <1>3, <2>2, <3>1
    <3>3. ~Whole(s, x)
      <4>1. Behind(r, s, m) /\ m \in 0 .. Len(s)
        BY <1>1 DEF m
      <4> QED  BY <2>2, <2>4, <3>1, <4>1, WholeBehind
    <3>4. f[x] = <<>> /\ g[k] = <<>>
      <4>1. r \in Seq(Nat)
        BY <1>2
      <4> QED  BY <2>2, <2>4, <3>2, <3>3, <4>1, ParseAt
    <3> QED  BY <2>2, <3>1, <3>4
  <2> QED  BY <2>3, <2>4
<1>5. f[m + 0] = g[0] /\ g[0] \in Seq(Nat)
  <2>1. 0 \in 0 .. Len(r)
    BY <1>2
  <2> QED  BY <1>3, <1>4, <2>1
<1>6. f[0] = DataFor(s, 0, c) \o f[m]
  <2>1. 0 \in 0 .. Len(s)
    BY <1>1
  <2> QED  BY <2>1, ParseAt DEF m
<1>7. m + 0 = m
  BY <1>1
<1> QED  BY <1>5, <1>6, <1>7

---------------------------------------------------------------------------
(* What writing does to the stream: the packet that is being written continues
   it from e on, and o is what is left of it. *)

(* What data d for channel ch adds to channel c. *)
Share(ch, d, c) == IF ch = c THEN d ELSE <<>>

IsPacket(p, ch, d) == p = <<ch, Len(d)>> \o d
Continues(s, e, o, p) == Shifted(p, s \o o, e) /\ Len(s \o o) = e + Len(p)

(* A packet that is being written continues what is left, too. *)
LEMMA ContinuesBehind ==
  ASSUME NEW s \in Seq(Nat), NEW m \in 0 .. Len(s), NEW r, Behind(r, s, m),
         NEW e \in m .. Len(s), NEW n, n = e - m,
         NEW o \in Seq(Nat), NEW p \in Seq(Nat), Continues(s, e, o, p)
  PROVE  Continues(r, n, o, p)
<1>1. PICK u, v : Joined(s, o, u) /\ Joined(r, o, v)
  BY DEF Joined
<1>2. u \in Seq(Nat) /\ Len(u) = Len(s) + Len(o) /\ Behind(v, u, m)
  BY <1>1, BehindBoth
<1>3. Shifted(p, u, e) /\ Len(u) = e + Len(p)
  BY <1>1 DEF Continues, Joined
<1>4. /\ Len(u) \in Nat /\ Len(p) \in Nat /\ m \in Nat /\ e \in Nat /\ n \in Nat /\ e = m + n
      /\ Len(v) = Len(u) - m
  BY <1>2 DEF Behind
<1>5. Len(v) = n + Len(p)
  BY <1>3, <1>4
<1>6. ASSUME NEW x \in 1 .. Len(p), NEW y, y = n + x PROVE v[y] = p[x]
  <2>1. y \in 1 .. Len(v) /\ m + y = e + x
    BY <1>4, <1>5, <1>6
  <2>2. u[m + y] = v[y]
    BY <1>2, <2>1 DEF Behind, Shifted
  <2>3. u[e + x] = p[x]
    BY <1>3 DEF Shifted
  <2> QED  BY <2>1, <2>2, <2>3
<1>7. Shifted(p, v, n)
  BY SMTT(30), <1>4, <1>5, <1>6 DEF Shifted
<1> QED  BY <1>1, <1>5, <1>7 DEF Continues, Joined

(* The header tells the channel and where the packet ends. *)
LEMMA PacketIs ==
  ASSUME NEW ch \in Nat, NEW d \in Seq(Nat), NEW p, IsPacket(p, ch, d)
  PROVE  /\ p \in Seq(Nat) /\ Len(p) = 2 + Len(d) /\ p[1] = ch /\ p[2] = Len(d)
         /\ Whole(p, 0) /\ After(p, 0) = Len(p)
         /\ \A c : DataFor(p, 0, c) = IF ch = c THEN d ELSE <<>>
<1>1. PICK h : h = <<ch, Len(d)>>
  OBVIOUS
<1>2. h \in Seq(Nat) /\ Len(h) = 2 /\ h[1] = ch /\ h[2] = Len(d) /\ Len(d) \in Nat
  BY <1>1
<1>3. /\ p \in Seq(Nat) /\ Len(p) = 2 + Len(d) /\ p[1] = ch /\ p[2] = Len(d)
      /\ \A x \in 3 .. 2 + Len(d) : p[x] = d[x - 2]
  <2>1. p = h \o d
    BY <1>1 DEF IsPacket
  <2>2. /\ h \o d \in Seq(Nat) /\ Len(h \o d) = Len(h) + Len(d)
        /\ \A x \in 1 .. Len(h) : (h \o d)[x] = h[x]
        /\ \A x \in Len(h) + 1 .. Len(h) + Len(d) : (h \o d)[x] = d[x - Len(h)]
    BY <1>2, ConcatIs
  <2>3. 1 \in 1 .. 2 /\ 2 \in 1 .. 2
    OBVIOUS
  <2> QED  BY <1>2, <2>1, <2>2, <2>3
<1>4. Whole(p, 0) /\ After(p, 0) = Len(p)
  BY <1>2, <1>3 DEF Whole, After, HdrSize
<1>5. SubSeq(p, 3, Len(p)) = d
  <2>1. PICK n : n = Len(p)
    OBVIOUS
  <2>2. n \in Nat /\ 2 <= n /\ n - 2 = Len(d)
    BY <1>2, <1>3, <2>1
  <2>3. /\ SubSeq(p, 2 + 1, n) \in Seq(Nat) /\ Len(SubSeq(p, 2 + 1, n)) = n - 2
        /\ \A x \in 1 .. n - 2 : SubSeq(p, 2 + 1, n)[x] = p[2 + x]
    BY <1>3, <2>1, <2>2, PartIs
  <2>4. \A x \in 1 .. Len(d) : p[2 + x] = d[x]
    <3> TAKE x \in 1 .. Len(d)
    <3>1. 2 + x \in 3 .. 2 + Len(d) /\ (2 + x) - 2 = x
      BY <1>2
    <3> QED  BY <1>3, <3>1
  <2>5. PICK u : u = SubSeq(p, 2 + 1, n)
    OBVIOUS
  <2>6. u \in Seq(Nat) /\ Len(u) = Len(d) /\ \A x \in 1 .. Len(u) : u[x] = d[x]
    BY <2>2, <2>3, <2>4, <2>5
  <2>7. u = d
    BY <2>6, SeqEqual
  <2> QED  BY <2>1, <2>5, <2>7
<1>6. 0 + HdrSize + 1 = 3 /\ 0 + 1 = 1
  BY DEF HdrSize
<1> QED  BY <1>3, <1>4, <1>5, <1>6 DEF DataFor

(* Some units are written, not the last ones. *)
LEMMA PartWritten ==
  ASSUME NEW s \in Seq(Nat), NEW e, NEW B, Chain(s, e, B),
         NEW ch \in Nat, NEW d \in Seq(Nat), NEW p, IsPacket(p, ch, d),
         NEW t \in Seq(Nat), NEW o \in Seq(Nat), o # <<>>,
         NEW x, Joined(t, o, x), Continues(s, e, x, p), NEW r, Joined(s, t, r)
  PROVE  /\ Chain(r, e, B) /\ Continues(r, e, o, p)
         /\ \A c, f, g : IsParse(s, c, f) /\ IsParse(r, c, g) => g[0] = f[0]
<1>1. (s \o t) \o o = s \o (t \o o)
  BY ZenonT(30), Associative
<1>2. Continues(r, e, o, p)
  BY <1>1 DEF Continues, Joined
<1>3. r = s \o t
  BY DEF Joined
<1>4. r \in Seq(Nat) /\ Len(r) = Len(s) + Len(t) /\ Len(s) \in Nat /\ Len(t) \in Nat /\ Len(o) \in Nat \ {0}
  BY <1>3
<1>5. /\ Len(r \o o) = Len(r) + Len(o)
      /\ \A y \in 1 .. Len(r) : (r \o o)[y] = r[y]
  <2>1. r \in Seq(Nat)
    BY <1>4
  <2> QED  BY <2>1, ConcatIs
<1>6. e \in Nat /\ e <= Len(s)
  BY <1>4 DEF Chain
<1>7. ~Whole(r, e)
  <2> SUFFICES ASSUME Whole(r, e) PROVE FALSE
    OBVIOUS
  <2>1. e + 2 <= Len(r) /\ e + 2 + r[e + 2] <= Len(r)
    BY DEF Whole, After, HdrSize
  <2>2. r[e + 2] = p[2]
    <3>1. e + 2 \in 1 .. Len(r)
      BY <1>4, <1>6, <2>1
    <3>2. (r \o o)[e + 2] = p[2]
      <4>1. 2 \in 1 .. Len(p)
        BY PacketIs
      <4> QED  BY <1>2, <1>3, <4>1 DEF Continues, Shifted
    <3> QED  BY <1>5, <3>1, <3>2
  <2>3. Len(p) = 2 + Len(d) /\ p[2] = Len(d) /\ Len(d) \in Nat
    BY PacketIs
  <2>4. Len(r) + Len(o) = e + Len(p)
    BY <1>2, <1>3, <1>5 DEF Continues
  <2> QED  BY <1>4, <1>6, <2>1, <2>2, <2>3, <2>4
<1>8. \A k \in B : k \in 0 .. Len(s) /\ k \in 0 .. Len(r)
  BY <1>4 DEF Chain
<1>9. \A k \in B \ {e} : Whole(r, k) /\ After(r, k) \in B /\ r[k + 1] \in Channels
  BY <1>3, <1>8, Extended DEF Chain
<1>10. ASSUME NEW c, NEW f, NEW g, IsParse(s, c, f), IsParse(r, c, g)
       PROVE  g[0] = f[0]
  <2>1. f[0] \in Seq(Nat) /\ Joined(f[0], g[e], g[0])
    BY <1>3, <1>10, Appended
  <2>2. g[e] = <<>>
    BY <1>4, <1>7, <1>8, <1>10, ParseAt DEF Chain
  <2> QED  BY <2>1, <2>2 DEF Joined
<1> QED  BY <1>2, <1>3, <1>7, <1>8, <1>9, <1>10 DEF Chain

(* The last units are written: the packet is there as a whole. *)
LEMMA WholeWritten ==
  ASSUME NEW s \in Seq(Nat), NEW e, NEW B, Chain(s, e, B),
         NEW ch \in Channels, NEW d \in Seq(Nat), NEW p, IsPacket(p, ch, d),
         NEW o \in Seq(Nat), Continues(s, e, o, p), NEW r, Joined(s, o, r)
  PROVE  /\ Chain(r, Len(r), B \cup {Len(r)})
         /\ \A c, f, g : IsParse(s, c, f) /\ IsParse(r, c, g) =>
              f[0] \in Seq(Nat) /\ Joined(f[0], Share(ch, d, c), g[0])
<1>1. r = s \o o
  BY DEF Joined
<1>2. r \in Seq(Nat) /\ Len(r) = Len(s) + Len(o) /\ Len(s) \in Nat /\ Len(o) \in Nat
  BY <1>1
<1>3. e \in Nat /\ e <= Len(s) /\ e \in B
  BY <1>2 DEF Chain
<1>4. /\ p \in Seq(Nat) /\ Len(p) = 2 + Len(d) /\ p[1] = ch /\ Whole(p, 0) /\ After(p, 0) = Len(p)
      /\ \A c : DataFor(p, 0, c) = IF ch = c THEN d ELSE <<>>
  <2>1. ch \in Nat
    BY ChannelsAssumption DEF Unit
  <2> QED  BY <2>1, PacketIs
<1>5. Shifted(p, r, e) /\ Len(r) = e + Len(p)
  BY <1>1 DEF Continues
<1>6. /\ Whole(r, e) /\ After(r, e) = Len(r) /\ r[e + 1] = ch
      /\ \A c : DataFor(r, e, c) = IF ch = c THEN d ELSE <<>>
  <2>1. PICK z : z = 0
    OBVIOUS
  <2>2. z \in 0 .. Len(p) /\ e = e + z /\ Whole(p, z)
    BY <1>3, <1>4, <2>1
  <2>3. /\ Whole(r, e) /\ After(r, e) = e + After(p, z) /\ r[e + 1] = p[z + 1]
        /\ \A c : DataFor(r, e, c) = DataFor(p, z, c)
    <3>1. p \in Seq(Nat) /\ r \in Seq(Nat) /\ e \in Nat /\ Shifted(p, r, e)
      BY <1>2, <1>3, <1>4, <1>5
    <3> QED  BY <2>2, <3>1, SamePacket
  <2> QED  BY <1>4, <1>5, <2>1, <2>3
<1>7. ~Whole(r, Len(r))
  BY <1>2 DEF Whole, HdrSize
<1>8. \A k \in B : k \in 0 .. Len(s) /\ k \in 0 .. Len(r) /\ k <= e /\ k <= Len(r)
  BY <1>2 DEF Chain
<1>9. Chain(r, Len(r), B \cup {Len(r)})
  <2>1. ASSUME NEW k \in B \ {e}
        PROVE  Whole(r, k) /\ After(r, k) \in B /\ r[k + 1] \in Channels
    BY <1>1, <1>8, <2>1, Extended DEF Chain
  <2>2. Len(r) \in 0 .. Len(r) /\ Len(r) <= Len(r)
    BY <1>2
  <2> QED  BY <1>6, <1>7, <1>8, <2>1, <2>2 DEF Chain
<1>10. ASSUME NEW c, NEW f, NEW g, IsParse(s, c, f), IsParse(r, c, g)
       PROVE  f[0] \in Seq(Nat) /\ Joined(f[0], Share(ch, d, c), g[0])
  <2>1. f[0] \in Seq(Nat) /\ g[e] \in Seq(Nat) /\ g[0] = f[0] \o g[e]
    <3>1. IsParse(s, c, f) /\ IsParse(r, c, g)
      BY <1>10
    <3>2. r = s \o o
      BY <1>1
    <3>3. f[0] \in Seq(Nat)
      BY <3>1, <3>2, Appended
    <3>4. g[e] \in Seq(Nat)
      BY <3>1, <3>2, Appended
    <3>5. Joined(f[0], g[e], g[0])
      BY <3>1, <3>2, Appended
    <3> QED  BY <3>3, <3>4, <3>5 DEF Joined
  <2>2. g[Len(r)] = <<>>
    <3>1. Len(r) \in 0 .. Len(r)
      BY <1>2
    <3> QED  BY <1>2, <1>7, <1>10, <3>1, ParseAt
  <2>3. g[e] = DataFor(r, e, c) \o g[Len(r)]
    BY ZenonT(30), <1>2, <1>3, <1>6, <1>8, <1>10, ParseAt
  <2>4. DataFor(r, e, c) \in Seq(Nat)
    BY <1>2, <1>3, <1>6, <1>8, PacketAt
  <2>5. g[e] = DataFor(r, e, c)
    BY <2>2, <2>3, <2>4
  <2> QED  BY <1>6, <2>1, <2>5 DEF Joined, Share
<1> QED  BY <1>9, <1>10

---------------------------------------------------------------------------
(* The invariant: one writer at a time, and its packet is the only one that is
   not in the stream as a whole, and the last. *)

TypeInv ==
  /\ todo \in [Writers -> Seq(Message)] /\ out \in [Writers -> Seq(Nat)]
  /\ writeLock \in Writers \cup {NoWriter}
  /\ buffer \in Seq(Nat) /\ device \in Seq(Nat) /\ wire \in Seq(Nat)
  /\ data \in [Channels -> Seq(Nat)]

LockInv ==
  \A w \in Writers : /\ out[w] # <<>> <=> writeLock = w
                     /\ out[w] # <<>> => todo[w] # <<>>

SlotInv ==
  /\ rpc \in {"packet", "stuck"} => Len(buffer) >= HdrSize /\ chan = buffer[1]
  /\ rpc \in {"emit", "refill"} => chan \in Channels

Part(w) == SubSeq(Head(todo[w]).data, 1, PacketSize(w))
Packet(w) == <<Head(todo[w]).chan, PacketSize(w)>> \o Part(w)

Written(e) ==
  /\ \A w \in Writers : out[w] # <<>> /\ ~broken => Continues(Stream, e, out[w], Packet(w))
  /\ writeLock = NoWriter /\ ~broken => e = Len(Stream)

StreamInv == \E e, B : Chain(Stream, e, B) /\ Written(e)

MuxInv == TypeInv /\ LockInv /\ SlotInv /\ StreamInv

(* The types of the stream and of what is taken out of it. *)
LEMMA StreamType ==
  ASSUME TypeInv
  PROVE  Stream \in Seq(Nat) /\ Len(Stream) \in Nat
<1>1. buffer \o device \in Seq(Nat)
  BY DEF TypeInv
<1>2. Stream \in Seq(Nat)
  BY <1>1 DEF TypeInv, Stream
<1> QED  BY <1>2

LEMMA TransitType ==
  ASSUME TypeInv, NEW c
  PROVE  InTransit(c) \in Seq(Nat)
<1>1. IsParse(Stream, c, Parse(Stream, c))
  BY StreamType, ParseExists
<1>2. 0 \in 0 .. Len(Stream)
  BY StreamType
<1>3. Parse(Stream, c)[0] \in Seq(Nat)
  BY <1>1, <1>2, StreamType, ParseType
<1> QED  BY <1>3, InTransitIs

LEMMA NextTransitType ==
  ASSUME TypeInv', NEW c
  PROVE  InTransit(c)' \in Seq(Nat)
<1>1. Stream' \in Seq(Nat)
  <2>1. (buffer \o device)' \in Seq(Nat)
    BY DEF TypeInv
  <2> QED  BY <2>1 DEF TypeInv, Stream
<1>2. IsParse(Stream', c, Parse(Stream', c)) /\ 0 \in 0 .. Len(Stream')
  BY <1>1, ParseExists
<1>3. Parse(Stream', c)[0] \in Seq(Nat)
  BY <1>1, <1>2, ParseType
<1> QED  BY <1>3, InTransitIs

(* The next packet of a writer that has still to write. *)
LEMMA NextPacket ==
  ASSUME TypeInv, NEW w \in Writers, todo[w] # <<>>
  PROVE  /\ Head(todo[w]) \in Message /\ Head(todo[w]).chan \in Channels
         /\ Head(todo[w]).data \in Seq(Nat) /\ Len(Head(todo[w]).data) \in Nat
         /\ PacketSize(w) \in 0 .. Len(Head(todo[w]).data)
         /\ Part(w) \in Seq(Nat) /\ Len(Part(w)) = PacketSize(w)
         /\ IsPacket(Packet(w), Head(todo[w]).chan, Part(w))
<1>1. PICK m : m = Head(todo[w])
  OBVIOUS
<1>2. m \in Message
  BY <1>1 DEF TypeInv
<1>3. m.chan \in Channels /\ m.data \in Seq(Nat)
  BY <1>2 DEF Message, Unit
<1>4. PICK d : d = m.data
  OBVIOUS
<1>5. d \in Seq(Nat) /\ Len(d) \in Nat
  BY <1>3, <1>4
<1>6. PICK n : n = PacketSize(w)
  OBVIOUS
<1>7. n = AtMost(MaxLen, Len(d))
  BY <1>1, <1>4, <1>6 DEF PacketSize
<1>8. n \in Nat /\ n <= Len(d)
  BY <1>5, <1>7, MaxLenAssumption DEF AtMost
<1>9. SubSeq(d, 1, n) \in Seq(Nat) /\ Len(SubSeq(d, 1, n)) = n
  <2>1. PICK z : z = 0
    OBVIOUS
  <2>2. SubSeq(d, z + 1, n) \in Seq(Nat) /\ Len(SubSeq(d, z + 1, n)) = n - z
    BY <1>5, <1>8, <2>1, PartIs
  <2>3. z + 1 = 1 /\ n - z = n
    BY <1>8, <2>1
  <2> QED  BY <2>2, <2>3
<1>10. Part(w) = SubSeq(d, 1, n)
  BY <1>1, <1>4, <1>6 DEF Part
<1>11. IsPacket(Packet(w), m.chan, Part(w))
  BY <1>1, <1>6, <1>9, <1>10 DEF IsPacket, Packet
<1> QED  BY <1>1, <1>2, <1>3, <1>4, <1>5, <1>6, <1>8, <1>9, <1>10, <1>11

(* Steps that neither write nor take a packet out. *)
LEMMA Steady ==
  ASSUME MuxInv, Stream' = Stream, UNCHANGED writing
  PROVE  LockInv' /\ StreamInv' /\ \A c : InTransit(c)' = InTransit(c)
<1>1. UNCHANGED <<todo, out, writeLock, broken>>
  BY DEF writing
<1>2. LockInv'
  BY <1>1 DEF MuxInv, LockInv
<1>3. \A c : InTransit(c)' = InTransit(c)
  BY InTransitIs
<1>4. PICK e, B : Chain(Stream, e, B) /\ Written(e)
  BY DEF MuxInv, StreamInv
<1>5. \A w : Packet(w)' = Packet(w)
  BY <1>1 DEF Packet, Part, PacketSize
<1>6. Chain(Stream, e, B)'
  BY <1>4 DEF Chain, Whole, After
<1>7. Written(e)'
  <2>1. ASSUME NEW w \in Writers, out'[w] # <<>>, ~broken'
        PROVE  Continues(Stream', e, out'[w], Packet(w)')
    BY <1>1, <1>4, <1>5, <2>1 DEF Written
  <2>2. writeLock' = NoWriter /\ ~broken' => e = Len(Stream')
    BY <1>1, <1>4 DEF Written
  <2> QED  BY <2>1, <2>2 DEF Written
<1> QED  BY <1>2, <1>3, <1>6, <1>7 DEF StreamInv

---------------------------------------------------------------------------
(* The steps of the writers. *)

(* With _writeLock, the others write nothing. *)
LEMMA OneWriter ==
  ASSUME LockInv, NEW w \in Writers, writeLock \in {w, NoWriter}
  PROVE  \A u \in Writers \ {w} : out[u] = <<>>
BY WritersAssumption DEF LockInv

(* A packet of which nothing has been written continues the stream from its end. *)
LEMMA Beginning ==
  ASSUME NEW s \in Seq(Nat), NEW p \in Seq(Nat)
  PROVE  Continues(s, Len(s), p, p)
<1>1. PICK r, n : r = s \o p /\ n = Len(s)
  OBVIOUS
<1>2. /\ Len(s \o p) = Len(s) + Len(p)
      /\ \A x \in Len(s) + 1 .. Len(s) + Len(p) : (s \o p)[x] = p[x - Len(s)]
  BY ConcatIs
<1>3. n \in Nat /\ Len(p) \in Nat /\ Len(r) = n + Len(p)
  BY <1>1, <1>2
<1>4. ASSUME NEW x \in 1 .. Len(p), NEW y, y = n + x PROVE r[y] = p[x]
  <2>1. y \in n + 1 .. n + Len(p) /\ y - n = x
    BY <1>3, <1>4
  <2> QED  BY <1>1, <1>2, <2>1
<1> QED  BY <1>1, <1>3, <1>4 DEF Continues, Shifted

(* What is written goes to the end of the stream. *)
LEMMA StreamGrows ==
  ASSUME TypeInv, NEW t \in Seq(Nat), wire' = wire \o t, UNCHANGED <<buffer, device>>
  PROVE  Stream' = Stream \o t
<1>1. buffer \o device \in Seq(Nat) /\ wire \in Seq(Nat)
  BY DEF TypeInv
<1>2. PICK b : b = buffer \o device
  OBVIOUS
<1>3. (b \o wire) \o t = b \o (wire \o t)
  BY <1>1, <1>2, Associative
<1> QED  BY <1>2, <1>3 DEF Stream

(* StartPacket: the packet begins where the stream ends, as nobody else writes. *)
LEMMA StartStep ==
  ASSUME MuxInv, NEW w \in Writers, StartPacket(w)
  PROVE  MuxInv' /\ UNCHANGED <<todo, data, got>> /\ \A c : InTransit(c)' = InTransit(c)
<1>1. /\ todo[w] # <<>> /\ writeLock = NoWriter /\ writeLock' = w
      /\ out' = [out EXCEPT ![w] = Packet(w)]
      /\ UNCHANGED <<todo, broken, wire, device, rpc, chan, buffer, data, got>>
  BY DEF StartPacket, receiving, reading, Packet, Part
<1>2. Stream' = Stream
  BY <1>1 DEF Stream
<1>3. IsPacket(Packet(w), Head(todo[w]).chan, Part(w)) /\ Part(w) \in Seq(Nat) /\ Head(todo[w]).chan \in Nat
  BY <1>1, NextPacket, ChannelsAssumption DEF MuxInv, Unit
<1>4. Packet(w) \in Seq(Nat) /\ Packet(w) # <<>>
  <2>1. PICK p : p = Packet(w)
    OBVIOUS
  <2>2. p \in Seq(Nat) /\ Len(p) = 2 + Len(Part(w))
    BY <1>3, <2>1, PacketIs
  <2>3. Len(Part(w)) \in Nat
    BY <1>3
  <2>4. Len(p) # 0
    BY <2>2, <2>3
  <2> QED  BY <2>1, <2>2, <2>4
<1>5. out' \in [Writers -> Seq(Nat)] /\ out'[w] = Packet(w) /\ \A u \in Writers \ {w} : out'[u] = <<>>
  <2>1. \A u \in Writers \ {w} : out[u] = <<>>
    BY <1>1, OneWriter DEF MuxInv
  <2>2. out \in [Writers -> Seq(Nat)]
    BY DEF MuxInv, TypeInv
  <2> QED  BY <1>1, <1>4, <2>1, <2>2
<1>6. TypeInv' /\ LockInv' /\ SlotInv'
  BY <1>1, <1>4, <1>5 DEF MuxInv, TypeInv, LockInv, SlotInv
<1>7. PICK e, B : Chain(Stream, e, B) /\ Written(e)
  BY DEF MuxInv, StreamInv
<1>8. Written(e)'
  <2>1. ASSUME NEW u \in Writers, out'[u] # <<>>, ~broken'
        PROVE  Continues(Stream', e, out'[u], Packet(u)')
    <3>1. u = w /\ ~broken /\ e = Len(Stream)
      BY <1>1, <1>5, <1>7, <2>1 DEF Written
    <3>2. Packet(w)' = Packet(w)
      BY <1>1 DEF Packet, Part, PacketSize
    <3>3. Continues(Stream, Len(Stream), Packet(w), Packet(w))
      BY <1>4, Beginning, StreamType DEF MuxInv
    <3> QED  BY <1>2, <1>5, <3>1, <3>2, <3>3
  <2>2. writeLock' # NoWriter
    BY <1>1, WritersAssumption
  <2> QED  BY <2>1, <2>2 DEF Written
<1>9. StreamInv'
  <2>1. Chain(Stream', e, B)
    BY <1>2, <1>7
  <2> QED  BY <1>8, <2>1 DEF StreamInv
<1>10. \A c : InTransit(c)' = InTransit(c)
  BY <1>2, InTransitIs
<1> QED  BY <1>1, <1>6, <1>9, <1>10 DEF MuxInv

(* WritePart: nothing more can be taken out of the stream. *)
LEMMA PartStep ==
  ASSUME MuxInv, NEW w \in Writers, WritePart(w)
  PROVE  MuxInv' /\ UNCHANGED <<todo, data, got>> /\ \A c : InTransit(c)' = InTransit(c)
<1>1. /\ out[w] # <<>> /\ ~broken
      /\ UNCHANGED <<todo, writeLock, broken, device, rpc, chan, buffer, data, got>>
  BY DEF WritePart, receiving, reading
<1>2. PICK k \in 1 .. Len(out[w]) - 1 :
        /\ wire' = wire \o SubSeq(out[w], 1, k)
        /\ out' = [out EXCEPT ![w] = From(out[w], k)]
  BY DEF WritePart
<1>3. PICK t, o : t = SubSeq(out[w], 1, k) /\ o = From(out[w], k)
  OBVIOUS
<1>4. t \in Seq(Nat) /\ o \in Seq(Nat) /\ o # <<>> /\ t \o o = out[w]
  <2>1. PICK x : x = out[w]
    OBVIOUS
  <2>2. x \in Seq(Nat)
    BY <2>1 DEF MuxInv, TypeInv
  <2>3. k \in 1 .. Len(x) /\ k < Len(x)
    BY <1>2, <2>1, <2>2
  <2>4. Split(x, k, t, o)
    BY <1>3, <2>1 DEF From, Split
  <2>5. t \in Seq(Nat) /\ o \in Seq(Nat) /\ o # <<>> /\ Joined(t, o, x)
    BY <2>2, <2>3, <2>4, Cut
  <2> QED  BY <2>1, <2>5 DEF Joined
<1>5. writeLock = w /\ todo[w] # <<>>
  BY <1>1 DEF MuxInv, LockInv
<1>6. out' \in [Writers -> Seq(Nat)] /\ out'[w] = o /\ \A u \in Writers \ {w} : out'[u] = out[u]
  <2>1. out \in [Writers -> Seq(Nat)]
    BY DEF MuxInv, TypeInv
  <2> QED  BY <1>2, <1>3, <1>4, <2>1
<1>7. \A u \in Writers \ {w} : out[u] = <<>>
  BY <1>5, OneWriter DEF MuxInv
<1>8. TypeInv' /\ LockInv' /\ SlotInv'
  <2>1. wire' \in Seq(Nat)
    <3>1. wire \in Seq(Nat) /\ t \in Seq(Nat) /\ wire' = wire \o t
      BY <1>2, <1>3, <1>4 DEF MuxInv, TypeInv
    <3> QED  BY <3>1
  <2> QED  BY <1>1, <1>4, <1>5, <1>6, <2>1 DEF MuxInv, TypeInv, LockInv, SlotInv
<1>9. PICK e, B : Chain(Stream, e, B) /\ Written(e)
  BY DEF MuxInv, StreamInv
<1>10. Stream' = Stream \o t
  BY <1>1, <1>2, <1>3, <1>4, StreamGrows DEF MuxInv
<1>11. /\ Chain(Stream', e, B) /\ Continues(Stream', e, o, Packet(w))
       /\ \A c : InTransit(c)' = InTransit(c)
  <2>1. PICK s, p, ch, d : s = Stream /\ p = Packet(w) /\ ch = Head(todo[w]).chan /\ d = Part(w)
    OBVIOUS
  <2>2. s \in Seq(Nat) /\ Chain(s, e, B) /\ ch \in Nat /\ d \in Seq(Nat) /\ IsPacket(p, ch, d)
    BY <1>5, <1>9, <2>1, StreamType, NextPacket, ChannelsAssumption DEF MuxInv, Unit
  <2>3. PICK x, r : Joined(t, o, x) /\ Joined(s, t, r)
    BY DEF Joined
  <2>4. Continues(s, e, x, p)
    BY <1>1, <1>4, <1>9, <2>1, <2>3 DEF Written, Joined
  <2>5. /\ Chain(r, e, B) /\ Continues(r, e, o, p)
        /\ \A c, f, g : IsParse(s, c, f) /\ IsParse(r, c, g) => g[0] = f[0]
    BY <1>4, <2>2, <2>3, <2>4, PartWritten
  <2>6. r \in Seq(Nat) /\ Stream' = r
    BY <1>4, <1>10, <2>1, <2>2, <2>3 DEF Joined
  <2>7. ASSUME NEW c PROVE InTransit(c)' = InTransit(c)
    <3>1. IsParse(s, c, Parse(s, c)) /\ IsParse(r, c, Parse(r, c))
      BY <2>2, <2>6, ParseExists
    <3>2. Parse(r, c)[0] = Parse(s, c)[0]
      BY <2>5, <3>1
    <3> QED  BY <2>1, <2>6, <3>2, InTransitIs
  <2> QED  BY <2>1, <2>5, <2>6, <2>7
<1>12. Written(e)'
  <2>1. ASSUME NEW u \in Writers, out'[u] # <<>> PROVE Continues(Stream', e, out'[u], Packet(u)')
    <3>1. u = w
      BY <1>6, <1>7, <2>1
    <3>2. Packet(w)' = Packet(w)
      BY <1>1 DEF Packet, Part, PacketSize
    <3> QED  BY <1>6, <1>11, <3>1, <3>2
  <2>2. writeLock' # NoWriter
    BY <1>1, <1>5, WritersAssumption
  <2> QED  BY <2>1, <2>2 DEF Written
<1> QED  BY <1>1, <1>8, <1>11, <1>12 DEF MuxInv, StreamInv

(* What is left of a writer's calls behind a packet. *)
LEMMA TodoLeft ==
  ASSUME TypeInv, NEW w \in Writers, todo[w] # <<>>,
         todo' = [todo EXCEPT ![w] =
           IF Len(Head(todo[w]).data) = PacketSize(w) THEN Tail(@)
           ELSE [@ EXCEPT ![1].data = From(Head(todo[w]).data, PacketSize(w))]]
  PROVE  todo' \in [Writers -> Seq(Message)]
<1>1. todo \in [Writers -> Seq(Message)]
  BY DEF TypeInv
<1>2. PICK q : q = todo[w]
  OBVIOUS
<1>3. q \in Seq(Message) /\ q # <<>>
  BY <1>1, <1>2
<1>4. PICK d, n, x : d = Head(q).data /\ n = PacketSize(w) /\ x = From(d, n)
  OBVIOUS
<1>5. d \in Seq(Nat) /\ n \in 0 .. Len(d) /\ Len(d) \in Nat
  <2>1. /\ Head(q).data \in Seq(Nat) /\ Len(Head(q).data) \in Nat
        /\ n \in 0 .. Len(Head(q).data)
    BY <1>2, <1>4, NextPacket
  <2> QED  BY <1>4, <2>1
<1>6. x \in Seq(Nat)
  <2>1. Behind(SubSeq(d, n + 1, Len(d)), d, n)
    BY <1>5, BehindIs
  <2> QED  BY <1>4, <2>1 DEF Behind, From
<1>7. Tail(q) \in Seq(Message) /\ [q EXCEPT ![1].data = x] \in Seq(Message)
  <2>1. Tail(q) \in Seq(Message)
    BY <1>3
  <2>2. PICK m : m = [q[1] EXCEPT !.data = x]
    OBVIOUS
  <2>3. m \in Message
    <3>1. q[1] \in Message
      BY <1>3
    <3> QED  BY <1>6, <2>2, <3>1 DEF Message, Unit
  <2>4. [q EXCEPT ![1] = m] \in Seq(Message)
    BY <1>3, <2>3
  <2> QED  BY <2>1, <2>2, <2>4
<1>8. todo' = [todo EXCEPT ![w] = IF Len(Head(q).data) = n THEN Tail(q) ELSE [q EXCEPT ![1].data = x]]
  BY <1>2, <1>3, <1>4
<1> QED  BY <1>1, <1>7, <1>8

(* WriteLast: the data of the packet can be taken out, behind all the rest. *)
LEMMA LastStep ==
  ASSUME MuxInv, NEW w \in Writers, WriteLast(w)
  PROVE  /\ MuxInv' /\ UNCHANGED <<data, got>> /\ todo[w] # <<>>
         /\ \A c : Joined(InTransit(c), Share(Head(todo[w]).chan, Part(w), c), InTransit(c)')
<1>1. /\ out[w] # <<>> /\ ~broken /\ writeLock' = NoWriter
      /\ wire' = wire \o out[w] /\ out' = [out EXCEPT ![w] = <<>>]
      /\ UNCHANGED <<broken, device, rpc, chan, buffer, data, got>>
  BY DEF WriteLast, receiving, reading
<1>2. writeLock = w /\ todo[w] # <<>>
  BY <1>1 DEF MuxInv, LockInv
<1>3. todo' \in [Writers -> Seq(Message)]
  BY <1>2, TodoLeft DEF WriteLast, MuxInv
<1>4. out \in [Writers -> Seq(Nat)] /\ out[w] \in Seq(Nat) /\ out' \in [Writers -> Seq(Nat)]
  <2>1. out \in [Writers -> Seq(Nat)] /\ <<>> \in Seq(Nat)
    BY DEF MuxInv, TypeInv
  <2> QED  BY <1>1, <2>1
<1>5. \A u \in Writers : out'[u] = <<>>
  <2>1. \A u \in Writers \ {w} : out[u] = <<>>
    BY <1>2, OneWriter DEF MuxInv
  <2> QED  BY <1>1, <1>4, <2>1
<1>6. PICK o : o = out[w]
  OBVIOUS
<1>7. wire' = wire \o o /\ o \in Seq(Nat)
  BY <1>1, <1>4, <1>6
<1>8. wire' \in Seq(Nat)
  <2>1. wire \in Seq(Nat)
    BY DEF MuxInv, TypeInv
  <2> QED  BY <1>7, <2>1
<1>9. LockInv'
  BY <1>1, <1>5, WritersAssumption DEF LockInv
<1>10. TypeInv' /\ SlotInv'
  BY <1>1, <1>3, <1>4, <1>8 DEF MuxInv, TypeInv, SlotInv
<1>11. PICK e, B : Chain(Stream, e, B) /\ Written(e)
  BY DEF MuxInv, StreamInv
<1>12. Stream' = Stream \o o
  BY <1>1, <1>7, StreamGrows DEF MuxInv
<1>13. /\ \E D : Chain(Stream', Len(Stream'), D)
       /\ \A c : Joined(InTransit(c), Share(Head(todo[w]).chan, Part(w), c), InTransit(c)')
  <2>1. PICK s, p, ch, d : s = Stream /\ p = Packet(w) /\ ch = Head(todo[w]).chan /\ d = Part(w)
    OBVIOUS
  <2>2. s \in Seq(Nat) /\ Chain(s, e, B) /\ ch \in Channels /\ d \in Seq(Nat) /\ IsPacket(p, ch, d)
    BY <1>2, <1>11, <2>1, StreamType, NextPacket DEF MuxInv
  <2>3. PICK r : Joined(s, o, r)
    BY DEF Joined
  <2>4. Continues(s, e, o, p)
    BY <1>1, <1>6, <1>11, <2>1 DEF Written
  <2>5. /\ Chain(r, Len(r), B \cup {Len(r)})
        /\ \A c, f, g : IsParse(s, c, f) /\ IsParse(r, c, g) =>
             f[0] \in Seq(Nat) /\ Joined(f[0], Share(ch, d, c), g[0])
    BY <1>7, <2>2, <2>3, <2>4, WholeWritten
  <2>6. r \in Seq(Nat) /\ Stream' = r
    BY <1>7, <1>12, <2>1, <2>2, <2>3 DEF Joined
  <2>7. ASSUME NEW c
        PROVE  Joined(InTransit(c), Share(ch, d, c), InTransit(c)')
    <3>1. IsParse(s, c, Parse(s, c)) /\ IsParse(r, c, Parse(r, c))
      BY <2>2, <2>6, ParseExists
    <3>2. Joined(Parse(s, c)[0], Share(ch, d, c), Parse(r, c)[0])
      BY <2>5, <3>1
    <3>3. InTransit(c) = Parse(s, c)[0] /\ InTransit(c)' = Parse(r, c)[0]
      BY <2>1, <2>6, InTransitIs
    <3> QED  BY <3>2, <3>3
  <2> QED  BY <2>1, <2>5, <2>6, <2>7
<1>14. Written(Len(Stream))'
  BY <1>5 DEF Written
<1> QED  BY <1>1, <1>2, <1>9, <1>10, <1>13, <1>14 DEF MuxInv, StreamInv

(* A connection that broke leaves the stream as it is, for good. *)
LEMMA BrokenOff ==
  ASSUME StreamInv, Stream' = Stream, broken'
  PROVE  StreamInv' /\ \A c : InTransit(c)' = InTransit(c)
<1>1. PICK e, B : Chain(Stream, e, B)
  BY DEF StreamInv
<1>2. Chain(Stream', e, B) /\ Written(e)'
  BY <1>1 DEF Written
<1> QED  BY <1>2, InTransitIs DEF StreamInv

(* WriteError and Break. *)
LEMMA ErrorStep ==
  ASSUME MuxInv, NEW w \in Writers, WriteError(w)
  PROVE  /\ MuxInv' /\ UNCHANGED <<data, got>> /\ todo[w] # <<>>
         /\ \A c : InTransit(c)' = InTransit(c)
<1>1. /\ out[w] # <<>> /\ broken /\ writeLock' = NoWriter
      /\ out' = [out EXCEPT ![w] = <<>>] /\ todo' = [todo EXCEPT ![w] = Tail(todo[w])]
      /\ UNCHANGED <<broken, wire, device, rpc, chan, buffer, data, got>>
  BY DEF WriteError, receiving, reading
<1>2. writeLock = w /\ todo[w] # <<>>
  BY <1>1 DEF MuxInv, LockInv
<1>3. todo' \in [Writers -> Seq(Message)]
  <2>1. todo \in [Writers -> Seq(Message)]
    BY DEF MuxInv, TypeInv
  <2>2. Tail(todo[w]) \in Seq(Message)
    BY <1>2, <2>1
  <2> QED  BY <1>1, <2>1, <2>2
<1>4. out' \in [Writers -> Seq(Nat)] /\ \A u \in Writers : out'[u] = <<>>
  <2>1. \A u \in Writers \ {w} : out[u] = <<>>
    BY <1>2, OneWriter DEF MuxInv
  <2>2. out \in [Writers -> Seq(Nat)] /\ <<>> \in Seq(Nat)
    BY DEF MuxInv, TypeInv
  <2> QED  BY <1>1, <2>1, <2>2
<1>5. LockInv'
  BY <1>1, <1>4, WritersAssumption DEF LockInv
<1>6. TypeInv' /\ SlotInv'
  BY <1>1, <1>3, <1>4 DEF MuxInv, TypeInv, SlotInv
<1>7. StreamInv' /\ \A c : InTransit(c)' = InTransit(c)
  BY <1>1, BrokenOff DEF MuxInv, Stream
<1> QED  BY <1>1, <1>2, <1>5, <1>6, <1>7 DEF MuxInv

LEMMA BreakStep ==
  ASSUME MuxInv, Break
  PROVE  MuxInv' /\ UNCHANGED <<todo, data, got>> /\ \A c : InTransit(c)' = InTransit(c)
<1>1. broken' /\ UNCHANGED <<todo, out, writeLock, wire, device, rpc, chan, buffer, data, got>>
  BY DEF Break, receiving, reading
<1>2. TypeInv' /\ LockInv' /\ SlotInv'
  BY <1>1 DEF MuxInv, TypeInv, LockInv, SlotInv
<1>3. StreamInv' /\ \A c : InTransit(c)' = InTransit(c)
  BY <1>1, BrokenOff DEF MuxInv, Stream
<1> QED  BY <1>1, <1>2, <1>3 DEF MuxInv

---------------------------------------------------------------------------
(* The steps of the socket's owner. *)

(* The packet at the beginning of _buffer is the first of the stream. *)
LEMMA FirstPacket ==
  ASSUME TypeInv, Len(buffer) >= HdrSize, ~Incomplete,
         NEW m, m = HdrSize + buffer[2], NEW x, x = SubSeq(buffer, HdrSize + 1, m)
  PROVE  /\ m \in 0 .. Len(buffer) /\ x \in Seq(Nat)
         /\ Whole(Stream, 0) /\ m = After(Stream, 0) /\ Stream[1] = buffer[1]
         /\ \A c : DataFor(Stream, 0, c) = Share(buffer[1], x, c)
<1>1. PICK b, t, z : b = buffer /\ t = device \o wire /\ z = 0
  OBVIOUS
<1>2. b \in Seq(Nat) /\ t \in Seq(Nat) /\ Len(b) \in Nat /\ Stream = b \o t
  <2>1. buffer \in Seq(Nat) /\ device \in Seq(Nat) /\ wire \in Seq(Nat)
    BY DEF TypeInv
  <2>2. (buffer \o device) \o wire = buffer \o (device \o wire)
    BY <2>1, Associative
  <2> QED  BY <1>1, <2>1, <2>2 DEF Stream
<1>3. Len(b) >= 2 /\ Len(b) >= 2 + b[2] /\ b[2] \in Nat /\ m = 2 + b[2]
  <2>1. Len(b) >= 2 /\ 2 \in 1 .. Len(b) /\ m = 2 + b[2] /\ ~(Len(b) < 2 + b[2])
    BY <1>1, <1>2 DEF Incomplete, HdrSize
  <2>2. b[2] \in Nat
    BY <1>2, <2>1
  <2> QED  BY SMTT(30), <1>2, <2>1, <2>2
<1>4. z \in 0 .. Len(b) /\ Whole(b, z) /\ After(b, z) = m /\ z + 1 = 1 /\ z + HdrSize + 1 = HdrSize + 1
  BY <1>1, <1>2, <1>3 DEF Whole, After, HdrSize
<1>5. /\ Whole(b \o t, z) /\ After(b \o t, z) = After(b, z)
      /\ (b \o t)[z + 1] = b[z + 1]
      /\ \A c : DataFor(b \o t, z, c) = DataFor(b, z, c)
  BY <1>2, <1>4, Extended
<1>6. \A c : DataFor(b, z, c) = Share(b[1], x, c)
  BY <1>1, <1>4 DEF DataFor, Share
<1>7. m \in 0 .. Len(b)
  BY SMTT(30), <1>2, <1>3
<1>8. x \in Seq(Nat)
  <2>1. HdrSize \in Nat /\ m \in Nat /\ HdrSize <= m /\ m <= Len(b)
    BY SMTT(30), <1>2, <1>3 DEF HdrSize
  <2>2. SubSeq(b, HdrSize + 1, m) \in Seq(Nat)
    BY <1>2, <2>1, PartIs
  <2> QED  BY <1>1, <2>2
<1> QED  BY <1>1, <1>2, <1>4, <1>5, <1>6, <1>7, <1>8

(* Extract: what goes to the channel is what the stream has less. *)
LEMMA ExtractStep ==
  ASSUME MuxInv, Extract
  PROVE  /\ MuxInv' /\ UNCHANGED <<todo, got>> /\ chan \in Channels
         /\ \E x \in Seq(Nat) :
              /\ data' = [data EXCEPT ![chan] = @ \o x]
              /\ \A c : Joined(Share(chan, x, c), InTransit(c)', InTransit(c))
<1>1. PICK m, x : m = HdrSize + buffer[2] /\ x = SubSeq(buffer, HdrSize + 1, m)
  OBVIOUS
<1>2. /\ rpc = "packet" /\ ~Incomplete /\ data' = [data EXCEPT ![chan] = @ \o x]
      /\ buffer' = From(buffer, m) /\ rpc' = "emit"
      /\ UNCHANGED <<todo, out, writeLock, broken, wire, device, chan, got>>
  BY <1>1 DEF Extract, Rest, writing
<1>3. Len(buffer) >= HdrSize /\ chan = buffer[1]
  BY <1>2 DEF MuxInv, SlotInv
<1>4. /\ m \in 0 .. Len(buffer) /\ x \in Seq(Nat)
      /\ Whole(Stream, 0) /\ m = After(Stream, 0) /\ Stream[1] = chan
      /\ \A c : DataFor(Stream, 0, c) = Share(chan, x, c)
  BY <1>1, <1>2, <1>3, FirstPacket DEF MuxInv
<1>5. PICK s, r : s = Stream /\ r = Stream'
  OBVIOUS
<1>6. s \in Seq(Nat)
  BY <1>5, StreamType DEF MuxInv
<1>7. Behind(r, s, m) /\ buffer' \in Seq(Nat)
  <2>1. buffer \in Seq(Nat) /\ device \in Seq(Nat) /\ wire \in Seq(Nat)
    BY DEF MuxInv, TypeInv
  <2>2. PICK t, b : t = device \o wire /\ b = buffer'
    OBVIOUS
  <2>3. t \in Seq(Nat)
    BY <2>1, <2>2
  <2>4. Behind(b, buffer, m)
    BY <1>2, <1>4, <2>1, <2>2, BehindIs DEF From
  <2>5. b \in Seq(Nat)
    BY <2>4 DEF Behind
  <2>6. s = buffer \o t
    BY <1>5, <2>1, <2>2, Associative DEF Stream
  <2>7. r = b \o t
    <3>1. (b \o device) \o wire = b \o (device \o wire)
      BY <2>1, <2>5, Associative
    <3> QED  BY <1>2, <1>5, <2>2, <3>1 DEF Stream
  <2>8. Joined(buffer, t, s) /\ Joined(b, t, r)
    BY <2>6, <2>7 DEF Joined
  <2>9. Behind(r, s, m)
    BY <1>4, <2>1, <2>3, <2>4, <2>8, BehindBoth
  <2> QED  BY <2>2, <2>5, <2>9
<1>8. PICK e, B : Chain(s, e, B) /\ Written(e)
  BY <1>5 DEF MuxInv, StreamInv
<1>9. PICK n : n = e - m
  OBVIOUS
<1>10. /\ m \in 0 .. Len(s) /\ chan \in Channels /\ e \in m .. Len(s)
       /\ \E D : Chain(r, n, D)
  <2>1. Whole(s, 0) /\ m = After(s, 0) /\ s[1] = chan
    BY <1>4, <1>5
  <2>2. /\ m \in 0 .. Len(s) /\ s[1] \in Channels /\ e \in m .. Len(s)
        /\ \E D : Chain(r, e - m, D)
    BY <1>6, <1>7, <1>8, <2>1, ChainBehind
  <2> QED  BY <1>9, <2>1, <2>2
<1>11. Written(n)'
  <2>1. ASSUME NEW u \in Writers, out'[u] # <<>>, ~broken'
        PROVE  Continues(Stream', n, out'[u], Packet(u)')
    <3>1. PICK o, p : o = out[u] /\ p = Packet(u)
      OBVIOUS
    <3>2. o # <<>> /\ Continues(s, e, o, p)
      BY <1>2, <1>5, <1>8, <2>1, <3>1 DEF Written
    <3>3. o \in Seq(Nat)
      BY <3>1 DEF MuxInv, TypeInv
    <3>4. p \in Seq(Nat)
      <4>1. todo[u] # <<>>
        BY <3>1, <3>2 DEF MuxInv, LockInv
      <4>2. PICK ch, d : ch = Head(todo[u]).chan /\ d = Part(u)
        OBVIOUS
      <4>3. ch \in Nat /\ d \in Seq(Nat) /\ IsPacket(p, ch, d)
        BY <3>1, <4>1, <4>2, NextPacket, ChannelsAssumption DEF MuxInv, Unit
      <4> QED  BY <4>3, PacketIs
    <3>5. Continues(r, n, o, p)
      BY <1>6, <1>7, <1>9, <1>10, <3>2, <3>3, <3>4, ContinuesBehind
    <3>6. Packet(u)' = Packet(u)
      BY <1>2 DEF Packet, Part, PacketSize
    <3> QED  BY <1>2, <1>5, <3>1, <3>5, <3>6
  <2>2. ASSUME writeLock' = NoWriter, ~broken' PROVE n = Len(Stream')
    <3>1. e = Len(s)
      BY <1>2, <1>5, <1>8, <2>2 DEF Written
    <3> QED  BY <1>5, <1>7, <1>9, <3>1 DEF Behind
  <2> QED  BY <2>1, <2>2 DEF Written
<1>12. TypeInv' /\ LockInv' /\ SlotInv'
  <2>1. data' \in [Channels -> Seq(Nat)]
    <3>1. data \in [Channels -> Seq(Nat)]
      BY DEF MuxInv, TypeInv
    <3>2. data[chan] \in Seq(Nat)
      BY <1>10, <3>1
    <3>3. data[chan] \o x \in Seq(Nat)
      BY <1>4, <3>2
    <3> QED  BY <1>2, <3>1, <3>3
  <2> QED  BY <1>2, <1>7, <1>10, <2>1 DEF MuxInv, TypeInv, LockInv, SlotInv
<1>13. StreamInv'
  BY <1>5, <1>10, <1>11 DEF StreamInv
<1>14. \A c : Joined(Share(chan, x, c), InTransit(c)', InTransit(c))
  <2> TAKE c
  <2>1. IsParse(s, c, Parse(s, c)) /\ IsParse(r, c, Parse(r, c))
    <3>1. r \in Seq(Nat)
      BY <1>7 DEF Behind
    <3> QED  BY <1>6, <3>1, ParseExists
  <2>2. Whole(s, 0) /\ Behind(r, s, After(s, 0))
    BY <1>4, <1>5, <1>7
  <2>3. Parse(s, c)[0] = DataFor(s, 0, c) \o Parse(r, c)[0]
    BY <1>6, <2>1, <2>2, Dropped
  <2>4. DataFor(s, 0, c) = Share(chan, x, c)
    BY <1>4, <1>5
  <2>5. InTransit(c) = Parse(s, c)[0] /\ InTransit(c)' = Parse(r, c)[0]
    BY <1>5, InTransitIs
  <2> QED  BY <2>3, <2>4, <2>5 DEF Joined
<1> QED  BY <1>2, <1>4, <1>10, <1>12, <1>13, <1>14 DEF MuxInv

(* Nothing that a reader or a writer of a channel could tell. *)
Quiet == UNCHANGED <<todo, data, got>> /\ \A c : InTransit(c)' = InTransit(c)

(* Units that only move from one place of the stream to the next. *)
LEMMA Moved ==
  ASSUME MuxInv, Stream' = Stream, UNCHANGED <<writing, reading>>,
         buffer' \in Seq(Nat), device' \in Seq(Nat), wire' \in Seq(Nat), SlotInv'
  PROVE  MuxInv' /\ Quiet
<1>1. UNCHANGED <<todo, out, writeLock, broken, data, got>>
  BY DEF writing, reading
<1>2. TypeInv'
  BY <1>1 DEF MuxInv, TypeInv
<1>3. LockInv' /\ StreamInv' /\ \A c : InTransit(c)' = InTransit(c)
  BY Steady
<1> QED  BY <1>1, <1>2, <1>3 DEF MuxInv, Quiet

(* Arrive and Pump: the socket takes in a part of the wire. *)
LEMMA ArriveStep ==
  ASSUME MuxInv, Arrive
  PROVE  MuxInv' /\ Quiet
<1>1. rpc = "idle" /\ wire # <<>> /\ UNCHANGED <<writing, rpc, chan, buffer, reading>>
  BY DEF Arrive
<1>2. PICK k \in 1 .. Len(wire) :
        device' = device \o SubSeq(wire, 1, k) /\ wire' = From(wire, k)
  BY DEF Arrive
<1>3. PICK b, d, x, t, o : /\ b = buffer /\ d = device /\ x = wire
                           /\ t = SubSeq(x, 1, k) /\ o = SubSeq(x, k + 1, Len(x))
  OBVIOUS
<1>4. b \in Seq(Nat) /\ d \in Seq(Nat) /\ x \in Seq(Nat)
  BY <1>3 DEF MuxInv, TypeInv
<1>5. t \in Seq(Nat) /\ o \in Seq(Nat) /\ Joined(t, o, x)
  BY <1>2, <1>3, <1>4, Cut DEF Split
<1>6. device' = d \o t /\ wire' = o
  BY <1>2, <1>3 DEF From
<1>7. Stream' = Stream
  <2>1. Stream' = (b \o (d \o t)) \o o /\ Stream = (b \o d) \o (t \o o)
    BY <1>1, <1>3, <1>5, <1>6 DEF Stream, Joined
  <2>2. b \o (d \o t) = (b \o d) \o t
    BY ZenonT(30), <1>4, <1>5, Associative
  <2>3. b \o d \in Seq(Nat)
    BY <1>4
  <2>4. ((b \o d) \o t) \o o = (b \o d) \o (t \o o)
    BY <1>5, <2>3, Associative
  <2> QED  BY <2>1, <2>2, <2>4
<1>8. buffer' \in Seq(Nat) /\ device' \in Seq(Nat) /\ wire' \in Seq(Nat)
  <2>1. d \o t \in Seq(Nat)
    BY <1>4, <1>5
  <2> QED  BY <1>1, <1>3, <1>4, <1>5, <1>6, <2>1
<1>9. SlotInv'
  BY <1>1 DEF MuxInv, SlotInv
<1> QED  BY <1>1, <1>7, <1>8, <1>9, Moved

LEMMA PumpStep ==
  ASSUME MuxInv, Pump
  PROVE  MuxInv' /\ Quiet
<1>1. rpc = "packet" /\ device' = <<>> /\ UNCHANGED <<writing, rpc, chan, reading>>
  BY DEF Pump
<1>2. PICK k \in 1 .. Len(wire) :
        buffer' = buffer \o device \o SubSeq(wire, 1, k) /\ wire' = From(wire, k)
  BY DEF Pump
<1>3. PICK b, d, x, t, o : /\ b = buffer /\ d = device /\ x = wire
                           /\ t = SubSeq(x, 1, k) /\ o = SubSeq(x, k + 1, Len(x))
  OBVIOUS
<1>4. b \in Seq(Nat) /\ d \in Seq(Nat) /\ x \in Seq(Nat)
  BY <1>3 DEF MuxInv, TypeInv
<1>5. t \in Seq(Nat) /\ o \in Seq(Nat) /\ Joined(t, o, x)
  BY <1>2, <1>3, <1>4, Cut DEF Split
<1>6. PICK y, z : y = b \o d /\ z = y \o t
  OBVIOUS
<1>7. y \in Seq(Nat) /\ z \in Seq(Nat)
  <2>1. y \in Seq(Nat)
    BY <1>4, <1>6
  <2> QED  BY <1>5, <1>6, <2>1
<1>8. buffer' = z /\ wire' = o
  BY <1>2, <1>3, <1>6 DEF From
<1>9. Stream' = Stream
  <2>1. Stream' = (z \o <<>>) \o o /\ Stream = y \o (t \o o)
    BY <1>1, <1>3, <1>5, <1>6, <1>8 DEF Stream, Joined
  <2>2. z \o <<>> = z
    BY <1>7
  <2>3. (y \o t) \o o = y \o (t \o o)
    BY ZenonT(30), <1>5, <1>7, Associative
  <2> QED  BY <1>6, <2>1, <2>2, <2>3
<1>10. SlotInv'
  <2>1. Len(buffer) >= HdrSize /\ chan = buffer[1]
    BY <1>1 DEF MuxInv, SlotInv
  <2>2. Len(z) >= HdrSize /\ z[1] = b[1]
    <3>1. Len(b) >= 2 /\ Len(b) \in Nat /\ Len(d) \in Nat /\ Len(t) \in Nat
      BY <1>3, <1>4, <1>5, <2>1 DEF HdrSize
    <3>2. Len(y) = Len(b) + Len(d) /\ \A p \in 1 .. Len(b) : y[p] = b[p]
      BY <1>4, <1>6, ConcatIs
    <3>3. Len(z) = Len(y) + Len(t) /\ \A p \in 1 .. Len(y) : z[p] = y[p]
      BY <1>5, <1>6, <1>7, ConcatIs
    <3>4. 1 \in 1 .. Len(b) /\ 1 \in 1 .. Len(y)
      BY <3>1, <3>2
    <3> QED  BY <3>1, <3>2, <3>3, <3>4 DEF HdrSize
  <2> QED  BY <1>1, <1>3, <1>8, <2>1, <2>2 DEF SlotInv
<1>11. buffer' \in Seq(Nat) /\ device' \in Seq(Nat) /\ wire' \in Seq(Nat)
  BY <1>1, <1>5, <1>7, <1>8
<1> QED  BY <1>1, <1>9, <1>10, <1>11, Moved

(* The slot takes over what the socket has taken in, at its beginning and
   between the packets. *)
LEMMA ReadAllStep ==
  ASSUME MuxInv, HandleReadyRead \/ Refill
  PROVE  MuxInv' /\ Quiet
<1>1. /\ buffer' = buffer \o device /\ device' = <<>> /\ rpc' = "loop"
      /\ UNCHANGED <<writing, wire, reading>>
  BY DEF HandleReadyRead, Refill
<1>2. buffer \in Seq(Nat) /\ device \in Seq(Nat) /\ wire \in Seq(Nat)
  BY DEF MuxInv, TypeInv
<1>3. buffer' \in Seq(Nat)
  BY <1>1, <1>2
<1>4. Stream' = Stream
  <2>1. buffer' \o <<>> = buffer'
    BY <1>3
  <2> QED  BY <1>1, <2>1 DEF Stream
<1>5. SlotInv'
  BY <1>1 DEF SlotInv
<1>6. device' \in Seq(Nat) /\ wire' \in Seq(Nat)
  BY <1>1, <1>2
<1> QED  BY <1>1, <1>3, <1>4, <1>5, <1>6, Moved

(* The steps that only look at _buffer. *)
LEMMA LoopStep ==
  ASSUME MuxInv, PacketBegins \/ LoopEnds \/ HandleNested
  PROVE  MuxInv' /\ Quiet
<1>1. UNCHANGED <<writing, wire, device, buffer, reading>>
  BY DEF PacketBegins, LoopEnds, HandleNested
<1>2. Stream' = Stream
  BY <1>1 DEF Stream
<1>3. SlotInv'
  BY DEF MuxInv, SlotInv, PacketBegins, LoopEnds, HandleNested
<1>4. buffer' \in Seq(Nat) /\ device' \in Seq(Nat) /\ wire' \in Seq(Nat)
  BY <1>1 DEF MuxInv, TypeInv
<1> QED  BY <1>1, <1>2, <1>3, <1>4, Moved

---------------------------------------------------------------------------
(* The steps that read. *)

(* They leave what is on its way alone. *)
LEMMA DataStep ==
  ASSUME MuxInv, UNCHANGED <<writing, wire, device, buffer>>, SlotInv',
         data' \in [Channels -> Seq(Nat)]
  PROVE  MuxInv' /\ todo' = todo /\ \A c : InTransit(c)' = InTransit(c)
<1>1. UNCHANGED <<todo, out, writeLock, broken>>
  BY DEF writing
<1>2. TypeInv'
  BY <1>1 DEF MuxInv, TypeInv
<1>3. Stream' = Stream
  BY DEF Stream
<1>4. LockInv' /\ StreamInv' /\ \A c : InTransit(c)' = InTransit(c)
  BY <1>3, Steady
<1> QED  BY <1>1, <1>2, <1>4 DEF MuxInv

(* The first units of channel c are read. *)
Taken(c) == \E k \in 0 .. Len(data[c]) :
  got' = SubSeq(data[c], 1, k) /\ data' = [data EXCEPT ![c] = From(@, k)]

(* The type of _data then, and the read that takes all. *)
LEMMA TakenType ==
  ASSUME TypeInv, NEW c \in Channels, Taken(c)
  PROVE  data' \in [Channels -> Seq(Nat)]
<1>1. data \in [Channels -> Seq(Nat)]
  BY DEF TypeInv
<1>2. PICK d : d = data[c]
  OBVIOUS
<1>3. d \in Seq(Nat)
  BY <1>1, <1>2
<1>4. PICK k \in 0 .. Len(d) : data' = [data EXCEPT ![c] = From(d, k)]
  BY <1>2 DEF Taken
<1>5. From(d, k) \in Seq(Nat)
  BY <1>3, BehindIs DEF Behind, From
<1> QED  BY <1>1, <1>4, <1>5

LEMMA AllTaken ==
  ASSUME TypeInv, NEW c \in Channels, got' = data[c], data' = [data EXCEPT ![c] = <<>>]
  PROVE  Taken(c)
<1>1. PICK d, n : d = data[c] /\ n = Len(d)
  OBVIOUS
<1>2. d \in Seq(Nat) /\ n \in Nat /\ n \in 0 .. n
  BY <1>1 DEF TypeInv
<1>3. SubSeq(d, 1, n) = d
  <2>1. PICK z : z = 0
    OBVIOUS
  <2>2. /\ SubSeq(d, z + 1, n) \in Seq(Nat) /\ Len(SubSeq(d, z + 1, n)) = n - z
        /\ \A p \in 1 .. n - z : SubSeq(d, z + 1, n)[p] = d[z + p]
    BY <1>1, <1>2, <2>1, PartIs
  <2>3. PICK u : u = SubSeq(d, z + 1, n)
    OBVIOUS
  <2>4. u \in Seq(Nat) /\ Len(u) = Len(d) /\ \A p \in 1 .. Len(u) : u[p] = d[p]
    BY <1>1, <1>2, <2>1, <2>2, <2>3
  <2>5. u = d
    BY <1>2, <2>4, SeqEqual
  <2> QED  BY <2>1, <2>3, <2>5
<1>4. From(d, n) = <<>>
  <2>1. Behind(SubSeq(d, n + 1, n), d, n)
    BY <1>1, <1>2, BehindIs
  <2>2. PICK u : u = SubSeq(d, n + 1, n)
    OBVIOUS
  <2>3. u \in Seq(Nat) /\ Len(u) = 0
    BY <1>1, <1>2, <2>1, <2>2 DEF Behind
  <2> QED  BY <1>1, <2>2, <2>3 DEF From
<1> QED  BY <1>1, <1>2, <1>3, <1>4 DEF Taken

(* readData() and readAll(), the slots of readyRead(), and waitForReadyRead(). *)
LEMMA ReadStep ==
  ASSUME MuxInv, NEW c \in Channels, ReadAll(c) \/ \E max \in 1 .. MaxLen : ReadData(c, max)
  PROVE  /\ MuxInv' /\ todo' = todo /\ Taken(c)
         /\ \A x : InTransit(x)' = InTransit(x)
<1>1. UNCHANGED <<writing, wire, receiving>>
  BY DEF ReadAll, ReadData
<1>2. Taken(c)
  <2>1. CASE ReadAll(c)
    BY <2>1, AllTaken DEF MuxInv, ReadAll
  <2>2. ASSUME NEW max \in 1 .. MaxLen, ReadData(c, max) PROVE Taken(c)
    <3>1. PICK n : n = Len(data[c])
      OBVIOUS
    <3>2. n \in Nat
      BY <3>1 DEF MuxInv, TypeInv
    <3>3. max \in Nat
      BY MaxLenAssumption
    <3>4. AtMost(n, max) \in 0 .. n
      BY <3>2, <3>3 DEF AtMost
    <3> QED  BY <2>2, <3>1, <3>4 DEF ReadData, Taken
  <2> QED  BY <2>1, <2>2
<1>3. data' \in [Channels -> Seq(Nat)]
  BY <1>2, TakenType DEF MuxInv
<1>4. SlotInv'
  BY <1>1 DEF MuxInv, SlotInv, receiving
<1>5. UNCHANGED <<writing, wire, device, buffer>>
  BY <1>1 DEF receiving
<1> QED  BY <1>2, <1>3, <1>4, <1>5, DataStep

LEMMA EmitStep ==
  ASSUME MuxInv, Emit
  PROVE  MuxInv' /\ (Quiet \/ /\ chan \in Channels /\ todo' = todo /\ Taken(chan)
                               /\ \A x : InTransit(x)' = InTransit(x))
<1>1. /\ rpc = "emit" /\ rpc' = "refill"
      /\ UNCHANGED <<writing, wire, device, chan, buffer>>
  BY DEF Emit
<1>2. chan \in Channels /\ SlotInv'
  BY <1>1 DEF MuxInv, SlotInv
<1>3. UNCHANGED <<got, data>> \/ Taken(chan)
  BY <1>2, AllTaken DEF Emit, MuxInv
<1>4. data' \in [Channels -> Seq(Nat)]
  <2>1. CASE Taken(chan)
    BY <1>2, <2>1, TakenType DEF MuxInv
  <2>2. CASE UNCHANGED <<got, data>>
    BY <2>2 DEF MuxInv, TypeInv
  <2> QED  BY <1>3, <2>1, <2>2
<1>5. MuxInv' /\ todo' = todo /\ \A c : InTransit(c)' = InTransit(c)
  BY <1>1, <1>2, <1>4, DataStep
<1> QED  BY <1>2, <1>3, <1>5 DEF Quiet

LEMMA WaitStep ==
  ASSUME MuxInv, NEW c, WaitForReadyRead(c)
  PROVE  MuxInv' /\ Quiet
<1>1. UNCHANGED <<writing, wire, receiving, reading>>
  BY DEF WaitForReadyRead
<1>2. SlotInv'
  BY <1>1 DEF MuxInv, SlotInv, receiving
<1>3. data' \in [Channels -> Seq(Nat)] /\ UNCHANGED <<writing, wire, device, buffer, data, got>>
  BY <1>1 DEF MuxInv, TypeInv, receiving, reading
<1> QED  BY <1>2, <1>3, DataStep DEF Quiet

(* clear() wipes what has been taken out, not what is on its way. *)
LEMMA ClearStep ==
  ASSUME MuxInv, Clear
  PROVE  /\ MuxInv' /\ UNCHANGED <<todo, got>> /\ data' = [c \in Channels |-> <<>>]
         /\ \A c : InTransit(c)' = InTransit(c)
<1>1. UNCHANGED <<writing, wire, receiving, got>> /\ data' = [c \in Channels |-> <<>>]
  BY DEF Clear
<1>2. SlotInv'
  BY <1>1 DEF MuxInv, SlotInv, receiving
<1>3. data' \in [Channels -> Seq(Nat)] /\ UNCHANGED <<writing, wire, device, buffer>>
  BY <1>1 DEF receiving
<1> QED  BY <1>1, <1>2, <1>3, DataStep

---------------------------------------------------------------------------
(* The invariant holds. *)

(* At the beginning nothing is on its way. *)
LEMMA MuxInit ==
  ASSUME Init
  PROVE  MuxInv /\ \A c : InTransit(c) = <<>>
<1>1. /\ todo = Messages /\ out = [w \in Writers |-> <<>>] /\ writeLock = NoWriter
      /\ wire = <<>> /\ device = <<>> /\ rpc = "idle" /\ buffer = <<>>
      /\ data = [c \in Channels |-> <<>>]
  BY DEF Init
<1>2. <<>> \in Seq(Nat)
  OBVIOUS
<1>3. TypeInv
  BY <1>1, <1>2, MessagesAssumption DEF TypeInv
<1>4. LockInv /\ SlotInv
  BY <1>1, WritersAssumption DEF LockInv, SlotInv
<1>5. Stream = <<>>
  <2>1. buffer \o device = <<>>
    BY <1>1
  <2> QED  BY <1>1, <2>1 DEF Stream
<1>6. ~Whole(Stream, 0)
  BY <1>5 DEF Whole, HdrSize
<1>7. Chain(Stream, 0, {0})
  BY <1>5, <1>6 DEF Chain
<1>8. Written(0)
  BY <1>1, <1>5 DEF Written
<1>9. ASSUME NEW c PROVE InTransit(c) = <<>>
  <2>1. Stream \in Seq(Nat) /\ 0 \in 0 .. Len(Stream)
    BY <1>5
  <2>2. IsParse(Stream, c, Parse(Stream, c))
    BY <2>1, ParseExists
  <2>3. Parse(Stream, c)[0] = <<>>
    BY <1>6, <2>1, <2>2, ParseAt
  <2> QED  BY <2>3, InTransitIs
<1> QED  BY <1>3, <1>4, <1>7, <1>8, <1>9 DEF MuxInv, StreamInv

(* Every step preserves the invariant. *)
LEMMA MuxNext ==
  ASSUME MuxInv, [Next]_vars
  PROVE  MuxInv'
<1>1. ASSUME NEW w \in Writers, StartPacket(w) \/ WritePart(w) \/ WriteLast(w) \/ WriteError(w)
      PROVE  MuxInv'
  BY <1>1, StartStep, PartStep, LastStep, ErrorStep
<1>2. CASE Break
  BY <1>2, BreakStep
<1>3. CASE Owner
  BY <1>3, ArriveStep, PumpStep, ReadAllStep, LoopStep, ExtractStep, EmitStep DEF Owner
<1>4. ASSUME NEW c \in Channels \ Slotted,
             ReadAll(c) \/ WaitForReadyRead(c) \/ \E max \in 1 .. MaxLen : ReadData(c, max)
      PROVE  MuxInv'
  BY <1>4, ReadStep, WaitStep
<1>5. CASE Clear
  BY <1>5, ClearStep
<1>6. CASE UNCHANGED vars
  <2>1. UNCHANGED <<writing, wire, device, buffer, data, rpc, chan>>
    BY <1>6 DEF vars, receiving, reading
  <2>2. SlotInv' /\ data' \in [Channels -> Seq(Nat)]
    BY <2>1 DEF MuxInv, SlotInv, TypeInv
  <2> QED  BY <2>1, <2>2, DataStep
<1> QED  BY <1>1, <1>2, <1>3, <1>4, <1>5, <1>6 DEF Next

LEMMA MuxAlways == Spec => []MuxInv
<1>1. Init => MuxInv
  BY MuxInit
<1>2. MuxInv /\ [Next]_vars => MuxInv'
  BY MuxNext
<1> QED  BY <1>1, <1>2, PTL DEF Spec

---------------------------------------------------------------------------
(* Each channel is a pipe: Units are what Pipes calls pipe, Ready its ready. *)

Units == [c \in Channels |-> data[c] \o InTransit(c)]
Ready == [c \in Channels |-> Len(data[c])]

(* Some first units of a, with t behind it. *)
LEMMA FirstUnits ==
  ASSUME NEW a \in Seq(Nat), NEW t \in Seq(Nat), NEW u, Joined(a, t, u), NEW k \in 0 .. Len(a)
  PROVE  SubSeq(u, 1, k) = SubSeq(a, 1, k)
<1>1. PICK z : z = 0
  OBVIOUS
<1>2. Len(a) \in Nat /\ k \in Nat /\ k <= Len(a) /\ z <= k /\ z \in Nat
  BY <1>1
<1>3. u \in Seq(Nat) /\ Len(u) = Len(a) + Len(t) /\ k <= Len(u)
      /\ \A p \in 1 .. Len(a) : u[p] = a[p]
  <2>1. u \in Seq(Nat) /\ Len(u) = Len(a) + Len(t) /\ \A p \in 1 .. Len(a) : u[p] = a[p]
    BY ConcatIs DEF Joined
  <2>2. Len(t) \in Nat
    OBVIOUS
  <2> QED  BY <1>2, <2>1, <2>2
<1>4. /\ SubSeq(u, z + 1, k) \in Seq(Nat) /\ Len(SubSeq(u, z + 1, k)) = k - z
      /\ \A p \in 1 .. k - z : SubSeq(u, z + 1, k)[p] = u[z + p]
  BY SMTT(30), <1>2, <1>3, PartIs
<1>5. /\ SubSeq(a, z + 1, k) \in Seq(Nat) /\ Len(SubSeq(a, z + 1, k)) = k - z
      /\ \A p \in 1 .. k - z : SubSeq(a, z + 1, k)[p] = a[z + p]
  BY <1>2, PartIs
<1>6. PICK x, y : x = SubSeq(u, z + 1, k) /\ y = SubSeq(a, z + 1, k)
  OBVIOUS
<1>7. x \in Seq(Nat) /\ y \in Seq(Nat) /\ Len(x) = Len(y) /\ \A p \in 1 .. Len(x) : x[p] = y[p]
  <2>1. \A p \in 1 .. k - z : z + p = p /\ p \in 1 .. Len(a)
    BY <1>1, <1>2
  <2> QED  BY <1>3, <1>4, <1>5, <1>6, <2>1
<1>8. x = y
  BY <1>7, SeqEqual
<1> QED  BY <1>1, <1>6, <1>8

(* The rest of a, with t behind it. *)
LEMMA LastUnits ==
  ASSUME NEW a \in Seq(Nat), NEW t \in Seq(Nat), NEW u, Joined(a, t, u), NEW k \in 0 .. Len(a)
  PROVE  Joined(From(a, k), t, From(u, k))
<1>1. PICK r, v, x : r = From(a, k) /\ Joined(r, t, v) /\ x = From(u, k)
  BY DEF Joined
<1>2. Behind(r, a, k)
  BY <1>1, BehindIs DEF From
<1>3. u \in Seq(Nat) /\ Len(u) = Len(a) + Len(t) /\ Behind(v, u, k)
  BY <1>1, <1>2, BehindBoth
<1>4. Len(a) \in Nat /\ Len(t) \in Nat /\ k \in 0 .. Len(u)
  BY <1>3
<1>5. Behind(x, u, k)
  BY <1>1, <1>3, <1>4, BehindIs DEF From
<1>6. v \in Seq(Nat) /\ x \in Seq(Nat) /\ Len(v) = Len(x)
  BY <1>3, <1>5 DEF Behind
<1>7. \A p \in 1 .. Len(v) : v[p] = x[p]
  <2> TAKE p \in 1 .. Len(v)
  <2>1. PICK y : y = k + p
    OBVIOUS
  <2>2. u[y] = v[p] /\ u[y] = x[p]
    BY <1>3, <1>5, <1>6, <2>1 DEF Behind, Shifted
  <2> QED  BY <2>2
<1>8. v = x
  BY <1>6, <1>7, SeqEqual
<1> QED  BY <1>1, <1>8

(* The units of channel c. *)
LEMMA UnitsType ==
  ASSUME TypeInv, NEW c \in Channels
  PROVE  /\ data[c] \in Seq(Nat) /\ InTransit(c) \in Seq(Nat)
         /\ Joined(data[c], InTransit(c), Units[c]) /\ Units[c] \in Seq(Nat)
         /\ Ready[c] = Len(data[c]) /\ Len(data[c]) \in Nat
<1>1. PICK d, t : d = data[c] /\ t = InTransit(c)
  OBVIOUS
<1>2. d \in Seq(Nat) /\ t \in Seq(Nat)
  BY <1>1, TransitType DEF TypeInv
<1>3. Units[c] = d \o t /\ Ready[c] = Len(d)
  BY <1>1 DEF Units, Ready
<1>4. d \o t \in Seq(Nat) /\ Len(d) \in Nat
  BY <1>2
<1> QED  BY <1>1, <1>2, <1>3, <1>4 DEF Joined

(* A quiet step changes no pipe. *)
LEMMA QuietStep ==
  ASSUME Quiet
  PROVE  UNCHANGED <<todo, Units, Ready, got>>
BY DEF Quiet, Units, Ready

(* The last units of a packet: its data is written. *)
LEMMA LastWrites ==
  ASSUME MuxInv, NEW w \in Writers, WriteLast(w)
  PROVE  Pipe!Write(w)
<1>1. /\ MuxInv' /\ UNCHANGED <<data, got>> /\ todo[w] # <<>>
      /\ \A c : Joined(InTransit(c), Share(Head(todo[w]).chan, Part(w), c), InTransit(c)')
  BY LastStep
<1>2. PICK m, k, x : m = Head(todo[w]) /\ k = PacketSize(w) /\ x = SubSeq(m.data, 1, k)
  OBVIOUS
<1>3. m.chan \in Channels /\ k \in 0 .. Len(m.data) /\ x = Part(w) /\ x \in Seq(Nat)
  BY <1>1, <1>2, NextPacket DEF MuxInv, Part
<1>4. todo' = [todo EXCEPT ![w] = IF k = Len(m.data) THEN Tail(@)
                                  ELSE [@ EXCEPT ![1].data = SubSeq(m.data, k + 1, Len(m.data))]]
  <2>1. todo' = [todo EXCEPT ![w] = IF Len(m.data) = k THEN Tail(@)
                                    ELSE [@ EXCEPT ![1].data = From(m.data, k)]]
    BY <1>2 DEF WriteLast
  <2> QED  BY <2>1 DEF From
<1>5. Ready' = Ready
  BY <1>1 DEF Ready
<1>6. ASSUME NEW c \in Channels
      PROVE  Units'[c] = IF c = m.chan THEN Units[c] \o x ELSE Units[c]
  <2>1. PICK d, t, s, u : /\ d = data[c] /\ t = InTransit(c) /\ s = Share(m.chan, x, c)
                          /\ u = InTransit(c)'
    OBVIOUS
  <2>2. d \in Seq(Nat) /\ t \in Seq(Nat) /\ Joined(d, t, Units[c])
    BY <2>1, UnitsType DEF MuxInv
  <2>3. s \in Seq(Nat)
    BY <1>3, <2>1 DEF Share
  <2>4. u = t \o s
    BY <1>1, <1>2, <1>3, <2>1 DEF Joined
  <2>5. Units'[c] = d \o (t \o s)
    BY <1>1, <2>1, <2>4 DEF Units
  <2>6. d \o (t \o s) = (d \o t) \o s
    BY <2>2, <2>3, Associative
  <2>7. Units'[c] = Units[c] \o s
    BY <2>2, <2>5, <2>6 DEF Joined
  <2>8. Units[c] \o <<>> = Units[c]
    <3>1. Units[c] \in Seq(Nat)
      BY UnitsType DEF MuxInv
    <3> QED  BY <3>1
  <2> QED  BY <2>1, <2>7, <2>8 DEF Share
<1>7. Units' = [Units EXCEPT ![m.chan] = @ \o x]
  BY <1>3, <1>6 DEF Units
<1> QED  BY <1>1, <1>2, <1>3, <1>4, <1>5, <1>7 DEF Pipe!Write, Units, Ready

(* A failed write: the rest of the message is not written. *)
LEMMA ErrorFails ==
  ASSUME MuxInv, NEW w \in Writers, WriteError(w)
  PROVE  Pipe!Fail(w)
<1>1. /\ UNCHANGED <<data, got>> /\ todo[w] # <<>> /\ todo' = [todo EXCEPT ![w] = Tail(@)]
      /\ \A c : InTransit(c)' = InTransit(c)
  BY ErrorStep DEF WriteError
<1>2. Units' = Units /\ Ready' = Ready
  BY <1>1 DEF Units, Ready
<1> QED  BY <1>1, <1>2 DEF Pipe!Fail, Units, Ready

(* A packet that is taken out: its data can be read. *)
LEMMA ExtractDelivers ==
  ASSUME MuxInv, Extract
  PROVE  \E c \in Channels : Pipe!Deliver(c)
<1>1. MuxInv' /\ UNCHANGED <<todo, got>> /\ chan \in Channels
  BY ExtractStep
<1>2. PICK x \in Seq(Nat) :
        /\ data' = [data EXCEPT ![chan] = @ \o x]
        /\ \A c : Joined(Share(chan, x, c), InTransit(c)', InTransit(c))
  BY ExtractStep
<1>3. data \in [Channels -> Seq(Nat)]
  BY DEF MuxInv, TypeInv
<1>4. ASSUME NEW c \in Channels PROVE Units'[c] = Units[c]
  <2>1. PICK d, s, t : d = data[c] /\ s = Share(chan, x, c) /\ t = InTransit(c)'
    OBVIOUS
  <2>2. d \in Seq(Nat) /\ s \in Seq(Nat) /\ t \in Seq(Nat)
    <3>1. t \in Seq(Nat)
      BY <1>1, <2>1, NextTransitType DEF MuxInv
    <3> QED  BY <1>3, <2>1, <3>1 DEF Share
  <2>3. data'[c] = d \o s
    <3>1. CASE c = chan
      BY <1>2, <1>3, <2>1, <3>1 DEF Share
    <3>2. CASE c # chan
      <4>1. data'[c] = d /\ s = <<>>
        BY <1>2, <1>3, <2>1, <3>2 DEF Share
      <4> QED  BY <2>2, <4>1
    <3> QED  BY <3>1, <3>2
  <2>4. Units'[c] = (d \o s) \o t
    BY <2>1, <2>3 DEF Units
  <2>5. Units[c] = d \o (s \o t)
    BY <1>2, <2>1 DEF Units, Joined
  <2> QED  BY <2>2, <2>4, <2>5, Associative
<1>5. Units' = Units
  BY <1>4 DEF Units
<1>6. PICK ch : ch = chan
  OBVIOUS
<1> ch \in Channels
  BY <1>1, <1>6
<1>7. PICK d, t, n : d = data[ch] /\ t = InTransit(ch)' /\ n = Len(d \o x)
  OBVIOUS
<1>8. d \in Seq(Nat) /\ t \in Seq(Nat)
  BY <1>1, <1>3, <1>7, NextTransitType DEF MuxInv
<1>9. Units[ch] = (d \o x) \o t /\ Ready[ch] = Len(d) /\ data'[ch] = d \o x
  <2>1. data'[ch] = d \o x
    BY <1>2, <1>3, <1>6, <1>7
  <2>2. Units'[ch] = (d \o x) \o t
    BY <1>7, <2>1 DEF Units
  <2> QED  BY <1>5, <1>7, <2>1, <2>2 DEF Ready
<1>10. n \in Ready[ch] .. Len(Units[ch])
  <2>1. PICK y : y = d \o x
    OBVIOUS
  <2>2. y \in Seq(Nat) /\ Len(y) = Len(d) + Len(x) /\ Len(d) \in Nat /\ Len(x) \in Nat
    BY <1>8, <2>1, ConcatIs
  <2>3. Len(y \o t) = Len(y) + Len(t) /\ Len(t) \in Nat
    <3>1. y \in Seq(Nat) /\ t \in Seq(Nat)
      BY <1>8, <2>2
    <3> QED  BY <3>1, ConcatIs
  <2> QED  BY <1>7, <1>9, <2>1, <2>2, <2>3
<1>11. Ready' = [Ready EXCEPT ![ch] = n]
  BY <1>2, <1>3, <1>6, <1>7, <1>9 DEF Ready
<1>12. Pipe!Deliver(ch)
  BY <1>1, <1>5, <1>10, <1>11 DEF Pipe!Deliver, Units, Ready
<1> QED  BY <1>12

(* A read. *)
LEMMA TakenReads ==
  ASSUME MuxInv, NEW c \in Channels, Taken(c), todo' = todo,
         \A x : InTransit(x)' = InTransit(x)
  PROVE  Pipe!Read(c)
<1>1. PICK k \in 0 .. Len(data[c]) :
        got' = SubSeq(data[c], 1, k) /\ data' = [data EXCEPT ![c] = From(@, k)]
  BY DEF Taken
<1>2. PICK d, t, u, r : d = data[c] /\ t = InTransit(c) /\ u = Units[c] /\ r = From(d, k)
  OBVIOUS
<1>3. /\ d \in Seq(Nat) /\ t \in Seq(Nat) /\ Joined(d, t, u) /\ Ready[c] = Len(d)
      /\ k \in 0 .. Len(d) /\ Len(d) \in Nat
  BY <1>1, <1>2, UnitsType DEF MuxInv
<1>4. got' = SubSeq(u, 1, k)
  BY <1>1, <1>2, <1>3, FirstUnits
<1>5. data \in [Channels -> Seq(Nat)]
  BY DEF MuxInv, TypeInv
<1>6. data'[c] = r /\ \A x \in Channels \ {c} : data'[x] = data[x]
  BY <1>1, <1>2, <1>5
<1>7. Units' = [Units EXCEPT ![c] = SubSeq(@, k + 1, Len(@))]
  <2>1. Joined(r, t, From(u, k))
    BY <1>2, <1>3, LastUnits
  <2>2. Units'[c] = From(u, k)
    BY <1>2, <1>6, <2>1 DEF Units, Joined
  <2>3. \A x \in Channels \ {c} : Units'[x] = Units[x]
    BY <1>6 DEF Units
  <2>4. Units' = [Units EXCEPT ![c] = From(u, k)]
    BY <2>2, <2>3 DEF Units
  <2> QED  BY <1>2, <2>4 DEF From
<1>8. Ready' = [Ready EXCEPT ![c] = @ - k]
  <2>1. Len(r) = Len(d) - k
    BY <1>2, <1>3, BehindIs DEF Behind, From
  <2>2. \A x \in Channels : Ready'[x] = IF x = c THEN Ready[c] - k ELSE Ready[x]
    BY <1>3, <1>6, <2>1 DEF Ready
  <2> QED  BY <2>2 DEF Ready
<1>9. k \in 0 .. Ready[c]
  BY <1>3
<1> QED  BY <1>2, <1>4, <1>7, <1>8, <1>9 DEF Pipe!Read, Units, Ready

(* clear(). *)
LEMMA ClearClears ==
  ASSUME MuxInv, Clear
  PROVE  Pipe!Clear
<1>1. /\ UNCHANGED <<todo, got>> /\ data' = [c \in Channels |-> <<>>]
      /\ \A c : InTransit(c)' = InTransit(c)
  BY ClearStep
<1>2. ASSUME NEW c \in Channels
      PROVE  Units'[c] = SubSeq(Units[c], Ready[c] + 1, Len(Units[c])) /\ Ready'[c] = 0
  <2>1. PICK d, t, u, n, r : d = data[c] /\ t = InTransit(c) /\ u = Units[c] /\ n = Len(d) /\ r = From(d, n)
    OBVIOUS
  <2>2. /\ d \in Seq(Nat) /\ t \in Seq(Nat) /\ Joined(d, t, u) /\ Ready[c] = n
        /\ n \in 0 .. Len(d) /\ n \in Nat
    BY <2>1, UnitsType DEF MuxInv
  <2>3. r = <<>>
    <3>1. Behind(r, d, n)
      BY <2>1, <2>2, BehindIs DEF From
    <3>2. r \in Seq(Nat) /\ Len(r) = 0
      BY <2>1, <2>2, <3>1 DEF Behind
    <3> QED  BY <3>2
  <2>4. Joined(r, t, From(u, n))
    BY <2>1, <2>2, LastUnits
  <2>5. data'[c] = <<>> /\ Units'[c] = <<>> \o t /\ Ready'[c] = 0
    BY <1>1, <2>1 DEF Units, Ready
  <2>6. Units'[c] = From(u, n)
    BY <2>3, <2>4, <2>5 DEF Joined
  <2> QED  BY <2>1, <2>2, <2>5, <2>6 DEF From
<1>3. /\ Units' = [c \in Channels |-> SubSeq(Units[c], Ready[c] + 1, Len(Units[c]))]
      /\ Ready' = [c \in Channels |-> 0]
  BY <1>2 DEF Units, Ready
<1> QED  BY <1>1, <1>3 DEF Pipe!Clear, Units, Ready

(* Every step of the muxers is one of the pipes, or none. *)
LEMMA PipeStep ==
  ASSUME MuxInv, [Next]_vars
  PROVE  [Pipe!Next]_<<todo, Units, Ready, got>>
<1> SUFFICES Pipe!Next \/ Quiet
  BY QuietStep
<1>1. ASSUME NEW w \in Writers, StartPacket(w) \/ WritePart(w) \/ WriteLast(w) \/ WriteError(w)
      PROVE  Pipe!Next \/ Quiet
  <2>1. Pipe!Write(w) \/ Pipe!Fail(w) \/ Quiet
    BY <1>1, StartStep, PartStep, LastWrites, ErrorFails DEF Quiet
  <2> QED  BY <2>1 DEF Pipe!Next
<1>2. CASE Break
  BY <1>2, BreakStep DEF Quiet
<1>3. CASE Owner
  <2>1. (\E c \in Channels : Pipe!Deliver(c) \/ Pipe!Read(c)) \/ Quiet
    <3>1. CASE Arrive \/ Pump \/ HandleReadyRead \/ Refill \/ PacketBegins \/ LoopEnds \/ HandleNested
      BY <3>1, ArriveStep, PumpStep, ReadAllStep, LoopStep
    <3>2. CASE Extract
      BY <3>2, ExtractDelivers
    <3>3. CASE Emit
      <4>1. PICK c : c = chan
        OBVIOUS
      <4>2. Quiet \/ /\ c \in Channels /\ todo' = todo /\ Taken(c)
                     /\ \A x : InTransit(x)' = InTransit(x)
        BY <3>3, <4>1, EmitStep DEF Taken
      <4> QED  BY <4>2, TakenReads
    <3> QED  BY <1>3, <3>1, <3>2, <3>3 DEF Owner
  <2> QED  BY <2>1 DEF Pipe!Next
<1>4. ASSUME NEW c \in Channels \ Slotted,
             ReadAll(c) \/ WaitForReadyRead(c) \/ \E max \in 1 .. MaxLen : ReadData(c, max)
      PROVE  Pipe!Next \/ Quiet
  <2>1. Pipe!Read(c) \/ Quiet
    BY <1>4, ReadStep, WaitStep, TakenReads
  <2> QED  BY <2>1 DEF Pipe!Next
<1>5. CASE Clear
  BY <1>5, ClearClears DEF Pipe!Next
<1>6. CASE UNCHANGED vars
  <2>1. Stream' = Stream /\ UNCHANGED <<todo, data, got>>
    BY <1>6 DEF vars, writing, receiving, reading, Stream
  <2> QED  BY <2>1, InTransitIs DEF Quiet
<1> QED  BY <1>1, <1>2, <1>3, <1>4, <1>5, <1>6 DEF Next

(* For any writers, messages, channels and sizes of packets: each channel is a
   pipe of its own. What writeData() was given for a channel is read from it by
   readData(), readAll() and the slots, in the order of its packets, once and
   mixed with nothing else, wherever the socket cuts the stream and whoever
   else writes; of a packet that a broken connection cuts off nothing is read. *)
THEOREM EachChannelAPipe == Spec => ChannelsArePipes
<1>1. Init => /\ [c \in Channels |-> data[c] \o InTransit(c)] = [c \in Channels |-> <<>>]
              /\ [c \in Channels |-> Len(data[c])] = [c \in Channels |-> 0] /\ got = <<>>
  <2> SUFFICES ASSUME Init
               PROVE  /\ \A c \in Channels : data[c] \o InTransit(c) = <<>> /\ Len(data[c]) = 0
                      /\ got = <<>>
    OBVIOUS
  <2>1. \A c \in Channels : data[c] = <<>> /\ InTransit(c) = <<>>
    BY MuxInit DEF Init
  <2> QED  BY <2>1 DEF Init
<1>2. MuxInv /\ [Next]_vars => [Pipe!Next]_(Pipe!vars)
  BY PipeStep DEF Pipe!vars, Units, Ready
<1> QED  BY MuxAlways, <1>1, <1>2, PTL DEF Spec, ChannelsArePipes, Pipe!Spec
=============================================================================
