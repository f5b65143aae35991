--------------------------- MODULE PageScanProofs ---------------------------
(* Proofs about PageScan: for every guest and any number of entries per table,
   the entries of a page say what the processor does with it, a step goes over
   just the addresses that share the deciding entry, and a finished scan has
   recorded the pages it should. *)
EXTENDS PageScan, TLAPS, WellFoundedInduction, FiniteSetTheorems

(* A set of natural numbers that is not empty has a least member: what these
   proofs use in place of induction. *)
LEMMA Least ==
  ASSUME NEW S, S \subseteq Nat, S # {}
  PROVE  \E x \in S : \A y \in S : x <= y
<1> DEFINE R == OpToRel(<, Nat)
<1>1. IsWellFoundedOn(R, Nat)
  BY NatLessThanWellFounded
<1>2. \A x, y \in Nat : x < y => <<x, y>> \in R
  BY DEF OpToRel
<1> HIDE DEF R
<1>3. PICK x \in S : \A y \in S : <<y, x>> \notin R
  BY <1>1, WFMin
<1>4. \A y \in S : ~(y < x)
  BY <1>2, <1>3
<1>5. \A y \in S : x <= y
  BY <1>4
<1> QED  BY <1>5

(* Quotient and remainder. *)
LEMMA Quotient ==
  ASSUME NEW s \in Nat \ {0}, NEW q \in Nat, NEW r \in 0 .. s - 1
  PROVE  (s * q + r) \div s = q /\ (s * q + r) % s = r
<1> DEFINE n == s * q + r
<1>1. n \in Nat
  OBVIOUS
<1>2. n = s * (n \div s) + (n % s) /\ n % s \in 0 .. s - 1 /\ n \div s \in Nat
  BY <1>1
<1> DEFINE d == n \div s
<1>3. ~(d < q)
  <2>1. SUFFICES ASSUME d < q PROVE FALSE
    OBVIOUS
  <2>2. s * (d + 1) <= s * q
    BY <1>2, <2>1
  <2> QED  BY <1>2, <2>2
<1>4. ~(d > q)
  <2>1. SUFFICES ASSUME d > q PROVE FALSE
    OBVIOUS
  <2>2. s * (q + 1) <= s * d
    BY <1>2, <2>1
  <2> QED  BY <1>2, <2>2
<1>5. d = q
  BY <1>2, <1>3, <1>4
<1> QED  BY <1>2, <1>5

(* A larger span is made of whole smaller ones. *)
LEMMA Nested ==
  ASSUME NEW s \in Nat \ {0}, NEW m \in Nat \ {0}, NEW v \in Nat
  PROVE  v \div (m * s) = (v \div s) \div m
<1>1. PICK q \in Nat : q = v \div s
  OBVIOUS
<1>2. PICK r \in 0 .. s - 1 : v = s * q + r
  <2>1. v = s * (v \div s) + (v % s) /\ v % s \in 0 .. s - 1
    OBVIOUS
  <2> QED  BY <1>1, <2>1
<1>3. PICK p \in Nat : p = q \div m
  OBVIOUS
<1>4. PICK t \in 0 .. m - 1 : q = m * p + t
  <2>1. q = m * (q \div m) + (q % m) /\ q % m \in 0 .. m - 1
    OBVIOUS
  <2> QED  BY <1>3, <2>1
<1>5. v = (m * s) * p + (s * t + r)
  <2>1. s * (m * p + t) = (m * s) * p + s * t
    OBVIOUS
  <2> QED  BY <1>2, <1>4, <2>1
<1>6. m * s \in Nat \ {0}
  OBVIOUS
<1>7. s * t + r \in 0 .. (m * s) - 1
  <2>1. s * t <= s * (m - 1)
    OBVIOUS
  <2>2. s * (m - 1) = m * s - s
    OBVIOUS
  <2>3. s * t \in Nat
    OBVIOUS
  <2> QED  BY <2>1, <2>2, <2>3
<1>8. PICK n, w \in Nat : n = m * s /\ w = s * t + r
  BY <1>6, <1>7
<1>9. v \div n = p
  <2>1. v = n * p + w /\ n \in Nat \ {0} /\ w \in 0 .. n - 1
    BY <1>5, <1>6, <1>7, <1>8
  <2> QED  BY <2>1, Quotient
<1> QED  BY <1>1, <1>3, <1>8, <1>9

-----------------------------------------------------------------------------
(* The level that decides about an address. *)

LEMMA LevelsAre ==
  /\ Levels("x86") = <<"pgd", "pte">> /\ Depth("x86") = 2
  /\ Levels("pae") = <<"pgd", "pmd", "pte">> /\ Depth("pae") = 3
  /\ Levels("x86_64") = <<"pgd", "pud", "pmd", "pte">> /\ Depth("x86_64") = 4
BY DEF Levels, Depth

LEMMA DepthType == \A mode \in Modes : Depth(mode) \in Nat /\ Depth(mode) >= 2
BY LevelsAre DEF Modes

(* The processor's walk ends at level d, ... *)
Decides(mode, raw, d) ==
  /\ d \in 1 .. Depth(mode)
  /\ \A j \in 1 .. d - 1 : ~HwEndsAt(mode, raw, j)
  /\ d = Depth(mode) \/ HwEndsAt(mode, raw, d)

LEMMA SomeDecides ==
  ASSUME NEW mode \in Modes, NEW raw
  PROVE  \E d \in 1 .. Depth(mode) : Decides(mode, raw, d)
<1> DEFINE S == {d \in 1 .. Depth(mode) : d = Depth(mode) \/ HwEndsAt(mode, raw, d)}
<1>1. S \subseteq Nat /\ Depth(mode) \in S
  BY DepthType
<1>2. PICK d \in S : \A k \in S : d <= k
  BY <1>1, Least
<1>3. d \in 1 .. Depth(mode) /\ (d = Depth(mode) \/ HwEndsAt(mode, raw, d))
  OBVIOUS
<1>4. ASSUME NEW j \in 1 .. d - 1 PROVE ~HwEndsAt(mode, raw, j)
  <2>1. j \in 1 .. Depth(mode) /\ ~(d <= j)
    BY <1>3, DepthType
  <2>2. j \notin S
    BY <1>2, <2>1
  <2> QED  BY <2>1, <2>2
<1> QED  BY <1>3, <1>4 DEF Decides

(* It uses the levels down to the one that decides, ... *)
LEMMA ReachedTo ==
  ASSUME NEW mode \in Modes, NEW raw, NEW d, Decides(mode, raw, d), NEW k \in 1 .. Depth(mode)
  PROVE  HwReached(mode, raw, k) <=> k <= d
<1>1. d \in 1 .. Depth(mode) /\ Depth(mode) \in Nat
  BY DepthType DEF Decides
<1>2. CASE k <= d
  <2>1. \A j \in 1 .. k - 1 : j \in 1 .. d - 1
    BY <1>1, <1>2
  <2> QED  BY <1>2, <2>1 DEF Decides, HwReached
<1>3. CASE ~(k <= d)
  <2>1. d \in 1 .. k - 1 /\ d # Depth(mode)
    BY <1>1, <1>3
  <2> QED  BY <1>3, <2>1 DEF Decides, HwReached
<1> QED  BY <1>2, <1>3

(* ... and translates if the entry there is present. *)
LEMMA TranslatesThere ==
  ASSUME NEW mode \in Modes, NEW raw, DOMAIN raw = 1 .. Depth(mode),
         NEW d, Decides(mode, raw, d)
  PROVE  HwTranslates(mode, raw) <=> Valid(raw[d])
<1>1. d \in 1 .. Depth(mode) /\ Depth(mode) \in Nat /\ HwReached(mode, raw, d)
  BY DepthType, ReachedTo DEF Decides
<1>2. ASSUME NEW k \in 1 .. Depth(mode), HwReached(mode, raw, k), k = Depth(mode) \/ HwEndsAt(mode, raw, k)
      PROVE  k = d
  <2>1. k <= d
    BY <1>2, ReachedTo
  <2>2. ~(k < d)
    <3>1. SUFFICES ASSUME k < d PROVE FALSE
      OBVIOUS
    <3>2. k \in 1 .. d - 1 /\ k # Depth(mode)
      BY <1>1, <3>1
    <3> QED  BY <1>2, <3>2 DEF Decides
  <2> QED  BY <1>1, <2>1, <2>2
<1> QED  BY <1>1, <1>2 DEF HwTranslates, Valid, Decides

(* The walk of the code goes the same way, unless a large page at the pud ends it. *)
LEMMA SameWalk ==
  ASSUME NEW mode \in Modes, NEW raw, ~Giant(mode, raw), NEW k \in 1 .. Depth(mode)
  PROVE  IsReached(mode, raw, k) <=> HwReached(mode, raw, k)
<1>1. Depth(mode) \in Nat /\ Depth("x86_64") = 4
  BY DepthType, LevelsAre
<1>2. HwReached(mode, raw, k) => IsReached(mode, raw, k)
  BY DEF HwReached, IsReached, HwEndsAt
<1>3. ASSUME IsReached(mode, raw, k), NEW j \in 1 .. k - 1, HwEndsAt(mode, raw, j) PROVE FALSE
  <2>1. mode = "x86_64" /\ j = 2 /\ "PSE" \in raw[2]
    BY <1>3 DEF HwEndsAt, IsReached
  <2>2. 1 \in 1 .. k - 1 /\ 2 \in 1 .. k - 1
    BY <1>1, <2>1
  <2> QED  BY <1>3, <2>1, <2>2 DEF Giant, IsReached
<1> QED  BY <1>2, <1>3 DEF HwReached

LEMMA SameEnd ==
  ASSUME NEW mode \in Modes, NEW raw, ~Giant(mode, raw), NEW d, Decides(mode, raw, d)
  PROVE  d = Depth(mode) \/ EndsAt(mode, raw, d)
<1>1. d \in 1 .. Depth(mode) /\ Depth(mode) \in Nat
  BY DepthType DEF Decides
<1>2. CASE mode = "x86_64" /\ d = 2 /\ ~EndsAt(mode, raw, d)
  <2>1. ~EndsAt(mode, raw, 1) /\ "PSE" \in raw[2]
    BY <1>2, LevelsAre DEF Decides, HwEndsAt
  <2>2. \A k \in 1 .. 2 : k = 1 \/ k = 2
    OBVIOUS
  <2> QED  BY <1>2, <2>1, <2>2 DEF Giant
<1> QED  BY <1>2 DEF Decides, HwEndsAt

LEMMA SameTranslates ==
  ASSUME NEW mode \in Modes, NEW raw, DOMAIN raw = 1 .. Depth(mode), ~Giant(mode, raw)
  PROVE  Translates(mode, raw) <=> HwTranslates(mode, raw)
<1>1. \A k \in 1 .. Depth(mode) : IsReached(mode, raw, k) <=> HwReached(mode, raw, k)
  BY SameWalk
<1>2. ASSUME NEW k \in 1 .. Depth(mode), IsReached(mode, raw, k), HwEndsAt(mode, raw, k)
      PROVE  EndsAt(mode, raw, k)
  <2>1. SUFFICES ASSUME ~EndsAt(mode, raw, k) PROVE FALSE
    OBVIOUS
  <2>2. mode = "x86_64" /\ k = 2 /\ "PSE" \in raw[2]
    BY <1>2, <2>1 DEF HwEndsAt
  <2>3. ~EndsAt(mode, raw, 1) /\ \A j \in 1 .. 2 : j = 1 \/ j = 2
    BY <1>2, <2>2 DEF IsReached
  <2> QED  BY <2>1, <2>2, <2>3 DEF Giant
<1> QED  BY <1>1, <1>2 DEF Translates, HwTranslates, HwEndsAt

(* The entries that are collected on the way. *)
LEMMA EntryCollected ==
  ASSUME NEW mode \in Modes, NEW raw, DOMAIN raw = 1 .. Depth(mode), NEW l \in LevelNames
  PROVE  /\ \A k \in 1 .. Depth(mode) :
              Levels(mode)[k] = l =>
                PageLookup(mode, raw)[l] = IF IsReached(mode, raw, k) THEN raw[k] ELSE Unused
         /\ (\A k \in 1 .. Depth(mode) : Levels(mode)[k] # l) => PageLookup(mode, raw)[l] = Unused
<1>1. \A j, k \in 1 .. Depth(mode) : Levels(mode)[j] = Levels(mode)[k] => j = k
  BY LevelsAre DEF Modes
<1>2. PageLookup(mode, raw)[l] =
        IF \E k \in DOMAIN raw : Levels(mode)[k] = l /\ IsReached(mode, raw, k)
        THEN raw[CHOOSE k \in DOMAIN raw : Levels(mode)[k] = l] ELSE Unused
  BY DEF PageLookup
<1>3. ASSUME NEW k \in 1 .. Depth(mode), Levels(mode)[k] = l
      PROVE  PageLookup(mode, raw)[l] = IF IsReached(mode, raw, k) THEN raw[k] ELSE Unused
  <2>1. (CHOOSE j \in DOMAIN raw : Levels(mode)[j] = l) = k
    BY <1>1, <1>3
  <2>2. (\E j \in DOMAIN raw : Levels(mode)[j] = l /\ IsReached(mode, raw, j)) <=> IsReached(mode, raw, k)
    BY <1>1, <1>3
  <2> QED  BY <1>2, <2>1, <2>2
<1>4. (\A k \in 1 .. Depth(mode) : Levels(mode)[k] # l) => PageLookup(mode, raw)[l] = Unused
  BY <1>2
<1> QED  BY <1>3, <1>4

LEMMA EntriesCollected ==
  ASSUME NEW mode \in Modes, NEW raw, DOMAIN raw = 1 .. Depth(mode), ~Giant(mode, raw),
         NEW d, Decides(mode, raw, d), NEW l \in LevelNames
  PROVE  /\ \A k \in 1 .. Depth(mode) :
              Levels(mode)[k] = l => PageLookup(mode, raw)[l] = IF k <= d THEN raw[k] ELSE Unused
         /\ (\A k \in 1 .. Depth(mode) : Levels(mode)[k] # l) => PageLookup(mode, raw)[l] = Unused
<1>1. \A k \in 1 .. Depth(mode) : IsReached(mode, raw, k) <=> k <= d
  BY ReachedTo, SameWalk
<1> QED  BY <1>1, EntryCollected

-----------------------------------------------------------------------------
(* What is concluded from the entries. *)

RawOK(mode, raw) ==
  /\ DOMAIN raw = 1 .. Depth(mode)
  /\ \A k \in 1 .. Depth(mode) :
       raw[k] = PADDR_ERROR \/ raw[k] \subseteq (Flags \cup {"frame"}) \ Reserved(mode, k)

LEMMA Entries32 ==
  ASSUME NEW raw, RawOK("x86", raw), NEW d, Decides("x86", raw, d),
         NEW e, e = PageLookup("x86", raw)
  PROVE  /\ e["pgd"] = raw[1] /\ e["pud"] = {} /\ e["pmd"] = {}
         /\ e["pte"] = IF d = 1 THEN {} ELSE raw[2]
         /\ d \in {1, 2}
         /\ d = 1 <=> EndsAt("x86", raw, 1)
         /\ \A k \in 1 .. 2 : raw[k] = PADDR_ERROR \/ raw[k] \subseteq {"P", "RW", "US", "PSE", "frame"}
<1>9. ~Giant("x86", raw) /\ \A k \in 1 .. 2 : HwEndsAt("x86", raw, k) <=> EndsAt("x86", raw, k)
  BY DEF Giant, HwEndsAt
<1>1. "x86" \in Modes /\ DOMAIN raw = 1 .. 2 /\ d \in {1, 2} /\ (d = 1 <=> EndsAt("x86", raw, 1))
  BY <1>9, LevelsAre DEF Modes, RawOK, Decides
<1>2. \A k \in 1 .. 2 : raw[k] = PADDR_ERROR \/ raw[k] \subseteq {"P", "RW", "US", "PSE", "frame"}
  BY LevelsAre DEF RawOK, Reserved, Flags
<1>0. ASSUME NEW l \in {"pgd", "pud", "pmd", "pte"}
      PROVE  /\ \A k \in 1 .. 2 : <<"pgd", "pte">>[k] = l => e[l] = IF k <= d THEN raw[k] ELSE {}
             /\ (\A k \in 1 .. 2 : <<"pgd", "pte">>[k] # l) => e[l] = {}
  <2>1. l \in LevelNames /\ DOMAIN raw = 1 .. Depth("x86")
    BY <1>1, LevelsAre DEF LevelNames
  <2>2. /\ \A k \in 1 .. Depth("x86") : Levels("x86")[k] = l => e[l] = IF k <= d THEN raw[k] ELSE Unused
        /\ (\A k \in 1 .. Depth("x86") : Levels("x86")[k] # l) => e[l] = Unused
    BY <1>1, <1>9, <2>1, EntriesCollected
  <2> QED  BY <2>2, LevelsAre DEF Unused
<1>3. e["pgd"] = raw[1] /\ e["pte"] = IF d = 1 THEN {} ELSE raw[2]
  BY <1>0, <1>1
<1>4. e["pud"] = {} /\ e["pmd"] = {}
  BY <1>0, <1>1
<1> QED  BY <1>1, <1>2, <1>3, <1>4

LEMMA EntriesPae ==
  ASSUME NEW raw, RawOK("pae", raw), NEW d, Decides("pae", raw, d),
         NEW e, e = PageLookup("pae", raw)
  PROVE  /\ e["pgd"] = raw[1] /\ e["pud"] = {}
         /\ e["pmd"] = IF d = 1 THEN {} ELSE raw[2]
         /\ e["pte"] = IF d < 3 THEN {} ELSE raw[3]
         /\ d \in {1, 2, 3}
         /\ d = 1 <=> EndsAt("pae", raw, 1)
         /\ d = 2 => EndsAt("pae", raw, 2)
         /\ d = 3 => ~EndsAt("pae", raw, 2)
         /\ raw[1] = PADDR_ERROR \/ raw[1] \subseteq {"P", "RW", "US", "frame"}
         /\ \A k \in 2 .. 3 : raw[k] = PADDR_ERROR \/ raw[k] \subseteq {"P", "RW", "US", "PSE", "NX", "frame"}
<1>9. ~Giant("pae", raw) /\ \A k \in 1 .. 3 : HwEndsAt("pae", raw, k) <=> EndsAt("pae", raw, k)
  BY DEF Giant, HwEndsAt
<1>1. "pae" \in Modes /\ DOMAIN raw = 1 .. 3 /\ d \in {1, 2, 3}
  BY LevelsAre DEF Modes, RawOK, Decides
<1>2. /\ d = 1 <=> EndsAt("pae", raw, 1)
      /\ d = 2 => EndsAt("pae", raw, 2)
      /\ d = 3 => ~EndsAt("pae", raw, 2)
  BY <1>1, <1>9, LevelsAre DEF Decides
<1>3. /\ raw[1] = PADDR_ERROR \/ raw[1] \subseteq {"P", "RW", "US", "frame"}
      /\ \A k \in 2 .. 3 : raw[k] = PADDR_ERROR \/ raw[k] \subseteq {"P", "RW", "US", "PSE", "NX", "frame"}
  BY LevelsAre DEF RawOK, Reserved, Flags
<1>0. ASSUME NEW l \in {"pgd", "pud", "pmd", "pte"}
      PROVE  /\ \A k \in 1 .. 3 : <<"pgd", "pmd", "pte">>[k] = l => e[l] = IF k <= d THEN raw[k] ELSE {}
             /\ (\A k \in 1 .. 3 : <<"pgd", "pmd", "pte">>[k] # l) => e[l] = {}
  <2>1. l \in LevelNames /\ DOMAIN raw = 1 .. Depth("pae")
    BY <1>1, LevelsAre DEF LevelNames
  <2>2. /\ \A k \in 1 .. Depth("pae") : Levels("pae")[k] = l => e[l] = IF k <= d THEN raw[k] ELSE Unused
        /\ (\A k \in 1 .. Depth("pae") : Levels("pae")[k] # l) => e[l] = Unused
    BY <1>1, <1>9, <2>1, EntriesCollected
  <2> QED  BY <2>2, LevelsAre DEF Unused
<1>4. e["pgd"] = raw[1] /\ e["pmd"] = (IF d = 1 THEN {} ELSE raw[2])
  BY <1>0, <1>1
<1>5. e["pud"] = {} /\ e["pte"] = (IF d < 3 THEN {} ELSE raw[3])
  BY <1>0, <1>1
<1> QED  BY <1>1, <1>2, <1>3, <1>4, <1>5

LEMMA Entries64 ==
  ASSUME NEW raw, RawOK("x86_64", raw), ~Giant("x86_64", raw), NEW d, Decides("x86_64", raw, d),
         NEW e, e = PageLookup("x86_64", raw)
  PROVE  /\ e["pgd"] = raw[1]
         /\ e["pud"] = IF d = 1 THEN {} ELSE raw[2]
         /\ e["pmd"] = IF d < 3 THEN {} ELSE raw[3]
         /\ e["pte"] = IF d < 4 THEN {} ELSE raw[4]
         /\ d \in {1, 2, 3, 4}
         /\ d = 1 <=> EndsAt("x86_64", raw, 1)
         /\ d = 2 => EndsAt("x86_64", raw, 2)
         /\ d > 2 => ~EndsAt("x86_64", raw, 2) /\ "PSE" \notin raw[2]
         /\ d = 3 => EndsAt("x86_64", raw, 3)
         /\ d = 4 => ~EndsAt("x86_64", raw, 3)
         /\ raw[1] = PADDR_ERROR \/ raw[1] \subseteq {"P", "RW", "US", "NX", "frame"}
         /\ \A k \in 2 .. 4 : raw[k] = PADDR_ERROR \/ raw[k] \subseteq {"P", "RW", "US", "PSE", "NX", "frame"}
<1>1. "x86_64" \in Modes /\ DOMAIN raw = 1 .. 4 /\ d \in {1, 2, 3, 4}
  BY LevelsAre DEF Modes, RawOK, Decides
<1>2. /\ d = 1 <=> EndsAt("x86_64", raw, 1)
      /\ d = 2 => EndsAt("x86_64", raw, 2)
      /\ d > 2 => ~EndsAt("x86_64", raw, 2) /\ "PSE" \notin raw[2]
      /\ d = 3 => EndsAt("x86_64", raw, 3)
      /\ d = 4 => ~EndsAt("x86_64", raw, 3)
  <2>1. d = 4 \/ EndsAt("x86_64", raw, d)
    BY <1>1, SameEnd, LevelsAre
  <2>2. \A j \in 1 .. d - 1 : ~HwEndsAt("x86_64", raw, j)
    BY DEF Decides
  <2>3. /\ HwEndsAt("x86_64", raw, 1) <=> EndsAt("x86_64", raw, 1)
        /\ HwEndsAt("x86_64", raw, 2) <=> EndsAt("x86_64", raw, 2) \/ "PSE" \in raw[2]
        /\ HwEndsAt("x86_64", raw, 3) <=> EndsAt("x86_64", raw, 3)
    BY DEF HwEndsAt
  <2> QED  BY <1>1, <2>1, <2>2, <2>3
<1>3. /\ raw[1] = PADDR_ERROR \/ raw[1] \subseteq {"P", "RW", "US", "NX", "frame"}
      /\ \A k \in 2 .. 4 : raw[k] = PADDR_ERROR \/ raw[k] \subseteq {"P", "RW", "US", "PSE", "NX", "frame"}
  BY LevelsAre DEF RawOK, Reserved, Flags
<1>0. ASSUME NEW l \in {"pgd", "pud", "pmd", "pte"}
      PROVE  /\ \A k \in 1 .. 4 : <<"pgd", "pud", "pmd", "pte">>[k] = l => e[l] = IF k <= d THEN raw[k] ELSE {}
             /\ (\A k \in 1 .. 4 : <<"pgd", "pud", "pmd", "pte">>[k] # l) => e[l] = {}
  <2>1. l \in LevelNames /\ DOMAIN raw = 1 .. Depth("x86_64")
    BY <1>1, LevelsAre DEF LevelNames
  <2>2. /\ \A k \in 1 .. Depth("x86_64") : Levels("x86_64")[k] = l => e[l] = IF k <= d THEN raw[k] ELSE Unused
        /\ (\A k \in 1 .. Depth("x86_64") : Levels("x86_64")[k] # l) => e[l] = Unused
    BY <1>1, <2>1, EntriesCollected
  <2> QED  BY <2>2, LevelsAre DEF Unused
<1>4. e["pgd"] = raw[1] /\ e["pud"] = (IF d = 1 THEN {} ELSE raw[2])
  BY <1>0, <1>1
<1>5. e["pmd"] = (IF d < 3 THEN {} ELSE raw[3]) /\ e["pte"] = (IF d < 4 THEN {} ELSE raw[4])
  BY <1>0, <1>1
<1> QED  BY <1>1, <1>2, <1>3, <1>4, <1>5
(* The first of the upper levels that decides. *)
LEMMA DecidedIs ==
  ASSUME NEW e, NEW missing, NEW levels, levels = Uppers(e), NEW k, k = Decided(e, missing)
  PROVE  \/ k = 0 /\ \A j \in DOMAIN levels : missing \in e[levels[j]] /\ ~Large(e, levels[j])
         \/ /\ k \in DOMAIN levels
            /\ missing \notin e[levels[k]] \/ Large(e, levels[k])
            /\ \A j \in DOMAIN levels : j < k => missing \in e[levels[j]] /\ ~Large(e, levels[j])
<1> DEFINE deciding == {j \in DOMAIN levels : missing \notin e[levels[j]] \/ Large(e, levels[j])}
<1>1. DOMAIN levels \subseteq Nat \ {0}
  <2>1. levels \in {<<"pgd">>, <<"pmd">>, <<"pgd", "pud", "pmd">>}
    BY DEF Uppers
  <2> QED  BY <2>1
<1>2. k = IF deciding = {} THEN 0 ELSE CHOOSE d \in deciding : \A j \in deciding : d <= j
  BY DEF Decided
<1>3. CASE deciding = {}
  BY <1>2, <1>3
<1>4. CASE deciding # {}
  <2>1. \E d \in deciding : \A j \in deciding : d <= j
    BY <1>1, <1>4, Least
  <2>2. k \in deciding /\ \A j \in deciding : k <= j
    BY <1>2, <1>4, <2>1
  <2>3. \A j \in DOMAIN levels : j < k => j \notin deciding
    BY <1>1, <2>2
  <2> QED  BY <2>2, <2>3
<1> QED  BY <1>3, <1>4

(* The levels above the page table whose bits protect a page. *)
Above(mode) == {k \in 1 .. Depth(mode) - 1 : mode = "pae" => k > 1}

(* What the entries of a walk tell, for a walk that ends at level d, ... *)
Telling(mode, raw, d, e) ==
  /\ NextPage(mode, e) = d
  /\ IsPresent(e) <=> Valid(raw[d])
  /\ Valid(raw[d]) => (IsLargePage(e) <=> d < Depth(mode))
  /\ IsSupervisor(e) <=> Valid(raw[d]) /\ (d < Depth(mode) \/ \E k \in Above(mode) : "US" \notin raw[k])
  /\ IsWriteable(e) <=> Valid(raw[d]) /\ \A k \in Above(mode) \cap 1 .. d : "RW" \in raw[k]

(* ... and what they tell of NX, where no large page at the pud ends the walk. *)
Executes(mode, raw, d) == Valid(raw[d]) /\ (mode = "x86" \/ \A k \in 1 .. d : "NX" \notin raw[k])
TellingNx(mode, raw, d, e) ==
  /\ IsExecutable(e) <=> Executes(mode, raw, d)
  /\ Valid(raw[d]) => /\ d >= Depth(mode) - 1
                      /\ "NX" \in GetFlags(mode, e) <=> mode # "x86" /\ \E k \in 1 .. d : "NX" \in raw[k]

LEMMA Telling32 ==
  ASSUME NEW raw, RawOK("x86", raw), NEW d, Decides("x86", raw, d),
         NEW e, e = PageLookup("x86", raw)
  PROVE  Telling("x86", raw, d, e) /\ TellingNx("x86", raw, d, e)
<1>1. /\ e["pgd"] = raw[1] /\ e["pud"] = {} /\ e["pmd"] = {}
      /\ e["pte"] = IF d = 1 THEN {} ELSE raw[2]
      /\ d \in {1, 2}
      /\ d = 1 <=> EndsAt("x86", raw, 1)
      /\ \A k \in 1 .. 2 : raw[k] = PADDR_ERROR \/ raw[k] \subseteq {"P", "RW", "US", "PSE", "frame"}
  BY Entries32
<1>2. EndsAt("x86", raw, 1) <=> ~Valid(raw[1]) \/ "PSE" \in raw[1]
  BY LevelsAre DEF EndsAt, Valid
<1>3. Looks32(e) /\ Uppers(e) = <<"pgd">> /\ ~Valid({}) /\ (Large(e, "pgd") <=> "PSE" \in raw[1])
  BY <1>1 DEF Looks32, Uppers, Unused, Valid, PADDR_ERROR, Flags, Large
<1>4. IsPresent(e) <=> Valid(raw[d])
  BY <1>1, <1>2, <1>3 DEF IsPresent
<1>5. NextPage("x86", e) = d
  BY <1>1, <1>2 DEF NextPage
<1>6. \A k \in 1 .. 2 : Valid(raw[k]) => "NX" \notin raw[k]
  BY <1>1 DEF Valid
<1>7. Valid(raw[d]) => (IsLargePage(e) <=> d < 2)
  BY <1>1, <1>2, <1>3 DEF IsLargePage, Valid
<1>8. Valid(raw[d]) => "NX" \notin GetFlags("x86", e)
  BY <1>1, <1>2, <1>6 DEF GetFlags, Update, Valid
<1>9. IsExecutable(e) <=> Valid(raw[d])
  BY <1>3, <1>4 DEF IsExecutable
<1>10. Above("x86") = {1}
  BY LevelsAre DEF Above
<1>11. d = 2 => raw[2] = e["pte"] /\ (Valid(raw[2]) => raw[2] # {})
  BY <1>1, <1>3
<1>12. d = 1 /\ Valid(raw[1]) => "PSE" \in raw[1]
  BY <1>1, <1>2
<1>13. IsSupervisor(e) <=> Valid(raw[d]) /\ (d < 2 \/ "US" \notin raw[1])
  <2>1. PICK k : k = Decided(e, "US")
    OBVIOUS
  <2>2. k # 0 <=> "US" \notin raw[1] \/ "PSE" \in raw[1]
    BY <1>1, <1>3, <2>1, DecidedIs
  <2> QED  BY <1>1, <1>2, <1>4, <1>11, <1>12, <2>1, <2>2 DEF IsSupervisor, Unused
<1>14. IsWriteable(e) <=> Valid(raw[d]) /\ "RW" \in raw[1]
  <2>1. PICK k : k = Decided(e, "RW")
    OBVIOUS
  <2>2. k \in {0, 1} /\ (k = 1 <=> "RW" \notin raw[1] \/ "PSE" \in raw[1])
    BY <1>1, <1>3, <2>1, DecidedIs
  <2>3. k = 1 => Uppers(e)[k] = "pgd"
    BY <1>3
  <2> QED  BY <1>1, <1>2, <1>4, <1>11, <1>12, <2>1, <2>2, <2>3 DEF IsWriteable, Unused
<1> QED  BY <1>1, <1>4, <1>5, <1>7, <1>8, <1>9, <1>10, <1>13, <1>14, LevelsAre DEF Telling, TellingNx, Executes
LEMMA TellingPae ==
  ASSUME NEW raw, RawOK("pae", raw), NEW d, Decides("pae", raw, d),
         NEW e, e = PageLookup("pae", raw)
  PROVE  Telling("pae", raw, d, e) /\ TellingNx("pae", raw, d, e)
<1>1. /\ e["pgd"] = raw[1] /\ e["pud"] = {}
      /\ e["pmd"] = IF d = 1 THEN {} ELSE raw[2]
      /\ e["pte"] = IF d < 3 THEN {} ELSE raw[3]
      /\ d \in {1, 2, 3}
      /\ d = 1 <=> EndsAt("pae", raw, 1)
      /\ d = 2 => EndsAt("pae", raw, 2)
      /\ d = 3 => ~EndsAt("pae", raw, 2)
      /\ raw[1] = PADDR_ERROR \/ raw[1] \subseteq {"P", "RW", "US", "frame"}
      /\ \A k \in 2 .. 3 : raw[k] = PADDR_ERROR \/ raw[k] \subseteq {"P", "RW", "US", "PSE", "NX", "frame"}
  BY EntriesPae
<1>2. /\ EndsAt("pae", raw, 1) <=> ~Valid(raw[1])
      /\ EndsAt("pae", raw, 2) <=> ~Valid(raw[2]) \/ "PSE" \in raw[2]
  BY LevelsAre DEF EndsAt, Valid
<1>3. /\ ~Valid({}) /\ (Valid(raw[1]) => "PSE" \notin raw[1] /\ "NX" \notin raw[1])
      /\ \A k \in 1 .. 3 : Valid(raw[k]) => raw[k] # {}
  BY <1>1 DEF Valid
<1>4. /\ d = 1 => ~Valid(raw[1]) /\ e["pmd"] = {} /\ e["pte"] = {}
      /\ d > 1 => Valid(raw[1]) /\ e["pmd"] = raw[2]
      /\ d = 2 => e["pte"] = {} /\ (Valid(raw[2]) => "PSE" \in raw[2])
      /\ d = 3 => e["pte"] = raw[3] /\ Valid(raw[2]) /\ "PSE" \notin raw[2]
  BY <1>1, <1>2
<1>5. Looks32(e) <=> e["pmd"] = {}
  BY <1>1 DEF Looks32, Unused
<1>6. IsPresent(e) <=> Valid(raw[d])
  <2>1. CASE d = 1
    BY <1>1, <1>4, <2>1 DEF IsPresent
  <2>2. CASE d = 2
    BY <1>1, <1>3, <1>4, <1>5, <2>2 DEF IsPresent, Unused
  <2>3. CASE d = 3
    BY <1>1, <1>3, <1>4, <1>5, <2>3 DEF IsPresent, Unused
  <2> QED  BY <1>1, <2>1, <2>2, <2>3
<1>7. NextPage("pae", e) = d
  BY <1>1, <1>3, <1>4 DEF NextPage
<1>8. Valid(raw[d]) => /\ d > 1 /\ ~Looks32(e) /\ LooksPae(e) /\ Uppers(e) = <<"pmd">> /\ Valid(raw[2])
                       /\ Large(e, "pmd") <=> d = 2
  BY <1>1, <1>3, <1>4, <1>5 DEF LooksPae, Uppers, Unused, Large
<1>9. Valid(raw[d]) => (IsLargePage(e) <=> d < 3)
  BY <1>1, <1>3, <1>4, <1>8 DEF IsLargePage, Valid
<1>10. \A k \in 1 .. d : Valid(raw[d]) => Valid(raw[k])
  BY <1>1, <1>4
<1>11. Valid(raw[d]) => ("NX" \in GetFlags("pae", e) <=> \E k \in 1 .. d : "NX" \in raw[k])
  <2>1. CASE d = 2
    <3>1. e["pte"] = {} /\ {} # PADDR_ERROR
      BY <1>4, <2>1 DEF PADDR_ERROR
    <3>2. Valid(raw[d]) => ("NX" \in GetFlags("pae", e) <=> "NX" \in raw[2])
      BY <1>4, <2>1, <3>1 DEF GetFlags, Update
    <3> QED  BY <1>3, <1>4, <2>1, <3>2
  <2>2. CASE d = 3
    <3>1. Valid(raw[d]) => ("NX" \in GetFlags("pae", e) <=> "NX" \in raw[2] \/ "NX" \in raw[3])
      BY <1>4, <2>2 DEF GetFlags, Update, Valid
    <3> QED  BY <1>3, <1>4, <2>2, <3>1
  <2> QED  BY <1>1, <1>4, <2>1, <2>2
<1>12. IsExecutable(e) <=> Valid(raw[d]) /\ \A k \in 1 .. d : "NX" \notin raw[k]
  <2>1. SUFFICES ASSUME Valid(raw[d])
                 PROVE  (\A l \in LevelNames : "NX" \notin e[l]) <=> \A k \in 1 .. d : "NX" \notin raw[k]
    BY <1>6, <1>8 DEF IsExecutable
  <2>2. (\A l \in LevelNames : "NX" \notin e[l]) <=>
          "NX" \notin e["pgd"] /\ "NX" \notin e["pud"] /\ "NX" \notin e["pmd"] /\ "NX" \notin e["pte"]
    BY DEF LevelNames
  <2>3. CASE d = 2
    BY <1>1, <1>4, <2>2, <2>3
  <2>4. CASE d = 3
    BY <1>1, <1>4, <2>2, <2>4
  <2> QED  BY <1>1, <1>8, <2>1, <2>3, <2>4
<1>13. Above("pae") = {2}
  BY LevelsAre DEF Above
<1>14. IsSupervisor(e) <=> Valid(raw[d]) /\ (d < 3 \/ "US" \notin raw[2])
  <2>1. PICK k : k = Decided(e, "US")
    OBVIOUS
  <2>2. Valid(raw[d]) => (k # 0 <=> "US" \notin raw[2] \/ d = 2)
    BY <1>4, <1>8, <2>1, DecidedIs
  <2> QED  BY <1>1, <1>3, <1>4, <1>6, <1>8, <2>1, <2>2 DEF IsSupervisor, Unused
<1>15. IsWriteable(e) <=> Valid(raw[d]) /\ "RW" \in raw[2]
  <2>1. PICK k : k = Decided(e, "RW")
    OBVIOUS
  <2>2. Valid(raw[d]) => k \in {0, 1} /\ (k = 1 <=> "RW" \notin raw[2] \/ d = 2)
    BY <1>4, <1>8, <2>1, DecidedIs
  <2>3. Valid(raw[d]) /\ k = 1 => Uppers(e)[k] = "pmd"
    BY <1>8
  <2> QED  BY <1>1, <1>3, <1>4, <1>6, <1>8, <2>1, <2>2, <2>3 DEF IsWriteable, Unused
<1> QED  BY <1>1, <1>6, <1>7, <1>8, <1>9, <1>11, <1>12, <1>13, <1>14, <1>15, LevelsAre DEF Telling, TellingNx, Executes

LEMMA Telling64 ==
  ASSUME NEW raw, RawOK("x86_64", raw), ~Giant("x86_64", raw), NEW d, Decides("x86_64", raw, d),
         NEW e, e = PageLookup("x86_64", raw)
  PROVE  Telling("x86_64", raw, d, e) /\ TellingNx("x86_64", raw, d, e)
<1>1. /\ e["pgd"] = raw[1]
      /\ e["pud"] = IF d = 1 THEN {} ELSE raw[2]
      /\ e["pmd"] = IF d < 3 THEN {} ELSE raw[3]
      /\ e["pte"] = IF d < 4 THEN {} ELSE raw[4]
      /\ d \in {1, 2, 3, 4}
      /\ d = 1 <=> EndsAt("x86_64", raw, 1)
      /\ d = 2 => EndsAt("x86_64", raw, 2)
      /\ d > 2 => ~EndsAt("x86_64", raw, 2) /\ "PSE" \notin raw[2]
      /\ d = 3 => EndsAt("x86_64", raw, 3)
      /\ d = 4 => ~EndsAt("x86_64", raw, 3)
      /\ raw[1] = PADDR_ERROR \/ raw[1] \subseteq {"P", "RW", "US", "NX", "frame"}
      /\ \A k \in 2 .. 4 : raw[k] = PADDR_ERROR \/ raw[k] \subseteq {"P", "RW", "US", "PSE", "NX", "frame"}
  BY Entries64
<1>2. /\ EndsAt("x86_64", raw, 1) <=> ~Valid(raw[1])
      /\ EndsAt("x86_64", raw, 2) <=> ~Valid(raw[2])
      /\ EndsAt("x86_64", raw, 3) <=> ~Valid(raw[3]) \/ "PSE" \in raw[3]
  BY LevelsAre DEF EndsAt, Valid
<1>3. /\ ~Valid({}) /\ (Valid(raw[1]) => "PSE" \notin raw[1]) /\ (d > 2 => "PSE" \notin raw[2])
      /\ \A k \in 1 .. 4 : Valid(raw[k]) => raw[k] # {}
  BY <1>1 DEF Valid
<1>4. /\ d = 1 => ~Valid(raw[1]) /\ e["pud"] = {} /\ e["pmd"] = {} /\ e["pte"] = {}
      /\ d > 1 => Valid(raw[1]) /\ e["pud"] = raw[2]
      /\ d = 2 => ~Valid(raw[2]) /\ e["pmd"] = {} /\ e["pte"] = {}
      /\ d > 2 => Valid(raw[2]) /\ e["pmd"] = raw[3]
      /\ d = 3 => e["pte"] = {} /\ (Valid(raw[3]) => "PSE" \in raw[3])
      /\ d = 4 => e["pte"] = raw[4] /\ Valid(raw[3]) /\ "PSE" \notin raw[3]
  BY <1>1, <1>2
<1>5. Looks32(e) <=> e["pud"] = {} /\ e["pmd"] = {}
  BY DEF Looks32, Unused
<1>6. IsPresent(e) <=> Valid(raw[d])
  <2>1. CASE d = 1
    BY <1>1, <1>4, <2>1 DEF IsPresent
  <2>2. CASE d = 2
    BY <1>1, <1>3, <1>4, <1>5, <2>2 DEF IsPresent, Unused
  <2>3. CASE d = 3
    BY <1>1, <1>3, <1>4, <1>5, <2>3 DEF IsPresent, Unused
  <2>4. CASE d = 4
    BY <1>1, <1>3, <1>4, <1>5, <2>4 DEF IsPresent, Unused
  <2> QED  BY <1>1, <2>1, <2>2, <2>3, <2>4
<1>7. NextPage("x86_64", e) = d
  BY <1>1, <1>3, <1>4 DEF NextPage
<1>8. Valid(raw[d]) => /\ d > 2 /\ ~Looks32(e) /\ ~LooksPae(e) /\ Uppers(e) = <<"pgd", "pud", "pmd">>
                       /\ Valid(raw[1]) /\ Valid(raw[2]) /\ Valid(raw[3])
                       /\ ~Large(e, "pgd") /\ ~Large(e, "pud")
                       /\ Large(e, "pmd") <=> d = 3
  BY <1>1, <1>3, <1>4, <1>5 DEF LooksPae, Uppers, Unused, Large
<1>9. Valid(raw[d]) => (IsLargePage(e) <=> d < 4)
  BY <1>1, <1>3, <1>4, <1>8 DEF IsLargePage, Valid
<1>10. Valid(raw[d]) => ("NX" \in GetFlags("x86_64", e) <=> \E k \in 1 .. d : "NX" \in raw[k])
  <2>1. CASE d = 3
    <3>1. e["pte"] = {} /\ {} # PADDR_ERROR
      BY <1>4, <2>1 DEF PADDR_ERROR
    <3>2. Valid(raw[d]) => ("NX" \in GetFlags("x86_64", e) <=>
                              "NX" \in raw[1] \/ "NX" \in raw[2] \/ "NX" \in raw[3])
      BY <1>1, <1>4, <2>1, <3>1 DEF GetFlags, Update
    <3> QED  BY <2>1, <3>2
  <2>2. CASE d = 4
    <3>1. Valid(raw[d]) => ("NX" \in GetFlags("x86_64", e) <=>
                              "NX" \in raw[1] \/ "NX" \in raw[2] \/ "NX" \in raw[3] \/ "NX" \in raw[4])
      BY <1>1, <1>4, <2>2 DEF GetFlags, Update, Valid
    <3> QED  BY <2>2, <3>1
  <2> QED  BY <1>1, <1>8, <2>1, <2>2
<1>11. IsExecutable(e) <=> Valid(raw[d]) /\ \A k \in 1 .. d : "NX" \notin raw[k]
  <2>1. SUFFICES ASSUME Valid(raw[d])
                 PROVE  (\A l \in LevelNames : "NX" \notin e[l]) <=> \A k \in 1 .. d : "NX" \notin raw[k]
    BY <1>6, <1>8 DEF IsExecutable
  <2>2. (\A l \in LevelNames : "NX" \notin e[l]) <=>
          "NX" \notin e["pgd"] /\ "NX" \notin e["pud"] /\ "NX" \notin e["pmd"] /\ "NX" \notin e["pte"]
    BY DEF LevelNames
  <2>3. CASE d = 3
    BY <1>1, <1>4, <2>2, <2>3
  <2>4. CASE d = 4
    BY <1>1, <1>4, <2>2, <2>4
  <2> QED  BY <1>1, <1>8, <2>1, <2>3, <2>4
<1>12. Above("x86_64") = {1, 2, 3}
  BY LevelsAre DEF Above
<1>13. Valid(raw[d]) => \A j \in 1 .. 3 : e[Uppers(e)[j]] = raw[j] /\ (Large(e, Uppers(e)[j]) <=> j = 3 /\ d = 3)
  BY <1>1, <1>4, <1>8
<1>14. Valid(raw[d]) => DOMAIN Uppers(e) = 1 .. 3
  BY <1>8
<1>15. IsSupervisor(e) <=> Valid(raw[d]) /\ (d < 4 \/ \E j \in 1 .. 3 : "US" \notin raw[j])
  <2>1. PICK k : k = Decided(e, "US")
    OBVIOUS
  <2>2. Valid(raw[d]) => (k # 0 <=> d = 3 \/ \E j \in 1 .. 3 : "US" \notin raw[j])
    BY <1>13, <1>14, <2>1, DecidedIs
  <2>3. Valid(raw[d]) => (IsSupervisor(e) <=> k # 0 \/ e["pte"] = {})
    BY <1>6, <2>1 DEF IsSupervisor, Unused
  <2>4. ~Valid(raw[d]) => ~IsSupervisor(e)
    BY <1>6 DEF IsSupervisor
  <2>5. Valid(raw[d]) => (e["pte"] = {} <=> d = 3)
    BY <1>1, <1>3, <1>4, <1>8
  <2> QED  BY <1>1, <1>8, <2>2, <2>3, <2>4, <2>5
<1>16. IsWriteable(e) <=> Valid(raw[d]) /\ \A j \in 1 .. 3 : "RW" \in raw[j]
  <2>1. PICK k : k = Decided(e, "RW")
    OBVIOUS
  <2>2. ~Valid(raw[d]) => ~IsWriteable(e)
    BY <1>6 DEF IsWriteable
  <2>3. ASSUME Valid(raw[d]), k = 0 PROVE IsWriteable(e) /\ \A j \in 1 .. 3 : "RW" \in raw[j]
    <3>1. \A j \in 1 .. 3 : "RW" \in raw[j] /\ ~Large(e, Uppers(e)[j])
      BY <1>13, <1>14, <2>1, <2>3, DecidedIs
    <3>2. d = 4 /\ e["pte"] # {}
      BY <1>1, <1>3, <1>4, <1>8, <1>13, <2>3, <3>1
    <3> QED  BY <1>6, <2>1, <2>3, <3>1, <3>2 DEF IsWriteable, Unused
  <2>4. ASSUME Valid(raw[d]), k # 0 PROVE IsWriteable(e) <=> \A j \in 1 .. 3 : "RW" \in raw[j]
    <3>1. /\ k \in 1 .. 3
          /\ "RW" \notin raw[k] \/ Large(e, Uppers(e)[k])
          /\ \A j \in 1 .. 3 : j < k => "RW" \in raw[j]
      BY <1>13, <1>14, <2>1, <2>4, DecidedIs
    <3>2. IsWriteable(e) <=> "RW" \in raw[k]
      BY <1>6, <1>13, <2>1, <2>4, <3>1 DEF IsWriteable
    <3> QED  BY <1>13, <2>4, <3>1, <3>2
  <2> QED  BY <2>2, <2>3, <2>4
<1> QED  BY <1>1, <1>6, <1>7, <1>8, <1>9, <1>10, <1>11, <1>12, <1>15, <1>16, LevelsAre DEF Telling, TellingNx, Executes
(* A large page at the pud: the walk goes on, but what its entries tell of the
   page is right, all but NX. *)
LEMMA EntriesGiant ==
  ASSUME NEW raw, RawOK("x86_64", raw), Giant("x86_64", raw), NEW e, e = PageLookup("x86_64", raw)
  PROVE  /\ Valid(raw[1]) /\ "PSE" \notin raw[1] /\ Valid(raw[2]) /\ "PSE" \in raw[2]
         /\ \A k \in 1 .. 3 : IsReached("x86_64", raw, k)
         /\ e["pgd"] = raw[1] /\ e["pud"] = raw[2] /\ e["pmd"] = raw[3]
         /\ e["pte"] = IF IsReached("x86_64", raw, 4) THEN raw[4] ELSE {}
<1>1. DOMAIN raw = 1 .. Depth("x86_64") /\ "x86_64" \in Modes /\ Depth("x86_64") = 4
  BY LevelsAre DEF RawOK, Modes
<1>2. ~EndsAt("x86_64", raw, 1) /\ ~EndsAt("x86_64", raw, 2) /\ "PSE" \in raw[2]
  BY DEF Giant
<1>3. Valid(raw[1]) /\ Valid(raw[2])
  BY <1>2 DEF EndsAt, Valid
<1>4. "PSE" \notin raw[1]
  BY <1>1, <1>3 DEF RawOK, Reserved, Valid
<1>5. \A k \in 1 .. 3 : IsReached("x86_64", raw, k)
  <2>1. \A j \in 1 .. 2 : ~EndsAt("x86_64", raw, j)
    BY DEF Giant
  <2> QED  BY <2>1 DEF IsReached
<1>6. ASSUME NEW l \in {"pgd", "pud", "pmd", "pte"}
      PROVE  \A k \in 1 .. 4 : <<"pgd", "pud", "pmd", "pte">>[k] = l =>
               e[l] = IF IsReached("x86_64", raw, k) THEN raw[k] ELSE {}
  <2>1. l \in LevelNames
    BY DEF LevelNames
  <2>2. \A k \in 1 .. Depth("x86_64") :
          Levels("x86_64")[k] = l =>
            PageLookup("x86_64", raw)[l] = IF IsReached("x86_64", raw, k) THEN raw[k] ELSE Unused
    BY <1>1, <2>1, EntryCollected
  <2> QED  BY <2>2, LevelsAre DEF Unused
<1>7. e["pgd"] = raw[1] /\ e["pud"] = raw[2]
  BY <1>5, <1>6
<1>8. e["pmd"] = raw[3] /\ e["pte"] = IF IsReached("x86_64", raw, 4) THEN raw[4] ELSE {}
  BY <1>5, <1>6
<1> QED  BY <1>2, <1>3, <1>4, <1>5, <1>7, <1>8

LEMMA TellingGiant ==
  ASSUME NEW raw, RawOK("x86_64", raw), Giant("x86_64", raw), NEW e, e = PageLookup("x86_64", raw)
  PROVE  Telling("x86_64", raw, 2, e)
<1>1. /\ Valid(raw[1]) /\ "PSE" \notin raw[1] /\ Valid(raw[2]) /\ "PSE" \in raw[2]
      /\ e["pgd"] = raw[1] /\ e["pud"] = raw[2]
  BY EntriesGiant
<1>2. raw[2] # {} /\ raw[2] # PADDR_ERROR
  BY <1>1 DEF Valid
<1>3. ~Looks32(e) /\ ~LooksPae(e) /\ Uppers(e) = <<"pgd", "pud", "pmd">>
  BY <1>1, <1>2 DEF Looks32, LooksPae, Uppers, Unused
<1>4. ~Large(e, "pgd") /\ Large(e, "pud")
  BY <1>1 DEF Large
<1>5. IsPresent(e) /\ IsLargePage(e) /\ NextPage("x86_64", e) = 2
  BY <1>1, <1>2, <1>3 DEF IsPresent, IsLargePage, NextPage, Unused
<1>6. ASSUME NEW b, NEW k, k = Decided(e, b)
      PROVE  k \in {1, 2} /\ (k = 1 <=> b \notin raw[1])
  <2>1. Uppers(e)[1] = "pgd" /\ Uppers(e)[2] = "pud" /\ DOMAIN Uppers(e) = 1 .. 3
    BY <1>3
  <2>2. \/ k = 0 /\ \A j \in 1 .. 3 : b \in e[Uppers(e)[j]] /\ ~Large(e, Uppers(e)[j])
        \/ /\ k \in 1 .. 3
           /\ b \notin e[Uppers(e)[k]] \/ Large(e, Uppers(e)[k])
           /\ \A j \in 1 .. 3 : j < k => b \in e[Uppers(e)[j]] /\ ~Large(e, Uppers(e)[j])
    BY <1>6, <2>1, DecidedIs
  <2>3. k # 0 /\ ~(k = 3)
    BY <1>4, <2>1, <2>2
  <2> QED  BY <1>1, <1>4, <2>1, <2>2, <2>3
<1>7. IsSupervisor(e)
  <2>1. PICK k : k = Decided(e, "US")
    OBVIOUS
  <2> QED  BY <1>5, <1>6, <2>1 DEF IsSupervisor
<1>8. Above("x86_64") \cap 1 .. 2 = {1, 2}
  BY LevelsAre DEF Above
<1>9. IsWriteable(e) <=> "RW" \in raw[1] /\ "RW" \in raw[2]
  <2>1. PICK k : k = Decided(e, "RW")
    OBVIOUS
  <2>2. k \in {1, 2} /\ (k = 1 <=> "RW" \notin raw[1])
    BY <1>6, <2>1
  <2>3. IsWriteable(e) <=> "RW" \in e[Uppers(e)[k]]
    BY <1>5, <2>1, <2>2 DEF IsWriteable
  <2>4. e[Uppers(e)[k]] = raw[k]
    BY <1>1, <1>3, <2>2
  <2> QED  BY <2>2, <2>3, <2>4
<1> QED  BY <1>1, <1>5, <1>7, <1>8, <1>9, LevelsAre DEF Telling

(* What NX is then taken from. *)
LEMMA GiantNx ==
  ASSUME NEW raw, RawOK("x86_64", raw), Giant("x86_64", raw), NEW e, e = PageLookup("x86_64", raw)
  PROVE  /\ IsExecutable(e) <=> Executes("x86_64", raw, 2) /\ ~NxPast("x86_64", raw)
         /\ VmIsExecutable("x86_64", raw) <=>
              Executes("x86_64", raw, 2) /\ ~NxPast("x86_64", raw) /\ Translates("x86_64", raw)
<1>1. /\ Valid(raw[1]) /\ Valid(raw[2]) /\ "PSE" \in raw[2]
      /\ \A k \in 1 .. 3 : IsReached("x86_64", raw, k)
      /\ e["pgd"] = raw[1] /\ e["pud"] = raw[2] /\ e["pmd"] = raw[3]
      /\ e["pte"] = IF IsReached("x86_64", raw, 4) THEN raw[4] ELSE {}
  BY EntriesGiant
<1>2. Executes("x86_64", raw, 2) <=> "NX" \notin raw[1] /\ "NX" \notin raw[2]
  BY <1>1 DEF Executes
<1>3. NxPast("x86_64", raw) <=> "NX" \in raw[3] \/ "NX" \in e["pte"]
  <2>1. \A k \in 3 .. 4 : k = 3 \/ k = 4
    OBVIOUS
  <2> QED  BY <1>1, <2>1 DEF NxPast
<1>4. IsExecutable(e) <=> Executes("x86_64", raw, 2) /\ ~NxPast("x86_64", raw)
  <2>1. IsPresent(e) /\ ~Looks32(e)
    <3>1. raw[2] # {}
      BY <1>1
    <3> QED  BY <1>1, <3>1, TellingGiant DEF Telling, Looks32, Unused
  <2>2. IsExecutable(e) <=>
          "NX" \notin e["pgd"] /\ "NX" \notin e["pud"] /\ "NX" \notin e["pmd"] /\ "NX" \notin e["pte"]
    BY <2>1 DEF IsExecutable, LevelNames
  <2> QED  BY <1>1, <1>2, <1>3, <2>2
<1>5. e["pte"] = PADDR_ERROR => ~Translates("x86_64", raw)
  <2>1. SUFFICES ASSUME e["pte"] = PADDR_ERROR, NEW k \in 1 .. 4, IsReached("x86_64", raw, k),
                        raw[k] # PADDR_ERROR, k = 4 \/ EndsAt("x86_64", raw, k)
                 PROVE  FALSE
    BY LevelsAre DEF Translates, RawOK
  <2>2. IsReached("x86_64", raw, 4) /\ raw[4] = PADDR_ERROR
    BY <1>1, <2>1 DEF PADDR_ERROR, Flags
  <2>3. k \in 1 .. 3
    BY <2>1, <2>2
  <2> QED  BY <2>1, <2>2, <2>3 DEF IsReached
<1>6. "NX" \in GetFlags("x86_64", e) <=>
        \/ "NX" \in raw[1] \/ "NX" \in raw[2] \/ "NX" \in raw[3]
        \/ "NX" \in e["pte"] /\ e["pte"] # PADDR_ERROR
  BY <1>1 DEF GetFlags, Update
<1>7. VmIsExecutable("x86_64", raw) <=> Translates("x86_64", raw) /\ "NX" \notin GetFlags("x86_64", e)
  BY DEF VmIsExecutable
<1> QED  BY <1>2, <1>3, <1>4, <1>5, <1>6, <1>7

LEMMA Tells ==
  ASSUME NEW mode \in Modes, NEW raw, RawOK(mode, raw), NEW d, Decides(mode, raw, d)
  PROVE  /\ Telling(mode, raw, d, PageLookup(mode, raw))
         /\ ~Giant(mode, raw) => TellingNx(mode, raw, d, PageLookup(mode, raw))
         /\ Giant(mode, raw) => mode = "x86_64" /\ d = 2
<1>1. mode = "x86" \/ mode = "pae" \/ mode = "x86_64"
  BY DEF Modes
<1>2. Giant(mode, raw) => mode = "x86_64" /\ d = 2
  <2>1. SUFFICES ASSUME Giant(mode, raw) PROVE mode = "x86_64" /\ d = 2
    OBVIOUS
  <2>2. mode = "x86_64" /\ ~EndsAt(mode, raw, 1) /\ "PSE" \in raw[2]
    BY <2>1 DEF Giant
  <2>3. ~HwEndsAt(mode, raw, 1) /\ HwEndsAt(mode, raw, 2) /\ 2 # Depth(mode)
    BY <2>2, LevelsAre DEF HwEndsAt
  <2>4. d \in 1 .. 4 /\ d # 1 /\ (d > 2 => 2 \in 1 .. d - 1)
    BY <2>2, <2>3, LevelsAre DEF Decides
  <2> QED  BY <2>2, <2>3, <2>4 DEF Decides
<1> QED  BY <1>1, <1>2, Telling32, TellingPae, Telling64, TellingGiant DEF Giant

LEMMA GuestRaw ==
  ASSUME NEW g \in Guests, NEW p \in Begin(g.mode) .. End(g.mode) - 1
  PROVE  RawOK(g.mode, Raw(g, p)) /\ g.mode \in Modes
<1>1. g.mode \in Modes
  BY GuestsAssumption
<1>2. DOMAIN Raw(g, p) = 1 .. Depth(g.mode)
  BY DEF Raw
<1>3. ASSUME NEW k \in 1 .. Depth(g.mode)
      PROVE  \/ Raw(g, p)[k] = PADDR_ERROR
             \/ Raw(g, p)[k] \subseteq (Flags \cup {"frame"}) \ Reserved(g.mode, k)
  <2>1. EntryOf(g, p, k) \subseteq (Flags \cup {"frame", "out"}) \ Reserved(g.mode, k)
    BY GuestsAssumption
  <2>2. Raw(g, p)[k] = PADDR_ERROR \/ Raw(g, p)[k] = EntryOf(g, p, k) \ {"out"}
    BY DEF Raw
  <2> QED  BY <2>1, <2>2
<1> QED  BY <1>1, <1>2, <1>3 DEF RawOK

-----------------------------------------------------------------------------
(* The pages below an entry. *)

LEMMA SpansAre ==
  \E E, F, G \in Nat \ {0} :
    /\ F = E * E /\ G = E * F
    /\ Span("x86", 1) = E /\ Span("x86", 2) = 1
    /\ Span("pae", 1) = F /\ Span("pae", 2) = E /\ Span("pae", 3) = 1
    /\ Span("x86_64", 1) = G /\ Span("x86_64", 2) = F /\ Span("x86_64", 3) = E /\ Span("x86_64", 4) = 1
<1>1. PICK E \in Nat \ {0} : E = Entries
  BY SpaceAssumption
<1>2. PICK F \in Nat \ {0} : F = E * E
  OBVIOUS
<1>3. PICK G \in Nat \ {0} : G = E * F
  OBVIOUS
<1>4. Span("x86", 1) = E /\ Span("x86", 2) = 1
  BY <1>1 DEF Span
<1>5. Span("pae", 1) = F /\ Span("pae", 2) = E /\ Span("pae", 3) = 1
  BY <1>1, <1>2 DEF Span
<1>6. Span("x86_64", 1) = G /\ Span("x86_64", 2) = F /\ Span("x86_64", 3) = E /\ Span("x86_64", 4) = 1
  BY <1>1, <1>2, <1>3 DEF Span
<1> QED  BY <1>2, <1>3, <1>4, <1>5, <1>6

LEMMA SpanType ==
  ASSUME NEW mode \in Modes, NEW k \in 1 .. Depth(mode)
  PROVE  Span(mode, k) \in Nat \ {0} /\ Span(mode, Depth(mode)) = 1
BY SpansAre, LevelsAre DEF Modes

(* An entry covers whole entries of every level below. *)
LEMMA SpanMultiple ==
  ASSUME NEW mode \in Modes, NEW k \in 1 .. Depth(mode), NEW j \in 1 .. k
  PROVE  \E m \in Nat \ {0} : Span(mode, j) = m * Span(mode, k)
<1>1. PICK E, F, G \in Nat \ {0} :
        /\ F = E * E /\ G = E * F
        /\ Span("x86", 1) = E /\ Span("x86", 2) = 1
        /\ Span("pae", 1) = F /\ Span("pae", 2) = E /\ Span("pae", 3) = 1
        /\ Span("x86_64", 1) = G /\ Span("x86_64", 2) = F /\ Span("x86_64", 3) = E /\ Span("x86_64", 4) = 1
  BY SpansAre
<1>2. /\ 1 * E = E /\ 1 * F = F /\ 1 * G = G /\ E * 1 = E /\ F * 1 = F /\ G * 1 = G
      /\ F * E = G
  BY <1>1
<1>3. CASE mode = "x86"
  <2>1. k \in 1 .. 2 /\ j \in 1 .. k
    BY <1>3, LevelsAre
  <2> QED  BY <1>1, <1>2, <1>3, <2>1
<1>4. CASE mode = "pae"
  <2>1. k \in 1 .. 3 /\ j \in 1 .. k
    BY <1>4, LevelsAre
  <2>2. CASE k = 1
    BY <1>1, <1>2, <1>4, <2>1, <2>2
  <2>3. CASE k = 2
    BY <1>1, <1>2, <1>4, <2>1, <2>3
  <2>4. CASE k = 3
    BY <1>1, <1>2, <1>4, <2>1, <2>4
  <2> QED  BY <2>1, <2>2, <2>3, <2>4
<1>5. CASE mode = "x86_64"
  <2>1. k \in 1 .. 4 /\ j \in 1 .. k
    BY <1>5, LevelsAre
  <2>2. CASE k = 1
    BY <1>1, <1>2, <1>5, <2>1, <2>2
  <2>3. CASE k = 2
    BY <1>1, <1>2, <1>5, <2>1, <2>3
  <2>4. CASE k = 3
    BY <1>1, <1>2, <1>5, <2>1, <2>4
  <2>5. CASE k = 4
    BY <1>1, <1>2, <1>5, <2>1, <2>5
  <2> QED  BY <2>1, <2>2, <2>3, <2>4, <2>5
<1> QED  BY <1>3, <1>4, <1>5 DEF Modes

LEMMA SamePages ==
  ASSUME NEW mode \in Modes, NEW k \in 1 .. Depth(mode), NEW j \in 1 .. k,
         NEW p \in Nat, NEW q \in Nat, p \div Span(mode, k) = q \div Span(mode, k)
  PROVE  p \div Span(mode, j) = q \div Span(mode, j)
<1>1. PICK s \in Nat \ {0} : s = Span(mode, k)
  BY SpanType
<1>2. PICK m \in Nat \ {0} : Span(mode, j) = m * s
  BY <1>1, SpanMultiple
<1>3. p \div (m * s) = (p \div s) \div m /\ q \div (m * s) = (q \div s) \div m
  BY Nested
<1> QED  BY <1>1, <1>2, <1>3

(* The pages of one entry have one path down to it. *)
SameEntry(g, p, q, d) ==
  d \in 1 .. Depth(g.mode) /\ p \div Span(g.mode, d) = q \div Span(g.mode, d)
OnePath(g, p, q, d) ==
  \A k \in 1 .. d : EntryOf(g, p, k) = EntryOf(g, q, k) /\ Raw(g, p)[k] = Raw(g, q)[k]

LEMMA SamePath ==
  ASSUME NEW g, g.mode \in Modes, NEW d, NEW p \in Nat, NEW q \in Nat, SameEntry(g, p, q, d)
  PROVE  OnePath(g, p, q, d)
<1>1. PICK mode \in Modes : mode = g.mode
  OBVIOUS
<1>2. Depth(mode) \in Nat /\ d \in 1 .. Depth(mode)
  BY <1>1, DepthType DEF SameEntry
<1>3. \A k \in 1 .. d : p \div Span(mode, k) = q \div Span(mode, k)
  BY <1>1, <1>2, SamePages DEF SameEntry
<1>4. \A k \in 1 .. d : EntryOf(g, p, k) = EntryOf(g, q, k)
  BY <1>1, <1>3 DEF EntryOf
<1>5. \A k \in 1 .. d : Raw(g, p)[k] = Raw(g, q)[k]
  <2> TAKE k \in 1 .. d
  <2>1. k \in 1 .. Depth(g.mode) /\ (k > 1 => k - 1 \in 1 .. d)
    BY <1>1, <1>2
  <2>2. EntryOf(g, p, k) = EntryOf(g, q, k) /\ (k > 1 => EntryOf(g, p, k - 1) = EntryOf(g, q, k - 1))
    BY <1>4, <2>1
  <2>3. /\ Raw(g, p)[k] = IF k > 1 /\ "out" \in EntryOf(g, p, k - 1) THEN PADDR_ERROR ELSE EntryOf(g, p, k) \ {"out"}
        /\ Raw(g, q)[k] = IF k > 1 /\ "out" \in EntryOf(g, q, k - 1) THEN PADDR_ERROR ELSE EntryOf(g, q, k) \ {"out"}
    BY <2>1 DEF Raw
  <2> QED  BY <2>2, <2>3
<1> QED  BY <1>4, <1>5 DEF OnePath

LEMMA SameDecides ==
  ASSUME NEW g, g.mode \in Modes, NEW p \in Nat, NEW q \in Nat, NEW d, NEW n,
         Decides(g.mode, Raw(g, p), d), n \in d .. Depth(g.mode),
         p \div Span(g.mode, n) = q \div Span(g.mode, n)
  PROVE  Decides(g.mode, Raw(g, q), d)
<1>1. Depth(g.mode) \in Nat /\ d \in 1 .. Depth(g.mode) /\ n \in 1 .. Depth(g.mode) /\ d \in 1 .. n
  BY DepthType DEF Decides
<1>2. \A k \in 1 .. d : Raw(g, p)[k] = Raw(g, q)[k]
  <2>1. SameEntry(g, p, q, n) /\ \A k \in 1 .. d : k \in 1 .. n
    BY <1>1 DEF SameEntry
  <2>2. OnePath(g, p, q, n)
    BY <2>1, SamePath
  <2> QED  BY <2>1, <2>2 DEF OnePath
<1>3. \A k \in 1 .. d : HwEndsAt(g.mode, Raw(g, p), k) <=> HwEndsAt(g.mode, Raw(g, q), k)
  BY <1>2 DEF EndsAt, HwEndsAt
<1>4. \A k \in 1 .. d - 1 : k \in 1 .. d
  BY <1>1
<1> QED  BY <1>1, <1>3, <1>4 DEF Decides
(* ... and they lie in a large page at the pud all or none. *)
LEMMA SameGiant ==
  ASSUME NEW g, g.mode \in Modes, NEW p \in Nat, NEW q \in Nat,
         Giant(g.mode, Raw(g, p)), p \div Span(g.mode, 2) = q \div Span(g.mode, 2)
  PROVE  Giant(g.mode, Raw(g, q)) /\ EntryOf(g, p, 2) = EntryOf(g, q, 2)
<1>1. g.mode = "x86_64" /\ 2 \in 1 .. Depth(g.mode)
  BY LevelsAre DEF Giant
<1>2. \A k \in 1 .. 2 : EntryOf(g, p, k) = EntryOf(g, q, k) /\ Raw(g, p)[k] = Raw(g, q)[k]
  <2>1. SameEntry(g, p, q, 2)
    BY <1>1 DEF SameEntry
  <2>2. OnePath(g, p, q, 2)
    BY <2>1, SamePath
  <2> QED  BY <2>2 DEF OnePath
<1>3. 2 \in 1 .. 2
  OBVIOUS
<1> QED  BY <1>2, <1>3 DEF Giant, EndsAt

LEMMA DecidesOnce ==
  ASSUME NEW mode \in Modes, NEW raw, NEW d, NEW n, Decides(mode, raw, d), Decides(mode, raw, n)
  PROVE  d = n
<1>1. d \in 1 .. Depth(mode) /\ n \in 1 .. Depth(mode) /\ Depth(mode) \in Nat
  BY DepthType DEF Decides
<1>2. ~(d < n)
  <2>1. SUFFICES ASSUME d < n PROVE FALSE
    OBVIOUS
  <2>2. d \in 1 .. n - 1 /\ d # Depth(mode)
    BY <1>1, <2>1
  <2> QED  BY <2>2 DEF Decides
<1>3. ~(n < d)
  <2>1. SUFFICES ASSUME n < d PROVE FALSE
    OBVIOUS
  <2>2. n \in 1 .. d - 1 /\ n # Depth(mode)
    BY <1>1, <2>1
  <2> QED  BY <2>2 DEF Decides
<1> QED  BY <1>1, <1>2, <1>3

(* The numbers with one quotient, and where the quotient of a larger span changes. *)
LEMMA BlockOf ==
  ASSUME NEW s \in Nat \ {0}, NEW q \in Nat, NEW n \in Nat
  PROVE  n \div s = q <=> s * q <= n /\ n < s * q + s
<1>1. PICK b \in Nat : b = s * q
  OBVIOUS
<1>2. CASE s * q <= n /\ n < s * q + s
  <2>1. PICK r \in 0 .. s - 1 : n = b + r
    <3>1. n - b \in 0 .. s - 1 /\ n = b + (n - b)
      BY <1>1, <1>2
    <3> QED  BY <3>1
  <2> QED  BY <1>1, <1>2, <2>1, Quotient
<1>3. CASE n \div s = q
  <2>1. n = s * (n \div s) + (n % s) /\ n % s \in 0 .. s - 1
    OBVIOUS
  <2> QED  BY <1>3, <2>1
<1> QED  BY <1>2, <1>3

LEMMA NextBlock ==
  ASSUME NEW s \in Nat \ {0}, NEW m \in Nat \ {0}, NEW q \in Nat, NEW p \in Nat, p = s * q,
         NEW n \in Nat, n = p + s
  PROVE  n % (m * s) = 0 \/ n \div (m * s) = p \div (m * s)
<1>1. p \div s = q /\ n \div s = q + 1
  <2>1. n = s * (q + 1) + 0 /\ p = s * q + 0 /\ q + 1 \in Nat /\ 0 \in 0 .. s - 1
    OBVIOUS
  <2> QED  BY <2>1, Quotient
<1>2. p \div (m * s) = q \div m /\ n \div (m * s) = (q + 1) \div m
  <2>1. \A v \in Nat : v \div (m * s) = (v \div s) \div m
    BY ZenonT(30), Nested
  <2> QED  BY <1>1, <2>1
<1>3. PICK a \in Nat, b \in 0 .. m - 1 : q = m * a + b
  <2>1. q = m * (q \div m) + (q % m) /\ q % m \in 0 .. m - 1 /\ q \div m \in Nat
    OBVIOUS
  <2> QED  BY <2>1
<1>4. CASE b < m - 1
  <2>1. q + 1 = m * a + (b + 1) /\ b + 1 \in 0 .. m - 1
    BY <1>3, <1>4
  <2>2. (q + 1) \div m = a /\ q \div m = a
    BY <1>3, <2>1, Quotient
  <2> QED  BY <1>2, <2>2
<1>5. CASE ~(b < m - 1)
  <2>1. q + 1 = m * (a + 1)
    BY <1>3, <1>5
  <2>2. n = (m * s) * (a + 1) + 0
    <3>1. n = s * (q + 1)
      OBVIOUS
    <3>2. s * (m * (a + 1)) = (m * s) * (a + 1)
      OBVIOUS
    <3> QED  BY <2>1, <3>1, <3>2
  <2>3. m * s \in Nat \ {0} /\ a + 1 \in Nat /\ 0 \in 0 .. (m * s) - 1
    OBVIOUS
  <2> QED  BY <2>2, <2>3, Quotient
<1> QED  BY <1>4, <1>5

-----------------------------------------------------------------------------
(* A step of the scan. *)

Scanned(mode) == Begin(mode) .. End(mode) - 1

(* p is where the pages begin that share the entry which decides about it. *)
AtStart(g, p) ==
  \A d \in 1 .. Depth(g.mode) : Decides(g.mode, Raw(g, p), d) => p % Span(g.mode, d) = 0

LEMMA PagesType ==
  ASSUME NEW mode \in Modes
  PROVE  Begin(mode) \in Nat /\ End(mode) \in Nat /\ Begin(mode) < End(mode)
<1>1. 1 \in 1 .. Depth(mode)
  BY DepthType
<1>2. PICK s \in Nat \ {0} : s = Span(mode, 1)
  BY <1>1, SpanType
<1>3. PICK f, e \in Nat : f = FirstTop /\ e = EndTop /\ f < e
  BY SpaceAssumption
<1>4. f * s \in Nat /\ e * s \in Nat /\ f * s < e * s
  <2>1. (e - f) * s = e * s - f * s /\ e - f \in Nat \ {0}
    BY <1>3
  <2>2. (e - f) * s \in Nat \ {0}
    BY <2>1
  <2> QED  BY <2>1, <2>2
<1> QED  BY <1>2, <1>3, <1>4 DEF Begin, End

(* The scan ends and begins at the border of an entry of any level. *)
LEMMA Borders ==
  ASSUME NEW mode \in Modes, NEW k \in 1 .. Depth(mode)
  PROVE  \E a, b \in Nat : Begin(mode) = Span(mode, k) * a /\ End(mode) = Span(mode, k) * b
<1>1. PICK s \in Nat \ {0} : s = Span(mode, k)
  BY SpanType
<1>2. 1 \in 1 .. k
  BY DepthType
<1>3. PICK m \in Nat \ {0} : Span(mode, 1) = m * s
  BY <1>1, <1>2, SpanMultiple
<1>4. PICK f, e \in Nat : f = FirstTop /\ e = EndTop
  BY SpaceAssumption
<1>5. f * (m * s) = s * (f * m) /\ e * (m * s) = s * (e * m) /\ f * m \in Nat /\ e * m \in Nat
  OBVIOUS
<1> QED  BY <1>1, <1>3, <1>4, <1>5 DEF Begin, End

LEMMA StepsOver ==
  ASSUME NEW g \in Guests, NEW p \in Scanned(g.mode), NEW d, Decides(g.mode, Raw(g, p), d),
         AtStart(g, p), NEW n, n = p + Span(g.mode, d)
  PROVE  /\ n \in Nat /\ p < n /\ n <= End(g.mode)
         /\ n \in Scanned(g.mode) => AtStart(g, n)
         /\ \A q \in Scanned(g.mode) : q \div Span(g.mode, d) = p \div Span(g.mode, d) <=> q \in p .. n - 1
<1>1. PICK mode \in Modes : mode = g.mode
  BY GuestsAssumption
<1>2. Begin(mode) \in Nat /\ End(mode) \in Nat /\ p \in Nat /\ p < End(mode)
  BY <1>1, PagesType DEF Scanned
<1>3. d \in 1 .. Depth(mode) /\ Depth(mode) \in Nat
  BY <1>1, DepthType DEF Decides
<1>4. PICK s \in Nat \ {0} : s = Span(mode, d)
  BY <1>3, SpanType
<1>5. p % s = 0
  BY <1>1, <1>3, <1>4 DEF AtStart
<1>6. PICK q0 \in Nat : p = s * q0 /\ p \div s = q0
  <2>1. p = s * (p \div s) + (p % s) /\ p \div s \in Nat
    BY <1>2
  <2> QED  BY <1>5, <2>1
<1>7. n = p + s /\ n \in Nat /\ p < n
  BY <1>1, <1>2, <1>4
<1>8. n <= End(mode)
  <2>1. PICK b \in Nat : End(mode) = s * b
    BY <1>3, <1>4, Borders
  <2>2. q0 < b
    <3>1. SUFFICES ASSUME b <= q0 PROVE FALSE
      OBVIOUS
    <3>2. s * b <= s * q0
      BY <3>1
    <3> QED  BY <1>2, <1>6, <2>1, <3>2
  <2>3. s * (q0 + 1) <= s * b
    BY <2>2
  <2>4. s * (q0 + 1) = n
    BY <1>6, <1>7
  <2> QED  BY <2>1, <2>3, <2>4
<1>9. ASSUME NEW q \in Scanned(mode) PROVE q \div s = p \div s <=> q \in p .. n - 1
  <2>1. q \in Nat
    BY <1>2 DEF Scanned
  <2>2. q \div s = q0 <=> s * q0 <= q /\ q < s * q0 + s
    BY <2>1, BlockOf
  <2>3. q \div s = q0 <=> p <= q /\ q < n
    BY <1>6, <1>7, <2>2
  <2>4. p <= q /\ q < n <=> q \in p .. n - 1
    BY <1>2, <1>7, <2>1
  <2> QED  BY <1>6, <2>3, <2>4
<1>10. ASSUME n \in Scanned(mode), NEW e \in 1 .. Depth(mode), Decides(mode, Raw(g, n), e)
       PROVE  n % Span(mode, e) = 0
  <2>1. CASE e < d
    <3>1. e \in 1 .. d
      BY <1>3, <2>1
    <3>2. PICK m \in Nat \ {0} : Span(mode, e) = m * s
      BY <1>3, <1>4, <3>1, SpanMultiple
    <3>3. n % (m * s) = 0 \/ n \div (m * s) = p \div (m * s)
      BY ZenonT(30), <1>2, <1>6, <1>7, NextBlock
    <3>4. n \div Span(mode, e) # p \div Span(mode, e)
      <4>1. SUFFICES ASSUME n \div Span(mode, e) = p \div Span(mode, e) PROVE FALSE
        OBVIOUS
      <4>2. e \in e .. Depth(mode)
        BY <1>3
      <4>3. Decides(mode, Raw(g, p), e)
        BY <1>1, <1>2, <1>7, <1>10, <4>1, <4>2, SameDecides
      <4>4. e = d
        BY <1>1, <4>3, DecidesOnce
      <4> QED  BY <1>3, <2>1, <4>4
    <3> QED  BY <3>2, <3>3, <3>4
  <2>2. CASE ~(e < d)
    <3>1. d \in 1 .. e
      BY <1>3, <2>2
    <3>2. PICK t \in Nat \ {0} : t = Span(mode, e)
      BY SpanType
    <3>3. PICK m \in Nat \ {0} : s = m * t
      BY <1>4, <3>1, <3>2, SpanMultiple
    <3>4. n = t * (m * (q0 + 1)) + 0 /\ m * (q0 + 1) \in Nat /\ 0 \in 0 .. t - 1
      <4>1. n = s * (q0 + 1)
        BY <1>6, <1>7
      <4>2. (m * t) * (q0 + 1) = t * (m * (q0 + 1))
        OBVIOUS
      <4> QED  BY <3>3, <4>1, <4>2
    <3> QED  BY <3>2, <3>4, Quotient
  <2> QED  BY <1>3, <2>1, <2>2
<1> QED  BY <1>1, <1>4, <1>7, <1>8, <1>9, <1>10 DEF AtStart
-----------------------------------------------------------------------------
(* What the processor does with a page, by the level that decides. *)

LEMMA ProcessorDoes ==
  ASSUME NEW g \in Guests, NEW p \in Scanned(g.mode), NEW raw, raw = Raw(g, p),
         NEW d, Decides(g.mode, raw, d)
  PROVE  /\ Used(g, p) = 1 .. d
         /\ HwPresent(g, p) <=> Valid(raw[d])
         /\ HwLarge(g, p) <=> Valid(raw[d]) /\ d < Depth(g.mode)
         /\ Protecting(g, p) \ {Depth(g.mode)} = Above(g.mode) \cap 1 .. d
         /\ Depth(g.mode) \in Protecting(g, p) <=> d = Depth(g.mode)
<1>1. g.mode \in Modes /\ DOMAIN raw = 1 .. Depth(g.mode)
  BY GuestRaw DEF Scanned, RawOK
<1>2. Depth(g.mode) \in Nat /\ Depth(g.mode) >= 2 /\ d \in 1 .. Depth(g.mode)
  BY <1>1, DepthType DEF Decides
<1>3. \A k \in 1 .. Depth(g.mode) : HwReached(g.mode, raw, k) <=> k <= d
  BY <1>1, ReachedTo
<1>4. Used(g, p) = 1 .. d
  BY <1>2, <1>3 DEF Used
<1>5. HwPresent(g, p) <=> Valid(raw[d])
  BY <1>1, TranslatesThere DEF HwPresent
<1>6. HwLarge(g, p) <=> Valid(raw[d]) /\ d < Depth(g.mode)
  BY <1>2, <1>4, <1>5 DEF HwLarge
<1>7. Protecting(g, p) = {k \in 1 .. d : g.mode = "pae" => k > 1}
  BY <1>4 DEF Protecting
<1>8. Protecting(g, p) \ {Depth(g.mode)} = Above(g.mode) \cap 1 .. d
  BY <1>2, <1>7 DEF Above
<1>9. Depth(g.mode) \in Protecting(g, p) <=> d = Depth(g.mode)
  BY <1>2, <1>7
<1> QED  BY <1>4, <1>5, <1>6, <1>8, <1>9

LEMMA ExecutableSame ==
  ASSUME NEW g \in Guests, NEW p \in Scanned(g.mode), NEW e, e = PageLookup(g.mode, Raw(g, p))
  PROVE  /\ IsPresent(e) <=> HwPresent(g, p)
         /\ IsExecutable(e) <=> HwExecutable(g, p) /\ ~NxPast(g.mode, Raw(g, p))
         /\ IsPresent(e) => (IsLargePage(e) <=> HwLarge(g, p))
         /\ VmIsExecutable(g.mode, Raw(g, p)) <=>
              /\ HwExecutable(g, p) /\ ~NxPast(g.mode, Raw(g, p))
              /\ Giant(g.mode, Raw(g, p)) => Translates(g.mode, Raw(g, p))
         /\ HwWriteable(g, p) => IsWriteable(e)
         /\ IsWriteable(e) => \A k \in Protecting(g, p) \ {Depth(g.mode)} : "RW" \in Raw(g, p)[k]
<1>1. g.mode \in Modes /\ RawOK(g.mode, Raw(g, p)) /\ DOMAIN Raw(g, p) = 1 .. Depth(g.mode)
  BY GuestRaw DEF Scanned, RawOK
<1>2. PICK raw : raw = Raw(g, p)
  OBVIOUS
<1>3. PICK d \in 1 .. Depth(g.mode) : Decides(g.mode, raw, d)
  BY <1>1, SomeDecides
<1>4. /\ Telling(g.mode, raw, d, e)
      /\ ~Giant(g.mode, raw) => TellingNx(g.mode, raw, d, e)
      /\ Giant(g.mode, raw) => g.mode = "x86_64" /\ d = 2
  BY <1>1, <1>2, <1>3, Tells
<1>5. /\ Used(g, p) = 1 .. d
      /\ HwPresent(g, p) <=> Valid(raw[d])
      /\ HwLarge(g, p) <=> Valid(raw[d]) /\ d < Depth(g.mode)
      /\ Protecting(g, p) \ {Depth(g.mode)} = Above(g.mode) \cap 1 .. d
  BY <1>2, <1>3, ProcessorDoes
<1>6. IsPresent(e) <=> HwPresent(g, p)
  BY <1>4, <1>5 DEF Telling
<1>7. HwExecutable(g, p) <=> Executes(g.mode, raw, d)
  BY <1>2, <1>5 DEF HwExecutable, Executes
<1>8. IsExecutable(e) <=> HwExecutable(g, p) /\ ~NxPast(g.mode, raw)
  <2>1. CASE Giant(g.mode, raw)
    BY <1>1, <1>2, <1>4, <1>7, <2>1, GiantNx
  <2>2. CASE ~Giant(g.mode, raw)
    BY <1>4, <1>7, <2>2 DEF TellingNx, NxPast
  <2> QED  BY <2>1, <2>2
<1>9. IsPresent(e) => (IsLargePage(e) <=> HwLarge(g, p))
  BY <1>4, <1>5 DEF Telling
<1>10. VmIsExecutable(g.mode, raw) <=>
         HwExecutable(g, p) /\ ~NxPast(g.mode, raw) /\ (Giant(g.mode, raw) => Translates(g.mode, raw))
  <2>1. CASE Giant(g.mode, raw)
    BY <1>1, <1>2, <1>4, <1>7, <2>1, GiantNx
  <2>2. CASE ~Giant(g.mode, raw)
    <3>1. Translates(g.mode, raw) <=> Valid(raw[d])
      BY <1>1, <1>2, <1>3, <2>2, SameTranslates, TranslatesThere
    <3>2. Valid(raw[d]) => ("NX" \in GetFlags(g.mode, e) <=> g.mode # "x86" /\ \E k \in 1 .. d : "NX" \in raw[k])
      BY <1>4, <2>2 DEF TellingNx
    <3>3. VmIsExecutable(g.mode, raw) <=> Translates(g.mode, raw) /\ "NX" \notin GetFlags(g.mode, e)
      BY <1>2 DEF VmIsExecutable
    <3> QED  BY <1>7, <2>2, <3>1, <3>2, <3>3 DEF NxPast, Executes
  <2> QED  BY <2>1, <2>2
<1>11. HwWriteable(g, p) => IsWriteable(e)
  <2>1. SUFFICES ASSUME HwWriteable(g, p) PROVE IsWriteable(e)
    OBVIOUS
  <2>2. Valid(raw[d]) /\ \A k \in Protecting(g, p) : "RW" \in raw[k]
    BY <1>2, <1>5, <2>1 DEF HwWriteable
  <2>3. \A k \in Above(g.mode) \cap 1 .. d : k \in Protecting(g, p)
    BY <1>5
  <2> QED  BY <1>4, <2>2, <2>3 DEF Telling
<1>12. IsWriteable(e) => \A k \in Protecting(g, p) \ {Depth(g.mode)} : "RW" \in raw[k]
  BY <1>4, <1>5 DEF Telling
<1> QED  BY <1>2, <1>6, <1>8, <1>9, <1>10, <1>11, <1>12

(* What lies beyond the dump: unless a large page at the pud ends the walk, the
   entry that decides says so. *)
LEMMA OutThere ==
  ASSUME NEW g, NEW p, NEW mode \in Modes, mode = g.mode, NEW raw, raw = Raw(g, p), ~Giant(mode, raw),
         NEW d, Decides(mode, raw, d)
  PROVE  OutOfDump(g, p) = WalksOut(g, p) /\ (WalksOut(g, p) <=> "out" \in EntryOf(g, p, d))
<1>1. d \in 1 .. Depth(mode) /\ Depth(mode) \in Nat
  BY DepthType DEF Decides
<1>2. IsReached(mode, raw, d) /\ (d = Depth(mode) \/ EndsAt(mode, raw, d))
  BY <1>1, ReachedTo, SameWalk, SameEnd
<1>3. ASSUME NEW k \in 1 .. Depth(mode), IsReached(mode, raw, k), k = Depth(mode) \/ EndsAt(mode, raw, k)
      PROVE  k = d
  <2>1. k <= d
    BY <1>3, ReachedTo, SameWalk
  <2>2. ~(k < d)
    <3>1. SUFFICES ASSUME k < d PROVE FALSE
      OBVIOUS
    <3>2. k \in 1 .. d - 1 /\ k # Depth(mode)
      BY <1>1, <3>1
    <3> QED  BY <1>3, <3>2 DEF Decides, HwEndsAt
  <2> QED  BY <1>1, <2>1, <2>2
<1>4. WalksOut(g, p) <=> "out" \in EntryOf(g, p, d)
  BY <1>1, <1>2, <1>3 DEF WalksOut
<1> QED  BY <1>4 DEF OutOfDump

(* The pages that a scan is to record. *)
Wanted(g, p) ==
  /\ Starts(g, p) /\ HwExecutable(g, p) /\ ~NxPast(g.mode, Raw(g, p))
  /\ LargeUser(g, p) \/ (HwSupervisor(g, p) /\ ~OnlyByPte(g, p))

LEMMA WantedIs ==
  ASSUME NEW g \in Guests, NEW p \in Scanned(g.mode), NEW e, e = PageLookup(g.mode, Raw(g, p)),
         NEW d, Decides(g.mode, Raw(g, p), d)
  PROVE  Wanted(g, p) <=> IsExecutable(e) /\ IsSupervisor(e) /\ p % Span(g.mode, d) = 0
<1>1. g.mode \in Modes /\ RawOK(g.mode, Raw(g, p))
  BY GuestRaw DEF Scanned
<1>2. PICK raw : raw = Raw(g, p)
  OBVIOUS
<1>3. Telling(g.mode, raw, d, e)
  BY <1>1, <1>2, Tells
<1>4. /\ Used(g, p) = 1 .. d
      /\ HwPresent(g, p) <=> Valid(raw[d])
      /\ HwLarge(g, p) <=> Valid(raw[d]) /\ d < Depth(g.mode)
      /\ Protecting(g, p) \ {Depth(g.mode)} = Above(g.mode) \cap 1 .. d
  BY <1>2, ProcessorDoes
<1>5. IsExecutable(e) <=> HwExecutable(g, p) /\ ~NxPast(g.mode, Raw(g, p))
  BY ExecutableSame
<1>6. Depth(g.mode) \in Nat /\ Depth(g.mode) >= 2 /\ d \in 1 .. Depth(g.mode) /\ p \in Nat
  BY <1>1, DepthType, PagesType DEF Decides, Scanned
<1>7. Starts(g, p) <=> p % Span(g.mode, d) = 0
  <2>1. \A k \in 1 .. d : k + 1 \notin 1 .. d <=> k = d
    BY <1>6
  <2>2. d \in 1 .. d
    BY <1>6
  <2> QED  BY <1>4, <2>1, <2>2 DEF Starts
<1>8. CASE ~Valid(raw[d])
  BY <1>4, <1>5, <1>8 DEF Wanted, HwExecutable
<1>9. CASE Valid(raw[d]) /\ d = Depth(g.mode)
  <2>1. ~HwLarge(g, p) /\ HwPresent(g, p) /\ ~LargeUser(g, p)
    BY <1>4, <1>6, <1>9 DEF LargeUser
  <2>2. Above(g.mode) \subseteq Protecting(g, p) /\ Protecting(g, p) \ {Depth(g.mode)} = Above(g.mode)
    BY <1>4, <1>6, <1>9 DEF Above
  <2>3. IsSupervisor(e) <=> \E k \in Above(g.mode) : "US" \notin raw[k]
    BY <1>3, <1>6, <1>9 DEF Telling
  <2>4. HwSupervisor(g, p) /\ ~OnlyByPte(g, p) <=> \E k \in Above(g.mode) : "US" \notin raw[k]
    BY <1>2, <2>1, <2>2 DEF HwSupervisor, OnlyByPte
  <2> QED  BY <1>5, <1>7, <2>1, <2>3, <2>4 DEF Wanted
<1>10. CASE Valid(raw[d]) /\ d # Depth(g.mode)
  <2>1. HwLarge(g, p) /\ IsSupervisor(e)
    BY <1>3, <1>4, <1>6, <1>10 DEF Telling
  <2>2. LargeUser(g, p) \/ (HwSupervisor(g, p) /\ ~OnlyByPte(g, p))
    BY <2>1 DEF LargeUser, OnlyByPte
  <2> QED  BY <1>5, <1>7, <2>1, <2>2 DEF Wanted
<1> QED  BY <1>8, <1>9, <1>10

-----------------------------------------------------------------------------
(* The invariant: where the scan is, and what it has recorded so far. *)

Recorded(p) == p \in hidden \/ \E h \in hashes : h[1] = p

PlaceInv ==
  /\ guest \in Guests
  /\ outcome \in {"scanning", "finished", "failed"}
  /\ i \in Begin(guest.mode) .. End(guest.mode) /\ currentPage \in Scanned(guest.mode)
  /\ i \in Scanned(guest.mode) => AtStart(guest, i)
  /\ ~Visited => /\ currentPage = Begin(guest.mode) /\ outcome = "scanning"
                 /\ ptEntries = [l \in LevelNames |-> Unused]
  /\ Visited => /\ AtStart(guest, currentPage)
                /\ ptEntries = PageLookup(guest.mode, Raw(guest, currentPage))
                /\ i = currentPage + Span(guest.mode, NextPage(guest.mode, ptEntries))

RecordInv ==
  /\ IsFiniteSet(hashes) /\ IsFiniteSet(hidden)
  /\ \A p \in hidden : p \in Nat /\ p < i
  /\ \A h \in hashes : h[1] \in Nat /\ h[1] < i
  /\ executable = Cardinality(hashes) + Cardinality(hidden) + (IF outcome = "failed" THEN 1 ELSE 0)
  /\ outcome # "failed" =>
       \A p \in Scanned(guest.mode) : p < i => (Recorded(p) <=> Wanted(guest, p))
  /\ outcome = "finished" => i >= End(guest.mode)
  /\ outcome = "failed" =>
       /\ Visited
       /\ \/ OutOfDump(guest, currentPage)
          \/ Giant(guest.mode, Raw(guest, currentPage)) /\ ~(currentPage .. i - 1 \subseteq LinearPages)

ScanInv == PlaceInv /\ RecordInv
LEMMA InitPlace == Init => ScanInv
<1> SUFFICES ASSUME Init PROVE ScanInv
  OBVIOUS
<1>1. guest \in Guests /\ guest.mode \in Modes
  BY GuestsAssumption DEF Init
<1>2. Begin(guest.mode) \in Nat /\ End(guest.mode) \in Nat /\ Begin(guest.mode) < End(guest.mode)
  BY <1>1, PagesType
<1>3. i = Begin(guest.mode) /\ currentPage = Begin(guest.mode) /\ ~Visited /\ i \in Scanned(guest.mode)
  BY <1>2 DEF Init, Visited, Scanned
<1>4. AtStart(guest, i)
  <2> SUFFICES ASSUME NEW d \in 1 .. Depth(guest.mode) PROVE i % Span(guest.mode, d) = 0
    BY DEF AtStart
  <2>1. PICK s \in Nat \ {0} : s = Span(guest.mode, d)
    BY <1>1, SpanType
  <2>2. PICK a \in Nat : Begin(guest.mode) = s * a
    BY <1>1, <2>1, Borders
  <2>3. i = s * a + 0 /\ 0 \in 0 .. s - 1
    BY <1>3, <2>2
  <2>4. i % s = 0
    BY <2>3, Quotient
  <2> QED  BY <2>1, <2>4
<1>5. PlaceInv
  BY <1>1, <1>2, <1>3, <1>4 DEF PlaceInv, Init, Scanned
<1>6. IsFiniteSet({}) /\ Cardinality({}) = 0
  BY FS_EmptySet
<1>7. \A p \in Scanned(guest.mode) : ~(p < i)
  BY <1>2, <1>3 DEF Scanned
<1>8. RecordInv
  BY <1>6, <1>7 DEF RecordInv, Init
<1> QED  BY <1>5, <1>8 DEF ScanInv

(* What each iteration begins with. *)
LEMMA LookStep ==
  ASSUME ScanInv, Look, UNCHANGED guest
  PROVE  /\ i \in Scanned(guest.mode) /\ i \in Nat /\ i' \in Nat /\ i < i' /\ i' <= End(guest.mode)
         /\ currentPage' = i /\ Visited'
         /\ \E d \in 1 .. Depth(guest.mode) :
              /\ Decides(guest.mode, Raw(guest, i), d) /\ i % Span(guest.mode, d) = 0
              /\ \A q \in Scanned(guest.mode) :
                   q \div Span(guest.mode, d) = i \div Span(guest.mode, d) <=> q \in i .. i' - 1
         /\ i' \in Scanned(guest.mode) => AtStart(guest, i')
         /\ AtStart(guest, i)
         /\ ptEntries' = PageLookup(guest.mode, Raw(guest, i))
         /\ i' = i + Span(guest.mode, NextPage(guest.mode, ptEntries'))
<1>1. guest \in Guests /\ guest.mode \in Modes
  BY GuestsAssumption DEF ScanInv, PlaceInv
<1>2. Begin(guest.mode) \in Nat /\ End(guest.mode) \in Nat
  BY <1>1, PagesType
<1>3. i \in Scanned(guest.mode) /\ i \in Nat /\ Begin(guest.mode) <= i
  BY <1>2 DEF ScanInv, PlaceInv, Look, Scanned
<1>4. AtStart(guest, i)
  BY <1>3 DEF ScanInv, PlaceInv
<1>5. PICK raw : raw = Raw(guest, i)
  OBVIOUS
<1>6. PICK d \in 1 .. Depth(guest.mode) : Decides(guest.mode, raw, d)
  BY <1>1, SomeDecides
<1>7. ptEntries' = PageLookup(guest.mode, raw) /\ currentPage' = i
      /\ i' = i + Span(guest.mode, NextPage(guest.mode, ptEntries'))
  BY <1>5 DEF Look
<1>8. NextPage(guest.mode, ptEntries') = d
  <2>1. RawOK(guest.mode, raw)
    BY <1>1, <1>3, <1>5, GuestRaw DEF Scanned
  <2> QED  BY <1>1, <1>6, <1>7, <2>1, Tells DEF Telling
<1>9. i' = i + Span(guest.mode, d)
  BY <1>7, <1>8
<1>10. /\ i' \in Nat /\ i < i' /\ i' <= End(guest.mode)
       /\ i' \in Scanned(guest.mode) => AtStart(guest, i')
       /\ \A q \in Scanned(guest.mode) :
            q \div Span(guest.mode, d) = i \div Span(guest.mode, d) <=> q \in i .. i' - 1
  <2>1. Decides(guest.mode, Raw(guest, i), d)
    BY <1>5, <1>6
  <2>2. PICK n : n = i'
    OBVIOUS
  <2>3. n = i + Span(guest.mode, d)
    BY <1>9, <2>2
  <2>4. /\ n \in Nat /\ i < n /\ n <= End(guest.mode)
        /\ n \in Scanned(guest.mode) => AtStart(guest, n)
        /\ \A q \in Scanned(guest.mode) :
             q \div Span(guest.mode, d) = i \div Span(guest.mode, d) <=> q \in i .. n - 1
    BY <1>1, <1>3, <1>4, <2>1, <2>3, StepsOver
  <2> QED  BY <2>2, <2>4
<1>11. i % Span(guest.mode, d) = 0
  BY <1>4, <1>5, <1>6 DEF AtStart
<1>12. Visited'
  BY <1>2, <1>3, <1>10 DEF Visited
<1> QED  BY <1>3, <1>4, <1>5, <1>6, <1>7, <1>10, <1>11, <1>12

LEMMA LookPlace ==
  ASSUME ScanInv, Look, UNCHANGED guest, outcome' \in {"scanning", "failed"}
  PROVE  PlaceInv'
<1>1. guest \in Guests /\ guest.mode \in Modes /\ guest' = guest
  BY GuestsAssumption DEF ScanInv, PlaceInv
<1>2. Begin(guest.mode) \in Nat /\ End(guest.mode) \in Nat
  BY <1>1, PagesType
<1>3. i' \in Begin(guest.mode) .. End(guest.mode)
  BY <1>2, LookStep DEF Scanned
<1>4. /\ currentPage' = i /\ i \in Scanned(guest.mode) /\ Visited' /\ AtStart(guest, i)
      /\ i' \in Scanned(guest.mode) => AtStart(guest, i')
      /\ ptEntries' = PageLookup(guest.mode, Raw(guest, i))
      /\ i' = i + Span(guest.mode, NextPage(guest.mode, ptEntries'))
  BY LookStep
<1> QED  BY <1>1, <1>3, <1>4 DEF PlaceInv

(* The pages that a step goes over share what decides about the first of them,
   and only the first one begins there. *)
LEMMA PassedOver ==
  ASSUME ScanInv, Look, UNCHANGED guest, NEW p \in Scanned(guest.mode), i <= p, p < i'
  PROVE  Wanted(guest, p) <=> p = i /\ IsExecutable(ptEntries') /\ IsSupervisor(ptEntries')
<1>1. guest \in Guests /\ guest.mode \in Modes
  BY GuestsAssumption DEF ScanInv, PlaceInv
<1>2. /\ i \in Scanned(guest.mode) /\ i \in Nat /\ i' \in Nat
      /\ ptEntries' = PageLookup(guest.mode, Raw(guest, i))
  BY LookStep
<1>3. PICK d \in 1 .. Depth(guest.mode) :
        /\ Decides(guest.mode, Raw(guest, i), d) /\ i % Span(guest.mode, d) = 0
        /\ \A q \in Scanned(guest.mode) :
             q \div Span(guest.mode, d) = i \div Span(guest.mode, d) <=> q \in i .. i' - 1
  BY LookStep, Zenon
<1>4. p \in Nat /\ p \in i .. i' - 1
  <2>1. Begin(guest.mode) \in Nat /\ End(guest.mode) \in Nat
    BY <1>1, PagesType
  <2>2. p \in Nat
    BY <2>1 DEF Scanned
  <2>3. \A a, b, c \in Nat : a <= c /\ c < b => c \in a .. b - 1
    OBVIOUS
  <2> QED  BY <1>2, <2>2, <2>3
<1>5. p \div Span(guest.mode, d) = i \div Span(guest.mode, d)
  BY <1>3, <1>4
<1>6. CASE p = i
  <2>1. Wanted(guest, i) <=> IsExecutable(ptEntries') /\ IsSupervisor(ptEntries') /\ i % Span(guest.mode, d) = 0
    BY <1>1, <1>2, <1>3, WantedIs
  <2> QED  BY <1>3, <1>6, <2>1
<1>7. CASE p # i
  <2>1. d \in d .. Depth(guest.mode)
    BY <1>1, DepthType
  <2>2. Decides(guest.mode, Raw(guest, p), d)
    BY <1>1, <1>2, <1>3, <1>4, <1>5, <2>1, SameDecides
  <2>3. p % Span(guest.mode, d) # 0
    <3>1. PICK s \in Nat \ {0} : s = Span(guest.mode, d)
      BY <1>1, SpanType
    <3>2. p = s * (p \div s) + (p % s) /\ i = s * (i \div s) + (i % s)
      BY <1>2, <1>4
    <3> QED  BY <1>3, <1>5, <1>7, <3>1, <3>2
  <2>4. ~Wanted(guest, p)
    BY <1>1, <2>2, <2>3, WantedIs
  <2> QED  BY <1>7, <2>4
<1> QED  BY <1>6, <1>7
LEMMA PassOverRecords ==
  ASSUME ScanInv, PassOver
  PROVE  RecordInv'
<1>1. /\ Look /\ UNCHANGED guest /\ outcome = "scanning"
      /\ outcome' = outcome /\ executable' = executable /\ hashes' = hashes /\ hidden' = hidden
      /\ ~IsExecutable(ptEntries') \/ ~IsSupervisor(ptEntries')
  BY DEF PassOver, Look
<1>2. i \in Nat /\ i' \in Nat /\ i < i'
  BY <1>1, LookStep
<1>3. /\ IsFiniteSet(hashes) /\ IsFiniteSet(hidden)
      /\ \A p \in hidden : p \in Nat /\ p < i
      /\ \A h \in hashes : h[1] \in Nat /\ h[1] < i
      /\ executable = Cardinality(hashes) + Cardinality(hidden) + (IF outcome = "failed" THEN 1 ELSE 0)
      /\ \A p \in Scanned(guest.mode) : p < i => (Recorded(p) <=> Wanted(guest, p))
  BY <1>1 DEF ScanInv, RecordInv
<1>4. \A p : Recorded(p)' <=> Recorded(p)
  BY <1>1 DEF Recorded
<1>5. ASSUME NEW p \in Scanned(guest.mode), p < i' PROVE Recorded(p) <=> Wanted(guest, p)
  <2>1. p \in Nat
    BY GuestsAssumption, PagesType DEF Scanned, ScanInv, PlaceInv
  <2>2. CASE p < i
    BY <1>3, <2>2
  <2>3. CASE ~(p < i)
    <3>1. ~Wanted(guest, p)
      BY <1>1, <1>2, <1>5, <2>1, <2>3, PassedOver
    <3>2. ~Recorded(p)
      BY <1>3, <2>3 DEF Recorded
    <3> QED  BY <3>1, <3>2
  <2> QED  BY <2>2, <2>3
<1>6. (\A p \in hidden : p \in Nat /\ p < i') /\ (\A h \in hashes : h[1] \in Nat /\ h[1] < i')
  BY <1>2, <1>3
<1> QED  BY <1>1, <1>3, <1>4, <1>5, <1>6 DEF RecordInv

LEMMA ClassifyRecords ==
  ASSUME ScanInv, Classify
  PROVE  RecordInv'
<1>1. /\ Look /\ UNCHANGED guest /\ outcome = "scanning" /\ outcome' = outcome
      /\ executable' = executable + 1
      /\ IsExecutable(ptEntries') /\ IsSupervisor(ptEntries')
  BY DEF Classify, Take, Look
<1>2. i \in Nat /\ i' \in Nat /\ i < i'
  BY <1>1, LookStep
<1>3. /\ IsFiniteSet(hashes) /\ IsFiniteSet(hidden)
      /\ \A p \in hidden : p \in Nat /\ p < i
      /\ \A h \in hashes : h[1] \in Nat /\ h[1] < i
      /\ executable = Cardinality(hashes) + Cardinality(hidden) + (IF outcome = "failed" THEN 1 ELSE 0)
      /\ \A p \in Scanned(guest.mode) : p < i => (Recorded(p) <=> Wanted(guest, p))
  BY <1>1 DEF ScanInv, RecordInv
<1>4. \/ hidden' = hidden \cup {i} /\ hashes' = hashes
      \/ hashes' = hashes \cup {<<i, Class(i)>>} /\ hidden' = hidden
  BY DEF Classify
<1>5. PICK new : new = <<i, Class(i)>>
  OBVIOUS
<1>6. new[1] = i /\ i \notin hidden /\ new \notin hashes
  BY <1>2, <1>3, <1>5
<1>7. Cardinality(hashes) \in Nat /\ Cardinality(hidden) \in Nat
  BY <1>3, FS_CardinalityType
<1>8. /\ IsFiniteSet(hashes') /\ IsFiniteSet(hidden')
      /\ executable' = Cardinality(hashes') + Cardinality(hidden')
  <2>1. IsFiniteSet(hidden \cup {i}) /\ Cardinality(hidden \cup {i}) = Cardinality(hidden) + 1
    BY <1>3, <1>6, FS_AddElement
  <2>2. IsFiniteSet(hashes \cup {new}) /\ Cardinality(hashes \cup {new}) = Cardinality(hashes) + 1
    BY <1>3, <1>6, FS_AddElement
  <2>3. executable' = Cardinality(hashes) + Cardinality(hidden) + 1
    BY <1>1, <1>3, <1>7
  <2>4. CASE hidden' = hidden \cup {i} /\ hashes' = hashes
    BY <1>3, <1>7, <2>1, <2>3, <2>4
  <2>5. CASE hashes' = hashes \cup {<<i, Class(i)>>} /\ hidden' = hidden
    BY <1>3, <1>5, <1>7, <2>2, <2>3, <2>5
  <2> QED  BY <1>4, <2>4, <2>5
<1>9. \A p : Recorded(p)' <=> Recorded(p) \/ p = i
  <2>1. CASE hidden' = hidden \cup {i} /\ hashes' = hashes
    BY <2>1 DEF Recorded
  <2>2. CASE hashes' = hashes \cup {<<i, Class(i)>>} /\ hidden' = hidden
    BY <1>5, <1>6, <2>2 DEF Recorded
  <2> QED  BY <1>4, <2>1, <2>2
<1>10. ASSUME NEW p \in Scanned(guest.mode), p < i' PROVE Recorded(p) \/ p = i <=> Wanted(guest, p)
  <2>1. p \in Nat
    BY GuestsAssumption, PagesType DEF Scanned, ScanInv, PlaceInv
  <2>2. CASE p < i
    BY <1>2, <1>3, <2>1, <2>2
  <2>3. CASE ~(p < i)
    <3>1. Wanted(guest, p) <=> p = i
      BY <1>1, <1>2, <1>10, <2>1, <2>3, PassedOver
    <3>2. ~Recorded(p)
      BY <1>3, <2>3 DEF Recorded
    <3> QED  BY <3>1, <3>2
  <2> QED  BY <2>2, <2>3
<1>11. (\A p \in hidden' : p \in Nat /\ p < i') /\ (\A h \in hashes' : h[1] \in Nat /\ h[1] < i')
  BY <1>2, <1>3, <1>4, <1>5, <1>6
<1> QED  BY <1>1, <1>8, <1>7, <1>9, <1>10, <1>11 DEF RecordInv

(* A page that cannot be read lies beyond the dump, or it is a large page at the
   pud that is not all read through the linear mapping: every small page of any
   other page has one path down to the entry that decides. *)
LEMMA CannotReadIs ==
  ASSUME ScanInv, Look, UNCHANGED guest, IsExecutable(ptEntries'), ~CanRead
  PROVE  \/ OutOfDump(guest, i)
         \/ Giant(guest.mode, Raw(guest, i)) /\ ~(i .. i' - 1 \subseteq LinearPages)
<1>1. guest \in Guests /\ guest.mode \in Modes
  BY GuestsAssumption DEF ScanInv, PlaceInv
<1>2. /\ i \in Scanned(guest.mode) /\ i \in Nat /\ i' \in Nat /\ i' <= End(guest.mode)
      /\ ptEntries' = PageLookup(guest.mode, Raw(guest, i))
  BY LookStep
<1>3. PICK d \in 1 .. Depth(guest.mode) :
        /\ Decides(guest.mode, Raw(guest, i), d) /\ i % Span(guest.mode, d) = 0
        /\ \A q \in Scanned(guest.mode) :
             q \div Span(guest.mode, d) = i \div Span(guest.mode, d) <=> q \in i .. i' - 1
  BY LookStep, Zenon
<1>4. PICK p \in i .. i' - 1 : Unreadable(guest, p)
  BY DEF CanRead
<1>5. p \in Scanned(guest.mode) /\ p \in Nat /\ p \div Span(guest.mode, d) = i \div Span(guest.mode, d)
  <2>1. Begin(guest.mode) \in Nat /\ End(guest.mode) \in Nat
    BY <1>1, PagesType
  <2>2. p \in Scanned(guest.mode) /\ p \in Nat
    <3>1. \A b, e, a, n \in Nat : a \in b .. e - 1 /\ n <= e /\ p \in a .. n - 1 => p \in b .. e - 1 /\ p \in Nat
      OBVIOUS
    <3>2. i \in Begin(guest.mode) .. End(guest.mode) - 1
      BY <1>2 DEF Scanned
    <3>3. p \in Begin(guest.mode) .. End(guest.mode) - 1 /\ p \in Nat
      BY <1>2, <2>1, <3>1, <3>2
    <3> QED  BY <3>3 DEF Scanned
  <2> QED  BY <1>3, <2>2
<1>6. d \in d .. Depth(guest.mode) /\ d \in 1 .. d
  BY <1>1, <1>3, DepthType
<1>7. Decides(guest.mode, Raw(guest, p), d)
  BY <1>1, <1>2, <1>3, <1>5, <1>6, SameDecides
<1>8. EntryOf(guest, p, d) = EntryOf(guest, i, d) /\ Raw(guest, p)[d] = Raw(guest, i)[d]
  <2>1. SameEntry(guest, p, i, d)
    BY <1>5 DEF SameEntry
  <2>2. OnePath(guest, p, i, d)
    BY <1>1, <1>2, <1>5, <2>1, SamePath
  <2> QED  BY <1>6, <2>2 DEF OnePath
<1>9. /\ RawOK(guest.mode, Raw(guest, i)) /\ RawOK(guest.mode, Raw(guest, p))
      /\ DOMAIN Raw(guest, p) = 1 .. Depth(guest.mode)
  BY <1>1, <1>2, <1>5, GuestRaw DEF Scanned, RawOK
<1>10. /\ Giant(guest.mode, Raw(guest, i)) => d = 2
       /\ Giant(guest.mode, Raw(guest, p)) => d = 2
  BY <1>1, <1>3, <1>7, <1>9, Tells
<1>11. CASE Giant(guest.mode, Raw(guest, i))
  <2>1. Giant(guest.mode, Raw(guest, p)) /\ EntryOf(guest, p, 2) = EntryOf(guest, i, 2)
    BY <1>1, <1>2, <1>5, <1>10, <1>11, SameGiant
  <2>2. p \in LinearPages => OutOfDump(guest, i)
    BY <1>4, <1>11, <2>1 DEF Unreadable, OutOfDump
  <2> QED  BY <1>4, <1>11, <2>2
<1>12. CASE ~Giant(guest.mode, Raw(guest, i))
  <2>1. ~Giant(guest.mode, Raw(guest, p))
    <3>1. SUFFICES ASSUME Giant(guest.mode, Raw(guest, p)) PROVE Giant(guest.mode, Raw(guest, i))
      BY <1>12
    <3>2. i \div Span(guest.mode, 2) = p \div Span(guest.mode, 2)
      BY <1>5, <1>10, <3>1
    <3> QED  BY <1>1, <1>2, <1>5, <3>1, <3>2, SameGiant
  <2>2. /\ OutOfDump(guest, i) = WalksOut(guest, i) /\ (WalksOut(guest, i) <=> "out" \in EntryOf(guest, i, d))
        /\ OutOfDump(guest, p) = WalksOut(guest, p) /\ (WalksOut(guest, p) <=> "out" \in EntryOf(guest, p, d))
    BY <1>1, <1>3, <1>7, <1>12, <2>1, OutThere
  <2>3. Translates(guest.mode, Raw(guest, p))
    <3>1. Valid(Raw(guest, i)[d])
      <4>1. IsPresent(ptEntries')
        BY DEF IsExecutable
      <4> QED  BY <1>1, <1>2, <1>3, <1>9, <4>1, Tells DEF Telling
    <3>2. HwTranslates(guest.mode, Raw(guest, p))
      BY <1>1, <1>7, <1>8, <1>9, <3>1, TranslatesThere
    <3> QED  BY <1>1, <1>9, <2>1, <3>2, SameTranslates
  <2> QED  BY <1>4, <1>8, <2>2, <2>3 DEF Unreadable
<1> QED  BY <1>11, <1>12

LEMMA CannotReadRecords ==
  ASSUME ScanInv, CannotRead
  PROVE  RecordInv'
<1>1. /\ Look /\ UNCHANGED guest /\ outcome = "scanning" /\ outcome' = "failed"
      /\ executable' = executable + 1 /\ hashes' = hashes /\ hidden' = hidden
      /\ IsExecutable(ptEntries') /\ ~CanRead
  BY DEF CannotRead, Take, Look
<1>2. i \in Nat /\ i' \in Nat /\ i < i' /\ currentPage' = i /\ Visited'
  BY <1>1, LookStep
<1>3. /\ IsFiniteSet(hashes) /\ IsFiniteSet(hidden)
      /\ \A p \in hidden : p \in Nat /\ p < i
      /\ \A h \in hashes : h[1] \in Nat /\ h[1] < i
      /\ executable = Cardinality(hashes) + Cardinality(hidden) + (IF outcome = "failed" THEN 1 ELSE 0)
  BY DEF ScanInv, RecordInv
<1>4. Cardinality(hashes) \in Nat /\ Cardinality(hidden) \in Nat
  BY <1>3, FS_CardinalityType
<1>5. executable' = Cardinality(hashes) + Cardinality(hidden) + 1
  BY <1>1, <1>3, <1>4
<1>6. (\A p \in hidden : p \in Nat /\ p < i') /\ (\A h \in hashes : h[1] \in Nat /\ h[1] < i')
  BY <1>2, <1>3
<1>7. \/ OutOfDump(guest, i)
      \/ Giant(guest.mode, Raw(guest, i)) /\ ~(i .. i' - 1 \subseteq LinearPages)
  BY <1>1, CannotReadIs
<1>8. (\/ OutOfDump(guest, currentPage)
       \/ Giant(guest.mode, Raw(guest, currentPage)) /\ ~(currentPage .. i - 1 \subseteq LinearPages))'
  BY <1>1, <1>2, <1>7
<1> QED  BY <1>1, <1>2, <1>3, <1>5, <1>6, <1>8 DEF RecordInv

LEMMA ScanStep == ScanInv /\ [Next]_vars => ScanInv'
<1> SUFFICES ASSUME ScanInv, [Next]_vars PROVE ScanInv'
  OBVIOUS
<1>1. CASE PassOver
  <2>1. Look /\ UNCHANGED guest /\ outcome' \in {"scanning", "failed"}
    BY <1>1 DEF PassOver, Look
  <2> QED  BY <1>1, <2>1, LookPlace, PassOverRecords DEF ScanInv
<1>2. CASE CannotRead
  <2>1. Look /\ UNCHANGED guest /\ outcome' \in {"scanning", "failed"}
    BY <1>2 DEF CannotRead, Take
  <2> QED  BY <1>2, <2>1, LookPlace, CannotReadRecords DEF ScanInv
<1>3. CASE Classify
  <2>1. Look /\ UNCHANGED guest /\ outcome' \in {"scanning", "failed"}
    BY <1>3 DEF Classify, Take, Look
  <2> QED  BY <1>3, <2>1, LookPlace, ClassifyRecords DEF ScanInv
<1>4. CASE Stop
  <2>1. /\ UNCHANGED <<guest, i, currentPage, ptEntries, executable, hashes, hidden>>
        /\ outcome = "scanning" /\ outcome' = "finished" /\ i >= End(guest.mode)
    BY <1>4 DEF Stop
  <2>2. Visited
    <3>1. guest.mode \in Modes
      BY GuestsAssumption DEF ScanInv, PlaceInv
    <3>2. Begin(guest.mode) \in Nat /\ End(guest.mode) \in Nat /\ Begin(guest.mode) < End(guest.mode)
      BY <3>1, PagesType
    <3> QED  BY <2>1, <3>2 DEF Visited, ScanInv, PlaceInv
  <2>3. PlaceInv'
    BY <2>1, <2>2 DEF ScanInv, PlaceInv, Visited, AtStart, Scanned, Begin, End
  <2>4. RecordInv'
    BY <2>1 DEF ScanInv, RecordInv, Recorded
  <2> QED  BY <2>3, <2>4 DEF ScanInv
<1>5. CASE UNCHANGED vars
  BY <1>5 DEF vars, ScanInv, PlaceInv, RecordInv, Visited, Recorded, AtStart
<1> QED  BY <1>1, <1>2, <1>3, <1>4, <1>5 DEF Next

LEMMA ScanInvariant == Spec => []ScanInv
<1> QED  BY InitPlace, ScanStep, PTL DEF Spec

-----------------------------------------------------------------------------

LEMMA EntriesNow == ScanInv => EntriesExact
<1> SUFFICES ASSUME ScanInv, Visited PROVE EntriesExact
  BY DEF EntriesExact
<1>1. /\ guest \in Guests /\ currentPage \in Scanned(guest.mode)
      /\ ptEntries = PageLookup(guest.mode, Raw(guest, currentPage))
  BY DEF ScanInv, PlaceInv
<1>2. PICK g, p, e : g = guest /\ p = currentPage /\ e = ptEntries
  OBVIOUS
<1>3. /\ IsPresent(e) <=> HwPresent(g, p)
      /\ IsExecutable(e) <=> HwExecutable(g, p) /\ ~NxPast(g.mode, Raw(g, p))
      /\ IsPresent(e) => (IsLargePage(e) <=> HwLarge(g, p))
      /\ VmIsExecutable(g.mode, Raw(g, p)) <=>
           /\ HwExecutable(g, p) /\ ~NxPast(g.mode, Raw(g, p))
           /\ Giant(g.mode, Raw(g, p)) => Translates(g.mode, Raw(g, p))
      /\ HwWriteable(g, p) => IsWriteable(e)
      /\ IsWriteable(e) => \A k \in Protecting(g, p) \ {Depth(g.mode)} : "RW" \in Raw(g, p)[k]
  BY <1>1, <1>2, ExecutableSame
<1> QED  BY <1>2, <1>3 DEF EntriesExact

(* The code: PageTableEntries and VirtualMemory::isExecutable(), two ways to sum up
   the entries of an address. For every guest and any number of entries per table,
   both say what the processor does with the page that is looked at, although the
   first guesses the paging mode from the entries that are 0; but for NX of a large
   page at the pud, which both take from what the page contains. *)
THEOREM EntriesAlwaysExact == Spec => []EntriesExact
<1> QED  BY ScanInvariant, EntriesNow, PTL
LEMMA StepsNow == ScanInv => StepsExact
<1> SUFFICES ASSUME ScanInv, Visited PROVE StepsExact
  BY DEF StepsExact
<1>1. /\ guest \in Guests /\ guest.mode \in Modes /\ currentPage \in Scanned(guest.mode)
      /\ AtStart(guest, currentPage)
      /\ ptEntries = PageLookup(guest.mode, Raw(guest, currentPage))
      /\ i = currentPage + Span(guest.mode, NextPage(guest.mode, ptEntries))
  BY GuestsAssumption DEF ScanInv, PlaceInv
<1>2. PICK d \in 1 .. Depth(guest.mode) : Decides(guest.mode, Raw(guest, currentPage), d)
  BY <1>1, SomeDecides
<1>3. i = currentPage + Span(guest.mode, d)
  <2>1. RawOK(guest.mode, Raw(guest, currentPage))
    BY <1>1, GuestRaw DEF Scanned
  <2>2. NextPage(guest.mode, ptEntries) = d
    BY <1>1, <1>2, <2>1, Tells DEF Telling
  <2> QED  BY <1>1, <2>2
<1>4. Used(guest, currentPage) = 1 .. d
  BY <1>1, <1>2, ProcessorDoes
<1>5. /\ i \in Nat /\ currentPage < i /\ i <= End(guest.mode)
      /\ \A q \in Scanned(guest.mode) :
           q \div Span(guest.mode, d) = currentPage \div Span(guest.mode, d) <=> q \in currentPage .. i - 1
  BY <1>1, <1>2, <1>3, StepsOver
<1>6. /\ Begin(guest.mode) \in Nat /\ End(guest.mode) \in Nat /\ Depth(guest.mode) \in Nat
      /\ Begin(guest.mode) <= currentPage /\ currentPage \in Nat
  <2>1. Begin(guest.mode) \in Nat /\ End(guest.mode) \in Nat
    BY <1>1, PagesType
  <2> QED  BY <1>1, <2>1, DepthType DEF Scanned
<1>7. ASSUME NEW q \in Scanned(guest.mode)
      PROVE  (\A k \in Used(guest, currentPage) :
                q \div Span(guest.mode, k) = currentPage \div Span(guest.mode, k))
               <=> q \in currentPage .. i - 1
  <2>1. q \in Nat
    BY <1>6 DEF Scanned
  <2>2. d \in 1 .. d
    BY <1>6
  <2>3. q \div Span(guest.mode, d) = currentPage \div Span(guest.mode, d) =>
          \A k \in 1 .. d : q \div Span(guest.mode, k) = currentPage \div Span(guest.mode, k)
    BY <1>1, <1>2, <1>6, <2>1, SamePages
  <2> QED  BY <1>4, <1>5, <2>2, <2>3
<1>8. currentPage .. i - 1 \subseteq Scanned(guest.mode)
  BY <1>5, <1>6 DEF Scanned
<1>9. {q \in Scanned(guest.mode) :
         \A k \in Used(guest, currentPage) :
           q \div Span(guest.mode, k) = currentPage \div Span(guest.mode, k)} = currentPage .. i - 1
  BY <1>7, <1>8
<1> QED  BY <1>9 DEF StepsExact, Scanned

(* The code: nextPageOffset(). For every guest and any number of entries per table,
   the scan goes over exactly the addresses that share the entry which decided
   about the one it looked at. *)
THEOREM StepsAlwaysExact == Spec => []StepsExact
<1> QED  BY ScanInvariant, StepsNow, PTL

LEMMA TypesNow == ScanInv => TypeOK
<1> SUFFICES ASSUME ScanInv PROVE TypeOK
  OBVIOUS
<1>1. /\ guest \in Guests /\ guest.mode \in Modes /\ currentPage \in Scanned(guest.mode)
      /\ i \in Begin(guest.mode) .. End(guest.mode)
  BY GuestsAssumption DEF ScanInv, PlaceInv
<1>2. Begin(guest.mode) \in Nat /\ End(guest.mode) \in Nat
  BY <1>1, PagesType
<1>3. i \in Nat /\ currentPage \in Begin(guest.mode) .. End(guest.mode)
  BY <1>1, <1>2 DEF Scanned
<1>4. \A l \in LevelNames : ptEntries[l] \subseteq PADDR_ERROR
  <2>1. CASE ~Visited
    BY <2>1 DEF ScanInv, PlaceInv, Unused
  <2>2. CASE Visited
    <3>1. ptEntries = PageLookup(guest.mode, Raw(guest, currentPage))
      BY <2>2 DEF ScanInv, PlaceInv
    <3>2. RawOK(guest.mode, Raw(guest, currentPage))
      BY <1>1, GuestRaw DEF Scanned
    <3>3. PICK raw : raw = Raw(guest, currentPage)
      OBVIOUS
    <3>4. DOMAIN raw = 1 .. Depth(guest.mode) /\ \A k \in DOMAIN raw : raw[k] \subseteq PADDR_ERROR
      BY <3>2, <3>3 DEF RawOK, PADDR_ERROR
    <3>5. ASSUME NEW l \in LevelNames PROVE ptEntries[l] = {} \/ \E k \in DOMAIN raw : ptEntries[l] = raw[k]
      <4>1. ptEntries[l] =
              IF \E k \in DOMAIN raw : Levels(guest.mode)[k] = l /\ IsReached(guest.mode, raw, k)
              THEN raw[CHOOSE k \in DOMAIN raw : Levels(guest.mode)[k] = l] ELSE {}
        BY <3>1, <3>3 DEF PageLookup, Unused
      <4>2. (\E k \in DOMAIN raw : Levels(guest.mode)[k] = l) =>
              (CHOOSE k \in DOMAIN raw : Levels(guest.mode)[k] = l) \in DOMAIN raw
        OBVIOUS
      <4> QED  BY <4>1, <4>2
    <3> QED  BY <3>4, <3>5
  <2> QED  BY <2>1, <2>2
<1>5. /\ outcome \in {"scanning", "finished", "failed"}
      /\ executable = Cardinality(hashes) + Cardinality(hidden) + (IF outcome = "failed" THEN 1 ELSE 0)
  BY DEF ScanInv, PlaceInv, RecordInv
<1> QED  BY <1>3, <1>4, <1>5 DEF TypeOK

LEMMA ScanNow == ScanInv => ScanExact
<1> SUFFICES ASSUME ScanInv PROVE ScanExact
  OBVIOUS
<1>1. ASSUME outcome = "finished", NEW p \in Begin(guest.mode) .. End(guest.mode) - 1
      PROVE  (p \in hidden \cup {h[1] : h \in hashes}) <=> Wanted(guest, p)
  <2>1. guest.mode \in Modes /\ i \in Begin(guest.mode) .. End(guest.mode) /\ i >= End(guest.mode)
    BY <1>1, GuestsAssumption DEF ScanInv, PlaceInv, RecordInv
  <2>2. Begin(guest.mode) \in Nat /\ End(guest.mode) \in Nat
    BY <2>1, PagesType
  <2>3. p < i
    BY <1>1, <2>1, <2>2
  <2>4. Recorded(p) <=> Wanted(guest, p)
    BY <1>1, <2>3 DEF ScanInv, RecordInv, Scanned
  <2> QED  BY <2>4 DEF Recorded
<1>2. outcome = "failed" =>
        \/ OutOfDump(guest, currentPage)
        \/ Giant(guest.mode, Raw(guest, currentPage)) /\ ~(currentPage .. i - 1 \subseteq LinearPages)
  BY DEF ScanInv, RecordInv
<1> QED  BY <1>1, <1>2, TypesNow DEF ScanExact, Wanted

(* The code: hiddenCode(). For every guest, a scan that finishes has classified or
   reported every executable supervisor page once, wherever it is and however its
   table was reached, and no other page, but for the two named errors of
   isSupervisor() and for large pages at the pud of which it takes NX from their
   content; only a page beyond the dump, or a large page at the pud that is read
   through what it contains, ends it before. *)
THEOREM ScanAlwaysExact == Spec => []ScanExact
<1> QED  BY ScanInvariant, ScanNow, PTL
=============================================================================
