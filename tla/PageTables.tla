----------------------------- MODULE PageTables -----------------------------
(* The page tables of the three paging modes, and what is concluded from the
   entries of one address (libinsight/virtualmemory.cpp: pageLookup32(),
   pageLookup64(), getFlags(), struct PageTableEntries).

   An entry is the set of its bits: "P" present, "RW" writeable, "US" user,
   "PSE" large, "NX" not executable, and "frame" for the rest. 0 is the empty
   set, PADDR_ERROR has all bits. *)
EXTENDS Integers, Sequences

Modes == {"x86", "pae", "x86_64"}
Flags == {"P", "RW", "US", "PSE", "NX"}
PADDR_ERROR == Flags \cup {"frame", "ones"}
Unused == {}
Bits(e) == e \cap Flags

(* The levels of a walk; a large page is possible at the last but one. *)
Levels(mode) == CASE mode = "x86"    -> <<"pgd", "pte">>
                  [] mode = "pae"    -> <<"pgd", "pmd", "pte">>
                  [] mode = "x86_64" -> <<"pgd", "pud", "pmd", "pte">>
LevelNames == {"pgd", "pud", "pmd", "pte"}
Depth(mode) == Len(Levels(mode))

(* Along the path of one address: raw[k] is what memory holds at level k, or
   PADDR_ERROR where the table cannot be read. The walk knows large pages at the
   last level but one only: below a large page at the pud of x86_64 it goes on,
   and what it takes for a pmd and a pte is the content of that page. *)
EndsAt(mode, raw, k) ==
  \/ raw[k] = PADDR_ERROR \/ "P" \notin raw[k]
  \/ k = Depth(mode) - 1 /\ "PSE" \in raw[k]
IsReached(mode, raw, k) == \A j \in 1 .. k - 1 : ~EndsAt(mode, raw, j)

(* pageLookup32(), pageLookup64() without exceptions: the PageTableEntries. *)
PageLookup(mode, raw) ==
  [l \in LevelNames |->
     IF \E k \in DOMAIN raw : Levels(mode)[k] = l /\ IsReached(mode, raw, k)
     THEN raw[CHOOSE k \in DOMAIN raw : Levels(mode)[k] = l] ELSE Unused]

(* The address translates: to a page at level PageLevel(...). *)
Translates(mode, raw) ==
  \E k \in DOMAIN raw :
    /\ IsReached(mode, raw, k) /\ raw[k] # PADDR_ERROR /\ "P" \in raw[k]
    /\ k = Depth(mode) \/ EndsAt(mode, raw, k)

(* What the processor does: a large page at the pud ends the walk, too. *)
HwEndsAt(mode, raw, k) ==
  EndsAt(mode, raw, k) \/ (mode = "x86_64" /\ k = 2 /\ "PSE" \in raw[k])
HwReached(mode, raw, k) == \A j \in 1 .. k - 1 : ~HwEndsAt(mode, raw, j)
HwTranslates(mode, raw) ==
  \E k \in DOMAIN raw :
    /\ HwReached(mode, raw, k) /\ raw[k] # PADDR_ERROR /\ "P" \in raw[k]
    /\ k = Depth(mode) \/ HwEndsAt(mode, raw, k)

(* The address lies in a large page at the pud, ... *)
Giant(mode, raw) ==
  mode = "x86_64" /\ (\A k \in 1 .. 2 : ~EndsAt(mode, raw, k)) /\ "PSE" \in raw[2]
(* ... and the walk goes past it to a word that has the bit of NX set. *)
NxPast(mode, raw) ==
  Giant(mode, raw) /\ \E k \in 3 .. 4 : IsReached(mode, raw, k) /\ "NX" \in raw[k]

----------------------------------------------------------------------------
(* PageTableEntries: the mode is guessed from the entries that are 0. *)

Looks32(e) == e["pud"] = Unused /\ e["pmd"] = Unused
LooksPae(e) == e["pud"] = Unused /\ e["pmd"] # Unused
Valid(x) == x # PADDR_ERROR /\ "P" \in x

IsLargePage(e) ==
  IF e["pgd"] # PADDR_ERROR /\ Looks32(e) THEN "PSE" \in e["pgd"]
  ELSE \E l \in {"pud", "pmd"} : e[l] # PADDR_ERROR /\ "PSE" \in e[l]

IsPresent(e) ==
  /\ Valid(e["pgd"])
  /\ IF Looks32(e) THEN "PSE" \in e["pgd"] \/ Valid(e["pte"])
     ELSE /\ e["pud"] # Unused => Valid(e["pud"])
          /\ \/ "PSE" \in e["pud"]
             \/ Valid(e["pmd"]) /\ ("PSE" \in e["pmd"] \/ Valid(e["pte"]))

(* Mutant: the directory's own NX bit is forgotten. *)
MutIsExecutable(e) ==
  IsPresent(e) /\ (Looks32(e) \/ \A l \in {"pud", "pmd", "pte"} : "NX" \notin e[l])

IsExecutable(e) ==
  IsPresent(e) /\ (Looks32(e) \/ \A l \in LevelNames : "NX" \notin e[l])

(* isSupervisor(), isWriteable() look at the levels above the page table in
   this order; a large page ends the search. `pte && Supervisor` and
   `pte && ReadWrite` are logical: true of any pte that is not 0. *)
Uppers(e) == IF Looks32(e) THEN <<"pgd">>
             ELSE IF LooksPae(e) THEN <<"pmd">> ELSE <<"pgd", "pud", "pmd">>
Large(e, l) == "PSE" \in e[l] /\ (l = "pgd" => Looks32(e))

(* Mutant: only the directory above the page table is looked at. *)
MutDecided(e, missing) ==
  LET k == Len(Uppers(e))
  IN IF missing \notin e[Uppers(e)[k]] \/ Large(e, Uppers(e)[k]) THEN k ELSE 0

Decided(e, missing) ==    \* position of the first level that decides, or 0
  LET deciding == {k \in DOMAIN Uppers(e) :
                     missing \notin e[Uppers(e)[k]] \/ Large(e, Uppers(e)[k])}
  IN IF deciding = {} THEN 0 ELSE CHOOSE k \in deciding : \A j \in deciding : k <= j

IsSupervisor(e) ==
  IsPresent(e) /\ (Decided(e, "US") # 0 \/ e["pte"] = Unused)
IsWriteable(e) ==
  LET k == Decided(e, "RW")
  IN IsPresent(e) /\ IF k = 0 THEN e["pte"] # Unused ELSE "RW" \in e[Uppers(e)[k]]

----------------------------------------------------------------------------
(* VirtualMemory::updateFlags(), getFlags(), isExecutable() *)

Update(flags, e) ==
  (flags \ ({"P", "RW"} \ e)) \cup (e \cap {"US", "NX"})

GetFlags(mode, e) ==
  LET withPte(f) == IF e["pte"] # PADDR_ERROR THEN Update(f, e["pte"]) ELSE f
  IN CASE mode = "pae"    -> withPte(((e["pgd"] \cap {"P"}) \cup (e["pmd"] \cap {"RW", "US", "NX"}))
                                       \cap e["pmd"])
       [] mode = "x86"    -> withPte(e["pgd"])
       [] mode = "x86_64" -> withPte(Update(Update(e["pgd"], e["pud"]), e["pmd"]))

(* With exceptions: an address that does not translate is not executable. *)
VmIsExecutable(mode, raw) ==
  Translates(mode, raw) /\ "NX" \notin GetFlags(mode, PageLookup(mode, raw))

(* Mutant: what is not present is skipped by whole directories. *)
MutNextPage(mode, e) == IF IsPresent(e) THEN Depth(mode) ELSE 1

(* nextPageOffset(): the level whose entry spans the addresses to skip. *)
NextPage(mode, e) ==
  LET stops(l) == ~Valid(e[l]) \/ ("PSE" \in e[l] /\ l # "pgd")
  IN CASE mode = "x86" -> IF ~Valid(e["pgd"]) \/ "PSE" \in e["pgd"] THEN 1 ELSE 2
       [] mode = "pae" -> IF stops("pgd") THEN 1 ELSE IF stops("pmd") THEN 2 ELSE 3
       [] mode = "x86_64" -> IF stops("pgd") THEN 1 ELSE IF stops("pud") THEN 2
                             ELSE IF stops("pmd") THEN 3 ELSE 4
============================================================================
