------------------------------ MODULE PageScan ------------------------------
(* Detect::hiddenCode() (libinsight/detect.cpp): a scan of the kernel's address
   space along the page tables that classifies every executable supervisor page
   by what it belongs to.

   Addresses count in small pages. An entry at level k covers Span(mode, k) of
   them, so the bits of an address that lead a walk to it are the quotient of the
   two; which entries there are is the guest. The bit "out" of an entry says that
   what it points to lies beyond the dump. *)
EXTENDS PageTables, FiniteSets

CONSTANTS
  Guests,       \* [mode, tables]: tables[k][n] is the n-th entry of all at level k
  Entries,      \* entries of a table below the top directory
  FirstTop, EndTop,         \* the entries of the top directory that are scanned
  KernelCode, KernelData,   \* <<begin, end>> of _kernel_code, _kernel_data_exec
  VsyscallPage, \* _vsyscall_page
  Modules,      \* <<module_core, core_text_size>> of the modules
  VmapAreas,    \* <<va_start, va_end, flags>> of the vmap areas
  LinearPages   \* pages that virtualToPhysical() maps without a walk

VARIABLES guest, i, outcome,
          currentPage,   \* _current_page
          ptEntries,
          executable,    \* executeable_pages
          hashes,        \* <<page, class>> pairs of currentHashes
          hidden         \* pages a warning is printed for (hidden_pages counts them)

vars == <<guest, i, outcome, currentPage, ptEntries, executable, hashes, hidden>>

Span(mode, k) ==    \* pages below an entry of level k
  LET E == Entries
  IN CASE mode = "x86"    -> <<E, 1>>[k]
       [] mode = "pae"    -> <<E * E, E, 1>>[k]
       [] mode = "x86_64" -> <<E * (E * E), E * E, E, 1>>[k]
Begin(mode) == FirstTop * Span(mode, 1)
End(mode) == EndTop * Span(mode, 1)

EntryOf(g, p, k) == g.tables[k][p \div Span(g.mode, k)]

(* Bits that no entry of a level has: 32 bit entries have no NX, a directory
   pointer of PAE none of the two, and the top directory of 64 bit no PSE. *)
Reserved(mode, k) ==
  CASE mode = "x86" -> {"NX"}
    [] mode = "pae" /\ k = 1 -> {"NX", "PSE"}
    [] mode = "x86_64" /\ k = 1 -> {"PSE"}
    [] OTHER -> {}

ASSUME SpaceAssumption ==
  /\ Entries \in Nat \ {0}
  /\ FirstTop \in Nat /\ EndTop \in Nat /\ FirstTop < EndTop

ASSUME GuestsAssumption ==
  \A g \in Guests :
    /\ g.mode \in Modes
    /\ \A p \in Begin(g.mode) .. End(g.mode) - 1, k \in 1 .. Depth(g.mode) :
         EntryOf(g, p, k) \subseteq (Flags \cup {"frame", "out"}) \ Reserved(g.mode, k)

(* What memory holds along the path of page p, in the tables or, below a large
   page, in the words that the walk takes for entries. *)
Raw(g, p) ==
  [k \in 1 .. Depth(g.mode) |->
     IF k > 1 /\ "out" \in EntryOf(g, p, k - 1) THEN PADDR_ERROR ELSE EntryOf(g, p, k) \ {"out"}]

(* virtualToPhysical(): what the walk ends at lies beyond the dump. *)
WalksOut(g, p) ==
  \E k \in 1 .. Depth(g.mode) :
    /\ IsReached(g.mode, Raw(g, p), k)
    /\ k = Depth(g.mode) \/ EndsAt(g.mode, Raw(g, p), k)
    /\ "out" \in EntryOf(g, p, k)
(* The page itself lies beyond it. *)
OutOfDump(g, p) ==
  IF Giant(g.mode, Raw(g, p)) THEN "out" \in EntryOf(g, p, 2) ELSE WalksOut(g, p)

(* readAtomic() throws at small page p. *)
Unreadable(g, p) ==
  IF p \in LinearPages THEN OutOfDump(g, p)
  ELSE ~Translates(g.mode, Raw(g, p)) \/ WalksOut(g, p)

Init ==
  /\ guest \in Guests
  /\ i = Begin(guest.mode) /\ currentPage = i
  /\ outcome = "scanning"
  /\ ptEntries = [l \in LevelNames |-> Unused]
  /\ executable = 0 /\ hashes = {} /\ hidden = {}

Within(p, first, last) == first <= p /\ p <= last

(* All ends are inclusive; an area with no flags counts as no area. *)
Class(p) ==
  CASE Within(p, KernelCode[1], KernelCode[2]) -> "kernel code"
    [] ~Within(p, KernelCode[1], KernelCode[2]) /\ Within(p, KernelCode[2], KernelData[2]) -> "kernel data"
    [] ~Within(p, KernelCode[1], KernelData[2]) /\ p = VsyscallPage -> "kernel code"
    [] OTHER -> IF \E m \in Modules : Within(p, m[1], m[1] + m[2]) THEN "module"
                ELSE IF \E a \in VmapAreas : Within(p, a[1], a[2]) /\ "lazy" \in a[3] THEN "vmap (lazy)"
                ELSE IF \E a \in VmapAreas : Within(p, a[1], a[2]) /\ a[3] # {} THEN "vmap"
                ELSE "hidden"

(* Mutant: what is not present is not stepped over. *)
MutLook ==
  LET e == PageLookup(guest.mode, Raw(guest, i))
  IN /\ outcome = "scanning" /\ i < End(guest.mode)
     /\ currentPage' = i /\ ptEntries' = e
     /\ i' = IF IsPresent(e) THEN i + Span(guest.mode, NextPage(guest.mode, e)) ELSE i

(* One iteration of the loop. *)
Look ==
  LET e == PageLookup(guest.mode, Raw(guest, i))
  IN /\ outcome = "scanning" /\ i < End(guest.mode)
     /\ currentPage' = i /\ ptEntries' = e
     /\ i' = i + Span(guest.mode, NextPage(guest.mode, e))

(* Mutant: user pages are counted before they are passed over. *)
MutPassOver ==
  /\ Look
  /\ ~IsExecutable(ptEntries') \/ ~IsSupervisor(ptEntries')
  /\ executable' = IF IsExecutable(ptEntries') THEN executable + 1 ELSE executable
  /\ UNCHANGED <<guest, outcome, hashes, hidden>>

PassOver ==
  /\ Look
  /\ ~IsExecutable(ptEntries') \/ ~IsSupervisor(ptEntries')
  /\ UNCHANGED <<guest, outcome, executable, hashes, hidden>>

Take == Look /\ IsExecutable(ptEntries') /\ IsSupervisor(ptEntries') /\ executable' = executable + 1

CanRead == \A p \in i .. i' - 1 : ~Unreadable(guest, p)    \* all of the page

(* readAtomic() throws, and so does hiddenCode(). *)
CannotRead ==
  /\ Take /\ ~CanRead
  /\ outcome' = "failed"
  /\ UNCHANGED <<guest, hashes, hidden>>

Classify ==
  /\ Take /\ CanRead
  /\ IF Class(i) = "hidden" THEN hidden' = hidden \cup {i} /\ UNCHANGED hashes
                            ELSE hashes' = hashes \cup {<<i, Class(i)>>} /\ UNCHANGED hidden
  /\ UNCHANGED <<guest, outcome>>

Stop ==
  /\ outcome = "scanning" /\ i >= End(guest.mode)
  /\ outcome' = "finished"
  /\ UNCHANGED <<guest, i, currentPage, ptEntries, executable, hashes, hidden>>

Next == PassOver \/ CannotRead \/ Classify \/ Stop
Spec == Init /\ [][Next]_vars /\ WF_vars(Next)

----------------------------------------------------------------------------
(* Properties. What the processor does with an address: the levels its
   translation uses. *)
Used(g, p) == {k \in 1 .. Depth(g.mode) : HwReached(g.mode, Raw(g, p), k)}
HwPresent(g, p) == HwTranslates(g.mode, Raw(g, p))
HwExecutable(g, p) ==
  HwPresent(g, p) /\ (g.mode = "x86" \/ \A k \in Used(g, p) : "NX" \notin Raw(g, p)[k])
(* The directory pointers of PAE have no such bits. *)
Protecting(g, p) == {k \in Used(g, p) : g.mode = "pae" => k > 1}
HwSupervisor(g, p) == HwPresent(g, p) /\ \E k \in Protecting(g, p) : "US" \notin Raw(g, p)[k]
HwWriteable(g, p) == HwPresent(g, p) /\ \A k \in Protecting(g, p) : "RW" \in Raw(g, p)[k]
HwLarge(g, p) == HwPresent(g, p) /\ Depth(g.mode) \notin Used(g, p)

TypeOK ==
  /\ outcome \in {"scanning", "finished", "failed"}
  /\ i \in Nat /\ currentPage \in Begin(guest.mode) .. End(guest.mode)
  /\ \A l \in LevelNames : ptEntries[l] \subseteq PADDR_ERROR
  /\ executable = Cardinality(hashes) + Cardinality(hidden) + (IF outcome = "failed" THEN 1 ELSE 0)

Visited == i > Begin(guest.mode)

(* struct PageTableEntries tells of every page what the tables say, although it
   guesses the mode from the entries that are 0; and isExecutable() of the
   VirtualMemory, which unites flags instead, says the same of it. Of a large
   page at the pud both may say that it is not executable although it is, by
   what the walk finds in its content (NxPast), but never that it is although
   it is not; all else they say of it is right. isWriteable()
   overlooks no writeable page and no directory that forbids writing (only the
   page table entry's own bit it does not see). *)
EntriesExact ==
  Visited =>
    LET g == guest
        p == currentPage
    IN /\ IsPresent(ptEntries) <=> HwPresent(g, p)
       /\ IsExecutable(ptEntries) <=> HwExecutable(g, p) /\ ~NxPast(g.mode, Raw(g, p))
       /\ IsPresent(ptEntries) => (IsLargePage(ptEntries) <=> HwLarge(g, p))
       /\ VmIsExecutable(g.mode, Raw(g, p)) <=>
            /\ HwExecutable(g, p) /\ ~NxPast(g.mode, Raw(g, p))
            /\ Giant(g.mode, Raw(g, p)) => Translates(g.mode, Raw(g, p))
       /\ HwWriteable(g, p) => IsWriteable(ptEntries)
       /\ IsWriteable(ptEntries) =>
            \A k \in Protecting(g, p) \ {Depth(g.mode)} : "RW" \in Raw(g, p)[k]

(* nextPageOffset(): the scan steps over exactly the addresses that share the
   entry which decided about currentPage, so that no page is skipped and none
   looked at twice. *)
StepsExact ==
  Visited =>
    LET deciding == Used(guest, currentPage)
        sharing == {p \in Begin(guest.mode) .. End(guest.mode) - 1 :
                      \A k \in deciding :
                        p \div Span(guest.mode, k) = currentPage \div Span(guest.mode, k)}
    IN sharing = currentPage .. i - 1

(* isSupervisor() errs in two cases: a page that only its page table entry
   makes a supervisor page, and a large page that is a user page. *)
OnlyByPte(g, p) == HwSupervisor(g, p) /\ ~HwLarge(g, p)
                   /\ \A k \in Protecting(g, p) \ {Depth(g.mode)} : "US" \in Raw(g, p)[k]
LargeUser(g, p) == HwLarge(g, p) /\ ~HwSupervisor(g, p)

(* A finished scan has classified or reported every executable supervisor page,
   wherever it is and however its table was reached, and no other page (but for
   the two cases above, and for large pages at the pud that NxPast hides). Only
   a page beyond the dump, or a large page at the pud that is read through what
   it contains, can end it before. What was counted as executable is what was
   classified or reported. *)
Starts(g, p) ==    \* p is the first small page of its page
  \E k \in Used(g, p) : k + 1 \notin Used(g, p) /\ p % Span(g.mode, k) = 0
ScanExact ==
  /\ TypeOK
  /\ outcome = "finished" =>
       \A p \in Begin(guest.mode) .. End(guest.mode) - 1 :
         (p \in hidden \cup {h[1] : h \in hashes}) <=>
           /\ Starts(guest, p) /\ HwExecutable(guest, p) /\ ~NxPast(guest.mode, Raw(guest, p))
           /\ LargeUser(guest, p) \/ (HwSupervisor(guest, p) /\ ~OnlyByPte(guest, p))
  /\ outcome = "failed" =>
       \/ OutOfDump(guest, currentPage)
       \/ Giant(guest.mode, Raw(guest, currentPage)) /\ ~(currentPage .. i - 1 \subseteq LinearPages)

(* The scan ends, although its steps depend on what it finds. *)
ScanEnds == <>(outcome # "scanning")
============================================================================
