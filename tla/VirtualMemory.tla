--------------------------- MODULE VirtualMemory ---------------------------
(* VirtualMemory (libinsight/virtualmemory.cpp): random reads of the guest's
   virtual memory, for one thread or for several builders. One physical file
   with one position serves the data and the walks through the page tables;
   _physMemMutex guards each seek-and-read of that file, _virtMemMutex a whole
   readAtomic(). safeSeek() and getFlags() run beside a read and take the first
   mutex only. The TLB is not part of the build (virtualmemory.h:13).

   A byte of physical memory is its address. Memory[a] is what the unit at a
   means when it is read as an entry of a page table. The three paging modes
   differ in the number of levels; a large page is possible at the last level
   but one. A step is a section between two mutex operations, or the unguarded
   code between two sections. *)
EXTENDS Integers, Sequences, FiniteSets

CONSTANTS
  Main,          \* the thread that builds the memory map
  Builders,      \* the threads it starts
  NoThread,      \* "nobody" as the owner of a mutex
  Levels,        \* levels of page tables, 1 the page directory
  Span,          \* what an entry of each level spans: 2 ^ PAGE_SHIFT, PMD_SHIFT, ...
  TableSize,     \* entries of a table: PTRS_PER_PTE, ...
  PageOffset,    \* MemSpecs::pageOffset: the first kernel address
  HighMemory,    \* MemSpecs::highMemory: the first one not mapped linearly
                 \* (VirtEnd + 1 while the MemSpecs are not initialized)
  KernelMap,     \* MemSpecs::startKernelMap, where x86_64 maps physical memory
  ModulesVaddr,  \* again, up to MemSpecs::modulesVaddr (i386: nothing there)
  VirtEnd,       \* size(): the last virtual address
  PhysEnd,       \* _physMemSize
  Memory,        \* [0 .. PhysEnd - 1 -> Entry]
  RootTable,     \* physical address of the page directory
  Jobs,          \* the calls that may be made: [op, pos, len]
  MaxCalls       \* bound: calls per thread

Threads == Builders \cup {Main}
Entry == [present : BOOLEAN, large : BOOLEAN, nx : BOOLEAN, frame : Nat]
Ops == {"readAtomic", "safeSeek", "isExecutable"}
Job == [op : Ops, pos : Nat, len : Nat]

ASSUME ThreadsAssumption == Main \notin Builders /\ NoThread \notin Threads /\ IsFiniteSet(Builders)
ASSUME SpaceAssumption ==
  /\ {TableSize, Levels} \subseteq Nat \ {0} /\ Levels >= 2
  /\ Span \in [1 .. Levels -> Nat \ {0}]
  /\ {PageOffset, HighMemory, KernelMap, ModulesVaddr, VirtEnd, PhysEnd, RootTable, MaxCalls} \subseteq Nat
  /\ PageOffset <= HighMemory /\ HighMemory <= VirtEnd + 1
  /\ HighMemory <= KernelMap /\ KernelMap <= ModulesVaddr /\ ModulesVaddr <= VirtEnd + 1
  /\ Memory \in [0 .. PhysEnd - 1 -> Entry]
(* An entry spans what the table below it spans, and the virtual space ends with
   an entry of the page directory: the shifts of all three paging modes. No page
   reaches into the kernel map (__START_KERNEL_map lies on a whole gigabyte). *)
ASSUME SpansAssumption ==
  /\ \A k \in 1 .. Levels - 1 : Span[k] = TableSize * Span[k + 1]
  /\ (VirtEnd + 1) % Span[1] = 0
  /\ KernelMap % Span[Levels - 1] = 0 /\ KernelMap % Span[Levels] = 0
ASSUME JobsAssumption == Jobs \subseteq Job

PADDR_ERROR == -1    \* 2^64 - 1: the same bits as -1 once it is a qint64

VARIABLES
  pos,          \* _pos: the position in virtual memory
  physPos,      \* the position of _physMem
  physMutex,    \* owner of _physMemMutex
  virtMutex,    \* owner of _virtMemMutex
  threadSafe,   \* _threadSafe
  building,     \* MemoryMap::build() has started its builders
  pc,           \* [Threads -> where the thread is]
  job,          \* [Threads -> its call]
  walk,         \* [Threads -> [vaddr, phase, level, table, nx, phys, size, got]]: its locals
  bytes,        \* [Threads -> Seq(Nat)]: the buffer of its read so far
  answer,       \* [Threads -> [job, kind, bytes, short]]: outcome of its last call
  calls         \* [Threads -> Nat]: calls made

files == <<pos, physPos>>
mutexes == <<physMutex, virtMutex>>
mode == <<threadSafe, building>>
vars == <<files, mutexes, mode, pc, job, walk, bytes, answer, calls>>

NoJob == [op |-> "isExecutable", pos |-> 0, len |-> 0]
NoWalk == [vaddr |-> 0, phase |-> "seek", level |-> 1, table |-> 0, nx |-> FALSE,
           phys |-> 0, size |-> 0, got |-> 0]
NoAnswer == [job |-> NoJob, kind |-> "none", bytes |-> <<>>, short |-> FALSE]

Init ==
  /\ pos = 0 /\ physPos = 0    \* after open()
  /\ physMutex = NoThread /\ virtMutex = NoThread
  /\ threadSafe = FALSE /\ building = FALSE
  /\ pc = [t \in Threads |-> "idle"]
  /\ job = [t \in Threads |-> NoJob]
  /\ walk = [t \in Threads |-> NoWalk]
  /\ bytes = [t \in Threads |-> <<>>]
  /\ answer = [t \in Threads |-> NoAnswer]
  /\ calls = [t \in Threads |-> 0]

----------------------------------------------------------------------------
(* The mutexes: without _threadSafe nothing is locked. *)

LockPhys(t) == IF threadSafe THEN physMutex = NoThread /\ physMutex' = t
                             ELSE UNCHANGED physMutex
UnlockPhys(t) == physMutex' = IF threadSafe THEN NoThread ELSE physMutex
(* A section that no other step of the thread falls into. *)
PhysSection(t) == (threadSafe => physMutex = NoThread) /\ UNCHANGED physMutex

Goto(t, l) == pc' = [pc EXCEPT ![t] = l]

(* Mutant: an exception leaves readAtomic() without unlocking. *)
MutFinish(t, kind, data, short) ==
  /\ answer' = [answer EXCEPT ![t] = [job |-> job[t], kind |-> kind, bytes |-> data, short |-> short]]
  /\ virtMutex' = IF virtMutex = t /\ kind # "exception" THEN NoThread ELSE virtMutex
  /\ job' = [job EXCEPT ![t] = NoJob] /\ walk' = [walk EXCEPT ![t] = NoWalk]
  /\ bytes' = [bytes EXCEPT ![t] = <<>>]
  /\ Goto(t, "idle")

(* The call returns or throws; a lock of readAtomic() is released. *)
Finish(t, kind, data, short) ==
  /\ answer' = [answer EXCEPT ![t] = [job |-> job[t], kind |-> kind, bytes |-> data, short |-> short]]
  /\ virtMutex' = IF virtMutex = t THEN NoThread ELSE virtMutex
  /\ job' = [job EXCEPT ![t] = NoJob] /\ walk' = [walk EXCEPT ![t] = NoWalk]
  /\ bytes' = [bytes EXCEPT ![t] = <<>>]
  /\ Goto(t, "idle")

(* The address does not translate: an exception, false from safeSeek(), whose
   own test for PADDR_ERROR lets it pass on to a seek that fails, and false
   from isExecutable(), which catches the exception. *)
Untranslatable(t) ==
  CASE job[t].op = "readAtomic"   -> Finish(t, "exception", <<>>, FALSE)
    [] job[t].op = "isExecutable" -> Finish(t, "false", <<>>, FALSE)
    [] job[t].op = "safeSeek"     ->
         /\ walk' = [walk EXCEPT ![t].phys = PADDR_ERROR] /\ Goto(t, "seekPhys")
         /\ UNCHANGED <<job, bytes, answer, virtMutex>>

----------------------------------------------------------------------------
(* Calls *)

Call(t, j) ==
  /\ pc[t] = "idle" /\ calls[t] < MaxCalls
  /\ (t = Main) # building
  /\ calls' = [calls EXCEPT ![t] = @ + 1]
  /\ job' = [job EXCEPT ![t] = j]
  /\ Goto(t, CASE j.op = "readAtomic" -> "lockVirt" [] j.op = "safeSeek" -> "check"
               [] j.op = "isExecutable" -> "translate")
  /\ UNCHANGED <<files, mutexes, mode, walk, bytes, answer>>

(* Mutant: readAtomic() does not lock. *)
MutLockVirt(t) ==
  /\ pc[t] = "lockVirt"
  /\ Goto(t, "check")
  /\ UNCHANGED <<files, mutexes, mode, job, walk, bytes, answer, calls>>

LockVirt(t) ==
  /\ pc[t] = "lockVirt"
  /\ IF threadSafe THEN virtMutex = NoThread /\ virtMutex' = t ELSE UNCHANGED virtMutex
  /\ Goto(t, "check")
  /\ UNCHANGED <<files, physMutex, mode, job, walk, bytes, answer, calls>>

(* readData() begins: it translates nothing when nothing is to be read. *)
Loop(t) == IF job[t].len > 0 THEN "translate" ELSE "advance"

(* seek() and safeSeek() begin alike: nothing is translated when the position
   is the wanted one already. *)
Check(t) ==
  /\ pc[t] = "check"
  /\ PhysSection(t)
  /\ IF job[t].pos > VirtEnd
     THEN IF job[t].op = "safeSeek" THEN Finish(t, "false", <<>>, FALSE)
                                    ELSE Finish(t, "minus one", <<>>, FALSE)
     ELSE IF pos # job[t].pos
     THEN Goto(t, "translate") /\ UNCHANGED <<virtMutex, job, walk, bytes, answer>>
     ELSE IF job[t].op = "safeSeek"
     THEN Finish(t, "true", <<>>, TRUE)
     ELSE /\ walk' = [walk EXCEPT ![t].phase = "data"]
          /\ Goto(t, Loop(t)) /\ UNCHANGED <<virtMutex, job, bytes, answer>>
  /\ UNCHANGED <<files, mode, calls>>

----------------------------------------------------------------------------
(* virtualToPhysical() *)

WithEntries(t) == job[t].op = "isExecutable"    \* ptEntries # 0
InKernelMap(v) == KernelMap <= v /\ v < ModulesVaddr
IsLinear(v) == InKernelMap(v) \/ (PageOffset <= v /\ v < HighMemory)
LinearBase(v) == IF InKernelMap(v) THEN KernelMap ELSE PageOffset
LinearEnd(v) == IF InKernelMap(v) THEN ModulesVaddr ELSE HighMemory

(* The space ends where the page directory does: no modulus at level 1. *)
Index(v, level) ==
  LET n == v \div Span[level]
  IN IF level = 1 THEN n ELSE n % TableSize

(* Where the translated address is used; getFlags() unites the NX bits of all
   levels, and isExecutable() looks at nothing else. *)
Use(t, phys, size, nx) ==
  IF job[t].op = "isExecutable"
  THEN Finish(t, IF nx THEN "false" ELSE "true", <<>>, FALSE)
  ELSE /\ walk' = [walk EXCEPT ![t].phys = phys, ![t].size = size]
       /\ Goto(t, IF walk[t].phase = "seek" THEN "seekPhys" ELSE "seekData")
       /\ UNCHANGED <<virtMutex, job, bytes, answer>>

Translated(t, phys, size, nx) ==
  IF phys >= PhysEnd THEN Untranslatable(t) ELSE Use(t, phys, size, nx)

Translate(t) ==
  /\ pc[t] = "translate"
  /\ LET v == IF walk[t].phase = "data" THEN pos ELSE job[t].pos
     IN IF v < PageOffset \/ v > VirtEnd THEN Untranslatable(t)
        ELSE IF IsLinear(v) /\ ~WithEntries(t)
        THEN Translated(t, v - LinearBase(v), PADDR_ERROR, FALSE)
        ELSE /\ walk' = [walk EXCEPT ![t].vaddr = v, ![t].level = 1, ![t].table = RootTable, ![t].nx = FALSE]
             /\ Goto(t, "seekEntry") /\ UNCHANGED <<virtMutex, job, bytes, answer>>
  /\ UNCHANGED <<files, physMutex, mode, calls>>

(* Mutant: the walk seeks and reads without _physMemMutex. *)
MutSeekEntry(t) ==
  /\ pc[t] = "seekEntry"
  /\ physPos' = walk[t].table + Index(walk[t].vaddr, walk[t].level)
  /\ Goto(t, "readEntry")
  /\ UNCHANGED <<pos, mutexes, mode, job, walk, bytes, answer, calls>>

(* extractFromPhysMem(): lock and seek, then read and unlock. *)
SeekEntry(t) ==
  /\ pc[t] = "seekEntry"
  /\ LockPhys(t)
  /\ physPos' = walk[t].table + Index(walk[t].vaddr, walk[t].level)
  /\ Goto(t, "readEntry")
  /\ UNCHANGED <<pos, virtMutex, mode, job, walk, bytes, answer, calls>>

(* pageLookup32(), pageLookup64(): one level. A large bit of a level above is
   not looked at (PageTables says what comes of that). *)
Level(t, e) ==
  LET l == walk[t].level
      nx == walk[t].nx \/ e.nx
  IN IF ~e.present THEN Untranslatable(t)
     ELSE IF l = Levels \/ (l = Levels - 1 /\ e.large)
     THEN Translated(t, e.frame + (walk[t].vaddr % Span[l]), Span[l], nx)
     ELSE /\ walk' = [walk EXCEPT ![t].level = l + 1, ![t].table = e.frame, ![t].nx = nx]
          /\ Goto(t, "seekEntry") /\ UNCHANGED <<virtMutex, job, bytes, answer>>

(* Mutant: the mutex is kept when the entry cannot be read. *)
MutReadEntry(t) ==
  /\ pc[t] = "readEntry"
  /\ IF physPos < PhysEnd
     THEN Level(t, Memory[physPos]) /\ physPos' = physPos + 1 /\ UnlockPhys(t)
     ELSE Untranslatable(t) /\ UNCHANGED <<physPos, physMutex>>
  /\ UNCHANGED <<pos, mode, calls>>

ReadEntry(t) ==
  /\ pc[t] = "readEntry"
  /\ UnlockPhys(t)
  /\ IF physPos < PhysEnd THEN Level(t, Memory[physPos]) /\ physPos' = physPos + 1
                          ELSE Untranslatable(t) /\ UNCHANGED physPos
  /\ UNCHANGED <<pos, mode, calls>>

----------------------------------------------------------------------------
(* The ends of the calls *)

(* Mutant: safeSeek() sets the position as its header promises. *)
MutSeekPhys(t) ==
  /\ pc[t] = "seekPhys"
  /\ PhysSection(t)
  /\ physPos' = IF walk[t].phys = PADDR_ERROR THEN physPos ELSE walk[t].phys
  /\ IF job[t].op = "safeSeek"
     THEN Finish(t, IF walk[t].phys = PADDR_ERROR THEN "false" ELSE "true", <<>>, FALSE) /\ pos' = job[t].pos
     ELSE Goto(t, "setPos") /\ UNCHANGED <<pos, virtMutex, job, walk, bytes, answer>>
  /\ UNCHANGED <<mode, calls>>

(* seek(), safeSeek(): the physical seek. Only seek() will set _pos. *)
SeekPhys(t) ==
  /\ pc[t] = "seekPhys"
  /\ PhysSection(t)
  /\ physPos' = IF walk[t].phys = PADDR_ERROR THEN physPos ELSE walk[t].phys
  /\ IF job[t].op = "safeSeek"
     THEN Finish(t, IF walk[t].phys = PADDR_ERROR THEN "false" ELSE "true", <<>>, FALSE)
     ELSE Goto(t, "setPos") /\ UNCHANGED <<virtMutex, job, walk, bytes, answer>>
  /\ UNCHANGED <<pos, mode, calls>>

SetPos(t) ==
  /\ pc[t] = "setPos"
  /\ pos' = job[t].pos
  /\ walk' = [walk EXCEPT ![t].phase = "data"]
  /\ Goto(t, Loop(t))
  /\ UNCHANGED <<physPos, mutexes, mode, job, bytes, answer, calls>>

(* readData(): one piece, up to the end of a page or of linear memory. *)
SeekData(t) ==
  /\ pc[t] = "seekData"
  /\ LockPhys(t)
  /\ physPos' = walk[t].phys
  /\ Goto(t, "readData")
  /\ UNCHANGED <<pos, virtMutex, mode, job, walk, bytes, answer, calls>>

Smaller(a, b) == IF a < b THEN a ELSE b

Piece(t) ==
  LET left == job[t].len - Len(bytes[t])
      size == walk[t].size
  IN IF size = PADDR_ERROR THEN left ELSE Smaller(left, size - (pos % size))

ReadData(t) ==
  /\ pc[t] = "readData"
  /\ UnlockPhys(t)
  /\ LET n == IF physPos < PhysEnd THEN Smaller(Piece(t), PhysEnd - physPos) ELSE 0
     IN /\ bytes' = [bytes EXCEPT ![t] = @ \o [k \in 1 .. n |-> physPos + k - 1]]
        /\ physPos' = physPos + n
        /\ walk' = [walk EXCEPT ![t].got = n]
  /\ Goto(t, "advance")
  /\ UNCHANGED <<pos, virtMutex, mode, job, answer, calls>>

Advance(t) ==
  /\ pc[t] = "advance"
  /\ pos' = pos + walk[t].got
  /\ IF Len(bytes[t]) < job[t].len /\ walk[t].got > 0
     THEN Goto(t, "translate") /\ UNCHANGED <<virtMutex, job, walk, bytes, answer>>
     ELSE Finish(t, "bytes", bytes[t], FALSE)
  /\ UNCHANGED <<physPos, physMutex, mode, calls>>

----------------------------------------------------------------------------
(* MemoryMap::build(): several builders share a thread-safe memory; the main
   thread waits for all of them before it switches the locks off again. *)

StartBuilders ==
  /\ ~building /\ pc[Main] = "idle"
  /\ building' = TRUE /\ threadSafe' = (Cardinality(Builders) > 1)
  /\ UNCHANGED <<files, mutexes, pc, job, walk, bytes, answer, calls>>

BuildersDone ==
  /\ building /\ \A t \in Builders : pc[t] = "idle"
  /\ building' = FALSE /\ threadSafe' = FALSE
  /\ UNCHANGED <<files, mutexes, pc, job, walk, bytes, answer, calls>>

Step(t) ==
  \/ LockVirt(t) \/ Check(t) \/ Translate(t) \/ SeekEntry(t) \/ ReadEntry(t)
  \/ SeekPhys(t) \/ SetPos(t) \/ SeekData(t) \/ ReadData(t) \/ Advance(t)

Next ==
  \/ \E t \in Threads : Step(t) \/ \E j \in Jobs : Call(t, j)
  \/ StartBuilders \/ BuildersDone

Spec == Init /\ [][Next]_vars
(* A thread that can run does; calls are not obliged to come. *)
FairSpec == Spec /\ \A t \in Threads : WF_vars(Step(t))

----------------------------------------------------------------------------
(* Properties *)

Labels == {"idle", "lockVirt", "check", "translate", "seekEntry", "readEntry", "seekPhys",
           "setPos", "seekData", "readData", "advance"}
InPhysSection(t) == pc[t] \in {"readEntry", "readData"}
InRead(t) == job[t].op = "readAtomic" /\ pc[t] \notin {"idle", "lockVirt"}

(* Types, and that each mutex is owned by exactly the thread that is in the
   section it guards (extractFromPhysMem(), readData(); readAtomic()): no way
   out of a section, by return or by exception, forgets the mutex. *)
TypeOK ==
  /\ {pos, physPos} \subseteq Nat
  /\ threadSafe \in BOOLEAN /\ building \in BOOLEAN
  /\ pc \in [Threads -> Labels] /\ calls \in [Threads -> 0 .. MaxCalls]
  /\ job \in [Threads -> Jobs \cup {NoJob}]
  /\ \A t \in Threads : (physMutex = t) = (threadSafe /\ InPhysSection(t))
  /\ \A t \in Threads : (virtMutex = t) = (threadSafe /\ InRead(t))
  /\ {physMutex, virtMutex} \subseteq Threads \cup {NoThread}

(* What the page tables say, without the walk: a path from the root through
   present entries to a page that holds v. *)
Frames == {RootTable} \cup {Memory[a].frame : a \in DOMAIN Memory}
OnPath(v, path, n) ==
  LET E(k) == Memory[path[k] + Index(v, k)]
  IN /\ path[1] = RootTable
     /\ \A k \in 1 .. n : path[k] + Index(v, k) < PhysEnd /\ E(k).present
     /\ \A k \in 1 .. n - 1 : path[k + 1] = E(k).frame /\ (k = Levels - 1 => ~E(k).large)
     /\ n = Levels - 1 => E(n).large
PageAt(v, path, n) ==
  Memory[path[n] + Index(v, n)].frame + (v % Span[n])
(* The pages that hold v: <<path, level of the page's own entry>>. *)
Pages(v) == {pn \in [1 .. Levels -> Frames] \X {Levels - 1, Levels} : OnPath(v, pn[1], pn[2])}

InSpace(v) == PageOffset <= v /\ v <= VirtEnd
Targets(v) ==
  {p \in IF IsLinear(v) THEN {v - LinearBase(v)} ELSE {PageAt(v, pn[1], pn[2]) : pn \in Pages(v)} :
     p < PhysEnd}
Maps(v, p) == InSpace(v) /\ p \in Targets(v)
IsMapped(v) == InSpace(v) /\ Targets(v) # {}
Executable(v) ==
  InSpace(v) /\ \E pn \in Pages(v) :
    /\ PageAt(v, pn[1], pn[2]) < PhysEnd
    /\ \A k \in 1 .. pn[2] : ~Memory[pn[1][k] + Index(v, k)].nx

(* readData() does not end a piece where linear memory ends. *)
BeyondLinear(j, v, p) ==
  \E s \in j.pos .. v : IsLinear(s) /\ v >= LinearEnd(s) /\ p = v - LinearBase(s)

(* Whatever the other builders read, translate or probe on the one physical
   file meanwhile: the bytes that readAtomic() returns are those the page
   tables map at the addresses asked for, all of them and in order (beyond the
   end of linear memory, those that follow physically). *)
BytesExact ==
  \A t \in Threads : answer[t].kind = "bytes" =>
    LET j == answer[t].job
        got == answer[t].bytes
    IN /\ Len(got) = j.len
       /\ \A k \in 1 .. Len(got) :
            Maps(j.pos + k - 1, got[k]) \/ BeyondLinear(j, j.pos + k - 1, got[k])

(* readAtomic() fails only for an address that is not mapped (the first one, to
   which it seeks, or another one to be read); safeSeek() and
   isExecutable() tell what the page tables say, but for a safeSeek() to the
   current position, which is answered without a translation. *)
AnswersExact ==
  \A t \in Threads :
    LET j == answer[t].job
        ok == answer[t].kind = "true"
    IN /\ answer[t].kind = "exception" => \E k \in {0} \cup 0 .. j.len - 1 : ~IsMapped(j.pos + k)
       /\ answer[t].kind = "minus one" => ~InSpace(j.pos)
       /\ answer[t].kind \in {"true", "false"} /\ j.op = "isExecutable" => ok = Executable(j.pos)
       /\ answer[t].kind \in {"true", "false"} /\ j.op = "safeSeek" /\ ~answer[t].short =>
            ok = IsMapped(j.pos)

(* _pos, which readData() uses again after each piece, moves only under the
   read that owns _virtMemMutex: safeSeek() and the walks leave it alone. The
   position of the physical file, once a thread has set it for a read, moves
   with that read and no other seek, walk or read: who moves it finds nobody
   else between a seek and its read. *)
PositionOwned ==
  [][/\ pos' # pos => \E t \in Threads : InRead(t) /\ (threadSafe => virtMutex = t)
     /\ physPos' # physPos =>
          \A t \in Threads : InPhysSection(t) => pc'[t] # pc[t]]_vars

(* Every call returns or throws, also those that failed in the middle: nobody
   waits for ever for a mutex that a failed read or walk has kept. *)
CallsEnd == \A t \in Threads : pc[t] # "idle" ~> pc[t] = "idle"
============================================================================
