------------------------ MODULE VirtualMemoryProofs ------------------------
(* Theorems about VirtualMemory for any threads, calls, page tables and number
   of levels: no mutex is forgotten, no position is moved without one, and what
   reads, probes and flag requests return is right. The walk through the page
   tables finds the page there is and no other, and no other thread moves a
   position between the step that sets it and the step that uses it. *)
EXTENDS VirtualMemory, TLAPS, WellFoundedInduction, SequenceTheorems, FiniteSetTheorems

(* A set of natural numbers that is not empty has a least member: what these
   proofs use in place of induction. *)
LEMMA Least ==
  ASSUME NEW S, S \subseteq Nat, S # {}
  PROVE  \E x \in S : \A y \in S : x <= y
<1> DEFINE R == OpToRel(<, Nat)
<1>1. IsWellFoundedOn(R, Nat)
  BY NatLessThanWellFounded
<1>2. \A x, y \in Nat : x < y => <<x, y>> \in R
  BY DEF OpToRel
<1> HIDE DEF R
<1>3. PICK x \in S : \A y \in S : <<y, x>> \notin R
  BY <1>1, WFMin
<1>4. \A y \in S : ~(y < x)
  BY <1>2, <1>3
<1>5. \A y \in S : x <= y
  BY <1>4
<1> QED  BY <1>5

(* Quotient and remainder. *)
LEMMA Quotient ==
  ASSUME NEW s \in Nat \ {0}, NEW q \in Nat, NEW r \in 0 .. s - 1
  PROVE  (s * q + r) \div s = q /\ (s * q + r) % s = r
<1> DEFINE n == s * q + r
<1>1. n \in Nat
  OBVIOUS
<1>2. n = s * (n \div s) + (n % s) /\ n % s \in 0 .. s - 1 /\ n \div s \in Nat
  BY <1>1
<1> DEFINE d == n \div s
<1>3. ~(d < q)
  <2>1. SUFFICES ASSUME d < q PROVE FALSE
    OBVIOUS
  <2>2. s * (d + 1) <= s * q
    BY <1>2, <2>1
  <2> QED  BY <1>2, <2>2
<1>4. ~(d > q)
  <2>1. SUFFICES ASSUME d > q PROVE FALSE
    OBVIOUS
  <2>2. s * (q + 1) <= s * d
    BY <1>2, <2>1
  <2> QED  BY <1>2, <2>2
<1>5. d = q
  BY <1>2, <1>3, <1>4
<1> QED  BY <1>2, <1>5

(* A larger span is made of whole smaller ones. *)
LEMMA Nested ==
  ASSUME NEW s \in Nat \ {0}, NEW m \in Nat \ {0}, NEW v \in Nat
  PROVE  v \div (m * s) = (v \div s) \div m
<1>1. PICK q \in Nat : q = v \div s
  OBVIOUS
<1>2. PICK r \in 0 .. s - 1 : v = s * q + r
  <2>1. v = s * (v \div s) + (v % s) /\ v % s \in 0 .. s - 1
    OBVIOUS
  <2> QED  BY <1>1, <2>1
<1>3. PICK p \in Nat : p = q \div m
  OBVIOUS
<1>4. PICK t \in 0 .. m - 1 : q = m * p + t
  <2>1. q = m * (q \div m) + (q % m) /\ q % m \in 0 .. m - 1
    OBVIOUS
  <2> QED  BY <1>3, <2>1
<1>5. v = (m * s) * p + (s * t + r)
  <2>1. s * (m * p + t) = (m * s) * p + s * t
    OBVIOUS
  <2> QED  BY <1>2, <1>4, <2>1
<1>6. m * s \in Nat \ {0}
  OBVIOUS
<1>7. s * t + r \in 0 .. (m * s) - 1
  <2>1. s * t <= s * (m - 1)
    OBVIOUS
  <2>2. s * (m - 1) = m * s - s
    OBVIOUS
  <2>3. s * t \in Nat
    OBVIOUS
  <2> QED  BY <2>1, <2>2, <2>3
<1>8. PICK n, w \in Nat : n = m * s /\ w = s * t + r
  BY <1>6, <1>7
<1>9. v \div n = p
  <2>1. v = n * p + w /\ n \in Nat \ {0} /\ w \in 0 .. n - 1
    BY <1>5, <1>6, <1>7, <1>8
  <2> QED  BY <2>1, Quotient
<1> QED  BY <1>1, <1>3, <1>8, <1>9

----------------------------------------------------------------------------
(* Which thread owns which mutex follows from where the threads are, once the
   locals of a thread are known to fit its place in the code. *)

Walk == [vaddr : Nat, phase : {"seek", "data"}, level : 1 .. Levels, table : Nat,
         nx : BOOLEAN, phys : Nat \cup {PADDR_ERROR}, size : Nat \cup {PADDR_ERROR}, got : Nat]

LocalsType == walk \in [Threads -> Walk] /\ bytes \in [Threads -> Seq(Nat)]

LocalOK(t) ==
  /\ pc[t] = "idle" => bytes[t] = <<>> /\ walk[t] = NoWalk
  /\ pc[t] \in {"lockVirt", "setPos", "seekData", "readData", "advance"} => job[t].op = "readAtomic"
  /\ walk[t].phase = "data" => job[t].op = "readAtomic"
  /\ pc[t] \in {"check", "seekPhys"} => job[t].op # "isExecutable"
  /\ pc[t] \in {"lockVirt", "check", "seekPhys"} => walk[t].phase = "seek"
  /\ pc[t] \in {"seekData", "readData"} => walk[t].phys \in Nat /\ walk[t].size # 0
  /\ pc[t] # "idle" => Len(bytes[t]) <= job[t].len

(* MemoryMap::build(): the locks are on only while builders run, and the main
   thread is in none of its calls then. *)
ModeOK == IF building THEN pc[Main] = "idle"
                      ELSE ~threadSafe /\ \A b \in Builders : pc[b] = "idle"

TypeInv == TypeOK /\ LocalsType /\ (\A t \in Threads : LocalOK(t)) /\ ModeOK

(* What every step of a thread leaves to the others. *)
OnlyBy(t) ==
  /\ UNCHANGED mode
  /\ \A u \in Threads \ {t} :
       /\ pc'[u] = pc[u] /\ job'[u] = job[u] /\ walk'[u] = walk[u] /\ bytes'[u] = bytes[u]
       /\ (physMutex' = u) = (physMutex = u)
       /\ (virtMutex' = u) = (virtMutex = u)

(* ... and what it has to show about its own thread. *)
OwnType(t) ==
  /\ pos' \in Nat /\ physPos' \in Nat
  /\ pc' \in [Threads -> Labels] /\ calls' \in [Threads -> 0 .. MaxCalls]
  /\ job' \in [Threads -> Jobs \cup {NoJob}]
  /\ walk' \in [Threads -> Walk] /\ bytes' \in [Threads -> Seq(Nat)]
  /\ physMutex' \in Threads \cup {NoThread} /\ virtMutex' \in Threads \cup {NoThread}
  /\ (physMutex' = t) = (threadSafe /\ InPhysSection(t)')
  /\ (virtMutex' = t) = (threadSafe /\ InRead(t)')
  /\ LocalOK(t)'

LEMMA OneThread ==
  ASSUME TypeInv, NEW t \in Threads, OnlyBy(t), OwnType(t), ModeOK'
  PROVE  TypeInv'
<1>1. \A u \in Threads \ {t} : LocalOK(u)'
  BY DEF TypeInv, OnlyBy, LocalOK
<1>2. \A u \in Threads \ {t} : /\ (physMutex' = u) = (threadSafe /\ InPhysSection(u)')
                               /\ (virtMutex' = u) = (threadSafe /\ InRead(u)')
  BY DEF TypeInv, TypeOK, OnlyBy, InPhysSection, InRead
<1>3. threadSafe' = threadSafe /\ building' = building
  BY DEF OnlyBy, mode
<1> QED  BY ZenonT(60), <1>1, <1>2, <1>3 DEF TypeInv, TypeOK, LocalsType, OwnType

LEMMA ModeKept ==
  ASSUME TypeInv, NEW t \in Threads, OnlyBy(t), pc[t] # "idle" \/ (t = Main) # building
  PROVE  ModeOK'
<1>1. building' = building /\ threadSafe' = threadSafe
  BY DEF OnlyBy, mode
<1>2. \A u \in Threads \ {t} : pc'[u] = pc[u]
  BY DEF OnlyBy
<1>3. CASE building
  <2>1. t # Main
    BY <1>3 DEF TypeInv, ModeOK
  <2> QED  BY <1>1, <1>2, <1>3, <2>1 DEF TypeInv, ModeOK, Threads
<1>4. CASE ~building
  <2>1. t \notin Builders
    BY <1>4, ThreadsAssumption DEF TypeInv, TypeOK, ModeOK
  <2> QED  BY <1>1, <1>2, <1>4, <2>1 DEF TypeInv, ModeOK, Threads
<1> QED  BY <1>3, <1>4

----------------------------------------------------------------------------
(* The ways out *)

LEMMA NoWalkType == NoWalk \in Walk
BY SpaceAssumption DEF NoWalk, Walk

(* A call that returns or throws: its mutex, if any, is released. *)
LEMMA FinishType ==
  ASSUME TypeInv, NEW t \in Threads, NEW kind, NEW data, NEW short,
         pc[t] # "idle", Finish(t, kind, data, short), UNCHANGED <<mode, calls>>,
         {pos', physPos'} \subseteq Nat,
         physMutex' = (IF threadSafe /\ InPhysSection(t) THEN NoThread ELSE physMutex)
  PROVE  OnlyBy(t) /\ OwnType(t)
<1>1. OnlyBy(t)
  BY ThreadsAssumption DEF OnlyBy, Finish, Goto, TypeInv, TypeOK, LocalsType
<1>2. walk' \in [Threads -> Walk] /\ walk'[t] = NoWalk /\ bytes' \in [Threads -> Seq(Nat)] /\ bytes'[t] = <<>>
  BY NoWalkType DEF Finish, TypeInv, LocalsType
<1>3. pc' \in [Threads -> Labels] /\ pc'[t] = "idle" /\ job' \in [Threads -> Jobs \cup {NoJob}]
  BY DEF Finish, Goto, TypeInv, TypeOK, Labels
<1>4. LocalOK(t)'
  BY <1>2, <1>3 DEF LocalOK, NoWalk
<1>5. physMutex' # t /\ virtMutex' # t
  BY ThreadsAssumption DEF Finish, TypeInv, TypeOK
<1>6. physMutex' \in Threads \cup {NoThread} /\ virtMutex' \in Threads \cup {NoThread}
  BY DEF Finish, TypeInv, TypeOK
<1> QED  BY <1>1, <1>2, <1>3, <1>4, <1>5, <1>6 DEF OwnType, TypeInv, TypeOK, InPhysSection, InRead

LEMMA JobType ==
  ASSUME TypeInv, NEW t \in Threads
  PROVE  job[t] \in Job /\ job[t].op \in Ops /\ job[t].pos \in Nat /\ job[t].len \in Nat
BY JobsAssumption DEF TypeInv, TypeOK, NoJob, Job, Ops

(* A step that leaves the call unfinished. *)
LEMMA GoOnType ==
  ASSUME TypeInv, NEW t \in Threads, NEW l \in Labels \ {"idle", "lockVirt"}, NEW w \in Walk,
         pc[t] \notin {"idle", "lockVirt"},
         Goto(t, l), walk' = [walk EXCEPT ![t] = w],
         UNCHANGED <<mode, virtMutex, job, bytes, calls>>,
         {pos', physPos'} \subseteq Nat,
         physMutex' \in Threads \cup {NoThread},
         \A u \in Threads \ {t} : (physMutex' = u) = (physMutex = u),
         (physMutex' = t) = (threadSafe /\ l \in {"readEntry", "readData"}),
         l \in {"setPos", "seekData", "readData", "advance"} => job[t].op = "readAtomic",
         w.phase = "data" => job[t].op = "readAtomic",
         l \in {"check", "seekPhys"} => job[t].op # "isExecutable" /\ w.phase = "seek",
         l \in {"seekData", "readData"} => w.phys \in Nat /\ w.size # 0
  PROVE  OnlyBy(t) /\ OwnType(t)
<1>1. OnlyBy(t)
  BY DEF OnlyBy, Goto, TypeInv, TypeOK, LocalsType
<1>2. walk' \in [Threads -> Walk] /\ walk'[t] = w /\ bytes' \in [Threads -> Seq(Nat)] /\ bytes' = bytes
  BY DEF TypeInv, LocalsType
<1>3. pc' \in [Threads -> Labels] /\ pc'[t] = l /\ job' = job
  BY DEF Goto, TypeInv, TypeOK
<1>4. LocalOK(t)'
  BY <1>2, <1>3 DEF LocalOK, TypeInv
<1>5. (virtMutex' = t) = (threadSafe /\ InRead(t)')
  BY <1>3 DEF TypeInv, TypeOK, InRead
<1>6. (physMutex' = t) = (threadSafe /\ InPhysSection(t)')
  BY <1>3 DEF InPhysSection
<1> QED  BY <1>1, <1>2, <1>3, <1>4, <1>5, <1>6 DEF OwnType, TypeInv, TypeOK

(* physMutex after a step that begins in the section, or is one. *)
Released(t) == physMutex' = IF threadSafe /\ InPhysSection(t) THEN NoThread ELSE physMutex

LEMMA ReleasedOwner ==
  ASSUME TypeInv, NEW t \in Threads, Released(t)
  PROVE  /\ physMutex' \in Threads \cup {NoThread} /\ physMutex' # t
         /\ \A u \in Threads \ {t} : (physMutex' = u) = (physMutex = u)
BY ThreadsAssumption DEF TypeInv, TypeOK, Released

LEMMA UntranslatableType ==
  ASSUME TypeInv, NEW t \in Threads, pc[t] \in {"translate", "readEntry"}, Untranslatable(t),
         UNCHANGED <<mode, calls, pos>>, physPos' \in Nat, Released(t)
  PROVE  OnlyBy(t) /\ OwnType(t)
<1>0. pos' \in Nat
  BY DEF TypeInv, TypeOK
<1>1. CASE job[t].op = "readAtomic"
  BY <1>0, <1>1, FinishType DEF Untranslatable, Released
<1>2. CASE job[t].op = "isExecutable"
  BY <1>0, <1>2, FinishType DEF Untranslatable, Released
<1>3. CASE job[t].op = "safeSeek"
  <2> DEFINE w == [walk[t] EXCEPT !.phys = PADDR_ERROR]
  <2>1. w \in Walk /\ w.phase = walk[t].phase
    BY DEF TypeInv, LocalsType, Walk
  <2>2. walk' = [walk EXCEPT ![t] = w] /\ Goto(t, "seekPhys") /\ UNCHANGED <<job, bytes, virtMutex>>
    BY <1>3 DEF Untranslatable
  <2>3. w.phase = "seek"
    BY <1>3, <2>1 DEF TypeInv, LocalOK, LocalsType, Walk
  <2> HIDE DEF w
  <2> QED  BY <1>0, <1>3, <2>1, <2>2, <2>3, GoOnType, ReleasedOwner DEF Labels
<1> QED  BY <1>1, <1>2, <1>3, JobType DEF Ops

LEMMA UseType ==
  ASSUME TypeInv, NEW t \in Threads, pc[t] \in {"translate", "readEntry"},
         NEW phys \in Nat, NEW size \in (Nat \ {0}) \cup {PADDR_ERROR}, NEW nx,
         Use(t, phys, size, nx), UNCHANGED <<mode, calls, pos>>, physPos' \in Nat, Released(t)
  PROVE  OnlyBy(t) /\ OwnType(t)
<1>0. pos' \in Nat
  BY DEF TypeInv, TypeOK
<1>1. CASE job[t].op = "isExecutable"
  BY <1>0, <1>1, FinishType DEF Use, Released
<1>2. CASE job[t].op # "isExecutable"
  <2> DEFINE w == [walk[t] EXCEPT !.phys = phys, !.size = size]
             l == IF walk[t].phase = "seek" THEN "seekPhys" ELSE "seekData"
  <2>1. w \in Walk /\ w.phase = walk[t].phase /\ w.phys = phys /\ w.size = size /\ w.phase \in {"seek", "data"}
    BY DEF TypeInv, LocalsType, Walk
  <2>2. walk' = [walk EXCEPT ![t] = w] /\ Goto(t, l) /\ UNCHANGED <<job, bytes, virtMutex>>
    BY <1>2 DEF Use
  <2>3. l \in Labels \ {"idle", "lockVirt"} /\ (l = "seekData" => job[t].op = "readAtomic")
        /\ l \in {"seekPhys", "seekData"} /\ (l = "seekPhys" => w.phase = "seek")
        /\ (w.phase = "data" => job[t].op = "readAtomic")
    BY <2>1 DEF TypeInv, LocalOK, Labels
  <2>4. size # 0
    BY DEF PADDR_ERROR
  <2> HIDE DEF w, l
  <2> QED  BY <1>0, <1>2, <2>1, <2>2, <2>3, <2>4, GoOnType, ReleasedOwner
<1> QED  BY <1>1, <1>2

LEMMA TranslatedType ==
  ASSUME TypeInv, NEW t \in Threads, pc[t] \in {"translate", "readEntry"},
         NEW phys \in Nat, NEW size \in (Nat \ {0}) \cup {PADDR_ERROR}, NEW nx,
         Translated(t, phys, size, nx), UNCHANGED <<mode, calls, pos>>, physPos' \in Nat, Released(t)
  PROVE  OnlyBy(t) /\ OwnType(t)
BY UseType, UntranslatableType DEF Translated

----------------------------------------------------------------------------
(* The steps *)

LEMMA CallType ==
  ASSUME TypeInv, NEW t \in Threads, NEW j \in Jobs, Call(t, j)
  PROVE  OnlyBy(t) /\ OwnType(t)
<1> DEFINE l == CASE j.op = "readAtomic" -> "lockVirt" [] j.op = "safeSeek" -> "check"
                  [] j.op = "isExecutable" -> "translate"
<1>0. j \in Job /\ j.op \in Ops /\ j.len \in Nat
  BY JobsAssumption DEF Job
<1>1. /\ l \in {"lockVirt", "check", "translate"}
      /\ l = "lockVirt" => j.op = "readAtomic"
      /\ l = "check" => j.op = "safeSeek"
      /\ l = "translate" => j.op = "isExecutable"
  BY <1>0 DEF Ops
<1>2. pc' = [pc EXCEPT ![t] = l]
  BY DEF Call, Goto
<1> HIDE DEF l
<1>3. OnlyBy(t)
  BY <1>2 DEF Call, OnlyBy, mutexes, mode, TypeInv, TypeOK
<1>4. pc' \in [Threads -> Labels] /\ pc'[t] = l /\ job' \in [Threads -> Jobs \cup {NoJob}] /\ job'[t] = j
  BY <1>1, <1>2 DEF Call, TypeInv, TypeOK, Labels
<1>5. calls' \in [Threads -> 0 .. MaxCalls]
  <2>1. calls[t] + 1 \in 0 .. MaxCalls
    BY SMTT(30), SpaceAssumption DEF Call, TypeInv, TypeOK
  <2> QED  BY <2>1 DEF Call, TypeInv, TypeOK
<1>6. walk' = walk /\ bytes' = bytes /\ bytes[t] = <<>> /\ walk[t] = NoWalk
  BY DEF Call, TypeInv, LocalOK
<1>7. LocalOK(t)'
  <2>1. Len(bytes'[t]) = 0
    BY <1>6
  <2> QED  BY <1>0, <1>1, <1>4, <1>6, <2>1 DEF LocalOK, NoWalk
<1>8. /\ physMutex' = physMutex /\ virtMutex' = virtMutex /\ pos' = pos /\ physPos' = physPos
      /\ physMutex # t /\ virtMutex # t /\ pc'[t] \notin {"readEntry", "readData"}
  BY <1>1, <1>4 DEF Call, files, mutexes, TypeInv, TypeOK, InPhysSection, InRead
<1>9. (virtMutex' = t) = (threadSafe /\ InRead(t)')
  BY <1>0, <1>1, <1>4, <1>8 DEF InRead
<1> QED  BY <1>3, <1>4, <1>5, <1>6, <1>7, <1>8, <1>9
         DEF OwnType, TypeInv, TypeOK, LocalsType, InPhysSection

LEMMA LockVirtType ==
  ASSUME TypeInv, NEW t \in Threads, LockVirt(t)
  PROVE  OnlyBy(t) /\ OwnType(t)
<1>1. OnlyBy(t)
  BY ThreadsAssumption DEF LockVirt, OnlyBy, Goto, files, mode, TypeInv, TypeOK
<1>2. pc' \in [Threads -> Labels] /\ pc'[t] = "check" /\ job' = job /\ walk' = walk /\ bytes' = bytes
  BY DEF LockVirt, Goto, TypeInv, TypeOK, Labels
<1>3. job[t].op = "readAtomic"
  BY DEF LockVirt, TypeInv, LocalOK
<1>4. LocalOK(t)'
  <2>1. walk[t].phase = "seek"
    BY DEF LockVirt, TypeInv, LocalsType, LocalOK, Walk
  <2> QED  BY <1>2, <1>3, <2>1 DEF LocalOK, LockVirt, TypeInv
<1>5. (virtMutex' = t) = (threadSafe /\ InRead(t)')
  BY <1>2, <1>3 DEF LockVirt, InRead, TypeInv, TypeOK
<1>6. (physMutex' = t) = (threadSafe /\ InPhysSection(t)')
  BY <1>2 DEF LockVirt, InPhysSection, TypeInv, TypeOK
<1> QED  BY <1>1, <1>2, <1>4, <1>5, <1>6 DEF LockVirt, OwnType, TypeInv, TypeOK, LocalsType, files

LEMMA CheckType ==
  ASSUME TypeInv, NEW t \in Threads, Check(t)
  PROVE  OnlyBy(t) /\ OwnType(t)
<1>0. pc[t] = "check" /\ physMutex' = physMutex /\ UNCHANGED <<mode, calls>>
      /\ pos' = pos /\ pos \in Nat /\ pos' \in Nat /\ physPos' \in Nat
      /\ ~InPhysSection(t) /\ physMutex # t /\ physMutex \in Threads \cup {NoThread}
  BY DEF Check, PhysSection, files, TypeInv, TypeOK, InPhysSection
<1>1. walk[t] \in Walk /\ walk[t].phase = "seek" /\ job[t].op \in {"readAtomic", "safeSeek"}
  BY <1>0, JobType DEF TypeInv, LocalsType, LocalOK, Ops
<1>2. ASSUME NEW kind, NEW short, Finish(t, kind, <<>>, short) PROVE OnlyBy(t) /\ OwnType(t)
  BY <1>0, <1>2, FinishType
<1>3. CASE Goto(t, "translate") /\ UNCHANGED <<virtMutex, job, walk, bytes, answer>>
  <2>1. walk' = [walk EXCEPT ![t] = walk[t]]
    BY <1>3 DEF TypeInv, LocalsType
  <2> QED  BY <1>0, <1>1, <1>3, <2>1, GoOnType DEF Labels
<1>4. CASE /\ job[t].op = "readAtomic" /\ Goto(t, Loop(t))
           /\ walk' = [walk EXCEPT ![t].phase = "data"] /\ UNCHANGED <<virtMutex, job, bytes, answer>>
  <2> DEFINE w == [walk[t] EXCEPT !.phase = "data"]
  <2>1. w \in Walk
    BY <1>1 DEF Walk
  <2>2. walk' = [walk EXCEPT ![t] = w]
    BY <1>4
  <2> HIDE DEF w
  <2>3. Loop(t) \in {"translate", "advance"}
    BY DEF Loop
  <2> QED  BY <1>0, <1>4, <2>1, <2>2, <2>3, GoOnType DEF Labels
<1> QED  BY <1>1, <1>2, <1>3, <1>4 DEF Check

LEMMA DivType ==
  ASSUME NEW v \in Nat, NEW s \in Nat \ {0}
  PROVE  v \div s \in Nat /\ v % s \in 0 .. s - 1
OBVIOUS

LEMMA IndexType ==
  ASSUME NEW v \in Nat, NEW level \in 1 .. Levels
  PROVE  Index(v, level) \in Nat
<1>1. v \div Span[level] \in Nat
  <2>1. Span[level] \in Nat \ {0}
    BY SpaceAssumption
  <2> QED  BY <2>1, DivType
<1>2. (v \div Span[level]) % TableSize \in Nat
  <2>1. TableSize \in Nat \ {0}
    BY SpaceAssumption
  <2> QED  BY <1>1, <2>1, DivType
<1> QED  BY <1>1, <1>2 DEF Index

(* A linear address lies above what is mapped to the physical address 0. *)
LEMMA LinearBelow ==
  ASSUME NEW v \in Nat, IsLinear(v)
  PROVE  /\ LinearBase(v) \in Nat /\ LinearEnd(v) \in Nat /\ v - LinearBase(v) \in Nat
         /\ LinearBase(v) <= v /\ v < LinearEnd(v) /\ LinearEnd(v) <= VirtEnd + 1
         /\ PageOffset <= LinearBase(v)
<1>1. {PageOffset, HighMemory, KernelMap, ModulesVaddr, VirtEnd} \subseteq Nat
      /\ HighMemory <= VirtEnd + 1 /\ PageOffset <= HighMemory /\ HighMemory <= KernelMap
      /\ KernelMap <= ModulesVaddr /\ ModulesVaddr <= VirtEnd + 1
  BY SpaceAssumption
<1>2. CASE InKernelMap(v)
  BY <1>1, <1>2 DEF InKernelMap, LinearBase, LinearEnd
<1>3. CASE ~InKernelMap(v)
  BY <1>1, <1>3 DEF IsLinear, LinearBase, LinearEnd
<1> QED  BY <1>2, <1>3

(* Up to its end, a linear region maps with one offset. *)
LEMMA LinearStays ==
  ASSUME NEW v \in Nat, NEW w \in Nat, v <= w, IsLinear(v), w < LinearEnd(v)
  PROVE  IsLinear(w) /\ LinearBase(w) = LinearBase(v)
<1>1. {PageOffset, HighMemory, KernelMap, ModulesVaddr} \subseteq Nat
      /\ PageOffset <= HighMemory /\ HighMemory <= KernelMap
  BY SpaceAssumption
<1>2. CASE InKernelMap(v)
  <2>1. InKernelMap(w)
    BY <1>1, <1>2 DEF InKernelMap, LinearEnd
  <2> QED  BY <1>2, <2>1 DEF IsLinear, LinearBase
<1>3. CASE ~InKernelMap(v)
  <2>1. PageOffset <= v /\ w < HighMemory
    BY <1>3 DEF IsLinear, LinearEnd
  <2>2. PageOffset <= w /\ ~InKernelMap(w)
    BY <1>1, <2>1 DEF InKernelMap
  <2> QED  BY <1>3, <2>1, <2>2 DEF IsLinear, LinearBase
<1> QED  BY <1>2, <1>3

LEMMA TranslateType ==
  ASSUME TypeInv, NEW t \in Threads, Translate(t)
  PROVE  OnlyBy(t) /\ OwnType(t)
<1> DEFINE v == IF walk[t].phase = "data" THEN pos ELSE job[t].pos
<1>0. pc[t] = "translate" /\ physMutex' = physMutex /\ UNCHANGED <<mode, calls, pos>>
      /\ pos \in Nat /\ pos' \in Nat /\ physPos' \in Nat
      /\ ~InPhysSection(t) /\ physMutex # t /\ physMutex \in Threads \cup {NoThread}
  BY DEF Translate, files, TypeInv, TypeOK, InPhysSection
<1>1. Released(t)
  BY <1>0 DEF Released
<1>2. v \in Nat
  BY <1>0, JobType
<1>3. CASE Untranslatable(t)
  BY <1>0, <1>1, <1>3, UntranslatableType
<1>4. CASE v - LinearBase(v) \in Nat /\ Translated(t, v - LinearBase(v), PADDR_ERROR, FALSE)
  <2>1. v - LinearBase(v) \in Nat
    BY <1>4
  <2> HIDE DEF v
  <2> QED  BY <1>0, <1>1, <1>4, <2>1, TranslatedType
<1>5. CASE /\ walk' = [walk EXCEPT ![t].vaddr = v, ![t].level = 1, ![t].table = RootTable, ![t].nx = FALSE]
           /\ Goto(t, "seekEntry") /\ UNCHANGED <<virtMutex, job, bytes, answer>>
  <2> DEFINE w == [walk[t] EXCEPT !.vaddr = v, !.level = 1, !.table = RootTable, !.nx = FALSE]
  <2>1. w \in Walk /\ w.phase = walk[t].phase
    <3>1. walk[t] \in Walk /\ RootTable \in Nat /\ 1 \in 1 .. Levels
      BY SpaceAssumption DEF TypeInv, LocalsType
    <3> HIDE DEF v
    <3> QED  BY <1>2, <3>1 DEF Walk
  <2>2. walk' = [walk EXCEPT ![t] = w]
    <3> HIDE DEF v
    <3> QED  BY <1>5 DEF TypeInv, LocalsType
  <2>3. walk[t].phase = "data" => job[t].op = "readAtomic"
    BY DEF TypeInv, LocalOK
  <2>4. Goto(t, "seekEntry") /\ UNCHANGED <<virtMutex, job, bytes, answer>>
    BY <1>5
  <2> HIDE DEF w, v
  <2> QED  BY <1>0, <2>1, <2>2, <2>3, <2>4, GoOnType DEF Labels
<1>6. \/ Untranslatable(t)
      \/ v - LinearBase(v) \in Nat /\ Translated(t, v - LinearBase(v), PADDR_ERROR, FALSE)
      \/ /\ walk' = [walk EXCEPT ![t].vaddr = v, ![t].level = 1, ![t].table = RootTable, ![t].nx = FALSE]
         /\ Goto(t, "seekEntry") /\ UNCHANGED <<virtMutex, job, bytes, answer>>
  <2>1. IF v < PageOffset \/ v > VirtEnd THEN Untranslatable(t)
        ELSE IF IsLinear(v) /\ ~WithEntries(t)
        THEN Translated(t, v - LinearBase(v), PADDR_ERROR, FALSE)
        ELSE /\ walk' = [walk EXCEPT ![t].vaddr = v, ![t].level = 1, ![t].table = RootTable, ![t].nx = FALSE]
             /\ Goto(t, "seekEntry") /\ UNCHANGED <<virtMutex, job, bytes, answer>>
    BY Zenon DEF Translate
  <2>2. IsLinear(v) => v - LinearBase(v) \in Nat
    <3> HIDE DEF v
    <3> QED  BY <1>2, LinearBelow
  <2> HIDE DEF v
  <2> QED  BY Zenon, <2>1, <2>2
<1> QED  BY <1>3, <1>4, <1>5, <1>6

LEMMA SeekEntryType ==
  ASSUME TypeInv, NEW t \in Threads, SeekEntry(t)
  PROVE  OnlyBy(t) /\ OwnType(t)
<1>1. physPos' \in Nat /\ pos' \in Nat
  <2>1. walk[t].table \in Nat /\ Index(walk[t].vaddr, walk[t].level) \in Nat
    BY IndexType DEF TypeInv, LocalsType, Walk
  <2> QED  BY <2>1 DEF SeekEntry, TypeInv, TypeOK
<1>2. /\ physMutex' \in Threads \cup {NoThread} /\ (physMutex' = t) = threadSafe
      /\ \A u \in Threads \ {t} : (physMutex' = u) = (physMutex = u)
  BY ThreadsAssumption DEF SeekEntry, LockPhys, TypeInv, TypeOK, InPhysSection
<1>3. walk' = [walk EXCEPT ![t] = walk[t]] /\ walk[t] \in Walk
  BY DEF SeekEntry, TypeInv, LocalsType
<1>4. walk[t].phase = "data" => job[t].op = "readAtomic"
  BY DEF TypeInv, LocalOK
<1> QED  BY <1>1, <1>2, <1>3, <1>4, GoOnType DEF SeekEntry, Labels

LEMMA LevelType ==
  ASSUME TypeInv, NEW t \in Threads, pc[t] = "readEntry", NEW e \in Entry, Level(t, e),
         UNCHANGED <<mode, calls, pos>>, physPos' \in Nat, Released(t)
  PROVE  OnlyBy(t) /\ OwnType(t)
<1> DEFINE l == walk[t].level
           nx == walk[t].nx \/ e.nx
           phys == e.frame + (walk[t].vaddr % Span[l])
<1>0. walk[t] \in Walk /\ l \in 1 .. Levels /\ Levels \in Nat /\ nx \in BOOLEAN /\ e.frame \in Nat
      /\ pos' \in Nat
  BY SpaceAssumption DEF TypeInv, TypeOK, LocalsType, Walk, Entry
<1>1. CASE Untranslatable(t)
  BY <1>1, UntranslatableType
<1>2. CASE Translated(t, phys, Span[l], nx)
  <2>1. phys \in Nat /\ Span[l] \in Nat \ {0}
    <3>1. walk[t].vaddr \in Nat /\ Span[l] \in Nat \ {0}
      BY <1>0, SpaceAssumption DEF Walk
    <3>2. walk[t].vaddr % Span[l] \in Nat
      BY <3>1, DivType
    <3> QED  BY <1>0, <3>1, <3>2
  <2> HIDE DEF phys, nx, l
  <2> QED  BY <1>2, <2>1, TranslatedType
<1>3. CASE /\ l # Levels
           /\ walk' = [walk EXCEPT ![t].level = l + 1, ![t].table = e.frame, ![t].nx = nx]
           /\ Goto(t, "seekEntry") /\ UNCHANGED <<virtMutex, job, bytes, answer>>
  <2> DEFINE w == [walk[t] EXCEPT !.level = l + 1, !.table = e.frame, !.nx = nx]
  <2>1. w \in Walk /\ w.phase = walk[t].phase
    <3>1. l + 1 \in 1 .. Levels
      BY <1>0, <1>3
    <3> HIDE DEF l, nx
    <3> QED  BY <1>0, <3>1 DEF Walk
  <2>2. walk' = [walk EXCEPT ![t] = w]
    BY <1>3 DEF TypeInv, LocalsType
  <2>3. walk[t].phase = "data" => job[t].op = "readAtomic"
    BY DEF TypeInv, LocalOK
  <2>4. pc[t] \notin {"idle", "lockVirt"}
    OBVIOUS
  <2> HIDE DEF w
  <2> QED  BY ZenonT(60), <1>0, <1>3, <2>1, <2>2, <2>3, <2>4, GoOnType, ReleasedOwner DEF Labels
<1> QED  BY <1>1, <1>2, <1>3 DEF Level

LEMMA ReadEntryType ==
  ASSUME TypeInv, NEW t \in Threads, ReadEntry(t)
  PROVE  OnlyBy(t) /\ OwnType(t)
<1>1. pc[t] = "readEntry" /\ UNCHANGED <<mode, calls, pos>> /\ Released(t)
  BY DEF ReadEntry, UnlockPhys, Released, InPhysSection
<1>2. physPos \in Nat
  BY DEF TypeInv, TypeOK
<1>3. CASE physPos < PhysEnd
  <2>1. Memory[physPos] \in Entry
    BY SMTT(30), <1>2, <1>3, SpaceAssumption
  <2>2. Level(t, Memory[physPos]) /\ physPos' \in Nat
    BY <1>2, <1>3 DEF ReadEntry
  <2> QED  BY <1>1, <2>1, <2>2, LevelType
<1>4. CASE ~(physPos < PhysEnd)
  <2>1. Untranslatable(t) /\ physPos' \in Nat
    BY <1>2, <1>4 DEF ReadEntry
  <2> QED  BY <1>1, <2>1, UntranslatableType
<1> QED  BY <1>3, <1>4

LEMMA SeekPhysType ==
  ASSUME TypeInv, NEW t \in Threads, SeekPhys(t)
  PROVE  OnlyBy(t) /\ OwnType(t)
<1>0. pc[t] = "seekPhys" /\ physMutex' = physMutex /\ UNCHANGED <<mode, calls>>
      /\ pos' \in Nat /\ ~InPhysSection(t) /\ physMutex # t /\ physMutex \in Threads \cup {NoThread}
  BY DEF SeekPhys, PhysSection, TypeInv, TypeOK, InPhysSection
<1>1. physPos' \in Nat
  BY DEF SeekPhys, TypeInv, TypeOK, LocalsType, Walk
<1>2. walk[t] \in Walk /\ walk[t].phase = "seek" /\ job[t].op \in {"readAtomic", "safeSeek"}
  BY <1>0, JobType DEF TypeInv, LocalsType, LocalOK, Ops
<1>3. CASE job[t].op = "safeSeek"
  BY <1>0, <1>1, <1>3, FinishType DEF SeekPhys
<1>4. CASE job[t].op = "readAtomic"
  <2>1. Goto(t, "setPos") /\ UNCHANGED <<virtMutex, job, bytes>> /\ walk' = [walk EXCEPT ![t] = walk[t]]
    BY <1>4 DEF SeekPhys, TypeInv, LocalsType
  <2> QED  BY <1>0, <1>1, <1>2, <1>4, <2>1, GoOnType DEF Labels
<1> QED  BY <1>2, <1>3, <1>4

LEMMA SetPosType ==
  ASSUME TypeInv, NEW t \in Threads, SetPos(t)
  PROVE  OnlyBy(t) /\ OwnType(t)
<1> DEFINE w == [walk[t] EXCEPT !.phase = "data"]
<1>0. pc[t] = "setPos" /\ physMutex' = physMutex /\ UNCHANGED <<mode, calls, virtMutex, job, bytes>>
      /\ ~InPhysSection(t) /\ physMutex # t /\ physMutex \in Threads \cup {NoThread}
      /\ Goto(t, Loop(t)) /\ walk' = [walk EXCEPT ![t] = w]
  BY DEF SetPos, mutexes, TypeInv, TypeOK, InPhysSection
<1>1. pos' \in Nat /\ physPos' \in Nat
  BY JobType DEF SetPos, TypeInv, TypeOK
<1>2. w \in Walk
  BY DEF TypeInv, LocalsType, Walk
<1>3. job[t].op = "readAtomic"
  BY <1>0 DEF TypeInv, LocalOK
<1>4. Loop(t) \in {"translate", "advance"}
  BY DEF Loop
<1> HIDE DEF w
<1> QED  BY <1>0, <1>1, <1>2, <1>3, <1>4, GoOnType DEF Labels

LEMMA SeekDataType ==
  ASSUME TypeInv, NEW t \in Threads, SeekData(t)
  PROVE  OnlyBy(t) /\ OwnType(t)
<1>1. /\ physMutex' \in Threads \cup {NoThread} /\ (physMutex' = t) = threadSafe
      /\ \A u \in Threads \ {t} : (physMutex' = u) = (physMutex = u)
  BY ThreadsAssumption DEF SeekData, LockPhys, TypeInv, TypeOK, InPhysSection
<1>2. walk' = [walk EXCEPT ![t] = walk[t]] /\ walk[t] \in Walk
  BY DEF SeekData, TypeInv, LocalsType
<1>3. job[t].op = "readAtomic" /\ walk[t].phys \in Nat /\ walk[t].size # 0
  BY DEF SeekData, TypeInv, LocalOK
<1>4. physPos' \in Nat /\ pos' \in Nat
  BY <1>3 DEF SeekData, TypeInv, TypeOK
<1> QED  BY <1>1, <1>2, <1>3, <1>4, GoOnType DEF SeekData, Labels

(* A piece ends with the request at the latest. *)
LEMMA PieceType ==
  ASSUME TypeInv, NEW t \in Threads, pc[t] = "readData"
  PROVE  /\ Len(bytes[t]) \in Nat /\ job[t].len - Len(bytes[t]) \in Nat
         /\ Piece(t) \in 0 .. job[t].len - Len(bytes[t])
<1>1. Len(bytes[t]) \in Nat /\ job[t].len - Len(bytes[t]) \in Nat
  <2>1. Len(bytes[t]) \in Nat /\ Len(bytes[t]) <= job[t].len
    BY DEF TypeInv, LocalsType, LocalOK
  <2> QED  BY <2>1, JobType
<1>2. CASE walk[t].size = PADDR_ERROR
  BY <1>1, <1>2 DEF Piece
<1>3. CASE walk[t].size # PADDR_ERROR
  <2>1. walk[t].size \in Nat \ {0} /\ pos \in Nat
    BY <1>3 DEF TypeInv, TypeOK, LocalsType, LocalOK, Walk
  <2>2. walk[t].size - (pos % walk[t].size) \in Nat
    BY <2>1, DivType
  <2> QED  BY <1>1, <1>3, <2>2 DEF Piece, Smaller
<1> QED  BY <1>1, <1>2, <1>3

LEMMA ReadDataType ==
  ASSUME TypeInv, NEW t \in Threads, ReadData(t)
  PROVE  OnlyBy(t) /\ OwnType(t)
<1> DEFINE n == IF physPos < PhysEnd THEN Smaller(Piece(t), PhysEnd - physPos) ELSE 0
           more == [k \in 1 .. n |-> physPos + k - 1]
           w == [walk[t] EXCEPT !.got = n]
<1>0. pc[t] = "readData" /\ UNCHANGED <<mode, calls, pos, virtMutex, job>> /\ Released(t)
      /\ pc' = [pc EXCEPT ![t] = "advance"]
  BY DEF ReadData, UnlockPhys, Goto, Released, InPhysSection
<1>1. physPos \in Nat /\ pos' \in Nat /\ job[t].op = "readAtomic"
  BY <1>0 DEF TypeInv, TypeOK, LocalOK
<1>2. n \in 0 .. job[t].len - Len(bytes[t]) /\ n \in Nat
  <2>1. job[t].len - Len(bytes[t]) \in Nat /\ Piece(t) \in 0 .. job[t].len - Len(bytes[t])
    BY <1>0, PieceType
  <2>2. PhysEnd \in Nat
    BY SpaceAssumption
  <2>3. CASE physPos < PhysEnd
    <3>1. n = Piece(t) \/ (n = PhysEnd - physPos /\ n <= Piece(t))
      BY <1>1, <2>1, <2>2, <2>3 DEF Smaller
    <3> HIDE DEF n
    <3> QED  BY <1>1, <2>1, <2>2, <2>3, <3>1
  <2>4. CASE ~(physPos < PhysEnd)
    BY <2>1, <2>4
  <2> QED  BY <2>3, <2>4
<1>3. physPos' \in Nat
  BY <1>1, <1>2 DEF ReadData
<1>4. more \in Seq(Nat) /\ Len(more) = n
  <2> HIDE DEF n
  <2>1. \A k \in 1 .. n : physPos + k - 1 \in Nat
    BY <1>1, <1>2
  <2> QED  BY <1>2, <2>1
<1>5. bytes' = [bytes EXCEPT ![t] = bytes[t] \o more] /\ walk' = [walk EXCEPT ![t] = w]
  BY Zenon DEF ReadData
<1>6. bytes[t] \in Seq(Nat) /\ w \in Walk /\ w.phase = walk[t].phase
  <2> HIDE DEF n
  <2> QED  BY <1>2 DEF TypeInv, LocalsType, Walk
<1> HIDE DEF n, more, w
<1>7. bytes[t] \o more \in Seq(Nat) /\ Len(bytes[t] \o more) <= job[t].len
  <2>1. bytes[t] \o more \in Seq(Nat) /\ Len(bytes[t] \o more) = Len(bytes[t]) + n
    BY <1>4, <1>6, ConcatProperties
  <2>2. Len(bytes[t]) \in Nat /\ job[t].len - Len(bytes[t]) \in Nat
    BY <1>0, PieceType
  <2>3. job[t].len \in Nat
    BY <1>1, JobType
  <2> QED  BY <1>2, <2>1, <2>2, <2>3
<1>8. OnlyBy(t)
  BY <1>0, <1>5, ReleasedOwner DEF OnlyBy, TypeInv, TypeOK, LocalsType
<1>9. /\ pc' \in [Threads -> Labels] /\ pc'[t] = "advance"
      /\ walk' \in [Threads -> Walk] /\ walk'[t] = w
      /\ bytes' \in [Threads -> Seq(Nat)] /\ bytes'[t] = bytes[t] \o more
  BY <1>0, <1>5, <1>6, <1>7 DEF TypeInv, TypeOK, LocalsType, Labels
<1>10. LocalOK(t)'
  BY <1>0, <1>1, <1>7, <1>9 DEF LocalOK
<1>11. (virtMutex' = t) = (threadSafe /\ InRead(t)')
  BY <1>0, <1>1, <1>9 DEF TypeInv, TypeOK, InRead
<1>12. physMutex' \in Threads \cup {NoThread} /\ (physMutex' = t) = (threadSafe /\ InPhysSection(t)')
  BY <1>0, <1>9, ReleasedOwner DEF InPhysSection
<1> QED  BY <1>0, <1>1, <1>3, <1>8, <1>9, <1>10, <1>11, <1>12 DEF OwnType, TypeInv, TypeOK

LEMMA AdvanceType ==
  ASSUME TypeInv, NEW t \in Threads, Advance(t)
  PROVE  OnlyBy(t) /\ OwnType(t)
<1>0. pc[t] = "advance" /\ physMutex' = physMutex /\ UNCHANGED <<mode, calls>>
      /\ physPos' \in Nat /\ ~InPhysSection(t) /\ physMutex # t /\ physMutex \in Threads \cup {NoThread}
  BY DEF Advance, TypeInv, TypeOK, InPhysSection
<1>1. pos' \in Nat /\ walk[t] \in Walk
  <2>1. walk[t] \in Walk /\ pos \in Nat /\ pos' = pos + walk[t].got
    BY DEF Advance, TypeInv, TypeOK, LocalsType
  <2>2. walk[t].got \in Nat
    BY <2>1 DEF Walk
  <2> QED  BY <2>1, <2>2
<1>2. job[t].op = "readAtomic"
  BY <1>0 DEF TypeInv, LocalOK
<1>3. CASE Goto(t, "translate") /\ UNCHANGED <<virtMutex, job, walk, bytes, answer>>
  <2>1. walk' = [walk EXCEPT ![t] = walk[t]]
    BY <1>3 DEF TypeInv, LocalsType
  <2> QED  BY <1>0, <1>1, <1>2, <1>3, <2>1, GoOnType DEF Labels
<1>4. CASE Finish(t, "bytes", bytes[t], FALSE)
  BY <1>0, <1>1, <1>4, FinishType
<1> QED  BY <1>3, <1>4 DEF Advance

----------------------------------------------------------------------------
LEMMA StepType ==
  ASSUME TypeInv, NEW t \in Threads, Step(t)
  PROVE  OnlyBy(t) /\ OwnType(t) /\ pc[t] # "idle"
<1>1. pc[t] # "idle"
  BY DEF Step, LockVirt, Check, Translate, SeekEntry, ReadEntry, SeekPhys, SetPos, SeekData, ReadData, Advance
<1>2. CASE LockVirt(t)  BY <1>1, <1>2, LockVirtType
<1>3. CASE Check(t)  BY <1>1, <1>3, CheckType
<1>4. CASE Translate(t)  BY <1>1, <1>4, TranslateType
<1>5. CASE SeekEntry(t)  BY <1>1, <1>5, SeekEntryType
<1>6. CASE ReadEntry(t)  BY <1>1, <1>6, ReadEntryType
<1>7. CASE SeekPhys(t)  BY <1>1, <1>7, SeekPhysType
<1>8. CASE SetPos(t)  BY <1>1, <1>8, SetPosType
<1>9. CASE SeekData(t)  BY <1>1, <1>9, SeekDataType
<1>10. CASE ReadData(t)  BY <1>1, <1>10, ReadDataType
<1>11. CASE Advance(t)  BY <1>1, <1>11, AdvanceType
<1> QED  BY <1>1, <1>2, <1>3, <1>4, <1>5, <1>6, <1>7, <1>8, <1>9, <1>10, <1>11 DEF Step

(* With nobody in a call, nobody owns a mutex: the locks can be switched. *)
LEMMA ModeStepType ==
  ASSUME TypeInv, StartBuilders \/ BuildersDone
  PROVE  TypeInv'
<1>1. \A t \in Threads : pc[t] = "idle"
  BY DEF TypeInv, ModeOK, StartBuilders, BuildersDone, Threads
<1>2. UNCHANGED <<pos, physPos, physMutex, virtMutex, pc, job, walk, bytes, calls>>
  BY DEF StartBuilders, BuildersDone, files, mutexes
<1>3. \A t \in Threads : physMutex # t /\ virtMutex # t
  BY <1>1 DEF TypeInv, TypeOK, InPhysSection, InRead
<1>4. \A t \in Threads : LocalOK(t)'
  BY <1>2 DEF TypeInv, LocalOK
<1>5. threadSafe' \in BOOLEAN /\ building' \in BOOLEAN
  <2>1. (Cardinality(Builders) > 1) \in BOOLEAN
    OBVIOUS
  <2>2. threadSafe' \in {Cardinality(Builders) > 1, FALSE} /\ building' \in {TRUE, FALSE}
    BY Zenon DEF StartBuilders, BuildersDone
  <2> HIDE DEF TypeInv
  <2> QED  BY Zenon, <2>1, <2>2
<1>6. ModeOK'
  BY <1>1, <1>2 DEF StartBuilders, BuildersDone, ModeOK, Threads
<1> QED  BY <1>1, <1>2, <1>3, <1>4, <1>5, <1>6 DEF TypeInv, TypeOK, LocalsType, InPhysSection, InRead

LEMMA InitType == Init => TypeInv
<1> SUFFICES ASSUME Init PROVE TypeInv
  OBVIOUS
<1>1. TypeOK
  <2>1. calls \in [Threads -> 0 .. MaxCalls]
    BY SpaceAssumption DEF Init
  <2>2. \A t \in Threads : physMutex # t /\ virtMutex # t /\ ~InPhysSection(t) /\ ~InRead(t)
    BY ThreadsAssumption DEF Init, InPhysSection, InRead
  <2>3. /\ {pos, physPos} \subseteq Nat /\ threadSafe = FALSE /\ building = FALSE
        /\ {physMutex, virtMutex} \subseteq Threads \cup {NoThread}
    BY DEF Init
  <2>4. pc \in [Threads -> Labels] /\ job \in [Threads -> Jobs \cup {NoJob}]
    BY DEF Init, Labels
  <2> QED  BY <2>1, <2>2, <2>3, <2>4 DEF TypeOK
<1>2. LocalsType
  BY NoWalkType DEF Init, LocalsType
<1>3. \A t \in Threads : LocalOK(t)
  BY DEF Init, LocalOK, NoWalk
<1>4. ModeOK
  BY DEF Init, ModeOK, Threads
<1> QED  BY <1>1, <1>2, <1>3, <1>4 DEF TypeInv

LEMMA NextType == TypeInv /\ [Next]_vars => TypeInv'
<1> SUFFICES ASSUME TypeInv, [Next]_vars PROVE TypeInv'
  OBVIOUS
<1>1. ASSUME NEW t \in Threads, Step(t) PROVE TypeInv'
  BY <1>1, StepType, ModeKept, OneThread
<1>2. ASSUME NEW t \in Threads, NEW j \in Jobs, Call(t, j) PROVE TypeInv'
  <2>1. OnlyBy(t) /\ OwnType(t) /\ (t = Main) # building
    BY <1>2, CallType DEF Call
  <2> QED  BY <2>1, ModeKept, OneThread
<1>3. CASE StartBuilders \/ BuildersDone
  BY <1>3, ModeStepType
<1>4. CASE UNCHANGED vars
  BY <1>4 DEF vars, files, mutexes, mode, TypeInv, TypeOK, LocalsType, LocalOK, ModeOK, InPhysSection, InRead
<1> QED  BY <1>1, <1>2, <1>3, <1>4 DEF Next

LEMMA Typed == Spec => []TypeInv
BY InitType, NextType, PTL DEF Spec

(* Types, and that a thread owns _physMemMutex or _virtMemMutex exactly while
   it is in the section that the mutex guards, however it got in and however
   the call before it ended: no return and no exception keeps a mutex. *)
THEOREM MutexesOwned == Spec => []TypeOK
<1>1. TypeInv => TypeOK
  BY DEF TypeInv
<1> QED  BY <1>1, Typed, PTL

----------------------------------------------------------------------------
(* Addresses of one page. *)

(* Within a span, the remainder counts on and the quotient stays. *)
LEMMA Within ==
  ASSUME NEW s \in Nat \ {0}, NEW v \in Nat, NEW i \in Nat, (v % s) + i < s
  PROVE  (v + i) \div s = v \div s /\ (v + i) % s = (v % s) + i
<1>1. v = s * (v \div s) + (v % s) /\ v % s \in 0 .. s - 1 /\ v \div s \in Nat
  OBVIOUS
<1>2. PICK q \in Nat : q = v \div s
  BY <1>1
<1>3. PICK p \in 0 .. s - 1 : p = v % s
  BY <1>1
<1>4. PICK r \in 0 .. s - 1 : r = p + i
  <2>1. p + i < s
    BY <1>3
  <2>2. p + i \in 0 .. s - 1
    BY <2>1
  <2> QED  BY <2>2
<1>5. PICK n \in Nat : n = v + i
  OBVIOUS
<1>6. n = s * q + r
  BY <1>1, <1>2, <1>3, <1>4, <1>5
<1>7. n \div s = q /\ n % s = r
  BY <1>6, Quotient
<1> QED  BY <1>2, <1>3, <1>4, <1>5, <1>7

(* What lies within one span lies within one span of every level above. *)
LEMMA SameAbove ==
  ASSUME NEW n \in 1 .. Levels, NEW v \in Nat, NEW w \in Nat, v \div Span[n] = w \div Span[n]
  PROVE  \A k \in 1 .. n : v \div Span[k] = w \div Span[k]
<1> DEFINE Bad == {d \in Nat : d <= n - 1 /\ v \div Span[n - d] # w \div Span[n - d]}
<1>0. n \in Nat \ {0} /\ Levels \in Nat /\ n <= Levels
  BY SpaceAssumption
<1>1. Bad = {}
  <2>1. SUFFICES ASSUME Bad # {} PROVE FALSE
    OBVIOUS
  <2>2. PICK d \in Bad : \A e \in Bad : d <= e
    <3>1. Bad \subseteq Nat
      OBVIOUS
    <3> HIDE DEF Bad
    <3> QED  BY <2>1, <3>1, Least
  <2>3. d \in Nat /\ d # 0 /\ d <= n - 1
    BY <1>0
  <2>4. d - 1 \in Nat /\ d - 1 \notin Bad
    BY <2>2, <2>3
  <2>5. PICK k \in 1 .. Levels - 1 : k = n - d
    BY <1>0, <2>3
  <2>6. k + 1 = n - (d - 1)
    BY <1>0, <2>3, <2>5
  <2>7. v \div Span[k + 1] = w \div Span[k + 1]
    BY <2>3, <2>4, <2>6
  <2>8. /\ Span[k] = TableSize * Span[k + 1] /\ Span[k + 1] \in Nat \ {0} /\ TableSize \in Nat \ {0}
    <3>1. k + 1 \in 1 .. Levels
      BY <1>0, <2>5
    <3> QED  BY <3>1, SpaceAssumption, SpansAssumption
  <2>9. v \div Span[k] = w \div Span[k]
    <3>1. PICK s, m \in Nat \ {0} : s = Span[k + 1] /\ m = TableSize
      BY <2>8
    <3>2. v \div (m * s) = (v \div s) \div m /\ w \div (m * s) = (w \div s) \div m
      BY Nested
    <3> QED  BY <2>7, <2>8, <3>1, <3>2
  <2> QED  BY <2>2, <2>5, <2>9
<1>2. ASSUME NEW k \in 1 .. n PROVE v \div Span[k] = w \div Span[k]
  <2>1. n - k \in Nat /\ n - k <= n - 1 /\ n - (n - k) = k
    BY <1>0
  <2>2. n - k \notin Bad
    BY <1>1
  <2> QED  BY <2>1, <2>2
<1> QED  BY <1>2

LEMMA SameIndex ==
  ASSUME NEW n \in 1 .. Levels, NEW v \in Nat, NEW w \in Nat, v \div Span[n] = w \div Span[n]
  PROVE  \A k \in 1 .. n : Index(v, k) = Index(w, k)
BY SameAbove DEF Index

(* No page reaches beyond the virtual space. *)
LEMMA SameSpace ==
  ASSUME NEW n \in 1 .. Levels, NEW v \in Nat, NEW w \in Nat, v \div Span[n] = w \div Span[n],
         v <= VirtEnd
  PROVE  w <= VirtEnd
<1>1. v \div Span[1] = w \div Span[1] /\ Span[1] \in Nat \ {0} /\ VirtEnd \in Nat
      /\ (VirtEnd + 1) % Span[1] = 0
  <2>1. 1 \in 1 .. n /\ 1 \in 1 .. Levels
    BY SpaceAssumption
  <2>2. v \div Span[1] = w \div Span[1]
    BY <2>1, SameAbove
  <2>3. Span[1] \in Nat \ {0} /\ VirtEnd \in Nat
    BY <2>1, SpaceAssumption
  <2>4. (VirtEnd + 1) % Span[1] = 0
    BY SpansAssumption
  <2> QED  BY <2>2, <2>3, <2>4
<1>2. PICK s \in Nat \ {0} : s = Span[1]
  BY <1>1
<1>3. PICK q \in Nat : q = v \div s /\ q = w \div s
  BY <1>1, <1>2
<1>4. PICK e \in Nat : e = (VirtEnd + 1) \div s
  BY <1>1
<1>5. VirtEnd + 1 = s * e
  <2>1. PICK m \in Nat : m = VirtEnd + 1
    BY <1>1
  <2>2. m = s * (m \div s) + (m % s)
    OBVIOUS
  <2> QED  BY <1>1, <1>2, <1>4, <2>1, <2>2
<1>6. PICK a, b \in 0 .. s - 1 : v = s * q + a /\ w = s * q + b
  <2>1. v = s * (v \div s) + (v % s) /\ w = s * (w \div s) + (w % s)
        /\ v % s \in 0 .. s - 1 /\ w % s \in 0 .. s - 1
    OBVIOUS
  <2> QED  BY <1>3, <2>1
<1>7. q < e
  <2>1. SUFFICES ASSUME q >= e PROVE FALSE
    OBVIOUS
  <2>2. s * q >= s * e
    BY <2>1
  <2>3. s * q \in Nat /\ s * e \in Nat
    OBVIOUS
  <2> QED  BY <1>1, <1>5, <1>6, <2>2, <2>3
<1>8. s * (q + 1) <= s * e /\ s * (q + 1) = s * q + s
  BY <1>7
<1>9. s * q \in Nat /\ s * e \in Nat
  OBVIOUS
<1> QED  BY <1>1, <1>5, <1>6, <1>8, <1>9

----------------------------------------------------------------------------
(* The walk through the tables, as a path. *)

At(v, path, k) == path[k] + Index(v, k)
Paths == [1 .. Levels -> Frames]

(* The tables of levels 1 .. l are those of path ... *)
Walked(v, path, l) ==
  /\ path \in Paths /\ path[1] = RootTable
  /\ \A k \in 1 .. l - 1 :
       /\ At(v, path, k) < PhysEnd /\ Memory[At(v, path, k)].present
       /\ path[k + 1] = Memory[At(v, path, k)].frame
       /\ k = Levels - 1 => ~Memory[At(v, path, k)].large
(* ... and no page that holds v has others. *)
Forced(v, path, l) ==
  \A pn \in Pages(v) : pn[2] >= l /\ \A k \in 1 .. l : pn[1][k] = path[k]
Marked(v, path, l) == \E k \in 1 .. l - 1 : Memory[At(v, path, k)].nx

LEMMA FramesType == RootTable \in Frames /\ Frames \subseteq Nat
<1>1. \A a \in DOMAIN Memory : Memory[a].frame \in Nat
  BY SpaceAssumption DEF Entry
<1> QED  BY <1>1, SpaceAssumption DEF Frames

LEMMA LevelsType == Levels \in Nat /\ Levels >= 2 /\ PhysEnd \in Nat /\ 1 \in 1 .. Levels
BY SpaceAssumption

LEMMA PagesAre ==
  ASSUME NEW v, NEW pn \in Pages(v)
  PROVE  /\ pn = <<pn[1], pn[2]>> /\ pn[1] \in Paths /\ pn[2] \in {Levels - 1, Levels}
         /\ pn[2] \in 1 .. Levels /\ OnPath(v, pn[1], pn[2])
BY LevelsType DEF Pages, Paths

(* An entry that is read lies in the memory. *)
LEMMA EntryIs ==
  ASSUME NEW v \in Nat, NEW path \in Paths, NEW l \in 1 .. Levels
  PROVE  /\ At(v, path, l) \in Nat
         /\ At(v, path, l) < PhysEnd => At(v, path, l) \in DOMAIN Memory /\ Memory[At(v, path, l)] \in Entry
<1>1. path[l] \in Nat /\ Index(v, l) \in Nat
  BY FramesType, IndexType DEF Paths
<1>2. At(v, path, l) \in Nat
  BY <1>1 DEF At
<1>3. DOMAIN Memory = 0 .. PhysEnd - 1 /\ \A a \in 0 .. PhysEnd - 1 : Memory[a] \in Entry
  BY SpaceAssumption
<1> HIDE DEF At
<1> QED  BY <1>2, <1>3, LevelsType

LEMMA WalkBegins ==
  ASSUME NEW v \in Nat
  PROVE  \E path \in Paths : /\ Walked(v, path, 1) /\ Forced(v, path, 1) /\ ~Marked(v, path, 1)
                             /\ path[1] = RootTable
<1> DEFINE path == [k \in 1 .. Levels |-> RootTable]
<1>1. path \in Paths /\ path[1] = RootTable
  BY FramesType, LevelsType DEF Paths
<1>2. Walked(v, path, 1) /\ ~Marked(v, path, 1)
  BY <1>1 DEF Walked, Marked
<1>3. Forced(v, path, 1)
  <2> SUFFICES ASSUME NEW pn \in Pages(v) PROVE pn[2] >= 1 /\ pn[1][1] = path[1]
    <3>1. \A k \in 1 .. 1 : k = 1
      OBVIOUS
    <3> HIDE DEF path
    <3> QED  BY <3>1 DEF Forced
  <2>1. pn[2] \in 1 .. Levels /\ pn[1][1] = RootTable
    BY PagesAre DEF OnPath
  <2> QED  BY <1>1, <2>1, LevelsType
<1> QED  BY <1>1, <1>2, <1>3

(* An entry that is not there or not present: no page holds v. *)
LEMMA WalkStops ==
  ASSUME NEW v \in Nat, NEW path \in Paths, NEW l \in 1 .. Levels, Forced(v, path, l),
         ~(At(v, path, l) < PhysEnd /\ Memory[At(v, path, l)].present)
  PROVE  Pages(v) = {}
<1> SUFFICES ASSUME NEW pn \in Pages(v) PROVE FALSE
  OBVIOUS
<1>1. pn[2] \in 1 .. Levels /\ pn[2] >= l /\ pn[1][l] = path[l] /\ OnPath(v, pn[1], pn[2])
  BY PagesAre, LevelsType DEF Forced
<1>2. l \in 1 .. pn[2]
  BY <1>1, LevelsType
<1> QED  BY <1>1, <1>2 DEF OnPath, At

LEMMA WalkGoesOn ==
  ASSUME NEW v \in Nat, NEW path \in Paths, NEW l \in 1 .. Levels,
         Walked(v, path, l), Forced(v, path, l),
         At(v, path, l) < PhysEnd, NEW e, e = Memory[At(v, path, l)], e.present,
         l # Levels, ~(l = Levels - 1 /\ e.large)
  PROVE  \E next \in Paths :
           /\ Walked(v, next, l + 1) /\ Forced(v, next, l + 1)
           /\ next[l + 1] = e.frame
           /\ Marked(v, next, l + 1) = (Marked(v, path, l) \/ e.nx)
<1> DEFINE next == [path EXCEPT ![l + 1] = e.frame]
<1>1. l + 1 \in 1 .. Levels /\ l \in Nat /\ (l + 1) - 1 = l
  BY LevelsType
<1>2. next \in Paths /\ next[l + 1] = e.frame /\ \A k \in 1 .. l : next[k] = path[k]
  <2>1. e.frame \in Frames
    BY EntryIs DEF Frames
  <2>2. path \in [1 .. Levels -> Frames] /\ \A k \in 1 .. l : k \in 1 .. Levels /\ k # l + 1
    BY <1>1, LevelsType DEF Paths
  <2> QED  BY <1>1, <2>1, <2>2 DEF Paths
<1> HIDE DEF next
<1>3. \A k \in 1 .. l : At(v, next, k) = At(v, path, k)
  BY <1>2 DEF At
<1>4. \A k \in 1 .. l : k = l \/ k \in 1 .. l - 1
  BY <1>1
<1>5. Walked(v, next, l + 1)
  <2>1. next[1] = RootTable
    <3>1. 1 \in 1 .. l
      BY <1>1
    <3> QED  BY <1>2, <3>1 DEF Walked
  <2>2. ASSUME NEW k \in 1 .. l
        PROVE  /\ At(v, next, k) < PhysEnd /\ Memory[At(v, next, k)].present
               /\ next[k + 1] = Memory[At(v, next, k)].frame
               /\ k = Levels - 1 => ~Memory[At(v, next, k)].large
    <3>1. CASE k = l
      BY <1>2, <1>3, <3>1
    <3>2. CASE k \in 1 .. l - 1
      <4>1. k + 1 \in 1 .. l
        BY <1>1, <3>2
      <4>2. next[k + 1] = path[k + 1]
        BY <1>2, <4>1
      <4> QED  BY <1>3, <3>2, <4>2 DEF Walked
    <3> QED  BY <1>4, <3>1, <3>2
  <2> QED  BY <1>1, <1>2, <2>1, <2>2 DEF Walked
<1>6. Forced(v, next, l + 1)
  <2> SUFFICES ASSUME NEW pn \in Pages(v)
               PROVE  pn[2] >= l + 1 /\ \A k \in 1 .. l + 1 : pn[1][k] = next[k]
    BY DEF Forced
  <2>1. /\ pn[2] \in {Levels - 1, Levels} /\ pn[2] \in 1 .. Levels /\ OnPath(v, pn[1], pn[2])
        /\ pn[2] >= l /\ \A k \in 1 .. l : pn[1][k] = path[k]
    BY PagesAre DEF Forced
  <2>2. pn[1][l] + Index(v, l) = At(v, path, l)
    BY <1>1, <2>1 DEF At
  <2>3. pn[2] # l
    BY <2>1, <2>2, LevelsType DEF OnPath
  <2>4. pn[2] >= l + 1 /\ l \in 1 .. pn[2] - 1
    BY <1>1, <2>1, <2>3
  <2>5. pn[1][l + 1] = e.frame
    BY <2>1, <2>2, <2>4 DEF OnPath
  <2>6. \A k \in 1 .. l + 1 : k = l + 1 \/ k \in 1 .. l
    BY <1>1
  <2> QED  BY <1>2, <2>1, <2>4, <2>5, <2>6
<1>7. Marked(v, next, l + 1) = (Marked(v, path, l) \/ e.nx)
  <2>1. Marked(v, next, l + 1) = \E k \in 1 .. l : Memory[At(v, path, k)].nx
    BY <1>1, <1>3 DEF Marked
  <2>2. l \in 1 .. l /\ \A k \in 1 .. l - 1 : k \in 1 .. l
    BY <1>1
  <2>3. (\E k \in 1 .. l : Memory[At(v, path, k)].nx) <=> (Marked(v, path, l) \/ e.nx)
    BY <1>4, <2>2 DEF Marked
  <2>4. e.nx \in BOOLEAN /\ Marked(v, path, l) \in BOOLEAN
    BY EntryIs DEF Entry, Marked
  <2> QED  BY <2>1, <2>3, <2>4
<1> QED  BY <1>2, <1>5, <1>6, <1>7

(* The page at the end of the walk, as the only one. *)
LEMMA OnlyPage ==
  ASSUME NEW v \in Nat, NEW path \in Paths, NEW l \in 1 .. Levels,
         Walked(v, path, l), Forced(v, path, l),
         At(v, path, l) < PhysEnd, Memory[At(v, path, l)].present,
         l = Levels \/ (l = Levels - 1 /\ Memory[At(v, path, l)].large)
  PROVE  /\ <<path, l>> \in Pages(v)
         /\ \A pn \in Pages(v) : pn[2] = l /\ \A k \in 1 .. l : pn[1][k] = path[k]
<1>1. l \in Nat /\ l \in {Levels - 1, Levels}
  BY LevelsType
<1>2. \A k \in 1 .. l : k = l \/ k \in 1 .. l - 1
  BY <1>1
<1>3. OnPath(v, path, l)
  <2>1. path[1] = RootTable
    BY DEF Walked
  <2>2. \A k \in 1 .. l : path[k] + Index(v, k) < PhysEnd /\ Memory[path[k] + Index(v, k)].present
    BY <1>2 DEF Walked, At
  <2>3. \A k \in 1 .. l - 1 : /\ path[k + 1] = Memory[path[k] + Index(v, k)].frame
                              /\ k = Levels - 1 => ~Memory[path[k] + Index(v, k)].large
    BY DEF Walked, At
  <2>4. l = Levels - 1 => Memory[path[l] + Index(v, l)].large
    BY LevelsType DEF At
  <2> QED  BY <2>1, <2>2, <2>3, <2>4 DEF OnPath
<1>4. <<path, l>> \in Pages(v)
  <2>1. <<path, l>> \in [1 .. Levels -> Frames] \X {Levels - 1, Levels}
    BY <1>1 DEF Paths
  <2> QED  BY <1>3, <2>1 DEF Pages
<1>5. ASSUME NEW pn \in Pages(v)
      PROVE  pn[2] = l /\ \A k \in 1 .. l : pn[1][k] = path[k]
  <2>1. /\ pn[2] \in {Levels - 1, Levels} /\ OnPath(v, pn[1], pn[2])
        /\ pn[2] >= l /\ \A k \in 1 .. l : pn[1][k] = path[k]
    BY PagesAre DEF Forced
  <2>2. l \in 1 .. l /\ pn[1][l] + Index(v, l) = At(v, path, l)
    BY <1>1, <2>1 DEF At
  <2>3. ASSUME pn[2] = Levels, l = Levels - 1 PROVE FALSE
    <3>1. l \in 1 .. pn[2] - 1
      BY <1>1, <2>3
    <3>2. Memory[At(v, path, l)].large
      BY <2>3, LevelsType
    <3> QED  BY <2>1, <2>2, <2>3, <3>1, <3>2 DEF OnPath
  <2> QED  BY <1>1, <2>1, <2>3, LevelsType
<1> QED  BY <1>4, <1>5

(* A page is there for every address of its span. *)
LEMMA PageSpans ==
  ASSUME NEW v \in Nat, NEW i \in Nat, NEW path \in Paths, NEW l \in 1 .. Levels,
         <<path, l>> \in Pages(v), (v % Span[l]) + i < Span[l]
  PROVE  /\ <<path, l>> \in Pages(v + i)
         /\ PageAt(v + i, path, l) = PageAt(v, path, l) + i
         /\ v <= VirtEnd => v + i <= VirtEnd
<1>1. PICK w \in Nat : w = v + i
  OBVIOUS
<1>2. PICK s \in Nat \ {0} : s = Span[l]
  BY SpaceAssumption
<1>3. w \div s = v \div s /\ w % s = (v % s) + i /\ v % s \in Nat
  <2>1. (v % s) + i < s
    BY <1>2
  <2>2. (v + i) \div s = v \div s /\ (v + i) % s = (v % s) + i
    BY <2>1, Within
  <2>3. v % s \in Nat
    BY DivType
  <2> QED  BY <1>1, <2>2, <2>3
<1>4. /\ \A k \in 1 .. l : Index(w, k) = Index(v, k)
      /\ v <= VirtEnd => w <= VirtEnd
  BY <1>2, <1>3, SameIndex, SameSpace
<1>5. OnPath(v, path, l) /\ l \in {Levels - 1, Levels} /\ l \in Nat
  <2>1. /\ <<path, l>>[1] = path /\ <<path, l>>[2] = l
    OBVIOUS
  <2> QED  BY <2>1, PagesAre, LevelsType
<1>6. l \in 1 .. l /\ \A k \in 1 .. l - 1 : k \in 1 .. l
  BY <1>5
<1>7. OnPath(w, path, l)
  BY <1>4, <1>5, <1>6 DEF OnPath
<1>8. <<path, l>> \in Pages(w)
  <2>1. <<path, l>> \in [1 .. Levels -> Frames] \X {Levels - 1, Levels}
    BY <1>5 DEF Paths
  <2> QED  BY <1>7, <2>1 DEF Pages
<1>9. PageAt(w, path, l) = PageAt(v, path, l) + i
  <2>1. At(v, path, l) = At(w, path, l) /\ Memory[At(v, path, l)].frame \in Nat
    <3>1. At(v, path, l) < PhysEnd
      BY <1>5, <1>6 DEF OnPath, At
    <3> QED  BY <1>4, <1>6, <3>1, EntryIs DEF At, Entry
  <2>2. PICK f \in Nat : f = Memory[At(v, path, l)].frame
    BY <2>1
  <2>3. PageAt(v, path, l) = f + (v % s) /\ PageAt(w, path, l) = f + (w % s)
    BY <1>2, <2>1, <2>2 DEF PageAt, At
  <2> QED  BY <1>3, <2>3
<1> QED  BY <1>1, <1>4, <1>8, <1>9

----------------------------------------------------------------------------
(* What a translation has to deliver: the only physical address there is, and a
   size within which addresses of the memory follow one another. *)

PieceOK(v, phys, size) ==
  IF size = PADDR_ERROR THEN IsLinear(v) /\ phys = v - LinearBase(v)
  ELSE /\ size \in Nat \ {0}
       /\ \A i \in Nat : (v % size) + i < size /\ phys + i < PhysEnd => Maps(v + i, phys + i)

Finds(v, phys, size) ==
  /\ \A p \in Targets(v) : p = phys
  /\ phys < PhysEnd => phys \in Targets(v) /\ PieceOK(v, phys, size)

LEMMA LinearFinds ==
  ASSUME NEW v \in Nat, IsLinear(v)
  PROVE  v - LinearBase(v) \in Nat /\ Finds(v, v - LinearBase(v), PADDR_ERROR)
BY LinearBelow DEF Finds, Targets, PieceOK

(* A page does not reach over a bound that is a multiple of its size. *)
LEMMA StaysBelow ==
  ASSUME NEW s \in Nat \ {0}, NEW m \in Nat, m % s = 0, NEW v \in Nat, NEW i \in Nat,
         (v % s) + i < s, v < m
  PROVE  v + i < m
<1>1. v = s * (v \div s) + (v % s) /\ v % s \in Nat /\ v \div s \in Nat
  OBVIOUS
<1>2. m = s * (m \div s) /\ m \div s \in Nat
  OBVIOUS
<1>3. PICK q \in Nat : q = v \div s
  BY <1>1
<1>4. PICK n \in Nat : n = m \div s
  BY <1>2
<1>5. PICK p \in Nat : p = v % s
  BY <1>1
<1>6. v = s * q + p /\ m = s * n /\ p + i < s
  BY <1>1, <1>2, <1>3, <1>4, <1>5
<1>7. q < n
  <2>1. SUFFICES ASSUME n <= q PROVE FALSE
    OBVIOUS
  <2>2. PICK d \in Nat : q = n + d
    <3>1. q - n \in Nat /\ q = n + (q - n)
      BY <2>1
    <3> QED  BY <3>1
  <2>3. s * (n + d) = s * n + s * d /\ s * d \in Nat
    OBVIOUS
  <2> QED  BY <1>6, <2>2, <2>3
<1>8. PICK d \in Nat : n = q + 1 + d
  <2>1. n - q - 1 \in Nat /\ n = q + 1 + (n - q - 1)
    BY <1>7
  <2> QED  BY <2>1
<1>9. s * (q + 1 + d) = s * q + s + s * d /\ s * d \in Nat /\ s * q \in Nat
  OBVIOUS
<1> QED  BY <1>6, <1>8, <1>9

(* The addresses of a page are outside of linear memory, or all are in it. *)
LEMMA StaysBeyond ==
  ASSUME NEW v \in Nat, NEW i \in Nat, InSpace(v), ~IsLinear(v),
         NEW l \in 1 .. Levels, l = Levels \/ l = Levels - 1, (v % Span[l]) + i < Span[l]
  PROVE  v + i >= PageOffset /\ ~IsLinear(v + i)
<1>1. PICK s \in Nat \ {0} : s = Span[l]
  BY SpaceAssumption
<1>2. KernelMap % s = 0 /\ KernelMap \in Nat
  BY <1>1, SpaceAssumption, SpansAssumption
<1>3. v < KernelMap => v + i < KernelMap
  BY <1>1, <1>2, StaysBelow
<1>4. {PageOffset, HighMemory, KernelMap, ModulesVaddr} \subseteq Nat
  BY SpaceAssumption
<1>5. PageOffset <= v /\ HighMemory <= v /\ (v < KernelMap \/ ModulesVaddr <= v)
  BY <1>4 DEF InSpace, IsLinear, InKernelMap
<1>6. v + i >= PageOffset /\ ~(v + i < HighMemory)
  BY <1>4, <1>5
<1>7. ~InKernelMap(v + i)
  BY <1>3, <1>4, <1>5 DEF InKernelMap
<1> QED  BY <1>6, <1>7 DEF IsLinear

LEMMA PageFinds ==
  ASSUME NEW v \in Nat, NEW path \in Paths, NEW l \in 1 .. Levels, InSpace(v), ~IsLinear(v),
         Walked(v, path, l), Forced(v, path, l),
         At(v, path, l) < PhysEnd, NEW e, e = Memory[At(v, path, l)], e.present,
         l = Levels \/ (l = Levels - 1 /\ e.large)
  PROVE  Finds(v, e.frame + (v % Span[l]), Span[l])
<1> DEFINE phys == e.frame + (v % Span[l])
<1>1. /\ <<path, l>> \in Pages(v)
      /\ \A pn \in Pages(v) : pn[2] = l /\ \A k \in 1 .. l : pn[1][k] = path[k]
  BY OnlyPage
<1>2. l \in 1 .. l
  BY LevelsType
<1>3. PageAt(v, path, l) = phys
  BY DEF PageAt, At
<1>4. \A pn \in Pages(v) : PageAt(v, pn[1], pn[2]) = phys
  BY <1>1, <1>2, <1>3 DEF PageAt
<1>5. Span[l] \in Nat \ {0} /\ v % Span[l] \in Nat /\ e.frame \in Nat /\ phys \in Nat
  <2>1. PICK s \in Nat \ {0} : s = Span[l]
    BY SpaceAssumption
  <2>2. v % s \in Nat
    BY DivType
  <2>3. e.frame \in Nat
    BY EntryIs DEF Entry
  <2> QED  BY <2>1, <2>2, <2>3
<1>6. Span[l] # PADDR_ERROR
  BY <1>5 DEF PADDR_ERROR
<1>7. Targets(v) = {p \in {PageAt(v, pn[1], pn[2]) : pn \in Pages(v)} : p < PhysEnd}
  BY DEF Targets
<1>8. phys < PhysEnd => phys \in Targets(v)
  <2>1. PageAt(v, <<path, l>>[1], <<path, l>>[2]) = phys
    BY <1>3
  <2> HIDE DEF phys
  <2> QED  BY <1>1, <1>7, <2>1
<1>9. ASSUME NEW i \in Nat, (v % Span[l]) + i < Span[l], phys + i < PhysEnd
      PROVE  Maps(v + i, phys + i)
  <2>1. /\ <<path, l>> \in Pages(v + i) /\ PageAt(v + i, path, l) = phys + i
        /\ v + i <= VirtEnd
    BY <1>1, <1>3, <1>9, PageSpans DEF InSpace
  <2>2. v + i >= PageOffset /\ ~IsLinear(v + i)
    BY <1>9, StaysBeyond
  <2>3. Targets(v + i) = {p \in {PageAt(v + i, pn[1], pn[2]) : pn \in Pages(v + i)} : p < PhysEnd}
    BY <2>2 DEF Targets
  <2>4. PageAt(v + i, <<path, l>>[1], <<path, l>>[2]) = phys + i
    BY <2>1
  <2> HIDE DEF phys
  <2>5. phys + i \in Targets(v + i)
    BY <1>9, <2>1, <2>3, <2>4
  <2> QED  BY <2>1, <2>2, <2>5, SpaceAssumption DEF Maps, InSpace
<1> HIDE DEF phys
<1>10. phys < PhysEnd => PieceOK(v, phys, Span[l])
  BY <1>5, <1>6, <1>9 DEF PieceOK
<1>11. \A p \in Targets(v) : p = phys
  BY <1>4, <1>7
<1>12. Finds(v, phys, Span[l])
  BY <1>8, <1>10, <1>11 DEF Finds
<1> QED  BY <1>12 DEF phys

(* ... and what its flags say: nothing but the walk is asked. *)
LEMMA PageFlags ==
  ASSUME NEW v \in Nat, NEW path \in Paths, NEW l \in 1 .. Levels, InSpace(v),
         Walked(v, path, l), Forced(v, path, l),
         At(v, path, l) < PhysEnd, NEW e, e = Memory[At(v, path, l)], e.present,
         l = Levels \/ (l = Levels - 1 /\ e.large)
  PROVE  Executable(v) <=> (e.frame + (v % Span[l]) < PhysEnd /\ ~(Marked(v, path, l) \/ e.nx))
<1> DEFINE phys == e.frame + (v % Span[l])
<1>1. /\ <<path, l>> \in Pages(v)
      /\ \A pn \in Pages(v) : pn[2] = l /\ \A k \in 1 .. l : pn[1][k] = path[k]
  BY OnlyPage
<1>2. l \in 1 .. l /\ (\A k \in 1 .. l - 1 : k \in 1 .. l) /\ \A k \in 1 .. l : k = l \/ k \in 1 .. l - 1
  BY LevelsType
<1>3. PageAt(v, path, l) = phys
  BY DEF PageAt, At
<1>4. \A pn \in Pages(v) : PageAt(v, pn[1], pn[2]) = phys
  BY <1>1, <1>2, <1>3 DEF PageAt
<1>5. (\A k \in 1 .. l : ~Memory[path[k] + Index(v, k)].nx) <=> ~(Marked(v, path, l) \/ e.nx)
  BY <1>2 DEF Marked, At
<1>6. \A pn \in Pages(v) :
        (\A k \in 1 .. pn[2] : ~Memory[pn[1][k] + Index(v, k)].nx) <=> ~(Marked(v, path, l) \/ e.nx)
  BY <1>1, <1>5
<1> HIDE DEF phys
<1>7. Executable(v) <=> (phys < PhysEnd /\ ~(Marked(v, path, l) \/ e.nx))
  BY <1>1, <1>4, <1>6 DEF Executable
<1> QED  BY <1>7 DEF phys

----------------------------------------------------------------------------
(* The invariant *)

Kinds == {"none", "bytes", "exception", "minus one", "true", "false"}
Answer == [job : Job, kind : Kinds, bytes : Seq(Nat), short : BOOLEAN]

Follows(j, data) ==
  \A k \in 1 .. Len(data) :
    Maps(j.pos + k - 1, data[k]) \/ BeyondLinear(j, j.pos + k - 1, data[k])

(* What BytesExact and AnswersExact ask of one answer. *)
Right(j, kind, data, short) ==
  /\ kind = "bytes" => Len(data) = j.len /\ Follows(j, data)
  /\ kind = "exception" => \E k \in {0} \cup 0 .. j.len - 1 : ~IsMapped(j.pos + k)
  /\ kind = "minus one" => ~InSpace(j.pos)
  /\ kind \in {"true", "false"} /\ j.op = "isExecutable" => (kind = "true" <=> Executable(j.pos))
  /\ kind \in {"true", "false"} /\ j.op = "safeSeek" /\ ~short => (kind = "true" <=> IsMapped(j.pos))

AnswersRight ==
  /\ answer \in [Threads -> Answer]
  /\ \A t \in Threads : Right(answer[t].job, answer[t].kind, answer[t].bytes, answer[t].short)

(* Locks are left out for a single builder only. *)
SafeMode == building => threadSafe = (Cardinality(Builders) > 1)

(* The address a translation is for. *)
Wanted(t) == IF walk[t].phase = "data" THEN pos ELSE job[t].pos

(* A call seeks before it reads, *)
PhaseFits(t) ==
  /\ walk[t].phase = "seek" => bytes[t] = <<>> /\ walk[t].got = 0
  /\ pc[t] \in {"seekData", "readData", "advance"} => walk[t].phase = "data"
  /\ pc[t] = "setPos" => walk[t].phase = "seek"

(* _pos is where the bytes read so far end, *)
PosFits(t) ==
  /\ walk[t].phase = "data" /\ pc[t] \in {"translate", "seekEntry", "readEntry", "seekData", "readData"} =>
       pos = job[t].pos + Len(bytes[t]) /\ Len(bytes[t]) < job[t].len
  /\ pc[t] = "advance" =>
       /\ pos + walk[t].got = job[t].pos + Len(bytes[t])
       /\ walk[t].got = 0 => Len(bytes[t]) = job[t].len

(* a walk is on the path to every page that holds the address, *)
WalkFits(t) ==
  pc[t] \in {"seekEntry", "readEntry"} =>
    LET w == walk[t]
    IN /\ w.vaddr = Wanted(t) /\ InSpace(w.vaddr) /\ (IsLinear(w.vaddr) => WithEntries(t))
       /\ \E path \in Paths : /\ Walked(w.vaddr, path, w.level) /\ Forced(w.vaddr, path, w.level)
                              /\ path[w.level] = w.table /\ (w.nx <=> Marked(w.vaddr, path, w.level))

(* what it found is what there is, *)
FoundFits(t) ==
  /\ pc[t] = "seekPhys" => (walk[t].phys # PADDR_ERROR <=> IsMapped(job[t].pos))
  /\ pc[t] \in {"seekData", "readData"} =>
       walk[t].phys < PhysEnd /\ PieceOK(pos, walk[t].phys, walk[t].size)

(* and the physical file is read where it was sought. *)
PhysFits(t) ==
  /\ pc[t] = "readEntry" => physPos = walk[t].table + Index(walk[t].vaddr, walk[t].level)
  /\ pc[t] = "readData" => physPos = walk[t].phys

ReadFits(t) ==
  /\ PhaseFits(t) /\ PosFits(t) /\ WalkFits(t) /\ FoundFits(t) /\ PhysFits(t)
  /\ Follows(job[t], bytes[t])

ReadInv ==
  TypeInv /\ SafeMode /\ AnswersRight /\ \A t \in Threads : ReadFits(t)

----------------------------------------------------------------------------
(* The other threads *)

(* At most one thread is in a call while nothing is locked. *)
LEMMA Alone ==
  ASSUME TypeInv, SafeMode, ~threadSafe, NEW t \in Threads, NEW u \in Threads,
         pc[t] # "idle", pc[u] # "idle"
  PROVE  t = u
<1>1. CASE ~building
  BY <1>1 DEF TypeInv, ModeOK, Threads
<1>2. CASE building
  <2>1. t \in Builders /\ u \in Builders /\ ~(Cardinality(Builders) > 1) /\ IsFiniteSet(Builders)
    BY <1>2, ThreadsAssumption DEF TypeInv, ModeOK, Threads, SafeMode
  <2>2. SUFFICES ASSUME t # u PROVE FALSE
    OBVIOUS
  <2>3. {t, u} \subseteq Builders /\ Cardinality({u}) = 1 /\ IsFiniteSet({u}) /\ t \notin {u}
    BY <2>1, <2>2, FS_Singleton
  <2>4. Cardinality({u} \cup {t}) = Cardinality({u}) + 1
    BY <2>3, FS_AddElement
  <2>5. {t, u} = {u} \cup {t}
    OBVIOUS
  <2>6. Cardinality({t, u}) <= Cardinality(Builders) /\ Cardinality(Builders) \in Nat
    BY <2>1, <2>3, FS_Subset, FS_CardinalityType
  <2> QED  BY <2>1, <2>3, <2>4, <2>5, <2>6
<1> QED  BY <1>1, <1>2

(* The positions a thread relies on are not moved by the others. *)
LEMMA Undisturbed ==
  ASSUME TypeInv, SafeMode, NEW t \in Threads, NEW u \in Threads, t # u,
         Step(u) \/ \E j \in Jobs : Call(u, j)
  PROVE  /\ walk[t].phase = "data" => pos' = pos
         /\ pc[t] \in {"readEntry", "readData"} => physPos' = physPos
<1>1. ASSUME walk[t].phase = "data", pos' # pos PROVE FALSE
  <2>1. SetPos(u) \/ Advance(u)
    BY <1>1 DEF Step, Call, LockVirt, Check, Translate, SeekEntry, ReadEntry, SeekPhys, SeekData,
           ReadData, files
  <2>2. pc[u] \in {"setPos", "advance"} /\ job[u].op = "readAtomic"
    BY <2>1 DEF SetPos, Advance, TypeInv, LocalOK
  <2>3. InRead(u)
    BY <2>2 DEF InRead
  <2>4. InRead(t)
    BY <1>1 DEF TypeInv, LocalOK, InRead, NoWalk
  <2>5. CASE threadSafe
    BY <2>3, <2>4, <2>5 DEF TypeInv, TypeOK
  <2>6. CASE ~threadSafe
    BY <2>3, <2>4, <2>6, Alone DEF InRead
  <2> QED  BY <2>5, <2>6 DEF TypeInv, TypeOK
<1>2. ASSUME pc[t] \in {"readEntry", "readData"}, physPos' # physPos PROVE FALSE
  <2>1. SeekEntry(u) \/ ReadEntry(u) \/ SeekPhys(u) \/ SeekData(u) \/ ReadData(u)
    BY <1>2 DEF Step, Call, LockVirt, Check, Translate, SetPos, Advance, files
  <2>2. pc[u] # "idle" /\ pc[t] # "idle"
    BY <1>2, <2>1 DEF SeekEntry, ReadEntry, SeekPhys, SeekData, ReadData
  <2>3. threadSafe
    BY <2>2, Alone DEF TypeInv, TypeOK
  <2>4. physMutex = t /\ t # NoThread
    BY <1>2, <2>3, ThreadsAssumption DEF TypeInv, TypeOK, InPhysSection
  <2>5. ~InPhysSection(u)
    BY <2>3, <2>4 DEF TypeInv, TypeOK
  <2> QED  BY <2>1, <2>3, <2>4, <2>5 DEF InPhysSection, SeekEntry, ReadEntry, SeekPhys, SeekData, ReadData,
              LockPhys, PhysSection
<1> QED  BY <1>1, <1>2

LEMMA OthersKept ==
  ASSUME TypeInv, SafeMode, NEW t \in Threads, NEW u \in Threads, t # u,
         Step(u) \/ \E j \in Jobs : Call(u, j), OnlyBy(u), ReadFits(t)
  PROVE  ReadFits(t)'
<1>1. /\ pc'[t] = pc[t] /\ job'[t] = job[t] /\ walk'[t] = walk[t] /\ bytes'[t] = bytes[t]
  BY DEF OnlyBy
<1>2. walk[t].phase = "data" => pos' = pos
  BY Undisturbed
<1>3. pc[t] \in {"readEntry", "readData"} => physPos' = physPos
  BY Undisturbed
<1>4. PhaseFits(t)'
  BY <1>1 DEF ReadFits, PhaseFits
<1>5. PosFits(t)'
  BY <1>1, <1>2 DEF ReadFits, PhaseFits, PosFits
<1>6. WalkFits(t)'
  BY <1>1, <1>2 DEF ReadFits, WalkFits, Wanted, WithEntries
<1>7. FoundFits(t)'
  BY <1>1, <1>2 DEF ReadFits, PhaseFits, FoundFits
<1>8. PhysFits(t)'
  BY <1>1, <1>3 DEF ReadFits, PhysFits
<1>9. Follows(job[t], bytes[t])'
  BY <1>1 DEF ReadFits, Follows
<1> QED  BY <1>4, <1>5, <1>6, <1>7, <1>8, <1>9 DEF ReadFits

----------------------------------------------------------------------------
(* The ways out *)

LEMMA FinishReads ==
  ASSUME ReadInv, NEW t \in Threads, NEW kind \in Kinds, NEW data \in Seq(Nat), NEW short \in BOOLEAN,
         Finish(t, kind, data, short), Right(job[t], kind, data, short)
  PROVE  ReadFits(t)' /\ AnswersRight'
<1>1. pc'[t] = "idle" /\ walk'[t] = NoWalk /\ bytes'[t] = <<>>
  BY DEF Finish, Goto, ReadInv, TypeInv, TypeOK, LocalsType
<1>2. ReadFits(t)'
  <2>1. walk'[t].phase = "seek" /\ walk'[t].got = 0
    BY <1>1 DEF NoWalk
  <2>2. Follows(job[t], bytes[t])'
    BY <1>1 DEF Follows
  <2>3. PhaseFits(t)' /\ PosFits(t)' /\ WalkFits(t)' /\ FoundFits(t)' /\ PhysFits(t)'
    BY <1>1, <2>1 DEF PhaseFits, PosFits, WalkFits, FoundFits, PhysFits
  <2> QED  BY <2>2, <2>3 DEF ReadFits
<1>3. [job |-> job[t], kind |-> kind, bytes |-> data, short |-> short] \in Answer
  BY JobType DEF ReadInv, Answer
<1>4. answer \in [Threads -> Answer]
      /\ answer' = [answer EXCEPT ![t] = [job |-> job[t], kind |-> kind, bytes |-> data, short |-> short]]
  BY DEF ReadInv, AnswersRight, Finish
<1>5. answer' \in [Threads -> Answer]
  BY <1>3, <1>4
<1>6. ASSUME NEW u \in Threads
      PROVE  Right(answer'[u].job, answer'[u].kind, answer'[u].bytes, answer'[u].short)
  <2>1. CASE u = t
    <3>1. answer'[u].job = job[t] /\ answer'[u].kind = kind /\ answer'[u].bytes = data /\ answer'[u].short = short
      BY <1>4, <2>1
    <3> QED  BY <3>1
  <2>2. CASE u # t
    <3>1. answer'[u] = answer[u]
      BY <1>4, <2>2
    <3> QED  BY <3>1 DEF ReadInv, AnswersRight
  <2> QED  BY <2>1, <2>2
<1> QED  BY <1>2, <1>5, <1>6 DEF AnswersRight

LEMMA AnswersKept ==
  ASSUME ReadInv, UNCHANGED answer
  PROVE  AnswersRight'
BY DEF ReadInv, AnswersRight

(* What is known of a thread that translates. *)
LEMMA Translating ==
  ASSUME ReadInv, NEW t \in Threads, pc[t] \in {"translate", "readEntry"}
  PROVE  /\ walk[t] \in Walk /\ walk[t].phase \in {"seek", "data"} /\ Wanted(t) \in Nat
         /\ job[t] \in Job /\ job[t].op \in Ops /\ job[t].pos \in Nat /\ job[t].len \in Nat
         /\ walk[t].phase = "seek" => Wanted(t) = job[t].pos /\ bytes[t] = <<>> /\ walk[t].got = 0
         /\ walk[t].phase = "data" =>
              /\ job[t].op = "readAtomic" /\ Len(bytes[t]) \in Nat /\ Wanted(t) = pos
              /\ pos = job[t].pos + Len(bytes[t]) /\ Len(bytes[t]) < job[t].len
         /\ Follows(job[t], bytes[t])
<1>1. walk[t] \in Walk /\ walk[t].phase \in {"seek", "data"} /\ pos \in Nat /\ bytes[t] \in Seq(Nat)
  BY DEF ReadInv, TypeInv, TypeOK, LocalsType, Walk
<1>2. job[t] \in Job /\ job[t].op \in Ops /\ job[t].pos \in Nat /\ job[t].len \in Nat
  BY JobType DEF ReadInv
<1>3. PhaseFits(t) /\ PosFits(t) /\ Follows(job[t], bytes[t]) /\ LocalOK(t)
  BY DEF ReadInv, ReadFits, TypeInv
<1>4. Len(bytes[t]) \in Nat
  BY <1>1
<1> QED  BY <1>1, <1>2, <1>3, <1>4 DEF PhaseFits, PosFits, LocalOK, Wanted

(* An address that does not translate. *)
LEMMA UntranslatableReads ==
  ASSUME ReadInv, NEW t \in Threads, pc[t] \in {"translate", "readEntry"}, Untranslatable(t),
         job[t].op = "isExecutable" => ~Executable(Wanted(t)),
         job[t].op # "isExecutable" => ~IsMapped(Wanted(t))
  PROVE  ReadFits(t)' /\ AnswersRight'
<1>0. <<>> \in Seq(Nat)
  OBVIOUS
<1>1. CASE job[t].op = "readAtomic"
  <2>1. Finish(t, "exception", <<>>, FALSE)
    BY <1>1 DEF Untranslatable
  <2>2. \E k \in {0} \cup 0 .. job[t].len - 1 : ~IsMapped(job[t].pos + k)
    <3>1. CASE walk[t].phase = "seek"
      <4>1. job[t].pos + 0 = Wanted(t)
        BY <3>1, Translating
      <4> QED  BY <1>1, <4>1
    <3>2. CASE walk[t].phase = "data"
      <4>1. Len(bytes[t]) \in 0 .. job[t].len - 1 /\ job[t].pos + Len(bytes[t]) = Wanted(t)
        BY <3>2, Translating
      <4> QED  BY <1>1, <4>1
    <3> QED  BY <3>1, <3>2, Translating
  <2>3. Right(job[t], "exception", <<>>, FALSE)
    BY <1>1, <2>2 DEF Right
  <2> QED  BY <1>0, <2>1, <2>3, FinishReads DEF Kinds
<1>2. CASE job[t].op = "isExecutable"
  <2>1. Finish(t, "false", <<>>, FALSE)
    BY <1>2 DEF Untranslatable
  <2>2. Wanted(t) = job[t].pos
    BY <1>2, Translating
  <2>3. Right(job[t], "false", <<>>, FALSE)
    BY <1>2, <2>2 DEF Right
  <2> QED  BY <1>0, <2>1, <2>3, FinishReads DEF Kinds
<1>3. CASE job[t].op = "safeSeek"
  <2>1. /\ walk' = [walk EXCEPT ![t].phys = PADDR_ERROR] /\ Goto(t, "seekPhys")
        /\ UNCHANGED <<job, bytes, answer, virtMutex>>
    BY <1>3 DEF Untranslatable
  <2>2. walk[t].phase = "seek" /\ Wanted(t) = job[t].pos
    BY <1>3, Translating
  <2>3. /\ pc'[t] = "seekPhys" /\ walk'[t].phase = walk[t].phase /\ walk'[t].got = walk[t].got
        /\ walk'[t].phys = PADDR_ERROR /\ job' = job /\ bytes' = bytes
    BY <2>1 DEF Goto, ReadInv, TypeInv, TypeOK, LocalsType, Walk
  <2>4. PhaseFits(t)' /\ PosFits(t)' /\ WalkFits(t)' /\ PhysFits(t)'
    BY <2>2, <2>3, Translating DEF PhaseFits, PosFits, WalkFits, PhysFits
  <2>5. FoundFits(t)'
    BY <1>3, <2>2, <2>3 DEF FoundFits
  <2>6. Follows(job[t], bytes[t])'
    BY <2>3, Translating
  <2> QED  BY <2>1, <2>4, <2>5, <2>6, AnswersKept DEF ReadFits
<1> QED  BY <1>1, <1>2, <1>3, Translating DEF Ops

(* One that does. *)
LEMMA UseReads ==
  ASSUME ReadInv, NEW t \in Threads, pc[t] \in {"translate", "readEntry"},
         NEW phys \in Nat, NEW size \in Nat \cup {PADDR_ERROR}, NEW nx, Use(t, phys, size, nx),
         phys < PhysEnd, InSpace(Wanted(t)), UNCHANGED pos,
         job[t].op = "isExecutable" => (Executable(Wanted(t)) <=> ~nx),
         job[t].op # "isExecutable" => Finds(Wanted(t), phys, size)
  PROVE  ReadFits(t)' /\ AnswersRight'
<1>1. CASE job[t].op = "isExecutable"
  <2> DEFINE kind == IF nx THEN "false" ELSE "true"
  <2>1. Finish(t, kind, <<>>, FALSE)
    BY <1>1 DEF Use
  <2>2. Wanted(t) = job[t].pos
    BY <1>1, Translating
  <2>3. kind \in {"true", "false"} /\ (kind = "true" <=> Executable(job[t].pos))
    BY <1>1, <2>2
  <2> HIDE DEF kind
  <2>4. Right(job[t], kind, <<>>, FALSE)
    BY <1>1, <2>3 DEF Right
  <2>5. kind \in Kinds
    BY <2>3 DEF Kinds
  <2>6. <<>> \in Seq(Nat)
    OBVIOUS
  <2> QED  BY <2>1, <2>4, <2>5, <2>6, FinishReads
<1>2. CASE job[t].op # "isExecutable"
  <2> DEFINE l == IF walk[t].phase = "seek" THEN "seekPhys" ELSE "seekData"
  <2>1. /\ walk' = [walk EXCEPT ![t].phys = phys, ![t].size = size]
        /\ Goto(t, l) /\ UNCHANGED <<virtMutex, job, bytes, answer>>
    BY <1>2 DEF Use
  <2>2. l \in {"seekPhys", "seekData"} /\ (l = "seekPhys" <=> walk[t].phase = "seek")
        /\ (l = "seekData" <=> walk[t].phase = "data")
    BY Translating
  <2> HIDE DEF l
  <2>3. /\ pc'[t] = l /\ walk'[t].phase = walk[t].phase /\ walk'[t].got = walk[t].got
        /\ walk'[t].phys = phys /\ walk'[t].size = size /\ job' = job /\ bytes' = bytes
    BY <2>1 DEF Goto, ReadInv, TypeInv, TypeOK, LocalsType, Walk
  <2>4. PhaseFits(t)' /\ PosFits(t)' /\ WalkFits(t)' /\ PhysFits(t)'
    BY <2>2, <2>3, Translating DEF PhaseFits, PosFits, WalkFits, PhysFits
  <2>5. phys \in Targets(Wanted(t)) /\ PieceOK(Wanted(t), phys, size) /\ IsMapped(Wanted(t))
    BY <1>2 DEF Finds, IsMapped
  <2>6. FoundFits(t)'
    <3>1. CASE l = "seekPhys"
      <4>1. IsMapped(job[t].pos) /\ phys # PADDR_ERROR
        BY <2>2, <2>5, <3>1, Translating DEF PADDR_ERROR
      <4> QED  BY <2>3, <3>1, <4>1 DEF FoundFits
    <3>2. CASE l = "seekData"
      <4>1. PieceOK(pos, phys, size)
        BY <2>2, <2>5, <3>2, Translating
      <4> QED  BY <2>3, <3>2, <4>1 DEF FoundFits
    <3> QED  BY <2>2, <3>1, <3>2
  <2>7. Follows(job[t], bytes[t])'
    BY <2>3, Translating
  <2> QED  BY <2>1, <2>4, <2>6, <2>7, AnswersKept DEF ReadFits
<1> QED  BY <1>1, <1>2

LEMMA TranslatedReads ==
  ASSUME ReadInv, NEW t \in Threads, pc[t] \in {"translate", "readEntry"},
         NEW phys \in Nat, NEW size \in Nat \cup {PADDR_ERROR}, NEW nx, Translated(t, phys, size, nx),
         InSpace(Wanted(t)), UNCHANGED pos,
         job[t].op = "isExecutable" => (Executable(Wanted(t)) <=> (phys < PhysEnd /\ ~nx)),
         job[t].op # "isExecutable" => Finds(Wanted(t), phys, size)
  PROVE  ReadFits(t)' /\ AnswersRight'
<1>1. CASE phys >= PhysEnd
  <2>1. ~(phys < PhysEnd) /\ Untranslatable(t)
    BY <1>1, LevelsType DEF Translated
  <2>2. ASSUME job[t].op # "isExecutable" PROVE ~IsMapped(Wanted(t))
    <3>1. \A p \in Targets(Wanted(t)) : p = phys /\ p < PhysEnd
      BY <2>2 DEF Finds, Targets
    <3> QED  BY <2>1, <3>1 DEF IsMapped
  <2> QED  BY <2>1, <2>2, UntranslatableReads
<1>2. CASE ~(phys >= PhysEnd)
  <2>1. phys < PhysEnd
    BY <1>2, LevelsType
  <2> QED  BY <1>2, <2>1, UseReads DEF Translated
<1> QED  BY <1>1, <1>2

----------------------------------------------------------------------------
(* The steps of a thread *)

LEMMA CallReads ==
  ASSUME ReadInv, NEW t \in Threads, NEW j \in Jobs, Call(t, j)
  PROVE  ReadFits(t)' /\ AnswersRight'
<1>1. /\ pc'[t] \in {"lockVirt", "check", "translate"} /\ walk'[t] = NoWalk /\ bytes'[t] = <<>>
      /\ UNCHANGED answer
  <2>1. j.op \in Ops
    BY JobsAssumption DEF Job
  <2>2. pc[t] = "idle" /\ walk' = walk /\ bytes' = bytes
    BY DEF Call
  <2>3. walk[t] = NoWalk /\ bytes[t] = <<>>
    BY <2>2 DEF ReadInv, TypeInv, LocalOK
  <2>4. pc'[t] \in {"lockVirt", "check", "translate"}
    BY <2>1 DEF Call, Goto, Ops, ReadInv, TypeInv, TypeOK
  <2> QED  BY <2>2, <2>3, <2>4 DEF Call
<1>2. walk'[t].phase = "seek" /\ walk'[t].got = 0
  BY <1>1 DEF NoWalk
<1>3. Follows(job[t], bytes[t])'
  BY <1>1 DEF Follows
<1>4. PhaseFits(t)' /\ PosFits(t)' /\ WalkFits(t)' /\ FoundFits(t)' /\ PhysFits(t)'
  BY <1>1, <1>2 DEF PhaseFits, PosFits, WalkFits, FoundFits, PhysFits
<1> QED  BY <1>1, <1>3, <1>4, AnswersKept DEF ReadFits

LEMMA LockVirtReads ==
  ASSUME ReadInv, NEW t \in Threads, LockVirt(t)
  PROVE  ReadFits(t)' /\ AnswersRight'
<1>1. /\ pc[t] = "lockVirt" /\ pc'[t] = "check" /\ walk' = walk /\ bytes' = bytes /\ job' = job
      /\ UNCHANGED answer
  BY DEF LockVirt, Goto, ReadInv, TypeInv, TypeOK
<1>2. PhaseFits(t)' /\ PosFits(t)' /\ WalkFits(t)' /\ FoundFits(t)' /\ PhysFits(t)'
  BY <1>1 DEF ReadInv, ReadFits, PhaseFits, PosFits, WalkFits, FoundFits, PhysFits
<1>3. Follows(job[t], bytes[t])'
  BY <1>1 DEF ReadInv, ReadFits
<1> QED  BY <1>1, <1>2, <1>3, AnswersKept DEF ReadFits

(* The read begins: _pos is at the first address. *)
LEMMA LoopReads ==
  ASSUME ReadInv, NEW t \in Threads, job[t].op = "readAtomic", walk[t].phase = "seek",
         pos' = job[t].pos, Goto(t, Loop(t)), walk' = [walk EXCEPT ![t].phase = "data"],
         UNCHANGED <<job, bytes, answer>>
  PROVE  ReadFits(t)' /\ AnswersRight'
<1>1. /\ pc'[t] = Loop(t) /\ walk'[t].phase = "data" /\ walk'[t].got = walk[t].got
      /\ job' = job /\ bytes' = bytes
  BY DEF Goto, ReadInv, TypeInv, TypeOK, LocalsType, Walk
<1>2. bytes[t] = <<>> /\ walk[t].got = 0
  BY DEF ReadInv, ReadFits, PhaseFits
<1>3. job[t].pos \in Nat /\ job[t].len \in Nat
  BY JobType DEF ReadInv
<1>4. Loop(t) \in {"translate", "advance"} /\ (Loop(t) = "translate" <=> job[t].len > 0)
  BY DEF Loop
<1>5. PhaseFits(t)' /\ WalkFits(t)' /\ FoundFits(t)' /\ PhysFits(t)'
  BY <1>1, <1>4 DEF PhaseFits, WalkFits, FoundFits, PhysFits
<1>6. PosFits(t)'
  <2>1. Len(bytes'[t]) = 0 /\ pos' = job'[t].pos + 0 /\ pos' + walk'[t].got = job'[t].pos + 0
    BY <1>1, <1>2, <1>3
  <2>2. Loop(t) = "translate" => 0 < job'[t].len
    BY <1>1, <1>3, <1>4
  <2>3. Loop(t) = "advance" => job'[t].len = 0
    BY <1>1, <1>3, <1>4
  <2> QED  BY <1>1, <1>4, <2>1, <2>2, <2>3 DEF PosFits
<1>7. Follows(job[t], bytes[t])'
  BY <1>1, <1>2 DEF Follows
<1> QED  BY <1>5, <1>6, <1>7, AnswersKept DEF ReadFits

LEMMA CheckReads ==
  ASSUME ReadInv, NEW t \in Threads, Check(t)
  PROVE  ReadFits(t)' /\ AnswersRight'
<1>1. /\ pc[t] = "check" /\ pos' = pos /\ pos \in Nat
      /\ walk[t].phase = "seek" /\ job[t].op \in {"readAtomic", "safeSeek"}
      /\ job[t].pos \in Nat /\ <<>> \in Seq(Nat)
  <2>1. pc[t] = "check" /\ pos' = pos
    BY DEF Check, files
  <2>2. pos \in Nat /\ walk[t].phase = "seek" /\ job[t].op # "isExecutable"
    BY <2>1 DEF ReadInv, TypeInv, TypeOK, LocalOK
  <2>3. job[t].op \in Ops /\ job[t].pos \in Nat
    BY JobType DEF ReadInv
  <2> QED  BY <2>1, <2>2, <2>3 DEF Ops
<1>2. CASE job[t].pos > VirtEnd
  <2>1. ~InSpace(job[t].pos) /\ ~IsMapped(job[t].pos)
    BY SMTT(30), <1>1, <1>2, SpaceAssumption DEF InSpace, IsMapped
  <2>2. CASE job[t].op = "safeSeek"
    <3>1. Right(job[t], "false", <<>>, FALSE)
      BY <2>1, <2>2 DEF Right
    <3> QED  BY <1>1, <1>2, <2>2, <3>1, FinishReads DEF Check, Kinds
  <2>3. CASE job[t].op # "safeSeek"
    <3>1. Right(job[t], "minus one", <<>>, FALSE)
      BY <2>1, <2>3 DEF Right
    <3> QED  BY <1>1, <1>2, <2>3, <3>1, FinishReads DEF Check, Kinds
  <2> QED  BY <2>2, <2>3
<1>3. CASE ~(job[t].pos > VirtEnd) /\ pos # job[t].pos
  <2>1. Goto(t, "translate") /\ UNCHANGED <<job, walk, bytes, answer>>
    BY <1>3 DEF Check
  <2>2. pc'[t] = "translate" /\ walk'[t].phase = "seek"
    BY <1>1, <2>1 DEF Goto, ReadInv, TypeInv, TypeOK
  <2>3. PhaseFits(t)' /\ PosFits(t)' /\ WalkFits(t)' /\ FoundFits(t)' /\ PhysFits(t)'
    BY <2>1, <2>2 DEF ReadInv, ReadFits, PhaseFits, PosFits, WalkFits, FoundFits, PhysFits
  <2>4. Follows(job[t], bytes[t])'
    BY <2>1 DEF ReadInv, ReadFits
  <2> QED  BY <2>1, <2>3, <2>4, AnswersKept DEF ReadFits
<1>4. CASE ~(job[t].pos > VirtEnd) /\ pos = job[t].pos /\ job[t].op = "safeSeek"
  <2>1. Right(job[t], "true", <<>>, TRUE)
    BY <1>4 DEF Right
  <2> QED  BY <1>1, <1>4, <2>1, FinishReads DEF Check, Kinds
<1>5. CASE ~(job[t].pos > VirtEnd) /\ pos = job[t].pos /\ job[t].op = "readAtomic"
  <2>1. /\ walk' = [walk EXCEPT ![t].phase = "data"]
        /\ Goto(t, Loop(t)) /\ UNCHANGED <<job, bytes, answer>>
    BY <1>5 DEF Check
  <2> QED  BY <1>1, <1>5, <2>1, LoopReads
<1> QED  BY <1>1, <1>2, <1>3, <1>4, <1>5

LEMMA TranslateReads ==
  ASSUME ReadInv, NEW t \in Threads, Translate(t)
  PROVE  ReadFits(t)' /\ AnswersRight'
<1>1. /\ pc[t] = "translate" /\ pos' = pos
      /\ IF Wanted(t) < PageOffset \/ Wanted(t) > VirtEnd THEN Untranslatable(t)
         ELSE IF IsLinear(Wanted(t)) /\ ~WithEntries(t)
         THEN Translated(t, Wanted(t) - LinearBase(Wanted(t)), PADDR_ERROR, FALSE)
         ELSE /\ walk' = [walk EXCEPT ![t].vaddr = Wanted(t), ![t].level = 1, ![t].table = RootTable, ![t].nx = FALSE]
              /\ Goto(t, "seekEntry") /\ UNCHANGED <<virtMutex, job, bytes, answer>>
  BY DEF Translate, Wanted, files
<1>2. Wanted(t) \in Nat /\ PageOffset \in Nat /\ VirtEnd \in Nat
  BY <1>1, Translating, SpaceAssumption
<1>3. CASE Wanted(t) < PageOffset \/ Wanted(t) > VirtEnd
  <2>1. ~InSpace(Wanted(t))
    BY <1>2, <1>3 DEF InSpace
  <2> QED  BY <1>1, <1>3, <2>1, UntranslatableReads DEF IsMapped, Executable
<1>4. CASE ~(Wanted(t) < PageOffset \/ Wanted(t) > VirtEnd) /\ IsLinear(Wanted(t)) /\ ~WithEntries(t)
  <2>1. InSpace(Wanted(t)) /\ job[t].op # "isExecutable"
    BY <1>2, <1>4 DEF InSpace, WithEntries
  <2>2. Wanted(t) - LinearBase(Wanted(t)) \in Nat /\ Finds(Wanted(t), Wanted(t) - LinearBase(Wanted(t)), PADDR_ERROR)
    BY <1>2, <1>4, LinearFinds
  <2>3. Translated(t, Wanted(t) - LinearBase(Wanted(t)), PADDR_ERROR, FALSE)
    BY <1>1, <1>4
  <2> QED  BY <1>1, <2>1, <2>2, <2>3, TranslatedReads
<1>5. CASE ~(Wanted(t) < PageOffset \/ Wanted(t) > VirtEnd) /\ ~(IsLinear(Wanted(t)) /\ ~WithEntries(t))
  <2> PICK v \in Nat : v = Wanted(t)
    BY <1>2
  <2>1. /\ walk' = [walk EXCEPT ![t].vaddr = v, ![t].level = 1, ![t].table = RootTable, ![t].nx = FALSE]
        /\ Goto(t, "seekEntry") /\ UNCHANGED <<job, bytes, answer>>
    BY <1>1, <1>5
  <2>2. /\ pc'[t] = "seekEntry" /\ walk'[t].vaddr = v /\ walk'[t].level = 1 /\ walk'[t].table = RootTable
        /\ walk'[t].nx = FALSE /\ walk'[t].phase = walk[t].phase /\ walk'[t].got = walk[t].got
        /\ job' = job /\ bytes' = bytes
    BY <2>1 DEF Goto, ReadInv, TypeInv, TypeOK, LocalsType, Walk
  <2>3. PhaseFits(t)' /\ PosFits(t)' /\ FoundFits(t)' /\ PhysFits(t)'
    BY <1>1, <2>2, Translating DEF PhaseFits, PosFits, FoundFits, PhysFits
  <2>4. Wanted(t)' = v
    BY <1>1, <2>2 DEF Wanted
  <2>5. InSpace(v) /\ (IsLinear(v) => WithEntries(t)')
    BY <1>2, <1>5, <2>2 DEF InSpace, WithEntries
  <2>6. \E path \in Paths : /\ Walked(v, path, 1) /\ Forced(v, path, 1) /\ ~Marked(v, path, 1)
                            /\ path[1] = RootTable
    BY WalkBegins
  <2>7. WalkFits(t)'
    BY <2>2, <2>4, <2>5, <2>6 DEF WalkFits
  <2>8. Follows(job[t], bytes[t])'
    BY <1>1, <2>2, Translating
  <2> QED  BY <2>1, <2>3, <2>7, <2>8, AnswersKept DEF ReadFits
<1> QED  BY <1>3, <1>4, <1>5

LEMMA SeekEntryReads ==
  ASSUME ReadInv, NEW t \in Threads, SeekEntry(t)
  PROVE  ReadFits(t)' /\ AnswersRight'
<1>1. /\ pc[t] = "seekEntry" /\ pc'[t] = "readEntry" /\ walk' = walk /\ bytes' = bytes /\ job' = job
      /\ UNCHANGED answer /\ pos' = pos
      /\ physPos' = walk[t].table + Index(walk[t].vaddr, walk[t].level)
  BY DEF SeekEntry, Goto, ReadInv, TypeInv, TypeOK
<1>2. PhaseFits(t)' /\ PosFits(t)' /\ FoundFits(t)' /\ PhysFits(t)'
  BY <1>1 DEF ReadInv, ReadFits, PhaseFits, PosFits, FoundFits, PhysFits
<1>3. WalkFits(t)'
  BY <1>1 DEF ReadInv, ReadFits, WalkFits, Wanted, WithEntries
<1>4. Follows(job[t], bytes[t])'
  BY <1>1 DEF ReadInv, ReadFits
<1> QED  BY <1>1, <1>2, <1>3, <1>4, AnswersKept DEF ReadFits

(* One level of the walk. *)
LEMMA LevelReads ==
  ASSUME ReadInv, NEW t \in Threads, pc[t] = "readEntry", physPos < PhysEnd,
         Level(t, Memory[physPos]), UNCHANGED pos
  PROVE  ReadFits(t)' /\ AnswersRight'
<1>1. /\ walk[t] \in Walk /\ walk[t].level \in 1 .. Levels /\ walk[t].nx \in BOOLEAN /\ Wanted(t) \in Nat
      /\ walk[t].phase \in {"seek", "data"}
  BY Translating DEF Walk
<1>2. PICK v \in Nat : v = Wanted(t)
  BY <1>1
<1>3. PICK l \in 1 .. Levels : l = walk[t].level
  BY <1>1
<1>4. /\ walk[t].vaddr = v /\ InSpace(v) /\ (IsLinear(v) => WithEntries(t))
      /\ \E path \in Paths : /\ Walked(v, path, l) /\ Forced(v, path, l)
                             /\ path[l] = walk[t].table /\ (walk[t].nx <=> Marked(v, path, l))
  BY <1>2, <1>3 DEF ReadInv, ReadFits, WalkFits
<1>5. PICK path \in Paths : /\ Walked(v, path, l) /\ Forced(v, path, l)
                            /\ path[l] = walk[t].table /\ (walk[t].nx <=> Marked(v, path, l))
  BY <1>4
<1>6. physPos = At(v, path, l)
  BY <1>3, <1>4, <1>5 DEF ReadInv, ReadFits, PhysFits, At
<1>7. PICK e \in Entry : e = Memory[At(v, path, l)]
  BY <1>6, EntryIs
<1>8. At(v, path, l) < PhysEnd /\ e = Memory[physPos]
  BY <1>6, <1>7
<1>9. e.frame \in Nat /\ e.nx \in BOOLEAN /\ e.large \in BOOLEAN /\ e.present \in BOOLEAN
  BY <1>7 DEF Entry
<1>10. CASE ~e.present
  <2>1. Pages(v) = {}
    BY <1>5, <1>7, <1>10, WalkStops
  <2>2. Untranslatable(t)
    BY <1>8, <1>10 DEF Level
  <2>3. ASSUME job[t].op # "isExecutable" PROVE ~IsMapped(v)
    BY <1>4, <2>1, <2>3 DEF WithEntries, IsMapped, Targets
  <2>4. ~Executable(v)
    BY <2>1 DEF Executable
  <2> QED  BY <1>2, <2>2, <2>3, <2>4, UntranslatableReads
<1>11. CASE e.present /\ (l = Levels \/ (l = Levels - 1 /\ e.large))
  <2>1. PICK nx \in BOOLEAN : nx <=> (walk[t].nx \/ e.nx)
    BY <1>1, <1>9
  <2>2. nx = (walk[t].nx \/ e.nx)
    BY <1>1, <1>9, <2>1
  <2>3. PICK size \in Nat \ {0} : size = Span[l]
    BY SpaceAssumption
  <2>4. v % size \in Nat
    BY DivType
  <2>5. PICK phys \in Nat : phys = e.frame + (v % size)
    BY <1>9, <2>4
  <2>6. Translated(t, phys, size, nx)
    BY <1>3, <1>4, <1>8, <1>11, <2>2, <2>3, <2>5 DEF Level
  <2>7. Executable(v) <=> (phys < PhysEnd /\ ~nx)
    BY <1>4, <1>5, <1>7, <1>8, <1>11, <2>1, <2>3, <2>5, PageFlags
  <2>8. ASSUME job[t].op # "isExecutable" PROVE Finds(v, phys, size)
    <3>1. ~IsLinear(v)
      BY <1>4, <2>8 DEF WithEntries
    <3> QED  BY <1>4, <1>5, <1>7, <1>8, <1>11, <2>3, <2>5, <3>1, PageFinds
  <2> QED  BY <1>2, <1>4, <2>6, <2>7, <2>8, TranslatedReads
<1>12. CASE e.present /\ l # Levels /\ ~(l = Levels - 1 /\ e.large)
  <2>1. PICK next \in Paths : /\ Walked(v, next, l + 1) /\ Forced(v, next, l + 1) /\ next[l + 1] = e.frame
                              /\ Marked(v, next, l + 1) = (Marked(v, path, l) \/ e.nx)
    BY ZenonT(60), <1>5, <1>7, <1>8, <1>12, WalkGoesOn
  <2>2. /\ walk' = [walk EXCEPT ![t].level = l + 1, ![t].table = e.frame, ![t].nx = walk[t].nx \/ e.nx]
        /\ Goto(t, "seekEntry") /\ UNCHANGED <<job, bytes, answer>>
    BY <1>3, <1>8, <1>12 DEF Level
  <2>3. /\ pc'[t] = "seekEntry" /\ walk'[t].vaddr = v /\ walk'[t].level = l + 1 /\ walk'[t].table = e.frame
        /\ walk'[t].nx = (walk[t].nx \/ e.nx) /\ walk'[t].phase = walk[t].phase /\ walk'[t].got = walk[t].got
        /\ job' = job /\ bytes' = bytes
    BY <1>4, <2>2 DEF Goto, ReadInv, TypeInv, TypeOK, LocalsType, Walk
  <2>4. PhaseFits(t)' /\ PosFits(t)' /\ FoundFits(t)' /\ PhysFits(t)'
    BY <2>3, Translating DEF PhaseFits, PosFits, FoundFits, PhysFits
  <2>5. Wanted(t)' = v /\ WithEntries(t)' = WithEntries(t)
    BY <1>2, <2>3 DEF Wanted, WithEntries
  <2>6. walk'[t].nx <=> Marked(v, next, l + 1)
    BY <1>5, <2>1, <2>3
  <2>7. WalkFits(t)'
    BY <1>4, <2>1, <2>3, <2>5, <2>6 DEF WalkFits
  <2>8. Follows(job[t], bytes[t])'
    BY <2>3, Translating
  <2> QED  BY <2>2, <2>4, <2>7, <2>8, AnswersKept DEF ReadFits
<1> QED  BY <1>10, <1>11, <1>12

LEMMA ReadEntryReads ==
  ASSUME ReadInv, NEW t \in Threads, ReadEntry(t)
  PROVE  ReadFits(t)' /\ AnswersRight'
<1>1. pc[t] = "readEntry" /\ pos' = pos
  BY DEF ReadEntry
<1>2. CASE physPos < PhysEnd
  BY <1>1, <1>2, LevelReads DEF ReadEntry
<1>3. CASE ~(physPos < PhysEnd)
  <2>1. Untranslatable(t)
    BY <1>3 DEF ReadEntry
  <2>2. PICK v \in Nat : v = Wanted(t)
    BY <1>1, Translating
  <2>3. PICK l \in 1 .. Levels : l = walk[t].level
    BY <1>1, Translating DEF Walk
  <2>4. /\ walk[t].vaddr = v /\ (IsLinear(v) => WithEntries(t))
        /\ \E path \in Paths : Forced(v, path, l) /\ path[l] = walk[t].table
    BY <1>1, <2>2, <2>3 DEF ReadInv, ReadFits, WalkFits
  <2>5. PICK path \in Paths : Forced(v, path, l) /\ path[l] = walk[t].table
    BY <2>4
  <2>6. physPos = At(v, path, l)
    BY <1>1, <2>3, <2>4, <2>5 DEF ReadInv, ReadFits, PhysFits, At
  <2>7. Pages(v) = {}
    BY <1>3, <2>5, <2>6, WalkStops
  <2>8. ASSUME job[t].op # "isExecutable" PROVE ~IsMapped(v)
    BY <2>4, <2>7, <2>8 DEF WithEntries, IsMapped, Targets
  <2>9. ~Executable(v)
    BY <2>7 DEF Executable
  <2> QED  BY <1>1, <2>1, <2>2, <2>8, <2>9, UntranslatableReads
<1> QED  BY <1>2, <1>3

LEMMA SeekPhysReads ==
  ASSUME ReadInv, NEW t \in Threads, SeekPhys(t)
  PROVE  ReadFits(t)' /\ AnswersRight'
<1>1. /\ pc[t] = "seekPhys" /\ pos' = pos /\ walk[t].phase = "seek" /\ job[t].op # "isExecutable"
      /\ (walk[t].phys # PADDR_ERROR <=> IsMapped(job[t].pos))
  BY DEF SeekPhys, ReadInv, TypeInv, LocalOK, ReadFits, FoundFits
<1>2. CASE job[t].op = "safeSeek"
  <2> DEFINE kind == IF walk[t].phys = PADDR_ERROR THEN "false" ELSE "true"
  <2>1. Finish(t, kind, <<>>, FALSE)
    BY <1>2 DEF SeekPhys
  <2>2. kind \in {"true", "false"} /\ (kind = "true" <=> IsMapped(job[t].pos))
    BY <1>1
  <2> HIDE DEF kind
  <2>3. Right(job[t], kind, <<>>, FALSE)
    BY <1>2, <2>2 DEF Right
  <2>4. kind \in Kinds
    BY <2>2 DEF Kinds
  <2>5. <<>> \in Seq(Nat)
    OBVIOUS
  <2> QED  BY <2>1, <2>3, <2>4, <2>5, FinishReads
<1>3. CASE job[t].op # "safeSeek"
  <2>1. pc'[t] = "setPos" /\ walk' = walk /\ bytes' = bytes /\ job' = job /\ UNCHANGED answer
    BY <1>3 DEF SeekPhys, Goto, ReadInv, TypeInv, TypeOK
  <2>2. PhaseFits(t)' /\ PosFits(t)' /\ WalkFits(t)' /\ FoundFits(t)' /\ PhysFits(t)'
    BY <1>1, <2>1 DEF ReadInv, ReadFits, PhaseFits, PosFits, WalkFits, FoundFits, PhysFits
  <2>3. Follows(job[t], bytes[t])'
    BY <2>1 DEF ReadInv, ReadFits
  <2> QED  BY <2>1, <2>2, <2>3, AnswersKept DEF ReadFits
<1> QED  BY <1>2, <1>3

LEMMA SetPosReads ==
  ASSUME ReadInv, NEW t \in Threads, SetPos(t)
  PROVE  ReadFits(t)' /\ AnswersRight'
<1>1. job[t].op = "readAtomic" /\ walk[t].phase = "seek"
  BY DEF SetPos, ReadInv, TypeInv, LocalOK, ReadFits, PhaseFits
<1> QED  BY <1>1, LoopReads DEF SetPos

LEMMA SeekDataReads ==
  ASSUME ReadInv, NEW t \in Threads, SeekData(t)
  PROVE  ReadFits(t)' /\ AnswersRight'
<1>1. /\ pc[t] = "seekData" /\ pc'[t] = "readData" /\ walk' = walk /\ bytes' = bytes /\ job' = job
      /\ UNCHANGED answer /\ pos' = pos /\ physPos' = walk[t].phys
  BY DEF SeekData, Goto, ReadInv, TypeInv, TypeOK
<1>2. PhaseFits(t)' /\ PosFits(t)' /\ WalkFits(t)' /\ FoundFits(t)' /\ PhysFits(t)'
  BY <1>1 DEF ReadInv, ReadFits, PhaseFits, PosFits, WalkFits, FoundFits, PhysFits
<1>3. Follows(job[t], bytes[t])'
  BY <1>1 DEF ReadInv, ReadFits
<1> QED  BY <1>1, <1>2, <1>3, AnswersKept DEF ReadFits

(* A piece: what is read from the physical file belongs to the addresses that
   follow _pos, as far as the page, or linear memory, goes. *)
LEMMA PieceFollows ==
  ASSUME ReadInv, NEW t \in Threads, pc[t] = "readData", NEW i \in Nat,
         i < Piece(t), physPos + i < PhysEnd
  PROVE  Maps(pos + i, physPos + i) \/ BeyondLinear(job[t], pos + i, physPos + i)
<1>1. /\ physPos = walk[t].phys /\ physPos < PhysEnd /\ PieceOK(pos, physPos, walk[t].size)
      /\ walk[t].phase = "data"
      /\ pos = job[t].pos + Len(bytes[t]) /\ Follows(job[t], bytes[t])
  BY DEF ReadInv, ReadFits, PhaseFits, PosFits, FoundFits, PhysFits
<1>2. pos \in Nat /\ physPos \in Nat /\ Len(bytes[t]) \in Nat /\ job[t].pos \in Nat /\ job[t].len \in Nat
  BY JobType, PieceType DEF ReadInv, TypeInv, TypeOK
<1>3. CASE walk[t].size = PADDR_ERROR
  <2> DEFINE base == LinearBase(pos)
             end == LinearEnd(pos)
  <2>1. IsLinear(pos) /\ physPos = pos - base
    BY <1>1, <1>3 DEF PieceOK
  <2>2. /\ base \in Nat /\ end \in Nat /\ base <= pos /\ pos < end /\ end <= VirtEnd + 1 /\ PageOffset <= base
        /\ PageOffset \in Nat /\ VirtEnd \in Nat
    BY <1>2, <2>1, LinearBelow, SpaceAssumption
  <2>3. pos + i \in Nat /\ physPos + i = (pos + i) - base /\ pos \in job[t].pos .. pos + i
    <3> HIDE DEF base, end
    <3>1. pos + i \in Nat /\ pos <= pos + i /\ physPos + i = (pos + i) - base
      BY <1>2, <2>1, <2>2
    <3>2. job[t].pos <= pos
      BY <1>1, <1>2
    <3> QED  BY <1>2, <3>1, <3>2
  <2>4. CASE pos + i >= end
    <3>1. IsLinear(pos) /\ pos + i >= LinearEnd(pos) /\ physPos + i = (pos + i) - LinearBase(pos)
      BY <2>1, <2>3, <2>4
    <3>2. \E s \in job[t].pos .. pos + i :
            IsLinear(s) /\ pos + i >= LinearEnd(s) /\ physPos + i = (pos + i) - LinearBase(s)
      BY <2>3, <3>1
    <3> QED  BY <3>2 DEF BeyondLinear
  <2>5. CASE ~(pos + i >= end)
    <3>1. IsLinear(pos + i) /\ LinearBase(pos + i) = base
      <4>1. pos <= pos + i /\ pos + i < end
        <5> HIDE DEF base, end
        <5> QED  BY <1>2, <2>2, <2>5
      <4> QED  BY <1>2, <2>1, <2>3, <4>1, LinearStays
    <3>2. InSpace(pos + i)
      <4> HIDE DEF base, end
      <4> QED  BY <1>2, <2>2, <2>5 DEF InSpace
    <3> QED  BY <2>3, <3>1, <3>2 DEF Maps, Targets
  <2> QED  BY <2>4, <2>5
<1>4. CASE walk[t].size # PADDR_ERROR
  <2>1. PICK s \in Nat \ {0} : s = walk[t].size
    BY <1>1, <1>4 DEF PieceOK
  <2>2. pos % s \in Nat /\ pos % s <= s - 1
    BY <1>2, <2>1
  <2>3. Piece(t) <= s - (pos % s)
    <3> DEFINE left == job[t].len - Len(bytes[t])
               room == s - (pos % s)
    <3>1. left \in Int /\ room \in Int
      <4>1. pos % s \in Nat
        BY <2>2
      <4>2. room \in Int
        BY <2>1, <4>1
      <4> QED  BY <1>2, <4>2
    <3>2. Piece(t) = IF left < room THEN left ELSE room
      BY <1>4, <2>1 DEF Piece, Smaller
    <3> HIDE DEF left, room
    <3>3. Piece(t) <= room
      BY <3>1, <3>2
    <3> QED  BY <3>3 DEF room
  <2>4. (pos % s) + i < s
    <3>1. Piece(t) \in Int
      BY PieceType DEF ReadInv
    <3> QED  BY <2>2, <2>3, <3>1
  <2> QED  BY <1>1, <1>4, <2>1, <2>4 DEF PieceOK
<1> QED  BY <1>3, <1>4

LEMMA ReadDataReads ==
  ASSUME ReadInv, NEW t \in Threads, ReadData(t)
  PROVE  ReadFits(t)' /\ AnswersRight'
<1>1. /\ pc[t] = "readData" /\ walk[t].phase = "data" /\ physPos < PhysEnd
      /\ pos = job[t].pos + Len(bytes[t]) /\ Len(bytes[t]) < job[t].len /\ Follows(job[t], bytes[t])
      /\ walk[t].size # 0
  BY DEF ReadData, ReadInv, ReadFits, PhaseFits, PosFits, FoundFits, PhysFits, TypeInv, LocalOK
<1>2. /\ pos \in Nat /\ physPos \in Nat /\ Len(bytes[t]) \in Nat /\ job[t].pos \in Nat /\ job[t].len \in Nat
      /\ bytes[t] \in Seq(Nat) /\ walk[t] \in Walk /\ PhysEnd \in Nat
  BY <1>1, JobType, LevelsType DEF ReadInv, TypeInv, TypeOK, LocalsType
<1>3. Piece(t) \in Nat \ {0}
  <2>1. Piece(t) \in Nat
    BY <1>1, <1>2, PieceType DEF ReadInv
  <2>2. CASE walk[t].size = PADDR_ERROR
    BY <1>1, <1>2, <2>2 DEF Piece
  <2>3. CASE walk[t].size # PADDR_ERROR
    <3>1. PICK s \in Nat \ {0} : s = walk[t].size
      BY <1>1, <1>2, <2>3 DEF Walk
    <3>2. s - (pos % s) \in Nat \ {0}
      BY <1>2
    <3> QED  BY <1>1, <1>2, <2>3, <3>1, <3>2 DEF Piece, Smaller
  <2> QED  BY <2>1, <2>2, <2>3
<1>4. PICK n \in Nat \ {0} : n = Smaller(Piece(t), PhysEnd - physPos)
  BY <1>1, <1>2, <1>3 DEF Smaller
<1>5. n <= Piece(t) /\ physPos + n <= PhysEnd
  BY <1>2, <1>3, <1>4 DEF Smaller
<1>6. PICK more \in Seq(Nat) : more = [k \in 1 .. n |-> physPos + k - 1] /\ Len(more) = n
  <2>1. \A k \in 1 .. n : physPos + k - 1 \in Nat
    BY <1>2
  <2>2. [k \in 1 .. n |-> physPos + k - 1] \in Seq(Nat) /\ Len([k \in 1 .. n |-> physPos + k - 1]) = n
    BY <2>1
  <2> QED  BY <2>2
<1>7. /\ bytes' = [bytes EXCEPT ![t] = bytes[t] \o more] /\ walk' = [walk EXCEPT ![t].got = n]
      /\ Goto(t, "advance") /\ pos' = pos /\ job' = job /\ UNCHANGED answer
  <2>1. LET n1 == IF physPos < PhysEnd THEN Smaller(Piece(t), PhysEnd - physPos) ELSE 0
        IN /\ bytes' = [bytes EXCEPT ![t] = @ \o [k \in 1 .. n1 |-> physPos + k - 1]]
           /\ walk' = [walk EXCEPT ![t].got = n1]
    BY DEF ReadData
  <2>2. n = IF physPos < PhysEnd THEN Smaller(Piece(t), PhysEnd - physPos) ELSE 0
    BY <1>1, <1>4
  <2>3. bytes' = [bytes EXCEPT ![t] = bytes[t] \o [k \in 1 .. n |-> physPos + k - 1]]
        /\ walk' = [walk EXCEPT ![t].got = n]
    BY <2>1, <2>2
  <2> QED  BY <1>6, <2>3 DEF ReadData
<1>8. /\ pc'[t] = "advance" /\ walk'[t].phase = "data" /\ walk'[t].got = n /\ bytes'[t] = bytes[t] \o more
  <2>1. pc \in [Threads -> Labels] /\ walk \in [Threads -> Walk] /\ bytes \in [Threads -> Seq(Nat)]
    BY DEF ReadInv, TypeInv, TypeOK, LocalsType
  <2>2. pc'[t] = "advance"
    BY <1>7, <2>1 DEF Goto
  <2>3. walk'[t] = [walk[t] EXCEPT !.got = n]
    BY <1>7, <2>1
  <2>4. walk'[t].phase = "data" /\ walk'[t].got = n
    BY <1>1, <1>2, <2>3 DEF Walk
  <2>5. bytes'[t] = bytes[t] \o more
    BY <1>7, <2>1
  <2> QED  BY <2>2, <2>4, <2>5
<1>9. /\ Len(bytes[t] \o more) = Len(bytes[t]) + n
      /\ \A k \in 1 .. Len(bytes[t]) + n :
           (bytes[t] \o more)[k] = IF k <= Len(bytes[t]) THEN bytes[t][k] ELSE more[k - Len(bytes[t])]
  BY <1>2, <1>6, ConcatProperties
<1>10. PhaseFits(t)' /\ WalkFits(t)' /\ FoundFits(t)' /\ PhysFits(t)'
  BY <1>8 DEF PhaseFits, WalkFits, FoundFits, PhysFits
<1>11. PosFits(t)'
  BY SMTT(30), <1>1, <1>2, <1>7, <1>8, <1>9 DEF PosFits
<1>12. Follows(job[t], bytes[t] \o more)
  <2> SUFFICES ASSUME NEW k \in 1 .. Len(bytes[t]) + n
               PROVE  \/ Maps(job[t].pos + k - 1, (bytes[t] \o more)[k])
                      \/ BeyondLinear(job[t], job[t].pos + k - 1, (bytes[t] \o more)[k])
    BY <1>9 DEF Follows
  <2>1. CASE k <= Len(bytes[t])
    <3>1. k \in 1 .. Len(bytes[t]) /\ (bytes[t] \o more)[k] = bytes[t][k]
      BY <1>2, <1>9, <2>1
    <3> QED  BY <1>1, <3>1 DEF Follows
  <2>2. CASE ~(k <= Len(bytes[t]))
    <3>1. PICK i \in Nat : i = (k - Len(bytes[t])) - 1
      <4>1. (k - Len(bytes[t])) - 1 \in Nat
        BY <1>2, <2>2
      <4> QED  BY <4>1
    <3>2. i < n /\ k - Len(bytes[t]) \in 1 .. n /\ physPos + (k - Len(bytes[t])) - 1 = physPos + i
          /\ job[t].pos + k - 1 = pos + i
      BY <1>1, <1>2, <2>2, <3>1
    <3>3. (bytes[t] \o more)[k] = physPos + i
      BY <1>6, <1>9, <2>2, <3>2
    <3>4. i < Piece(t) /\ physPos + i < PhysEnd
      BY <1>2, <1>3, <1>5, <3>2
    <3>5. Maps(pos + i, physPos + i) \/ BeyondLinear(job[t], pos + i, physPos + i)
      BY <1>1, <3>4, PieceFollows
    <3> QED  BY <3>2, <3>3, <3>5
  <2> QED  BY <2>1, <2>2
<1>13. Follows(job[t], bytes[t])'
  BY <1>7, <1>8, <1>12
<1> QED  BY <1>7, <1>10, <1>11, <1>13, AnswersKept DEF ReadFits

LEMMA AdvanceReads ==
  ASSUME ReadInv, NEW t \in Threads, Advance(t)
  PROVE  ReadFits(t)' /\ AnswersRight'
<1>1. /\ pc[t] = "advance" /\ walk[t].phase = "data" /\ Len(bytes[t]) <= job[t].len
      /\ pos + walk[t].got = job[t].pos + Len(bytes[t]) /\ (walk[t].got = 0 => Len(bytes[t]) = job[t].len)
      /\ Follows(job[t], bytes[t]) /\ pos' = job[t].pos + Len(bytes[t]) /\ job[t].op = "readAtomic"
  BY DEF Advance, ReadInv, ReadFits, PhaseFits, PosFits, TypeInv, LocalOK
<1>2. /\ Len(bytes[t]) \in Nat /\ job[t].pos \in Nat /\ job[t].len \in Nat
      /\ bytes[t] \in Seq(Nat) /\ walk[t].got \in Nat
  <2>1. job[t].pos \in Nat /\ job[t].len \in Nat
    BY JobType DEF ReadInv
  <2>2. bytes[t] \in Seq(Nat) /\ walk[t] \in Walk
    BY DEF ReadInv, TypeInv, LocalsType
  <2>3. Len(bytes[t]) \in Nat
    BY <2>2
  <2>4. walk[t].got \in Nat
    BY <2>2 DEF Walk
  <2> QED  BY <2>1, <2>2, <2>3, <2>4
<1>3. CASE Len(bytes[t]) < job[t].len /\ walk[t].got > 0
  <2>1. Goto(t, "translate") /\ UNCHANGED <<job, walk, bytes, answer>>
    BY <1>3 DEF Advance
  <2>2. pc'[t] = "translate"
    BY <2>1 DEF Goto, ReadInv, TypeInv, TypeOK
  <2>3. PhaseFits(t)' /\ WalkFits(t)' /\ FoundFits(t)' /\ PhysFits(t)'
    BY <1>1, <2>1, <2>2 DEF PhaseFits, WalkFits, FoundFits, PhysFits
  <2>4. PosFits(t)'
    BY <1>1, <1>3, <2>1, <2>2 DEF PosFits
  <2>5. Follows(job[t], bytes[t])'
    BY <1>1, <2>1
  <2> QED  BY <2>1, <2>3, <2>4, <2>5, AnswersKept DEF ReadFits
<1>4. CASE ~(Len(bytes[t]) < job[t].len /\ walk[t].got > 0)
  <2>1. Finish(t, "bytes", bytes[t], FALSE)
    BY <1>4 DEF Advance
  <2>2. Len(bytes[t]) = job[t].len
    BY <1>1, <1>2, <1>4
  <2>3. Right(job[t], "bytes", bytes[t], FALSE)
    BY <1>1, <2>2 DEF Right
  <2>4. "bytes" \in Kinds
    BY DEF Kinds
  <2> QED  BY <1>2, <2>1, <2>3, <2>4, FinishReads
<1> QED  BY <1>3, <1>4

----------------------------------------------------------------------------
LEMMA StepReads ==
  ASSUME ReadInv, NEW t \in Threads, Step(t)
  PROVE  ReadFits(t)' /\ AnswersRight'
<1>1. CASE LockVirt(t)  BY <1>1, LockVirtReads
<1>2. CASE Check(t)  BY <1>2, CheckReads
<1>3. CASE Translate(t)  BY <1>3, TranslateReads
<1>4. CASE SeekEntry(t)  BY <1>4, SeekEntryReads
<1>5. CASE ReadEntry(t)  BY <1>5, ReadEntryReads
<1>6. CASE SeekPhys(t)  BY <1>6, SeekPhysReads
<1>7. CASE SetPos(t)  BY <1>7, SetPosReads
<1>8. CASE SeekData(t)  BY <1>8, SeekDataReads
<1>9. CASE ReadData(t)  BY <1>9, ReadDataReads
<1>10. CASE Advance(t)  BY <1>10, AdvanceReads
<1> QED  BY <1>1, <1>2, <1>3, <1>4, <1>5, <1>6, <1>7, <1>8, <1>9, <1>10 DEF Step

LEMMA InitReads == Init => ReadInv
<1> SUFFICES ASSUME Init PROVE ReadInv
  OBVIOUS
<1>1. TypeInv
  BY InitType
<1>2. SafeMode
  BY DEF Init, SafeMode
<1>3. NoAnswer \in Answer
  BY DEF NoAnswer, Answer, NoJob, Job, Ops, Kinds
<1>4. answer \in [Threads -> Answer] /\ \A t \in Threads : answer[t] = NoAnswer
  BY <1>3 DEF Init
<1>5. AnswersRight
  <2>1. NoAnswer.kind = "none"
    BY DEF NoAnswer
  <2>2. Right(NoAnswer.job, NoAnswer.kind, NoAnswer.bytes, NoAnswer.short)
    BY <2>1 DEF Right
  <2> QED  BY <1>4, <2>2 DEF AnswersRight
<1>6. ASSUME NEW t \in Threads PROVE ReadFits(t)
  <2>1. pc[t] = "idle" /\ walk[t] = NoWalk /\ bytes[t] = <<>>
    BY DEF Init
  <2>2. walk[t].phase = "seek" /\ walk[t].got = 0
    BY <2>1 DEF NoWalk
  <2>3. Follows(job[t], bytes[t])
    BY <2>1 DEF Follows
  <2> QED  BY <2>1, <2>2, <2>3 DEF ReadFits, PhaseFits, PosFits, WalkFits, FoundFits, PhysFits
<1> QED  BY <1>1, <1>2, <1>5, <1>6 DEF ReadInv

LEMMA ModeReads ==
  ASSUME ReadInv, StartBuilders \/ BuildersDone
  PROVE  SafeMode' /\ AnswersRight' /\ \A t \in Threads : ReadFits(t)'
<1>1. UNCHANGED <<pos, physPos, pc, job, walk, bytes, answer>>
  BY DEF StartBuilders, BuildersDone, files
<1>2. SafeMode'
  BY DEF StartBuilders, BuildersDone, SafeMode
<1>3. \A t \in Threads : ReadFits(t)'
  BY <1>1 DEF ReadInv, ReadFits, PhaseFits, PosFits, WalkFits, FoundFits, PhysFits, Wanted, WithEntries, Follows
<1> QED  BY <1>1, <1>2, <1>3, AnswersKept

LEMMA NextReads == ReadInv /\ [Next]_vars => ReadInv'
<1> SUFFICES ASSUME ReadInv, [Next]_vars PROVE ReadInv'
  OBVIOUS
<1>0. TypeInv /\ SafeMode /\ TypeInv'
  BY NextType DEF ReadInv
<1>1. ASSUME NEW t \in Threads, Step(t) \/ \E j \in Jobs : Call(t, j)
      PROVE  ReadInv'
  <2>1. ReadFits(t)' /\ AnswersRight'
    BY <1>1, StepReads, CallReads
  <2>2. OnlyBy(t)
    BY <1>0, <1>1, StepType, CallType
  <2>3. ASSUME NEW u \in Threads, u # t PROVE ReadFits(u)'
    BY <1>0, <1>1, <2>2, <2>3, OthersKept DEF ReadInv
  <2>4. SafeMode'
    BY <1>0, <2>2 DEF OnlyBy, mode, SafeMode
  <2> QED  BY <1>0, <2>1, <2>3, <2>4 DEF ReadInv
<1>2. CASE StartBuilders \/ BuildersDone
  BY <1>0, <1>2, ModeReads DEF ReadInv
<1>3. CASE UNCHANGED vars
  <2>1. UNCHANGED <<pos, physPos, pc, job, walk, bytes, answer, threadSafe, building>>
    BY <1>3 DEF vars, files, mode
  <2>2. \A t \in Threads : ReadFits(t)'
    BY <2>1 DEF ReadInv, ReadFits, PhaseFits, PosFits, WalkFits, FoundFits, PhysFits, Wanted, WithEntries, Follows
  <2>3. SafeMode'
    BY <1>0, <2>1 DEF SafeMode
  <2> QED  BY <1>0, <2>1, <2>2, <2>3, AnswersKept DEF ReadInv
<1> QED  BY <1>1, <1>2, <1>3 DEF Next

LEMMA ReadsInvariant == Spec => []ReadInv
BY InitReads, NextReads, PTL DEF Spec

(* Every readAtomic() that returns bytes returns all it was asked for, each the
   one that the page tables map at its address (or that follows the linear
   memory physically): however the reads, walks and probes of other threads
   move the position of the one physical file, and however a read is cut into
   pieces at the ends of pages. *)
THEOREM ReadsExact == Spec => []BytesExact
<1>1. ReadInv => BytesExact
  <2> SUFFICES ASSUME ReadInv, NEW t \in Threads, answer[t].kind = "bytes"
               PROVE  /\ Len(answer[t].bytes) = answer[t].job.len
                      /\ Follows(answer[t].job, answer[t].bytes)
    BY DEF BytesExact, Follows
  <2> QED  BY DEF ReadInv, AnswersRight, Right
<1> QED  BY <1>1, ReadsInvariant, PTL

(* readAtomic() throws for an address that is not mapped only, safeSeek() says
   whether the address is mapped (but for the current position), and
   isExecutable() whether a page holds it that no level forbids to execute:
   the walk of virtualToPhysical() ends at the only page there can be. *)
THEOREM AnswersRightAlways == Spec => []AnswersExact
<1>1. ReadInv => AnswersExact
  <2> SUFFICES ASSUME ReadInv, NEW t \in Threads
               PROVE  LET j == answer[t].job
                          ok == answer[t].kind = "true"
                      IN /\ answer[t].kind = "exception" => \E k \in {0} \cup 0 .. j.len - 1 : ~IsMapped(j.pos + k)
                         /\ answer[t].kind = "minus one" => ~InSpace(j.pos)
                         /\ answer[t].kind \in {"true", "false"} /\ j.op = "isExecutable" => ok = Executable(j.pos)
                         /\ answer[t].kind \in {"true", "false"} /\ j.op = "safeSeek" /\ ~answer[t].short =>
                              ok = IsMapped(j.pos)
    BY DEF AnswersExact
  <2>1. Right(answer[t].job, answer[t].kind, answer[t].bytes, answer[t].short)
    BY DEF ReadInv, AnswersRight
  <2>2. Executable(answer[t].job.pos) \in BOOLEAN /\ IsMapped(answer[t].job.pos) \in BOOLEAN
    BY DEF Executable, IsMapped
  <2> QED  BY <2>1, <2>2 DEF Right
<1> QED  BY <1>1, ReadsInvariant, PTL

(* The read that ends a section of a walk leaves the section. *)
LEMMA ReadEntryLeaves ==
  ASSUME TypeInv, NEW t \in Threads, ReadEntry(t)
  PROVE  pc'[t] # pc[t]
<1>1. pc[t] = "readEntry" /\ pc \in [Threads -> Labels]
  BY DEF ReadEntry, TypeInv, TypeOK
<1>2. CASE \E l \in {"idle", "seekPhys", "seekData", "seekEntry"} : Goto(t, l)
  BY <1>1, <1>2 DEF Goto
<1>3. ASSUME Untranslatable(t) PROVE Goto(t, "idle") \/ Goto(t, "seekPhys")
  BY <1>1, <1>3, JobType DEF Untranslatable, Finish, Ops
<1>4. ASSUME NEW p, NEW s, NEW n, Translated(t, p, s, n)
      PROVE  \E l \in {"idle", "seekPhys", "seekData", "seekEntry"} : Goto(t, l)
  BY <1>3, <1>4 DEF Translated, Use, Finish
<1>5. ASSUME NEW e, Level(t, e)
      PROVE  \E l \in {"idle", "seekPhys", "seekData", "seekEntry"} : Goto(t, l)
  BY <1>3, <1>4, <1>5 DEF Level
<1> QED  BY <1>2, <1>3, <1>5 DEF ReadEntry

(* _pos moves only under a read that owns _virtMemMutex (seek(), readData()):
   what readData() finds there after each piece is what it left. The position
   of the physical file, from the seek of a walk or of a piece until its read,
   is moved by no other thread. *)
THEOREM PositionIsOwned == Spec => PositionOwned
<1> DEFINE Owned ==
      /\ pos' # pos => \E t \in Threads : InRead(t) /\ (threadSafe => virtMutex = t)
      /\ physPos' # physPos => \A t \in Threads : InPhysSection(t) => pc'[t] # pc[t]
<1>1. TypeInv /\ Next /\ pos' # pos => \E t \in Threads : InRead(t) /\ (threadSafe => virtMutex = t)
  <2> SUFFICES ASSUME TypeInv, Next, pos' # pos
               PROVE  \E t \in Threads : InRead(t) /\ (threadSafe => virtMutex = t)
    OBVIOUS
  <2>1. PICK t \in Threads : SetPos(t) \/ Advance(t)
    BY ZenonT(60) DEF Next, Step, Call, LockVirt, Check, Translate, SeekEntry, ReadEntry, SeekPhys, SeekData,
           ReadData, StartBuilders, BuildersDone, files
  <2>2. pc[t] \in {"setPos", "advance"} /\ job[t].op = "readAtomic"
    BY <2>1 DEF SetPos, Advance, TypeInv, LocalOK
  <2>3. InRead(t)
    BY <2>2 DEF InRead
  <2> QED  BY <2>3 DEF TypeInv, TypeOK
<1>2. ASSUME ReadInv, Next, physPos' # physPos, NEW t \in Threads, InPhysSection(t)
      PROVE  pc'[t] # pc[t]
  <2>0. TypeInv /\ SafeMode
    BY <1>2 DEF ReadInv
  <2>1. PICK u \in Threads : SeekEntry(u) \/ ReadEntry(u) \/ SeekPhys(u) \/ SeekData(u) \/ ReadData(u)
    BY <1>2, ZenonT(60) DEF Next, Step, Call, LockVirt, Check, Translate, SetPos, Advance,
           StartBuilders, BuildersDone, files
  <2>2. pc[u] # "idle" /\ pc[t] # "idle" /\ pc[t] \in {"readEntry", "readData"}
    BY <1>2, <2>1 DEF SeekEntry, ReadEntry, SeekPhys, SeekData, ReadData, InPhysSection
  <2>3. u = t
    <3>1. CASE threadSafe
      <4>1. physMutex = t /\ t # NoThread
        BY <1>2, <2>0, <3>1, ThreadsAssumption DEF TypeInv, TypeOK
      <4>2. ~(SeekEntry(u) \/ SeekPhys(u) \/ SeekData(u))
        BY <3>1, <4>1 DEF SeekEntry, SeekPhys, SeekData, LockPhys, PhysSection
      <4>3. InPhysSection(u)
        BY <2>1, <4>2 DEF ReadEntry, ReadData, InPhysSection
      <4> QED  BY <2>0, <3>1, <4>1, <4>3 DEF TypeInv, TypeOK
    <3>2. CASE ~threadSafe
      BY <2>0, <2>2, <3>2, Alone
    <3> QED  BY <3>1, <3>2
  <2>4. ReadEntry(t) \/ ReadData(t)
    BY <2>1, <2>2, <2>3 DEF SeekEntry, SeekPhys, SeekData
  <2>5. CASE ReadEntry(t)
    BY <2>0, <2>5, ReadEntryLeaves
  <2>6. CASE ReadData(t)
    BY <2>0, <2>6 DEF ReadData, Goto, TypeInv, TypeOK
  <2> QED  BY <2>4, <2>5, <2>6
<1>3. ReadInv /\ [Next]_vars => [Owned]_vars
  <2>1. ASSUME ReadInv, Next PROVE Owned
    <3>1. TypeInv
      BY <2>1 DEF ReadInv
    <3> QED  BY Zenon, <1>1, <1>2, <2>1, <3>1
  <2> QED  BY <2>1
<1> QED  BY <1>3, ReadsInvariant, PTL DEF Spec, PositionOwned
=============================================================================
