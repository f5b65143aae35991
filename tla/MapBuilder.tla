---------------------------- MODULE MapBuilder ----------------------------
(* The parallel construction of the reverse map: MemoryMap::build() on the
   main thread and one MemoryMapBuilderCS per builder thread, sharing a queue
   of nodes and an index of the nodes already in the map
   (libinsight/memorymap.cpp, memorymapbuildercs.cpp).

   An instance (a typed address in the guest's memory) is a value of Insts.
   The guest is frozen while the map is built, so what an instance points to,
   where it lies and how probable it is below a given parent are constants.

   Definitions whose names begin with Mut are not part of the model: each is a
   variant of the definition after it with a plausible bug, which shows that a
   property notices that bug. *)
EXTENDS Integers, Sequences, FiniteSets

CONSTANTS
  N,            \* number of builder threads (BuilderSharedState::threadCount)
  Insts,        \* instances that references may name
  Addr, Size,   \* [Insts -> Nat]: address and size of an instance
  Encloses,     \* pairs <<i, j>>: BaseType::embeds() says Equal or FirstEmbedsSecond
  Prob,         \* Prob[i][p]: calculateNodeProbability(i, p), in percent
  MinProb,      \* MemoryMap::build()'s minProbability, in percent
  Refs,         \* [Insts -> Seq(Ref)]: what processing an instance follows
  Roots,        \* sequence of instances: those of the global variables
  Functions,    \* sequence of functions' instances: in the map, never in the queue
  SlubObjects,  \* sequence of the instances in the slub object file
  Enqueueable,  \* instances with a type in enqueueTypes that are accessible
  TooHigh,      \* instances beyond the address space: the node's constructor throws
  GoodPages,    \* [Insts -> Nat]: pages translated before the first failure
  Pages,        \* [Insts -> Nat]: pages the instance spans
  MaxBuilds     \* bound: how often the user builds the map

NoInst == "none"
NoNode == 0
Free == -1
NoParent == -1    \* parentProbability of a node that has no parent
Percent == 0 .. 100
Threads == 0 .. N - 1

(* What following a member or an array element may lead to: a function
   pointer, a plain pointer to orig, or an instance that a type rule proposes
   (cand) in place of the declared one (orig). *)
Ref == [kind : {"func"}] \cup
       [kind : {"pointer"}, orig : Insts, cand : {NoInst}] \cup
       [kind : {"rule"}, orig : Insts, cand : Insts \cup {NoInst}]

ASSUME NAssumption == N \in 1 .. 8 /\ MaxBuilds \in Nat
ASSUME InstsAssumption == NoInst \notin Insts
ASSUME AddrAssumption == Addr \in [Insts -> Nat \ {0}] /\ Size \in [Insts -> Nat]
ASSUME ProbAssumption ==
  Prob \in [Insts -> [Percent \cup {NoParent} -> Percent]] /\ MinProb \in Percent
ASSUME RefsAssumption == Refs \in [Insts -> Seq(Ref)]
ASSUME RootsAssumption == Roots \in Seq(Insts)
ASSUME KindsAssumption == Functions \in Seq(Insts) /\ SlubObjects \in Seq(Insts)
ASSUME EnclosesAssumption == Encloses \subseteq Insts \X Insts
(* A function's type is none of enqueueTypes (memorymap.cpp:28). *)
ASSUME FunctionsAssumption == \A k \in DOMAIN Functions : Functions[k] \notin Enqueueable
ASSUME PagesAssumption == /\ GoodPages \in [Insts -> Nat]
                          /\ Pages \in [Insts -> Nat]

---------------------------------------------------------------------------
(* Where instances lie. *)

End(i) == IF Size[i] = 0 THEN Addr[i] ELSE Addr[i] + Size[i] - 1
Overlap(i, j) == Addr[i] <= End(j) /\ Addr[j] <= End(i)
PointsInto(a, i) == Addr[i] <= a /\ a <= End(i)

(* findAllNodes() searches one interval per group of overlapping instances:
   the original's and the candidate's are merged when they overlap. *)
Reads(r) == IF r.cand = NoInst THEN <<{r.orig}>>
            ELSE IF Overlap(r.orig, r.cand) THEN <<{r.orig, r.cand}>>
            ELSE <<{r.orig}, {r.cand}>>

(* The instances addChild() goes on to add for a reference with at most one
   candidate: one of the two, or, when their probabilities are within 10 %,
   the candidate (by a recursive call) and then the original. *)
Chosen(r) ==
  IF r.cand = NoInst THEN <<r.orig>>
  ELSE IF <<r.cand, r.orig>> \in Encloses THEN <<r.cand>>
  ELSE IF <<r.orig, r.cand>> \in Encloses THEN <<r.orig>>
  ELSE IF Prob[r.cand][100] > Prob[r.orig][100] + 10 THEN <<r.cand>>
  ELSE IF Prob[r.orig][100] > Prob[r.cand][100] + 10 THEN <<r.orig>>
  ELSE <<r.cand, r.orig>>

---------------------------------------------------------------------------
VARIABLES
  mainPc, mainIdx,      \* where MemoryMap::build() is, and its loop variable
  buildType,            \* _buildType
  interrupted,          \* LongOperation::interrupted(): the user pressed Ctrl-C
  builds,               \* number of builds begun (bounded by MaxBuilds)
  threads,              \* indices of _threads[] that are not deleted
  vmemThreadSafe,       \* VirtualMemory's thread safety
  nodes,                \* the heap of MemoryMapNodes, in order of creation
  vmemMap,              \* nodes in _vmemMap (and _vmemAddresses, _typeInstances)
  pmemMap,              \* <<node, page>> pairs in _pmemMap
  pointersTo,           \* <<address, node>> pairs in _pointersTo
  funcPointers,         \* nodes in _funcPointers, NoNode for a deleted one
  queue,                \* nodes in BuilderSharedState::queue
  lastNode, processed,  \* BuilderSharedState::lastNode, processed
  currAddresses,        \* address each thread is adding a node for, 0 for none
  currAddressesLock,    \* owner of the lock of that name
  perThreadLock,        \* owner of each thread's lock
  pc,                   \* where each builder's run() is
  stop,                 \* MemoryMapBuilder::_interrupted
  node,                 \* the node a builder processes
  todo,                 \* references of that node still to follow
  reads, hits,          \* existsNode(): intervals still to search, nodes found
  adds,                 \* instances addChild() has still to add
  waitFor,              \* the thread whose perThreadLock addChild() waits for
  fresh                 \* the node addChild() has created

mainVars == <<mainPc, mainIdx, buildType, builds, threads, vmemThreadSafe>>
indexVars == <<nodes, vmemMap, pmemMap, pointersTo, funcPointers>>
queueVars == <<queue, lastNode, processed>>
lockVars == <<currAddresses, currAddressesLock, perThreadLock>>
workVars == <<node, todo, reads, hits, adds, waitFor, fresh>>
vars == <<mainVars, interrupted, indexVars, queueVars, lockVars, pc, stop, workVars>>

NodeIds == 1 .. Len(nodes)
NodeRec == [inst : Insts, parent : Nat, prob : Percent, found : Nat]

MainTypeOK ==
  /\ mainPc \in {"idle", "roots", "functions", "slub", "fork", "poll", "interrupt", "join"}
  /\ mainIdx \in 0 .. N + Len(Roots)
  /\ buildType \in {"btChrschn", "btSlubCache"}
  /\ interrupted \in BOOLEAN
  /\ builds \in 0 .. MaxBuilds
  /\ threads \subseteq Threads
  /\ vmemThreadSafe \in BOOLEAN

IndexTypeOK ==
  /\ nodes \in Seq(NodeRec)
  /\ vmemMap \subseteq NodeIds
  /\ pmemMap \subseteq NodeIds \X Nat
  /\ pointersTo \subseteq Nat \X NodeIds
  /\ funcPointers \subseteq NodeIds \cup {NoNode}
  /\ queue \subseteq NodeIds
  /\ lastNode \in NodeIds \cup {NoNode}
  /\ processed \in Nat

LockTypeOK ==
  /\ currAddresses \in [Threads -> Nat]
  /\ currAddressesLock \in Threads \cup {Free}
  /\ perThreadLock \in [Threads -> Threads \cup {Free}]

Labels == {"unstarted", "started", "loop", "map", "refs", "find", "add", "own", "wait",
           "woken", "create", "hash", "enqueue", "release", "unlock", "finished"}

WorkTypeOK ==
  /\ pc \in [Threads -> Labels]
  /\ stop \in [Threads -> BOOLEAN]
  /\ node \in [Threads -> NodeIds \cup {NoNode}]
  /\ todo \in [Threads -> Seq(Ref)]
  /\ reads \in [Threads -> Seq(SUBSET Insts)]
  /\ hits \in [Threads -> SUBSET NodeIds]
  /\ adds \in [Threads -> Seq(Insts)]
  /\ waitFor \in [Threads -> Threads]
  /\ fresh \in [Threads -> NodeIds \cup {NoNode}]

TypeOK == MainTypeOK /\ IndexTypeOK /\ LockTypeOK /\ WorkTypeOK

Init ==
  /\ mainPc = "idle" /\ mainIdx = 0 /\ buildType = "btChrschn"
  /\ interrupted = FALSE /\ builds = 0
  /\ threads = {} /\ vmemThreadSafe = FALSE
  /\ nodes = <<>> /\ vmemMap = {} /\ pmemMap = {} /\ pointersTo = {}
  /\ funcPointers = {}
  /\ queue = {} /\ lastNode = NoNode /\ processed = 0
  /\ currAddresses = [t \in Threads |-> 0]
  /\ currAddressesLock = Free
  /\ perThreadLock = [t \in Threads |-> Free]
  /\ pc = [t \in Threads |-> "unstarted"]
  /\ stop = [t \in Threads |-> FALSE]
  /\ node = [t \in Threads |-> NoNode]
  /\ todo = [t \in Threads |-> <<>>]
  /\ reads = [t \in Threads |-> <<>>]
  /\ hits = [t \in Threads |-> {}]
  /\ adds = [t \in Threads |-> <<>>]
  /\ waitFor = [t \in Threads |-> t]
  /\ fresh = [t \in Threads |-> NoNode]

NodeProb(n) == nodes[n].prob

ShouldEnqueue(x) == x.inst \in Enqueueable /\ x.prob > MinProb

Sane(i) == vmemMap = {} \/ Size[i] > 0

(* The constructor: a node takes its probability from its parent's, once, and
   only in the builds that use it. *)
NewNode(i, parent) ==
  LET above == IF parent = NoNode THEN NoParent ELSE NodeProb(parent)
  IN [inst |-> i, parent |-> parent, found |-> 0,
      prob |-> IF buildType = "btChrschn" THEN Prob[i][above] ELSE 100]

IsFunction(i) == \E k \in DOMAIN Functions : Functions[k] = i

Running(t) == pc[t] \notin {"unstarted", "finished"}

---------------------------------------------------------------------------
(* The main thread: MemoryMap::build(). *)

(* build() up to the loop over the variables: clearRevmap() deletes every node,
   BuilderSharedState::reset() empties the queue, the VirtualMemory becomes
   thread safe and the builders are created, not yet started. *)
BeginBuild ==
  /\ mainPc = "idle" /\ builds < MaxBuilds
  /\ \E type \in {"btChrschn", "btSlubCache"} : buildType' = type
  /\ builds' = builds + 1
  /\ nodes' = <<>> /\ vmemMap' = {} /\ pmemMap' = {} /\ pointersTo' = {}
  /\ funcPointers' = {NoNode : n \in funcPointers}
  /\ queue' = {} /\ lastNode' = NoNode /\ processed' = 0
  /\ currAddresses' = [t \in Threads |-> 0]
  /\ interrupted' = FALSE
  /\ vmemThreadSafe' = (N > 1)
  /\ threads' = Threads
  /\ pc' = [t \in Threads |-> "unstarted"]
  /\ stop' = [t \in Threads |-> FALSE]
  /\ node' = [t \in Threads |-> NoNode]
  /\ todo' = [t \in Threads |-> <<>>]
  /\ reads' = [t \in Threads |-> <<>>]
  /\ hits' = [t \in Threads |-> {}]
  /\ adds' = [t \in Threads |-> <<>>]
  /\ waitFor' = [t \in Threads |-> t]
  /\ fresh' = [t \in Threads |-> NoNode]
  /\ mainPc' = "roots" /\ mainIdx' = 1
  /\ UNCHANGED <<currAddressesLock, perThreadLock>>

(* addVarInstance(): a root node for the next variable, in the map and, if it
   is worth following, in the queue. *)
AddRoot ==
  /\ mainPc = "roots" /\ ~interrupted /\ mainIdx <= Len(Roots)
  /\ LET i == Roots[mainIdx]
         n == Len(nodes) + 1
     IN /\ nodes' = Append(nodes, NewNode(i, NoNode))
        /\ vmemMap' = vmemMap \cup {n}
        /\ queue' = IF ShouldEnqueue(NewNode(i, NoNode)) THEN queue \cup {n} ELSE queue
  /\ mainIdx' = mainIdx + 1
  /\ UNCHANGED <<mainPc, buildType, builds, threads, vmemThreadSafe, interrupted,
                 pmemMap, pointersTo, funcPointers, lastNode, processed,
                 lockVars, pc, stop, workVars>>

RootsDone ==
  /\ mainPc = "roots" /\ (interrupted \/ mainIdx > Len(Roots))
  /\ mainPc' = "functions"
  /\ UNCHANGED <<mainIdx, buildType, builds, threads, vmemThreadSafe, interrupted,
                 indexVars, queueVars, lockVars, pc, stop, workVars>>

(* Nodes for the instances of a sequence, in the map but not in the queue. *)
AddUnqueued(s) ==
  /\ nodes' = nodes \o [k \in DOMAIN s |-> NewNode(s[k], NoNode)]
  /\ vmemMap' = vmemMap \cup {Len(nodes) + k : k \in DOMAIN s}

AddFunctions ==
  /\ mainPc = "functions"
  /\ AddUnqueued(Functions)
  /\ mainPc' = IF buildType = "btSlubCache" THEN "slub" ELSE "fork"
  /\ mainIdx' = 0
  /\ UNCHANGED <<buildType, builds, threads, vmemThreadSafe, interrupted, pmemMap,
                 pointersTo, funcPointers, queueVars, lockVars, pc, stop, workVars>>

AddSlubObjects ==
  /\ mainPc = "slub"
  /\ AddUnqueued(SlubObjects)
  /\ mainPc' = "poll"
  /\ UNCHANGED <<mainIdx, buildType, builds, threads, vmemThreadSafe, interrupted,
                 pmemMap, pointersTo, funcPointers, queueVars, lockVars, pc, stop,
                 workVars>>

(* QThread::start(): the thread counts as running, but has not entered run(). *)
StartThread ==
  /\ mainPc = "fork"
  /\ pc' = [pc EXCEPT ![mainIdx] = "started"]
  /\ IF mainIdx = N - 1 THEN mainPc' = "poll" /\ mainIdx' = 0
                        ELSE mainPc' = "fork" /\ mainIdx' = mainIdx + 1
  /\ UNCHANGED <<buildType, builds, threads, vmemThreadSafe, interrupted, indexVars,
                 queueVars, lockVars, stop, workVars>>

(* Mutant: the loop also ends on an empty queue, the condition that the source
   has commented out. *)
MutPollOver ==
  interrupted \/ queue = {} \/ \A t \in Threads : ~Running(t)

(* The polling loop ends on an interrupt, when the last node taken falls below
   the threshold (read without the queue's lock), or when no builder runs. *)
PollOver ==
  \/ interrupted
  \/ lastNode # NoNode /\ NodeProb(lastNode) < MinProb
  \/ \A t \in Threads : ~Running(t)

LeavePoll ==
  /\ mainPc = "poll" /\ PollOver
  /\ mainPc' = "interrupt" /\ mainIdx' = 0
  /\ UNCHANGED <<buildType, builds, threads, vmemThreadSafe, interrupted, indexVars,
                 queueVars, lockVars, pc, stop, workVars>>

InterruptThread ==
  /\ mainPc = "interrupt"
  /\ stop' = [stop EXCEPT ![mainIdx] = TRUE]
  /\ IF mainIdx = N - 1 THEN mainPc' = "join" /\ mainIdx' = 0
                        ELSE mainPc' = "interrupt" /\ mainIdx' = mainIdx + 1
  /\ UNCHANGED <<buildType, builds, threads, vmemThreadSafe, interrupted, indexVars,
                 queueVars, lockVars, pc, workVars>>

(* Mutant: the builders are deleted in the order they were created. *)
MutNextToDelete == CHOOSE t \in threads : \A u \in threads : t <= u

(* Builder 0, whose calculateNodeProbability() all of them call, goes last. *)
NextToDelete == CHOOSE t \in threads : \A u \in threads : t >= u

(* wait() for a builder, unless it has ended, and delete it. *)
JoinThread ==
  /\ mainPc = "join" /\ threads # {} /\ ~Running(NextToDelete)
  /\ threads' = threads \ {NextToDelete}
  /\ UNCHANGED <<mainPc, mainIdx, buildType, builds, vmemThreadSafe, interrupted, indexVars,
                 queueVars, lockVars, pc, stop, workVars>>

(* Restores the VirtualMemory's thread safety, which was off. *)
EndBuild ==
  /\ mainPc = "join" /\ threads = {}
  /\ vmemThreadSafe' = FALSE
  /\ mainPc' = "idle" /\ mainIdx' = 0
  /\ UNCHANGED <<buildType, builds, threads, interrupted, indexVars, queueVars,
                 lockVars, pc, stop, workVars>>

(* The user's interrupt, which LongOperation learns of at any time. *)
UserInterrupt ==
  /\ mainPc \notin {"idle", "interrupt", "join"} /\ ~interrupted
  /\ interrupted' = TRUE
  /\ UNCHANGED <<mainVars, indexVars, queueVars, lockVars, pc, stop, workVars>>

---------------------------------------------------------------------------
(* A builder thread: MemoryMapBuilderCS::run(). *)

Goto(t, label) == pc' = [pc EXCEPT ![t] = label]

(* run() begins by resetting the flag that interrupt() sets. *)
Run(t) ==
  /\ pc[t] = "started" /\ Goto(t, "loop")
  /\ stop' = [stop EXCEPT ![t] = FALSE]
  /\ UNCHANGED <<mainVars, interrupted, indexVars, queueVars, lockVars, workVars>>

(* The loop's condition, evaluated with the queue locked. *)
MayTake(t) ==
  /\ ~stop[t]
  /\ queue # {}
  /\ lastNode # NoNode => NodeProb(lastNode) >= MinProb

(* Mutant: largest(), which leaves the node in the queue. *)
MutTakeLargest(n) ==
  n \in queue /\ (\A m \in queue : NodeProb(m) <= NodeProb(n)) /\ UNCHANGED queue

(* NodeQueue::takeLargest(): a node of highest probability. *)
TakeLargest(n) ==
  n \in queue /\ (\A m \in queue : NodeProb(m) <= NodeProb(n)) /\ queue' = queue \ {n}

Take(t) ==
  /\ pc[t] = "loop" /\ MayTake(t)
  /\ \E n \in queue :
       /\ TakeLargest(n)
       /\ lastNode' = n
       /\ node' = [node EXCEPT ![t] = n]
  /\ processed' = processed + 1
  /\ Goto(t, "map")
  /\ UNCHANGED <<mainVars, interrupted, indexVars, lockVars, stop,
                 todo, reads, hits, adds, waitFor, fresh>>

Finish(t) ==
  /\ pc[t] = "loop" /\ ~MayTake(t) /\ Goto(t, "finished")
  /\ UNCHANGED <<mainVars, interrupted, indexVars, queueVars, lockVars, stop, workVars>>

(* Saves the physical pages of the node. If one does not translate, the pages
   saved so far stay and the node is not followed. *)
MapPhysical(t) ==
  /\ pc[t] = "map"
  /\ LET i == nodes[node[t]].inst
     IN /\ pmemMap' = pmemMap \cup ({node[t]} \X (1 .. GoodPages[i]))
        /\ IF GoodPages[i] < Pages[i]
           THEN /\ Goto(t, "loop")
                /\ node' = [node EXCEPT ![t] = NoNode]
                /\ UNCHANGED todo
           ELSE /\ Goto(t, "refs")
                /\ todo' = [todo EXCEPT ![t] = Refs[i]]
                /\ UNCHANGED node
  /\ UNCHANGED <<mainVars, interrupted, nodes, vmemMap, pointersTo, funcPointers,
                 queueVars, lockVars, stop, reads, hits, adds, waitFor, fresh>>

(* The references of the node, one after the other. *)
NodeDone(t) ==
  /\ pc[t] = "refs" /\ todo[t] = <<>> /\ Goto(t, "loop")
  /\ node' = [node EXCEPT ![t] = NoNode]
  /\ UNCHANGED <<mainVars, interrupted, indexVars, queueVars, lockVars, stop,
                 todo, reads, hits, adds, waitFor, fresh>>

FollowFunctionPointer(t) ==
  /\ pc[t] = "refs" /\ todo[t] # <<>> /\ Head(todo[t]).kind = "func"
  /\ funcPointers' = funcPointers \cup {node[t]}
  /\ todo' = [todo EXCEPT ![t] = Tail(@)]
  /\ UNCHANGED <<mainVars, interrupted, nodes, vmemMap, pmemMap, pointersTo, queueVars,
                 lockVars, pc, stop, node, reads, hits, adds, waitFor, fresh>>

(* processPointer() drops a pointer back into the node. *)
SkipPointer(t) ==
  /\ pc[t] = "refs" /\ todo[t] # <<>> /\ Head(todo[t]).kind = "pointer"
  /\ PointsInto(Addr[Head(todo[t]).orig], nodes[node[t]].inst)
  /\ todo' = [todo EXCEPT ![t] = Tail(@)]
  /\ UNCHANGED <<mainVars, interrupted, indexVars, queueVars, lockVars, pc, stop,
                 node, reads, hits, adds, waitFor, fresh>>

(* processPointer() records who points to the address; the type rules'
   processInstanceFromRule() does not. Both call addChildIfNotExistend(). *)
FollowReference(t) ==
  /\ pc[t] = "refs" /\ todo[t] # <<>>
  /\ LET r == Head(todo[t])
     IN /\ r.kind # "func"
        /\ \/ /\ r.kind = "pointer"
              /\ ~PointsInto(Addr[r.orig], nodes[node[t]].inst)
              /\ pointersTo' = pointersTo \cup {<<Addr[r.orig], node[t]>>}
           \/ r.kind = "rule" /\ UNCHANGED pointersTo
        /\ reads' = [reads EXCEPT ![t] = Reads(r)]
  /\ hits' = [hits EXCEPT ![t] = {}]
  /\ Goto(t, "find")
  /\ UNCHANGED <<mainVars, interrupted, nodes, vmemMap, pmemMap, funcPointers,
                 queueVars, lockVars, stop, node, todo, adds, waitFor, fresh>>

(* The nodes of ns that existsNode() takes for the reference: one that encloses
   the original or the candidate, else a function overlapping the interval. *)
Existing(r, ns) ==
  LET enclosing == {n \in ns : \E i \in {r.orig, r.cand} : <<nodes[n].inst, i>> \in Encloses}
      function == {n \in ns : IsFunction(nodes[n].inst)}
  IN IF enclosing # {} THEN enclosing ELSE function

(* Mutant: a search finds nothing. *)
MutFound(t) == hits[t]

(* findAllNodes() searches one interval under the vmemMapLock. *)
Found(t) == hits[t] \cup
  {n \in vmemMap : \E i \in Head(reads[t]) : Overlap(nodes[n].inst, i)}

SearchMore(t) ==
  /\ pc[t] = "find" /\ Len(reads[t]) > 1
  /\ hits' = [hits EXCEPT ![t] = Found(t)]
  /\ reads' = [reads EXCEPT ![t] = Tail(@)]
  /\ UNCHANGED <<mainVars, interrupted, indexVars, queueVars, lockVars, pc, stop,
                 node, todo, adds, waitFor, fresh>>

FindExisting(t) ==
  /\ pc[t] = "find" /\ Len(reads[t]) = 1
  /\ \E n \in Existing(Head(todo[t]), Found(t)) :
       nodes' = [nodes EXCEPT ![n].found = @ + 1]
  /\ Goto(t, "refs")
  /\ todo' = [todo EXCEPT ![t] = Tail(@)]
  /\ reads' = [reads EXCEPT ![t] = <<>>]
  /\ hits' = [hits EXCEPT ![t] = {}]
  /\ UNCHANGED <<mainVars, interrupted, vmemMap, pmemMap, pointersTo, funcPointers,
                 queueVars, lockVars, stop, node, adds, waitFor, fresh>>

FindNone(t) ==
  /\ pc[t] = "find" /\ Len(reads[t]) = 1
  /\ Existing(Head(todo[t]), Found(t)) = {}
  /\ Goto(t, "add")
  /\ adds' = [adds EXCEPT ![t] = Chosen(Head(todo[t]))]
  /\ todo' = [todo EXCEPT ![t] = Tail(@)]
  /\ reads' = [reads EXCEPT ![t] = <<>>]
  /\ hits' = [hits EXCEPT ![t] = {}]
  /\ UNCHANGED <<mainVars, interrupted, indexVars, queueVars, lockVars, stop, node,
                 waitFor, fresh>>

---------------------------------------------------------------------------
(* MemoryMap::addChild() for the instances in adds[t]. *)

Target(t) == Head(adds[t])
TargetProb(t) == Prob[Target(t)][NodeProb(node[t])]    \* below the node processed

(* Mutant: the first new child ends the loop over the members. *)
MutAfterAdd(t) == "loop"
AfterAdd(t) == IF Len(adds[t]) = 1 THEN "refs" ELSE "add"

(* Below the threshold no node is added. *)
DropImprobable(t) ==
  /\ pc[t] = "add" /\ TargetProb(t) <= MinProb
  /\ adds' = [adds EXCEPT ![t] = Tail(@)]
  /\ Goto(t, AfterAdd(t))
  /\ UNCHANGED <<mainVars, interrupted, indexVars, queueVars, lockVars, stop,
                 node, todo, reads, hits, waitFor, fresh>>

(* Mutant: currAddresses is not searched. *)
MutConflicts(t) == {}

(* Under the currAddressesLock: is another thread adding a node for the same
   address? Then give the lock back and wait for that thread's own lock. *)
Conflicts(t) ==
  {u \in Threads \ {t} : currAddresses[u] = Addr[Target(t)]}

ClaimConflict(t) ==
  /\ pc[t] = "add" /\ TargetProb(t) > MinProb /\ currAddressesLock = Free
  /\ \E u \in Conflicts(t) : waitFor' = [waitFor EXCEPT ![t] = u]
  /\ currAddresses' = [currAddresses EXCEPT ![t] = 0]
  /\ Goto(t, "wait")
  /\ UNCHANGED <<mainVars, interrupted, indexVars, queueVars, currAddressesLock,
                 perThreadLock, stop, node, todo, reads, hits, adds, fresh>>

WaitLock(t) ==
  /\ pc[t] = "wait" /\ perThreadLock[waitFor[t]] = Free
  /\ perThreadLock' = [perThreadLock EXCEPT ![waitFor[t]] = t]
  /\ Goto(t, "woken")
  /\ UNCHANGED <<mainVars, interrupted, indexVars, queueVars, currAddresses,
                 currAddressesLock, stop, workVars>>

WaitUnlock(t) ==
  /\ pc[t] = "woken"
  /\ perThreadLock' = [perThreadLock EXCEPT ![waitFor[t]] = Free]
  /\ Goto(t, "add")
  /\ UNCHANGED <<mainVars, interrupted, indexVars, queueVars, currAddresses,
                 currAddressesLock, stop, workVars>>

Claim(t) ==
  /\ pc[t] = "add" /\ TargetProb(t) > MinProb /\ currAddressesLock = Free
  /\ Conflicts(t) = {}
  /\ currAddresses' = [currAddresses EXCEPT ![t] = Addr[Target(t)]]
  /\ currAddressesLock' = t
  /\ Goto(t, "own")
  /\ UNCHANGED <<mainVars, interrupted, indexVars, queueVars, perThreadLock, stop,
                 workVars>>

(* The thread's own lock is taken before the currAddressesLock is given back. *)
LockOwn(t) ==
  /\ pc[t] = "own" /\ perThreadLock[t] = Free
  /\ perThreadLock' = [perThreadLock EXCEPT ![t] = t]
  /\ currAddressesLock' = Free
  /\ Goto(t, "create")
  /\ UNCHANGED <<mainVars, interrupted, indexVars, queueVars, currAddresses, stop,
                 workVars>>

(* objectIsSane() and parent->addChild(), which throws for an address beyond
   the address space. *)
Create(t) ==
  /\ pc[t] = "create" /\ Sane(Target(t)) /\ Target(t) \notin TooHigh
  /\ nodes' = Append(nodes, NewNode(Target(t), node[t]))
  /\ fresh' = [fresh EXCEPT ![t] = Len(nodes) + 1]
  /\ Goto(t, "hash")
  /\ UNCHANGED <<mainVars, interrupted, vmemMap, pmemMap, pointersTo, funcPointers,
                 queueVars, lockVars, stop, node, todo, reads, hits, adds, waitFor>>

CreateNothing(t) ==
  /\ pc[t] = "create" /\ (~Sane(Target(t)) \/ Target(t) \in TooHigh)
  /\ Goto(t, "release")
  /\ UNCHANGED <<mainVars, interrupted, indexVars, queueVars, lockVars, stop, workVars>>

(* addNodeToHashes(), under the vmemMapLock. *)
Hash(t) ==
  /\ pc[t] = "hash"
  /\ vmemMap' = vmemMap \cup {fresh[t]}
  /\ Goto(t, IF ShouldEnqueue(nodes[fresh[t]]) THEN "enqueue" ELSE "release")
  /\ UNCHANGED <<mainVars, interrupted, nodes, pmemMap, pointersTo, funcPointers,
                 queueVars, lockVars, stop, workVars>>

Enqueue(t) ==
  /\ pc[t] = "enqueue"
  /\ queue' = queue \cup {fresh[t]}
  /\ Goto(t, "release")
  /\ UNCHANGED <<mainVars, interrupted, indexVars, lastNode, processed, lockVars,
                 stop, workVars>>

(* Mutant: the address is not given back. *)
MutRelease(t) ==
  /\ pc[t] = "release" /\ currAddressesLock = Free
  /\ Goto(t, "unlock")
  /\ UNCHANGED <<mainVars, interrupted, indexVars, queueVars, lockVars, stop, workVars>>

(* The address is given back under the currAddressesLock, and the thread's own
   lock afterwards, when the locker goes out of scope. *)
Release(t) ==
  /\ pc[t] = "release" /\ currAddressesLock = Free
  /\ currAddresses' = [currAddresses EXCEPT ![t] = 0]
  /\ Goto(t, "unlock")
  /\ UNCHANGED <<mainVars, interrupted, indexVars, queueVars, currAddressesLock,
                 perThreadLock, stop, workVars>>

Unlock(t) ==
  /\ pc[t] = "unlock"
  /\ perThreadLock' = [perThreadLock EXCEPT ![t] = Free]
  /\ adds' = [adds EXCEPT ![t] = Tail(@)]
  /\ fresh' = [fresh EXCEPT ![t] = NoNode]
  /\ Goto(t, AfterAdd(t))
  /\ UNCHANGED <<mainVars, interrupted, indexVars, queueVars, currAddresses,
                 currAddressesLock, stop, node, todo, reads, hits, waitFor>>

---------------------------------------------------------------------------
MainStep ==
  \/ BeginBuild \/ AddRoot \/ RootsDone \/ AddFunctions \/ AddSlubObjects
  \/ StartThread \/ LeavePoll \/ InterruptThread \/ JoinThread \/ EndBuild

AddStep(t) ==
  \/ DropImprobable(t) \/ ClaimConflict(t) \/ WaitLock(t) \/ WaitUnlock(t)
  \/ Claim(t) \/ LockOwn(t) \/ Create(t) \/ CreateNothing(t) \/ Hash(t)
  \/ Enqueue(t) \/ Release(t) \/ Unlock(t)

BuilderStep(t) ==
  \/ Run(t) \/ Take(t) \/ Finish(t) \/ MapPhysical(t) \/ NodeDone(t)
  \/ FollowFunctionPointer(t) \/ SkipPointer(t) \/ FollowReference(t)
  \/ SearchMore(t) \/ FindExisting(t) \/ FindNone(t) \/ AddStep(t)

Next == MainStep \/ UserInterrupt \/ \E t \in Threads : BuilderStep(t)

Spec == Init /\ [][Next]_vars

(* The operating system runs every thread that can run. The user need not
   build again, so the fairness of the main thread leaves BeginBuild out. *)
FairSpec == /\ Spec
            /\ WF_vars(MainStep /\ mainPc # "idle")
            /\ \A t \in Threads : WF_vars(BuilderStep(t))

---------------------------------------------------------------------------
(* Two builders never work on a new node for the same address at the same time:
   the purpose of currAddresses and the per-thread locks in addChild(). *)
InAddSection(t) == pc[t] \in {"create", "hash", "enqueue"}

AddressExclusive ==
  \A t, u \in Threads :
    t # u /\ InAddSection(t) /\ InAddSection(u) => Addr[Target(t)] # Addr[Target(u)]

(* No two builders process the same node, and none processes a node that is in
   the queue again. A node's list of children has no lock: it relies on this. *)
SingleProcessor ==
  \A t \in Threads : node[t] # NoNode =>
    /\ node[t] \notin queue
    /\ \A u \in Threads \ {t} : node[u] # node[t]

(* embeds() finds an instance in itself if it has a size and the hash of its type
   is valid (basetype.cpp:150); one of no size is not added by a builder. *)
Recognisable(i) == Size[i] > 0 => <<i, i>> \in Encloses

(* The check for an existing node is not repeated once the address is claimed,
   so several builders may add the same instance, but each at most once, and
   an instance of a root variable once more. *)
DuplicatesBounded ==
  \A i \in Insts : Recognisable(i) =>
    Cardinality({n \in NodeIds : nodes[n].inst = i /\ nodes[n].parent # NoNode}) <= N

(* A build that nobody interrupted leaves nothing behind: no builder stopped on
   an empty queue that another one still filled, and each node worth following
   was taken exactly once. *)
BuildOver == mainPc = "join" /\ threads = {} /\ ~interrupted /\ buildType = "btChrschn"

NoWorkLost ==
  BuildOver =>
    /\ queue = {}
    /\ processed = Cardinality({n \in NodeIds : ShouldEnqueue(nodes[n])})

(* After such a build whatever a followed node refers to is in the map: a node
   is or encloses what the reference leads to (or is the function it points into), or
   each of the instances addChild() chose to add is there or could not be: has no
   size, lies beyond the address space, or is too improbable below that node. *)
Followed(n) == ShouldEnqueue(nodes[n]) /\ GoodPages[nodes[n].inst] >= Pages[nodes[n].inst]

InMap(i) == \E n \in vmemMap :
  \/ nodes[n].inst = i \/ <<nodes[n].inst, i>> \in Encloses
  \/ IsFunction(nodes[n].inst) /\ Overlap(nodes[n].inst, i)

CannotBeAdded(i, n) == Prob[i][NodeProb(n)] <= MinProb \/ Size[i] = 0 \/ i \in TooHigh

Covered(r, n) ==
  \/ r.kind = "func"
  \/ InMap(r.orig)
  \/ r.cand # NoInst /\ InMap(r.cand)
  \/ \A k \in DOMAIN Chosen(r) : CannotBeAdded(Chosen(r)[k], n)

ReferencesCovered ==
  BuildOver => \A n \in vmemMap : Followed(n) =>
    \A k \in DOMAIN Refs[nodes[n].inst] :
      LET r == Refs[nodes[n].inst][k]
      IN \/ Covered(r, n)
         \/ r.kind = "pointer" /\ PointsInto(Addr[r.orig], nodes[n].inst)

(* While a builder runs, it and builder 0 exist, and with several builders the
   VirtualMemory they share locks its accesses. *)
BuildersOutlived ==
  \A t \in Threads : Running(t) =>
    {0, t} \subseteq threads /\ (N > 1 => vmemThreadSafe)

(* Every build ends: no builder waits forever for another one's address. *)
BuildTerminates == (mainPc = "roots") ~> (mainPc = "idle")

---------------------------------------------------------------------------
(* What comments in the source say, and the code does not do. *)

(* memorymap.h:351: addChildIfNotExistend() adds a node "if inst is not already
   contained in the virtual memory mapping". *)
NoDuplicates ==
  \A m, n \in NodeIds :
    m # n /\ nodes[m].parent # NoNode /\ nodes[n].parent # NoNode
      => nodes[m].inst # nodes[n].inst

(* memorymap.cpp:490: once all threads have been interrupted none of them takes
   another node. *)
InterruptStops == [][mainPc = "join" => processed' = processed]_vars

(* memorymap.h:156: clearRevmap() deletes all data of the reverse map, so no
   list names a node that it deleted. *)
NoDeletedNodes == NoNode \notin funcPointers
=============================================================================
