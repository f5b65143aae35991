------------------------- MODULE MapBuilderProofs -------------------------
(* Theorems about MapBuilder for any number of builders, any guest and any number
   of builds: builders do not disturb each other, no node worth following is left
   behind, whatever a followed node refers to is in the map, and no builder adds an
   instance twice. *)
EXTENDS MapBuilder, FiniteSetTheorems, TLAPS

---------------------------------------------------------------------------
(* Typing needs to know what each builder carries at each point of run(). *)

Adding == {"add", "own", "wait", "woken", "create", "hash", "enqueue", "release", "unlock"}
Busy == {"map", "refs", "find"} \cup Adding

CarriesOK ==
  /\ mainPc = "roots" => mainIdx >= 1
  /\ mainPc \in {"fork", "interrupt"} => mainIdx \in Threads
  /\ \A t \in Threads :
       /\ pc[t] \in Busy => node[t] # NoNode
       /\ pc[t] = "find" => todo[t] # <<>> /\ Head(todo[t]).kind # "func"
       /\ pc[t] \in Adding => adds[t] # <<>>
       /\ pc[t] \in {"hash", "enqueue"} => fresh[t] # NoNode

TypeInv == TypeOK /\ CarriesOK

(* addChild() has at least one instance to add for every reference. *)
LEMMA ChosenType ==
  ASSUME NEW r \in Ref, r.kind # "func"
  PROVE  Chosen(r) \in Seq(Insts) /\ Chosen(r) # <<>>
BY InstsAssumption DEF Chosen, Ref

(* A sequence of one element. *)
LEMMA SingletonSeq ==
  ASSUME NEW S, NEW a \in S
  PROVE  <<a>> \in Seq(S)
OBVIOUS

(* A sequence of two elements. *)
LEMMA PairSeq ==
  ASSUME NEW S, NEW a \in S, NEW b \in S
  PROVE  <<a, b>> \in Seq(S)
OBVIOUS

(* existsNode() searches at least one interval, around known instances. *)
LEMMA ReadsType ==
  ASSUME NEW r \in Ref, r.kind # "func"
  PROVE  Reads(r) \in Seq(SUBSET Insts)
<1>1. r.orig \in Insts /\ (r.cand = NoInst \/ r.cand \in Insts)
  BY DEF Ref
<1>2. {r.orig} \in SUBSET Insts
  BY <1>1
<1>3. <<{r.orig}>> \in Seq(SUBSET Insts)
  BY <1>2, SingletonSeq
<1>4. CASE r.cand = NoInst
  BY <1>3, <1>4 DEF Reads
<1>5. CASE r.cand \in Insts
  <2>1. {r.cand} \in SUBSET Insts /\ {r.orig, r.cand} \in SUBSET Insts
    BY <1>1, <1>5
  <2>2. <<{r.orig, r.cand}>> \in Seq(SUBSET Insts)
    BY <2>1, SingletonSeq
  <2>3. <<{r.orig}, {r.cand}>> \in Seq(SUBSET Insts)
    BY <2>1, <1>2, PairSeq
  <2> QED  BY <2>2, <2>3, <1>3 DEF Reads
<1> QED  BY <1>1, <1>4, <1>5

(* The type invariant holds before the first build. *)
LEMMA InitType == Init => TypeInv
<1> SUFFICES ASSUME Init PROVE TypeInv
  OBVIOUS
<1> USE NAssumption DEF Init, Threads, NoNode, Free
<1>1. MainTypeOK
  <2>1. 0 \in 0 .. N + Len(Roots) /\ 0 \in 0 .. MaxBuilds
    BY RootsAssumption
  <2>2. interrupted \in BOOLEAN /\ vmemThreadSafe \in BOOLEAN
    OBVIOUS
  <2> QED  BY <2>1, <2>2 DEF MainTypeOK
<1>2. IndexTypeOK
  <2>1. nodes \in Seq(NodeRec)
    OBVIOUS
  <2> QED  BY <2>1 DEF IndexTypeOK
<1>3. LockTypeOK
  BY DEF LockTypeOK
<1>4. WorkTypeOK
  BY DEF WorkTypeOK, Labels
<1>5. CarriesOK
  BY DEF CarriesOK, Busy, Adding
<1> QED  BY <1>1, <1>2, <1>3, <1>4, <1>5 DEF TypeInv, TypeOK

(* Builders leave the main thread's variables alone. *)
LEMMA BuilderFrame ==
  ASSUME NEW t \in Threads, BuilderStep(t)
  PROVE  UNCHANGED <<mainVars, interrupted>>
BY DEF BuilderStep, AddStep, Run, Take, Finish, MapPhysical, NodeDone, FollowFunctionPointer,
    SkipPointer,
       FollowReference, SearchMore, FindExisting, FindNone, DropImprobable,
       ClaimConflict, WaitLock, WaitUnlock, Claim, LockOwn, Create, CreateNothing,
       Hash, Enqueue, Release, Unlock

(* Every step keeps the main thread's variables in range: build()'s loops
   end at the number of roots and of threads. *)
LEMMA MainTypeStep ==
  ASSUME TypeInv, [Next]_vars
  PROVE  MainTypeOK'
<1> USE NAssumption, RootsAssumption
    DEF TypeInv, TypeOK, MainTypeOK, CarriesOK, Threads, mainVars
<1>1. CASE BeginBuild
  <2>0. (N > 1) \in BOOLEAN
    OBVIOUS
  <2>1. interrupted' \in BOOLEAN /\ vmemThreadSafe' \in BOOLEAN
    BY <1>1, <2>0, Zenon DEF BeginBuild
  <2>2. 1 \in 0 .. N + Len(Roots) /\ builds' \in 0 .. MaxBuilds
    BY SMTT(30), <1>1 DEF BeginBuild
  <2> QED  BY <1>1, <2>1, <2>2 DEF BeginBuild
<1>2. CASE AddRoot
  BY SMTT(30), <1>2 DEF AddRoot
<1>3. CASE RootsDone
  BY <1>3 DEF RootsDone
<1>4. CASE AddFunctions
  BY <1>4 DEF AddFunctions
<1>5. CASE AddSlubObjects
  BY <1>5 DEF AddSlubObjects
<1>6. CASE StartThread
  BY <1>6 DEF StartThread
<1>7. CASE LeavePoll
  BY <1>7 DEF LeavePoll
<1>8. CASE InterruptThread
  BY <1>8 DEF InterruptThread
<1>9. CASE JoinThread
  BY <1>9 DEF JoinThread
<1>10. CASE EndBuild
  <2>1. vmemThreadSafe' \in BOOLEAN
    BY <1>10 DEF EndBuild
  <2>2. 0 \in 0 .. N + Len(Roots)
    OBVIOUS
  <2> QED  BY <1>10, <2>1, <2>2 DEF EndBuild
<1>11. CASE UserInterrupt
  BY <1>11 DEF UserInterrupt
<1>12. CASE \E t \in Threads : BuilderStep(t)
  BY <1>12, BuilderFrame
<1>13. CASE UNCHANGED vars
  BY <1>13 DEF vars
<1> QED  BY <1>1, <1>2, <1>3, <1>4, <1>5, <1>6, <1>7, <1>8, <1>9, <1>10, <1>11, <1>12,
            <1>13 DEF Next, MainStep

(* Every step keeps the addresses and the locks in range. *)
LEMMA LockTypeStep ==
  ASSUME TypeInv, [Next]_vars
  PROVE  LockTypeOK'
<1> USE DEF TypeInv, TypeOK, LockTypeOK, lockVars
<1>1. CASE UNCHANGED lockVars
  BY <1>1
<1>2. CASE BeginBuild
  BY <1>2 DEF BeginBuild
<1>3. ASSUME NEW t \in Threads, ClaimConflict(t) PROVE LockTypeOK'
  BY <1>3 DEF ClaimConflict, Free
<1>4. ASSUME NEW t \in Threads, WaitLock(t) PROVE LockTypeOK'
  BY <1>4 DEF WaitLock, WorkTypeOK, Free
<1>5. ASSUME NEW t \in Threads, WaitUnlock(t) PROVE LockTypeOK'
  BY <1>5 DEF WaitUnlock, WorkTypeOK, Free
<1>6. ASSUME NEW t \in Threads, Claim(t) PROVE LockTypeOK'
  BY <1>6, AddrAssumption DEF Claim, Target, WorkTypeOK, CarriesOK, Adding
<1>7. ASSUME NEW t \in Threads, LockOwn(t) PROVE LockTypeOK'
  BY <1>7 DEF LockOwn, Free
<1>8. ASSUME NEW t \in Threads, Release(t) PROVE LockTypeOK'
  BY <1>8 DEF Release, Free
<1>9. ASSUME NEW t \in Threads, Unlock(t) PROVE LockTypeOK'
  BY <1>9 DEF Unlock, Free
<1> QED
  BY ZenonT(60), <1>1, <1>2, <1>3, <1>4, <1>5, <1>6, <1>7, <1>8, <1>9
  DEF vars, Next, MainStep, BuilderStep, AddStep, AddRoot, RootsDone, AddFunctions,
      AddSlubObjects, StartThread, LeavePoll,
      InterruptThread, JoinThread, EndBuild, UserInterrupt, Run, Take, Finish,
      MapPhysical, NodeDone, FollowFunctionPointer, SkipPointer, FollowReference,
      SearchMore, FindExisting, FindNone, DropImprobable, Create, CreateNothing, Hash,
      Enqueue

(* A node that is created gets the next number. *)
LEMMA AppendNode ==
  ASSUME nodes \in Seq(NodeRec), NEW x \in NodeRec, nodes' = Append(nodes, x)
  PROVE  /\ nodes' \in Seq(NodeRec)
         /\ NodeIds \subseteq NodeIds'
         /\ Len(nodes) + 1 \in NodeIds'
         /\ Len(nodes) + 1 \notin NodeIds
BY DEF NodeIds

(* Counting a find, as existsNode() does, leaves a node a node. *)
LEMMA CountFound ==
  ASSUME NEW x \in NodeRec
  PROVE  [x EXCEPT !.found = @ + 1] \in NodeRec
BY DEF NodeRec

(* Probabilities are numbers. *)
LEMMA PercentInt == MinProb \in Int /\ Percent \subseteq Int
<1>1. Percent \subseteq Int
  BY DEF Percent
<1>2. MinProb \in Percent
  BY ProbAssumption
<1> QED  BY <1>1, <1>2

(* What a node's constructor makes is a node, whatever its parent. *)
LEMMA ConstructorType ==
  ASSUME nodes \in Seq(NodeRec), NEW i \in Insts, NEW p \in NodeIds \cup {NoNode}
  PROVE  NewNode(i, p) \in NodeRec
<1>0. p \in Nat /\ (p # NoNode => nodes[p] \in NodeRec)
  BY DEF NodeIds, NoNode
<1>1. p \in Nat /\ (p # NoNode => NodeProb(p) \in Percent)
  BY <1>0 DEF NodeProb, NodeRec
<1>2. Prob[i] \in [Percent \cup {NoParent} -> Percent]
  BY ProbAssumption
<1> DEFINE above == IF p = NoNode THEN NoParent ELSE NodeProb(p)
<1>3. above \in Percent \cup {NoParent}
  BY <1>1
<1>4. Prob[i][above] \in Percent
  BY <1>2, <1>3
<1>5. 100 \in Percent
  BY DEF Percent
<1> QED  BY <1>1, <1>4, <1>5 DEF NewNode, NodeRec

(* The nodes of functions and slub objects are numbered in order. *)
LEMMA AddUnqueuedType ==
  ASSUME nodes \in Seq(NodeRec), vmemMap \subseteq NodeIds,
         NEW s \in Seq(Insts), AddUnqueued(s)
  PROVE  nodes' \in Seq(NodeRec) /\ NodeIds \subseteq NodeIds' /\ vmemMap' \subseteq NodeIds'
<1> DEFINE added == [k \in DOMAIN s |-> NewNode(s[k], NoNode)]
<1>1. \A k \in DOMAIN s : NewNode(s[k], NoNode) \in NodeRec
  BY ConstructorType
<1>2. added \in Seq(NodeRec) /\ Len(added) = Len(s) /\ DOMAIN s = 1 .. Len(s)
  BY <1>1
<1>3. nodes' = nodes \o added
  BY DEF AddUnqueued
<1> HIDE DEF added
<1>4. nodes' \in Seq(NodeRec) /\ Len(nodes') = Len(nodes) + Len(s)
  BY SMTT(30), <1>2, <1>3
<1>5. \A k \in DOMAIN s : Len(nodes) + k \in NodeIds'
  BY <1>2, <1>4 DEF NodeIds
<1>6. NodeIds \subseteq NodeIds'
  BY <1>4 DEF NodeIds
<1> QED  BY <1>4, <1>5, <1>6 DEF AddUnqueued

(* What the first and the other elements of a non-empty sequence are. *)
LEMMA HeadTail ==
  ASSUME NEW S, NEW q \in Seq(S), q # <<>>
  PROVE  Head(q) \in S /\ Tail(q) \in Seq(S) /\ (Len(q) # 1 => Tail(q) # <<>>)
<1>1. Head(q) \in S /\ Tail(q) \in Seq(S) /\ Len(q) \in Nat \ {0}
  OBVIOUS
<1>2. Len(Tail(q)) = Len(q) - 1
  OBVIOUS
<1>3. ASSUME Len(q) # 1 PROVE Tail(q) # <<>>
  <2>1. Len(Tail(q)) # 0
    BY <1>1, <1>2, <1>3
  <2>2. Len(<<>>) = 0
    OBVIOUS
  <2> QED  BY <2>1, <2>2
<1> QED  BY <1>1, <1>3

(* The heap of nodes only grows during a build. *)
LEMMA IndexTypeStep ==
  ASSUME TypeInv, [Next]_vars
  PROVE  IndexTypeOK' /\ (BeginBuild \/ NodeIds \subseteq NodeIds')
<1> USE DEF TypeInv, TypeOK, IndexTypeOK, indexVars, queueVars
<1>1. CASE UNCHANGED <<indexVars, queueVars>>
  BY <1>1 DEF NodeIds
<1>2. CASE BeginBuild
  <2>1. nodes' \in Seq(NodeRec)
    BY <1>2 DEF BeginBuild
  <2> QED  BY <1>2, <2>1 DEF BeginBuild, NoNode
<1>3. CASE AddRoot
  <2>1. NewNode(Roots[mainIdx], NoNode) \in NodeRec
    BY <1>3, RootsAssumption, ConstructorType DEF AddRoot, MainTypeOK, CarriesOK
  <2>2. nodes' = Append(nodes, NewNode(Roots[mainIdx], NoNode))
    BY <1>3 DEF AddRoot
  <2> QED  BY <1>3, <2>1, <2>2, AppendNode DEF AddRoot
<1>4. CASE AddFunctions
  <2>1. AddUnqueued(Functions)
    BY <1>4 DEF AddFunctions
  <2> QED  BY <1>4, <2>1, AddUnqueuedType, KindsAssumption DEF AddFunctions
<1>5. CASE AddSlubObjects
  <2>1. AddUnqueued(SlubObjects)
    BY <1>5 DEF AddSlubObjects
  <2> QED  BY <1>5, <2>1, AddUnqueuedType, KindsAssumption DEF AddSlubObjects
<1>6. ASSUME NEW t \in Threads, Take(t) PROVE IndexTypeOK' /\ NodeIds \subseteq NodeIds'
  BY <1>6 DEF Take, TakeLargest, NodeIds
<1>7. ASSUME NEW t \in Threads, MapPhysical(t) PROVE IndexTypeOK' /\ NodeIds \subseteq NodeIds'
  <2>1. node[t] \in NodeIds
    BY <1>7 DEF MapPhysical, WorkTypeOK, CarriesOK, Busy
  <2> QED  BY <1>7, <2>1 DEF MapPhysical, NodeIds
<1>8. ASSUME NEW t \in Threads, FollowFunctionPointer(t)
      PROVE  IndexTypeOK' /\ NodeIds \subseteq NodeIds'
  <2>1. node[t] \in NodeIds
    BY <1>8 DEF FollowFunctionPointer, WorkTypeOK, CarriesOK, Busy
  <2> QED  BY <1>8, <2>1 DEF FollowFunctionPointer, NodeIds
<1>9. ASSUME NEW t \in Threads, FollowReference(t)
      PROVE  IndexTypeOK' /\ NodeIds \subseteq NodeIds'
  <2>1. node[t] \in NodeIds
    BY <1>9 DEF FollowReference, WorkTypeOK, CarriesOK, Busy
  <2>2. Head(todo[t]) \in Ref /\ Head(todo[t]).kind # "func"
    BY <1>9 DEF FollowReference, WorkTypeOK
  <2>3. Addr[Head(todo[t]).orig] \in Nat
    BY <2>2, AddrAssumption DEF Ref
  <2> QED  BY <1>9, <2>1, <2>3 DEF FollowReference, NodeIds
<1>10. ASSUME NEW t \in Threads, FindExisting(t)
       PROVE  IndexTypeOK' /\ NodeIds \subseteq NodeIds'
  <2>1. PICK n : nodes' = [nodes EXCEPT ![n].found = @ + 1]
    BY <1>10 DEF FindExisting
  <2>2. \A m \in NodeIds : nodes[m] \in NodeRec
    BY DEF NodeIds
  <2>3. \A m \in NodeIds : [nodes[m] EXCEPT !.found = @ + 1] \in NodeRec
    BY <2>2, CountFound
  <2>4. nodes' \in Seq(NodeRec) /\ Len(nodes') = Len(nodes)
    <3>1. nodes \in [1 .. Len(nodes) -> NodeRec]
      OBVIOUS
    <3>2. nodes' \in [1 .. Len(nodes) -> NodeRec]
      BY <2>1, <2>3, <3>1 DEF NodeIds
    <3> QED  BY <3>2
  <2> QED  BY <1>10, <2>4 DEF FindExisting, NodeIds
<1>11. ASSUME NEW t \in Threads, Create(t) PROVE IndexTypeOK' /\ NodeIds \subseteq NodeIds'
  <2>1. NewNode(Target(t), node[t]) \in NodeRec
    BY <1>11, ConstructorType, HeadTail DEF Create, Target, WorkTypeOK, CarriesOK, Adding, Busy
  <2>2. nodes' = Append(nodes, NewNode(Target(t), node[t]))
    BY <1>11 DEF Create
  <2> QED  BY <1>11, <2>1, <2>2, AppendNode DEF Create
<1>12. ASSUME NEW t \in Threads, Hash(t) PROVE IndexTypeOK' /\ NodeIds \subseteq NodeIds'
  BY <1>12 DEF Hash, WorkTypeOK, CarriesOK, NodeIds
<1>13. ASSUME NEW t \in Threads, Enqueue(t) PROVE IndexTypeOK' /\ NodeIds \subseteq NodeIds'
  BY <1>13 DEF Enqueue, WorkTypeOK, CarriesOK, NodeIds
<1> QED
  BY ZenonT(60), <1>1, <1>2, <1>3, <1>4, <1>5, <1>6, <1>7, <1>8, <1>9, <1>10, <1>11, <1>12, <1>13
  DEF vars, Next, MainStep, BuilderStep, AddStep, RootsDone, StartThread, LeavePoll,
      InterruptThread, JoinThread, EndBuild,
      UserInterrupt, Run, Finish, NodeDone, SkipPointer, SearchMore, FindNone,
      DropImprobable, ClaimConflict, WaitLock, WaitUnlock, Claim, LockOwn,
      CreateNothing, Release, Unlock

(* The node that addChild() creates is well formed. *)
LEMMA NewNodeType ==
  ASSUME TypeInv, NEW t \in Threads, pc[t] = "create"
  PROVE  NewNode(Target(t), node[t]) \in NodeRec
BY HeadTail, ConstructorType DEF TypeInv, TypeOK, IndexTypeOK, WorkTypeOK, CarriesOK, Adding,
   Busy, Target

(* Every step keeps what the builders carry in range. *)
LEMMA WorkTypeStep ==
  ASSUME TypeInv, [Next]_vars
  PROVE  WorkTypeOK'
<1> USE NAssumption DEF TypeInv, TypeOK, WorkTypeOK, Threads, Labels, Goto, workVars
<1>1. CASE BeginBuild
  BY <1>1 DEF BeginBuild, NoNode
<1>2. CASE ~BeginBuild /\ (MainStep \/ UserInterrupt \/ UNCHANGED vars)
  <2>1. NodeIds \subseteq NodeIds'
    BY <1>2, IndexTypeStep
  <2>2. CASE StartThread
    BY <2>1, <2>2 DEF StartThread
  <2>3. CASE InterruptThread
    BY <2>1, <2>3 DEF InterruptThread
  <2>4. CASE UNCHANGED <<pc, stop, workVars>>
    BY <2>1, <2>4
  <2> QED
    BY <1>2, <2>2, <2>3, <2>4
    DEF vars, MainStep, AddRoot, RootsDone, AddFunctions, AddSlubObjects, LeavePoll, JoinThread,
        EndBuild, UserInterrupt
<1>3. ASSUME NEW t \in Threads, BuilderStep(t) PROVE WorkTypeOK'
  <2>1. NodeIds \subseteq NodeIds'
    <3>1. Next
      BY <1>3 DEF Next
    <3>2. ~BeginBuild \/ NodeIds \subseteq NodeIds'
      <4>1. mainPc' = mainPc
        BY <1>3, BuilderFrame DEF mainVars
      <4> QED  BY <4>1 DEF BeginBuild
    <3> QED  BY <3>1, <3>2, IndexTypeStep
  <2>2. CASE Run(t)
    BY <2>1, <2>2 DEF Run
  <2>3. CASE Take(t)
    BY ZenonT(60), <2>1, <2>3 DEF Take, TakeLargest, IndexTypeOK
  <2>4. CASE Finish(t)
    BY <2>1, <2>4 DEF Finish
  <2>5. CASE MapPhysical(t)
    <3>1. node[t] \in NodeIds
      BY <2>5 DEF MapPhysical, CarriesOK, Busy
    <3>2. nodes[node[t]] \in NodeRec
      BY SMTT(30), <3>1 DEF IndexTypeOK, NodeIds
    <3>3. Refs[nodes[node[t]].inst] \in Seq(Ref)
      BY <3>2, RefsAssumption DEF NodeRec
    <3> QED  BY ZenonT(30), <2>5, <2>1, <3>3 DEF MapPhysical, NoNode
  <2>6. CASE NodeDone(t)
    BY <2>1, <2>6 DEF NodeDone, NoNode
  <2>7. CASE FollowFunctionPointer(t)
    <3>1. Tail(todo[t]) \in Seq(Ref)
      BY <2>7, HeadTail DEF FollowFunctionPointer, CarriesOK
    <3> QED  BY <2>7, <2>1, <3>1 DEF FollowFunctionPointer
  <2>8. CASE SkipPointer(t)
    <3>1. Tail(todo[t]) \in Seq(Ref)
      BY <2>8, HeadTail DEF SkipPointer, CarriesOK
    <3> QED  BY <2>8, <2>1, <3>1 DEF SkipPointer
  <2>9. CASE FollowReference(t)
    <3>1. Head(todo[t]) \in Ref /\ Head(todo[t]).kind # "func"
      BY <2>9, HeadTail DEF FollowReference
    <3>2. Reads(Head(todo[t])) \in Seq(SUBSET Insts)
      BY <3>1, ReadsType
    <3> QED  BY <2>9, <2>1, <3>2 DEF FollowReference
  <2>10. CASE SearchMore(t)
    <3>1. Tail(reads[t]) \in Seq(SUBSET Insts)
      BY SMTT(30), <2>10, HeadTail DEF SearchMore, CarriesOK
    <3> QED  BY <2>10, <2>1, <3>1 DEF SearchMore, Found, IndexTypeOK
  <2>11. CASE FindExisting(t)
    <3>1. Tail(todo[t]) \in Seq(Ref)
      BY <2>11, HeadTail DEF FindExisting, CarriesOK
    <3> QED  BY <2>11, <2>1, <3>1 DEF FindExisting, CarriesOK
  <2>12. CASE FindNone(t)
    <3>1. Head(todo[t]) \in Ref /\ Head(todo[t]).kind # "func" /\ Tail(todo[t]) \in Seq(Ref)
      BY <2>12, HeadTail DEF FindNone, CarriesOK
    <3>2. Chosen(Head(todo[t])) \in Seq(Insts)
      BY <3>1, ChosenType
    <3>3. todo' \in [Threads -> Seq(Ref)] /\ adds' \in [Threads -> Seq(Insts)]
      BY <2>12, <3>1, <3>2 DEF FindNone
    <3>4. reads' \in [Threads -> Seq(SUBSET Insts)]
      <4> DEFINE Q == Seq(SUBSET Insts)
      <4>1. <<>> \in Q /\ reads \in [Threads -> Q]
        BY SMTT(30)
      <4> HIDE DEF Q
      <4>2. reads' \in [Threads -> Q]
        BY <2>12, <4>1 DEF FindNone
      <4> QED  BY <4>2 DEF Q
    <3>5. hits' \in [Threads -> SUBSET NodeIds']
      BY <2>12, <2>1 DEF FindNone
    <3> QED  BY <2>12, <2>1, <3>3, <3>4, <3>5 DEF FindNone
  <2>13. CASE DropImprobable(t)
    <3>1. Tail(adds[t]) \in Seq(Insts)
      BY <2>13, HeadTail DEF DropImprobable, CarriesOK, Adding
    <3> QED  BY <2>13, <2>1, <3>1 DEF DropImprobable, AfterAdd, NoNode
  <2>14. CASE ClaimConflict(t)
    <3>1. PICK u \in Threads : waitFor' = [waitFor EXCEPT ![t] = u]
      BY <2>14 DEF ClaimConflict, Conflicts
    <3> QED  BY <2>14, <2>1, <3>1 DEF ClaimConflict
  <2>15. CASE WaitLock(t)
    BY <2>1, <2>15 DEF WaitLock
  <2>16. CASE WaitUnlock(t)
    BY <2>1, <2>16 DEF WaitUnlock
  <2>17. CASE Claim(t)
    BY <2>1, <2>17 DEF Claim
  <2>18. CASE LockOwn(t)
    BY <2>1, <2>18 DEF LockOwn
  <2>19. CASE Create(t)
    <3>1. Len(nodes) + 1 \in NodeIds'
      BY <2>19, NewNodeType, AppendNode DEF Create, IndexTypeOK
    <3> QED  BY <2>19, <2>1, <3>1 DEF Create
  <2>20. CASE CreateNothing(t)
    BY <2>1, <2>20 DEF CreateNothing
  <2>21. CASE Hash(t)
    BY <2>1, <2>21 DEF Hash
  <2>22. CASE Enqueue(t)
    BY <2>1, <2>22 DEF Enqueue
  <2>23. CASE Release(t)
    BY <2>1, <2>23 DEF Release
  <2>24. CASE Unlock(t)
    <3>1. Tail(adds[t]) \in Seq(Insts)
      BY <2>24, HeadTail DEF Unlock, CarriesOK, Adding
    <3> QED  BY <2>24, <2>1, <3>1 DEF Unlock, AfterAdd, NoNode
  <2> QED
    BY <1>3, <2>2, <2>3, <2>4, <2>5, <2>6, <2>7, <2>8, <2>9, <2>10, <2>11, <2>12, <2>13,
       <2>14, <2>15, <2>16, <2>17, <2>18, <2>19, <2>20, <2>21, <2>22, <2>23,
           <2>24 DEF BuilderStep, AddStep
<1> QED  BY <1>1, <1>2, <1>3 DEF Next

(* What a builder carries changes by its own steps only, and each step that
   reaches a label provides what the label needs. *)
LEMMA CarriesStep ==
  ASSUME TypeInv, [Next]_vars
  PROVE  CarriesOK'
<1> USE NAssumption DEF TypeInv, TypeOK, CarriesOK, Threads, Busy, Adding, Goto,
        mainVars, workVars
<1>1. CASE BeginBuild
  BY <1>1 DEF BeginBuild
<1>2. CASE AddRoot
  BY <1>2 DEF AddRoot, MainTypeOK
<1>3. CASE StartThread
  <2>1. mainPc' \in {"fork", "poll"} /\ (mainPc' = "fork" => mainIdx' \in Threads)
    BY <1>3 DEF StartThread
  <2>2. \A t \in Threads : pc'[t] = pc[t] \/ pc'[t] = "started"
    BY <1>3 DEF StartThread, WorkTypeOK
  <2> QED  BY <1>3, <2>1, <2>2 DEF StartThread
<1>4. CASE LeavePoll
  BY <1>4 DEF LeavePoll
<1>5. CASE InterruptThread
  BY <1>5 DEF InterruptThread, MainTypeOK
<1>6. CASE RootsDone \/ AddFunctions \/ AddSlubObjects \/ JoinThread \/ EndBuild
  BY <1>6 DEF RootsDone, AddFunctions, AddSlubObjects, JoinThread, EndBuild
<1>7. CASE UserInterrupt \/ UNCHANGED vars
  BY <1>7 DEF UserInterrupt, vars
<1>8. ASSUME NEW t \in Threads, BuilderStep(t) PROVE CarriesOK'
  <2> USE DEF WorkTypeOK
  <2>1. UNCHANGED <<mainPc, mainIdx>>
    BY <1>8, BuilderFrame
  <2>2. CASE Run(t)
    BY <2>1, <2>2 DEF Run
  <2>3. CASE Take(t)
    <3>1. PICK n \in queue : node' = [node EXCEPT ![t] = n]
      BY <2>3 DEF Take
    <3>2. n # NoNode
      BY DEF IndexTypeOK, NodeIds, NoNode
    <3> QED  BY <2>3, <2>1, <3>1, <3>2 DEF Take
  <2>4. CASE Finish(t)
    BY <2>1, <2>4 DEF Finish
  <2>5. CASE MapPhysical(t)
    BY ZenonT(60), <2>1, <2>5 DEF MapPhysical
  <2>6. CASE NodeDone(t)
    BY <2>1, <2>6 DEF NodeDone
  <2>7. CASE FollowFunctionPointer(t)
    BY <2>1, <2>7 DEF FollowFunctionPointer
  <2>8. CASE SkipPointer(t)
    BY <2>1, <2>8 DEF SkipPointer
  <2>9. CASE FollowReference(t)
    BY <2>1, <2>9 DEF FollowReference
  <2>10. CASE SearchMore(t)
    BY <2>1, <2>10 DEF SearchMore
  <2>11. CASE FindExisting(t)
    BY <2>1, <2>11 DEF FindExisting
  <2>12. CASE FindNone(t)
    <3>1. Chosen(Head(todo[t])) # <<>>
      BY <2>12, HeadTail, ChosenType DEF FindNone
    <3> QED  BY <2>12, <2>1, <3>1 DEF FindNone
  <2>13. CASE DropImprobable(t)
    <3>1. AfterAdd(t) \in Adding => Tail(adds[t]) # <<>>
      BY <2>13, HeadTail DEF DropImprobable, AfterAdd
    <3> QED  BY <2>13, <2>1, <3>1 DEF DropImprobable, AfterAdd
  <2>14. CASE ClaimConflict(t)
    BY <2>1, <2>14 DEF ClaimConflict
  <2>15. CASE WaitLock(t)
    BY <2>1, <2>15 DEF WaitLock
  <2>16. CASE WaitUnlock(t)
    BY <2>1, <2>16 DEF WaitUnlock
  <2>17. CASE Claim(t)
    BY <2>1, <2>17 DEF Claim
  <2>18. CASE LockOwn(t)
    BY <2>1, <2>18 DEF LockOwn
  <2>19. CASE Create(t)
    <3>1. Len(nodes) + 1 # NoNode
      BY DEF IndexTypeOK, NoNode
    <3> QED  BY <2>19, <2>1, <3>1 DEF Create
  <2>20. CASE CreateNothing(t)
    BY <2>1, <2>20 DEF CreateNothing
  <2>21. CASE Hash(t)
    BY <2>1, <2>21 DEF Hash
  <2>22. CASE Enqueue(t)
    BY <2>1, <2>22 DEF Enqueue
  <2>23. CASE Release(t)
    BY <2>1, <2>23 DEF Release
  <2>24. CASE Unlock(t)
    <3>1. AfterAdd(t) \in Adding => Tail(adds[t]) # <<>>
      BY <2>24, HeadTail DEF Unlock, AfterAdd
    <3> QED  BY <2>24, <2>1, <3>1 DEF Unlock, AfterAdd
  <2> QED
    BY <1>8, <2>2, <2>3, <2>4, <2>5, <2>6, <2>7, <2>8, <2>9, <2>10, <2>11, <2>12, <2>13,
       <2>14, <2>15, <2>16, <2>17, <2>18, <2>19, <2>20, <2>21, <2>22, <2>23,
           <2>24 DEF BuilderStep, AddStep
<1> QED
  BY <1>1, <1>2, <1>3, <1>4, <1>5, <1>6, <1>7, <1>8 DEF Next, MainStep

(* The type invariant is inductive. *)
LEMMA TypeStep == TypeInv /\ [Next]_vars => TypeInv'
BY MainTypeStep, IndexTypeStep, LockTypeStep, WorkTypeStep, CarriesStep DEF TypeInv, TypeOK

(* The variables of the map builder keep their types. *)
THEOREM TypeCorrect == Spec => []TypeOK
<1>1. TypeInv => TypeOK
  BY DEF TypeInv
<1> QED  BY InitType, TypeStep, <1>1, PTL DEF Spec

---------------------------------------------------------------------------
(* Mutual exclusion on addresses. A builder that has claimed an address still has it
   in currAddresses, so that whoever claims next sees it. *)

Holding == {"own", "create", "hash", "enqueue", "release"}

ExclusiveInv ==
  /\ \A t \in Threads : pc[t] \in Holding => currAddresses[t] = Addr[Target(t)]
  /\ \A t, u \in Threads :
       t # u /\ pc[t] \in Holding /\ pc[u] \in Holding => Addr[Target(t)] # Addr[Target(u)]

(* A builder's step leaves what other builders hold alone. *)
LEMMA BuilderLocal ==
  ASSUME TypeInv, NEW t \in Threads, BuilderStep(t), NEW u \in Threads, u # t
  PROVE  /\ pc'[u] = pc[u] /\ adds'[u] = adds[u] /\ currAddresses'[u] = currAddresses[u]
         /\ node'[u] = node[u] /\ fresh'[u] = fresh[u]
<1> USE DEF TypeInv, TypeOK, WorkTypeOK, LockTypeOK, Goto, workVars, lockVars
<1>1. CASE AddStep(t)
  BY <1>1 DEF AddStep, DropImprobable, ClaimConflict, WaitLock, WaitUnlock, Claim, LockOwn,
     Create, CreateNothing, Hash, Enqueue, Release, Unlock
<1>2. CASE ~AddStep(t)
  BY <1>2 DEF BuilderStep, Run, Take, Finish, MapPhysical, NodeDone, FollowFunctionPointer,
     SkipPointer, FollowReference, SearchMore, FindExisting, FindNone
<1> QED  BY <1>1, <1>2

(* Only Claim takes a new address. *)
LEMMA HoldingKept ==
  ASSUME TypeInv, NEW t \in Threads, BuilderStep(t), ~Claim(t), pc'[t] \in Holding
  PROVE  pc[t] \in Holding /\ adds'[t] = adds[t] /\ currAddresses'[t] = currAddresses[t]
<1> USE DEF TypeInv, TypeOK, WorkTypeOK, LockTypeOK, Goto, workVars, lockVars, Holding
<1>1. CASE AddStep(t)
  BY <1>1 DEF AfterAdd, AddStep, DropImprobable, ClaimConflict, WaitLock, WaitUnlock, LockOwn,
     Create, CreateNothing, Hash, Enqueue, Release, Unlock
<1>2. CASE ~AddStep(t)
  BY <1>2 DEF BuilderStep, Run, Take, Finish, MapPhysical, NodeDone, FollowFunctionPointer,
     SkipPointer, FollowReference, SearchMore, FindExisting, FindNone
<1> QED  BY <1>1, <1>2

(* Every step keeps the claimed addresses distinct: Claim checks all of
   currAddresses under the lock, and Release is the only step to give one back. *)
LEMMA ExclusiveStep ==
  ASSUME TypeInv, ExclusiveInv, [Next]_vars
  PROVE  ExclusiveInv'
<1> USE DEF ExclusiveInv, Target
<1>1. CASE BeginBuild
  BY <1>1 DEF BeginBuild, Holding
<1>2. CASE StartThread
  BY <1>2 DEF StartThread, Holding, lockVars, workVars, TypeInv, TypeOK, WorkTypeOK
<1>3. CASE UNCHANGED <<pc, lockVars, workVars>>
  BY <1>3 DEF lockVars, workVars
<1>4. ASSUME NEW t \in Threads, BuilderStep(t), ~Claim(t) PROVE ExclusiveInv'
  BY <1>4, BuilderLocal, HoldingKept
<1>5. ASSUME NEW t \in Threads, Claim(t) PROVE ExclusiveInv'
  <2>1. BuilderStep(t)
    BY <1>5 DEF BuilderStep, AddStep
  <2>2. currAddresses'[t] = Addr[Target(t)] /\ adds' = adds
    BY <1>5 DEF Claim, TypeInv, TypeOK, LockTypeOK, workVars
  <2>3. \A u \in Threads \ {t} : currAddresses[u] # Addr[Target(t)]
    BY <1>5 DEF Claim, Conflicts
  <2>4. \A u \in Threads \ {t} : pc'[u] \in Holding => Addr[Target(u)] # Addr[Target(t)]
    BY <2>1, <2>3, BuilderLocal
  <2> QED  BY <2>1, <2>2, <2>4, BuilderLocal
<1> QED
  BY <1>1, <1>2, <1>3, <1>4, <1>5
  DEF vars, mainVars, indexVars, queueVars, Next, MainStep,
      AddRoot, RootsDone, AddFunctions, AddSlubObjects, LeavePoll, InterruptThread,
      JoinThread, EndBuild, UserInterrupt

(* No two builders work on a new node for the same address at the same time. *)
THEOREM AddressExclusion == Spec => []AddressExclusive
<1>1. Init => ExclusiveInv
  BY DEF Init, ExclusiveInv, Holding
<1>2. TypeInv /\ ExclusiveInv /\ [Next]_vars => ExclusiveInv'
  BY ExclusiveStep
<1>3. ExclusiveInv => AddressExclusive
  BY DEF ExclusiveInv, AddressExclusive, InAddSection, Holding
<1> QED  BY InitType, TypeStep, <1>1, <1>2, <1>3, PTL DEF Spec

---------------------------------------------------------------------------
(* Each node is processed by one builder. The strengthening follows a new node
   from its creation to the queue: until then only its creator knows it. *)

HasFresh(t) == pc[t] \in {"hash", "enqueue"}

SingleInv ==
  /\ SingleProcessor
  /\ \A t \in Threads : HasFresh(t) =>
       fresh[t] \notin queue /\ \A u \in Threads : node[u] # fresh[t]
  /\ \A t, u \in Threads : t # u /\ HasFresh(t) /\ HasFresh(u) => fresh[t] # fresh[u]

(* Steps other than these neither take a node nor hand one on. *)
LEMMA NodeKept ==
  ASSUME TypeInv, NEW t \in Threads, BuilderStep(t), ~Take(t), ~Create(t), ~Enqueue(t)
  PROVE  /\ queue' = queue
         /\ node'[t] = node[t] \/ node'[t] = NoNode
         /\ HasFresh(t)' => HasFresh(t) /\ fresh'[t] = fresh[t]
BY DEF TypeInv, TypeOK, WorkTypeOK, Goto, workVars, queueVars, HasFresh, AfterAdd,
   BuilderStep, AddStep, Run, Finish, MapPhysical, NodeDone, FollowFunctionPointer, SkipPointer,
   FollowReference, SearchMore, FindExisting, FindNone, DropImprobable, ClaimConflict,
   WaitLock, WaitUnlock, Claim, LockOwn, CreateNothing, Hash, Release, Unlock

(* Every step keeps each node with one holder: the queue, its builder, or
   the builder that created it and has not enqueued it. *)
LEMMA SingleStep ==
  ASSUME TypeInv, SingleInv, [Next]_vars
  PROVE  SingleInv'
<1> USE DEF SingleInv, SingleProcessor
<1>1. CASE BeginBuild
  BY <1>1 DEF BeginBuild, HasFresh
<1>2. CASE AddRoot
  <2>1. queue' \subseteq queue \cup {Len(nodes) + 1}
    BY <1>2 DEF AddRoot
  <2>2. UNCHANGED <<pc, node, fresh>>
    BY <1>2 DEF AddRoot, workVars
  <2>3. \A t \in Threads : node[t] # Len(nodes) + 1 /\ fresh[t] # Len(nodes) + 1
    <3>1. Len(nodes) \in Nat
      BY DEF TypeInv, TypeOK, IndexTypeOK
    <3>2. /\ node \in [Threads -> NodeIds \cup {NoNode}]
          /\ fresh \in [Threads -> NodeIds \cup {NoNode}]
      BY DEF TypeInv, TypeOK, WorkTypeOK
    <3> QED  BY <3>1, <3>2 DEF NodeIds, NoNode
  <2> QED  BY <2>1, <2>2, <2>3 DEF HasFresh
<1>3. CASE StartThread
  BY <1>3 DEF StartThread, HasFresh, workVars, queueVars, TypeInv, TypeOK, WorkTypeOK
<1>4. CASE UNCHANGED <<pc, node, fresh, queue>>
  BY <1>4 DEF HasFresh
<1>5. ASSUME NEW t \in Threads, Take(t) PROVE SingleInv'
  <2>1. BuilderStep(t)
    BY <1>5 DEF BuilderStep
  <2>2. PICK n \in queue : queue' = queue \ {n} /\ node' = [node EXCEPT ![t] = n]
    BY <1>5 DEF Take, TakeLargest
  <2>3. node'[t] = n /\ ~HasFresh(t)'
    BY <1>5, <2>2 DEF Take, Goto, HasFresh, TypeInv, TypeOK, WorkTypeOK
  <2>4. \A u \in Threads : node[u] # n \/ node[u] = NoNode
    BY <2>2
  <2>5. n # NoNode
    BY <2>2 DEF TypeInv, TypeOK, IndexTypeOK, NodeIds, NoNode
  <2> QED  BY <2>1, <2>2, <2>3, <2>4, <2>5, BuilderLocal DEF HasFresh
<1>6. ASSUME NEW t \in Threads, Create(t) PROVE SingleInv'
  <2>1. BuilderStep(t)
    BY <1>6 DEF BuilderStep, AddStep
  <2>2. fresh'[t] = Len(nodes) + 1 /\ node' = node /\ queue' = queue
    BY <1>6 DEF Create, queueVars, TypeInv, TypeOK, WorkTypeOK
  <2>3. /\ Len(nodes) + 1 \notin queue
        /\ \A u \in Threads : node[u] # Len(nodes) + 1 /\ fresh[u] # Len(nodes) + 1
    BY DEF TypeInv, TypeOK, WorkTypeOK, IndexTypeOK, NodeIds, NoNode
  <2> QED  BY <2>1, <2>2, <2>3, BuilderLocal DEF HasFresh
<1>7. ASSUME NEW t \in Threads, Enqueue(t) PROVE SingleInv'
  <2>1. BuilderStep(t)
    BY <1>7 DEF BuilderStep, AddStep
  <2>2. HasFresh(t) /\ ~HasFresh(t)' /\ queue' = queue \cup {fresh[t]} /\ node' = node
    BY <1>7 DEF Enqueue, HasFresh, Goto, workVars, TypeInv, TypeOK, WorkTypeOK
  <2> QED  BY <2>1, <2>2, BuilderLocal DEF HasFresh
<1>8. ASSUME NEW t \in Threads, BuilderStep(t), ~Take(t), ~Create(t), ~Enqueue(t)
      PROVE  SingleInv'
  <2>1. \A u \in Threads : HasFresh(u) => fresh[u] # NoNode
    BY DEF HasFresh, TypeInv, CarriesOK
  <2> QED  BY <1>8, <2>1, BuilderLocal, NodeKept DEF HasFresh
<1> QED
  BY <1>1, <1>2, <1>3, <1>4, <1>5, <1>6, <1>7, <1>8
  DEF vars, mainVars, indexVars, queueVars, workVars, Next, MainStep,
      RootsDone, AddFunctions, AddSlubObjects, LeavePoll, InterruptThread, JoinThread,
      EndBuild, UserInterrupt

(* No two builders process the same node: the node's list of children, which
   has no lock, is changed by one builder only. *)
THEOREM SingleProcessing == Spec => []SingleProcessor
<1>1. Init => SingleInv
  BY DEF Init, SingleInv, SingleProcessor, HasFresh
<1>2. TypeInv /\ SingleInv /\ [Next]_vars => SingleInv'
  BY SingleStep
<1>3. SingleInv => SingleProcessor
  BY DEF SingleInv
<1> QED  BY InitType, TypeStep, <1>1, <1>2, <1>3, PTL DEF Spec

---------------------------------------------------------------------------
(* Builders are deleted from the highest index down, each once it has ended. *)

LifeInv ==
  /\ \E k \in 0 .. N : threads = 0 .. k - 1
  /\ mainPc \in {"roots", "functions", "slub", "fork", "poll", "interrupt"} => threads = Threads
  /\ \A t \in Threads : Running(t) =>
       t \in threads /\ mainPc \in {"fork", "poll", "interrupt", "join"}
  /\ N > 1 /\ mainPc # "idle" => vmemThreadSafe

(* A builder starts running in StartThread only. *)
LEMMA RunningKept ==
  ASSUME TypeInv, NEW t \in Threads, BuilderStep(t)
  PROVE  Running(t)
BY DEF Running, BuilderStep, AddStep, Run, Take, Finish, MapPhysical, NodeDone,
    FollowFunctionPointer, SkipPointer,
   FollowReference, SearchMore, FindExisting, FindNone, DropImprobable, ClaimConflict,
   WaitLock, WaitUnlock, Claim, LockOwn, Create, CreateNothing, Hash, Enqueue,
   Release, Unlock

(* Every step keeps the builders that run alive: JoinThread deletes one that
   has ended, builder 0 last. *)
LEMMA LifeStep ==
  ASSUME TypeInv, LifeInv, [Next]_vars
  PROVE  LifeInv'
<1> USE NAssumption DEF LifeInv, Threads
<1>1. CASE BeginBuild
  <2>1. threads' = 0 .. N - 1 /\ mainPc' = "roots" /\ \A t \in Threads : ~Running(t)'
    BY <1>1 DEF BeginBuild, Running
  <2>2. ASSUME N > 1 PROVE vmemThreadSafe'
    <3>1. vmemThreadSafe' = (N > 1)
      BY <1>1 DEF BeginBuild
    <3> QED  BY <2>2, <3>1, Zenon
  <2> QED  BY <2>1, <2>2
<1>2. CASE StartThread
  <2>1. UNCHANGED <<threads, vmemThreadSafe>> /\ mainPc' \in {"fork", "poll"} /\ mainPc = "fork"
    BY <1>2 DEF StartThread
  <2> QED  BY <1>2, <2>1 DEF StartThread, Running
<1>3. CASE JoinThread
  <2>1. PICK k \in 0 .. N : threads = 0 .. k - 1
    OBVIOUS
  <2>2. k - 1 \in threads /\ \A u \in threads : k - 1 >= u
    BY <1>3, <2>1 DEF JoinThread
  <2>3. NextToDelete = k - 1
    BY <2>1, <2>2 DEF NextToDelete
  <2>4. threads' = 0 .. (k - 1) - 1 /\ k - 1 \in 0 .. N
    BY <1>3, <2>1, <2>2, <2>3 DEF JoinThread
  <2>5. \A t \in Threads : Running(t) => t # k - 1
    BY <1>3, <2>3 DEF JoinThread
  <2>6. UNCHANGED <<mainPc, pc, vmemThreadSafe>> /\ mainPc = "join"
    BY <1>3 DEF JoinThread
  <2>7. \A t \in Threads : Running(t)' => t \in threads'
    BY <1>3, <2>3, <2>5, <2>6 DEF JoinThread, Running
  <2> QED  BY <2>4, <2>6, <2>7 DEF Running
<1>4. CASE EndBuild
  BY <1>4 DEF EndBuild, Running
<1>5. CASE AddRoot \/ RootsDone \/ AddFunctions \/ AddSlubObjects \/ LeavePoll
           \/ InterruptThread \/ UserInterrupt \/ UNCHANGED vars
  BY <1>5 DEF AddRoot, RootsDone, AddFunctions, AddSlubObjects, LeavePoll, InterruptThread,
     UserInterrupt, vars, mainVars, Running
<1>6. ASSUME NEW t \in Threads, BuilderStep(t) PROVE LifeInv'
  <2>1. UNCHANGED <<mainPc, threads, vmemThreadSafe>>
    BY <1>6, BuilderFrame DEF mainVars
  <2>2. \A u \in Threads : Running(u)' => Running(u)
    BY <1>6, BuilderLocal, RunningKept DEF Running
  <2> QED  BY <2>1, <2>2
<1> QED  BY <1>1, <1>2, <1>3, <1>4, <1>5, <1>6 DEF Next, MainStep

(* While a builder runs, it and builder 0 exist, and with several builders the
   VirtualMemory locks its accesses. *)
THEOREM BuildersOutlive == Spec => []BuildersOutlived
<1>1. Init => LifeInv
  <2>1. ASSUME Init PROVE threads = 0 .. 0 - 1
    BY <2>1 DEF Init
  <2> QED  BY <2>1, NAssumption DEF Init, LifeInv, Running, Threads
<1>2. TypeInv /\ LifeInv /\ [Next]_vars => LifeInv'
  BY LifeStep
<1>3. LifeInv => BuildersOutlived
  BY NAssumption DEF LifeInv, BuildersOutlived, Threads
<1> QED  BY InitType, TypeStep, <1>1, <1>2, <1>3, PTL DEF Spec

---------------------------------------------------------------------------
(* From its creation to the queue a node is known to its creator only. *)

Pending == {fresh[t] : t \in {u \in Threads : HasFresh(u)}}
Worth == {n \in NodeIds : ShouldEnqueue(nodes[n])}
Undone == queue \cup Pending

(* What the queue and the map hold of the nodes that are on their way. *)
PlaceInv ==
  /\ queue \subseteq vmemMap
  /\ \A n \in queue : ShouldEnqueue(nodes[n])
  /\ lastNode # NoNode => ShouldEnqueue(nodes[lastNode])
  /\ \A t \in Threads :
       /\ node[t] # NoNode => node[t] \in vmemMap
       /\ HasFresh(t) => nodes[fresh[t]].inst = Target(t)
       /\ pc[t] = "enqueue" => ShouldEnqueue(nodes[fresh[t]]) /\ fresh[t] \in vmemMap
  /\ mainPc = "slub" => buildType = "btSlubCache"
  /\ mainPc = "fork" => buildType = "btChrschn"

(* Each node worth following is counted once it has been taken. *)
CountInv ==
  buildType = "btChrschn" => processed = Cardinality(Worth \ Undone)

(* As long as the queue holds a node some builder will come back to it. *)
Ending == mainPc \in {"interrupt", "join"}

DrainInv ==
  buildType = "btChrschn" =>
    /\ mainPc \in {"roots", "functions"} => \A t \in Threads : pc[t] = "unstarted"
    /\ mainPc = "fork" => \A t \in Threads : t >= mainIdx <=> pc[t] = "unstarted"
    /\ mainPc = "poll" \/ Ending => \A t \in Threads : pc[t] # "unstarted"
    /\ mainPc \in {"roots", "functions", "fork", "poll"} =>
         /\ \A t \in Threads : ~stop[t]
         /\ queue # {} => \E t \in Threads : pc[t] # "finished"
    /\ Ending /\ ~interrupted => queue = {} /\ \A t \in Threads : pc[t] = "finished"

---------------------------------------------------------------------------
(* The references of the nodes that have been taken. *)

Named(r) == {r.orig, r.cand} \ {NoInst}

(* What a builder has found, or done for the instance it is to add. *)
SearchInv ==
  \A t \in Threads :
    /\ pc[t] = "find" =>
         /\ \A n \in hits[t] :
              n \in vmemMap /\ \E i \in Named(Head(todo[t])) : Overlap(nodes[n].inst, i)
         /\ \A k \in DOMAIN reads[t] : reads[t][k] \subseteq Named(Head(todo[t]))
    /\ pc[t] \in {"release", "unlock"} => InMap(Target(t)) \/ CannotBeAdded(Target(t), node[t])

Settled(n, r) ==
  Covered(r, n) \/ (r.kind = "pointer" /\ PointsInto(Addr[r.orig], nodes[n].inst))

(* Builder t has still to see to r: it has not come to it, or is adding for it. *)
ToAdd(t, i) == \E m \in DOMAIN adds[t] : adds[t][m] = i
UnderWay(t, r) ==
  \/ pc[t] = "map"
  \/ pc[t] \in Busy \ {"map"} /\ \E m \in DOMAIN todo[t] : todo[t][m] = r
  \/ /\ pc[t] \in Adding /\ r.kind # "func"
     /\ \A k \in DOMAIN Chosen(r) :
          CannotBeAdded(Chosen(r)[k], node[t]) \/ ToAdd(t, Chosen(r)[k])

CoverInv ==
  buildType = "btChrschn" =>
    \A n \in NodeIds \ Undone : Followed(n) =>
      \A k \in DOMAIN Refs[nodes[n].inst] :
        \/ Settled(n, Refs[nodes[n].inst][k])
        \/ \E t \in Threads : node[t] = n /\ UnderWay(t, Refs[nodes[n].inst][k])

---------------------------------------------------------------------------
(* Who has added an instance, and who still may: a builder that has searched the
   place of the instance and not found it. *)

Made(i) == {n \in NodeIds : nodes[n].inst = i /\ nodes[n].parent # NoNode}
Hashed(i) == \E n \in vmemMap : nodes[n].inst = i
Creating(i) == {t \in Threads : pc[t] = "hash" /\ Target(t) = i}

MayMake(t, i) ==
  \/ pc[t] \in {"add", "own", "wait", "woken", "create"} /\ ToAdd(t, i)
  \/ /\ pc[t] \in {"hash", "enqueue", "release", "unlock"}
     /\ \E m \in DOMAIN adds[t] : m > 1 /\ adds[t][m] = i
  \/ /\ pc[t] = "find" /\ i \in Named(Head(todo[t]))
     /\ \A m \in DOMAIN reads[t] : i \notin reads[t][m]
     /\ \A n \in hits[t] : nodes[n].inst # i
Makers(i) == {t \in Threads : MayMake(t, i)}

(* The instances whose duplicates are bounded for a reason: embeds() finds such a one in
   itself. Those of no size are never added. *)
Known(i) == Size[i] > 0 /\ <<i, i>> \in Encloses

AddsDiffer ==
  \A t \in Threads : pc[t] \in Adding =>
    \A k, m \in DOMAIN adds[t] : k # m /\ Known(adds[t][k]) => adds[t][k] # adds[t][m]

(* Until one of the nodes for an instance is in the map, each has a builder of its
   own that is about to enter it; from then on the makers only get fewer. *)
MadeInv(i) ==
  /\ Size[i] = 0 => Made(i) = {}
  /\ Known(i) =>
       /\ ~Hashed(i) => Made(i) \subseteq {fresh[t] : t \in Creating(i)}
       /\ Cardinality(Made(i)) + Cardinality(Makers(i)) <= N

DuplicatesInv == AddsDiffer /\ \A i \in Insts : MadeInv(i)

---------------------------------------------------------------------------
(* What a step leaves alone. *)

LEMMA InstType ==
  ASSUME TypeInv
  PROVE  \A n \in NodeIds : nodes[n] \in NodeRec /\ nodes[n].inst \in Insts
<1>1. \A n \in NodeIds : nodes[n] \in NodeRec
  BY DEF TypeInv, TypeOK, IndexTypeOK, NodeIds
<1> QED  BY <1>1 DEF NodeRec

(* A builder's step leaves what other builders carry alone. *)
LEMMA OthersKept ==
  ASSUME TypeInv, NEW t \in Threads, BuilderStep(t), NEW u \in Threads, u # t
  PROVE  /\ pc'[u] = pc[u] /\ adds'[u] = adds[u] /\ todo'[u] = todo[u] /\ reads'[u] = reads[u]
         /\ hits'[u] = hits[u] /\ node'[u] = node[u] /\ fresh'[u] = fresh[u]
<1> USE DEF TypeInv, TypeOK, WorkTypeOK, Goto, workVars
<1>1. CASE AddStep(t)
  BY <1>1 DEF AddStep, DropImprobable, ClaimConflict, WaitLock, WaitUnlock, Claim, LockOwn,
     Create, CreateNothing, Hash, Enqueue, Release, Unlock
<1>2. CASE ~AddStep(t)
  BY <1>2 DEF BuilderStep, Run, Take, Finish, MapPhysical, NodeDone, FollowFunctionPointer,
     SkipPointer, FollowReference, SearchMore, FindExisting, FindNone
<1> QED  BY <1>1, <1>2

(* The main thread's steps leave what the builders carry alone. *)
LEMMA BuildersKept ==
  ASSUME TypeInv, [Next]_vars, ~BeginBuild, ~\E t \in Threads : BuilderStep(t)
  PROVE  /\ UNCHANGED <<workVars, lastNode, processed, buildType>>
         /\ StartThread \/ pc' = pc
         /\ AddRoot \/ queue' = queue
         /\ AddRoot \/ AddFunctions \/ AddSlubObjects \/ UNCHANGED <<nodes, vmemMap>>
BY DEF vars, mainVars, indexVars, queueVars, Next, MainStep, AddRoot, RootsDone, AddFunctions,
   AddSlubObjects, StartThread, LeavePoll, InterruptThread, JoinThread, EndBuild, UserInterrupt

(* What the main thread adds: roots and functions, none of them a child. *)
LEMMA AppendKeeps ==
  ASSUME nodes \in Seq(NodeRec), NEW x \in NodeRec, nodes' = Append(nodes, x)
  PROVE  /\ NodeIds' = NodeIds \cup {Len(nodes) + 1} /\ Len(nodes) + 1 \notin NodeIds
         /\ \A n \in NodeIds : nodes'[n] = nodes[n]
         /\ nodes'[Len(nodes) + 1] = x
BY DEF NodeIds

LEMMA UnqueuedKeeps ==
  ASSUME nodes \in Seq(NodeRec), NEW s \in Seq(Insts), AddUnqueued(s)
  PROVE  /\ NodeIds \subseteq NodeIds'
         /\ \A n \in NodeIds : nodes'[n] = nodes[n]
         /\ \A n \in NodeIds' \ NodeIds :
              \E k \in DOMAIN s : n = Len(nodes) + k /\ nodes'[n] = NewNode(s[k], NoNode)
         /\ vmemMap' = vmemMap \cup (NodeIds' \ NodeIds)
<1> DEFINE added == [k \in DOMAIN s |-> NewNode(s[k], NoNode)]
<1>0. \A k \in DOMAIN s : NewNode(s[k], NoNode) \in NodeRec
  BY ConstructorType
<1>1. added \in Seq(NodeRec) /\ Len(added) = Len(s) /\ DOMAIN s = 1 .. Len(s) /\ Len(s) \in Nat
  BY <1>0
<1>2. nodes' = nodes \o added /\ vmemMap' = vmemMap \cup {Len(nodes) + k : k \in DOMAIN s}
  BY DEF AddUnqueued
<1>3. \A k \in DOMAIN s : added[k] = NewNode(s[k], NoNode)
  OBVIOUS
<1> HIDE DEF added
<1>4. Len(nodes') = Len(nodes) + Len(s) /\ Len(nodes) \in Nat
  BY <1>1, <1>2
<1>5. \A n \in 1 .. Len(nodes) : nodes'[n] = nodes[n]
  BY <1>1, <1>2
<1>6. \A k \in 1 .. Len(s) : nodes'[Len(nodes) + k] = added[k]
  BY <1>1, <1>2
<1>7. \A n \in NodeIds' \ NodeIds : \E k \in DOMAIN s : n = Len(nodes) + k
  <2> TAKE n \in NodeIds' \ NodeIds
  <2>1. n \in 1 .. Len(nodes') /\ n \notin 1 .. Len(nodes)
    BY DEF NodeIds
  <2>2. n - Len(nodes) \in DOMAIN s /\ n = Len(nodes) + (n - Len(nodes))
    BY <2>1, <1>1, <1>4
  <2> QED  BY <2>2
<1>8. \A k \in DOMAIN s : Len(nodes) + k \in NodeIds' \ NodeIds
  BY <1>1, <1>4 DEF NodeIds
<1>9. NodeIds \subseteq NodeIds'
  BY <1>1, <1>4 DEF NodeIds
<1>10. \A n \in NodeIds' \ NodeIds :
         \E k \in DOMAIN s : n = Len(nodes) + k /\ nodes'[n] = NewNode(s[k], NoNode)
  BY <1>1, <1>3, <1>6, <1>7
<1>11. vmemMap' = vmemMap \cup (NodeIds' \ NodeIds)
  BY <1>2, <1>7, <1>8
<1> QED  BY <1>5, <1>9, <1>10, <1>11 DEF NodeIds

(* Nodes stay what they are, and in the map, until the next build. *)
LEMMA NodesKept ==
  ASSUME TypeInv, [Next]_vars, ~BeginBuild
  PROVE  /\ \A n \in NodeIds : /\ n \in NodeIds'
                               /\ nodes'[n].inst = nodes[n].inst
                               /\ nodes'[n].parent = nodes[n].parent
                               /\ nodes'[n].prob = nodes[n].prob
         /\ vmemMap \subseteq vmemMap'
<1> USE DEF TypeInv, TypeOK, IndexTypeOK
<1>1. CASE UNCHANGED <<nodes, vmemMap>>
  BY <1>1 DEF NodeIds
<1>2. CASE AddRoot
  <2>1. NewNode(Roots[mainIdx], NoNode) \in NodeRec
    BY <1>2, RootsAssumption, ConstructorType DEF AddRoot, MainTypeOK, CarriesOK
  <2> QED  BY <1>2, <2>1, AppendKeeps DEF AddRoot
<1>3. CASE AddFunctions
  <2>1. AddUnqueued(Functions)
    BY <1>3 DEF AddFunctions
  <2> QED  BY <2>1, UnqueuedKeeps, KindsAssumption
<1>4. CASE AddSlubObjects
  <2>1. AddUnqueued(SlubObjects)
    BY <1>4 DEF AddSlubObjects
  <2> QED  BY <2>1, UnqueuedKeeps, KindsAssumption
<1>5. CASE \E t \in Threads : Create(t)
  <2>1. PICK t \in Threads : Create(t)
    BY <1>5
  <2>2. NewNode(Target(t), node[t]) \in NodeRec
    BY <2>1, NewNodeType DEF Create
  <2>3. nodes' = Append(nodes, NewNode(Target(t), node[t])) /\ vmemMap' = vmemMap
    BY <2>1 DEF Create
  <2> QED  BY <2>2, <2>3, AppendKeeps
<1>6. CASE \E t \in Threads : FindExisting(t)
  <2>1. PICK n : nodes' = [nodes EXCEPT ![n].found = @ + 1] /\ vmemMap' = vmemMap
    BY <1>6 DEF FindExisting
  <2>2. \A m \in NodeIds : nodes[m] \in NodeRec
    BY DEF NodeIds
  <2>3. \A m \in NodeIds : /\ nodes'[m].inst = nodes[m].inst
                            /\ nodes'[m].parent = nodes[m].parent
                            /\ nodes'[m].prob = nodes[m].prob
    BY <2>1, <2>2 DEF NodeIds, NodeRec
  <2> QED  BY <2>1, <2>3, IndexTypeStep
<1>7. CASE \E t \in Threads : Hash(t)
  BY <1>7 DEF Hash, NodeIds
<1>8. ASSUME NEW t \in Threads, BuilderStep(t), ~Create(t), ~FindExisting(t), ~Hash(t)
      PROVE  UNCHANGED <<nodes, vmemMap>>
  BY <1>8 DEF indexVars, BuilderStep, AddStep, Run, Take, Finish, MapPhysical, NodeDone,
     FollowFunctionPointer, SkipPointer, FollowReference, SearchMore, FindNone, DropImprobable,
     ClaimConflict, WaitLock, WaitUnlock, Claim, LockOwn, CreateNothing, Enqueue, Release, Unlock
<1> QED  BY <1>1, <1>2, <1>3, <1>4, <1>5, <1>6, <1>7, <1>8, BuildersKept

(* So does what the map is known to contain. *)
LEMMA InMapKept ==
  ASSUME TypeInv, [Next]_vars, ~BeginBuild, NEW i, InMap(i)
  PROVE  InMap(i)'
BY NodesKept DEF InMap, TypeInv, TypeOK, IndexTypeOK, IsFunction

(* And so does whether an instance is too improbable below a node. *)
LEMMA CannotKept ==
  ASSUME TypeInv, [Next]_vars, ~BeginBuild, NEW n \in NodeIds, NEW i
  PROVE  CannotBeAdded(i, n)' <=> CannotBeAdded(i, n)
BY NodesKept DEF CannotBeAdded, NodeProb

---------------------------------------------------------------------------
(* The nodes on their way. *)

(* A builder has a new node in hand after Create and Hash only. *)
LEMMA NoFresh ==
  ASSUME TypeInv, NEW t \in Threads, BuilderStep(t), ~Create(t), ~Hash(t)
  PROVE  ~HasFresh(t)'
BY DEF TypeInv, TypeOK, WorkTypeOK, Goto, workVars, HasFresh, AfterAdd,
   BuilderStep, AddStep, Run, Take, Finish, MapPhysical, NodeDone, FollowFunctionPointer,
   SkipPointer, FollowReference, SearchMore, FindExisting, FindNone, DropImprobable,
   ClaimConflict, WaitLock, WaitUnlock, Claim, LockOwn, CreateNothing, Enqueue, Release, Unlock

LEMMA LastNodeKept ==
  ASSUME TypeInv, NEW t \in Threads, BuilderStep(t), ~Take(t)
  PROVE  /\ UNCHANGED <<lastNode, processed>>
         /\ node'[t] = node[t] \/ node'[t] = NoNode
BY DEF TypeInv, TypeOK, WorkTypeOK, Goto, workVars, queueVars,
   BuilderStep, AddStep, Run, Finish, MapPhysical, NodeDone, FollowFunctionPointer,
   SkipPointer, FollowReference, SearchMore, FindExisting, FindNone, DropImprobable, Create,
   ClaimConflict, WaitLock, WaitUnlock, Claim, LockOwn, CreateNothing, Hash, Enqueue, Release,
   Unlock

LEMMA PlaceInit == Init => PlaceInv
BY DEF Init, PlaceInv, HasFresh

LEMMA PlaceStep ==
  ASSUME TypeInv, PlaceInv, [Next]_vars
  PROVE  PlaceInv'
<1> USE DEF PlaceInv, ShouldEnqueue
<1>1. CASE BeginBuild
  BY <1>1 DEF BeginBuild, HasFresh
<1>2. CASE ~BeginBuild
  <2>0. /\ queue \subseteq NodeIds /\ lastNode \in NodeIds \cup {NoNode}
        /\ \A t \in Threads : HasFresh(t) => fresh[t] \in NodeIds
        /\ vmemMap \subseteq NodeIds
    BY DEF TypeInv, TypeOK, IndexTypeOK, WorkTypeOK, CarriesOK, HasFresh
  <2>1. CASE ~\E t \in Threads : BuilderStep(t)
    <3>1. UNCHANGED <<node, fresh, adds, lastNode, buildType>>
      BY <1>2, <2>1, BuildersKept DEF workVars
    <3>2. \A t \in Threads : HasFresh(t)' => pc'[t] = pc[t] /\ HasFresh(t)
      BY <1>2, <2>1, BuildersKept DEF StartThread, HasFresh, TypeInv, TypeOK, WorkTypeOK
    <3>3. /\ mainPc' = "slub" => buildType' = "btSlubCache"
          /\ mainPc' = "fork" => buildType' = "btChrschn"
      BY <1>2, <2>1 DEF Next, MainStep, vars, mainVars, AddRoot, RootsDone, AddFunctions,
         AddSlubObjects, StartThread, LeavePoll, InterruptThread, JoinThread, EndBuild,
         UserInterrupt, TypeInv, TypeOK, MainTypeOK
    <3>4. \A t \in Threads :
            /\ node'[t] # NoNode => node'[t] \in vmemMap'
            /\ HasFresh(t)' => nodes'[fresh'[t]].inst = Target(t)'
      BY <1>2, <2>0, <3>1, <3>2, NodesKept DEF Target
    <3>5. \A t \in Threads :
            pc'[t] = "enqueue" => ShouldEnqueue(nodes[fresh[t]])' /\ fresh'[t] \in vmemMap'
      <4>1. \A t \in Threads : pc'[t] = "enqueue" => pc[t] = "enqueue" /\ HasFresh(t)
        BY <3>2 DEF HasFresh
      <4> QED  BY <1>2, <2>0, <3>1, <4>1, NodesKept
    <3>6. lastNode' # NoNode => ShouldEnqueue(nodes[lastNode])'
      BY <1>2, <2>0, <3>1, NodesKept
    <3>7. \A n \in queue : n \in vmemMap' /\ ShouldEnqueue(nodes[n])'
      BY <1>2, <2>0, <3>1, NodesKept
    <3>8. CASE AddRoot
      <4>1. NewNode(Roots[mainIdx], NoNode) \in NodeRec
        BY <3>8, RootsAssumption, ConstructorType
        DEF AddRoot, TypeInv, TypeOK, MainTypeOK, IndexTypeOK, CarriesOK
      <4>2. nodes'[Len(nodes) + 1] = NewNode(Roots[mainIdx], NoNode)
        BY <3>8, <4>1, AppendKeeps DEF AddRoot, TypeInv, TypeOK, IndexTypeOK
      <4>4. \/ queue' = queue
            \/ /\ queue' = queue \cup {Len(nodes) + 1}
               /\ ShouldEnqueue(NewNode(Roots[mainIdx], NoNode))
        BY <3>8 DEF AddRoot
      <4>5. vmemMap' = vmemMap \cup {Len(nodes) + 1}
        BY <3>8 DEF AddRoot
      <4>6. queue' \subseteq vmemMap' /\ \A n \in queue' : ShouldEnqueue(nodes[n])'
        BY <3>1, <3>7, <4>2, <4>4, <4>5
      <4> QED  BY <3>3, <3>4, <3>5, <3>6, <4>6
    <3>9. CASE ~AddRoot
      <4>1. queue' = queue
        BY <1>2, <2>1, <3>9, BuildersKept
      <4> QED  BY <3>3, <3>4, <3>5, <3>6, <3>7, <4>1
    <3> QED  BY <3>8, <3>9
  <2>2. ASSUME NEW t \in Threads, BuilderStep(t) PROVE PlaceInv'
    <3>1. UNCHANGED <<mainPc, buildType>>
      BY <2>2, BuilderFrame DEF mainVars
    <3>2. \A u \in Threads \ {t} :
            pc'[u] = pc[u] /\ adds'[u] = adds[u] /\ node'[u] = node[u] /\ fresh'[u] = fresh[u]
      BY <2>2, OthersKept
    <3>3. \A u \in Threads \ {t} : HasFresh(u)' => HasFresh(u) /\ Target(u)' = Target(u)
      BY <3>2 DEF HasFresh, Target
    <3>4. \A u \in Threads \ {t} :
            /\ node'[u] # NoNode => node'[u] \in vmemMap'
            /\ HasFresh(u)' => nodes'[fresh'[u]].inst = Target(u)'
            /\ pc'[u] = "enqueue" => ShouldEnqueue(nodes[fresh[u]])' /\ fresh'[u] \in vmemMap'
      BY <1>2, <2>0, <3>1, <3>2, <3>3, NodesKept DEF HasFresh, Target
    <3>5. CASE Take(t)
      <4>1. PICK n \in queue : /\ queue' = queue \ {n} /\ lastNode' = n
                               /\ node' = [node EXCEPT ![t] = n]
        BY <3>5 DEF Take, TakeLargest
      <4>2. node'[t] = n /\ ~HasFresh(t)'
        BY <3>5, <4>1 DEF Take, Goto, HasFresh, TypeInv, TypeOK, WorkTypeOK
      <4> QED  BY <1>2, <2>0, <3>1, <3>4, <4>1, <4>2, NodesKept DEF HasFresh
    <3>6. CASE Create(t)
      <4>1. NewNode(Target(t), node[t]) \in NodeRec
        BY <3>6, NewNodeType DEF Create
      <4>2. nodes'[Len(nodes) + 1].inst = Target(t)
        BY <3>6, <4>1, AppendKeeps DEF Create, NewNode, TypeInv, TypeOK, IndexTypeOK
      <4>3. /\ fresh'[t] = Len(nodes) + 1 /\ UNCHANGED <<node, queue, lastNode, adds>>
            /\ pc'[t] = "hash"
        BY <3>6 DEF Create, Goto, queueVars, TypeInv, TypeOK, WorkTypeOK
      <4> QED  BY <1>2, <2>0, <3>1, <3>4, <4>2, <4>3, NodesKept DEF HasFresh, Target
    <3>7. CASE Hash(t)
      <4>1. /\ vmemMap' = vmemMap \cup {fresh[t]} /\ HasFresh(t)
            /\ pc'[t] = IF ShouldEnqueue(nodes[fresh[t]]) THEN "enqueue" ELSE "release"
            /\ UNCHANGED <<nodes, queue, lastNode, node, fresh, adds>>
        BY <3>7 DEF Hash, Goto, HasFresh, queueVars, workVars, TypeInv, TypeOK, WorkTypeOK
      <4> QED  BY <1>2, <2>0, <3>1, <3>4, <4>1, NodesKept DEF HasFresh, Target
    <3>8. CASE Enqueue(t)
      <4>1. /\ queue' = queue \cup {fresh[t]} /\ HasFresh(t) /\ pc[t] = "enqueue"
            /\ UNCHANGED <<nodes, vmemMap, lastNode, node>> /\ ~HasFresh(t)'
        BY <3>8 DEF Enqueue, Goto, HasFresh, indexVars, workVars, TypeInv, TypeOK, WorkTypeOK
      <4> QED  BY <1>2, <2>0, <3>1, <3>4, <4>1, NodesKept DEF HasFresh, Target
    <3>9. CASE ~Take(t) /\ ~Create(t) /\ ~Hash(t) /\ ~Enqueue(t)
      <4>1. /\ queue' = queue /\ lastNode' = lastNode /\ ~HasFresh(t)'
            /\ node'[t] = node[t] \/ node'[t] = NoNode
        BY <2>2, <3>9, NodeKept, NoFresh, LastNodeKept
      <4> QED  BY <1>2, <2>0, <3>1, <3>4, <4>1, NodesKept DEF HasFresh
    <3> QED  BY <3>5, <3>6, <3>7, <3>8, <3>9
  <2> QED  BY <2>1, <2>2
<1> QED  BY <1>1, <1>2

LEMMA FreshBusy ==
  ASSUME NEW t \in Threads, BuilderStep(t), HasFresh(t)
  PROVE  Hash(t) \/ Enqueue(t)
BY DEF HasFresh, BuilderStep, AddStep, Run, Take, Finish, MapPhysical, NodeDone,
   FollowFunctionPointer, SkipPointer, FollowReference, SearchMore, FindExisting, FindNone,
   DropImprobable, ClaimConflict, WaitLock, WaitUnlock, Claim, LockOwn, Create, CreateNothing,
   Release, Unlock

(* Only Create makes nodes. *)
LEMMA HeapKept ==
  ASSUME TypeInv, NEW t \in Threads, BuilderStep(t), ~Create(t)
  PROVE  NodeIds' = NodeIds
<1>1. CASE FindExisting(t)
  BY <1>1 DEF FindExisting, NodeIds, TypeInv, TypeOK, IndexTypeOK
<1>2. CASE ~FindExisting(t)
  <2>1. nodes' = nodes
    BY <1>2 DEF indexVars, BuilderStep, AddStep, Run, Take, Finish, MapPhysical, NodeDone,
       FollowFunctionPointer, SkipPointer, FollowReference, SearchMore, FindNone,
       DropImprobable, ClaimConflict, WaitLock, WaitUnlock, Claim, LockOwn, CreateNothing,
       Hash, Enqueue, Release, Unlock
  <2> QED  BY <2>1 DEF NodeIds
<1> QED  BY <1>1, <1>2

LEMMA WorthFinite ==
  ASSUME TypeInv
  PROVE  IsFiniteSet(Worth \ Undone)
<1>1. IsFiniteSet(NodeIds)
  BY FS_Interval DEF NodeIds, TypeInv, TypeOK, IndexTypeOK
<1> QED  BY <1>1, FS_Subset DEF Worth

---------------------------------------------------------------------------
(* The end of the builders. *)

LEMMA DrainInit == Init => DrainInv
BY DEF Init, DrainInv, Ending

(* A builder is never unstarted when it steps, nor after, and ends in Finish only. *)
LEMMA LabelsKept ==
  ASSUME TypeInv, NEW t \in Threads, BuilderStep(t)
  PROVE  /\ pc'[t] # "unstarted"
         /\ pc'[t] = "finished" => Finish(t)
         /\ stop'[t] => stop[t]
         /\ \A u \in Threads \ {t} : stop'[u] = stop[u]
         /\ queue' \subseteq queue \/ Enqueue(t)
<1> USE DEF TypeInv, TypeOK, WorkTypeOK, Goto
<1>1. CASE Finish(t)
  BY <1>1 DEF Finish, queueVars
<1>2. CASE ~Finish(t)
  <2>1. stop' = stop \/ stop' = [stop EXCEPT ![t] = FALSE]
    BY <1>2 DEF BuilderStep, AddStep, Run, Take, MapPhysical, NodeDone,
       FollowFunctionPointer, SkipPointer, FollowReference, SearchMore, FindExisting, FindNone,
       DropImprobable, ClaimConflict, WaitLock, WaitUnlock, Claim, LockOwn, Create,
       CreateNothing, Hash, Enqueue, Release, Unlock
  <2>2. queue' \subseteq queue \/ Enqueue(t)
    BY <1>2 DEF BuilderStep, AddStep, Run, Take, TakeLargest, MapPhysical, NodeDone, queueVars,
       FollowFunctionPointer, SkipPointer, FollowReference, SearchMore, FindExisting, FindNone,
       DropImprobable, ClaimConflict, WaitLock, WaitUnlock, Claim, LockOwn, Create,
       CreateNothing, Hash, Release, Unlock
  <2>3. pc'[t] # "unstarted" /\ pc'[t] # "finished"
    <3>1. CASE AddStep(t)
      BY <3>1 DEF AfterAdd, AddStep, DropImprobable, ClaimConflict, WaitLock, WaitUnlock, Claim,
         LockOwn, Create, CreateNothing, Hash, Enqueue, Release, Unlock
    <3>2. CASE ~AddStep(t)
      BY <1>2, <3>2 DEF BuilderStep, Run, Take, MapPhysical, NodeDone, FollowFunctionPointer,
         SkipPointer, FollowReference, SearchMore, FindExisting, FindNone
    <3> QED  BY <3>1, <3>2
  <2> QED  BY <2>1, <2>2, <2>3
<1> QED  BY <1>1, <1>2

(* With a node taken that was worth following, a builder that is not stopped ends
   on an empty queue only, and so does the polling loop. *)
LEMMA LastProbable ==
  ASSUME TypeInv, PlaceInv, buildType = "btChrschn", lastNode # NoNode
  PROVE  NodeProb(lastNode) >= MinProb
<1>1. nodes[lastNode] \in NodeRec
  BY InstType DEF TypeInv, TypeOK, IndexTypeOK
<1>2. nodes[lastNode].prob > MinProb
  BY DEF PlaceInv, ShouldEnqueue
<1>3. nodes[lastNode].prob \in Int /\ MinProb \in Int
  BY <1>1, PercentInt DEF NodeRec
<1> QED  BY <1>2, <1>3 DEF NodeProb

(* Every step keeps a builder at work while the queue holds a node. *)
LEMMA DrainStep ==
  ASSUME TypeInv, PlaceInv, DrainInv, [Next]_vars
  PROVE  DrainInv'
<1> USE DEF DrainInv, Ending
<1>0. 0 \in Threads /\ \A t \in Threads : t \in Int
  BY NAssumption DEF Threads
<1>1. CASE BeginBuild
  BY <1>0, <1>1 DEF BeginBuild
<1>2. CASE AddRoot
  BY <1>0, <1>2 DEF AddRoot
<1>3. CASE RootsDone
  BY <1>3 DEF RootsDone, queueVars
<1>4. CASE AddFunctions
  <2>1. mainPc' = "slub" => buildType' # "btChrschn"
    BY <1>4 DEF AddFunctions
  <2>2. \A t \in Threads : t >= 0
    BY DEF Threads
  <2> QED  BY <1>4, <2>1, <2>2 DEF AddFunctions, queueVars
<1>5. CASE AddSlubObjects
  BY <1>5 DEF AddSlubObjects, PlaceInv
<1>6. CASE StartThread
  <2>1. mainIdx \in Threads /\ mainPc = "fork" /\ UNCHANGED <<buildType, queue, stop>>
    BY <1>6 DEF StartThread, TypeInv, CarriesOK, queueVars
  <2>2. \A t \in Threads : pc'[t] = IF t = mainIdx THEN "started" ELSE pc[t]
    BY <1>6 DEF StartThread, TypeInv, TypeOK, WorkTypeOK
  <2>3. CASE mainIdx = N - 1
    <3>1. mainPc' = "poll" /\ \A t \in Threads : t >= mainIdx => t = mainIdx
      BY <1>6, <2>1, <2>3, NAssumption DEF StartThread, Threads
    <3> QED  BY <2>1, <2>2, <3>1
  <2>4. CASE mainIdx # N - 1
    <3>1. mainPc' = "fork" /\ mainIdx' = mainIdx + 1
      BY <1>6, <2>4 DEF StartThread
    <3> QED  BY <1>0, <2>1, <2>2, <3>1
  <2> QED  BY <2>3, <2>4
<1>7. CASE LeavePoll
  <2>1. mainPc = "poll" /\ mainPc' = "interrupt" /\ PollOver
        /\ UNCHANGED <<buildType, interrupted, queue, pc>>
    BY <1>7 DEF LeavePoll, queueVars
  <2>2. ASSUME buildType = "btChrschn", ~interrupted
        PROVE  queue = {} /\ \A t \in Threads : pc[t] = "finished"
    <3>1. ~(lastNode # NoNode /\ NodeProb(lastNode) < MinProb)
      <4>1. lastNode # NoNode => NodeProb(lastNode) \in Int /\ MinProb \in Int
        <5>1. lastNode # NoNode => nodes[lastNode] \in NodeRec
          BY InstType DEF TypeInv, TypeOK, IndexTypeOK
        <5> QED  BY <5>1, PercentInt DEF NodeProb, NodeRec
      <4> QED  BY <2>2, <4>1, LastProbable
    <3>2. \A t \in Threads : pc[t] = "finished"
      BY <2>1, <2>2, <3>1 DEF PollOver, Running
    <3> QED  BY <2>1, <2>2, <3>2
  <2> QED  BY <2>1, <2>2
<1>8. CASE InterruptThread
  BY <1>8 DEF InterruptThread, queueVars
<1>9. CASE JoinThread
  BY <1>9 DEF JoinThread, queueVars
<1>10. CASE EndBuild
  BY <1>10 DEF EndBuild
<1>11. CASE UserInterrupt
  BY <1>11 DEF UserInterrupt, mainVars, queueVars
<1>12. ASSUME NEW t \in Threads, BuilderStep(t) PROVE DrainInv'
  <2>1. UNCHANGED <<mainPc, mainIdx, buildType, interrupted>>
    BY <1>12, BuilderFrame DEF mainVars
  <2>2. pc[t] # "unstarted" /\ pc[t] # "finished"
    BY <1>12, RunningKept DEF Running
  <2>3. \A u \in Threads \ {t} : pc'[u] = pc[u] /\ stop'[u] = stop[u]
    BY <1>12, OthersKept, LabelsKept
  <2>4. pc'[t] # "unstarted" /\ (stop'[t] => stop[t])
    BY <1>12, LabelsKept
  <2>5. ASSUME buildType = "btChrschn", \A u \in Threads : ~stop[u], pc'[t] = "finished"
        PROVE  queue' = {}
    <3>1. Finish(t)
      BY <1>12, <2>5, LabelsKept
    <3>2. ~MayTake(t) /\ queue' = queue
      BY <3>1 DEF Finish, queueVars
    <3> QED  BY <2>5, <3>2, LastProbable DEF MayTake
  <2> QED  BY <2>1, <2>2, <2>3, <2>4, <2>5
<1>13. CASE UNCHANGED vars
  BY <1>13 DEF vars, mainVars, queueVars
<1> QED
  BY <1>1, <1>2, <1>3, <1>4, <1>5, <1>6, <1>7, <1>8, <1>9, <1>10, <1>11, <1>12, <1>13
  DEF Next, MainStep

---------------------------------------------------------------------------
(* The count of the nodes taken. *)

(* The nodes worth following that have been taken are as many as are counted:
   a new node stays out of them until it is taken. *)
LEMMA SeenKept ==
  ASSUME TypeInv, PlaceInv, DrainInv, [Next]_vars, ~BeginBuild, ~\E t \in Threads : Take(t),
         buildType = "btChrschn"
  PROVE  (Worth \ Undone)' = Worth \ Undone /\ UNCHANGED <<processed, buildType>>
<1>0. nodes \in Seq(NodeRec) /\ Len(nodes) \in Nat
  BY DEF TypeInv, TypeOK, IndexTypeOK
<1>1. UNCHANGED <<processed, buildType>>
  BY BuildersKept, BuilderFrame, LastNodeKept DEF mainVars
<1>2. \A n \in NodeIds : n \in NodeIds' /\ nodes'[n].inst = nodes[n].inst
                         /\ nodes'[n].prob = nodes[n].prob
  BY NodesKept
<1>3. \A n \in NodeIds : n \in Worth' <=> n \in Worth
  BY <1>1, <1>2 DEF Worth, ShouldEnqueue
<1>4. CASE ~\E t \in Threads : BuilderStep(t)
  <2>0. fresh' = fresh /\ (StartThread \/ pc' = pc)
    BY <1>4, BuildersKept DEF workVars
  <2>1. \A t \in Threads : HasFresh(t)' <=> HasFresh(t)
    <3>1. ASSUME StartThread
          PROVE  /\ mainIdx \in Threads /\ pc[mainIdx] = "unstarted"
                 /\ pc' = [pc EXCEPT ![mainIdx] = "started"]
      BY <3>1 DEF DrainInv, StartThread, TypeInv, CarriesOK, Threads
    <3> QED  BY <2>0, <3>1 DEF HasFresh, TypeInv, TypeOK, WorkTypeOK
  <2>2. Pending' = Pending
    BY <2>0, <2>1 DEF Pending
  <2>3. CASE AddRoot
    <3>1. NewNode(Roots[mainIdx], NoNode) \in NodeRec
      BY <2>3, RootsAssumption, ConstructorType
      DEF AddRoot, TypeInv, TypeOK, MainTypeOK, IndexTypeOK, CarriesOK
    <3>2. /\ NodeIds' = NodeIds \cup {Len(nodes) + 1} /\ Len(nodes) + 1 \notin NodeIds
          /\ nodes'[Len(nodes) + 1] = NewNode(Roots[mainIdx], NoNode)
      BY <1>0, <2>3, <3>1, AppendKeeps DEF AddRoot
    <3>4. queue' = IF ShouldEnqueue(NewNode(Roots[mainIdx], NoNode))
                   THEN queue \cup {Len(nodes) + 1} ELSE queue
      BY <2>3 DEF AddRoot
    <3>5. Len(nodes) + 1 \in Worth' => Len(nodes) + 1 \in queue'
      BY <1>1, <3>2, <3>4 DEF Worth, ShouldEnqueue
    <3>6. \A n \in NodeIds : n \in queue' <=> n \in queue
      BY <3>2, <3>4
    <3> QED  BY <1>3, <2>2, <3>2, <3>5, <3>6, <1>1 DEF Worth, Undone
  <2>4. CASE AddFunctions
    <3>1. AddUnqueued(Functions)
      BY <2>4 DEF AddFunctions
    <3>2. \A n \in NodeIds' \ NodeIds :
            \E k \in DOMAIN Functions : nodes'[n] = NewNode(Functions[k], NoNode)
      BY <1>0, <3>1, UnqueuedKeeps, KindsAssumption
    <3>3. \A n \in NodeIds' \ NodeIds : nodes'[n].inst \notin Enqueueable
      <4>1. \A k \in DOMAIN Functions : NewNode(Functions[k], NoNode).inst = Functions[k]
        BY DEF NewNode
      <4> QED  BY <3>2, <4>1, FunctionsAssumption
    <3>4. queue' = queue
      BY <2>4 DEF AddFunctions, queueVars
    <3>5. \A n \in NodeIds' \ NodeIds : n \notin Worth'
      BY <3>3 DEF Worth, ShouldEnqueue
    <3> QED  BY <1>1, <1>2, <1>3, <2>2, <3>4, <3>5 DEF Worth, Undone
  <2>5. ~AddSlubObjects
    BY DEF PlaceInv, AddSlubObjects
  <2>6. CASE ~AddRoot /\ ~AddFunctions
    <3>1. UNCHANGED <<nodes, queue>>
      BY <1>4, <2>5, <2>6, BuildersKept
    <3>2. NodeIds' = NodeIds
      BY <3>1 DEF NodeIds
    <3>3. Worth' = Worth
      BY <1>3, <3>2 DEF Worth
    <3> QED  BY <1>1, <2>2, <3>1, <3>3 DEF Undone
  <2> QED  BY <2>3, <2>4, <2>6
<1>5. ASSUME NEW t \in Threads, BuilderStep(t) PROVE (Worth \ Undone)' = Worth \ Undone
  <2>1. \A u \in Threads \ {t} : fresh'[u] = fresh[u] /\ (HasFresh(u)' <=> HasFresh(u))
    BY <1>5, OthersKept DEF HasFresh
  <2>2. ASSUME NodeIds' = NodeIds, Undone' = Undone PROVE (Worth \ Undone)' = Worth \ Undone
    <3>1. Worth' = Worth
      BY <1>3, <2>2 DEF Worth
    <3> QED  BY <2>2, <3>1
  <2>3. CASE Create(t)
    <3>1. NewNode(Target(t), node[t]) \in NodeRec
      BY <2>3, NewNodeType DEF Create
    <3>2. NodeIds' = NodeIds \cup {Len(nodes) + 1} /\ Len(nodes) + 1 \notin NodeIds
      BY <1>0, <2>3, <3>1, AppendKeeps DEF Create
    <3>3. /\ fresh'[t] = Len(nodes) + 1 /\ HasFresh(t)' /\ ~HasFresh(t) /\ queue' = queue
      BY <2>3 DEF Create, Goto, HasFresh, queueVars, TypeInv, TypeOK, WorkTypeOK
    <3>4. Pending' = Pending \cup {Len(nodes) + 1}
      BY <2>1, <3>3 DEF Pending
    <3> QED  BY <1>3, <3>2, <3>3, <3>4 DEF Worth, Undone
  <2>4. CASE Hash(t)
    <3>1. /\ HasFresh(t) /\ fresh' = fresh /\ nodes' = nodes /\ queue' = queue
          /\ HasFresh(t)' <=> ShouldEnqueue(nodes[fresh[t]])
      BY <2>4 DEF Hash, Goto, HasFresh, queueVars, workVars, TypeInv, TypeOK, WorkTypeOK
    <3>2. NodeIds' = NodeIds /\ Worth' = Worth
      BY <1>1, <3>1 DEF NodeIds, Worth, ShouldEnqueue
    <3>3. CASE ShouldEnqueue(nodes[fresh[t]])
      <4>1. Pending' = Pending
        BY <2>1, <3>1, <3>3 DEF Pending
      <4> QED  BY <3>1, <3>2, <4>1 DEF Undone
    <3>4. CASE ~ShouldEnqueue(nodes[fresh[t]])
      <4>1. fresh[t] \notin Worth
        BY <3>1, <3>4 DEF Worth, PlaceInv
      <4>2. Pending' \subseteq Pending /\ Pending \subseteq Pending' \cup {fresh[t]}
        BY <2>1, <3>1, <3>4 DEF Pending
      <4> QED  BY <3>1, <3>2, <4>1, <4>2 DEF Undone
    <3> QED  BY <3>3, <3>4
  <2>5. CASE Enqueue(t)
    <3>1. /\ HasFresh(t) /\ ~HasFresh(t)' /\ fresh' = fresh /\ nodes' = nodes
          /\ queue' = queue \cup {fresh[t]}
      BY <2>5 DEF Enqueue, Goto, HasFresh, indexVars, workVars, TypeInv, TypeOK, WorkTypeOK
    <3>2. Pending' \subseteq Pending /\ Pending = Pending' \cup {fresh[t]}
      BY <2>1, <3>1 DEF Pending
    <3> QED  BY <2>2, <3>1, <3>2 DEF Undone, NodeIds
  <2>6. CASE ~Create(t) /\ ~Hash(t) /\ ~Enqueue(t)
    <3>1. queue' = queue /\ ~HasFresh(t)' /\ ~HasFresh(t)
      BY <1>5, <2>6, NodeKept, NoFresh, FreshBusy
    <3>2. Pending' = Pending
      BY <2>1, <3>1 DEF Pending
    <3>3. NodeIds' = NodeIds
      BY <1>5, <2>6, HeapKept
    <3> QED  BY <2>2, <3>1, <3>2, <3>3 DEF Undone
  <2> QED  BY <2>3, <2>4, <2>5, <2>6
<1> QED  BY <1>1, <1>4, <1>5

LEMMA CountInit == Init => CountInv
BY FS_EmptySet DEF Init, CountInv, Worth, NodeIds

(* Taking a node counts it, and no other step changes the nodes counted. *)
LEMMA CountStep ==
  ASSUME TypeInv, SingleInv, PlaceInv, DrainInv, CountInv, [Next]_vars
  PROVE  CountInv'
<1>1. CASE BeginBuild
  <2>1. nodes' = <<>> /\ processed' = 0
    BY <1>1 DEF BeginBuild
  <2>2. (Worth \ Undone)' = {}
    BY <2>1 DEF Worth, NodeIds
  <2> QED  BY <2>1, <2>2, FS_EmptySet DEF CountInv
<1>2. ASSUME NEW t \in Threads, Take(t), buildType = "btChrschn" PROVE CountInv'
  <2>1. PICK n \in queue : queue' = queue \ {n}
    BY <1>2 DEF Take, TakeLargest
  <2>2. /\ processed' = processed + 1 /\ UNCHANGED <<nodes, buildType, fresh>>
        /\ pc[t] = "loop" /\ pc' = [pc EXCEPT ![t] = "map"]
    BY <1>2 DEF Take, Goto, indexVars, mainVars
  <2>3. \A u \in Threads : HasFresh(u)' <=> HasFresh(u)
    BY <2>2 DEF HasFresh, TypeInv, TypeOK, WorkTypeOK
  <2>4. Pending' = Pending /\ Worth' = Worth /\ n \notin Pending
    BY <2>2, <2>3 DEF Pending, Worth, NodeIds, ShouldEnqueue, SingleInv
  <2>5. n \in Worth
    BY DEF TypeInv, TypeOK, IndexTypeOK, PlaceInv, Worth
  <2>6. (Worth \ Undone)' = (Worth \ Undone) \cup {n} /\ n \notin Worth \ Undone
    BY <2>1, <2>4, <2>5 DEF Undone
  <2>7. IsFiniteSet(Worth \ Undone)
    BY WorthFinite
  <2>8. Cardinality((Worth \ Undone)') = Cardinality(Worth \ Undone) + 1
    BY <2>6, <2>7, FS_AddElement
  <2> QED  BY <1>2, <2>2, <2>8 DEF CountInv
<1>3. CASE ~BeginBuild /\ ~\E t \in Threads : Take(t)
  <2>1. buildType' = buildType
    BY <1>3, BuildersKept, BuilderFrame DEF mainVars
  <2> QED  BY <1>3, <2>1, SeenKept DEF CountInv
<1>4. ASSUME NEW t \in Threads, Take(t), buildType # "btChrschn" PROVE CountInv'
  BY <1>4 DEF Take, mainVars, CountInv
<1> QED  BY <1>1, <1>2, <1>3, <1>4

(* A build that nobody interrupted leaves nothing behind: no builder stopped on
   an empty queue that another one still filled, and each node worth following
   was taken exactly once. *)
THEOREM NothingLost == Spec => []NoWorkLost
<1>1. CountInv /\ DrainInv => NoWorkLost
  <2> SUFFICES ASSUME CountInv, DrainInv, BuildOver PROVE
                 queue = {} /\ processed = Cardinality(Worth)
    BY DEF NoWorkLost, Worth
  <2>1. queue = {} /\ \A t \in Threads : pc[t] = "finished"
    BY DEF DrainInv, Ending, BuildOver
  <2>2. Worth \ Undone = Worth
    BY <2>1 DEF Undone, Pending, HasFresh
  <2> QED  BY <2>1, <2>2 DEF CountInv, BuildOver
<1>2. Init => TypeInv /\ SingleInv /\ PlaceInv /\ DrainInv /\ CountInv
  BY InitType, PlaceInit, DrainInit, CountInit DEF Init, SingleInv, SingleProcessor, HasFresh
<1>3. TypeInv /\ SingleInv /\ PlaceInv /\ DrainInv /\ CountInv /\ [Next]_vars
      => (TypeInv /\ SingleInv /\ PlaceInv /\ DrainInv /\ CountInv)'
  BY TypeStep, SingleStep, PlaceStep, DrainStep, CountStep
<1> QED  BY <1>1, <1>2, <1>3, PTL DEF Spec

---------------------------------------------------------------------------
(* What a builder finds, and what it knows when it is done with an instance. *)

(* existsNode() searches around the original and the candidate only, and addChild()
   adds one of these. *)
LEMMA ReadsNamed ==
  ASSUME NEW r \in Ref, r.kind # "func"
  PROVE  \A k \in DOMAIN Reads(r) : Reads(r)[k] \subseteq Named(r)
<1>1. r.orig \in Insts /\ (r.cand = NoInst \/ r.cand \in Insts) /\ NoInst \notin Insts
  BY InstsAssumption DEF Ref
<1>2. CASE r.cand = NoInst
  <2>1. Reads(r) = <<{r.orig}>>
    BY <1>2 DEF Reads
  <2> QED  BY <1>1, <2>1 DEF Named
<1>3. CASE r.cand # NoInst
  <2>1. Reads(r) = <<{r.orig, r.cand}>> \/ Reads(r) = <<{r.orig}, {r.cand}>>
    BY <1>3 DEF Reads
  <2> QED  BY <1>1, <1>3, <2>1 DEF Named
<1> QED  BY <1>2, <1>3

LEMMA ChosenNamed ==
  ASSUME NEW r \in Ref, r.kind # "func"
  PROVE  \A k \in DOMAIN Chosen(r) : Chosen(r)[k] \in Named(r)
<1>1. r.orig \in Insts /\ NoInst \notin Insts
  BY InstsAssumption DEF Ref
<1>2. \/ Chosen(r) = <<r.orig>>
      \/ r.cand # NoInst /\ (Chosen(r) = <<r.cand>> \/ Chosen(r) = <<r.cand, r.orig>>)
  BY DEF Chosen
<1> QED  BY <1>1, <1>2 DEF Named

LEMMA SearchInit == Init => SearchInv
BY DEF Init, SearchInv

(* The other steps of a builder neither search nor end the work on an instance. *)
LEMMA SearchLabels ==
  ASSUME TypeInv, NEW t \in Threads, BuilderStep(t), ~FollowReference(t), ~SearchMore(t),
         ~Hash(t), ~Enqueue(t), ~CreateNothing(t), ~Release(t)
  PROVE  pc'[t] \notin {"find", "release", "unlock"}
BY DEF TypeInv, TypeOK, WorkTypeOK, Goto, AfterAdd, BuilderStep, AddStep, Run, Take, Finish,
   MapPhysical, NodeDone, FollowFunctionPointer, SkipPointer, FindExisting, FindNone,
   DropImprobable, ClaimConflict, WaitLock, WaitUnlock, Claim, LockOwn, Create, Unlock

(* Every step keeps what a builder has found within the map and about its reference,
   and a builder ends its work on an instance once the map has it, or never can. *)
LEMMA SearchStep ==
  ASSUME TypeInv, PlaceInv, SearchInv, [Next]_vars
  PROVE  SearchInv'
<1>1. CASE BeginBuild
  BY <1>1 DEF BeginBuild, SearchInv
<1> DEFINE Searching(t) ==
      /\ \A n \in hits[t] :
           n \in vmemMap /\ \E i \in Named(Head(todo[t])) : Overlap(nodes[n].inst, i)
      /\ \A k \in DOMAIN reads[t] : reads[t][k] \subseteq Named(Head(todo[t]))
    Done(t) == InMap(Target(t)) \/ CannotBeAdded(Target(t), node[t])
<1>2. ASSUME ~BeginBuild, NEW u \in Threads,
             pc'[u] = pc[u] \/ pc'[u] \notin {"find", "release", "unlock"},
             adds'[u] = adds[u], todo'[u] = todo[u], reads'[u] = reads[u], hits'[u] = hits[u],
             node'[u] = node[u]
      PROVE  /\ pc'[u] = "find" => Searching(u)'
             /\ pc'[u] \in {"release", "unlock"} => Done(u)'
  <2>1. vmemMap \subseteq NodeIds
    BY DEF TypeInv, TypeOK, IndexTypeOK
  <2>2. ASSUME pc'[u] = "find" PROVE Searching(u)'
    BY <1>2, <2>1, <2>2, NodesKept DEF SearchInv, Overlap
  <2>3. ASSUME pc'[u] \in {"release", "unlock"} PROVE Done(u)'
    <3>1. Target(u)' = Target(u)
      BY <1>2 DEF Target
    <3>2. PICK n : n = node[u]
      OBVIOUS
    <3>3. pc[u] \in {"release", "unlock"} /\ n \in NodeIds
      BY <1>2, <2>3, <3>2 DEF TypeInv, TypeOK, WorkTypeOK, CarriesOK, Busy, Adding
    <3>4. InMap(Target(u)) \/ CannotBeAdded(Target(u), n)
      BY <3>2, <3>3 DEF SearchInv
    <3>5. PICK i : i = Target(u)
      OBVIOUS
    <3>6. InMap(i)' \/ CannotBeAdded(i, n)'
      BY <1>2, <3>3, <3>4, <3>5, InMapKept, CannotKept
    <3> QED  BY <1>2, <3>1, <3>2, <3>5, <3>6 DEF CannotBeAdded, InMap
  <2> QED  BY <2>2, <2>3
<1>3. CASE ~BeginBuild /\ ~\E t \in Threads : BuilderStep(t)
  <2>1. UNCHANGED workVars /\ (StartThread \/ pc' = pc)
    BY <1>3, BuildersKept
  <2>2. \A u \in Threads : pc'[u] = pc[u] \/ pc'[u] = "started"
    BY <2>1 DEF StartThread, TypeInv, TypeOK, WorkTypeOK
  <2> QED  BY <1>2, <1>3, <2>1, <2>2 DEF workVars, SearchInv
<1>4. ASSUME NEW t \in Threads, BuilderStep(t), ~BeginBuild PROVE SearchInv'
  <2>1. \A u \in Threads \ {t} : /\ pc'[u] = "find" => Searching(u)'
                                 /\ pc'[u] \in {"release", "unlock"} => Done(u)'
    BY <1>2, <1>4, OthersKept
  <2>2. CASE FollowReference(t)
    <3>1. /\ Head(todo[t]).kind # "func" /\ todo[t] # <<>> /\ todo'[t] = todo[t]
          /\ reads'[t] = Reads(Head(todo[t])) /\ hits'[t] = {} /\ pc'[t] = "find"
      BY <2>2 DEF FollowReference, Goto, TypeInv, TypeOK, WorkTypeOK
    <3>2. Head(todo[t]) \in Ref
      BY <3>1, HeadTail DEF TypeInv, TypeOK, WorkTypeOK
    <3> QED  BY <2>1, <3>1, <3>2, ReadsNamed DEF SearchInv
  <2>3. CASE SearchMore(t)
    <3>1. /\ pc[t] = "find" /\ hits'[t] = Found(t) /\ reads'[t] = Tail(reads[t]) /\ Len(reads[t]) > 1
          /\ UNCHANGED <<pc, todo, nodes, vmemMap>> /\ reads[t] \in Seq(SUBSET Insts)
      BY <2>3 DEF SearchMore, indexVars, TypeInv, TypeOK, WorkTypeOK
    <3>2. /\ Head(reads[t]) = reads[t][1] /\ 1 \in DOMAIN reads[t]
          /\ \A k \in DOMAIN Tail(reads[t]) :
               Tail(reads[t])[k] = reads[t][k + 1] /\ k + 1 \in DOMAIN reads[t]
      BY <3>1
    <3>3. \A n \in Found(t) :
            n \in vmemMap /\ \E i \in Named(Head(todo[t])) : Overlap(nodes[n].inst, i)
      BY <3>1, <3>2 DEF Found, SearchInv
    <3>4. Searching(t)'
      BY <3>1, <3>2, <3>3 DEF SearchInv, Overlap
    <3> QED  BY <2>1, <3>1, <3>4 DEF SearchInv
  <2>4. CASE Hash(t) \/ Enqueue(t)
    <3>1. /\ HasFresh(t) /\ UNCHANGED <<nodes, adds>> /\ fresh[t] \in vmemMap'
          /\ pc'[t] \in {"enqueue", "release"}
      BY <2>4 DEF Hash, Enqueue, HasFresh, Goto, indexVars, workVars, PlaceInv, TypeInv, TypeOK,
         WorkTypeOK
    <3>2. nodes[fresh[t]].inst = Target(t) /\ Target(t)' = Target(t)
      BY <3>1 DEF PlaceInv, Target
    <3>3. InMap(Target(t))'
      BY <3>1, <3>2 DEF InMap
    <3> QED  BY <2>1, <3>1, <3>3 DEF SearchInv
  <2>5. CASE CreateNothing(t)
    <3>1. /\ pc'[t] = "release" /\ adds' = adds
          /\ ~Sane(Target(t)) \/ Target(t) \in TooHigh
      BY <2>5 DEF CreateNothing, Goto, workVars, TypeInv, TypeOK, WorkTypeOK
    <3>2. Target(t) \in Insts /\ Target(t)' = Target(t)
      BY <2>5, <3>1, HeadTail
      DEF CreateNothing, TypeInv, TypeOK, WorkTypeOK, CarriesOK, Adding, Target
    <3>3. CannotBeAdded(Target(t), node[t])'
      BY <3>1, <3>2, AddrAssumption DEF CannotBeAdded, Sane
    <3> QED  BY <2>1, <3>1, <3>3 DEF SearchInv
  <2>6. CASE Release(t)
    <3>1. /\ pc[t] = "release" /\ pc'[t] = "unlock" /\ UNCHANGED <<adds, node, nodes, vmemMap>>
      BY <2>6 DEF Release, Goto, workVars, indexVars, TypeInv, TypeOK, WorkTypeOK
    <3>2. Target(t)' = Target(t) /\ Done(t)
      BY <3>1 DEF Target, SearchInv
    <3>3. Done(t)'
      BY <3>1, <3>2 DEF CannotBeAdded, NodeProb, InMap
    <3> QED  BY <2>1, <3>1, <3>3 DEF SearchInv
  <2>7. CASE /\ ~FollowReference(t) /\ ~SearchMore(t) /\ ~Hash(t) /\ ~Enqueue(t)
             /\ ~CreateNothing(t) /\ ~Release(t)
    BY <1>4, <2>1, <2>7, SearchLabels DEF SearchInv
  <2> QED  BY <2>2, <2>3, <2>4, <2>5, <2>6, <2>7
<1>5. BeginBuild => ~\E t \in Threads : BuilderStep(t)
  BY BuilderFrame DEF BeginBuild, mainVars, TypeInv, TypeOK, MainTypeOK
<1> QED  BY <1>1, <1>3, <1>4, <1>5

---------------------------------------------------------------------------
(* What becomes of a reference. *)

LEMMA SettledKept ==
  ASSUME TypeInv, [Next]_vars, ~BeginBuild, NEW n \in NodeIds, NEW r, Settled(n, r)
  PROVE  Settled(n, r)'
<1>1. nodes'[n].inst = nodes[n].inst
  BY NodesKept
<1>2. CASE r.kind = "pointer" /\ PointsInto(Addr[r.orig], nodes[n].inst)
  BY <1>1, <1>2 DEF Settled, PointsInto, End
<1>3. CASE Covered(r, n)
  BY <1>3, InMapKept, CannotKept DEF Settled, Covered
<1> QED  BY <1>2, <1>3 DEF Settled

(* An existing node that the builder finds contains the original or the candidate. *)
LEMMA ExistingCovers ==
  ASSUME TypeInv, SearchInv, NEW t \in Threads, pc[t] = "find", Len(reads[t]) = 1,
         Existing(Head(todo[t]), Found(t)) # {}, NEW m
  PROVE  Covered(Head(todo[t]), m)
<1> DEFINE r == Head(todo[t])
<1>1. reads[t] \in Seq(SUBSET Insts)
  BY DEF TypeInv, TypeOK, WorkTypeOK
<1>2. Head(reads[t]) = reads[t][1] /\ 1 \in DOMAIN reads[t]
  BY <1>1
<1>3. \A n \in Found(t) : n \in vmemMap /\ \E i \in Named(r) : Overlap(nodes[n].inst, i)
  BY <1>2 DEF Found, SearchInv
<1>4. PICK n \in Existing(r, Found(t)) : TRUE
  OBVIOUS
<1>5. ASSUME NEW i \in Named(r), InMap(i) PROVE Covered(r, m)
  BY <1>5 DEF Named, Covered
<1>6. CASE \E i \in {r.orig, r.cand} : n \in Found(t) /\ <<nodes[n].inst, i>> \in Encloses
  <2>1. PICK i \in {r.orig, r.cand} : n \in Found(t) /\ <<nodes[n].inst, i>> \in Encloses
    BY <1>6
  <2>2. i \in Named(r)
    BY <2>1, EnclosesAssumption, InstsAssumption DEF Named
  <2> QED  BY <1>3, <1>5, <2>1, <2>2 DEF InMap
<1>7. CASE n \in Found(t) /\ IsFunction(nodes[n].inst)
  BY <1>3, <1>5, <1>7 DEF InMap
<1> QED  BY <1>4, <1>6, <1>7 DEF Existing

(* The first and the other elements of a sequence are all of its elements. *)
LEMMA HeadOrTail ==
  ASSUME NEW S, NEW q \in Seq(S), NEW m \in DOMAIN q
  PROVE  q[m] = Head(q) \/ \E k \in DOMAIN Tail(q) : Tail(q)[k] = q[m]
<1>1. Head(q) = q[1] /\ \A k \in 1 .. Len(q) - 1 : k \in DOMAIN Tail(q) /\ Tail(q)[k] = q[k + 1]
  OBVIOUS
<1>2. m \in 1 .. Len(q)
  OBVIOUS
<1>3. CASE m = 1
  BY <1>1, <1>3
<1>4. CASE m # 1
  <2>1. m - 1 \in 1 .. Len(q) - 1 /\ (m - 1) + 1 = m
    BY <1>2, <1>4
  <2> QED  BY <1>1, <2>1
<1> QED  BY <1>3, <1>4

(* A builder keeps the reference under way when it goes on to the next one ... *)
LEMMA TodoStep ==
  ASSUME TypeInv, NEW t \in Threads, NEW r, NEW m \in DOMAIN todo[t], todo[t][m] = r,
         Head(todo[t]) # r, todo'[t] = Tail(todo[t]), pc'[t] \in Busy \ {"map"}
  PROVE  UnderWay(t, r)'
<1>1. todo[t] \in Seq(Ref)
  BY DEF TypeInv, TypeOK, WorkTypeOK
<1>2. \E k \in DOMAIN Tail(todo[t]) : Tail(todo[t])[k] = r
  BY <1>1, HeadOrTail
<1> QED  BY <1>2 DEF UnderWay

(* ... and when it goes on to the next instance, as long as there is one. *)
LEMMA AddsStep ==
  ASSUME TypeInv, [Next]_vars, ~BeginBuild, NEW t \in Threads, pc[t] \in Adding,
         NEW n \in NodeIds, node[t] = n, node'[t] = n, NEW r, r.kind # "func",
         \A k \in DOMAIN Chosen(r) : CannotBeAdded(Chosen(r)[k], n) \/ ToAdd(t, Chosen(r)[k]),
         \A k \in DOMAIN Chosen(r) : Chosen(r)[k] = Target(t) => CannotBeAdded(Target(t), n),
         adds'[t] = Tail(adds[t]), pc'[t] = AfterAdd(t)
  PROVE  Covered(r, n)' \/ UnderWay(t, r)'
<1>1. adds[t] \in Seq(Insts) /\ adds[t] # <<>>
  BY DEF TypeInv, TypeOK, WorkTypeOK, CarriesOK
<1>2. \A k \in DOMAIN Chosen(r) : CannotBeAdded(Chosen(r)[k], n)' \/ ToAdd(t, Chosen(r)[k])'
  <2> SUFFICES ASSUME NEW k \in DOMAIN Chosen(r), ~CannotBeAdded(Chosen(r)[k], n)
               PROVE  ToAdd(t, Chosen(r)[k])'
    BY CannotKept
  <2>0. ToAdd(t, Chosen(r)[k]) /\ Chosen(r)[k] # Target(t)
    OBVIOUS
  <2>1. PICK m \in DOMAIN adds[t] : adds[t][m] = Chosen(r)[k]
    BY <2>0 DEF ToAdd
  <2> QED  BY SMTT(30), <1>1, <2>0, <2>1, HeadOrTail DEF ToAdd, Target
<1>3. CASE Len(adds[t]) = 1
  <2>1. \A k \in DOMAIN Chosen(r) : ~ToAdd(t, Chosen(r)[k])'
    BY <1>1, <1>3 DEF ToAdd
  <2>2. \A k \in DOMAIN Chosen(r) : CannotBeAdded(Chosen(r)[k], n)'
    BY <1>2, <2>1
  <2> QED  BY <2>2 DEF Covered
<1>4. CASE Len(adds[t]) # 1
  <2>1. pc'[t] \in Adding
    BY <1>4 DEF AfterAdd, Adding
  <2> QED  BY <1>2, <2>1 DEF UnderWay
<1> QED  BY <1>3, <1>4

(* A builder's step settles a reference of its node that was under way, or keeps it
   under way. *)
LEMMA UnderWayStep ==
  ASSUME TypeInv, SearchInv, [Next]_vars, NEW t \in Threads, BuilderStep(t),
         NEW n \in NodeIds, node[t] = n, Followed(n),
         NEW k \in DOMAIN Refs[nodes[n].inst], NEW r, r = Refs[nodes[n].inst][k],
         UnderWay(t, r), ~Settled(n, r)
  PROVE  \/ Settled(n, r)'
         \/ node'[t] = n /\ UnderWay(t, r)'
<1>0. nodes[n].inst \in Insts /\ Refs[nodes[n].inst] \in Seq(Ref) /\ r \in Ref
  <2>1. nodes[n].inst \in Insts
    BY InstType
  <2>2. Refs[nodes[n].inst] \in Seq(Ref)
    BY <2>1, RefsAssumption
  <2> QED  BY <2>1, <2>2
<1>1. todo[t] \in Seq(Ref) /\ adds[t] \in Seq(Insts)
  BY DEF TypeInv, TypeOK, WorkTypeOK
<1>11. ~BeginBuild
  BY BuilderFrame DEF BeginBuild, mainVars, TypeInv, TypeOK, MainTypeOK
<1>2. CASE MapPhysical(t)
  <2>1. pc'[t] = "refs" /\ node'[t] = n /\ todo'[t] = Refs[nodes[n].inst]
    <3>1. GoodPages[nodes[n].inst] >= Pages[nodes[n].inst]
      BY DEF Followed
    <3>2. ~(GoodPages[nodes[n].inst] < Pages[nodes[n].inst])
      BY <1>0, <3>1, PagesAssumption
    <3> QED  BY <1>2, <3>2 DEF MapPhysical, Goto, TypeInv, TypeOK, WorkTypeOK
  <2> QED  BY <2>1 DEF UnderWay, Busy, Adding
<1>3. CASE NodeDone(t)
  BY <1>3 DEF NodeDone, UnderWay, Adding
<1>4. CASE FollowFunctionPointer(t) \/ SkipPointer(t)
  <2>1. /\ pc[t] = "refs" /\ pc'[t] = "refs" /\ node'[t] = n /\ todo'[t] = Tail(todo[t])
        /\ \/ Head(todo[t]).kind = "func"
           \/ /\ Head(todo[t]).kind = "pointer"
              /\ PointsInto(Addr[Head(todo[t]).orig], nodes[n].inst)
    BY <1>4 DEF FollowFunctionPointer, SkipPointer, TypeInv, TypeOK, WorkTypeOK
  <2>2. Head(todo[t]) # r
    BY <2>1 DEF Settled, Covered
  <2> QED  BY <2>1, <2>2, TodoStep DEF UnderWay, Busy, Adding
<1>5. CASE FollowReference(t) \/ SearchMore(t)
  <2>1. /\ pc[t] \in {"refs", "find"} /\ pc'[t] = "find" /\ node'[t] = n /\ todo'[t] = todo[t]
    BY <1>5 DEF FollowReference, SearchMore, Goto, TypeInv, TypeOK, WorkTypeOK
  <2> QED  BY <2>1 DEF UnderWay, Busy, Adding
<1>6. CASE FindExisting(t)
  <2>1. /\ pc[t] = "find" /\ pc'[t] = "refs" /\ node'[t] = n /\ todo'[t] = Tail(todo[t])
        /\ Len(reads[t]) = 1 /\ Existing(Head(todo[t]), Found(t)) # {}
    BY <1>6 DEF FindExisting, Goto, TypeInv, TypeOK, WorkTypeOK
  <2>2. Head(todo[t]) # r
    BY <2>1, ExistingCovers DEF Settled
  <2> QED  BY <2>1, <2>2, TodoStep DEF UnderWay, Busy, Adding
<1>7. CASE FindNone(t)
  <2>1. /\ pc[t] = "find" /\ pc'[t] = "add" /\ node'[t] = n /\ todo'[t] = Tail(todo[t])
        /\ adds'[t] = Chosen(Head(todo[t])) /\ Head(todo[t]).kind # "func"
    BY <1>7 DEF FindNone, Goto, TypeInv, TypeOK, WorkTypeOK, CarriesOK
  <2>2. CASE Head(todo[t]) = r
    BY <2>1, <2>2 DEF UnderWay, ToAdd, Adding
  <2>3. CASE Head(todo[t]) # r
    BY <2>1, <2>3, TodoStep DEF UnderWay, Busy, Adding
  <2> QED  BY <2>2, <2>3
<1>8. CASE DropImprobable(t) \/ Unlock(t)
  <2>1. /\ pc[t] \in Adding /\ pc'[t] = AfterAdd(t) /\ node'[t] = n /\ todo'[t] = todo[t]
        /\ adds'[t] = Tail(adds[t])
        /\ InMap(Target(t)) \/ CannotBeAdded(Target(t), n)
    BY <1>8 DEF DropImprobable, Unlock, Goto, Adding, SearchInv, CannotBeAdded, TargetProb,
       TypeInv, TypeOK, WorkTypeOK
  <2>2. pc'[t] \in Busy \ {"map"}
    BY <2>1 DEF AfterAdd, Busy, Adding
  <2>3. CASE \E m \in DOMAIN todo[t] : todo[t][m] = r
    BY <2>1, <2>2, <2>3 DEF UnderWay
  <2>4. CASE ~\E m \in DOMAIN todo[t] : todo[t][m] = r
    <3>1. /\ r.kind # "func"
          /\ \A m \in DOMAIN Chosen(r) : CannotBeAdded(Chosen(r)[m], n) \/ ToAdd(t, Chosen(r)[m])
      BY <2>1, <2>4 DEF UnderWay, Adding
    <3>2. \A m \in DOMAIN Chosen(r) : Chosen(r)[m] = Target(t) => CannotBeAdded(Target(t), n)
      <4>1. \A i \in Named(r) : ~InMap(i)
        BY DEF Named, Settled, Covered
      <4> QED  BY <1>0, <2>1, <3>1, <4>1, ChosenNamed
    <3>3. Covered(r, n)' \/ UnderWay(t, r)'
      BY <1>11, <2>1, <3>1, <3>2, AddsStep
    <3> QED  BY <2>1, <3>3 DEF Settled
  <2> QED  BY <2>3, <2>4
<1>9. CASE /\ AddStep(t) /\ ~DropImprobable(t) /\ ~Unlock(t)
  <2>1. /\ pc[t] \in Adding /\ pc'[t] \in Adding /\ node'[t] = n /\ todo'[t] = todo[t]
        /\ adds'[t] = adds[t]
    BY <1>9 DEF AddStep, Adding, workVars, Goto, ClaimConflict, WaitLock, WaitUnlock, Claim,
       LockOwn, Create, CreateNothing, Hash, Enqueue, Release, TypeInv, TypeOK, WorkTypeOK
  <2>2. pc[t] # "map" /\ pc[t] \in Busy \ {"map"} /\ pc'[t] \in Busy \ {"map"}
    BY <2>1 DEF Busy, Adding
  <2>3. ASSUME NEW i
        PROVE  /\ ToAdd(t, i) => ToAdd(t, i)'
               /\ CannotBeAdded(i, n) => CannotBeAdded(i, n)'
    <3>1. ToAdd(t, i) => ToAdd(t, i)'
      BY <2>1 DEF ToAdd
    <3> QED  BY <1>11, <3>1, CannotKept
  <2>4. \A i : CannotBeAdded(i, node[t]) \/ ToAdd(t, i)
               => CannotBeAdded(i, node[t])' \/ ToAdd(t, i)'
    BY <2>1, <2>3 DEF CannotBeAdded
  <2> QED  BY <2>1, <2>2, <2>4 DEF UnderWay
<1>10. CASE Run(t) \/ Take(t) \/ Finish(t)
  BY <1>10 DEF Run, Take, Finish, UnderWay, Busy, Adding
<1> QED
  BY <1>2, <1>3, <1>4, <1>5, <1>6, <1>7, <1>8, <1>9, <1>10 DEF BuilderStep

LEMMA CoverInit == Init => CoverInv
BY DEF Init, CoverInv, NodeIds

(* Every step keeps the references of the nodes taken settled or under way: a node is
   under way when it is taken, and no other step adds to the nodes taken. *)
LEMMA CoverStep ==
  ASSUME TypeInv, SingleInv, PlaceInv, DrainInv, SearchInv, CoverInv, [Next]_vars
  PROVE  CoverInv'
<1>1. CASE BeginBuild
  BY <1>1 DEF BeginBuild, CoverInv, NodeIds
<1>2. CASE ~BeginBuild
  <2>0. /\ buildType' = buildType
        /\ \A n \in NodeIds : /\ n \in NodeIds' /\ nodes'[n].inst = nodes[n].inst
                              /\ nodes'[n].prob = nodes[n].prob
    BY <1>2, BuildersKept, BuilderFrame, NodesKept DEF mainVars
  <2> SUFFICES ASSUME buildType = "btChrschn", NEW n \in (NodeIds \ Undone)', Followed(n)',
                      NEW k \in DOMAIN Refs[nodes'[n].inst]
               PROVE  \/ Settled(n, Refs[nodes[n].inst][k])'
                      \/ \E t \in Threads : node'[t] = n /\ UnderWay(t, Refs[nodes[n].inst][k])'
    BY <2>0 DEF CoverInv
  <2>1. n \in (Worth \ Undone)'
    BY DEF Followed, Worth
  <2>2. ASSUME n \in Worth \ Undone
        PROVE  \/ Settled(n, Refs[nodes[n].inst][k])'
               \/ \E t \in Threads : node'[t] = n /\ UnderWay(t, Refs[nodes[n].inst][k])'
    <3>1. /\ n \in NodeIds /\ nodes'[n].inst = nodes[n].inst /\ Followed(n)
          /\ k \in DOMAIN Refs[nodes[n].inst]
      BY <2>0, <2>2 DEF Worth, Followed, ShouldEnqueue
    <3>0. PICK r : r = Refs[nodes[n].inst][k]
      OBVIOUS
    <3>2. Settled(n, r) \/ \E t \in Threads : node[t] = n /\ UnderWay(t, r)
      BY <2>2, <3>0, <3>1 DEF CoverInv
    <3>3. Refs[nodes'[n].inst][k] = r
      BY <3>0, <3>1
    <3>4. CASE Settled(n, r)
      <4>1. Settled(n, r)'
        BY <1>2, <3>1, <3>4, SettledKept
      <4> QED  BY <3>3, <4>1
    <3>6. ASSUME NEW u \in Threads, node[u] = n, node'[u] = n, UnderWay(u, r), pc'[u] = pc[u],
                 adds'[u] = adds[u], todo'[u] = todo[u]
          PROVE  UnderWay(u, r)'
      <4>1. \A i : CannotBeAdded(i, n) => CannotBeAdded(i, n)'
        BY <1>2, <3>1, CannotKept
      <4>2. \A i : CannotBeAdded(i, node[u]) \/ ToAdd(u, i)
                   => CannotBeAdded(i, node[u])' \/ ToAdd(u, i)'
        BY <3>6, <4>1 DEF CannotBeAdded, ToAdd
      <4> QED  BY <3>6, <4>2 DEF UnderWay
    <3>5. ASSUME NEW u \in Threads, node[u] = n, UnderWay(u, r), ~Settled(n, r)
          PROVE  Settled(n, r)' \/ \E t \in Threads : node'[t] = n /\ UnderWay(t, r)'
      <4>1. CASE BuilderStep(u)
        BY <3>0, <3>1, <3>5, <4>1, UnderWayStep
      <4>2. CASE /\ ~BuilderStep(u) /\ \E t \in Threads : BuilderStep(t)
        <5>1. PICK t \in Threads : BuilderStep(t) /\ u # t
          BY <4>2
        <5>2. pc'[u] = pc[u] /\ adds'[u] = adds[u] /\ todo'[u] = todo[u] /\ node'[u] = node[u]
          BY <5>1, OthersKept
        <5> QED  BY <3>5, <3>6, <5>2
      <4>3. CASE ~\E t \in Threads : BuilderStep(t)
        <5>1. UNCHANGED <<adds, todo, node>> /\ (StartThread \/ pc' = pc)
          BY <1>2, <4>3, BuildersKept DEF workVars
        <5>2. ASSUME StartThread PROVE pc'[u] = pc[u]
          <6>1. pc[mainIdx] = "unstarted" /\ pc' = [pc EXCEPT ![mainIdx] = "started"]
            BY <2>0, <5>2 DEF StartThread, DrainInv, TypeInv, CarriesOK, Threads
          <6>2. pc[u] # "unstarted"
            BY <3>5 DEF UnderWay, Busy, Adding
          <6> QED  BY <6>1, <6>2 DEF TypeInv, TypeOK, WorkTypeOK
        <5>3. pc'[u] = pc[u]
          BY <5>1, <5>2
        <5> QED  BY <3>5, <3>6, <5>1, <5>3
      <4> QED  BY <4>1, <4>2, <4>3
    <3> QED  BY <3>2, <3>3, <3>4, <3>5
  <2>3. CASE \E t \in Threads : Take(t)
    <3>1. PICK t \in Threads : Take(t)
      BY <2>3
    <3>2. PICK m \in queue : queue' = queue \ {m} /\ node' = [node EXCEPT ![t] = m]
      BY <3>1 DEF Take, TakeLargest
    <3>3. /\ UNCHANGED <<nodes, fresh>> /\ pc[t] = "loop" /\ pc' = [pc EXCEPT ![t] = "map"]
      BY <3>1 DEF Take, Goto, indexVars
    <3>4. \A u \in Threads : HasFresh(u)' <=> HasFresh(u)
      BY <3>3 DEF HasFresh, TypeInv, TypeOK, WorkTypeOK
    <3>5. Pending' = Pending /\ Worth' = Worth
      BY <2>0, <3>3, <3>4 DEF Pending, Worth, NodeIds, ShouldEnqueue
    <3>6. CASE n = m
      BY <3>2, <3>3, <3>6 DEF UnderWay, TypeInv, TypeOK, WorkTypeOK
    <3>7. CASE n # m
      <4>1. n \in Worth \ Undone
        BY <2>1, <3>2, <3>5, <3>7 DEF Undone
      <4> QED  BY <2>2, <4>1
    <3> QED  BY <3>6, <3>7
  <2>4. CASE ~\E t \in Threads : Take(t)
    BY <1>2, <2>1, <2>2, <2>4, SeenKept
  <2> QED  BY <2>3, <2>4
<1> QED  BY <1>1, <1>2

(* After a build that nobody interrupted, whatever a followed node refers to is in the
   map: a node is or encloses what the reference leads to, or each of the instances
   addChild() chose to add is there or could not be. *)
THEOREM ReferencesFollowed == Spec => []ReferencesCovered
<1> DEFINE Inv == /\ TypeInv /\ SingleInv /\ PlaceInv /\ DrainInv /\ SearchInv /\ CoverInv
<1>1. Inv => ReferencesCovered
  <2> SUFFICES ASSUME Inv, BuildOver, NEW n \in vmemMap, Followed(n),
                      NEW k \in DOMAIN Refs[nodes[n].inst]
               PROVE  Settled(n, Refs[nodes[n].inst][k])
    BY DEF ReferencesCovered, Settled
  <2>1. queue = {} /\ \A t \in Threads : pc[t] = "finished"
    BY DEF DrainInv, Ending, BuildOver
  <2>2. n \in NodeIds \ Undone
    BY <2>1 DEF Undone, Pending, HasFresh, TypeInv, TypeOK, IndexTypeOK
  <2>3. \A t \in Threads : ~UnderWay(t, Refs[nodes[n].inst][k])
    BY <2>1 DEF UnderWay, Busy, Adding
  <2> QED  BY <2>2, <2>3 DEF CoverInv, BuildOver
<1>2. Init => Inv
  BY InitType, PlaceInit, DrainInit, SearchInit, CoverInit
  DEF Init, SingleInv, SingleProcessor, HasFresh
<1>3. Inv /\ [Next]_vars => Inv'
  BY TypeStep, SingleStep, PlaceStep, DrainStep, SearchStep, CoverStep
<1> QED  BY <1>1, <1>2, <1>3, PTL DEF Spec

---------------------------------------------------------------------------
(* How often an instance is added. *)

(* addChild() does not add one instance twice for a reference. *)
LEMMA ChosenDiffer ==
  ASSUME NEW r \in Ref, r.kind # "func",
         NEW k \in DOMAIN Chosen(r), NEW m \in DOMAIN Chosen(r), k # m, Known(Chosen(r)[k])
  PROVE  Chosen(r)[k] # Chosen(r)[m]
<1>1. \/ Chosen(r) = <<r.orig>> \/ Chosen(r) = <<r.cand>>
      \/ /\ Chosen(r) = <<r.cand, r.orig>>
         /\ <<r.cand, r.orig>> \notin Encloses
  BY DEF Chosen
<1>2. CASE Chosen(r) = <<r.orig>> \/ Chosen(r) = <<r.cand>>
  BY <1>2
<1>3. CASE /\ Chosen(r) = <<r.cand, r.orig>>
           /\ <<r.cand, r.orig>> \notin Encloses
  BY <1>3 DEF Known
<1> QED  BY <1>1, <1>2, <1>3

(* existsNode() searches around both the original and the candidate. *)
LEMMA ReadsCover ==
  ASSUME NEW r \in Ref, r.kind # "func", NEW i \in Named(r)
  PROVE  \E m \in DOMAIN Reads(r) : i \in Reads(r)[m]
<1>1. \/ i = r.orig /\ r.cand = NoInst
      \/ r.cand # NoInst /\ (i = r.orig \/ i = r.cand)
  BY DEF Named
<1>2. CASE r.cand = NoInst
  <2>1. Reads(r) = <<{r.orig}>>
    BY <1>2 DEF Reads
  <2> QED  BY <1>1, <1>2, <2>1
<1>3. CASE r.cand # NoInst
  <2>1. Reads(r) = <<{r.orig, r.cand}>> \/ Reads(r) = <<{r.orig}, {r.cand}>>
    BY <1>3 DEF Reads
  <2>2. CASE Reads(r) = <<{r.orig, r.cand}>>
    <3>1. i \in Reads(r)[1] /\ 1 \in DOMAIN Reads(r)
      BY <1>1, <2>2
    <3> QED  BY <3>1
  <2>3. CASE Reads(r) = <<{r.orig}, {r.cand}>>
    <3>1. 1 \in DOMAIN Reads(r) /\ 2 \in DOMAIN Reads(r) /\ Reads(r)[1] = {r.orig} /\ Reads(r)[2] = {r.cand}
      BY <2>3
    <3> QED  BY <1>1, <3>1
  <2> QED  BY <2>1, <2>2, <2>3
<1> QED  BY <1>2, <1>3

(* Builders that have each made one node, and others that may make one. *)
LEMMA SharedOut ==
  ASSUME NEW C \in SUBSET Threads, NEW K \in SUBSET Threads, C \cap K = {},
         NEW f, NEW M, M \subseteq {f[t] : t \in C}
  PROVE  Cardinality(M) + Cardinality(K) <= N
<1>1. IsFiniteSet(Threads) /\ Cardinality(Threads) = N
  BY FS_Interval, NAssumption DEF Threads
<1>2. IsFiniteSet(C) /\ IsFiniteSet(K) /\ IsFiniteSet(C \cup K)
  BY <1>1, FS_Subset
<1>3. Cardinality(C \cup K) <= N
  BY <1>1, FS_Subset
<1>4. Cardinality(C \cup K) = Cardinality(C) + Cardinality(K)
  <2>1. Cardinality(C \cup K) = Cardinality(C) + Cardinality(K) - Cardinality(C \cap K)
    BY <1>2, FS_Union
  <2>2. Cardinality(C \cap K) = 0
    BY FS_EmptySet
  <2>3. Cardinality(C) \in Nat /\ Cardinality(K) \in Nat
    BY <1>2, FS_CardinalityType
  <2> QED  BY <2>1, <2>2, <2>3
<1>5. IsFiniteSet({f[t] : t \in C}) /\ Cardinality({f[t] : t \in C}) <= Cardinality(C)
  <2> DEFINE g == [t \in C |-> f[t]]
  <2>1. g \in Surjection(C, {f[t] : t \in C})
    BY DEF Surjection
  <2> QED  BY <1>2, <2>1, FS_Surjection
<1>6. Cardinality(M) <= Cardinality({f[t] : t \in C})
  BY <1>5, FS_Subset
<1>7. IsFiniteSet(M)
  BY <1>5, FS_Subset
<1>8. /\ Cardinality(M) \in Nat /\ Cardinality({f[t] : t \in C}) \in Nat
      /\ Cardinality(C) \in Nat /\ Cardinality(K) \in Nat
  BY <1>2, <1>5, <1>7, FS_CardinalityType
<1> QED  BY <1>3, <1>4, <1>5, <1>6, <1>8, NAssumption

LEMMA DuplicatesInit == Init => DuplicatesInv
<1> SUFFICES ASSUME Init PROVE DuplicatesInv
  OBVIOUS
<1>1. AddsDiffer
  BY DEF Init, AddsDiffer, Adding
<1>2. ASSUME NEW i \in Insts PROVE MadeInv(i)
  <2>1. Made(i) = {} /\ Makers(i) = {}
    BY DEF Init, Made, Makers, MayMake, NodeIds
  <2>2. Cardinality({}) = 0
    BY FS_EmptySet
  <2> QED  BY <2>1, <2>2, NAssumption DEF MadeInv
<1> QED  BY <1>1, <1>2 DEF DuplicatesInv

(* What a builder is to add changes when it begins with a reference and when it is
   done with an instance only. *)
LEMMA AddsKept ==
  ASSUME TypeInv, NEW t \in Threads, BuilderStep(t), ~FindNone(t), ~DropImprobable(t), ~Unlock(t)
  PROVE  adds'[t] = adds[t] /\ (pc'[t] \in Adding => pc[t] \in Adding)
<1> USE DEF TypeInv, TypeOK, WorkTypeOK, Goto, Adding, workVars
<1>1. CASE AddStep(t)
  BY <1>1 DEF AddStep, ClaimConflict, WaitLock, WaitUnlock, Claim, LockOwn, Create,
     CreateNothing, Hash, Enqueue, Release
<1>2. CASE ~AddStep(t)
  BY <1>2 DEF BuilderStep, Run, Take, Finish, MapPhysical, NodeDone, FollowFunctionPointer,
     SkipPointer, FollowReference, SearchMore, FindExisting
<1> QED  BY <1>1, <1>2

LEMMA AddsDifferStep ==
  ASSUME TypeInv, AddsDiffer, [Next]_vars
  PROVE  AddsDiffer'
<1> USE DEF AddsDiffer
<1>1. CASE BeginBuild
  BY <1>1 DEF BeginBuild, Adding
<1>2. CASE ~BeginBuild /\ ~\E t \in Threads : BuilderStep(t)
  <2>1. adds' = adds /\ (StartThread \/ pc' = pc)
    BY <1>2, BuildersKept DEF workVars
  <2>2. \A u \in Threads : pc'[u] = pc[u] \/ pc'[u] = "started"
    BY <2>1 DEF StartThread, TypeInv, TypeOK, WorkTypeOK
  <2> QED  BY <2>1, <2>2 DEF Adding, Known
<1>3. ASSUME NEW t \in Threads, BuilderStep(t) PROVE AddsDiffer'
  <2> DEFINE Differ(q) == \A k, m \in DOMAIN q : k # m /\ Known(q[k]) => q[k] # q[m]
  <2>1. \A u \in Threads \ {t} : pc'[u] \in Adding => Differ(adds'[u])
    BY <1>3, OthersKept DEF Known
  <2>2. CASE FindNone(t)
    <3>1. adds'[t] = Chosen(Head(todo[t])) /\ todo[t] # <<>> /\ Head(todo[t]).kind # "func"
      BY <2>2 DEF FindNone, TypeInv, TypeOK, WorkTypeOK, CarriesOK
    <3>2. Head(todo[t]) \in Ref
      BY <3>1, HeadTail DEF TypeInv, TypeOK, WorkTypeOK
    <3>3. Differ(adds'[t])
      BY <3>1, <3>2, ChosenDiffer
    <3> QED  BY <2>1, <3>3 DEF Known
  <2>3. CASE DropImprobable(t) \/ Unlock(t)
    <3>1. /\ adds'[t] = Tail(adds[t]) /\ adds[t] # <<>> /\ pc[t] \in Adding
          /\ adds[t] \in Seq(Insts)
      BY <2>3 DEF DropImprobable, Unlock, TypeInv, TypeOK, WorkTypeOK, CarriesOK, Adding
    <3>2. \A k \in DOMAIN Tail(adds[t]) :
            k + 1 \in DOMAIN adds[t] /\ Tail(adds[t])[k] = adds[t][k + 1] /\ k \in Int
      BY <3>1
    <3>3. Differ(adds'[t])
      BY <3>1, <3>2
    <3> QED  BY <2>1, <3>3 DEF Known
  <2>4. CASE ~FindNone(t) /\ ~DropImprobable(t) /\ ~Unlock(t)
    <3>1. pc'[t] \in Adding => Differ(adds'[t])
      BY <1>3, <2>4, AddsKept
    <3> QED  BY <2>1, <3>1 DEF Known
  <2> QED  BY <2>2, <2>3, <2>4
<1> QED  BY <1>1, <1>2, <1>3

(* While the map holds a node for the instance, no builder becomes one that may add it:
   whoever completes a search finds that node. Of the steps that enter a node or come
   after one has been created the same holds whatever the map holds. *)
LEMMA MakersKept ==
  ASSUME TypeInv, SearchInv, AddsDiffer, NEW i \in Insts, Known(i), NEW t \in Threads,
         BuilderStep(t), Hashed(i) \/ Hash(t), MayMake(t, i)'
  PROVE  MayMake(t, i) /\ ~(Create(t) /\ Target(t) = i)
<1>1. /\ todo[t] \in Seq(Ref) /\ adds[t] \in Seq(Insts) /\ reads[t] \in Seq(SUBSET Insts)
      /\ hits[t] \subseteq NodeIds /\ Addr[i] \in Nat /\ Size[i] \in Nat
  BY AddrAssumption DEF TypeInv, TypeOK, WorkTypeOK
<1>2. ASSUME Hashed(i), pc[t] = "find", todo[t] # <<>>, Head(todo[t]).kind # "func",
             reads[t] # <<>>, i \in Head(reads[t])
      PROVE  \E n \in Found(t) : nodes[n].inst = i
  <2>1. PICK n \in vmemMap : nodes[n].inst = i
    BY <1>2 DEF Hashed
  <2>2. Overlap(i, i)
    BY <1>1 DEF Overlap, End
  <2> QED  BY <1>2, <2>1, <2>2 DEF Found
<1>3. CASE FollowReference(t)
  <2>1. /\ Head(todo[t]).kind # "func" /\ todo[t] # <<>> /\ todo'[t] = todo[t]
        /\ reads'[t] = Reads(Head(todo[t])) /\ pc'[t] = "find"
    BY <1>3 DEF FollowReference, Goto, TypeInv, TypeOK, WorkTypeOK
  <2>2. Head(todo[t]) \in Ref
    BY <1>1, <2>1, HeadTail
  <2> QED  BY <2>1, <2>2, ReadsCover DEF MayMake
<1>4. CASE SearchMore(t)
  <2>1. /\ pc[t] = "find" /\ hits'[t] = Found(t) /\ reads'[t] = Tail(reads[t])
        /\ Len(reads[t]) > 1 /\ UNCHANGED <<pc, todo, nodes>>
        /\ todo[t] # <<>> /\ Head(todo[t]).kind # "func"
    BY <1>4 DEF SearchMore, indexVars, TypeInv, TypeOK, WorkTypeOK, CarriesOK
  <2>2. /\ i \in Named(Head(todo[t])) /\ \A n \in Found(t) : nodes[n].inst # i
        /\ \A m \in DOMAIN Tail(reads[t]) : i \notin Tail(reads[t])[m]
    BY <1>4, <2>1 DEF MayMake
  <2>3. i \notin Head(reads[t])
    BY <1>1, <1>2, <1>4, <2>1, <2>2 DEF SearchMore, Hash
  <2>4. \A m \in DOMAIN reads[t] : i \notin reads[t][m]
    BY <1>1, <2>2, <2>3, HeadOrTail
  <2>5. \A n \in hits[t] : nodes[n].inst # i
    BY <2>2 DEF Found
  <2> QED  BY <1>4, <2>1, <2>2, <2>4, <2>5 DEF MayMake, Create, SearchMore
<1>5. CASE FindNone(t)
  <2>1. /\ pc[t] = "find" /\ pc'[t] = "add" /\ adds'[t] = Chosen(Head(todo[t]))
        /\ Len(reads[t]) = 1 /\ Existing(Head(todo[t]), Found(t)) = {}
        /\ todo[t] # <<>> /\ Head(todo[t]).kind # "func"
    BY <1>5 DEF FindNone, Goto, TypeInv, TypeOK, WorkTypeOK, CarriesOK
  <2>2. Head(todo[t]) \in Ref
    BY <1>1, <2>1, HeadTail
  <2>3. i \in Named(Head(todo[t]))
    BY <2>1, <2>2, ChosenNamed DEF MayMake, ToAdd
  <2>4. \A n \in Found(t) : nodes[n].inst # i
    <3>1. i \in {Head(todo[t]).orig, Head(todo[t]).cand}
      BY <2>3 DEF Named
    <3> QED  BY <2>1, <3>1 DEF Existing, Known
  <2>5. \A m \in DOMAIN reads[t] : i \notin reads[t][m]
    <3>1. reads[t] # <<>> /\ \A m \in DOMAIN reads[t] : reads[t][m] = Head(reads[t])
      BY <1>1, <2>1
    <3>2. Hashed(i)
      BY <2>1 DEF Hash
    <3> QED  BY <1>2, <2>1, <2>4, <3>1, <3>2
  <2> QED  BY <2>1, <2>3, <2>4, <2>5 DEF MayMake, Found, Create
<1>6. CASE DropImprobable(t) \/ Unlock(t)
  <2>1. /\ adds'[t] = Tail(adds[t]) /\ adds[t] # <<>> /\ pc'[t] \in {"add", "refs"}
        /\ pc[t] \in {"add", "unlock"}
    BY <1>6 DEF DropImprobable, Unlock, Goto, AfterAdd, TypeInv, TypeOK, WorkTypeOK, CarriesOK,
       Adding
  <2>2. PICK m \in DOMAIN Tail(adds[t]) : Tail(adds[t])[m] = i
    BY <2>1 DEF MayMake, ToAdd
  <2>3. m + 1 \in DOMAIN adds[t] /\ adds[t][m + 1] = i /\ m + 1 > 1
    BY <1>1, <2>1, <2>2
  <2> QED  BY <2>1, <2>3 DEF MayMake, ToAdd, Create
<1>7. CASE Create(t)
  <2>1. pc[t] = "create" /\ pc'[t] = "hash" /\ adds'[t] = adds[t]
    BY <1>7 DEF Create, Goto, TypeInv, TypeOK, WorkTypeOK
  <2>2. PICK m \in DOMAIN adds[t] : m > 1 /\ adds[t][m] = i
    BY <2>1 DEF MayMake
  <2>3. Target(t) = adds[t][1] /\ 1 \in DOMAIN adds[t]
    BY <1>1, <2>2 DEF Target
  <2>4. Target(t) # i
    BY <2>1, <2>2, <2>3 DEF AddsDiffer, Adding
  <2> QED  BY <2>1, <2>2, <2>4 DEF MayMake, ToAdd
<1>8. CASE \/ ClaimConflict(t) \/ WaitLock(t) \/ WaitUnlock(t) \/ Claim(t) \/ LockOwn(t)
           \/ CreateNothing(t) \/ Hash(t) \/ Enqueue(t) \/ Release(t)
  <2>1. /\ adds'[t] = adds[t]
        /\ \/ /\ pc[t] \in {"add", "own", "wait", "woken", "create"}
              /\ pc'[t] \in {"add", "own", "wait", "woken", "create", "release"}
           \/ /\ pc[t] \in {"hash", "enqueue", "release", "unlock"}
              /\ pc'[t] \in {"hash", "enqueue", "release", "unlock"}
        /\ ~Create(t)
    BY <1>8 DEF Goto, ClaimConflict, WaitLock, WaitUnlock, Claim, LockOwn, CreateNothing, Hash,
       Enqueue, Release, Create, workVars, TypeInv, TypeOK, WorkTypeOK
  <2> QED  BY <2>1 DEF MayMake, ToAdd
<1>9. CASE \/ Run(t) \/ Take(t) \/ Finish(t) \/ MapPhysical(t) \/ NodeDone(t)
           \/ FollowFunctionPointer(t) \/ SkipPointer(t) \/ FindExisting(t)
  <2>1. pc'[t] \in {"loop", "map", "finished", "refs"}
    BY <1>9 DEF Goto, Run, Take, Finish, MapPhysical, NodeDone, FollowFunctionPointer,
       SkipPointer, FindExisting, TypeInv, TypeOK, WorkTypeOK
  <2> QED  BY <2>1 DEF MayMake
<1> QED  BY <1>3, <1>4, <1>5, <1>6, <1>7, <1>8, <1>9 DEF BuilderStep, AddStep

(* A builder that has made a node for the instance does not make another one. *)
LEMMA CreatingNotMaker ==
  ASSUME TypeInv, AddsDiffer, NEW i \in Insts, Known(i), NEW t \in Creating(i)
  PROVE  ~MayMake(t, i)
<1>1. /\ adds[t] \in Seq(Insts) /\ adds[t] # <<>> /\ pc[t] = "hash" /\ Target(t) = i
      /\ t \in Threads
  BY DEF Creating, TypeInv, TypeOK, WorkTypeOK, CarriesOK, Adding
<1>2. Target(t) = adds[t][1] /\ 1 \in DOMAIN adds[t]
  BY <1>1 DEF Target
<1> QED  BY <1>1, <1>2 DEF AddsDiffer, Adding, MayMake

LEMMA HeadOnce ==
  ASSUME NEW i \in Insts, Known(i), NEW q \in Seq(Insts), q # <<>>, Head(q) = i,
         \A k, m \in DOMAIN q : k # m /\ Known(q[k]) => q[k] # q[m]
  PROVE  ~\E m \in DOMAIN q : m > 1 /\ q[m] = i
<1>1. Head(q) = q[1] /\ 1 \in DOMAIN q
  OBVIOUS
<1> QED  BY <1>1

(* Between builds' beginnings, nodes that are nobody's children are the main thread's. *)
LEMMA MadeByMain ==
  ASSUME TypeInv, PlaceInv, DrainInv, [Next]_vars, ~BeginBuild,
         ~\E t \in Threads : BuilderStep(t), NEW i
  PROVE  /\ Made(i)' = Made(i) /\ Creating(i)' = Creating(i) /\ Makers(i)' = Makers(i)
         /\ fresh' = fresh
<1> USE DEF TypeInv, TypeOK, IndexTypeOK
<1>1. \A n \in NodeIds' \ NodeIds : nodes'[n].parent = NoNode
  <2>1. CASE UNCHANGED nodes
    BY <2>1 DEF NodeIds
  <2>2. CASE AddRoot
    <3>1. NewNode(Roots[mainIdx], NoNode) \in NodeRec
      BY <2>2, RootsAssumption, ConstructorType DEF AddRoot, MainTypeOK, CarriesOK
    <3>2. /\ NodeIds' = NodeIds \cup {Len(nodes) + 1}
          /\ nodes'[Len(nodes) + 1] = NewNode(Roots[mainIdx], NoNode)
      BY <2>2, <3>1, AppendKeeps DEF AddRoot
    <3> QED  BY <3>2 DEF NewNode
  <2>3. CASE AddFunctions \/ AddSlubObjects
    <3>1. PICK s \in Seq(Insts) : AddUnqueued(s)
      BY <2>3, KindsAssumption DEF AddFunctions, AddSlubObjects
    <3>2. \A n \in NodeIds' \ NodeIds : \E k \in DOMAIN s : nodes'[n] = NewNode(s[k], NoNode)
      BY <3>1, UnqueuedKeeps
    <3>3. \A k \in DOMAIN s : NewNode(s[k], NoNode).parent = NoNode
      BY DEF NewNode
    <3> QED  BY <3>2, <3>3
  <2> QED  BY <2>1, <2>2, <2>3, BuildersKept
<1>2. Made(i)' = Made(i)
  BY <1>1, NodesKept DEF Made
<1>3. UNCHANGED workVars
  BY BuildersKept
<1>4. \A t \in Threads : pc'[t] = pc[t] \/ (pc[t] = "unstarted" /\ pc'[t] = "started")
  <2>1. CASE pc' = pc
    BY <2>1
  <2>2. CASE StartThread
    <3>1. pc[mainIdx] = "unstarted" /\ pc' = [pc EXCEPT ![mainIdx] = "started"]
      BY <2>2 DEF StartThread, DrainInv, PlaceInv, CarriesOK, Threads
    <3> QED  BY <3>1 DEF WorkTypeOK
  <2> QED  BY <2>1, <2>2, BuildersKept
<1>5. \A t \in Threads : MayMake(t, i)' <=> MayMake(t, i)
  <2>1. \A t \in Threads : \A n \in hits[t] : nodes'[n].inst = nodes[n].inst
    BY NodesKept DEF WorkTypeOK
  <2> QED  BY <1>3, <1>4, <2>1 DEF workVars, MayMake, ToAdd
<1>6. Creating(i)' = Creating(i)
  BY <1>3, <1>4 DEF workVars, Creating, Target
<1> QED  BY <1>2, <1>3, <1>5, <1>6 DEF workVars, Makers

(* Every step keeps the number of nodes that builders made for an instance and of
   builders that may still make one within the number of builders. *)
LEMMA MadeStep ==
  ASSUME TypeInv, PlaceInv, DrainInv, SearchInv, DuplicatesInv, [Next]_vars, NEW i \in Insts
  PROVE  MadeInv(i)'
<1>0. TypeInv' /\ AddsDiffer' /\ AddsDiffer /\ MadeInv(i)
  BY TypeStep, AddsDifferStep DEF DuplicatesInv
<1>1. CASE BeginBuild
  <2>1. Made(i)' = {} /\ Makers(i)' = {}
    BY <1>1 DEF BeginBuild, Made, Makers, MayMake, NodeIds
  <2>2. Cardinality({}) = 0
    BY FS_EmptySet
  <2> QED  BY <2>1, <2>2, NAssumption DEF MadeInv
<1>2. ASSUME ~BeginBuild, Hashed(i) PROVE Hashed(i)'
  BY <1>2, NodesKept DEF Hashed, TypeInv, TypeOK, IndexTypeOK
<1>3. CASE ~BeginBuild /\ ~\E t \in Threads : BuilderStep(t)
  <2>1. /\ Made(i)' = Made(i) /\ Creating(i)' = Creating(i) /\ Makers(i)' = Makers(i)
        /\ fresh' = fresh
    BY <1>3, MadeByMain
  <2> QED  BY <1>0, <1>2, <1>3, <2>1 DEF MadeInv, Known
<1>4. ASSUME ~BeginBuild, NEW t \in Threads, BuilderStep(t) PROVE MadeInv(i)'
  <2>1. \A u \in Threads \ {t} :
          /\ pc'[u] = pc[u] /\ adds'[u] = adds[u] /\ todo'[u] = todo[u] /\ reads'[u] = reads[u]
          /\ hits'[u] = hits[u] /\ fresh'[u] = fresh[u]
    BY <1>4, OthersKept
  <2>2. \A u \in Threads \ {t} : u \in Creating(i)' <=> u \in Creating(i)
    BY <2>1 DEF Creating, Target
  <2>3. \A u \in Threads \ {t} : u \in Makers(i)' <=> u \in Makers(i)
    <3>1. \A u \in Threads : \A n \in hits[u] : nodes'[n].inst = nodes[n].inst
      BY <1>4, NodesKept DEF TypeInv, TypeOK, WorkTypeOK
    <3>2. \A u \in Threads \ {t} : MayMake(u, i)' <=> MayMake(u, i)
      BY <2>1, <3>1 DEF MayMake, ToAdd
    <3> QED  BY <3>2 DEF Makers
  <2>4. /\ IsFiniteSet(Made(i)) /\ IsFiniteSet(Makers(i))
        /\ Cardinality(Made(i)) \in Nat /\ Cardinality(Makers(i)) \in Nat
    <3>1. IsFiniteSet(NodeIds) /\ IsFiniteSet(Threads)
      BY FS_Interval, NAssumption DEF NodeIds, Threads, TypeInv, TypeOK, IndexTypeOK
    <3>2. IsFiniteSet(Made(i)) /\ IsFiniteSet(Makers(i))
      BY <3>1, FS_Subset DEF Made, Makers
    <3> QED  BY <3>2, FS_CardinalityType
  <2>5. ASSUME Known(i), ~Hashed(i)', Made(i)' \subseteq {fresh'[u] : u \in Creating(i)'}
        PROVE  Cardinality(Made(i)') + Cardinality(Makers(i)') <= N
    <3>1. ASSUME NEW u \in Creating(i)' PROVE u \notin Makers(i)'
      <4>1. /\ adds'[u] \in Seq(Insts) /\ adds'[u] # <<>> /\ Head(adds'[u]) = i
            /\ pc'[u] = "hash" /\ u \in Threads
        BY <1>0, <3>1 DEF Creating, Target, TypeInv, TypeOK, WorkTypeOK, CarriesOK, Adding
      <4>2. \A k, m \in DOMAIN adds'[u] : k # m /\ Known(adds'[u][k]) => adds'[u][k] # adds'[u][m]
        BY <1>0, <4>1 DEF AddsDiffer, Adding, Known
      <4>3. ~\E m \in DOMAIN adds'[u] : m > 1 /\ adds'[u][m] = i
        BY <2>5, <4>1, <4>2, HeadOnce
      <4> QED  BY <4>1, <4>3 DEF Makers, MayMake
    <3>2. Creating(i)' \in SUBSET Threads /\ Makers(i)' \in SUBSET Threads
      BY DEF Creating, Makers
    <3>3. Creating(i)' \cap Makers(i)' = {}
      BY <3>1
    <3> QED  BY <2>5, <3>2, <3>3, SharedOut
  <2>6. CASE Create(t)
    <3>0. NewNode(Target(t), node[t]) \in NodeRec
      BY <2>6, NewNodeType DEF Create
    <3>1. /\ NodeIds' = NodeIds \cup {Len(nodes) + 1} /\ Len(nodes) + 1 \notin NodeIds
          /\ \A n \in NodeIds : nodes'[n] = nodes[n]
          /\ nodes'[Len(nodes) + 1] = NewNode(Target(t), node[t])
      BY <2>6, <3>0, AppendKeeps DEF Create, TypeInv, TypeOK, IndexTypeOK
    <3>2. /\ pc[t] = "create" /\ pc'[t] = "hash" /\ adds'[t] = adds[t]
          /\ fresh'[t] = Len(nodes) + 1 /\ Sane(Target(t)) /\ vmemMap' = vmemMap
      BY <2>6 DEF Create, Goto, TypeInv, TypeOK, WorkTypeOK
    <3>3. node[t] # NoNode /\ node[t] \in vmemMap
      BY <3>2 DEF TypeInv, CarriesOK, PlaceInv, Busy, Adding
    <3>4. t \notin Creating(i) /\ (t \in Creating(i)' <=> Target(t) = i)
      BY <3>2 DEF Creating, Target
    <3>5. Hashed(i)' => Hashed(i)
      BY <3>1, <3>2 DEF Hashed, TypeInv, TypeOK, IndexTypeOK
    <3>6. CASE Target(t) = i
      <4>1. Size[i] # 0
        BY <3>2, <3>3, <3>6, AddrAssumption DEF Sane
      <4>2. /\ nodes'[Len(nodes) + 1].inst = i /\ nodes'[Len(nodes) + 1].parent # NoNode
        BY <3>1, <3>3, <3>6 DEF NewNode
      <4>3. Made(i)' = Made(i) \cup {Len(nodes) + 1} /\ Len(nodes) + 1 \notin Made(i)
        BY <3>1, <4>2 DEF Made
      <4>4. ASSUME Known(i), ~Hashed(i)'
            PROVE  Made(i)' \subseteq {fresh'[u] : u \in Creating(i)'}
        <5>1. Made(i) \subseteq {fresh[u] : u \in Creating(i)}
          BY <1>0, <1>2, <1>4, <4>4 DEF MadeInv
        <5>2. \A u \in Creating(i) : u \in Creating(i)' /\ fresh'[u] = fresh[u]
          BY <2>1, <2>2, <3>4 DEF Creating
        <5> QED  BY <3>2, <3>4, <3>6, <4>3, <5>1, <5>2
      <4>5. ASSUME Known(i), Hashed(i)'
            PROVE  Cardinality(Made(i)') + Cardinality(Makers(i)') <= N
        <5>1. t \in Makers(i)
          <6>1. adds[t] \in Seq(Insts) /\ adds[t] # <<>>
            BY <3>2 DEF TypeInv, TypeOK, WorkTypeOK, CarriesOK, Adding
          <6>2. adds[t][1] = i /\ 1 \in DOMAIN adds[t]
            BY <3>6, <6>1 DEF Target
          <6> QED  BY <3>2, <6>2 DEF Makers, MayMake, ToAdd
        <5>2. t \notin Makers(i)'
          BY <1>0, <1>4, <2>6, <3>5, <3>6, <4>5, MakersKept DEF Makers
        <5>3. Makers(i)' = Makers(i) \ {t}
          BY <2>3, <5>2 DEF Makers
        <5>4. Cardinality(Makers(i)') = Cardinality(Makers(i)) - 1
          BY <2>4, <5>1, <5>3, FS_RemoveElement
        <5>5. Cardinality(Made(i)') = Cardinality(Made(i)) + 1
          BY <2>4, <4>3, FS_AddElement
        <5> QED  BY <1>0, <2>4, <4>5, <5>4, <5>5 DEF MadeInv
      <4> QED  BY <2>5, <4>1, <4>4, <4>5 DEF MadeInv, Known
    <3>7. CASE Target(t) # i
      <4>1. nodes'[Len(nodes) + 1].inst # i
        BY <3>1, <3>7 DEF NewNode
      <4>2. Made(i)' = Made(i)
        BY <3>1, <4>1 DEF Made
      <4>3. Creating(i)' = Creating(i) /\ \A u \in Creating(i) : fresh'[u] = fresh[u]
        BY <2>1, <2>2, <3>4, <3>7 DEF Creating
      <4>4. ASSUME Known(i), Hashed(i) PROVE Makers(i)' \subseteq Makers(i)
        BY <1>0, <1>4, <2>3, <4>4, MakersKept DEF Makers
      <4>5. ASSUME Known(i), Hashed(i)
            PROVE  Cardinality(Made(i)') + Cardinality(Makers(i)') <= N
        BY <1>0, <2>4, <4>2, <4>4, <4>5, FS_Subset, FS_CardinalityType, NAssumption DEF MadeInv
      <4> QED  BY <1>0, <1>2, <1>4, <2>5, <3>5, <4>2, <4>3, <4>5 DEF MadeInv, Known
    <3> QED  BY <3>6, <3>7
  <2>7. CASE ~Create(t)
    <3>1. NodeIds' = NodeIds
      BY <1>4, <2>7, HeapKept
    <3>2. Made(i)' = Made(i)
      BY <1>4, <3>1, NodesKept DEF Made
    <3>3. ASSUME ~Hashed(i)'
          PROVE  Creating(i)' = Creating(i) /\ \A u \in Creating(i) : fresh'[u] = fresh[u]
      <4>1. t \notin Creating(i)'
        <5>1. CASE Hash(t)
          BY <5>1 DEF Hash, Goto, Creating, TypeInv, TypeOK, WorkTypeOK
        <5>2. CASE ~Hash(t)
          BY <1>4, <2>7, <5>2, NoFresh DEF Creating, HasFresh
        <5> QED  BY <5>1, <5>2
      <4>2. t \notin Creating(i)
        <5>1. CASE Hash(t)
          <6>1. HasFresh(t) /\ vmemMap' = vmemMap \cup {fresh[t]} /\ nodes' = nodes
            BY <5>1 DEF Hash, HasFresh
          <6>2. Target(t) # i
            BY <3>3, <6>1 DEF PlaceInv, Hashed
          <6> QED  BY <6>2 DEF Creating
        <5>2. CASE ~Hash(t)
          BY <1>4, <5>2, FreshBusy DEF Creating, HasFresh, Enqueue
        <5> QED  BY <5>1, <5>2
      <4>3. Creating(i)' = Creating(i)
        BY <2>2, <4>1, <4>2 DEF Creating
      <4> QED  BY <2>1, <4>2, <4>3 DEF Creating
    <3>4. ASSUME Known(i), Hashed(i)'
          PROVE  Cardinality(Made(i)') + Cardinality(Makers(i)') <= N
      <4>1. Hashed(i) \/ Hash(t)
        <5>1. CASE ~Hash(t)
          <6>1. vmemMap' = vmemMap
            BY <1>4, <2>7, <5>1 DEF indexVars, BuilderStep, AddStep, Run, Take, Finish,
               MapPhysical, NodeDone, FollowFunctionPointer, SkipPointer, FollowReference,
               SearchMore, FindExisting, FindNone, DropImprobable, ClaimConflict, WaitLock,
               WaitUnlock, Claim, LockOwn, CreateNothing, Enqueue, Release, Unlock
          <6>2. \A n \in vmemMap : nodes'[n].inst = nodes[n].inst
            BY <1>4, NodesKept DEF TypeInv, TypeOK, IndexTypeOK
          <6> QED  BY <3>4, <6>1, <6>2 DEF Hashed
        <5> QED  BY <5>1
      <4>2. Makers(i)' \subseteq Makers(i)
        BY <1>0, <1>4, <2>3, <3>4, <4>1, MakersKept DEF Makers
      <4> QED  BY <1>0, <2>4, <3>2, <3>4, <4>2, FS_Subset, FS_CardinalityType, NAssumption
               DEF MadeInv
    <3> QED  BY <1>0, <1>2, <1>4, <2>5, <3>2, <3>3, <3>4 DEF MadeInv, Known
  <2> QED  BY <2>6, <2>7
<1>5. BeginBuild => ~\E t \in Threads : BuilderStep(t)
  BY BuilderFrame DEF BeginBuild, mainVars, TypeInv, TypeOK, MainTypeOK
<1> QED  BY <1>1, <1>3, <1>4, <1>5

(* An instance that embeds() recognises in itself is added by each builder at most
   once, whatever the builders' interleaving. *)
THEOREM DuplicatesLimited == Spec => []DuplicatesBounded
<1> DEFINE Inv == TypeInv /\ SingleInv /\ PlaceInv /\ DrainInv /\ SearchInv /\ DuplicatesInv
<1>1. Inv => DuplicatesBounded
  <2> SUFFICES ASSUME Inv, NEW i \in Insts, Recognisable(i) PROVE Cardinality(Made(i)) <= N
    BY DEF DuplicatesBounded, Made
  <2>1. MadeInv(i) /\ Size[i] \in Nat
    BY AddrAssumption DEF DuplicatesInv
  <2>2. CASE Size[i] = 0
    BY <2>1, <2>2, FS_EmptySet, NAssumption DEF MadeInv
  <2>3. CASE Size[i] # 0
    <3>1. Cardinality(Made(i)) + Cardinality(Makers(i)) <= N
      BY <2>1, <2>3 DEF MadeInv, Recognisable, Known
    <3>2. IsFiniteSet(NodeIds) /\ IsFiniteSet(Threads)
      BY FS_Interval, NAssumption DEF NodeIds, Threads, TypeInv, TypeOK, IndexTypeOK
    <3>3. IsFiniteSet(Made(i)) /\ IsFiniteSet(Makers(i))
      BY <3>2, FS_Subset DEF Made, Makers
    <3>4. Cardinality(Made(i)) \in Nat /\ Cardinality(Makers(i)) \in Nat
      BY <3>3, FS_CardinalityType
    <3> QED  BY <3>1, <3>4, NAssumption
  <2> QED  BY <2>2, <2>3
<1>2. Init => Inv
  BY InitType, PlaceInit, DrainInit, SearchInit, DuplicatesInit
  DEF Init, SingleInv, SingleProcessor, HasFresh
<1>3. Inv /\ [Next]_vars => Inv'
  BY TypeStep, SingleStep, PlaceStep, DrainStep, SearchStep, AddsDifferStep, MadeStep
  DEF DuplicatesInv
<1> QED  BY <1>1, <1>2, <1>3, PTL DEF Spec
=============================================================================
