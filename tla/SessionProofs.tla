---------------------------- MODULE SessionProofs ----------------------------
(* Theorems about Session for any clients, any commands and any bounds. *)
EXTENDS Session, SequenceTheorems, TLAPS

---------------------------------------------------------------------------
(* Typing needs to know that a line that has been counted stays until it is read,
   and that the semaphore is not reset meanwhile. *)

LineInv ==
  /\ dpc \in {"count", "line"} => client # Nobody /\ up[client] # <<>>
  /\ dpc = "count" => locked
  /\ locked => dpc \in {"count", "loop", "piped", "flush"}

TypeInv == TypeOK /\ LineInv

LEMMA NumberType == /\ crOk \in Number /\ crTooManyConnections \in Number
                    /\ Ack(crOk) \in Answer /\ Ack(crTooManyConnections) \in Answer
                    /\ Unasked \in [asked : Number, answer : Answer]
BY DEF Number, Answer, Ack, Unasked

LEMMA BoundsType == MaxConnects \in Nat /\ MaxTimeouts \in Nat /\ MaxSignals \in Nat
BY BoundsAssumption

(* The head and the tail of what is not empty. *)
LEMMA HeadType ==
  ASSUME NEW S, NEW s \in Seq(S), s # <<>>
  PROVE  Head(s) \in S /\ Tail(s) \in Seq(S)
OBVIOUS

(* What is appended to is not empty. *)
LEMMA AppendType ==
  ASSUME NEW S, NEW s \in Seq(S), NEW x \in S
  PROVE  Append(s, x) \in Seq(S) /\ Append(s, x) # <<>>
<1>1. Append(s, x) \in Seq(S) /\ Len(Append(s, x)) = Len(s) + 1 /\ Len(s) \in Nat
  OBVIOUS
<1>2. Len(<<>>) = 0
  OBVIOUS
<1>3. Append(s, x) # <<>>
  BY <1>1, <1>2
<1> QED  BY <1>1, <1>3

LEMMA InitType == Init => TypeInv
<1> SUFFICES ASSUME Init PROVE TypeInv
  OBVIOUS
<1>1. /\ up \in [Clients -> Seq(Command)] /\ down \in [Clients -> Seq(Answer)]
      /\ ret \in [Clients -> Seq(Answer)] /\ pending \in Seq(Clients)
  BY DEF Init
<1>2. /\ connects \in [Clients -> 0 .. MaxConnects]
      /\ timeouts \in 0 .. MaxTimeouts /\ signals \in 0 .. MaxSignals
  BY BoundsType DEF Init
<1>3. result \in [Clients -> [asked : Number, answer : Answer]]
  BY NumberType DEF Init
<1>4. next \in [Clients -> Nat \ {0}]
  BY DEF Init
<1> QED  BY <1>1, <1>2, <1>3, <1>4, NumberType DEF Init, TypeInv, TypeOK, LineInv

LEMMA ClientType ==
  ASSUME TypeInv, NEW c \in Clients, ClientStep(c)
  PROVE  TypeInv'
<1> USE DEF TypeInv, TypeOK, LineInv, daemonVars, clientVars
<1>1. ASSUME NEW then \in {"connect", "evalConnect"}, Call(c, then) PROVE TypeInv'
  <2>1. connects' \in [Clients -> 0 .. MaxConnects]
    <3>1. connects[c] \in 0 .. MaxConnects /\ connects[c] < MaxConnects
      BY <1>1 DEF Call
    <3>2. connects[c] + 1 \in 0 .. MaxConnects
      <4> HIDE DEF TypeInv
      <4> QED  BY <3>1, BoundsType
    <3>3. connects' = [connects EXCEPT ![c] = connects[c] + 1]
      BY <1>1 DEF Call
    <3> QED  BY <3>2, <3>3
  <2>2. pending' \in Seq(Clients)
    BY <1>1 DEF Call
  <2>3. LineInv'
    BY <1>1 DEF Call
  <2>4. TypeOK'
    BY ZenonT(60), <2>1, <2>2, <1>1 DEF Call
  <2> QED  BY <2>3, <2>4
<1>2. CASE ConnectToDaemon(c)
  BY <1>1, <1>2 DEF ConnectToDaemon
<1>3. CASE Eval(c)
  <2>1. CASE Call(c, "evalConnect")
    BY <1>1, <2>1
  <2>2. CASE /\ cpc[c] = "idle" /\ cpc' = [cpc EXCEPT ![c] = "clear"]
             /\ UNCHANGED <<daemonVars, pending, conn, up, down, ret, next, result, late,
                            connects, timeouts, foreign, reset, signals>>
    BY <2>2
  <2> QED  BY <2>1, <2>2, <1>3 DEF Eval
<1>4. CASE Acknowledged(c)
  <2>1. ret' \in [Clients -> Seq(Answer)]
    BY <1>4 DEF Acknowledged
  <2>2. cpc' \in [Clients -> {"idle", "connect", "evalConnect", "clear", "write", "await",
         "gone"}]
    BY <1>4 DEF Acknowledged
  <2> QED  BY <2>1, <2>2, <1>4 DEF Acknowledged
<1>5. CASE GiveUp(c)
  <2>1. timeouts' \in 0 .. MaxTimeouts
    BY <1>5, BoundsType DEF GiveUp
  <2> QED  BY <2>1, <1>5 DEF GiveUp
<1>6. CASE Clear(c)
  <2>1. ret' \in [Clients -> Seq(Answer)]
    BY <1>6 DEF Clear
  <2> QED  BY <2>1, <1>6 DEF Clear
<1>7. CASE Write(c)
  <2>1. [by |-> c, no |-> next[c]] \in Command
    BY DEF Command
  <2>2. Append(up[c], [by |-> c, no |-> next[c]]) \in Seq(Command)
        /\ Append(up[c], [by |-> c, no |-> next[c]]) # <<>>
    BY <2>1, AppendType
  <2>3. up' \in [Clients -> Seq(Command)] /\ \A d \in Clients : up[d] # <<>> => up'[d] # <<>>
    BY <2>2, <1>7 DEF Write
  <2>4. next' \in [Clients -> Nat \ {0}]
    <3>1. next[c] + 1 \in Nat \ {0} /\ next' = [next EXCEPT ![c] = next[c] + 1]
      BY SMTT(30), <1>7 DEF Write
    <3> QED  BY <3>1
  <2>5. dpc' \in {"count", "line"} => client' # Nobody /\ up'[client'] # <<>>
    <3>1. dpc' = dpc /\ client' = client
      BY <1>7 DEF Write
    <3> QED  BY <2>3, <3>1
  <2> QED  BY <2>3, <2>4, <2>5, <1>7 DEF Write
<1>8. CASE Returned(c)
  <2>1. Head(ret[c]) \in Answer /\ ret' \in [Clients -> Seq(Answer)]
    BY <1>8, HeadType DEF Returned
  <2>2. [by |-> c, no |-> next[c] - 1] \in Number
    <3>1. next[c] - 1 \in Nat
      OBVIOUS
    <3> QED  BY <3>1 DEF Number, Command
  <2>3. result' \in [Clients -> [asked : Number, answer : Answer]]
    BY <2>1, <2>2, <1>8 DEF Returned
  <2> QED  BY <2>1, <2>3, <1>8 DEF Returned
<1>9. CASE Deliver(c)
  <2>1. Head(down[c]) \in Answer /\ Tail(down[c]) \in Seq(Answer)
    BY <1>9, HeadType DEF Deliver
  <2>2. Append(ret[c], Head(down[c])) \in Seq(Answer)
    BY <2>1, AppendType
  <2>3. ret' \in [Clients -> Seq(Answer)] /\ down' \in [Clients -> Seq(Answer)]
    BY <2>1, <2>2, <1>9 DEF Deliver
  <2> QED  BY <2>3, <1>9 DEF Deliver
<1>10. CASE Notice(c)
  BY <1>10 DEF Notice
<1>11. CASE Leave(c)
  <2>1. result' \in [Clients -> [asked : Number, answer : Answer]]
    BY <1>11, NumberType DEF Leave
  <2>2. ret' \in [Clients -> Seq(Answer)] /\ down' \in [Clients -> Seq(Answer)]
    BY <1>11 DEF Leave
  <2> QED  BY <2>1, <2>2, <1>11 DEF Leave
<1> QED  BY <1>2, <1>3, <1>4, <1>5, <1>6, <1>7, <1>8, <1>9, <1>10, <1>11 DEF ClientStep

LEMMA SentType ==
  ASSUME TypeOK, NEW c \in Clients, NEW answer \in Answer
  PROVE  Sent(c, answer) \in [Clients -> Seq(Answer)]
<1>1. down \in [Clients -> Seq(Answer)]
  BY DEF TypeOK
<1>2. Append(down[c], answer) \in Seq(Answer)
  BY <1>1, AppendType
<1> QED  BY <1>1, <1>2 DEF Sent

LEMMA MainType ==
  ASSUME TypeInv, MainStep
  PROVE  TypeInv'
<1> USE DEF TypeInv, TypeOK, LineInv, clientVars, MainRuns
<1>1. CASE EnterLoop
  BY <1>1 DEF EnterLoop
<1>2. CASE HandleNewConnection
  <2>1. Head(pending) \in Clients /\ Tail(pending) \in Seq(Clients)
    BY <1>2 DEF HandleNewConnection
  <2>2. CASE Busy
    <3>1. down' \in [Clients -> Seq(Answer)]
      <4>1. down' = Sent(Head(pending), Ack(crTooManyConnections))
        BY <2>2, <1>2 DEF HandleNewConnection, Refuse
      <4> QED  BY <4>1, <2>1, NumberType, SentType
    <3> QED  BY <2>1, <2>2, <3>1, <1>2 DEF HandleNewConnection, InEvents, Refuse
  <2>3. CASE ~Busy
    <3>1. down' \in [Clients -> Seq(Answer)]
      <4>1. down' = Sent(Head(pending), Ack(crOk))
        BY <2>3, <1>2 DEF HandleNewConnection, Accept
      <4> QED  BY <4>1, <2>1, NumberType, SentType
    <3>2. foreign' \subseteq Clients
      BY <2>1, <2>3, <1>2 DEF HandleNewConnection, Accept
    <3> QED  BY <2>1, <2>3, <3>1, <3>2, <1>2 DEF HandleNewConnection, InEvents, Accept
  <2> QED  BY <2>2, <2>3
<1>3. CASE HandleSockDisconnected
  BY <1>3 DEF HandleSockDisconnected, Busy
<1>4. CASE ResetSem
  BY <1>4 DEF ResetSem
<1>5. CASE HandleSockReadyRead
  BY <1>5 DEF HandleSockReadyRead, Busy
<1>6. CASE CountLine
  <2>1. sem' \in Nat /\ sem' > 0
    BY <1>6 DEF CountLine
  <2> QED  BY <2>1, <1>6 DEF CountLine
<1>7. CASE ReadLine
  <2>1. client \in Clients /\ Head(up[client]) \in Command /\ Tail(up[client]) \in Seq(Command)
    BY <1>7 DEF ReadLine
  <2> QED  BY <2>1, <1>7 DEF ReadLine
<1>8. CASE EndCommand
  BY <1>8 DEF EndCommand, Status, Number
<1>9. CASE LeavePipe
  BY <1>9 DEF LeavePipe
<1>10. CASE NestedLine
  BY <1>10 DEF NestedLine, Busy
<1>11. CASE Reply
  <2>1. StatusTo(running) \in Answer
    BY DEF StatusTo, Answer
  <2>2. down' \in [Clients -> Seq(Answer)]
    BY <2>1, <1>11, SentType DEF Reply, Busy
  <2> QED  BY <2>2, <1>11 DEF Reply
<1>12. CASE Flushed
  BY <1>12 DEF Flushed
<1>13. CASE LeaveLoop
  BY <1>13 DEF LeaveLoop
<1>14. CASE End
  BY <1>14 DEF End, CloseAll
<1> QED  BY <1>1, <1>2, <1>3, <1>4, <1>5, <1>6, <1>7, <1>8, <1>9, <1>10, <1>11, <1>12, <1>13,
            <1>14 DEF MainStep

LEMMA TypeStep == TypeInv /\ [Next]_vars => TypeInv'
<1> SUFFICES ASSUME TypeInv, [Next]_vars PROVE TypeInv'
  OBVIOUS
<1>1. CASE \E c \in Clients : ClientStep(c)
  BY <1>1, ClientType
<1>2. CASE MainStep
  BY <1>2, MainType
<1>3. CASE ShellStep
  <2>1. CASE Run
    BY <2>1, NumberType DEF Run, TypeInv, TypeOK, LineInv, clientVars
  <2>2. CASE ShellExits
    <3>1. quit' \in BOOLEAN
      BY <2>2 DEF ShellExits
    <3> QED  BY <3>1, <2>2 DEF ShellExits, TypeInv, TypeOK, LineInv, clientVars
  <2> QED  BY <2>1, <2>2, <1>3 DEF ShellStep
<1>4. CASE Signal
  <2>1. signals' \in 0 .. MaxSignals
    BY <1>4, BoundsAssumption DEF Signal, TypeInv, TypeOK
  <2>2. CASE locked
    BY <2>1, <2>2, <1>4 DEF Signal, TypeInv, TypeOK, LineInv, clientVars
  <2>3. CASE ~locked
    BY <2>1, <2>3, <1>4 DEF Signal, TypeInv, TypeOK, LineInv, clientVars
  <2> QED  BY <2>2, <2>3
<1>5. CASE HandlerReturns
  BY <1>5 DEF HandlerReturns, TypeInv, TypeOK, LineInv, clientVars
<1>6. CASE UNCHANGED vars
  BY <1>6 DEF vars, daemonVars, clientVars, TypeInv, TypeOK, LineInv
<1> QED  BY <1>1, <1>2, <1>3, <1>4, <1>5, <1>6 DEF Next

(* Every variable keeps its type, and the main thread never waits for the
   semaphore that it counts the lines with. *)
THEOREM TypeCorrect == Spec => []TypeOK
<1>1. TypeInv => TypeOK
  BY DEF TypeInv
<1> QED  BY InitType, TypeStep, <1>1, PTL DEF Spec

---------------------------------------------------------------------------
(* The daemon serves one client: a connection that waits is neither open nor there
   twice, so that accepting or refusing it does not touch another one. *)

PendingInv ==
  /\ \A i \in 1 .. Len(pending) : conn[pending[i]] = "pending"
  /\ \A i, j \in 1 .. Len(pending) : pending[i] = pending[j] => i = j

SessionInv == OneSession /\ PendingInv

(* A client that begins a connection, or notices the end of one, has none waiting. *)
LEMMA ClientSession ==
  ASSUME TypeInv, SessionInv, NEW c \in Clients, ClientStep(c)
  PROVE  SessionInv'
<1> USE DEF SessionInv, OneSession, PendingInv
<1> /\ pending \in Seq(Clients) /\ conn \in [Clients -> {"none", "pending", "open", "closed"}]
  BY DEF TypeInv, TypeOK
<1>1. ASSUME NEW then, Call(c, then) PROVE SessionInv'
  <2>1. /\ pending' = Append(pending, c) /\ conn[c] = "none" /\ client' = client
        /\ conn' = [conn EXCEPT ![c] = "pending"]
    BY <1>1 DEF Call, Connected, daemonVars
  <2>2. /\ Len(pending') = Len(pending) + 1 /\ pending'[Len(pending) + 1] = c
        /\ \A i \in 1 .. Len(pending) : pending'[i] = pending[i] /\ pending[i] \in Clients
    BY <2>1
  <2>3. \A i \in 1 .. Len(pending) : pending[i] # c
    BY <2>1
  <2>4. \A d \in Clients : conn'[d] = "open" <=> client' = d
    BY <2>1
  <2>5. Len(pending) \in Nat
    OBVIOUS
  <2>6. \A i \in 1 .. Len(pending') : i \in 1 .. Len(pending) \/ i = Len(pending) + 1
    BY <2>2, <2>5
  <2>7. \A i \in 1 .. Len(pending') : conn'[pending'[i]] = "pending"
    BY <2>1, <2>2, <2>3, <2>6
  <2>8. \A i, j \in 1 .. Len(pending') : pending'[i] = pending'[j] => i = j
    BY <2>2, <2>3, <2>6
  <2> QED  BY <2>4, <2>7, <2>8
<1>2. CASE Notice(c)
  BY <1>2 DEF Notice, daemonVars
<1>3. CASE UNCHANGED <<client, pending, conn>>
  BY <1>3
<1> QED  BY <1>1, <1>2, <1>3 DEF ClientStep, ConnectToDaemon, Eval, Acknowledged, GiveUp, Clear,
            Write, Returned, Deliver, Leave, daemonVars

LEMMA MainSession ==
  ASSUME TypeInv, SessionInv, MainStep
  PROVE  SessionInv'
<1> USE DEF SessionInv, OneSession, PendingInv
<1> /\ pending \in Seq(Clients) /\ conn \in [Clients -> {"none", "pending", "open", "closed"}]
    /\ client \in Clients \cup {Nobody}
  BY DEF TypeInv, TypeOK
<1>1. CASE HandleNewConnection
  <2> DEFINE c == Head(pending)
  <2>1. pending # <<>> /\ pending' = Tail(pending)
    BY <1>1 DEF HandleNewConnection
  <2>2. /\ Len(pending) \in Nat \ {0} /\ c = pending[1] /\ c \in Clients
        /\ Len(pending') = Len(pending) - 1
        /\ \A i \in 1 .. Len(pending') : pending'[i] = pending[i + 1] /\ pending'[i] \in Clients
    BY <2>1
  <2>3. \A i \in 1 .. Len(pending') : i + 1 \in 1 .. Len(pending) /\ i + 1 # 1
    BY <2>2
  <2>4. conn[c] = "pending" /\ \A i \in 1 .. Len(pending') : pending'[i] # c
    BY <2>2, <2>3
  <2>5. \A i, j \in 1 .. Len(pending') : pending'[i] = pending'[j] => i = j
    BY <2>2, <2>3
  <2>6. \A d \in Clients : d # c => conn'[d] = conn[d]
    BY <2>2, <1>1 DEF HandleNewConnection, Accept, Refuse
  <2>7. \A i \in 1 .. Len(pending') : conn'[pending'[i]] = "pending"
    BY <2>2, <2>3, <2>4, <2>6
  <2>8. \A d \in Clients : conn'[d] = "open" <=> client' = d
    <3>1. CASE Busy
      <4>1. client' = client /\ conn' = [conn EXCEPT ![c] = "closed"]
        BY <3>1, <1>1 DEF HandleNewConnection, Refuse
      <4> QED  BY <4>1, <2>2, <2>4
    <3>2. CASE ~Busy
      <4>1. client' = c /\ conn' = [conn EXCEPT ![c] = "open"] /\ client = Nobody
        BY <3>2, <1>1 DEF HandleNewConnection, Accept, Busy
      <4> QED  BY <4>1, <2>2, <2>4, ClientsAssumption
    <3> QED  BY <3>1, <3>2
  <2> QED  BY <2>5, <2>7, <2>8
<1>2. CASE HandleSockDisconnected
  <2>1. /\ client \in Clients /\ conn' = [conn EXCEPT ![client] = "none"] /\ client' = Nobody
        /\ pending' = pending
    BY <1>2 DEF HandleSockDisconnected, Busy
  <2>2. \A i \in 1 .. Len(pending) : pending[i] \in Clients /\ pending[i] # client
    BY <2>1
  <2> QED  BY <2>1, <2>2, ClientsAssumption
<1>3. CASE End
  BY <1>3, ClientsAssumption DEF End, CloseAll
<1>4. CASE UNCHANGED <<client, pending, conn>>
  BY <1>4
<1> QED  BY <1>1, <1>2, <1>3, <1>4 DEF MainStep, EnterLoop, ResetSem, HandleSockReadyRead,
            CountLine,
            ReadLine, EndCommand, LeavePipe, NestedLine, Reply, Flushed, LeaveLoop

LEMMA SessionStep == TypeInv /\ SessionInv /\ [Next]_vars => SessionInv'
<1> SUFFICES ASSUME TypeInv, SessionInv, [Next]_vars PROVE SessionInv'
  OBVIOUS
<1>1. CASE \E c \in Clients : ClientStep(c)
  BY <1>1, ClientSession
<1>2. CASE MainStep
  BY <1>2, MainSession
<1>3. CASE UNCHANGED <<client, pending, conn>>
  BY <1>3 DEF SessionInv, OneSession, PendingInv
<1> QED  BY <1>1, <1>2, <1>3 DEF Next, ShellStep, Run, ShellExits, Signal, HandlerReturns, vars,
            daemonVars

LEMMA SessionInit == Init => SessionInv
BY ClientsAssumption DEF Init, SessionInv, OneSession, PendingInv

(* The connections that the daemon has accepted and not closed are the one that
   _clSocket is: a second client is refused whatever the first one, the event loop
   and a nested one do meanwhile. *)
THEOREM OneAtATime == Spec => []OneSession
<1>1. SessionInv => OneSession
  BY DEF SessionInv
<1> QED  BY InitType, TypeStep, SessionInit, SessionStep, <1>1, PTL DEF Spec

---------------------------------------------------------------------------
(* An eval() gets its own answer. The invariant follows the command of a client
   that has been told of its connection from the line to the number: at any time
   it is in one place, and while it is nowhere nothing of the client is. *)

Asked(c) == [by |-> c, no |-> next[c] - 1]
Valid(number, command) == number = command \/ command = reset \/ Kind(command) = "throwing"
Told == {c \in Clients \ (late \cup foreign) : cpc[c] # "gone"}

(* The lines of a connection are its client's. *)
LinesOwned == \A c \in Clients : \A i \in 1 .. Len(up[c]) : up[c][i].by = c

(* What the main thread is at. *)
CommandInv ==
  /\ dpc \notin {"eval", "piped", "reply", "undefined"} => running = crOk
  /\ dpc \in {"eval", "piped", "reply"} => running \in Command
  /\ dpc = "eval" => client = running.by
  /\ dpc \in {"piped", "reply"} => /\ Valid(lastStatus, running)
                                   /\ client \in Told => client = running.by
  /\ LinesOwned
  /\ spc = "start" => reset = crOk

NoAnswer(c) == ret[c] = <<>> /\ down[c] = <<>>
NoCommand(c) == up[c] = <<>> /\ running.by # c
AtMostOne(queue) == queue = <<>> \/ Len(queue) = 1
Right(c, queue) ==
  queue # <<>> => Len(queue) = 1 /\ queue[1].to = Asked(c) /\ Valid(queue[1].number, Asked(c))

Place(c) ==
  /\ cpc[c] # "await" => NoCommand(c)
  /\ cpc[c] \in {"idle", "clear", "write"} => NoAnswer(c) /\ conn[c] # "pending"
  /\ cpc[c] \in {"connect", "evalConnect"} =>
       /\ AtMostOne(ret[c]) /\ AtMostOne(down[c])
       /\ conn[c] = "pending" => NoAnswer(c)
  /\ cpc[c] = "await" =>
       /\ conn[c] # "pending"
       /\ Right(c, ret[c]) /\ Right(c, down[c])
       /\ NoAnswer(c) \/ NoCommand(c)
       /\ up[c] # <<>> => Len(up[c]) = 1 /\ up[c][1] = Asked(c) /\ running.by # c
       /\ running.by = c => running = Asked(c)
  /\ ret[c] = <<>> \/ down[c] = <<>>

PlaceInv == \A c \in Told : Place(c)

ResultInv ==
  \A c \in Clients \ (late \cup foreign) :
    \/ result[c] = Unasked
    \/ /\ result[c].asked \in Command
       /\ result[c].answer.to = result[c].asked
       /\ Valid(result[c].answer.number, result[c].asked)

AnswerInv == CommandInv /\ PlaceInv /\ ResultInv

(* The only element of a queue, and the element that becomes the only one. *)
LEMMA Single ==
  ASSUME NEW S, NEW s \in Seq(S), Len(s) = 1
  PROVE  s # <<>> /\ Head(s) = s[1] /\ Tail(s) = <<>>
<1>1. s # <<>> /\ Head(s) = s[1]
  OBVIOUS
<1>2. Tail(s) \in Seq(S) /\ Len(Tail(s)) = 0
  OBVIOUS
<1>3. Tail(s) = <<>>
  BY <1>2, EmptySeq
<1> QED  BY <1>1, <1>3

LEMMA First ==
  ASSUME NEW S, NEW s \in Seq(S), NEW x \in S, s = <<>>
  PROVE  Len(Append(s, x)) = 1 /\ Append(s, x)[1] = x /\ Append(s, x) # <<>>
<1>1. Len(Append(s, x)) = Len(s) + 1 /\ Len(s) = 0 /\ Append(s, x)[Len(s) + 1] = x
  OBVIOUS
<1> QED  BY <1>1, AppendType

LEMMA AskedType == TypeInv => \A c \in Clients : Asked(c) \in Command /\ Asked(c).by = c
<1> SUFFICES ASSUME TypeInv, NEW c \in Clients PROVE Asked(c) \in Command /\ Asked(c).by = c
  OBVIOUS
<1>1. next[c] - 1 \in Nat
  BY DEF TypeInv, TypeOK
<1> QED  BY <1>1 DEF Asked, Command

LEMMA NotOk == \A command \in Command : command # crOk
BY ClientsAssumption DEF Command, crOk

(* run() resets the status once, before any command has been excused by it. *)
LEMMA ValidStays ==
  ASSUME TypeInv, CommandInv, [Next]_vars, NEW number, NEW command \in Command,
         Valid(number, command)
  PROVE  number = command \/ command = reset' \/ Kind(command) = "throwing"
<1>1. CASE Run
  BY <1>1, NotOk DEF Run, CommandInv, Valid
<1>2. CASE reset' = reset
  BY <1>2 DEF Valid
<1> QED  BY <1>1, <1>2 DEF Next, ClientStep, ConnectToDaemon, Call, Eval, Acknowledged, GiveUp,
            Clear,
            Write, Returned, Deliver, Notice, Leave, MainStep, EnterLoop, HandleNewConnection,
            HandleSockDisconnected, ResetSem, HandleSockReadyRead, CountLine, ReadLine,
            EndCommand,
            LeavePipe, NestedLine, Reply, Flushed, LeaveLoop, End, ShellStep, ShellExits, Signal,
            HandlerReturns, vars

LEMMA ToldShrinks == TypeInv /\ [Next]_vars => Told' \subseteq Told
<1> SUFFICES ASSUME TypeInv, [Next]_vars, NEW d \in Told' PROVE d \in Told
  OBVIOUS
<1>1. cpc \in [Clients -> {"idle", "connect", "evalConnect", "clear", "write", "await", "gone"}]
  BY DEF TypeInv, TypeOK
<1>2. CASE \E c \in Clients : Leave(c)
  BY <1>1, <1>2 DEF Leave, Told
<1>3. ASSUME NEW c \in Clients, ClientStep(c), ~Leave(c) PROVE d \in Told
  <2>1. cpc[c] # "gone"
    BY <1>3 DEF ClientStep, ConnectToDaemon, Call, Eval, Acknowledged, GiveUp, Clear, Write,
       Returned, Deliver, Notice
  <2>2. d # c => cpc'[d] = cpc[d]
    BY <1>1, <1>3 DEF ClientStep, ConnectToDaemon, Call, Eval, Acknowledged, GiveUp, Clear, Write,
       Returned, Deliver, Notice, clientVars, Told
  <2>3. late \subseteq late' /\ foreign' = foreign
    BY <1>3 DEF ClientStep, ConnectToDaemon, Call, Eval, Acknowledged, GiveUp, Clear, Write,
       Returned, Deliver, Notice, clientVars
  <2> QED  BY <2>1, <2>2, <2>3 DEF Told
<1>4. CASE HandleNewConnection
  <2>1. cpc' = cpc /\ late' = late /\ foreign \subseteq foreign'
    BY <1>4 DEF HandleNewConnection, Accept, Refuse, clientVars
  <2> QED  BY <2>1 DEF Told
<1>5. CASE UNCHANGED <<cpc, late, foreign>>
  BY <1>5 DEF Told
<1> QED  BY <1>2, <1>3, <1>4, <1>5 DEF Next, MainStep, EnterLoop, HandleSockDisconnected,
            ResetSem, HandleSockReadyRead, CountLine, ReadLine, EndCommand, LeavePipe, NestedLine,
            Reply, Flushed, LeaveLoop, End, ShellStep, Run, ShellExits, Signal, HandlerReturns,
            vars,
            clientVars

(* What a step that leaves a client and the answers to it alone keeps of it. *)
LEMMA Unmoved ==
  ASSUME TypeInv, CommandInv, PlaceInv, [Next]_vars, NEW d \in Told',
         cpc'[d] = cpc[d], ret'[d] = ret[d], down'[d] = down[d], next'[d] = next[d],
         up'[d] = up[d], conn'[d] = conn[d] \/ conn'[d] # "pending",
         running' = running
  PROVE  Place(d)'
<1>1. d \in Told /\ Place(d) /\ d \in Clients
  BY ToldShrinks DEF PlaceInv, Told
<1>2. Asked(d)' = Asked(d) /\ Asked(d) \in Command
  BY <1>1, AskedType DEF Asked
<1>3. ASSUME NEW number, Valid(number, Asked(d)) PROVE Valid(number, Asked(d))'
  BY <1>2, <1>3, ValidStays DEF Valid
<1>4. Right(d, ret[d]) => Right(d, ret[d])'
  BY <1>2, <1>3 DEF Right
<1>5. Right(d, down[d]) => Right(d, down[d])'
  BY <1>2, <1>3 DEF Right
<1> QED  BY <1>1, <1>2, <1>4, <1>5 DEF Place, NoCommand, NoAnswer, AtMostOne

LEMMA LinesStep ==
  ASSUME TypeInv, LinesOwned, [Next]_vars
  PROVE  LinesOwned'
<1> SUFFICES ASSUME NEW d \in Clients, NEW i \in 1 .. Len(up'[d]) PROVE up'[d][i].by = d
  BY DEF LinesOwned
<1>1. up \in [Clients -> Seq(Command)] /\ client \in Clients \cup {Nobody}
  BY DEF TypeInv, TypeOK
<1>2. ASSUME NEW c \in Clients, Write(c) PROVE up'[d][i].by = d
  <2> DEFINE line == [by |-> c, no |-> next[c]]
  <2>1. CASE up'[d] = up[d]
    BY <2>1 DEF LinesOwned
  <2>2. CASE d = c /\ up'[c] = Append(up[c], line)
    <3>1. /\ Len(up'[c]) = Len(up[c]) + 1 /\ up'[c][Len(up[c]) + 1] = line
          /\ Len(up[c]) \in Nat /\ \A j \in 1 .. Len(up[c]) : up'[c][j] = up[c][j]
      BY <1>1, <2>2
    <3>2. CASE i = Len(up[c]) + 1
      BY <3>1, <3>2, <2>2
    <3>3. CASE i \in 1 .. Len(up[c])
      BY <3>1, <3>3, <2>2 DEF LinesOwned
    <3> QED  BY <3>1, <3>2, <3>3, <2>2
  <2> QED  BY <2>1, <2>2, <1>1, <1>2 DEF Write
<1>3. CASE ReadLine \/ NestedLine
  <2>1. /\ client \in Clients /\ up[client] # <<>>
        /\ up' = [up EXCEPT ![client] = Tail(up[client])]
    BY <1>3 DEF ReadLine, NestedLine, Busy, TypeInv, TypeOK, LineInv
  <2>2. CASE d # client
    BY <2>1, <2>2, <1>1 DEF LinesOwned
  <2>3. CASE d = client
    <3>1. Len(Tail(up[d])) = Len(up[d]) - 1 /\ Len(up[d]) \in Nat
          /\ \A j \in 1 .. Len(Tail(up[d])) : Tail(up[d])[j] = up[d][j + 1]
      BY <1>1, <2>1, <2>3
    <3>2. i \in 1 .. Len(Tail(up[d])) /\ up'[d] = Tail(up[d])
      BY <2>1, <2>3, <1>1
    <3>3. i + 1 \in 1 .. Len(up[d])
      BY <3>1, <3>2
    <3> QED  BY <3>1, <3>2, <3>3 DEF LinesOwned
  <2> QED  BY <2>2, <2>3
<1>4. CASE HandleSockDisconnected
  <2>1. up'[d] = up[d] \/ up'[d] = <<>>
    BY <1>1, <1>4 DEF HandleSockDisconnected, Busy
  <2> QED  BY <2>1 DEF LinesOwned
<1>5. CASE End
  <2>1. up'[d] = <<>>
    BY <1>5 DEF End, CloseAll
  <2> QED  BY <2>1
<1>6. CASE up' = up
  BY <1>6 DEF LinesOwned
<1> QED  BY <1>2, <1>3, <1>4, <1>5, <1>6 DEF Next, ClientStep, ConnectToDaemon, Call, Eval,
            Acknowledged, GiveUp, Clear, Returned, Deliver, Notice, Leave, MainStep, EnterLoop,
            HandleNewConnection, ResetSem, HandleSockReadyRead, CountLine, EndCommand, LeavePipe,
            Reply, Flushed, LeaveLoop, ShellStep, Run, ShellExits, Signal, HandlerReturns, vars

LEMMA CommandStep ==
  ASSUME TypeInv, CommandInv, [Next]_vars
  PROVE  CommandInv'
<1>1. LinesOwned'
  BY LinesStep DEF CommandInv
<1>2. \A number : dpc \in {"eval", "piped", "reply"} /\ Valid(number, running) =>
        number = running \/ running = reset' \/ Kind(running) = "throwing"
  BY ValidStays DEF CommandInv
<1>3. Told' \subseteq Told /\ Told \subseteq Clients
  BY ToldShrinks DEF Told
<1>4. CASE /\ UNCHANGED <<dpc, client, running, lastStatus, reset>>
           /\ spc' = "start" => spc = "start"
  BY <1>1, <1>3, <1>4 DEF CommandInv, Valid
<1>5. CASE HandleNewConnection
  <2>1. UNCHANGED <<dpc, running, lastStatus, spc, reset>> /\ dpc \in {"loop", "piped"}
    BY <1>5 DEF HandleNewConnection, InEvents
  <2>2. dpc = "piped" /\ client' \in Told' => client' = client
    <3> SUFFICES ASSUME dpc = "piped", client' \in Told', ~Busy PROVE FALSE
      BY <1>5 DEF HandleNewConnection, Refuse
    <3>1. client' \in foreign' \/ cpc'[client'] = "gone"
      BY <1>5 DEF HandleNewConnection, Accept, clientVars, TypeInv, TypeOK
    <3> QED  BY <3>1 DEF Told
  <2> QED  BY <1>1, <1>3, <2>1, <2>2 DEF CommandInv, Valid
<1>6. CASE HandleSockDisconnected
  <2>1. UNCHANGED <<dpc, running, lastStatus, spc, reset>> /\ dpc \in {"loop", "piped", "flush"}
        /\ client' = Nobody
    BY <1>6 DEF HandleSockDisconnected
  <2>2. client' \notin Told'
    BY <2>1, <1>3, ClientsAssumption
  <2> QED  BY <1>1, <2>1, <2>2 DEF CommandInv, Valid
<1>7. CASE ReadLine
  <2>1. UNCHANGED <<client, lastStatus, spc, reset>> /\ dpc = "line"
    BY <1>7 DEF ReadLine
  <2>2. CASE finished
    BY <2>1, <2>2, <1>1, <1>7 DEF ReadLine, CommandInv
  <2>3. CASE ~finished
    <3>1. client \in Clients /\ up[client] \in Seq(Command) /\ up[client] # <<>>
      BY <2>1 DEF TypeInv, TypeOK, LineInv
    <3>2. Head(up[client]) = up[client][1] /\ 1 \in 1 .. Len(up[client])
      BY <3>1, EmptySeq
    <3>3. Head(up[client]).by = client /\ Head(up[client]) \in Command
      BY <3>1, <3>2, HeadType DEF CommandInv, LinesOwned
    <3>4. dpc' = "eval" /\ running' = Head(up[client])
      BY <2>3, <1>7 DEF ReadLine
    <3> QED  BY <2>1, <3>3, <3>4, <1>1 DEF CommandInv
  <2> QED  BY <2>2, <2>3
<1>8. CASE EndCommand
  <2>1. UNCHANGED <<client, running, spc, reset>> /\ dpc = "eval" /\ dpc' \in {"piped", "reply"}
        /\ lastStatus' = Status
    BY <1>8 DEF EndCommand
  <2> QED  BY <2>1, <1>1 DEF CommandInv, Valid, Status
<1>9. CASE Run
  <2>1. UNCHANGED <<dpc, client, running>> /\ spc' = "run" /\ reset' = running
    BY <1>9 DEF Run
  <2> QED  BY <2>1, <1>1, <1>3 DEF CommandInv, Valid
<1>10. CASE EnterLoop \/ HandleSockReadyRead \/ CountLine \/ LeavePipe \/ NestedLine \/ Flushed
             \/ LeaveLoop
  <2>1. UNCHANGED <<client, running, lastStatus, spc, reset>>
    BY <1>10 DEF EnterLoop, HandleSockReadyRead, CountLine, LeavePipe, NestedLine, Flushed,
           LeaveLoop
  <2>2. \/ dpc \in {"boot", "loop", "count", "flush"} /\ dpc' \in {"loop", "count", "line",
         "join"}
        \/ dpc = "piped" /\ dpc' \in {"piped", "reply", "undefined"}
    BY <1>10 DEF EnterLoop, HandleSockReadyRead, CountLine, LeavePipe, NestedLine, Flushed,
           LeaveLoop
  <2> QED  BY <2>1, <2>2, <1>1, <1>3 DEF CommandInv, Valid
<1>11. CASE Reply
  BY <1>1, <1>11 DEF Reply, CommandInv
<1>12. CASE End
  BY <1>1, <1>12 DEF End, CommandInv
<1>13. ASSUME NEW c \in Clients, ClientStep(c) PROVE CommandInv'
  <2>1. UNCHANGED daemonVars /\ UNCHANGED reset
    BY <1>13 DEF ClientStep, ConnectToDaemon, Call, Eval, Acknowledged, GiveUp, Clear, Write,
                 Returned, Deliver, Notice, Leave, clientVars
  <2> QED  BY <1>4, <2>1 DEF daemonVars
<1>14. CASE ResetSem \/ ShellExits \/ Signal \/ HandlerReturns \/ UNCHANGED vars
  BY <1>4, <1>14 DEF ResetSem, ShellExits, Signal, HandlerReturns, vars, daemonVars
<1> QED  BY <1>5, <1>6, <1>7, <1>8, <1>9, <1>10, <1>11, <1>12, <1>13, <1>14
         DEF Next, MainStep, ShellStep

(* A step of a client moves only its own command. *)
LEMMA OwnStep ==
  ASSUME TypeInv, CommandInv, PlaceInv, [Next]_vars, NEW d \in Told', ClientStep(d)
  PROVE  Place(d)'
<1>1. d \in Clients /\ Place(d) /\ cpc'[d] # "gone" /\ d \notin late'
  BY ToldShrinks DEF PlaceInv, Told
<1>2. /\ cpc \in [Clients -> {"idle", "connect", "evalConnect", "clear", "write", "await",
       "gone"}]
      /\ conn \in [Clients -> {"none", "pending", "open", "closed"}]
      /\ up \in [Clients -> Seq(Command)] /\ down \in [Clients -> Seq(Answer)]
      /\ ret \in [Clients -> Seq(Answer)] /\ next \in [Clients -> Nat \ {0}]
  BY DEF TypeInv, TypeOK
<1>3. CASE ConnectToDaemon(d) \/ Eval(d)
  <2>1. /\ UNCHANGED <<ret, down, up, running>> /\ cpc[d] = "idle"
        /\ cpc'[d] \in {"connect", "evalConnect", "clear"}
        /\ cpc'[d] = "clear" => conn'[d] = conn[d]
    BY <1>1, <1>2, <1>3 DEF ConnectToDaemon, Eval, Call, daemonVars
  <2>2. NoAnswer(d)' /\ NoCommand(d)' /\ (cpc'[d] = "clear" => conn'[d] # "pending")
    BY <1>1, <2>1 DEF Place, NoCommand, NoAnswer
  <2> QED  BY <2>1, <2>2 DEF Place, NoAnswer, AtMostOne
<1>4. CASE Acknowledged(d)
  <2>1. /\ UNCHANGED <<down, up, running, conn>> /\ cpc'[d] \in {"idle", "clear"}
        /\ ret[d] # <<>> /\ ret'[d] = Tail(ret[d]) /\ cpc[d] \in {"connect", "evalConnect"}
    BY <1>1, <1>2, <1>4 DEF Acknowledged, daemonVars
  <2>2. Len(ret[d]) = 1 /\ conn[d] # "pending" /\ down[d] = <<>>
    BY <1>1, <2>1 DEF Place, AtMostOne, NoAnswer
  <2>3. ret'[d] = <<>>
    BY <1>1, <1>2, <2>1, <2>2, Single
  <2> QED  BY <1>1, <2>1, <2>2, <2>3 DEF Place, NoCommand, NoAnswer
<1>5. CASE GiveUp(d)
  BY <1>1, <1>5 DEF GiveUp
<1>6. CASE Clear(d)
  <2>1. UNCHANGED <<down, up, running, conn>> /\ ret'[d] = <<>> /\ cpc[d] = "clear"
        /\ cpc'[d] = "write"
    BY <1>1, <1>2, <1>6 DEF Clear, daemonVars
  <2> QED  BY <1>1, <2>1 DEF Place, NoCommand, NoAnswer
<1>7. CASE Write(d)
  <2> DEFINE line == [by |-> d, no |-> next[d]]
  <2>1. /\ UNCHANGED <<ret, down, running, conn>> /\ cpc[d] = "write" /\ cpc'[d] = "await"
        /\ up'[d] = Append(up[d], line) \/ up'[d] = up[d]
        /\ next'[d] = next[d] + 1
    BY <1>1, <1>2, <1>7 DEF Write, daemonVars
  <2>2. NoAnswer(d) /\ up[d] = <<>> /\ running.by # d /\ conn[d] # "pending"
    BY <1>1, <2>1 DEF Place, NoCommand
  <2>3. Asked(d)' = line /\ line \in Command
    BY <1>1, <1>2, <2>1 DEF Asked, Command
  <2>4. up'[d] # <<>> => Len(up'[d]) = 1 /\ up'[d][1] = line
    <3> HIDE DEF line
    <3>1. up[d] \in Seq(Command)
      BY <1>1, <1>2
    <3>2. Len(Append(up[d], line)) = 1 /\ Append(up[d], line)[1] = line
      BY <3>1, <2>2, <2>3, First
    <3> QED  BY <3>2, <2>1, <2>2
  <2> HIDE DEF line
  <2> QED  BY <2>1, <2>2, <2>3, <2>4 DEF Place, NoAnswer, NoCommand, Right
<1>8. CASE Returned(d)
  <2>1. /\ UNCHANGED <<down, up, running, conn>> /\ cpc[d] = "await" /\ cpc'[d] = "idle"
        /\ ret[d] # <<>> /\ ret'[d] = Tail(ret[d])
    BY <1>1, <1>2, <1>8 DEF Returned, daemonVars
  <2>2. Len(ret[d]) = 1 /\ conn[d] # "pending" /\ down[d] = <<>> /\ NoCommand(d)
    BY <1>1, <2>1 DEF Place, Right, NoAnswer
  <2>3. ret'[d] = <<>>
    BY <1>1, <1>2, <2>1, <2>2, Single
  <2> QED  BY <2>1, <2>2, <2>3 DEF Place, NoCommand, NoAnswer
<1>9. CASE Deliver(d)
  <2>1. /\ UNCHANGED <<cpc, up, running, conn, next, reset>>
        /\ down[d] # <<>> /\ ret'[d] = Append(ret[d], Head(down[d])) /\ down'[d] = Tail(down[d])
    BY <1>1, <1>2, <1>9 DEF Deliver, daemonVars
  <2>2. cpc[d] \in {"connect", "evalConnect", "await"} /\ ret[d] = <<>> /\ Len(down[d]) = 1
    BY <1>1, <1>2, <2>1 DEF Place, NoAnswer, AtMostOne, Right
  <2>3. Head(down[d]) = down[d][1] /\ down'[d] = <<>>
    BY <1>1, <1>2, <2>1, <2>2, Single
  <2>4. Head(down[d]) \in Answer
    BY <1>1, <1>2, <2>1, HeadType
  <2>5. Len(ret'[d]) = 1 /\ ret'[d][1] = down[d][1] /\ ret'[d] # <<>>
    BY <1>1, <1>2, <2>1, <2>2, <2>3, <2>4, First
  <2>6. CASE cpc[d] = "await"
    <3>1. Right(d, ret[d])' /\ NoCommand(d)
      BY <1>1, <2>1, <2>5, <2>6 DEF Place, Right, Asked, Valid, NoAnswer
    <3> QED  BY <1>1, <2>1, <2>3, <2>6, <3>1 DEF Place, Right, NoCommand
  <2>7. CASE cpc[d] \in {"connect", "evalConnect"}
    BY <1>1, <2>1, <2>3, <2>5, <2>7 DEF Place, NoAnswer, NoCommand, AtMostOne
  <2> QED  BY <2>2, <2>6, <2>7
<1>10. CASE Notice(d)
  BY <1>1, <1>2, <1>10, Unmoved DEF Notice, clientVars, daemonVars
<1>11. CASE Leave(d)
  BY <1>1, <1>2, <1>11 DEF Leave
<1> QED  BY <1>3, <1>4, <1>5, <1>6, <1>7, <1>8, <1>9, <1>10, <1>11 DEF ClientStep

(* The acknowledgement of a connection that the daemon looks at is the only number
   of its client: until then there was none. *)
LEMMA ConnectionPlace ==
  ASSUME TypeInv, SessionInv, CommandInv, PlaceInv, [Next]_vars, NEW d \in Told',
         HandleNewConnection
  PROVE  Place(d)'
<1>1. d \in Clients /\ Place(d) /\ cpc[d] # "gone"
  BY ToldShrinks DEF PlaceInv, Told
<1>2. /\ conn \in [Clients -> {"none", "pending", "open", "closed"}]
      /\ down \in [Clients -> Seq(Answer)] /\ pending \in Seq(Clients) /\ pending # <<>>
  BY DEF TypeInv, TypeOK, HandleNewConnection
<1>3. Head(pending) \in Clients /\ Head(pending) = pending[1] /\ 1 \in 1 .. Len(pending)
  BY <1>2, HeadType, EmptySeq
<1>4. UNCHANGED <<cpc, ret, next, up, running, reset>>
  BY DEF HandleNewConnection, clientVars
<1>5. CASE d # Head(pending)
  <2>1. down'[d] = down[d] /\ conn'[d] = conn[d]
    BY <1>1, <1>2, <1>5 DEF HandleNewConnection, Accept, Refuse, Sent
  <2> QED  BY <1>4, <2>1, Unmoved
<1>6. CASE d = Head(pending)
  <2> DEFINE ack == Ack(IF Busy THEN crTooManyConnections ELSE crOk)
  <2>1. conn[d] = "pending"
    BY <1>3, <1>6 DEF SessionInv, PendingInv
  <2>2. /\ cpc[d] \in {"connect", "evalConnect"} /\ ret[d] = <<>> /\ down[d] = <<>>
        /\ NoCommand(d)
    BY <1>1, <2>1 DEF Place, NoAnswer, TypeInv, TypeOK
  <2>3. down'[d] = Append(down[d], ack)
    BY <1>1, <1>2, <1>6 DEF HandleNewConnection, Accept, Refuse, Sent
  <2>4. ack \in Answer /\ down[d] \in Seq(Answer)
    BY <1>1, <1>2 DEF Ack, Answer, Number
  <2>5. conn'[d] # "pending"
    BY <1>1, <1>2, <1>6 DEF HandleNewConnection, Accept, Refuse
  <2> HIDE DEF ack
  <2>6. Len(down'[d]) = 1
    BY <2>2, <2>3, <2>4, First
  <2> QED  BY <1>4, <2>2, <2>5, <2>6 DEF Place, NoCommand, AtMostOne
<1> QED  BY <1>5, <1>6

(* The main thread takes the only line of a client that waits, and sends the only
   number, to the client whose command it was. *)
LEMMA MainPlace ==
  ASSUME TypeInv, SessionInv, CommandInv, PlaceInv, [Next]_vars, NEW d \in Told', MainStep
  PROVE  Place(d)'
<1>1. d \in Clients /\ d \in Told /\ Place(d) /\ cpc[d] # "gone" /\ d # Nobody
  BY ToldShrinks, ClientsAssumption DEF PlaceInv, Told
<1>2. /\ conn \in [Clients -> {"none", "pending", "open", "closed"}]
      /\ down \in [Clients -> Seq(Answer)] /\ up \in [Clients -> Seq(Command)]
  BY DEF TypeInv, TypeOK
<1>3. CASE HandleNewConnection
  BY <1>3, ConnectionPlace
<1>4. CASE HandleSockDisconnected
  <2>1. client # d
    BY <1>1, <1>4 DEF HandleSockDisconnected
  <2> QED  BY <1>1, <1>2, <1>4, <2>1, Unmoved DEF HandleSockDisconnected, clientVars
<1>5. CASE ReadLine
  <2>1. /\ client \in Clients /\ up[client] \in Seq(Command) /\ up[client] # <<>>
        /\ dpc = "line" /\ running.by = Nobody /\ up' = [up EXCEPT ![client] = Tail(@)]
        /\ UNCHANGED <<cpc, conn, ret, down, next, reset>>
    BY <1>5 DEF ReadLine, TypeInv, TypeOK, LineInv, CommandInv, crOk, clientVars
  <2>2. /\ Head(up[client]) = up[client][1] /\ 1 \in 1 .. Len(up[client])
        /\ Head(up[client]).by = client
    BY <2>1, EmptySeq DEF CommandInv, LinesOwned
  <2>3. running' = running \/ running' = Head(up[client])
    BY <1>5 DEF ReadLine
  <2>4. CASE client # d
    <3>1. running'.by # d /\ up'[d] = up[d]
      BY <1>1, <1>2, <2>1, <2>2, <2>3, <2>4
    <3> QED  BY <1>1, <2>1, <3>1 DEF Place, NoAnswer, NoCommand, Right, Asked, Valid
  <2>5. CASE client = d
    <3>1. cpc[d] = "await" /\ Len(up[d]) = 1 /\ up[d][1] = Asked(d) /\ NoAnswer(d)
      BY <1>1, <2>1, <2>5 DEF Place, NoCommand
    <3>2. up'[d] = <<>>
      BY <1>2, <2>1, <2>5, <3>1, Single
    <3>3. running'.by = d => running' = Asked(d)
      BY <1>1, <2>1, <2>2, <2>3, <2>5, <3>1
    <3> QED  BY <1>1, <2>1, <3>1, <3>2, <3>3 DEF Place, NoAnswer, Right, Asked
  <2> QED  BY <2>4, <2>5
<1>6. CASE NestedLine
  <2>1. client # d
    BY <1>1, <1>6 DEF NestedLine, CommandInv
  <2> QED  BY <1>1, <1>2, <1>6, <2>1, Unmoved DEF NestedLine, clientVars
<1>7. CASE Reply
  <2>1. /\ dpc = "reply" /\ running' = crOk /\ running'.by # d /\ running \in Command
        /\ UNCHANGED <<cpc, conn, ret, up, next, reset>>
    BY <1>1, <1>7 DEF Reply, crOk, CommandInv, clientVars
  <2>2. CASE client # d
    <3>1. down'[d] = down[d]
      BY <1>1, <1>2, <1>7, <2>2 DEF Reply, Sent
    <3> QED  BY <1>1, <2>1, <3>1 DEF Place, NoAnswer, NoCommand, Right, Asked, Valid
  <2>3. CASE client = d
    <3>1. running.by = d /\ Valid(lastStatus, running)
      BY <1>1, <2>1, <2>3 DEF CommandInv
    <3>2. /\ cpc[d] = "await" /\ running = Asked(d) /\ up[d] = <<>> /\ NoAnswer(d)
          /\ conn[d] # "pending"
      BY <1>1, <3>1 DEF Place, NoCommand
    <3>3. StatusTo(running) \in Answer
      BY <2>1 DEF StatusTo, Answer, TypeInv, TypeOK
    <3>4. down'[d] = Append(down[d], StatusTo(running))
      BY <1>1, <1>2, <1>7, <2>3 DEF Reply, Sent, Busy
    <3>5. Len(down'[d]) = 1 /\ down'[d][1] = StatusTo(running)
      BY <1>1, <1>2, <3>2, <3>3, <3>4, First DEF NoAnswer
    <3>6. Right(d, down[d])'
      BY <2>1, <3>1, <3>2, <3>5 DEF Right, StatusTo, Asked, Valid
    <3> QED  BY <2>1, <3>2, <3>6 DEF Place, NoAnswer, NoCommand, Right
  <2> QED  BY <2>2, <2>3
<1>8. CASE End
  <2>1. /\ up'[d] = <<>> /\ running' = running /\ running.by # d /\ conn'[d] # "pending"
        /\ UNCHANGED <<cpc, down, ret, next, reset>>
    BY <1>1, <1>2, <1>8 DEF End, CloseAll, CommandInv, crOk, clientVars
  <2> QED  BY <1>1, <2>1 DEF Place, NoAnswer, NoCommand, Right, Asked, Valid
<1>9. CASE UNCHANGED <<cpc, ret, down, next, up, conn, running>>
  BY <1>9, Unmoved
<1> QED  BY <1>3, <1>4, <1>5, <1>6, <1>7, <1>8, <1>9 DEF MainStep, EnterLoop, ResetSem,
            HandleSockReadyRead, CountLine, EndCommand, LeavePipe, Flushed, LeaveLoop, clientVars

LEMMA PlaceStep ==
  ASSUME TypeInv, SessionInv, CommandInv, PlaceInv, [Next]_vars
  PROVE  PlaceInv'
<1> SUFFICES ASSUME NEW d \in Told' PROVE Place(d)'
  BY DEF PlaceInv
<1>1. /\ d \in Clients
      /\ cpc \in [Clients -> {"idle", "connect", "evalConnect", "clear", "write", "await",
             "gone"}]
      /\ conn \in [Clients -> {"none", "pending", "open", "closed"}]
      /\ up \in [Clients -> Seq(Command)] /\ down \in [Clients -> Seq(Answer)]
      /\ ret \in [Clients -> Seq(Answer)] /\ next \in [Clients -> Nat \ {0}]
  BY DEF TypeInv, TypeOK, Told
<1>2. ASSUME NEW c \in Clients, ClientStep(c) PROVE Place(d)'
  <2>1. CASE c = d
    BY <1>2, <2>1, OwnStep
  <2>2. CASE c # d
    <3>1. /\ cpc'[d] = cpc[d] /\ ret'[d] = ret[d] /\ down'[d] = down[d] /\ next'[d] = next[d]
          /\ up'[d] = up[d] /\ conn'[d] = conn[d] /\ running' = running
      BY <1>1, <1>2, <2>2 DEF ClientStep, ConnectToDaemon, Call, Eval, Acknowledged, GiveUp,
             Clear,
         Write, Returned, Deliver, Notice, Leave, clientVars, daemonVars
    <3> QED  BY <3>1, Unmoved
  <2> QED  BY <2>1, <2>2
<1>3. CASE MainStep
  BY <1>3, MainPlace
<1>4. CASE UNCHANGED <<cpc, ret, down, next, up, conn, running>>
  BY <1>4, Unmoved
<1> QED  BY <1>2, <1>3, <1>4 DEF Next, ShellStep, Run, ShellExits, Signal, HandlerReturns, vars,
            clientVars, daemonVars

(* What eval() returns is the number that came for its own command. *)
LEMMA ResultStep ==
  ASSUME TypeInv, CommandInv, PlaceInv, ResultInv, [Next]_vars
  PROVE  ResultInv'
<1> DEFINE Good(c) == \/ result[c] = Unasked
                      \/ /\ result[c].asked \in Command
                         /\ result[c].answer.to = result[c].asked
                         /\ Valid(result[c].answer.number, result[c].asked)
<1> SUFFICES ASSUME NEW d \in Clients \ (late' \cup foreign') PROVE Good(d)'
  BY DEF ResultInv
<1>1. /\ cpc \in [Clients -> {"idle", "connect", "evalConnect", "clear", "write", "await",
       "gone"}]
      /\ ret \in [Clients -> Seq(Answer)] /\ DOMAIN result = Clients
      /\ result \in [Clients -> [asked : Number, answer : Answer]]
  BY DEF TypeInv, TypeOK
<1>2. ASSUME result'[d] = result[d], d \notin late \cup foreign PROVE Good(d)'
  <2>1. Good(d)
    BY <1>2 DEF ResultInv
  <2>2. CASE result[d] = Unasked
    BY <1>2, <2>2 DEF Unasked
  <2>3. CASE result[d].asked \in Command
    BY <1>2, <2>1, <2>3, ValidStays, NotOk DEF Valid, Unasked
  <2> QED  BY <2>1, <2>2, <2>3
<1>3. CASE Leave(d)
  BY <1>1, <1>3 DEF Leave
<1>4. CASE Returned(d)
  <2>1. /\ cpc[d] = "await" /\ ret[d] # <<>> /\ UNCHANGED <<late, foreign, reset>>
        /\ result'[d] = [asked |-> Asked(d), answer |-> Head(ret[d])]
    BY <1>1, <1>4 DEF Returned, Asked
  <2>2. d \in Told
    BY <2>1 DEF Told
  <2>3. Right(d, ret[d])
    BY <2>1, <2>2 DEF PlaceInv, Place
  <2>4. Head(ret[d]) = ret[d][1]
    BY <1>1, <2>1, <2>3, Single DEF Right
  <2>5. Asked(d) \in Command
    BY AskedType
  <2> QED  BY <2>1, <2>3, <2>4, <2>5 DEF Right, Valid
<1>5. CASE \E c \in Clients : ClientStep(c) /\ ~Leave(d) /\ ~Returned(d)
  <2>1. PICK c \in Clients : ClientStep(c) /\ ~Leave(d) /\ ~Returned(d)
    BY <1>5
  <2>2. result'[d] = result[d]
    BY <1>1, <2>1 DEF ClientStep, ConnectToDaemon, Call, Eval, Acknowledged, GiveUp, Clear, Write,
       Returned, Deliver, Notice, Leave, clientVars
  <2>3. /\ late \cup foreign \subseteq late' \cup foreign' \cup {c}
        /\ c = d => late \cup foreign \subseteq late' \cup foreign'
    BY <2>1 DEF ClientStep, ConnectToDaemon, Call, Eval, Acknowledged, GiveUp, Clear, Write,
       Returned, Deliver, Notice, Leave, clientVars
  <2> QED  BY <1>2, <2>2, <2>3
<1>6. CASE result' = result /\ late' = late /\ foreign \subseteq foreign'
  BY <1>2, <1>6
<1> QED  BY <1>3, <1>4, <1>5, <1>6 DEF Next, MainStep, EnterLoop, HandleNewConnection, Accept,
            Refuse,
            HandleSockDisconnected, ResetSem, HandleSockReadyRead, CountLine, ReadLine,
            EndCommand,
            LeavePipe, NestedLine, Reply, Flushed, LeaveLoop, End, ShellStep, Run, ShellExits,
            Signal, HandlerReturns, vars, clientVars

(* A client that has waited for its acknowledgement and has not been accepted
   within the command of another one gets the status of its own command from
   eval(), whatever the other clients, the connections and the signals do: unless
   the command threw, or run() reset _lastStatus while it was executed. *)
THEOREM AnswerIsOwn == Spec => []OwnAnswer
<1>1. Init => AnswerInv
  <2> SUFFICES ASSUME Init PROVE AnswerInv
    OBVIOUS
  <2>1. CommandInv
    BY DEF Init, CommandInv, LinesOwned
  <2>2. PlaceInv
    <3> SUFFICES ASSUME NEW c \in Told PROVE Place(c)
      BY DEF PlaceInv
    <3>1. /\ c \in Clients /\ c # Nobody /\ cpc[c] = "idle" /\ conn[c] = "none" /\ running = crOk
          /\ up[c] = <<>> /\ down[c] = <<>> /\ ret[c] = <<>>
      BY ClientsAssumption DEF Init, Told
    <3> QED  BY <3>1 DEF Place, NoCommand, NoAnswer, crOk
  <2>3. ResultInv
    BY DEF Init, ResultInv
  <2> QED  BY <2>1, <2>2, <2>3 DEF AnswerInv
<1>2. TypeInv /\ SessionInv /\ AnswerInv /\ [Next]_vars => AnswerInv'
  BY CommandStep, PlaceStep, ResultStep DEF AnswerInv
<1>3. AnswerInv => OwnAnswer
  <2> SUFFICES ASSUME ResultInv, NEW c \in Clients \ (late \cup foreign)
               PROVE  /\ result[c].answer.to = result[c].asked
                      /\ Valid(result[c].answer.number, result[c].asked)
    BY DEF AnswerInv, OwnAnswer, Valid
  <2>1. CASE result[c] = Unasked
    BY <2>1 DEF Unasked, Ack, Valid
  <2> QED  BY <2>1 DEF ResultInv
<1> QED  BY InitType, TypeStep, SessionInit, SessionStep, <1>1, <1>2, <1>3, PTL DEF Spec
=============================================================================
