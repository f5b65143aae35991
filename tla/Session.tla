------------------------------- MODULE Session -------------------------------
(* The sessions of the daemon insightd with its clients: Insight
   (libinsight/insight.cpp) in a client, Shell (insightd/shell.cpp), the signal
   handler and main() in the daemon. Each direction of a connection is a pipe of
   whole lines or numbers: module DeviceMuxer is about the packets.

   In the daemon the slots of Shell run in the main thread, which owns the Shell;
   its own thread executes the start-up commands and then waits to be told to
   exit. A command takes any finite time; what it does is abstracted to how it
   ends. An interrupt only makes it end sooner and is left out. *)
EXTENDS Integers, SequencesExt

CONSTANTS
  Clients,      \* processes that use an Insight object, one connection each
  Script,       \* [Clients -> Seq(Kinds)]: the commands each may evaluate, in order
  MaxConnects,  \* bound: connections a client makes
  MaxTimeouts,  \* bound: acknowledgements given up, in all
  MaxSignals    \* bound: signals sent to the daemon

(* A command with a pipe, one that throws a GenericException, the command that
   ends the daemon, any other. *)
Kinds == {"plain", "piped", "throwing", "exit"}
Nobody == "nobody"

ASSUME ClientsAssumption == Nobody \notin Clients
ASSUME ScriptAssumption == Script \in [Clients -> Seq(Kinds)]
ASSUME BoundsAssumption == {MaxConnects, MaxTimeouts, MaxSignals} \subseteq Nat

VARIABLES
  \* the daemon
  dpc,         \* where its main thread is
  spc,         \* where the thread of the Shell is
  locked,      \* the main thread holds _sockSemLock
  sem,         \* _sockSem
  handler,     \* the signal handler on top of the main thread
  finished,    \* _finished
  exited,      \* exit() of the Shell's thread has been called
  quit,        \* the main event loop has been told to end
  client,      \* whom _clSocket is connected to, or Nobody
  running,     \* the command in evalLine(), crOk if there is none
  lastStatus,  \* _lastStatus, named by the command that returned it
  \* the connections
  pending,     \* those the daemon has not looked at
  conn,        \* none, pending, open, or closed by the daemon
  up, down,    \* lines and numbers on their way
  \* the clients
  cpc,         \* where each is
  ret,         \* numbers that have arrived on its return channel
  next,        \* number of its next command
  result,      \* what its last eval() asked and was answered
  \* history and bounds
  late,        \* clients that have given up waiting for an acknowledgement
  foreign,     \* clients accepted within the command of another one
  reset,       \* the command whose status run() reset, or the acknowledgement's
  connects, timeouts, signals

daemonVars == <<dpc, spc, locked, sem, handler, finished, exited, quit, client, running,
                lastStatus>>
clientVars == <<cpc, ret, next, result, late, connects, timeouts>>
vars == <<daemonVars, pending, conn, up, down, clientVars, foreign, reset, signals>>

(* What a number stands for: a command's status, or a ConnectResult. *)
Command == [by : Clients, no : Nat]
crOk == [by |-> Nobody, no |-> 0]
crTooManyConnections == [by |-> Nobody, no |-> 2]
Number == Command \cup {crOk, crTooManyConnections}
Kind(command) == Script[command.by][command.no]

(* An answer: the number, and what it is sent in reply to. *)
Answer == [number : Number, to : Command \cup {crOk}]
Ack(number) == [number |-> number, to |-> crOk]
Unasked == [asked |-> crOk, answer |-> Ack(crOk)]

(* Also: the main thread never waits for the semaphore. *)
TypeOK ==
  /\ dpc \in {"boot", "loop", "count", "line", "eval", "piped", "reply", "flush", "join",
              "ended", "undefined"}
  /\ spc \in {"start", "run", "done"}
  /\ {locked, finished, exited, quit} \subseteq BOOLEAN
  /\ sem \in Nat /\ (dpc = "line" => sem > 0)
  /\ handler \in {"none", "waiting", "stuck"}
  /\ client \in Clients \cup {Nobody}
  /\ lastStatus \in Number /\ {running, reset} \subseteq Command \cup {crOk}
  /\ pending \in Seq(Clients)
  /\ conn \in [Clients -> {"none", "pending", "open", "closed"}]
  /\ up \in [Clients -> Seq(Command)]
  /\ down \in [Clients -> Seq(Answer)] /\ ret \in [Clients -> Seq(Answer)]
  /\ cpc \in [Clients -> {"idle", "connect", "evalConnect", "clear", "write", "await", "gone"}]
  /\ next \in [Clients -> Nat \ {0}]
  /\ result \in [Clients -> [asked : Number, answer : Answer]]
  /\ late \subseteq Clients /\ foreign \subseteq Clients
  /\ connects \in [Clients -> 0 .. MaxConnects]
  /\ timeouts \in 0 .. MaxTimeouts /\ signals \in 0 .. MaxSignals

(* The Shell's constructor listens; its thread has been started. *)
Init ==
  /\ dpc = "boot" /\ spc = "start" /\ locked = FALSE /\ sem = 0 /\ handler = "none"
  /\ finished = FALSE /\ exited = FALSE /\ quit = FALSE
  /\ client = Nobody /\ running = crOk /\ lastStatus = crOk
  /\ pending = <<>> /\ conn = [c \in Clients |-> "none"]
  /\ up = [c \in Clients |-> <<>>] /\ down = up
  /\ cpc = [c \in Clients |-> "idle"] /\ ret = up
  /\ next = [c \in Clients |-> 1]
  /\ result = [c \in Clients |-> Unasked]
  /\ late = {} /\ foreign = {} /\ reset = crOk
  /\ connects = [c \in Clients |-> 0] /\ timeouts = 0 /\ signals = 0

Listening == dpc \notin {"ended", "undefined"}

---------------------------------------------------------------------------
(* A client. connectToDaemon() does nothing on a connected socket, whether or not
   the daemon has accepted the connection, and eval() begins with it. *)

Connected(c) == conn[c] # "none"

Call(c, then) ==
  /\ cpc[c] = "idle" /\ ~Connected(c) /\ Listening /\ connects[c] < MaxConnects
  /\ conn' = [conn EXCEPT ![c] = "pending"]
  /\ pending' = Append(pending, c)
  /\ connects' = [connects EXCEPT ![c] = @ + 1]
  /\ cpc' = [cpc EXCEPT ![c] = then]
  /\ UNCHANGED <<daemonVars, up, down, ret, next, result, late, foreign, reset, timeouts,
                 signals>>

ConnectToDaemon(c) == Call(c, "connect")

Eval(c) ==
  /\ next[c] <= Len(Script[c])
  /\ \/ Call(c, "evalConnect")
     \/ /\ cpc[c] = "idle" /\ Connected(c)
        /\ cpc' = [cpc EXCEPT ![c] = "clear"]
        /\ UNCHANGED <<daemonVars, pending, conn, up, down, ret, next, result, late, connects,
                       timeouts, foreign, reset, signals>>

(* The first number that arrives is the acknowledgement. *)
Acknowledged(c) ==
  /\ cpc[c] \in {"connect", "evalConnect"} /\ ret[c] # <<>>
  /\ ret' = [ret EXCEPT ![c] = Tail(@)]
  /\ cpc' = [cpc EXCEPT ![c] =
       IF @ = "evalConnect" /\ Head(ret[c]).number = crOk THEN "clear" ELSE "idle"]
  /\ UNCHANGED <<daemonVars, pending, conn, up, down, next, result, late, connects, timeouts,
                 foreign, reset, signals>>

(* None for five seconds: the call fails, the socket stays connected. *)
GiveUp(c) ==
  /\ cpc[c] \in {"connect", "evalConnect"} /\ ret[c] = <<>> /\ timeouts < MaxTimeouts
  /\ cpc' = [cpc EXCEPT ![c] = "idle"]
  /\ timeouts' = timeouts + 1 /\ late' = late \cup {c}
  /\ UNCHANGED <<daemonVars, pending, conn, up, down, ret, next, result, connects, foreign,
                 reset, signals>>

Clear(c) ==
  /\ cpc[c] = "clear"
  /\ ret' = [ret EXCEPT ![c] = <<>>]
  /\ cpc' = [cpc EXCEPT ![c] = "write"]
  /\ UNCHANGED <<daemonVars, pending, conn, up, down, next, result, late, connects, timeouts,
                 foreign, reset, signals>>

(* A line for a connection that the daemon has closed is lost. *)
Write(c) ==
  /\ cpc[c] = "write"
  /\ up' = [up EXCEPT ![c] =
       IF conn[c] \in {"pending", "open"} THEN Append(@, [by |-> c, no |-> next[c]]) ELSE @]
  /\ next' = [next EXCEPT ![c] = @ + 1]
  /\ cpc' = [cpc EXCEPT ![c] = "await"]
  /\ UNCHANGED <<daemonVars, pending, conn, down, ret, result, late, connects, timeouts,
                 foreign, reset, signals>>

(* The first number that arrives is the result. *)
Returned(c) ==
  /\ cpc[c] = "await" /\ ret[c] # <<>>
  /\ result' = [result EXCEPT ![c] =
       [asked |-> [by |-> c, no |-> next[c] - 1], answer |-> Head(ret[c])]]
  /\ ret' = [ret EXCEPT ![c] = Tail(@)]
  /\ cpc' = [cpc EXCEPT ![c] = "idle"]
  /\ UNCHANGED <<daemonVars, pending, conn, up, down, next, late, connects, timeouts, foreign,
                 reset, signals>>

(* The thread of the SocketHelper takes a number, then the end of the stream. *)
Deliver(c) ==
  /\ cpc[c] # "gone" /\ down[c] # <<>>
  /\ ret' = [ret EXCEPT ![c] = Append(@, Head(down[c]))]
  /\ down' = [down EXCEPT ![c] = Tail(@)]
  /\ UNCHANGED <<daemonVars, pending, conn, up, cpc, next, result, late, connects, timeouts,
                 foreign, reset, signals>>

Notice(c) ==
  /\ cpc[c] # "gone" /\ conn[c] = "closed" /\ down[c] = <<>>
  /\ conn' = [conn EXCEPT ![c] = "none"]
  /\ UNCHANGED <<daemonVars, pending, up, down, clientVars, foreign, reset, signals>>

(* The client's process ends, on its own or not, and with it what it has received. *)
Leave(c) ==
  /\ cpc[c] # "gone"
  /\ cpc' = [cpc EXCEPT ![c] = "gone"]
  /\ down' = [down EXCEPT ![c] = <<>>] /\ ret' = [ret EXCEPT ![c] = <<>>]
  /\ result' = [result EXCEPT ![c] = Unasked]
  /\ late' = late \ {c} /\ foreign' = foreign \ {c}
  /\ UNCHANGED <<daemonVars, pending, conn, up, next, connects, timeouts, reset, signals>>

ClientStep(c) ==
  \/ ConnectToDaemon(c) \/ Eval(c) \/ Acknowledged(c) \/ GiveUp(c) \/ Clear(c) \/ Write(c)
  \/ Returned(c) \/ Deliver(c) \/ Notice(c) \/ Leave(c)

---------------------------------------------------------------------------
(* The daemon's main thread. Its event loop runs the slots, and so does the wait
   for the processes of a pipe, on top of the command. *)

MainRuns == handler = "none" /\ ~locked
InEvents == MainRuns /\ dpc \in {"loop", "piped"}

(* app.exec() *)
EnterLoop ==
  /\ MainRuns /\ dpc = "boot"
  /\ dpc' = "loop"
  /\ UNCHANGED <<spc, locked, sem, handler, finished, exited, quit, client, running, lastStatus,
                 pending, conn, up, down, clientVars, foreign, reset, signals>>

(* Mutant: an open connection is not looked for. *)
MutBusy == FALSE

Busy == client # Nobody

(* What is written to a client that has left is lost. *)
Sent(c, answer) == IF cpc[c] = "gone" THEN down ELSE [down EXCEPT ![c] = Append(@, answer)]

Accept(c) ==
  /\ client' = c
  /\ conn' = [conn EXCEPT ![c] = "open"]
  /\ down' = Sent(c, Ack(crOk))
  /\ foreign' = IF dpc = "piped" /\ cpc[c] # "gone" THEN foreign \cup {c} ELSE foreign

Refuse(c) ==
  /\ down' = Sent(c, Ack(crTooManyConnections))
  /\ conn' = [conn EXCEPT ![c] = "closed"]
  /\ UNCHANGED <<client, foreign>>

HandleNewConnection ==
  /\ InEvents /\ pending # <<>>
  /\ pending' = Tail(pending)
  /\ IF Busy THEN Refuse(Head(pending)) ELSE Accept(Head(pending))
  /\ UNCHANGED <<dpc, spc, locked, sem, handler, finished, exited, quit, running, lastStatus,
                 up, clientVars, reset, signals>>

(* The end of the stream comes after the lines, each of which the event loop hands
   on when it arrives; within a command they are only taken in, and dropped. The
   slot ends with _sockSemLock held and the semaphore to be reset (ResetSem). *)
HandleSockDisconnected ==
  /\ MainRuns /\ Busy /\ cpc[client] = "gone"
  /\ dpc \in {"piped", "flush"} \/ (dpc = "loop" /\ up[client] = <<>>)
  /\ conn' = [conn EXCEPT ![client] = "none"]
  /\ up' = [up EXCEPT ![client] = <<>>]
  /\ client' = Nobody
  /\ locked' = TRUE
  /\ UNCHANGED <<dpc, spc, sem, handler, finished, exited, quit, running, lastStatus, pending,
                 down, clientVars, foreign, reset, signals>>

ResetSem ==
  /\ handler = "none" /\ locked /\ dpc # "count"
  /\ sem' = 0 /\ locked' = FALSE
  /\ UNCHANGED <<dpc, spc, handler, finished, exited, quit, client, running, lastStatus, pending,
                 conn, up, down, clientVars, foreign, reset, signals>>

(* A line can be read: the slot takes the lock to count it. *)
HandleSockReadyRead ==
  /\ MainRuns /\ dpc = "loop" /\ Busy /\ up[client] # <<>>
  /\ locked' = TRUE
  /\ dpc' = "count"
  /\ UNCHANGED <<spc, sem, handler, finished, exited, quit, client, running, lastStatus, pending,
                 conn, up, down, clientVars, foreign, reset, signals>>

(* Mutant: only the first line of a connection is counted. *)
MutCountLine ==
  /\ handler = "none" /\ dpc = "count"
  /\ sem' = IF Head(up[client]).no = 1 THEN sem + 1 ELSE sem
  /\ locked' = FALSE
  /\ dpc' = "line"
  /\ UNCHANGED <<spc, handler, finished, exited, quit, client, running, lastStatus, pending,
                 conn, up, down, clientVars, foreign, reset, signals>>

CountLine ==
  /\ handler = "none" /\ dpc = "count"
  /\ sem' = IF sem = 0 THEN 1 ELSE sem
  /\ locked' = FALSE
  /\ dpc' = "line"
  /\ UNCHANGED <<spc, handler, finished, exited, quit, client, running, lastStatus, pending,
                 conn, up, down, clientVars, foreign, reset, signals>>

(* evalLine(): no command is begun, nor answered, once the daemon is to end. *)
ReadLine ==
  /\ MainRuns /\ dpc = "line" /\ sem > 0
  /\ sem' = sem - 1
  /\ up' = [up EXCEPT ![client] = Tail(@)]
  /\ IF finished THEN dpc' = "loop" /\ UNCHANGED running
     ELSE dpc' = "eval" /\ running' = Head(up[client])
  /\ UNCHANGED <<spc, locked, handler, finished, exited, quit, client, lastStatus, pending, conn,
                 down, clientVars, foreign, reset, signals>>

(* The command returns or throws; in either case the processes of its pipe are
   cleaned up before the answer. *)
Status == IF Kind(running) = "throwing" THEN lastStatus ELSE running

(* Mutant: a command that throws is not answered. *)
MutEndCommand ==
  /\ MainRuns /\ dpc = "eval"
  /\ lastStatus' = Status
  /\ IF Kind(running) = "exit" THEN finished' = TRUE /\ exited' = TRUE
     ELSE UNCHANGED <<finished, exited>>
  /\ dpc' = CASE Kind(running) = "piped" -> "piped" [] Kind(running) = "throwing" -> "loop"
            [] OTHER -> "reply"
  /\ UNCHANGED <<spc, locked, sem, handler, quit, client, running, pending, conn, up, down,
                 clientVars, foreign, reset, signals>>

(* Mutant: the command exit does not end the event loop of the Shell's thread. *)
MutExitCommand ==
  /\ MainRuns /\ dpc = "eval"
  /\ lastStatus' = Status
  /\ finished' = (finished \/ Kind(running) = "exit")
  /\ dpc' = IF Kind(running) = "piped" THEN "piped" ELSE "reply"
  /\ UNCHANGED <<spc, locked, sem, handler, exited, quit, client, running, pending, conn, up,
                 down, clientVars, foreign, reset, signals>>

EndCommand ==
  /\ MainRuns /\ dpc = "eval"
  /\ lastStatus' = Status
  /\ IF Kind(running) = "exit" THEN finished' = TRUE /\ exited' = TRUE
     ELSE UNCHANGED <<finished, exited>>
  /\ dpc' = IF Kind(running) = "piped" THEN "piped" ELSE "reply"
  /\ UNCHANGED <<spc, locked, sem, handler, quit, client, running, pending, conn, up, down,
                 clientVars, foreign, reset, signals>>

(* cleanupPipedProcs() has waited for the processes. *)
LeavePipe ==
  /\ MainRuns /\ dpc = "piped"
  /\ dpc' = "reply"
  /\ UNCHANGED <<spc, locked, sem, handler, finished, exited, quit, client, running, lastStatus,
                 pending, conn, up, down, clientVars, foreign, reset, signals>>

(* A line of a client that was accepted within the command. The slot is not called
   for the caller's own, whose socket is still emitting readyRead(). The nested
   command cleans up the outer one's processes, and the outer one goes on with an
   index into an empty list. *)
NestedLine ==
  /\ MainRuns /\ dpc = "piped" /\ Busy /\ running.by # client /\ up[client] # <<>>
  /\ up' = [up EXCEPT ![client] = Tail(@)]
  /\ sem' = IF sem = 0 THEN 0 ELSE sem - 1
  /\ dpc' = IF finished THEN dpc ELSE "undefined"
  /\ UNCHANGED <<spc, locked, handler, finished, exited, quit, client, running, lastStatus,
                 pending, conn, down, clientVars, foreign, reset, signals>>

StatusTo(command) == [number |-> lastStatus, to |-> command]

(* Mutant: the status is written twice. *)
MutReply ==
  /\ MainRuns /\ dpc = "reply"
  /\ down' = IF Busy THEN [down EXCEPT ![client] =
                             Append(Append(@, StatusTo(running)), StatusTo(running))]
             ELSE down
  /\ running' = crOk
  /\ dpc' = "flush"
  /\ UNCHANGED <<spc, locked, sem, handler, finished, exited, quit, client, lastStatus, pending,
                 conn, up, clientVars, foreign, reset, signals>>

(* The answer goes to whoever is connected by now. *)
Reply ==
  /\ MainRuns /\ dpc = "reply"
  /\ down' = IF Busy THEN Sent(client, StatusTo(running)) ELSE down
  /\ running' = crOk
  /\ dpc' = "flush"
  /\ UNCHANGED <<spc, locked, sem, handler, finished, exited, quit, client, lastStatus, pending,
                 conn, up, clientVars, foreign, reset, signals>>

(* waitForBytesWritten() returns. *)
Flushed ==
  /\ MainRuns /\ dpc = "flush"
  /\ dpc' = "loop"
  /\ UNCHANGED <<spc, locked, sem, handler, finished, exited, quit, client, running, lastStatus,
                 pending, conn, up, down, clientVars, foreign, reset, signals>>

(* app.exec() returns, main() waits for the Shell's thread and deletes the Shell,
   which closes the connections. *)
LeaveLoop ==
  /\ MainRuns /\ dpc = "loop" /\ quit
  /\ dpc' = "join"
  /\ exited' = TRUE
  /\ UNCHANGED <<spc, locked, sem, handler, finished, quit, client, running, lastStatus, pending,
                 conn, up, down, clientVars, foreign, reset, signals>>

CloseAll ==
  /\ conn' = [c \in Clients |-> IF conn[c] \in {"pending", "open"} THEN "closed" ELSE conn[c]]
  /\ up' = [c \in Clients |-> <<>>]
  /\ pending' = <<>> /\ client' = Nobody

End ==
  /\ MainRuns /\ dpc = "join" /\ spc = "done"
  /\ CloseAll
  /\ dpc' = "ended"
  /\ UNCHANGED <<spc, locked, sem, handler, finished, exited, quit, running, lastStatus, down,
                 clientVars, foreign, reset, signals>>

MainStep ==
  \/ EnterLoop \/ HandleNewConnection \/ HandleSockDisconnected \/ ResetSem
  \/ HandleSockReadyRead \/ CountLine \/ ReadLine \/ EndCommand \/ LeavePipe \/ NestedLine
  \/ Reply \/ Flushed \/ LeaveLoop \/ End

---------------------------------------------------------------------------
(* The Shell's own thread: run(). *)

(* It resets _finished and the status, whatever the main thread has done with them,
   and goes on to the commands given at start-up, on the same symbols as those of
   clients, and to exec(). *)
Run ==
  /\ spc = "start"
  /\ lastStatus' = crOk /\ finished' = FALSE
  /\ reset' = running
  /\ spc' = "run"
  /\ UNCHANGED <<dpc, locked, sem, handler, exited, quit, client, running, pending, conn, up,
                 down, clientVars, foreign, signals>>

(* exec() returns, also when exit() has been called before it. The main event loop
   is told to end; one that has yet to begin does not hear of it. *)
ShellExits ==
  /\ spc = "run" /\ exited
  /\ quit' = (dpc # "boot")
  /\ spc' = "done"
  /\ UNCHANGED <<dpc, locked, sem, handler, finished, exited, client, running, lastStatus,
                 pending, conn, up, down, clientVars, foreign, reset, signals>>

ShellStep == Run \/ ShellExits

---------------------------------------------------------------------------
(* SIGTERM, SIGQUIT or SIGINT: shutdown() on top of the main thread, which waits
   for itself if it holds the lock, and then for the Shell's thread. *)

Signal ==
  /\ Listening /\ handler = "none" /\ signals < MaxSignals
  /\ finished' = TRUE /\ exited' = TRUE
  /\ IF locked THEN handler' = "stuck" /\ UNCHANGED sem
     ELSE handler' = "waiting" /\ sem' = sem + 1
  /\ signals' = signals + 1
  /\ UNCHANGED <<dpc, spc, locked, quit, client, running, lastStatus, pending, conn, up, down,
                 clientVars, foreign, reset>>

HandlerReturns ==
  /\ handler = "waiting" /\ spc = "done"
  /\ handler' = "none"
  /\ UNCHANGED <<dpc, spc, locked, sem, finished, exited, quit, client, running, lastStatus,
                 pending, conn, up, down, clientVars, foreign, reset, signals>>

Next == (\E c \in Clients : ClientStep(c)) \/ MainStep \/ ShellStep \/ Signal \/ HandlerReturns

(* The daemon's threads run; a command, its pipe and the start-up end; a client's
   thread takes what arrives. Nobody has to call, give up, leave or send a signal. *)
Fairness ==
  /\ WF_vars(MainStep) /\ WF_vars(ShellStep) /\ WF_vars(HandlerReturns)
  /\ WF_vars(LeavePipe) /\ WF_vars(LeaveLoop)
  /\ \A c \in Clients : WF_vars(Deliver(c)) /\ WF_vars(Clear(c)) /\ WF_vars(Write(c))
                        /\ WF_vars(Returned(c)) /\ WF_vars(Notice(c))

Spec == Init /\ [][Next]_vars /\ Fairness

---------------------------------------------------------------------------
(* "We only accept one connection at a time" (shell.cpp:439): the connections
   that the daemon has accepted and not closed are the one that _clSocket is. *)
OneSession == \A c \in Clients : conn[c] = "open" <=> client = c

(* "Evaluates the given command cmd ... and returns the error code of the
   evaluation" (insight.h:117): eval() returns the status of its own command. *)
OwnResult == \A c \in Clients : result[c].answer.number = result[c].asked

(* What does hold. A client that has not given up waiting for the acknowledgement
   and has not been accepted within the command of another client gets the answer
   to its own command, which is the command's status unless that threw or run()
   came late and reset _lastStatus meanwhile (shell.cpp:569): a refused
   or a lost connection, a second one, or a client that left in the middle of a
   command do no harm. *)
OwnAnswer ==
  \A c \in Clients \ (late \cup foreign) :
    LET asked == result[c].asked
    IN  /\ result[c].answer.to = asked
        /\ result[c].answer.number = asked \/ asked = reset \/ Kind(asked) = "throwing"

(* eval() waits without a time-out, so an answer must come: it does unless the
   connection has been refused or closed, the daemon has been told to end, or a
   nested command has made its behaviour undefined. *)
EvalReturns ==
  \A c \in Clients :
    cpc[c] = "await" ~> \/ cpc[c] # "await" \/ conn[c] \in {"closed", "none"}
                        \/ exited \/ dpc = "undefined"

(* The daemon ends when a client or a signal tells it to, except for two cases: the
   signal came while the main thread held the lock that the handler takes, or so
   early that the main event loop had not begun when it was told to end. *)
Stops ==
  exited \/ (finished /\ spc # "start")
    ~> dpc \in {"ended", "undefined"} \/ handler = "stuck" \/ (spc = "done" /\ ~quit)
=============================================================================
