---------------------------- MODULE DeviceMuxer ----------------------------
(* DeviceMuxer (libinsight/devicemuxer.cpp): several channels over one stream
   device, a local socket. Threads of one process write packets, a header with
   the channel and the size and then the data; in the other process the thread
   that owns the socket takes the stream apart again, in a slot that its event
   loop runs, and another thread reads the channels.

   A unit stands for a byte. The header has HdrSize units, the channel and the
   size. The kernel and the socket classes may cut the stream anywhere. *)
EXTENDS Integers, FiniteSets, SequencesExt

CONSTANTS
  Writers,   \* threads that write
  Messages,  \* [Writers -> Seq([chan, data])]: the calls of writeData() each makes
  Channels,  \* numbers of the channels
  Slotted,   \* channels whose readyRead() is connected to a slot that reads all
  MaxLen,    \* the largest size of a packet (0xFFFF)
  MaxReads   \* bound: how often the reader reads or clears

HdrSize == 2
Unit == Nat
Message == [chan : Channels, data : Seq(Unit)]
NoWriter == "none"

ASSUME WritersAssumption == NoWriter \notin Writers
ASSUME ChannelsAssumption == Channels \subseteq Unit /\ Slotted \subseteq Channels
ASSUME MaxLenAssumption == MaxLen \in Nat \ {0} /\ MaxReads \in Nat
ASSUME MessagesAssumption == Messages \in [Writers -> Seq(Message)]

VARIABLES
  todo,       \* what each writer has still to write, maxSize and data of its calls
  out,        \* what writeData() has still to give to the device: its buf
  writeLock,  \* owner of _writeLock, or NoWriter
  broken,     \* the connection is gone
  wire,       \* units between the two processes
  device,     \* units the receiving socket has taken in
  events,     \* handleReadyRead() calls in the event queue
  rpc,        \* where the owner of the socket is
  chan,       \* its local variable of that name
  buffer,     \* _buffer
  data,       \* _data
  emitted,    \* _readyReadEmitted
  got,        \* what the last read returned
  reads       \* number of reads and clears (bounded by MaxReads)

writing == <<todo, out, writeLock, broken>>
receiving == <<device, events, rpc, chan, buffer>>
reading == <<data, got, reads>>
vars == <<writing, wire, receiving, emitted, reading>>

Init ==
  /\ todo = Messages /\ out = [w \in Writers |-> <<>>]
  /\ writeLock = NoWriter /\ broken = FALSE
  /\ wire = <<>> /\ device = <<>> /\ events = 0 /\ rpc = "idle" /\ chan = 0 /\ buffer = <<>>
  /\ data = [c \in Channels |-> <<>>] /\ emitted = [c \in Channels |-> FALSE]
  /\ got = <<>> /\ reads = 0

From(s, k) == SubSeq(s, k + 1, Len(s))
AtMost(m, n) == IF m < n THEN m ELSE n

---------------------------------------------------------------------------
(* writeData(): one packet after the other, at least one. *)

PacketSize(w) == AtMost(MaxLen, Len(Head(todo[w]).data))

(* Mutant: the packet is written without _writeLock. *)
MutStartPacket(w) ==
  /\ todo[w] # <<>> /\ out[w] = <<>>
  /\ out' = [out EXCEPT ![w] = <<Head(todo[w]).chan, PacketSize(w)>> \o
                               SubSeq(Head(todo[w]).data, 1, PacketSize(w))]
  /\ UNCHANGED <<todo, broken, writeLock, wire, receiving, emitted, reading>>

StartPacket(w) ==
  /\ todo[w] # <<>> /\ out[w] = <<>> /\ writeLock = NoWriter
  /\ writeLock' = w
  /\ out' = [out EXCEPT ![w] = <<Head(todo[w]).chan, PacketSize(w)>> \o
                               SubSeq(Head(todo[w]).data, 1, PacketSize(w))]
  /\ UNCHANGED <<todo, broken, wire, receiving, emitted, reading>>

(* The call of device->write() that takes k units, not yet the last ones. *)
WritePart(w) ==
  /\ out[w] # <<>> /\ ~broken
  /\ \E k \in 1 .. Len(out[w]) - 1 :
       /\ wire' = wire \o SubSeq(out[w], 1, k)
       /\ out' = [out EXCEPT ![w] = From(@, k)]
  /\ UNCHANGED <<todo, writeLock, broken, receiving, emitted, reading>>

(* The one that takes the last units. *)
WriteLast(w) ==
  /\ out[w] # <<>> /\ ~broken
  /\ wire' = wire \o out[w]
  /\ out' = [out EXCEPT ![w] = <<>>]
  /\ LET d == Head(todo[w]).data
     IN todo' = [todo EXCEPT ![w] = IF Len(d) = PacketSize(w) THEN Tail(@)
                                    ELSE [@ EXCEPT ![1].data = From(d, PacketSize(w))]]
  /\ writeLock' = NoWriter
  /\ UNCHANGED <<broken, receiving, emitted, reading>>

(* device->write() fails, and with it the call, within a packet or not. *)
WriteError(w) ==
  /\ out[w] # <<>> /\ broken
  /\ out' = [out EXCEPT ![w] = <<>>]
  /\ todo' = [todo EXCEPT ![w] = Tail(@)]
  /\ writeLock' = NoWriter
  /\ UNCHANGED <<broken, wire, receiving, emitted, reading>>

(* The connection breaks: what has not been written will not arrive. *)
Break ==
  /\ ~broken /\ broken' = TRUE
  /\ UNCHANGED <<todo, out, writeLock, wire, receiving, emitted, reading>>

---------------------------------------------------------------------------
(* The thread that owns the receiving socket. *)

(* Its event loop: the socket takes in some units and posts a call of the slot,
   which is connected with Qt::QueuedConnection. *)
Arrive ==
  /\ rpc = "idle" /\ wire # <<>>
  /\ \E k \in 1 .. Len(wire) :
       device' = device \o SubSeq(wire, 1, k) /\ wire' = From(wire, k)
  /\ events' = events + 1
  /\ UNCHANGED <<writing, rpc, chan, buffer, emitted, reading>>

HandleReadyRead ==
  /\ rpc = "idle" /\ events > 0
  /\ events' = events - 1
  /\ buffer' = buffer \o device /\ device' = <<>>
  /\ rpc' = "loop"
  /\ UNCHANGED <<writing, wire, chan, emitted, reading>>

PacketBegins ==
  /\ rpc = "loop" /\ Len(buffer) >= HdrSize
  /\ rpc' = "packet" /\ chan' = buffer[1]
  /\ UNCHANGED <<writing, wire, device, events, buffer, emitted, reading>>

LoopEnds ==
  /\ rpc = "loop" /\ Len(buffer) < HdrSize /\ rpc' = "idle"
  /\ UNCHANGED <<writing, wire, device, events, chan, buffer, emitted, reading>>

Incomplete == Len(buffer) < HdrSize + buffer[2]

(* The loop that waits for the rest of a packet, with _readLock held. Its event
   loop first runs the slot for what has arrived before, which waits for the
   lock that its own thread holds; then the socket takes in more. *)
HandleNested ==
  /\ rpc = "packet" /\ Incomplete /\ events > 0
  /\ rpc' = "stuck"
  /\ UNCHANGED <<writing, wire, device, events, chan, buffer, emitted, reading>>

Pump ==
  /\ rpc = "packet" /\ Incomplete /\ events = 0 /\ wire # <<>>
  /\ \E k \in 1 .. Len(wire) :
       /\ buffer' = buffer \o device \o SubSeq(wire, 1, k)
       /\ wire' = From(wire, k)
  /\ device' = <<>> /\ events' = 1
  /\ UNCHANGED <<writing, rpc, chan, emitted, reading>>

(* Mutant: only the data leaves the buffer, not the header before it. *)
MutRest == From(buffer, buffer[2])
Rest == From(buffer, HdrSize + buffer[2])

(* The data goes to its channel, and the packet leaves the buffer. *)
Extract ==
  /\ rpc = "packet" /\ ~Incomplete
  /\ data' = [data EXCEPT ![chan] = @ \o SubSeq(buffer, HdrSize + 1, HdrSize + buffer[2])]
  /\ buffer' = Rest
  /\ rpc' = "emit"
  /\ UNCHANGED <<writing, wire, device, events, chan, emitted, got, reads>>

(* readyRead() runs the slots at once: handleOutReadyRead() and
   handleErrReadyRead() read everything there is on their channel. *)
Emit ==
  /\ rpc = "emit"
  /\ emitted' = [emitted EXCEPT ![chan] = TRUE]
  /\ IF chan \in Slotted
     THEN got' = data[chan] /\ data' = [data EXCEPT ![chan] = <<>>]
     ELSE UNCHANGED <<got, data>>
  /\ rpc' = "refill"
  /\ UNCHANGED <<writing, wire, device, events, chan, buffer, reads>>

(* Mutant: one packet per call of the slot. *)
MutRefill ==
  /\ rpc = "refill"
  /\ buffer' = buffer \o device /\ device' = <<>>
  /\ rpc' = "idle"
  /\ UNCHANGED <<writing, wire, events, chan, emitted, reading>>

Refill ==
  /\ rpc = "refill"
  /\ buffer' = buffer \o device /\ device' = <<>>
  /\ rpc' = "loop"
  /\ UNCHANGED <<writing, wire, events, chan, emitted, reading>>

---------------------------------------------------------------------------
(* Another thread that reads the other channels. *)

(* readData() with room for max units, and readAll(). _readLock keeps readData()
   out while the owner of the socket waits for the rest of a packet. *)
ReadData(c, max) ==
  /\ rpc # "packet" /\ rpc # "stuck" /\ reads < MaxReads /\ reads' = reads + 1
  /\ LET k == AtMost(Len(data[c]), max)
     IN got' = SubSeq(data[c], 1, k) /\ data' = [data EXCEPT ![c] = From(@, k)]
  /\ UNCHANGED <<writing, wire, receiving, emitted>>

ReadAll(c) ==
  /\ reads < MaxReads /\ reads' = reads + 1
  /\ got' = data[c]
  /\ data' = [data EXCEPT ![c] = <<>>]
  /\ UNCHANGED <<writing, wire, receiving, emitted>>

(* waitForReadyRead() begins by forgetting the signals so far. *)
WaitForReadyRead(c) ==
  /\ emitted[c] /\ emitted' = [emitted EXCEPT ![c] = FALSE]
  /\ UNCHANGED <<writing, wire, receiving, reading>>

(* clear(), which Insight::eval() calls between commands, when the answer to
   the last one, the last packet the daemon sends, has arrived. *)
Clear ==
  /\ wire = <<>> /\ device = <<>> /\ buffer = <<>> /\ \A w \in Writers : out[w] = <<>>
  /\ reads < MaxReads /\ reads' = reads + 1
  /\ data' = [c \in Channels |-> <<>>]
  /\ UNCHANGED <<writing, wire, receiving, emitted, got>>

---------------------------------------------------------------------------
Owner == \/ Arrive \/ HandleReadyRead \/ PacketBegins \/ LoopEnds \/ HandleNested
         \/ Pump \/ Extract \/ Emit \/ Refill

Next == \/ \E w \in Writers : StartPacket(w) \/ WritePart(w) \/ WriteLast(w) \/ WriteError(w)
        \/ Break
        \/ Owner
        \/ \E c \in Channels \ Slotted :
             ReadAll(c) \/ WaitForReadyRead(c) \/ \E max \in 1 .. MaxLen : ReadData(c, max)
        \/ Clear

(* The event loop of the socket's owner runs. *)
Spec == Init /\ [][Next]_vars /\ WF_vars(Owner)

---------------------------------------------------------------------------
(* The data of channel c in the whole packets between the two processes. *)
InTransit(c) ==
  LET s == buffer \o device \o wire
      packets[k \in 0 .. Len(s)] ==
        IF Len(s) < k + HdrSize THEN <<>>
        ELSE IF Len(s) < k + HdrSize + s[k + 2] THEN <<>>
        ELSE (IF s[k + 1] = c THEN SubSeq(s, k + HdrSize + 1, k + HdrSize + s[k + 2]) ELSE <<>>)
             \o packets[k + HdrSize + s[k + 2]]
  IN packets[0]

(* Each channel is a pipe, wherever the stream is cut and whoever writes. *)
Pipe == INSTANCE Pipes WITH pipe  <- [c \in Channels |-> data[c] \o InTransit(c)],
                            ready <- [c \in Channels |-> Len(data[c])]
ChannelsArePipes == Pipe!Spec

(* Whole packets reach their channel, unless the socket's owner waits for
   itself: nothing else keeps them from it, not even a connection that broke
   in the middle of a later packet. *)
DeliveredOrStuck ==
  \A c \in Channels : (InTransit(c) # <<>>) ~> (InTransit(c) = <<>> \/ rpc = "stuck")

---------------------------------------------------------------------------
(* tests/devicemuxer/devicemuxertest.cpp:80: what was written on a channel of
   one muxer can be read from that channel of the other one. *)
Delivered == \A c \in Channels : (InTransit(c) # <<>>) ~> (InTransit(c) = <<>>)
=============================================================================
