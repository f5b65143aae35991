------------------------------- MODULE Pipes -------------------------------
(* What the channels of a DeviceMuxer promise: each is a pipe of its own. What
   is written on a channel can be read from that channel, in order, once, and
   mixed with nothing else, whatever is written on the other channels of the
   device at the same time. *)
EXTENDS Integers, SequencesExt

CONSTANTS Channels,  \* the channels
          Writers    \* the threads that write

VARIABLES todo,   \* [Writers -> Seq([chan, data])]: what is still to be written
          pipe,   \* [Channels -> Seq]: written and not read yet
          ready,  \* [Channels -> Nat]: how many units of it can be read already
          got     \* what the last read returned

vars == <<todo, pipe, ready, got>>

(* Writes the next k units of a writer's message. *)
Write(w) ==
  /\ todo[w] # <<>>
  /\ LET m == Head(todo[w])
     IN \E k \in 0 .. Len(m.data) :
          /\ pipe' = [pipe EXCEPT ![m.chan] = @ \o SubSeq(m.data, 1, k)]
          /\ todo' = [todo EXCEPT ![w] =
               IF k = Len(m.data) THEN Tail(@)
               ELSE [@ EXCEPT ![1].data = SubSeq(m.data, k + 1, Len(m.data))]]
  /\ UNCHANGED <<ready, got>>

(* A write fails: the rest of the message is not written. *)
Fail(w) == /\ todo[w] # <<>>
           /\ todo' = [todo EXCEPT ![w] = Tail(@)] /\ UNCHANGED <<pipe, ready, got>>

Deliver(c) == \E k \in ready[c] .. Len(pipe[c]) :
  ready' = [ready EXCEPT ![c] = k] /\ UNCHANGED <<todo, pipe, got>>

Read(c) == \E k \in 0 .. ready[c] :
  /\ got' = SubSeq(pipe[c], 1, k)
  /\ pipe' = [pipe EXCEPT ![c] = SubSeq(@, k + 1, Len(@))]
  /\ ready' = [ready EXCEPT ![c] = @ - k]
  /\ UNCHANGED todo

(* Wipes all that can be read, on every channel. *)
Clear ==
  /\ pipe' = [c \in Channels |-> SubSeq(pipe[c], ready[c] + 1, Len(pipe[c]))]
  /\ ready' = [c \in Channels |-> 0]
  /\ UNCHANGED <<todo, got>>

Next == \/ \E w \in Writers : Write(w) \/ Fail(w)
        \/ \E c \in Channels : Deliver(c) \/ Read(c)
        \/ Clear

Spec == /\ pipe = [c \in Channels |-> <<>>] /\ ready = [c \in Channels |-> 0] /\ got = <<>>
        /\ [][Next]_vars
=============================================================================
