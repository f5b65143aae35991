--------------------------- MODULE MCDeviceMuxer ---------------------------
(* Two threads that write: one a message of two packets on the channel that a
   slot empties, the other an answer on the channel that is read. The numbers
   of the channels differ from every size and datum. *)
EXTENDS DeviceMuxer

Out == 7
Ret == 9
MCMessages == [w \in {"out", "ret"} |->
  IF w = "out" THEN <<[chan |-> Out, data |-> <<11, 12, 13>>]>>
  ELSE <<[chan |-> Ret, data |-> <<21>>]>>]
=============================================================================
