----------------------------- MODULE MCSession -----------------------------
(* Two clients: the first sends a command with a pipe and the one that ends the
   daemon, the second a command that throws. *)
EXTENDS Session

MCScript == [c \in {"a", "b"} |-> IF c = "a" THEN <<"piped", "exit">> ELSE <<"throwing">>]
=============================================================================
