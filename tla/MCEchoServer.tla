---------------------------- MODULE MCEchoServer ----------------------------
(* All four echo servers, with an echoClient and a client that sends and   *)
(* leaves as it likes.                                                     *)
EXTENDS EchoServer

CONSTANTS a, x

MCLines == [c \in {a, x} |-> 2]
=============================================================================
