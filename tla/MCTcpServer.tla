---------------------------- MODULE MCTcpServer ----------------------------
(* TcpServer with two connections at a time and no other threads, or with  *)
(* one connection after another on the same descriptor and a worker.       *)
EXTENDS TcpServer

CONSTANTS c1, c2, c3, w1

MCConns == {c1, c2, c3}
MCFdOf == [c \in Conns \cup {Listener} |->
             CASE c = Listener -> 0 [] c = c1 -> 1 [] c = c2 -> 2 [] OTHER -> 1]

TwoAtATime   == [conns |-> {c1, c2}, workers |-> {}, maxOut |-> 1]
OneByAnother == [conns |-> {c1, c3}, workers |-> {w1}, maxOut |-> 2]
MCScenes == {TwoAtATime, OneByAnother}
=============================================================================
