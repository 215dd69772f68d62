----------------------------- MODULE EchoServer -----------------------------
(***************************************************************************)
(* The echo servers under application/ with their clients: one connection  *)
(* after another (echoServer.cpp), a child process per connection          *)
(* (echoServerp.cpp), a select() loop (echoServerm.cpp) and prethreaded    *)
(* workers behind a SharedBuf (echoServert.cpp); with the wrappers of      *)
(* socketDetail.cpp and unixUtility.cpp they are built on.                 *)
(*                                                                         *)
(* A line is two pieces, so that a segment may end inside of it.  A server *)
(* reads lines with Riob::readlineb(), which blocks until a line is        *)
(* complete and keeps what it read beyond that in its own buffer, where    *)
(* select() does not see it.  Its error result -1 is a positive size_t in  *)
(* echo(), which on descriptor -1, what a failed Accept() returned, never  *)
(* ends (spinning).  The standard input of the select() server, which it   *)
(* echoes as well, is a client like the others.                            *)
(***************************************************************************)
EXTENDS Naturals, Sequences, FiniteSets

CONSTANTS
    Kinds,        \* the servers: a subset of AllKinds
    Clients,
    EchoClients,  \* those of them that run echoClient.cpp
    Lines,        \* how many lines each of them sends
    Workers,      \* NTHREADS
    Capacity,     \* of the SharedBuf
    MaxAddrs,     \* bound: addresses that getaddrinfo() returns
    MaxFailures,  \* bound: failures of accept() and fork()
    None

AllKinds == {"iterative", "fork", "select", "threads"}

ASSUME EchoAssumption ==
    /\ Kinds \subseteq AllKinds
    /\ EchoClients \subseteq Clients /\ None \notin Clients
    /\ Lines \in [Clients -> Nat]
    /\ Workers \in Nat /\ Capacity \in Nat \ {0}
    /\ MaxAddrs \in Nat /\ MaxFailures \in Nat

VARIABLES
    kind,       \* the server that runs
    peer,       \* per client: "open", "closed", "reset", or "gone" once
                \* the server knows that it was reset
    sent,       \* pieces it sent
    stage,      \* of its connection: "none", "backlog", "accepted",
                \* "buffered" in the SharedBuf, "pool" of the select()
                \* server, "served" by somebody in echo(), or "done"
    got,        \* pieces the Riob of the connection has read
    echoed,     \* lines that were written back
    main,       \* where main() is
    addrs,      \* addresses openListenFd() has not tried
    connfd,     \* the connection main() accepted, None for descriptor -1
    holders,    \* per connection: processes with an open descriptor of it
    buf,        \* the SharedBuf
    ready,      \* readySet
    spinning,   \* processes or threads in an echo() that never ends
    zombies,    \* children that exited and were not waited for
    sigchld,    \* SIGCHLD is pending
    handler,    \* sigchld_handler() runs on the stack of main()
    failures    \* so far

clientVars == <<peer, sent>>
connVars   == <<stage, got, echoed, holders>>
mainVars   == <<main, addrs, connfd, buf, ready>>
procVars   == <<spinning, zombies, sigchld, handler>>
vars == <<kind, clientVars, connVars, mainVars, procVars, failures>>

TypeOK ==
    /\ kind \in Kinds
    /\ peer \in [Clients -> {"open", "closed", "reset", "gone"}]
    /\ stage \in [Clients -> {"none", "backlog", "accepted", "buffered",
                              "pool", "served", "done"}]
    /\ \A c \in Clients : /\ sent[c] \in 0..2 * Lines[c]
                          /\ got[c] \in 0..sent[c]
                          /\ 2 * echoed[c] <= got[c]
    /\ main \in {"open", "accept", "fork", "close", "insert", "echo",
                 "select", "handle", "dead"}
    /\ addrs \in 0..MaxAddrs
    /\ connfd \in Clients \cup {None}
    /\ holders \in [Clients -> SUBSET {"parent", "child"}]
    /\ buf \in Seq(Clients \cup {None}) /\ Len(buf) <= Capacity
    /\ ready \subseteq Clients
    /\ spinning \in 0..MaxFailures
    /\ zombies \subseteq Clients
    /\ sigchld \in BOOLEAN /\ handler \in BOOLEAN
    /\ failures \in 0..MaxFailures

(* getaddrinfo() returned some addresses, or failed. *)
Init ==
    /\ kind \in Kinds
    /\ peer = [c \in Clients |-> "open"]
    /\ sent = [c \in Clients |-> 0]
    /\ stage = [c \in Clients |-> "none"]
    /\ got = [c \in Clients |-> 0] /\ echoed = [c \in Clients |-> 0]
    /\ main = "open"
    /\ addrs \in 0..MaxAddrs
    /\ connfd = None
    /\ holders = [c \in Clients |-> {}]
    /\ buf = <<>> /\ ready = {}
    /\ spinning = 0 /\ zombies = {}
    /\ sigchld = FALSE /\ handler = FALSE
    /\ failures = 0

Listening == main # "open" /\ addrs > 0
At(where) == main = where /\ ~handler
LoopStart == IF kind = "select" THEN "select" ELSE "accept"

-----------------------------------------------------------------------------
(* Clients.                                                                *)

(* connect() succeeds as soon as the server listens *)
Connect(c) ==
    /\ Listening /\ main # "dead"
    /\ stage[c] = "none"
    /\ stage' = [stage EXCEPT ![c] = "backlog"]
    /\ UNCHANGED <<kind, clientVars, got, echoed, holders, mainVars, procVars,
                   failures>>

(* Another piece arrives.  echoClient reads the echo of a line before it   *)
(* sends the next one.                                                     *)
MidLine(c) == sent[c] % 2 = 1

Arrive(c) ==
    /\ stage[c] # "none" /\ peer[c] = "open"
    /\ sent[c] < 2 * Lines[c]
    /\ c \in EchoClients => MidLine(c) \/ sent[c] = 2 * echoed[c]
    /\ sent' = [sent EXCEPT ![c] = @ + 1]
    /\ UNCHANGED <<kind, peer, connVars, mainVars, procVars, failures>>

(* A client closes its end, or goes away; echoClient does not go before it *)
(* has read what it waits for.                                             *)
Leave(c) ==
    /\ stage[c] # "none"
    /\ \/ /\ peer[c] = "open"
          /\ c \in EchoClients => sent[c] = 2 * echoed[c]
          /\ peer' = [peer EXCEPT ![c] = "closed"]
       \/ /\ c \notin EchoClients /\ peer[c] \in {"open", "closed"}
          /\ peer' = [peer EXCEPT ![c] = "reset"]
    /\ UNCHANGED <<kind, sent, connVars, mainVars, procVars, failures>>

-----------------------------------------------------------------------------
(* OpenListenFd(): try the addresses in turn.  A failure is not looked at: *)
(* main() goes on with descriptor -1.                                      *)
OpenListenFd ==
    /\ main = "open"
    /\ \/ /\ addrs > 0
          /\ \/ main' = LoopStart /\ UNCHANGED addrs    \* bound, listening
             \/ main' = "dead" /\ UNCHANGED addrs       \* Listen() aborts
             \/ addrs' = addrs - 1 /\ UNCHANGED main    \* socket() or bind() failed
       \/ /\ addrs = 0
          /\ main' = IF kind = "select" THEN "dead"     \* FD_SET(-1, ...)
                                        ELSE LoopStart
          /\ UNCHANGED addrs
    /\ UNCHANGED <<kind, clientVars, connVars, connfd, buf, ready, procVars,
                   failures>>

(* Where main() goes with a new descriptor. *)
Accepted(where) ==
    \/ /\ \E c \in Clients :
             /\ stage[c] = "backlog"
             /\ stage' = [stage EXCEPT ![c] = "accepted"]
             /\ holders' = [holders EXCEPT ![c] = {"parent"}]
             /\ connfd' = c
       /\ main' = where
       /\ UNCHANGED failures
    \/ /\ failures < MaxFailures
       /\ failures' = failures + 1
       /\ connfd' = None
       /\ main' = where
       /\ UNCHANGED <<stage, holders>>

(* Accept() in the loop of main(): restarted when sigchld_handler() ran    *)
Accept ==
    /\ At("accept")
    /\ Accepted(CASE kind = "fork" -> "fork"
                  [] kind = "threads" -> "insert"
                  [] kind = "iterative" -> "echo")
    /\ UNCHANGED <<kind, clientVars, got, echoed, addrs, buf, ready, procVars>>

-----------------------------------------------------------------------------
(* echo(), for whoever serves c.                                           *)

LineThere(c) == got[c] >= 2 * (echoed[c] + 1)
Broken(c) == peer[c] = "reset"

(* readlineb() finds no newline in the Riob's buffer and reads on.  What   *)
(* came before a reset may still be there.                                 *)
Refill(c) ==
    /\ stage[c] = "served" /\ main # "dead"
    /\ ~LineThere(c)
    /\ \E n \in got[c] + 1..sent[c] : got' = [got EXCEPT ![c] = n]
    /\ UNCHANGED <<kind, clientVars, stage, echoed, holders, mainVars,
                   procVars, failures>>

(* the select() server that stays with a connection until it ends *)
EchoToTheEnd(c) ==
    /\ stage[c] = "served" /\ main # "dead"
    /\ LineThere(c)
    /\ echoed' = [echoed EXCEPT ![c] = @ + 1]
    /\ UNCHANGED <<kind, clientVars, stage, got, holders, mainVars, procVars,
                   failures>>

(* readlineb() returns a line and writen() sends it back.  The select()    *)
(* server goes on with its next ready descriptor; the others stay in       *)
(* echo(), whether the write fails or not.                                 *)
EchoLine(c) ==
    /\ stage[c] = "served" /\ main # "dead"
    /\ LineThere(c)
    /\ echoed' = [echoed EXCEPT ![c] = @ + 1]
    /\ IF kind = "select" THEN stage' = [stage EXCEPT ![c] = "pool"]
                          ELSE UNCHANGED stage
    /\ UNCHANGED <<kind, clientVars, got, holders, mainVars, procVars, failures>>

(* readlineb() returns 0, after a line without newline was echoed; Close() *)
Release(c) ==
    /\ stage' = [stage EXCEPT ![c] = "done"]
    /\ \/ /\ kind = "fork"    \* and exit(): the parent gets a SIGCHLD
          /\ holders' = [holders EXCEPT ![c] = @ \ {"child"}]
          /\ zombies' = zombies \cup {c}
          /\ sigchld' = TRUE
          /\ UNCHANGED main
       \/ /\ kind # "fork"
          /\ holders' = [holders EXCEPT ![c] = {}]
          /\ main' = IF kind = "iterative" THEN "accept" ELSE main
          /\ UNCHANGED <<zombies, sigchld>>

(* The client left.  An unfinished line is not echoed before the close.    *)
EndOfFile(c) ==
    /\ stage[c] = "served" /\ main # "dead"
    /\ peer[c] \in {"closed", "gone"}
    /\ got[c] = sent[c] /\ ~LineThere(c)
    /\ Release(c)
    /\ UNCHANGED <<kind, clientVars, got, echoed, addrs, connfd, buf, ready,
                   spinning, handler, failures>>

(* The write of a line on a reset connection may raise SIGPIPE, which ends *)
(* the process.                                                            *)
Sigpipe(c) ==
    /\ stage[c] = "served" /\ main # "dead"
    /\ Broken(c) /\ LineThere(c)
    /\ \/ /\ kind = "fork"
          /\ Release(c)
       \/ /\ kind # "fork"
          /\ main' = "dead"
          /\ UNCHANGED <<stage, holders, zombies, sigchld>>
    /\ UNCHANGED <<kind, clientVars, got, echoed, addrs, connfd, buf, ready,
                   spinning, handler, failures>>

(* A read on a reset connection fails once, and finds the end of file from *)
(* then on.  The select() server logs it and goes on.  echo() takes -1 for *)
(* a length, tries to write as much, which fails too, and reads again.     *)
ReadError(c) ==
    /\ stage[c] = "served" /\ main # "dead"
    /\ Broken(c) /\ ~LineThere(c)
    /\ peer' = [peer EXCEPT ![c] = "gone"]
    /\ sent' = [sent EXCEPT ![c] = got[c]]
    /\ IF kind = "select" THEN stage' = [stage EXCEPT ![c] = "pool"]
                          ELSE UNCHANGED stage
    /\ UNCHANGED <<kind, got, echoed, holders, mainVars, procVars, failures>>

-----------------------------------------------------------------------------
(* echoServer.cpp *)
EchoItself ==
    /\ At("echo")
    /\ \/ /\ connfd # None /\ stage[connfd] = "accepted"
          /\ stage' = [stage EXCEPT ![connfd] = "served"]
          /\ UNCHANGED spinning
       \/ /\ connfd = None /\ spinning = 0
          /\ spinning' = 1
          /\ UNCHANGED stage
    /\ UNCHANGED <<kind, clientVars, got, echoed, holders, mainVars, zombies,
                   sigchld, handler, failures>>

-----------------------------------------------------------------------------
(* echoServerp.cpp *)

(* Fork(); a failure is taken for the parent's side *)
Fork ==
    /\ At("fork")
    /\ main' = "close"
    /\ \/ /\ connfd # None
          /\ stage' = [stage EXCEPT ![connfd] = "served"]
          /\ holders' = [holders EXCEPT ![connfd] = @ \cup {"child"}]
          /\ UNCHANGED <<spinning, failures>>
       \/ /\ connfd = None
          /\ spinning' = spinning + 1
          /\ UNCHANGED <<stage, holders, failures>>
       \/ /\ failures < MaxFailures
          /\ failures' = failures + 1
          /\ UNCHANGED <<stage, holders, spinning>>
    /\ UNCHANGED <<kind, clientVars, got, echoed, addrs, connfd, buf, ready,
                   zombies, sigchld, handler>>

(* the parent that leaves the descriptor to the child *)
ParentKeeps ==
    /\ At("close")
    /\ main' = "accept"
    /\ UNCHANGED <<kind, clientVars, connVars, addrs, connfd, buf, ready,
                   procVars, failures>>

ParentCloses ==
    /\ At("close")
    /\ main' = "accept"
    /\ \/ /\ connfd # None
          /\ holders' = [holders EXCEPT ![connfd] = @ \ {"parent"}]
          /\ stage' = IF stage[connfd] = "accepted"
                        THEN [stage EXCEPT ![connfd] = "done"] ELSE stage
       \/ /\ connfd = None
          /\ UNCHANGED <<stage, holders>>
    /\ UNCHANGED <<kind, clientVars, got, echoed, addrs, connfd, buf, ready,
                   procVars, failures>>

(* SIGCHLD interrupts main(); signals that come meanwhile are one signal. *)
DeliverSigchld ==
    /\ sigchld /\ ~handler
    /\ sigchld' = FALSE
    /\ handler' = TRUE
    /\ UNCHANGED <<kind, clientVars, connVars, mainVars, spinning, zombies,
                   failures>>

(* one child per signal *)
ReapOne ==
    /\ handler
    /\ handler' = FALSE
    /\ \E c \in zombies : zombies' = zombies \ {c}
    /\ UNCHANGED <<kind, clientVars, connVars, mainVars, spinning, sigchld,
                   failures>>

(* a round of the loop in sigchld_handler(): waitpid() with WNOHANG *)
Reap ==
    /\ handler
    /\ \/ /\ \E c \in zombies : zombies' = zombies \ {c}
          /\ UNCHANGED handler
       \/ /\ zombies = {}
          /\ handler' = FALSE
          /\ UNCHANGED zombies
    /\ UNCHANGED <<kind, clientVars, connVars, mainVars, spinning, sigchld,
                   failures>>

-----------------------------------------------------------------------------
(* echoServert.cpp.  SharedBuf is taken for the bounded buffer it is.      *)

Insert ==
    /\ At("insert")
    /\ Len(buf) < Capacity
    /\ buf' = Append(buf, connfd)
    /\ stage' = IF connfd = None THEN stage
                                 ELSE [stage EXCEPT ![connfd] = "buffered"]
    /\ main' = "accept"
    /\ UNCHANGED <<kind, clientVars, got, echoed, holders, addrs, connfd,
                   ready, procVars, failures>>

Busy == Cardinality({c \in Clients : stage[c] = "served"}) + spinning

Remove ==
    /\ kind = "threads" /\ main # "dead"
    /\ Busy < Workers
    /\ buf # <<>>
    /\ buf' = Tail(buf)
    /\ \/ /\ Head(buf) # None
          /\ stage' = [stage EXCEPT ![Head(buf)] = "served"]
          /\ UNCHANGED spinning
       \/ /\ Head(buf) = None
          /\ spinning' = spinning + 1
          /\ UNCHANGED stage
    /\ UNCHANGED <<kind, clientVars, got, echoed, holders, main, addrs, connfd,
                   ready, zombies, sigchld, handler, failures>>

-----------------------------------------------------------------------------
(* echoServerm.cpp *)

Readable(c) ==
    stage[c] = "pool" /\ (got[c] < sent[c] \/ peer[c] # "open")

(* Select(), and the Accept() when the listener is ready *)
Select ==
    /\ main = "select"
    /\ \/ \E c \in Clients : Readable(c)
       \/ \E c \in Clients : stage[c] = "backlog"
    /\ ready' = {c \in Clients : Readable(c)}
    /\ \/ /\ \E c \in Clients :
                /\ stage[c] = "backlog"
                /\ stage' = [stage EXCEPT ![c] = "pool"]
                /\ holders' = [holders EXCEPT ![c] = {"parent"}]
          /\ main' = "handle"
          /\ UNCHANGED failures
       \/ /\ \A c \in Clients : stage[c] # "backlog"
          /\ main' = "handle"
          /\ UNCHANGED <<stage, holders, failures>>
       \/ /\ failures < MaxFailures    \* FD_SET(-1, ...)
          /\ \E c \in Clients : stage[c] = "backlog"
          /\ failures' = failures + 1
          /\ main' = "dead"
          /\ UNCHANGED <<stage, holders>>
    /\ UNCHANGED <<kind, clientVars, got, echoed, addrs, connfd, buf, procVars>>

(* the loop over the pool, in the order of an unordered_map *)
HandleReady ==
    /\ main = "handle"
    /\ \A c \in Clients : stage[c] # "served"
    /\ \/ /\ \E c \in ready :
                /\ ready' = ready \ {c}
                /\ stage' = [stage EXCEPT ![c] = "served"]
          /\ UNCHANGED main
       \/ /\ ready = {}
          /\ main' = "select"
          /\ UNCHANGED <<ready, stage>>
    /\ UNCHANGED <<kind, clientVars, got, echoed, holders, addrs, connfd, buf,
                   procVars, failures>>

-----------------------------------------------------------------------------
Serve(c) == Refill(c) \/ EchoLine(c) \/ EndOfFile(c) \/ Sigpipe(c) \/ ReadError(c)

MainStep ==
    \/ OpenListenFd \/ Accept \/ EchoItself \/ Fork \/ ParentCloses
    \/ Insert \/ Select \/ HandleReady

Next ==
    \/ MainStep \/ DeliverSigchld \/ Reap \/ Remove
    \/ \E c \in Clients : Connect(c) \/ Arrive(c) \/ Leave(c) \/ Serve(c)

(* Every process and thread is scheduled, and the rest of a line that      *)
(* echoClient wrote arrives.                                               *)
Fairness ==
    /\ WF_vars(MainStep) /\ WF_vars(DeliverSigchld) /\ WF_vars(Reap)
    /\ WF_vars(Remove)
    /\ \A c \in Clients : WF_vars(Serve(c))
    /\ \A c \in EchoClients : WF_vars(MidLine(c) /\ Arrive(c))

Spec == Init /\ [][Next]_vars /\ Fairness

-----------------------------------------------------------------------------
(* The server is kept from c: by another client in the iterative one, by   *)
(* as many as there are workers in the threaded one, by a client that      *)
(* leaves a line unfinished in the select() one, by nobody in the forking  *)
(* one.                                                                    *)
HeldUp(c) ==
    \/ main = "dead"
    \/ kind = "iterative" /\ main = "echo" /\ connfd # c
    \/ kind = "threads" /\ stage[c] # "served" /\ Busy = Workers
    \/ kind = "select" /\ \E d \in Clients \ (EchoClients \cup {c}) :
                             stage[d] = "served" /\ peer[d] = "open" /\ MidLine(d)

(* A line that echoClient sent comes back, unless others hold up the       *)
(* server for good or no child could be forked for the connection.  It is  *)
(* not so for a client that sends several lines at once to the select()    *)
(* server: the second one may stay in the Riob.                            *)
LinesEchoed ==
    \A c \in EchoClients : \A n \in 1..Lines[c] :
        sent[c] = 2 * n
            ~> echoed[c] >= n \/ []HeldUp(c) \/ (stage[c] = "done" /\ failures > 0)

(* When a client closed its connection or reset it, the server closes      *)
(* every copy of its descriptor, so that the connection ends, unless       *)
(* others hold up the server for good.                                     *)
ConnectionsReleased ==
    \A c \in Clients :
        peer[c] # "open"
            ~> (stage[c] = "done" /\ holders[c] = {}) \/ []HeldUp(c)

(* A child that exited is never forgotten: while one waits to be reaped, a *)
(* SIGCHLD is pending or sigchld_handler() runs, although the signals of   *)
(* several children are one signal.                                        *)
NoForgottenChild ==
    /\ TypeOK
    /\ zombies # {} => sigchld \/ handler
=============================================================================
