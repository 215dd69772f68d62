------------------------------ MODULE TcpServer ------------------------------
(***************************************************************************)
(* TcpServer and its TcpConnections on the Poller of one EventLoop         *)
(* (src/TcpServer.cpp, TcpConnection.cpp, Acceptor.cpp, Socket.cpp and the *)
(* dispatch of Channel::handleEvent()).  TcpServer::run() never starts     *)
(* _threadPool, so nextLoop() returns the server's own loop for every      *)
(* connection and one thread runs all of this.                             *)
(*                                                                         *)
(* The application is its callbacks on the loop thread, and Workers: other *)
(* threads that call send() and shutdown() on connections a callback gave  *)
(* them.  The loop is taken at the level of what EventLoop guarantees:     *)
(* queued functors run in order, after the channels of a poll() were       *)
(* dispatched, and a functor queued by a functor waits for the next round. *)
(*                                                                         *)
(* A TcpConnection lives as long as a shared_ptr to it (Live).  fault      *)
(* records the first failed assertion, use of a destroyed connection, or   *)
(* write to a socket that was shut down for writing (nothing handles       *)
(* SIGPIPE); the model stops there, as a build with assertions does.       *)
(***************************************************************************)
EXTENDS Integers, Sequences, FiniteSets

CONSTANTS
    Conns,       \* the connections accepted over time
    Listener,    \* the acceptor's channel
    FdOf,        \* descriptors of the connections and the listener
    Workers,     \* application threads
    Scenes,      \* what a run of the server meets: conns, workers and maxOut,
                 \* the bound on the messages that wait in one connection
    WorkerCalls, \* what they call: a subset of {"send", "shutdown"}
    None

Faults == {"assertion", "use after free", "SIGPIPE"}

ASSUME ServerAssumption ==
    /\ Listener \notin Conns
    /\ FdOf \in [Conns \cup {Listener} -> Nat]
    /\ \A c \in Conns : FdOf[c] # FdOf[Listener]   \* which stays open
    /\ Scenes \subseteq [conns : SUBSET Conns, workers : SUBSET Workers, maxOut : Nat]
    /\ WorkerCalls \subseteq {"send", "shutdown"}
    /\ None \notin Conns /\ None \notin Faults

VARIABLES
    scene,          \* one of Scenes
    poller,         \* see Poller
    activeChannels, \* outstanding handleEvent() calls: [chan, revents]
    phase,          \* of the loop: "poll", "handle" or "run"
    functors,       \* the vector processFunctors() runs
    next,           \* position of its functor in progress
    queue,          \* _unprocessedFunctors: [op, conn]
    callback,       \* the connection whose application callback runs, or None
    connections,    \* _connections
    state,          \* TcpConnection::_state; "NONE" before it is constructed
    out,            \* messages in _outputBuffer
    shutWr,         \* the socket was shut down for writing
    peerClosed,     \* the peer closed its end and all it sent was read
    appRefs,        \* connections the application holds a shared_ptr to
    pc,             \* per worker: None or [at, conn], inside a call
    told,           \* history: what the application heard of a connection
    fault

vars == <<scene, poller, activeChannels, phase, functors, next, queue,
          callback, connections, state, out, shutWr, peerClosed, appRefs, pc,
          told, fault>>

loopVars == <<activeChannels, phase, functors, next>>
connVars == <<connections, state, out, shutWr, told>>
appVars  == <<scene, appRefs, pc>>

P == INSTANCE Poller WITH Channels <- Conns \cup {Listener},
                          activeChannels <- <<>>

States == {"NONE", "CONNECTING", "CONNECTED", "DISCONNECTING", "DISCONNECTED"}
Functor == [op : {"establish", "destroy", "send", "shutdown"}, conn : Conns]

TypeOK ==
    /\ scene \in Scenes
    /\ P!TypeOK
    /\ activeChannels \in Seq([chan : Conns \cup {Listener},
                               revents : SUBSET {"IN", "OUT", "HUP"}])
    /\ phase \in {"poll", "handle", "run"}
    /\ functors \in Seq(Functor) /\ queue \in Seq(Functor)
    /\ next \in 1..Len(functors) + 1
    /\ callback \in Conns \cup {None}
    /\ connections \subseteq Conns /\ appRefs \subseteq Conns
    /\ state \in [Conns -> States]
    /\ out \in [Conns -> Nat]
    /\ shutWr \in [Conns -> BOOLEAN] /\ peerClosed \in [Conns -> BOOLEAN]
    /\ told \in [Conns -> {"none", "up", "down", "wrong"}]
    /\ pc \in [Workers -> {None} \cup
                          [at   : {"queueSend", "setState", "queueShutdown"},
                           conn : Conns]]

(* listen() was called: the acceptor's channel is registered. *)
Init ==
    /\ scene \in Scenes
    /\ poller = P!EnableReading(P!NoChannels, Listener)
    /\ activeChannels = <<>>
    /\ phase = "poll"
    /\ functors = <<>> /\ next = 1 /\ queue = <<>>
    /\ callback = None
    /\ connections = {}
    /\ state = [c \in Conns |-> "NONE"]
    /\ out = [c \in Conns |-> 0]
    /\ shutWr = [c \in Conns |-> FALSE]
    /\ peerClosed = [c \in Conns |-> FALSE]
    /\ appRefs = {}
    /\ pc = [w \in Workers |-> None]
    /\ told = [c \in Conns |-> "none"]
    /\ fault = None

(* Every functor but send()'s, which captures this, holds a shared_ptr;    *)
(* the vector of processFunctors() keeps its functors until it returns.    *)
Owning(fs, c) == \E i \in 1..Len(fs) : fs[i].conn = c /\ fs[i].op # "send"

Live(c) ==
    \/ c \in connections \cup appRefs \cup {callback}
    \/ Owning(queue, c) \/ Owning(functors, c)
    \/ \E w \in Workers : pc[w] # None /\ pc[w].conn = c

IsWriting(c) == "WRITE" \in poller.events[c]

(* assert() *)
AssertThat(condition) == fault' = IF condition THEN None ELSE "assertion"

Running == fault = None

(* The ConnectionCallback or the MessageCallback of c is called: up comes  *)
(* first, then messages, then down.                                        *)
Tell(c, what) ==
    LET expected == {<<"none", "up", "up">>, <<"up", "message", "up">>,
                     <<"up", "down", "down">>}
    IN  /\ callback' = c
        /\ told' = [told EXCEPT ![c] =
                       IF \E then \in {"up", "down"} : <<@, what, then>> \in expected
                         THEN CHOOSE then \in {"up", "down"} :
                                 <<@, what, then>> \in expected
                         ELSE "wrong"]

-----------------------------------------------------------------------------
(* The loop.                                                               *)

LoopAt(where) == Running /\ phase = where /\ callback = None

(* What poll(2) may report for a channel it looks at: readable data or end *)
(* of file, room for output, a hang-up once the peer closed.               *)
Reports(c) ==
    IF c = Listener
      THEN {{}, {"IN"}}
      ELSE {r \in SUBSET {"IN", "OUT", "HUP"} :
              /\ "IN" \in r => "READ" \in poller.events[c]
              /\ "OUT" \in r => "WRITE" \in poller.events[c]
              /\ "HUP" \in r => peerClosed[c]
              /\ peerClosed[c] => "IN" \in r \/ "HUP" \in r}

(* poll() returns for the reported channels, or because the eventfd was    *)
(* written when a functor was queued.                                      *)
Poll ==
    /\ LoopAt("poll")
    /\ \E reports \in [P!Pollable(poller) -> SUBSET {"IN", "OUT", "HUP"}] :
          LET ready == {i \in P!Pollable(poller) : reports[i] # {}}
          IN  /\ \A i \in P!Pollable(poller) :
                    reports[i] \in Reports(poller.channels[poller.fds[i].fd])
              /\ ready # {} \/ queue # <<>>
              /\ \E hit \in P!InOrder(ready) :
                    activeChannels' =
                        [k \in DOMAIN hit |->
                            [chan    |-> P!FillActiveChannels(poller, hit)[k],
                             revents |-> reports[hit[k]]]]
    /\ phase' = "handle"
    /\ UNCHANGED <<poller, functors, next, queue, callback, connVars,
                   peerClosed, appVars, fault>>

Dispatched == Head(activeChannels)

(* handleEvent() goes on with the bits it has not looked at yet. *)
Handled(bits) ==
    activeChannels' =
        [activeChannels EXCEPT ![1].revents = @ \ bits]

HandleEventReturns ==
    /\ LoopAt("handle")
    /\ activeChannels # <<>>
    /\ Dispatched.revents = {}
    /\ activeChannels' = Tail(activeChannels)
    /\ UNCHANGED <<poller, phase, functors, next, queue, callback, connVars,
                   peerClosed, appVars, fault>>

ProcessFunctors ==
    /\ LoopAt("handle")
    /\ activeChannels = <<>>
    /\ functors' = queue
    /\ queue' = <<>>
    /\ next' = 1
    /\ phase' = "run"
    /\ UNCHANGED <<poller, activeChannels, callback, connVars, peerClosed,
                   appVars, fault>>

ProcessFunctorsReturns ==
    /\ LoopAt("run")
    /\ next > Len(functors)
    /\ functors' = <<>>
    /\ next' = 1
    /\ phase' = "poll"
    /\ UNCHANGED <<poller, activeChannels, queue, callback, connVars,
                   peerClosed, appVars, fault>>

AtFunctor(op, c) ==
    /\ LoopAt("run")
    /\ next <= Len(functors)
    /\ functors[next] = [op |-> op, conn |-> c]

-----------------------------------------------------------------------------
(* Opening and closing a connection.                                       *)

(* The connection enters the map; establishConnection() is queued even on  *)
(* the loop's own thread.                                                  *)
NewConnectionHandler(c) ==
    /\ state' = [state EXCEPT ![c] = "CONNECTING"]
    /\ connections' = connections \cup {c}
    /\ queue' = Append(queue, [op |-> "establish", conn |-> c])

(* Acceptor::incomingHandler(): accept() returns a descriptor that is not  *)
(* open, or fails.                                                         *)
IncomingHandler ==
    /\ LoopAt("handle")
    /\ activeChannels # <<>>
    /\ Dispatched.chan = Listener /\ "IN" \in Dispatched.revents
    /\ Handled({"IN"})
    /\ \/ UNCHANGED <<state, connections, queue>>
       \/ \E c \in scene.conns :
             /\ state[c] = "NONE"
             /\ \A d \in Conns : Live(d) => FdOf[d] # FdOf[c]
             /\ NewConnectionHandler(c)
    /\ UNCHANGED <<poller, phase, functors, next, callback, out, shutWr,
                   told, peerClosed, appVars, fault>>

(* establishConnection(), up to the ConnectionCallback *)
EstablishConnection(c) ==
    /\ AtFunctor("establish", c)
    /\ AssertThat(state[c] = "CONNECTING" /\ P!UpdateAsserts(poller, c))
    /\ state' = [state EXCEPT ![c] = "CONNECTED"]
    /\ poller' = P!EnableReading(poller, c)
    /\ Tell(c, "up")
    /\ UNCHANGED <<loopVars, queue, connections, out, shutWr, peerClosed,
                   appVars>>

(* closeHandler() whose connection is only erased from the map *)
CloseWithoutDestroy(c) ==
    /\ AssertThat(state[c] \in {"CONNECTED", "DISCONNECTING"} /\ c \in connections)
    /\ poller' = P!DisableAll(poller, c)
    /\ connections' = connections \ {c}
    /\ UNCHANGED queue

(* closeHandler() that queues destroyConnection() itself as well *)
CloseDestroysTwice(c) ==
    /\ AssertThat(state[c] \in {"CONNECTED", "DISCONNECTING"} /\ c \in connections)
    /\ poller' = P!DisableAll(poller, c)
    /\ connections' = connections \ {c}
    /\ queue' = queue \o <<[op |-> "destroy", conn |-> c],
                           [op |-> "destroy", conn |-> c]>>

(* TcpServer::removeConnection() runs removeConnectionInLoopThread() at    *)
(* once: the connection leaves the map and destroyConnection() is queued.  *)
RemoveConnection(c) ==
    /\ connections' = connections \ {c}
    /\ queue' = Append(queue, [op |-> "destroy", conn |-> c])

(* closeHandler(), with removeConnection(), its _closeCallback.  _state    *)
(* does not change.                                                        *)
CloseHandler(c) ==
    /\ AssertThat(/\ state[c] \in {"CONNECTED", "DISCONNECTING"}
                  /\ P!UpdateAsserts(poller, c)
                  /\ c \in connections)
    /\ poller' = P!DisableAll(poller, c)
    /\ RemoveConnection(c)

(* destroyConnection() that counts on closeHandler() for disableAll() *)
DestroyWithoutDisable(c) ==
    /\ AtFunctor("destroy", c)
    /\ AssertThat(state[c] \in {"CONNECTED", "DISCONNECTING"})
    /\ state' = [state EXCEPT ![c] = "DISCONNECTED"]
    /\ Tell(c, "down")
    /\ UNCHANGED <<poller, loopVars, queue, connections, out, shutWr,
                   peerClosed, appVars>>

(* destroyConnection(), up to the ConnectionCallback *)
DestroyConnection(c) ==
    /\ AtFunctor("destroy", c)
    /\ AssertThat(/\ state[c] \in {"CONNECTED", "DISCONNECTING"}
                  /\ P!UpdateAsserts(poller, c))
    /\ state' = [state EXCEPT ![c] = "DISCONNECTED"]
    /\ poller' = P!DisableAll(poller, c)
    /\ Tell(c, "down")
    /\ UNCHANGED <<loopVars, queue, connections, out, shutWr, peerClosed,
                   appVars>>

(* An application callback returns: in a functor that is the end of        *)
(* establishConnection(), or destroyConnection() goes on to remove the     *)
(* channel; in a handler connectionHandler() returns.                      *)
CallbackReturns ==
    /\ Running
    /\ callback # None
    /\ callback' = None
    /\ \/ /\ phase = "handle"
          /\ UNCHANGED <<poller, next, fault>>
       \/ /\ phase = "run"
          /\ functors[next].op = "establish"
          /\ next' = next + 1
          /\ UNCHANGED <<poller, fault>>
       \/ /\ phase = "run"
          /\ functors[next].op = "destroy"
          /\ AssertThat(P!RemoveAsserts(poller, callback))
          /\ poller' = P!RemoveChannel(poller, callback)
          /\ next' = next + 1
    /\ UNCHANGED <<activeChannels, phase, functors, queue, connVars,
                   peerClosed, appVars>>

-----------------------------------------------------------------------------
(* Channel::handleEvent() for a connection.                                *)

AtEvent(c) ==
    /\ LoopAt("handle")
    /\ activeChannels # <<>>
    /\ Dispatched.chan = c

(* POLLHUP without POLLIN *)
HandleHup(c) ==
    /\ AtEvent(c)
    /\ "HUP" \in Dispatched.revents /\ "IN" \notin Dispatched.revents
    /\ Handled({"HUP"})
    /\ CloseHandler(c)
    /\ UNCHANGED <<phase, functors, next, callback, state, out, shutWr, told,
                   peerClosed, appVars>>

(* POLLIN: connectionHandler().  A failed read is a size_t, hence positive *)
(* too, and calls the MessageCallback like data does.                      *)
ConnectionHandler(c) ==
    /\ AtEvent(c)
    /\ "IN" \in Dispatched.revents
    /\ Handled({"IN", "HUP"})
    /\ \/ /\ ~peerClosed[c]
          /\ Tell(c, "message")
          /\ UNCHANGED <<poller, connections, queue, fault>>
       \/ /\ peerClosed[c]
          /\ CloseHandler(c)
          /\ UNCHANGED <<callback, told>>
    /\ UNCHANGED <<phase, functors, next, state, out, shutWr, peerClosed,
                   appVars>>

(* POLLOUT: writeHandler(); the write takes some of the output or fails.   *)
(* It shuts the socket down when the last of it is written after           *)
(* shutdown() was called.                                                  *)
WriteHandler(c) ==
    /\ AtEvent(c)
    /\ Dispatched.revents = {"OUT"}
    /\ Handled({"OUT"})
    /\ IF IsWriting(c)
         THEN \E left \in 0..out[c] :
                 /\ out' = [out EXCEPT ![c] = left]
                 /\ IF left = 0 /\ left < out[c]
                      THEN /\ AssertThat(P!UpdateAsserts(poller, c))
                           /\ poller' = P!DisableWriting(poller, c)
                           /\ shutWr' = [shutWr EXCEPT ![c] =
                                            @ \/ state[c] = "DISCONNECTING"]
                      ELSE UNCHANGED <<poller, shutWr, fault>>
         ELSE UNCHANGED <<poller, out, shutWr, fault>>
    /\ UNCHANGED <<phase, functors, next, queue, callback, connections, state,
                   told, peerClosed, appVars>>

-----------------------------------------------------------------------------
(* send() and shutdown().                                                  *)

(* sendInLoopThread() of one message: when nothing waits it is written at  *)
(* once; when something waits, or the socket does not take all of it, it   *)
(* is appended to the output.                                              *)
WritesDirectly(c) == ~IsWriting(c) /\ out[c] = 0

SendInLoopThread(c) ==
    \/ /\ WritesDirectly(c)
       /\ fault' = IF shutWr[c] THEN "SIGPIPE" ELSE None
       /\ UNCHANGED <<poller, out>>
    \/ /\ WritesDirectly(c) => ~shutWr[c]
       /\ out' = [out EXCEPT ![c] = @ + 1]
       /\ IF IsWriting(c)
            THEN UNCHANGED <<poller, fault>>
            ELSE /\ AssertThat(P!UpdateAsserts(poller, c))
                 /\ poller' = P!EnableWriting(poller, c)

(* shutdownInLoopThread() that does not wait for the output *)
ShutdownAtOnce(c) == shutWr' = [shutWr EXCEPT ![c] = TRUE]

ShutdownInLoopThread(c) ==
    shutWr' = [shutWr EXCEPT ![c] = @ \/ ~IsWriting(c)]

(* Messages of c that wait in the output or in a functor. *)
Waiting(c) ==
    out[c] + Cardinality({i \in 1..Len(queue) : queue[i] = [op |-> "send", conn |-> c]})
           + Cardinality({i \in next..Len(functors) :
                             functors[i] = [op |-> "send", conn |-> c]})
           + Cardinality({w \in Workers : pc[w] = [at |-> "queueSend", conn |-> c]})

(* On the loop thread, in a callback, the application uses its connection  *)
(* or another one it holds; send() and shutdown() do nothing unless        *)
(* _state is CONNECTED.                                                    *)
InCallback(c) ==
    /\ Running
    /\ callback # None
    /\ c \in appRefs \cup {callback}
    /\ state[c] = "CONNECTED"

SendOnLoop(c) ==
    /\ InCallback(c)
    /\ Waiting(c) < scene.maxOut
    /\ SendInLoopThread(c)
    /\ UNCHANGED <<loopVars, queue, callback, connections, state, shutWr,
                   told, peerClosed, appVars>>

(* shutdown() on the loop thread that does not test _state *)
ShutdownUntested(c) ==
    /\ Running
    /\ callback # None
    /\ c \in appRefs \cup {callback}
    /\ state' = [state EXCEPT ![c] = "DISCONNECTING"]
    /\ ShutdownInLoopThread(c)
    /\ UNCHANGED <<poller, loopVars, queue, callback, connections, out, told,
                   peerClosed, appVars, fault>>

ShutdownOnLoop(c) ==
    /\ InCallback(c)
    /\ state' = [state EXCEPT ![c] = "DISCONNECTING"]
    /\ ShutdownInLoopThread(c)
    /\ UNCHANGED <<poller, loopVars, queue, callback, connections, out, told,
                   peerClosed, appVars, fault>>

(* The queued functor of a worker's send(): it captured this only. *)
RunSend(c) ==
    /\ AtFunctor("send", c)
    /\ next' = next + 1
    /\ IF Live(c)
         THEN SendInLoopThread(c)
         ELSE /\ fault' = "use after free"
              /\ UNCHANGED <<poller, out>>
    /\ UNCHANGED <<activeChannels, phase, functors, queue, callback,
                   connections, state, shutWr, told, peerClosed, appVars>>

RunShutdown(c) ==
    /\ AtFunctor("shutdown", c)
    /\ next' = next + 1
    /\ ShutdownInLoopThread(c)
    /\ UNCHANGED <<poller, activeChannels, phase, functors, queue, callback,
                   connections, state, out, told, peerClosed, appVars, fault>>

WorkerAt(w, at) == Running /\ pc[w] # None /\ pc[w].at = at

(* send() and shutdown() on another thread: the test of _state ... *)
WorkerCalled(w, c) ==
    /\ Running
    /\ w \in scene.workers
    /\ pc[w] = None
    /\ c \in appRefs
    /\ state[c] = "CONNECTED"
    /\ \/ /\ "send" \in WorkerCalls
          /\ Waiting(c) < scene.maxOut
          /\ pc' = [pc EXCEPT ![w] = [at |-> "queueSend", conn |-> c]]
       \/ /\ "shutdown" \in WorkerCalls
          /\ pc' = [pc EXCEPT ![w] = [at |-> "setState", conn |-> c]]
    /\ UNCHANGED <<poller, loopVars, queue, callback, connVars, peerClosed,
                   scene, appRefs, fault>>

(* ... the functor of send() ... *)
WorkerQueuesSend(w) ==
    /\ WorkerAt(w, "queueSend")
    /\ queue' = Append(queue, [op |-> "send", conn |-> pc[w].conn])
    /\ pc' = [pc EXCEPT ![w] = None]
    /\ UNCHANGED <<poller, loopVars, callback, connVars, peerClosed, scene,
                   appRefs, fault>>

(* ... the store of shutdown(), and its functor. *)
WorkerSetsState(w) ==
    /\ WorkerAt(w, "setState")
    /\ state' = [state EXCEPT ![pc[w].conn] = "DISCONNECTING"]
    /\ pc' = [pc EXCEPT ![w].at = "queueShutdown"]
    /\ UNCHANGED <<poller, loopVars, queue, callback, connections, out,
                   shutWr, told, peerClosed, scene, appRefs, fault>>

WorkerQueuesShutdown(w) ==
    /\ WorkerAt(w, "queueShutdown")
    /\ queue' = Append(queue, [op |-> "shutdown", conn |-> pc[w].conn])
    /\ pc' = [pc EXCEPT ![w] = None]
    /\ UNCHANGED <<poller, loopVars, callback, connVars, peerClosed, scene,
                   appRefs, fault>>

-----------------------------------------------------------------------------
(* The application keeps the shared_ptr of a callback, and drops it. *)
Retain ==
    /\ Running
    /\ callback # None
    /\ told[callback] = "up"
    /\ appRefs' = appRefs \cup {callback}
    /\ UNCHANGED <<poller, loopVars, queue, callback, connVars, peerClosed,
                   scene, pc, fault>>

Release(c) ==
    /\ Running
    /\ c \in appRefs
    /\ appRefs' = appRefs \ {c}
    /\ UNCHANGED <<poller, loopVars, queue, callback, connVars, peerClosed,
                   scene, pc, fault>>

PeerCloses(c) ==
    /\ Running
    /\ state[c] \in {"CONNECTING", "CONNECTED", "DISCONNECTING"}
    /\ ~peerClosed[c]
    /\ peerClosed' = [peerClosed EXCEPT ![c] = TRUE]
    /\ UNCHANGED <<poller, loopVars, queue, callback, connVars, appVars, fault>>

LoopStep ==
    \/ Poll \/ HandleEventReturns \/ ProcessFunctors
    \/ ProcessFunctorsReturns \/ IncomingHandler \/ CallbackReturns
    \/ \E c \in Conns :
          \/ EstablishConnection(c) \/ DestroyConnection(c)
          \/ HandleHup(c) \/ ConnectionHandler(c) \/ WriteHandler(c)
          \/ RunSend(c) \/ RunShutdown(c)

WorkerStep(w) ==
    \/ \E c \in Conns : WorkerCalled(w, c)
    \/ WorkerQueuesSend(w) \/ WorkerSetsState(w) \/ WorkerQueuesShutdown(w)

Next ==
    \/ LoopStep
    \/ \E w \in Workers : WorkerStep(w)
    \/ \E c \in Conns : \/ SendOnLoop(c) \/ ShutdownOnLoop(c)
                        \/ Release(c) \/ PeerCloses(c)
    \/ Retain

Spec == Init /\ [][Next]_vars

(* The loop thread is scheduled and callbacks return. *)
FairSpec == Spec /\ WF_vars(LoopStep)
-----------------------------------------------------------------------------
(* Properties.                                                             *)

(* No assertion of TcpConnection.cpp, TcpServer.cpp or Poller.cpp fails (a *)
(* connection is established once, closed once, leaves _connections once   *)
(* and its channel is only updated while it is registered), nothing runs   *)
(* on a destroyed connection and nothing is written after SHUT_WR; with    *)
(* one exception: the functor of a send() on another thread, which holds   *)
(* no shared_ptr and does not look at _state again when it runs, against   *)
(* which ConnectionIsThreadSafe is stated.                                 *)
OnlyQueuedSendFaults ==
    fault # None =>
        /\ scene.workers # {}
        /\ phase = "run" /\ next > 1 /\ functors[next - 1].op = "send"

(* DESIGN.md (TcpConnection): a connection is used through shared_ptrs and *)
(* is thread safe.  So whichever threads call send() and shutdown(), it is *)
(* alive when it is used, and what send() accepted is not written to a     *)
(* socket that was shut down by the time it is.                            *)
ConnectionIsThreadSafe == fault = None

(* The Poller and the list of active channels hold raw pointers to the     *)
(* channels inside the connections: each of them is alive, although a      *)
(* connection can leave _connections while its event is being handled.     *)
NoDanglingChannel ==
    /\ TypeOK
    /\ \A c \in Conns : c \in P!Registered(poller) => Live(c)
    /\ \A k \in 1..Len(activeChannels) :
          activeChannels[k].chan = Listener \/ Live(activeChannels[k].chan)

(* What the application hears of a connection: up once, then messages,     *)
(* then down once, also when peer, callbacks and workers close it together.*)
CallbackProtocol == \A c \in Conns : told[c] # "wrong"

(* shutdown() lets the output drain: the socket is shut down for writing   *)
(* with an empty output buffer, unless the peer closed the connection.     *)
ShutdownDrains ==
    [][\A c \in Conns :
          shutWr'[c] /\ ~shutWr[c] => out'[c] = 0 \/ peerClosed[c]]_vars

(* Once the peer closed, the connection is taken down: it leaves           *)
(* _connections, its channel leaves the Poller and the application hears   *)
(* of it.                                                                  *)
ClosedConnectionsGoDown ==
    \A c \in Conns :
        (peerClosed[c] /\ state[c] # "NONE")
            ~> \/ fault # None
               \/ /\ c \notin connections
                  /\ c \notin P!Registered(poller)
                  /\ told[c] = "down"

Rank == [NONE |-> 0, CONNECTING |-> 1, CONNECTED |-> 2, DISCONNECTING |-> 3,
         DISCONNECTED |-> 4]

(* A connection passes its states in the order connecting, connected,      *)
(* disconnecting, disconnected, and stays down; only a shutdown() on       *)
(* another thread, between whose test and store of _state the connection   *)
(* was taken down, goes back.                                              *)
StateGoesForward ==
    [][\A c \in Conns :
          \/ Rank[state[c]] <= Rank[state'[c]]
          \/ \E w \in Workers : pc[w] = [conn |-> c, at |-> "setState"]]_vars
=============================================================================
