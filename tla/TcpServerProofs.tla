--------------------------- MODULE TcpServerProofs ---------------------------
(***************************************************************************)
(* Proofs about TcpServer for any connections, descriptors, workers and    *)
(* bounds: the life of a connection as an inductive invariant, and what    *)
(* follows from it.                                                        *)
(***************************************************************************)
EXTENDS TcpServer, SequenceTheorems, FiniteSetTheorems, TLAPS

PP == INSTANCE PollerProofs WITH Channels <- Conns \cup {Listener},
                                 activeChannels <- <<>>

(* The operators of the two instances of Poller are the same. *)
LEMMA SameOperators ==
    ASSUME NEW p, NEW c, NEW ev
    PROVE  /\ PP!Registered(p) = P!Registered(p)
           /\ PP!PollFdOf(p, c) = P!PollFdOf(p, c)
           /\ PP!Ignored(c) = P!Ignored(c)
           /\ PP!Events = P!Events
           /\ PP!WellTyped(p) <=> P!WellTyped(p)
           /\ PP!Consistent(p) <=> P!Consistent(p)
           /\ PP!UpdateAsserts(p, c) <=> P!UpdateAsserts(p, c)
           /\ PP!RemoveAsserts(p, c) <=> P!RemoveAsserts(p, c)
           /\ PP!SetEvents(p, c, ev) = P!SetEvents(p, c, ev)
           /\ PP!EnableReading(p, c) = P!EnableReading(p, c)
           /\ PP!RemoveChannel(p, c) = P!RemoveChannel(p, c)
           /\ PP!NoChannels = P!NoChannels
           /\ PP!Pollable(p) = P!Pollable(p)
<1>1. /\ PP!Registered(p) = P!Registered(p)
      /\ PP!PollFdOf(p, c) = P!PollFdOf(p, c)
      /\ PP!Ignored(c) = P!Ignored(c)
      /\ PP!Events = P!Events
      /\ PP!PollFds = P!PollFds
      /\ PP!NoChannels = P!NoChannels
      /\ PP!Pollable(p) = P!Pollable(p)
      /\ PP!LastFd(p) = P!LastFd(p)
  BY DEF PP!Registered, P!Registered, PP!PollFdOf, P!PollFdOf, PP!Ignored,
         P!Ignored, PP!Events, P!Events, PP!PollFds, P!PollFds, PP!NoChannels,
         P!NoChannels, PP!Pollable, P!Pollable, PP!LastFd, P!LastFd
<1>2. PP!WellTyped(p) <=> P!WellTyped(p)
  BY <1>1 DEF PP!WellTyped, P!WellTyped, PP!Events, P!Events
<1>3. PP!Consistent(p) <=> P!Consistent(p)
  BY <1>1 DEF PP!Consistent, P!Consistent, PP!PollFdOf, P!PollFdOf, PP!Ignored,
              P!Ignored
<1>4. PP!UpdateAsserts(p, c) <=> P!UpdateAsserts(p, c)
  BY <1>1 DEF PP!UpdateAsserts, P!UpdateAsserts, PP!Ignored, P!Ignored
<1>5. PP!RemoveAsserts(p, c) <=> P!RemoveAsserts(p, c)
  BY <1>1 DEF PP!RemoveAsserts, P!RemoveAsserts, PP!Ignored, P!Ignored
<1>6. PP!SetEvents(p, c, ev) = P!SetEvents(p, c, ev)
  BY DEF PP!SetEvents, P!SetEvents, PP!UpdateChannel, P!UpdateChannel,
         PP!AddChannel, P!AddChannel, PP!ChangeChannel, P!ChangeChannel,
         PP!Ignored, P!Ignored
<1>7. PP!EnableReading(p, c) = P!EnableReading(p, c)
  BY DEF PP!EnableReading, P!EnableReading, PP!SetEvents, P!SetEvents,
         PP!UpdateChannel, P!UpdateChannel, PP!AddChannel, P!AddChannel,
         PP!ChangeChannel, P!ChangeChannel, PP!Ignored, P!Ignored
<1>8. PP!RemoveChannel(p, c) = P!RemoveChannel(p, c)
  BY <1>1 DEF PP!RemoveChannel, P!RemoveChannel
<1> QED
  BY <1>1, <1>2, <1>3, <1>4, <1>5, <1>6, <1>7, <1>8

(* Poller takes Cardinality from the same module. *)
LEMMA SameCardinality == \A S : P!Cardinality(S) = Cardinality(S)
BY DEF P!Cardinality, Cardinality

(* The descriptors, as the assumption of Poller types them. *)
LEMMA FdType == FdOf \in [Conns \cup {Listener} -> Nat]
BY ServerAssumption

(* What PollerProofs shows of the Poller's operators, for the channels of  *)
(* the server.  An update of a registered channel:                         *)
LEMMA PollerUpdate ==
    ASSUME NEW p, P!WellTyped(p), P!Consistent(p), NEW c \in P!Registered(p),
           NEW ev \in SUBSET P!Events
    PROVE  /\ P!Consistent(P!SetEvents(p, c, ev))
           /\ P!UpdateAsserts(p, c)
           /\ \A d \in P!Registered(p) \ {c} :
                 P!PollFdOf(P!SetEvents(p, c, ev), d) = P!PollFdOf(p, d)
           /\ ev = {} \/ P!PollFdOf(p, c).fd = P!Ignored(FdOf[c])
                 => P!PollFdOf(P!SetEvents(p, c, ev), c).fd = P!Ignored(FdOf[c])
<1>1. PP!WellTyped(p) /\ PP!Consistent(p) /\ c \in PP!Registered(p)
      /\ ev \in SUBSET PP!Events
  BY SameOperators
<1>2. PP!Consistent(PP!SetEvents(p, c, ev))
  BY <1>1, FdType, PP!ChangeConsistent
<1>4. \A d \in PP!Registered(p) \ {c} :
         PP!PollFdOf(PP!SetEvents(p, c, ev), d) = PP!PollFdOf(p, d)
  BY <1>1, FdType, PP!ChangeConsistent
<1>5. ev = {} \/ PP!PollFdOf(p, c).fd = PP!Ignored(FdOf[c])
          => PP!PollFdOf(PP!SetEvents(p, c, ev), c).fd = PP!Ignored(FdOf[c])
  BY <1>1, FdType, PP!ChangeIgnores
<1>3. PP!UpdateAsserts(p, c)
  BY <1>1, FdType, PP!ConsistentAsserts
<1>6. ev = {} \/ P!PollFdOf(p, c).fd = P!Ignored(FdOf[c])
          => P!PollFdOf(P!SetEvents(p, c, ev), c).fd = P!Ignored(FdOf[c])
  <2> DEFINE q == P!SetEvents(p, c, ev)
  <2>1. q = PP!SetEvents(p, c, ev)
    BY SameOperators
  <2>2. /\ PP!PollFdOf(q, c) = P!PollFdOf(q, c)
        /\ PP!PollFdOf(p, c) = P!PollFdOf(p, c)
        /\ PP!Ignored(FdOf[c]) = P!Ignored(FdOf[c])
    BY SameOperators
  <2> HIDE DEF q
  <2>3. P!PollFdOf(p, c).fd = P!Ignored(FdOf[c]) => PP!PollFdOf(p, c).fd = PP!Ignored(FdOf[c])
    BY <2>2
  <2>4. PP!PollFdOf(q, c).fd = PP!Ignored(FdOf[c]) => P!PollFdOf(q, c).fd = P!Ignored(FdOf[c])
    BY <2>2
  <2> QED
    BY <1>5, <2>1, <2>3, <2>4 DEF q
<1> QED
  BY <1>2, <1>3, <1>4, <1>6, SameOperators

(* an update of a channel that was registered once: *)
LEMMA PollerUpdateTyped ==
    ASSUME NEW p, P!WellTyped(p), NEW c \in Conns \cup {Listener},
           p.index[c] >= 0, NEW ev \in SUBSET P!Events
    PROVE  /\ P!WellTyped(P!SetEvents(p, c, ev))
           /\ P!Registered(P!SetEvents(p, c, ev)) = P!Registered(p)
           /\ P!SetEvents(p, c, ev).index = p.index
           /\ P!SetEvents(p, c, ev).events = [p.events EXCEPT ![c] = ev]
<1>1. PP!WellTyped(p) /\ ev \in SUBSET PP!Events
  BY SameOperators
<1>2. /\ PP!WellTyped(PP!SetEvents(p, c, ev))
      /\ PP!Registered(PP!SetEvents(p, c, ev)) = PP!Registered(p)
      /\ PP!SetEvents(p, c, ev).index = p.index
      /\ PP!SetEvents(p, c, ev).events = [p.events EXCEPT ![c] = ev]
  BY <1>1, FdType, PP!UpdateTyped
<1> QED
  BY <1>2, SameOperators

(* the first enableReading() of a channel: *)
LEMMA PollerRegister ==
    ASSUME NEW p, P!WellTyped(p), P!Consistent(p),
           NEW c \in Conns \cup {Listener},
           FdOf[c] \notin DOMAIN p.channels, p.index[c] = -1
    PROVE  /\ P!WellTyped(P!EnableReading(p, c))
           /\ P!Consistent(P!EnableReading(p, c))
           /\ P!UpdateAsserts(p, c)
           /\ P!Registered(P!EnableReading(p, c)) = P!Registered(p) \cup {c}
           /\ P!EnableReading(p, c).events = [p.events EXCEPT ![c] = @ \cup {"READ"}]
           /\ P!EnableReading(p, c).index = [p.index EXCEPT ![c] = Len(p.fds)]
           /\ \A d \in P!Registered(p) :
                 P!PollFdOf(P!EnableReading(p, c), d) = P!PollFdOf(p, d)
<1>1. PP!WellTyped(p) /\ PP!Consistent(p)
  BY SameOperators
<1>2. /\ PP!WellTyped(PP!EnableReading(p, c))
      /\ PP!Consistent(PP!EnableReading(p, c))
      /\ PP!Registered(PP!EnableReading(p, c)) = PP!Registered(p) \cup {c}
      /\ PP!EnableReading(p, c).events = [p.events EXCEPT ![c] = @ \cup {"READ"}]
      /\ PP!EnableReading(p, c).index = [p.index EXCEPT ![c] = Len(p.fds)]
      /\ \A d \in PP!Registered(p) :
            PP!PollFdOf(PP!EnableReading(p, c), d) = PP!PollFdOf(p, d)
  BY <1>1, FdType, PP!RegisterConsistent
<1>3. P!UpdateAsserts(p, c)
  BY DEF P!UpdateAsserts
<1> QED
  BY <1>2, <1>3, SameOperators

(* the removal of a registered channel: *)
LEMMA PollerRemove ==
    ASSUME NEW p, P!WellTyped(p), P!Consistent(p), NEW c \in P!Registered(p),
           p.events[c] = {}
    PROVE  /\ P!WellTyped(P!RemoveChannel(p, c))
           /\ P!Consistent(P!RemoveChannel(p, c))
           /\ P!RemoveAsserts(p, c)
           /\ P!Registered(P!RemoveChannel(p, c)) = P!Registered(p) \ {c}
           /\ P!RemoveChannel(p, c).events = p.events
           /\ \A d \in (Conns \cup {Listener}) \ P!Registered(p) :
                 P!RemoveChannel(p, c).index[d] = p.index[d]
           /\ P!RemoveChannel(p, c).index[c] >= 0
           /\ \A d \in P!Registered(p) \ {c} :
                 P!PollFdOf(P!RemoveChannel(p, c), d) = P!PollFdOf(p, d)
<1>1. PP!WellTyped(p) /\ PP!Consistent(p) /\ c \in PP!Registered(p)
  BY SameOperators
<1>2. /\ PP!WellTyped(PP!RemoveChannel(p, c))
      /\ PP!Consistent(PP!RemoveChannel(p, c))
      /\ PP!Registered(PP!RemoveChannel(p, c)) = PP!Registered(p) \ {c}
      /\ PP!RemoveChannel(p, c).events = p.events
      /\ \A d \in (Conns \cup {Listener}) \ PP!Registered(p) :
            PP!RemoveChannel(p, c).index[d] = p.index[d]
      /\ PP!RemoveChannel(p, c).index[c] >= 0
      /\ \A d \in PP!Registered(p) \ {c} :
            PP!PollFdOf(PP!RemoveChannel(p, c), d) = PP!PollFdOf(p, d)
  BY <1>1, FdType, PP!RemoveConsistent
<1>3. PP!RemoveAsserts(p, c)
  BY <1>1, FdType, PP!ConsistentAsserts
<1> QED
  BY <1>2, <1>3, SameOperators

(* what poll(2) looks at: *)
LEMMA PollerPollable ==
    ASSUME NEW p, P!WellTyped(p), P!Consistent(p), NEW i \in P!Pollable(p)
    PROVE  /\ p.channels[p.fds[i].fd] \in P!Registered(p)
           /\ FdOf[p.channels[p.fds[i].fd]] = p.fds[i].fd
           /\ p.index[p.channels[p.fds[i].fd]] = i - 1
           /\ P!PollFdOf(p, p.channels[p.fds[i].fd]) = p.fds[i]
<1>1. PP!WellTyped(p) /\ PP!Consistent(p) /\ i \in PP!Pollable(p)
  BY SameOperators
<1>2. /\ p.channels[p.fds[i].fd] \in PP!Registered(p)
      /\ FdOf[p.channels[p.fds[i].fd]] = p.fds[i].fd
      /\ p.index[p.channels[p.fds[i].fd]] = i - 1
      /\ PP!PollFdOf(p, p.channels[p.fds[i].fd]) = p.fds[i]
  BY <1>1, FdType, PP!PollableIsRegistered
<1> QED
  BY <1>2, SameOperators

(* and the tables before any channel was registered. *)
LEMMA PollerStart ==
    P!WellTyped(P!NoChannels) /\ P!Consistent(P!NoChannels)
    /\ P!Registered(P!NoChannels) = {}
BY FdType, PP!NoChannelsConsistent, SameOperators

-----------------------------------------------------------------------------
(* Functors that have not returned: those that wait in queue, and those    *)
(* processFunctors() runs or will run.                                     *)
Is(f, op, c) == f.op = op /\ f.conn = c

Queued(op, c) == \E i \in 1..Len(queue) : Is(queue[i], op, c)
ToRun(op, c)  == \E i \in next..Len(functors) : Is(functors[i], op, c)
Pending(op, c) == Queued(op, c) \/ ToRun(op, c)

(* The callback in which establishConnection() or destroyConnection() is.  *)
InProgress(op, c) ==
    /\ phase = "run" /\ callback = c
    /\ next <= Len(functors) /\ Is(functors[next], op, c)

OnceOps == {"establish", "destroy"}

(* Neither operation is scheduled twice for a connection. *)
Once ==
    /\ \A i, j \in 1..Len(queue) :
          Is(queue[i], queue[j].op, queue[j].conn) /\ queue[i].op \in OnceOps => i = j
    /\ \A i, j \in next..Len(functors) :
          Is(functors[i], functors[j].op, functors[j].conn)
             /\ functors[i].op \in OnceOps => i = j
    /\ \A op \in OnceOps, c \in Conns : ~(Queued(op, c) /\ ToRun(op, c))

Working(c) == \E w \in Workers : pc[w] # None /\ pc[w].conn = c

(* A connection the application has not heard of ... *)
NotYet(c) ==
    /\ state[c] \in {"NONE", "CONNECTING"}
    /\ (c \in connections) <=> state[c] = "CONNECTING"
    /\ Pending("establish", c) <=> state[c] = "CONNECTING"
    /\ \A op \in {"destroy", "send", "shutdown"} : ~Pending(op, c)
    /\ c \notin appRefs /\ callback # c /\ ~Working(c)
    /\ c \notin P!Registered(poller) /\ poller.index[c] = -1

(* ... that is up, and either in the map or about to be destroyed ... *)
Up(c) ==
    /\ state[c] \in {"CONNECTED", "DISCONNECTING"}
    /\ (c \in connections) <=> ~Pending("destroy", c)
    /\ Pending("establish", c) => InProgress("establish", c)
    /\ c \notin connections => peerClosed[c]
    /\ c \in P!Registered(poller) /\ poller.index[c] >= 0

(* ... and that is down. *)
Down(c) ==
    /\ state[c] \in {"DISCONNECTING", "DISCONNECTED"}
    /\ c \notin connections
    /\ ~Pending("establish", c)
    /\ Pending("destroy", c) => InProgress("destroy", c)
    /\ peerClosed[c]
    /\ (c \in P!Registered(poller)) => InProgress("destroy", c)
    /\ poller.index[c] >= 0

Life(c) ==
    \/ told[c] = "none" /\ NotYet(c)
    \/ told[c] = "up" /\ Up(c)
    \/ told[c] = "down" /\ Down(c)

(* shutdown() was called before its functor runs. *)
Storing(c) ==
    \E w \in Workers : pc[w] # None /\ pc[w].conn = c /\ pc[w].at = "queueShutdown"

ShutdownCalled(c) ==
    shutWr[c] \/ Pending("shutdown", c) \/ Storing(c)
        => state[c] \in {"DISCONNECTING", "DISCONNECTED"}

(* Output waits for POLLOUT until the peer closed. *)
OutputWatched(c) == out[c] > 0 => IsWriting(c) \/ peerClosed[c]

LoopInv ==
    /\ phase # "run" => functors = <<>> /\ next = 1
    /\ phase # "handle" => activeChannels = <<>>
    /\ phase = "poll" => callback = None
    /\ phase = "run" /\ callback # None =>
          \/ InProgress("establish", callback) /\ told[callback] = "up"
          \/ /\ InProgress("destroy", callback) /\ told[callback] = "down"
             /\ callback \in P!Registered(poller)

(* What is left of the events of a poll(): a connection that was closed    *)
(* keeps no bit that could close it again.                                 *)
EventOk(e) ==
    e.chan # Listener =>
        /\ told[e.chan] = "up"
        /\ "IN" \in e.revents \/ "HUP" \in e.revents => e.chan \in connections
        /\ "HUP" \in e.revents => peerClosed[e.chan]

EventsInv ==
    /\ \A j, k \in 1..Len(activeChannels) :
          activeChannels[j].chan = activeChannels[k].chan => j = k
    /\ \A k \in 1..Len(activeChannels) : EventOk(activeChannels[k])

(* accept() gives no two living connections the same descriptor. *)
DistinctFds == \A c, d \in Conns : Live(c) /\ Live(d) /\ FdOf[c] = FdOf[d] => c = d

SendsInv ==
    /\ \A c \in Conns : Pending("send", c) => scene.workers # {}
    /\ \A w \in Workers : pc[w] # None => scene.workers # {}

(* As long as nothing failed, the tables of the Poller are consistent, a   *)
(* closed connection is ignored by poll(2) and a destroyed one has asked   *)
(* for nothing again.                                                      *)
PollerInv ==
    /\ P!Consistent(poller)
    /\ \A c \in Conns \cap P!Registered(poller) :
          /\ c \notin connections =>
                P!PollFdOf(poller, c).fd = P!Ignored(FdOf[c])
          /\ told[c] = "down" => poller.events[c] = {}

Core ==
    /\ TypeOK
    /\ Once
    /\ \A c \in Conns : Life(c) /\ ShutdownCalled(c) /\ OutputWatched(c)
    /\ LoopInv /\ EventsInv /\ DistinctFds /\ SendsInv
    /\ fault = None => PollerInv
    /\ OnlyQueuedSendFaults

-----------------------------------------------------------------------------
(* How a step changes the functors that have not returned: not at all,     *)
LEMMA FunctorsKept ==
    ASSUME UNCHANGED <<queue, functors, next>>
    PROVE  /\ \A op, c : Pending(op, c)' <=> Pending(op, c)
           /\ Once' <=> Once
           /\ \A c : /\ Owning(queue, c)' <=> Owning(queue, c)
                     /\ Owning(functors, c)' <=> Owning(functors, c)
<1>1. \A op, c : /\ Queued(op, c)' <=> Queued(op, c)
                 /\ ToRun(op, c)' <=> ToRun(op, c)
  BY DEF Queued, ToRun
<1> QED
  BY <1>1 DEF Pending, Once, Owning, OnceOps, Is

(* by queueing one, *)
LEMMA FunctorQueued ==
    ASSUME TypeOK, NEW f \in Functor, queue' = Append(queue, f),
           UNCHANGED <<functors, next>>
    PROVE  /\ \A op, c : Pending(op, c)' <=> Pending(op, c) \/ Is(f, op, c)
           /\ Once /\ (f.op \in OnceOps => ~Pending(f.op, f.conn)) => Once'
           /\ \A c : /\ Owning(queue, c)' <=>
                           Owning(queue, c) \/ (f.conn = c /\ f.op # "send")
                     /\ Owning(functors, c)' <=> Owning(functors, c)
           /\ queue' \in Seq(Functor)
<1>1. queue \in Seq(Functor)
  BY DEF TypeOK
<1>2. /\ queue' \in Seq(Functor)
      /\ Len(queue') = Len(queue) + 1
      /\ queue'[Len(queue) + 1] = f
      /\ \A i \in 1..Len(queue) : queue'[i] = queue[i]
      /\ Len(queue) \in Nat
  BY <1>1
<1>3. \A op, c : Queued(op, c)' <=> Queued(op, c) \/ Is(f, op, c)
  BY <1>2 DEF Queued, Is
<1>4. \A op, c : ToRun(op, c)' <=> ToRun(op, c)
  BY DEF ToRun
<1>5. \A op, c : Pending(op, c)' <=> Pending(op, c) \/ Is(f, op, c)
  BY <1>3, <1>4 DEF Pending
<1>6. ASSUME Once, f.op \in OnceOps => ~Pending(f.op, f.conn)
      PROVE  Once'
  <2>1. ASSUME NEW i \in 1..Len(queue'), NEW j \in 1..Len(queue'),
               Is(queue'[i], queue'[j].op, queue'[j].conn), queue'[i].op \in OnceOps
        PROVE  i = j
    <3>1. CASE i \in 1..Len(queue) /\ j \in 1..Len(queue)
      BY <3>1, <2>1, <1>2, <1>6 DEF Once
    <3>2. CASE i = Len(queue) + 1 /\ j \in 1..Len(queue)
      <4>1. Queued(f.op, f.conn)
        BY <3>2, <2>1, <1>2 DEF Queued, Is
      <4> QED
        BY <4>1, <3>2, <2>1, <1>2, <1>6 DEF Pending
    <3>3. CASE j = Len(queue) + 1 /\ i \in 1..Len(queue)
      <4>1. Queued(f.op, f.conn) /\ f.op = queue'[i].op
        BY <3>3, <2>1, <1>2 DEF Queued, Is
      <4> QED
        BY <4>1, <2>1, <1>6 DEF Pending
    <3> QED
      BY <3>1, <3>2, <3>3, <1>2
  <2>2. ASSUME NEW op \in OnceOps, NEW c \in Conns, Queued(op, c)', ToRun(op, c)'
        PROVE  FALSE
    <3>1. ToRun(op, c)
      BY <1>4, <2>2
    <3>2. CASE Queued(op, c)
      BY <3>1, <3>2, <1>6 DEF Once
    <3>3. CASE Is(f, op, c)
      BY <3>1, <3>3, <1>6 DEF Pending, Is
    <3> QED
      BY <3>2, <3>3, <2>2, <1>3
  <2>3. \A i, j \in next'..Len(functors') :
           Is(functors'[i], functors'[j].op, functors'[j].conn)
              /\ functors'[i].op \in OnceOps => i = j
    BY <1>6 DEF Once
  <2> QED
    BY <2>1, <2>2, <2>3 DEF Once
<1>7. \A c : Owning(queue, c)' <=> Owning(queue, c) \/ (f.conn = c /\ f.op # "send")
  BY <1>2 DEF Owning
<1>8. \A c : Owning(functors, c)' <=> Owning(functors, c)
  BY DEF Owning
<1> QED
  BY <1>2, <1>5, <1>6, <1>7, <1>8

(* by returning from one, *)
LEMMA FunctorRan ==
    ASSUME TypeOK, next <= Len(functors), next' = next + 1,
           UNCHANGED <<queue, functors>>
    PROVE  /\ \A op, c : Pending(op, c)' => Pending(op, c)
           /\ \A op, c : ~Is(functors[next], op, c) =>
                            (Pending(op, c)' <=> Pending(op, c))
           /\ Once => Once'
           /\ \A op \in OnceOps, c \in Conns :
                 Once /\ Is(functors[next], op, c) => ~Pending(op, c)'
           /\ \A c : /\ Owning(queue, c)' <=> Owning(queue, c)
                     /\ Owning(functors, c)' <=> Owning(functors, c)
           /\ next' \in 1..Len(functors') + 1
<1>1. /\ next \in Nat /\ next >= 1 /\ Len(functors) \in Nat
      /\ functors \in Seq(Functor)
  BY DEF TypeOK
<1>2. next' \in 1..Len(functors') + 1
  BY <1>1
<1>3. /\ \A op, c : Queued(op, c)' <=> Queued(op, c)
      /\ \A c : /\ Owning(queue, c)' <=> Owning(queue, c)
                /\ Owning(functors, c)' <=> Owning(functors, c)
  BY DEF Queued, Owning
<1>4. next'..Len(functors') = (next..Len(functors)) \ {next}
  BY <1>1
<1>5. \A op, c : /\ ToRun(op, c)' => ToRun(op, c)
                 /\ ~Is(functors[next], op, c) => (ToRun(op, c)' <=> ToRun(op, c))
  BY <1>4 DEF ToRun
<1>6. Once => Once'
  BY <1>3, <1>4, <1>5 DEF Once
<1>7. ASSUME Once, NEW op \in OnceOps, NEW c \in Conns, Is(functors[next], op, c)
      PROVE  ~Pending(op, c)'
  <2>1. next \in next..Len(functors)
    BY <1>1
  <2>2. ToRun(op, c)
    BY <2>1, <1>7 DEF ToRun
  <2>3. ~Queued(op, c)
    BY <2>2, <1>7 DEF Once
  <2>4. ASSUME NEW i \in next'..Len(functors'), Is(functors'[i], op, c)
        PROVE  FALSE
    <3>1. i \in next..Len(functors) /\ i # next
      BY <1>4
    <3>2. functors[i].op \in OnceOps /\ Is(functors[i], functors[next].op, functors[next].conn)
      BY <2>4, <1>7 DEF Is
    <3> QED
      BY <3>1, <3>2, <2>1, <1>7 DEF Once
  <2>5. ~ToRun(op, c)'
    BY <2>4 DEF ToRun
  <2> QED
    BY <2>3, <2>5, <1>3 DEF Pending
<1> QED
  BY <1>2, <1>3, <1>5, <1>6, <1>7 DEF Pending

(* by swapping the queue into an empty vector, *)
LEMMA FunctorsTaken ==
    ASSUME TypeOK, functors = <<>>, next = 1, functors' = queue, queue' = <<>>,
           next' = 1
    PROVE  /\ \A op, c : Pending(op, c)' <=> Pending(op, c)
           /\ Once => Once'
           /\ \A c : Owning(queue, c)' \/ Owning(functors, c)' =>
                     Owning(queue, c) \/ Owning(functors, c)
           /\ functors' \in Seq(Functor) /\ next' \in 1..Len(functors') + 1
           /\ queue' \in Seq(Functor)
<1>1. /\ queue \in Seq(Functor) /\ Len(queue) \in Nat
      /\ Len(functors) = 0 /\ Len(queue') = 0
  BY DEF TypeOK
<1>2. \A op, c : /\ ~ToRun(op, c) /\ ~Queued(op, c)'
                 /\ ToRun(op, c)' <=> Queued(op, c)
  BY <1>1 DEF ToRun, Queued
<1>3. \A op, c : Pending(op, c)' <=> Pending(op, c)
  BY <1>2 DEF Pending
<1>4. Once => Once'
  BY <1>1, <1>2 DEF Once
<1>5. \A c : /\ Owning(functors, c)' => Owning(queue, c)
             /\ ~Owning(queue, c)'
  BY <1>1 DEF Owning
<1> QED
  BY <1>1, <1>3, <1>4, <1>5

(* and by dropping the vector whose functors have all returned. *)
LEMMA FunctorsDropped ==
    ASSUME TypeOK, next > Len(functors), functors' = <<>>, next' = 1,
           UNCHANGED queue
    PROVE  /\ \A op, c : Pending(op, c)' <=> Pending(op, c)
           /\ Once => Once'
           /\ \A c : Owning(queue, c)' \/ Owning(functors, c)' =>
                     Owning(queue, c) \/ Owning(functors, c)
           /\ functors' \in Seq(Functor) /\ next' \in 1..Len(functors') + 1
<1>1. /\ next \in Nat /\ Len(functors) \in Nat /\ Len(functors') = 0
      /\ functors' \in Seq(Functor)
  BY DEF TypeOK
<1>2. \A op, c : /\ ~ToRun(op, c) /\ ~ToRun(op, c)'
                 /\ Queued(op, c)' <=> Queued(op, c)
  BY <1>1 DEF ToRun, Queued
<1>3. \A op, c : Pending(op, c)' <=> Pending(op, c)
  BY <1>2 DEF Pending
<1>4. Once => Once'
  BY <1>1, <1>2 DEF Once
<1>5. \A c : /\ Owning(queue, c)' <=> Owning(queue, c)
             /\ ~Owning(functors, c)'
  BY <1>1 DEF Owning
<1> QED
  BY <1>1, <1>3, <1>4, <1>5

-----------------------------------------------------------------------------
(* What a step must leave alone for the life of c to go on as it was. *)
SameLife(c) ==
    /\ told'[c] = told[c] /\ state'[c] = state[c]
    /\ (c \in connections') <=> (c \in connections)
    /\ \A op \in OnceOps : Pending(op, c)' <=> Pending(op, c)
    /\ told[c] = "none" =>
          /\ \A op \in {"send", "shutdown"} : Pending(op, c)' => Pending(op, c)
          /\ c \in appRefs' => c \in appRefs
          /\ callback' = c => callback = c
          /\ Working(c)' => Working(c)
    /\ (c \in P!Registered(poller')) <=> (c \in P!Registered(poller))
    /\ poller.index[c] = -1 => poller'.index[c] = -1
    /\ poller.index[c] >= 0 => poller'.index[c] >= 0
    /\ peerClosed[c] => peerClosed'[c]
    /\ \A op \in OnceOps : InProgress(op, c) => InProgress(op, c)'

(* A step that changes nothing about a connection keeps its stage. *)
LEMMA LifeKept ==
    ASSUME NEW c \in Conns, Life(c), SameLife(c)
    PROVE  Life(c)'
<1>1. CASE told[c] = "none" /\ NotYet(c)
  BY <1>1 DEF SameLife, Life, NotYet, OnceOps
<1>2. CASE told[c] = "up" /\ Up(c)
  BY <1>2 DEF SameLife, Life, Up, OnceOps
<1>3. CASE told[c] = "down" /\ Down(c)
  BY <1>3 DEF SameLife, Life, Down, OnceOps
<1> QED
  BY <1>1, <1>2, <1>3 DEF Life

(* A functor that has not returned, other than that of send(), keeps its   *)
(* connection alive.                                                       *)
LEMMA PendingOwns ==
    ASSUME TypeOK, NEW c, NEW op, op # "send", Pending(op, c)
    PROVE  Owning(queue, c) \/ Owning(functors, c)
<1>1. CASE Queued(op, c)
  BY <1>1 DEF Queued, Owning, Is
<1>2. CASE ToRun(op, c)
  <2>1. PICK i \in next..Len(functors) : Is(functors[i], op, c)
    BY <1>2 DEF ToRun
  <2>2. i \in 1..Len(functors)
    BY DEF TypeOK
  <2> QED
    BY <2>1, <2>2 DEF Owning, Is
<1> QED
  BY <1>1, <1>2 DEF Pending

(* What the life of a connection says of it in any state. *)
LEMMA LifeFacts ==
    ASSUME Core, NEW c \in Conns
    PROVE  /\ told[c] # "wrong"
           /\ told[c] = "up" => Live(c)
           /\ c \in P!Registered(poller) => Live(c)
           /\ c \in connections => told[c] \in {"none", "up"} /\ Live(c)
           /\ Working(c) \/ c \in appRefs \/ callback = c => told[c] \in {"up", "down"}
           /\ told[c] # "none" =>
                 poller.index[c] >= 0 /\ state[c] \notin {"NONE", "CONNECTING"}
           /\ (callback = None /\ c \in P!Registered(poller)) => told[c] = "up"
<1>1. Life(c) /\ TypeOK
  BY DEF Core
<1>2. told[c] # "wrong"
  BY <1>1 DEF Life
<1>3. ASSUME told[c] = "up" PROVE Live(c)
  <2>1. Up(c)
    BY <1>1, <1>3 DEF Life
  <2>2. CASE c \in connections
    BY <2>2 DEF Live
  <2>3. CASE Pending("destroy", c)
    BY <2>3, <1>1, PendingOwns DEF Live
  <2> QED
    BY <2>1, <2>2, <2>3 DEF Up
<1>4. ASSUME c \in P!Registered(poller) PROVE Live(c)
  <2>1. told[c] # "none"
    BY <1>1, <1>4 DEF Life, NotYet
  <2>2. CASE told[c] = "down"
    BY <2>2, <1>1, <1>4 DEF Life, Down, InProgress, Live
  <2> QED
    BY <2>1, <2>2, <1>1, <1>3 DEF Life
<1>5. c \in connections => told[c] \in {"none", "up"} /\ Live(c)
  BY <1>1 DEF Life, Down, Live
<1>6. Working(c) \/ c \in appRefs \/ callback = c => told[c] \in {"up", "down"}
  BY <1>1 DEF Life, NotYet
<1>7. told[c] # "none" =>
                 poller.index[c] >= 0 /\ state[c] \notin {"NONE", "CONNECTING"}
  BY <1>1 DEF Life, Up, Down
<1>8. (callback = None /\ c \in P!Registered(poller)) => told[c] = "up"
  <2>1. None # c
    BY ServerAssumption
  <2> QED
    BY <1>1, <2>1 DEF Life, NotYet, Down, InProgress
<1> QED
  BY <1>2, <1>3, <1>4, <1>5, <1>6, <1>7, <1>8

(* No connection is in progress when no callback runs. *)
LEMMA NoneInProgress ==
    ASSUME callback = None, NEW c \in Conns, NEW op
    PROVE  ~InProgress(op, c)
BY ServerAssumption DEF InProgress

(* A step that gives no connection life keeps the descriptors distinct. *)
LEMMA DistinctKept ==
    ASSUME DistinctFds, \A c \in Conns : Live(c)' => Live(c)
    PROVE  DistinctFds'
BY DEF DistinctFds

-----------------------------------------------------------------------------
(* A step that changes neither the tables of the Poller nor what is        *)
(* connected preserves Core if it preserves the rest of it.                *)
LEMMA CoreKept ==
    ASSUME Core, fault' = None, fault = None,
           UNCHANGED <<poller, told, connections, out>>,
           \A c \in Conns : SameLife(c) /\ ShutdownCalled(c)' /\ (Live(c)' => Live(c)),
           TypeOK', Once', LoopInv', EventsInv', SendsInv'
    PROVE  Core'
<1>1. \A c \in Conns : Life(c)'
  BY LifeKept DEF Core
<1>2. \A c \in Conns : OutputWatched(c)'
  BY DEF Core, OutputWatched, IsWriting, SameLife
<1>3. DistinctFds'
  BY DistinctKept DEF Core
<1>4. PollerInv'
  BY DEF Core, PollerInv
<1>5. OnlyQueuedSendFaults'
  BY DEF OnlyQueuedSendFaults
<1> QED
  BY <1>1, <1>2, <1>3, <1>4, <1>5 DEF Core

(* The step of a connection whose functors and callbacks stay as they are. *)
LEMMA SameLifeKept ==
    ASSUME Core, NEW c \in Conns,
           UNCHANGED <<told, state, connections, queue, functors, next, poller>>,
           peerClosed[c] => peerClosed'[c],
           UNCHANGED <<phase, callback>> \/ callback = None,
           callback' \in {callback, None},
           appRefs' \subseteq appRefs \cup {callback},
           Working(c)' => Working(c) \/ c \in appRefs,
           Storing(c)' => Storing(c),
           UNCHANGED shutWr
    PROVE  SameLife(c) /\ ShutdownCalled(c)' /\ (Live(c)' => Live(c))
<1>1. None # c
  BY ServerAssumption
<1>2. /\ \A op : Pending(op, c)' <=> Pending(op, c)
      /\ Owning(queue, c)' <=> Owning(queue, c)
      /\ Owning(functors, c)' <=> Owning(functors, c)
  BY FunctorsKept
<1>3. ASSUME NEW op \in OnceOps, InProgress(op, c) PROVE InProgress(op, c)'
  BY <1>3, NoneInProgress DEF InProgress
<1>4. told[c] = "none" => c \notin appRefs /\ callback # c /\ ~Working(c)
  BY DEF Core, Life, NotYet
<1>5. SameLife(c)
  BY <1>1, <1>2, <1>3, <1>4 DEF SameLife
<1>6. ShutdownCalled(c)'
  BY <1>2 DEF Core, ShutdownCalled
<1>7. (Live(c)' => Live(c))
  BY <1>1, <1>2 DEF Live, Working
<1> QED
  BY <1>5, <1>6, <1>7

(* The end of handleEvent() drops the event that was handled. *)
LEMMA HandleEventReturnsCore ==
    ASSUME Core, HandleEventReturns
    PROVE  Core'
<1> USE DEF HandleEventReturns, LoopAt, Running, connVars, appVars
<1>1. /\ TypeOK /\ LoopInv /\ EventsInv /\ SendsInv /\ Once
      /\ activeChannels \in Seq([chan : Conns \cup {Listener},
                                 revents : SUBSET {"IN", "OUT", "HUP"}])
  BY DEF Core, TypeOK
<1>2. /\ activeChannels' \in Seq([chan : Conns \cup {Listener},
                                  revents : SUBSET {"IN", "OUT", "HUP"}])
      /\ Len(activeChannels') = Len(activeChannels) - 1
      /\ Len(activeChannels) \in Nat
      /\ \A k \in 1..Len(activeChannels') : activeChannels'[k] = activeChannels[k + 1]
  BY <1>1
<1>3. TypeOK'
  BY <1>1, <1>2 DEF TypeOK, P!TypeOK
<1>4. \A c \in Conns : SameLife(c) /\ ShutdownCalled(c)' /\ (Live(c)' => Live(c))
  BY SameLifeKept DEF Working, Storing
<1>5. LoopInv'
  BY <1>1 DEF LoopInv
<1>6. EventsInv'
  <2>1. \A k \in 1..Len(activeChannels') : k + 1 \in 1..Len(activeChannels)
    BY <1>2
  <2>2. \A j, k \in 1..Len(activeChannels') :
           activeChannels'[j].chan = activeChannels'[k].chan => j + 1 = k + 1
    BY <1>1, <1>2, <2>1 DEF EventsInv
  <2>3. \A k \in 1..Len(activeChannels') : EventOk(activeChannels'[k])
    BY <1>1, <1>2, <2>1 DEF EventsInv
  <2>4. \A e : EventOk(e)' <=> EventOk(e)
    BY DEF EventOk
  <2>5. \A j, k \in 1..Len(activeChannels') : j + 1 = k + 1 => j = k
    BY <1>2
  <2>6. \A j, k \in 1..Len(activeChannels') :
           activeChannels'[j].chan = activeChannels'[k].chan => j = k
    BY <2>2, <2>5
  <2>7. \A k \in 1..Len(activeChannels') : EventOk(activeChannels[k])'
    BY <2>3, <2>4
  <2> HIDE DEF HandleEventReturns
  <2> QED
    BY <2>6, <2>7 DEF EventsInv
<1>7. Once' /\ SendsInv'
  BY <1>1, FunctorsKept DEF SendsInv
<1> QED
  BY <1>3, <1>4, <1>5, <1>6, <1>7, CoreKept

(* The events of a poll() stay right while their connections do. *)
LEMMA EventsKept ==
    ASSUME EventsInv, TypeOK, UNCHANGED activeChannels,
           \A c \in Conns : /\ told[c] = "up" => told'[c] = "up"
                            /\ c \in connections => c \in connections'
                            /\ peerClosed[c] => peerClosed'[c]
    PROVE  EventsInv'
<1>1. ASSUME NEW k \in 1..Len(activeChannels)
      PROVE  EventOk(activeChannels[k])'
  <2>1. activeChannels[k].chan \in Conns \cup {Listener}
    <3>1. activeChannels \in Seq([chan : Conns \cup {Listener},
                                  revents : SUBSET {"IN", "OUT", "HUP"}])
      BY DEF TypeOK
    <3>2. activeChannels[k] \in [chan : Conns \cup {Listener},
                                 revents : SUBSET {"IN", "OUT", "HUP"}]
      BY <3>1, ElementOfSeq
    <3> QED
      BY <3>2
  <2>2. EventOk(activeChannels[k])
    BY DEF EventsInv
  <2> QED
    BY <2>1, <2>2 DEF EventOk
<1> QED
  BY <1>1 DEF EventsInv

(* processFunctors() takes the whole queue. *)
LEMMA ProcessFunctorsCore ==
    ASSUME Core, ProcessFunctors
    PROVE  Core'
<1> USE DEF ProcessFunctors, LoopAt, Running, connVars, appVars
<1>1. TypeOK /\ LoopInv /\ EventsInv /\ SendsInv /\ Once
  BY DEF Core
<1>2. functors = <<>> /\ next = 1
  BY <1>1 DEF LoopInv
<1>3. /\ \A op, c : Pending(op, c)' <=> Pending(op, c)
      /\ Once'
      /\ \A c : Owning(queue, c)' \/ Owning(functors, c)' =>
                Owning(queue, c) \/ Owning(functors, c)
      /\ functors' \in Seq(Functor) /\ next' \in 1..Len(functors') + 1
      /\ queue' \in Seq(Functor)
  BY <1>1, <1>2, FunctorsTaken
<1>4. TypeOK'
  BY <1>1, <1>3 DEF TypeOK, P!TypeOK
<1>5. ASSUME NEW c \in Conns
      PROVE  SameLife(c) /\ ShutdownCalled(c)' /\ (Live(c)' => Live(c))
  <2>1. Working(c)' <=> Working(c)
    BY DEF Working
  <2>2. SameLife(c)
    BY <1>3, <2>1, NoneInProgress DEF SameLife
  <2>3. ShutdownCalled(c)'
    BY <1>3 DEF Core, ShutdownCalled, Storing
  <2>4. Live(c)' => Live(c)
    BY <1>3 DEF Live
  <2> QED
    BY <2>2, <2>3, <2>4
<1>6. LoopInv'
  BY <1>1 DEF LoopInv
<1>7. EventsInv'
  BY <1>1, EventsKept
<1>8. SendsInv'
  BY <1>1, <1>3 DEF SendsInv
<1> QED
  BY <1>3, <1>4, <1>5, <1>6, <1>7, <1>8, CoreKept

(* processFunctors() returns when all functors have run. *)
LEMMA ProcessFunctorsReturnsCore ==
    ASSUME Core, ProcessFunctorsReturns
    PROVE  Core'
<1> USE DEF ProcessFunctorsReturns, LoopAt, Running, connVars, appVars
<1>1. TypeOK /\ LoopInv /\ EventsInv /\ SendsInv /\ Once
  BY DEF Core
<1>3. /\ \A op, c : Pending(op, c)' <=> Pending(op, c)
      /\ Once'
      /\ \A c : Owning(queue, c)' \/ Owning(functors, c)' =>
                Owning(queue, c) \/ Owning(functors, c)
      /\ functors' \in Seq(Functor) /\ next' \in 1..Len(functors') + 1
  BY <1>1, FunctorsDropped
<1>4. TypeOK'
  BY <1>1, <1>3 DEF TypeOK, P!TypeOK
<1>5. ASSUME NEW c \in Conns
      PROVE  SameLife(c) /\ ShutdownCalled(c)' /\ (Live(c)' => Live(c))
  <2>1. Working(c)' <=> Working(c)
    BY DEF Working
  <2>2. SameLife(c)
    BY <1>3, <2>1, NoneInProgress DEF SameLife
  <2>3. ShutdownCalled(c)'
    BY <1>3 DEF Core, ShutdownCalled, Storing
  <2>4. Live(c)' => Live(c)
    BY <1>3 DEF Live
  <2> QED
    BY <2>2, <2>3, <2>4
<1>6. LoopInv'
  BY <1>1 DEF LoopInv
<1>7. EventsInv'
  BY <1>1, EventsKept
<1>8. SendsInv'
  BY <1>1, <1>3 DEF SendsInv
<1> QED
  BY <1>3, <1>4, <1>5, <1>6, <1>7, <1>8, CoreKept

(* The application's steps that only touch its references. *)
LEMMA ReferencesCore ==
    ASSUME Core, Retain \/ \E c \in Conns : Release(c) \/ PeerCloses(c)
    PROVE  Core'
<1> USE DEF loopVars, connVars, appVars
<1>1. TypeOK /\ LoopInv /\ EventsInv /\ SendsInv /\ Once
  BY DEF Core
<1>2. /\ UNCHANGED <<told, state, connections, queue, functors, next, poller,
                     phase, callback, pc, shutWr, out, activeChannels, scene, fault>>
      /\ fault = None
      /\ appRefs' \subseteq appRefs \cup (IF callback = None THEN {} ELSE {callback})
      /\ peerClosed' \in [Conns -> BOOLEAN]
      /\ \A c \in Conns : peerClosed[c] => peerClosed'[c]
  BY <1>1 DEF Retain, Release, PeerCloses, Running, TypeOK
<1>3. TypeOK'
  BY <1>1, <1>2 DEF TypeOK, P!TypeOK
<1>4. \A c \in Conns : SameLife(c) /\ ShutdownCalled(c)' /\ (Live(c)' => Live(c))
  <2>1. appRefs' \subseteq appRefs \cup {callback}
    BY <1>2
  <2> QED
    BY <1>2, <2>1, SameLifeKept DEF Working, Storing
<1>5. LoopInv'
  BY <1>1, <1>2 DEF LoopInv, InProgress
<1>6. EventsInv'
  BY <1>1, <1>2, EventsKept
<1>7. Once' /\ SendsInv'
  BY <1>1, <1>2, FunctorsKept DEF SendsInv
<1> QED
  BY <1>2, <1>3, <1>4, <1>5, <1>6, <1>7, CoreKept

(* A worker enters send() or shutdown(). *)
LEMMA WorkerCalledCore ==
    ASSUME Core, NEW w \in Workers, NEW d \in Conns, WorkerCalled(w, d)
    PROVE  Core'
<1> USE DEF WorkerCalled, Running, loopVars, connVars
<1>1. TypeOK /\ LoopInv /\ EventsInv /\ SendsInv /\ Once
  BY DEF Core
<1>2. PICK at \in {"queueSend", "setState"} :
         pc' = [pc EXCEPT ![w] = [at |-> at, conn |-> d]]
  BY DEF WorkerCalled
<1>3. /\ pc'[w] = [at |-> at, conn |-> d]
      /\ \A v \in Workers \ {w} : pc'[v] = pc[v]
      /\ pc' \in [Workers -> {None} \cup
                          [at   : {"queueSend", "setState", "queueShutdown"},
                           conn : Conns]]
  BY <1>1, <1>2 DEF TypeOK
<1>4. TypeOK'
  BY <1>1, <1>3 DEF TypeOK, P!TypeOK
<1>5. \A c \in Conns : /\ Working(c)' => Working(c) \/ c \in appRefs
                       /\ Storing(c)' => Storing(c)
  BY <1>3 DEF Working, Storing
<1>6. \A c \in Conns : SameLife(c) /\ ShutdownCalled(c)' /\ (Live(c)' => Live(c))
  BY <1>5, SameLifeKept
<1>7. LoopInv'
  BY <1>1 DEF LoopInv, InProgress
<1>8. EventsInv'
  BY <1>1, EventsKept
<1>9. SendsInv'
  BY <1>1, <1>3, FunctorsKept DEF SendsInv
<1>10. Once'
  BY <1>1, FunctorsKept
<1> QED
  BY <1>4, <1>6, <1>7, <1>8, <1>9, <1>10, CoreKept

(* A worker queues the functor of send() or shutdown(). *)
LEMMA WorkerQueuesCore ==
    ASSUME Core, NEW w \in Workers, WorkerQueuesSend(w) \/ WorkerQueuesShutdown(w)
    PROVE  Core'
<1>1. TypeOK /\ LoopInv /\ EventsInv /\ SendsInv /\ Once
  BY DEF Core
<1>2. PICK op \in {"send", "shutdown"} :
         /\ queue' = Append(queue, [op |-> op, conn |-> pc[w].conn])
         /\ op = "shutdown" => pc[w].at = "queueShutdown"
  BY DEF WorkerQueuesSend, WorkerQueuesShutdown, WorkerAt
<1>3. /\ UNCHANGED <<poller, activeChannels, phase, functors, next, callback,
                     connections, state, out, shutWr, told, peerClosed, scene,
                     appRefs, fault>>
      /\ pc[w] # None /\ fault = None
      /\ pc' = [pc EXCEPT ![w] = None]
  BY DEF WorkerQueuesSend, WorkerQueuesShutdown, WorkerAt, Running, loopVars, connVars
<1> DEFINE d == pc[w].conn
           f == [op |-> op, conn |-> d]
<1>4. /\ pc'[w] = None
      /\ \A v \in Workers \ {w} : pc'[v] = pc[v]
      /\ pc' \in [Workers -> {None} \cup
                          [at   : {"queueSend", "setState", "queueShutdown"},
                           conn : Conns]]
      /\ d \in Conns
  BY <1>1, <1>3 DEF TypeOK
<1>5. /\ f \in Functor /\ queue' = Append(queue, f) /\ f.op = op /\ f.conn = d
      /\ f.op \notin OnceOps
  BY <1>2, <1>4 DEF Functor, OnceOps
<1> HIDE DEF f, d
<1>6. /\ \A o, c : Pending(o, c)' <=> Pending(o, c) \/ Is(f, o, c)
      /\ Once'
      /\ \A c : /\ Owning(queue, c)' <=>
                      Owning(queue, c) \/ (f.conn = c /\ f.op # "send")
                /\ Owning(functors, c)' <=> Owning(functors, c)
      /\ queue' \in Seq(Functor)
  BY <1>1, <1>3, <1>5, FunctorQueued
<1>7. TypeOK'
  BY <1>1, <1>3, <1>4, <1>6 DEF TypeOK, P!TypeOK
<1>8. Working(d) /\ (op = "shutdown" => Storing(d))
  BY <1>2, <1>3 DEF Working, Storing, d
<1>9. told[d] # "none"
  BY <1>4, <1>8, LifeFacts
<1>10. ASSUME NEW c \in Conns
       PROVE  SameLife(c) /\ ShutdownCalled(c)' /\ (Live(c)' => Live(c))
  <2>1. (Working(c)' => Working(c)) /\ (Storing(c)' => Storing(c))
    BY <1>4 DEF Working, Storing
  <2>2. \A o \in OnceOps : Pending(o, c)' <=> Pending(o, c)
    BY <1>5, <1>6 DEF Is
  <2>3. c # d => \A o : Pending(o, c)' <=> Pending(o, c)
    BY <1>5, <1>6 DEF Is
  <2>4. \A o : InProgress(o, c)' <=> InProgress(o, c)
    BY <1>3 DEF InProgress
  <2>5. SameLife(c)
    BY <1>3, <1>9, <2>1, <2>2, <2>3, <2>4 DEF SameLife
  <2>6. Pending("shutdown", c)' => Pending("shutdown", c) \/ Storing(c)
    BY <1>5, <1>6, <1>8 DEF Is
  <2>7. ShutdownCalled(c)'
    BY <1>3, <2>1, <2>6 DEF Core, ShutdownCalled
  <2>8. Live(c)' => Live(c)
    BY <1>3, <1>5, <1>6, <1>8, <2>1 DEF Live, Working
  <2> QED
    BY <2>5, <2>7, <2>8
<1>11. LoopInv'
  BY <1>1, <1>3 DEF LoopInv, InProgress
<1>12. EventsInv'
  BY <1>1, <1>3, EventsKept
<1>13. SendsInv'
  BY <1>1, <1>3, <1>4, <1>6 DEF SendsInv
<1> QED
  BY <1>3, <1>6, <1>7, <1>10, <1>11, <1>12, <1>13, CoreKept

(* The kernel reports what it looks at: registered connections that were   *)
(* not closed.                                                             *)
LEMMA PollCore ==
    ASSUME Core, Poll
    PROVE  Core'
<1> USE DEF LoopAt, Running, connVars, appVars
<1>1. TypeOK /\ LoopInv /\ EventsInv /\ SendsInv /\ Once /\ PollerInv
  BY DEF Core, Poll
<1>2. /\ UNCHANGED <<poller, functors, next, queue, callback, connections, state,
                     out, shutWr, told, peerClosed, scene, appRefs, pc, fault>>
      /\ fault = None /\ callback = None /\ phase = "poll" /\ phase' = "handle"
  BY DEF Poll
<1>3. PICK reports \in [P!Pollable(poller) -> SUBSET {"IN", "OUT", "HUP"}] :
         LET ready == {i \in P!Pollable(poller) : reports[i] # {}}
         IN  /\ \A i \in P!Pollable(poller) :
                   reports[i] \in Reports(poller.channels[poller.fds[i].fd])
             /\ \E hit \in P!InOrder(ready) :
                   activeChannels' =
                       [k \in DOMAIN hit |->
                           [chan    |-> P!FillActiveChannels(poller, hit)[k],
                            revents |-> reports[hit[k]]]]
  BY DEF Poll
<1> DEFINE ready == {i \in P!Pollable(poller) : reports[i] # {}}
<1>4. PICK hit \in P!InOrder(ready) :
         activeChannels' =
             [k \in DOMAIN hit |->
                 [chan    |-> P!FillActiveChannels(poller, hit)[k],
                  revents |-> reports[hit[k]]]]
  BY <1>3
<1> DEFINE n == Cardinality(ready)
<1>5. n \in Nat
  <2>1. Len(poller.fds) \in Nat
    BY <1>1 DEF TypeOK, P!TypeOK, P!WellTyped
  <2>2. IsFiniteSet(1..Len(poller.fds))
    BY <2>1, FS_Interval
  <2>3. ready \subseteq 1..Len(poller.fds)
    BY DEF P!Pollable
  <2> HIDE DEF ready
  <2> QED
    BY <2>2, <2>3, FS_Subset, FS_CardinalityType
<1>6. /\ hit \in [1..n -> ready]
      /\ \A j, k \in 1..n : j < k => hit[j] < hit[k]
  <2>1. P!Cardinality(ready) = n
    BY SameCardinality
  <2> HIDE DEF n, ready
  <2> QED
    BY <2>1 DEF P!InOrder
<1> DEFINE chan == [i \in P!Pollable(poller) |-> poller.channels[poller.fds[i].fd]]
<1>7. ASSUME NEW i \in P!Pollable(poller)
      PROVE  /\ chan[i] \in Conns \cup {Listener}
             /\ poller.index[chan[i]] = i - 1
             /\ i \in Nat
             /\ chan[i] # Listener => told[chan[i]] = "up" /\ chan[i] \in connections
  <2>0. P!WellTyped(poller) /\ P!Consistent(poller)
    BY <1>1 DEF TypeOK, P!TypeOK, PollerInv
  <2>1. /\ chan[i] \in P!Registered(poller)
        /\ FdOf[chan[i]] = poller.fds[i].fd
        /\ poller.index[chan[i]] = i - 1
        /\ P!PollFdOf(poller, chan[i]) = poller.fds[i]
    BY <2>0, PollerPollable
  <2> HIDE DEF chan
  <2>2. i \in Nat /\ poller.fds[i].fd >= 0
    BY DEF P!Pollable
  <2>3. chan[i] \in Conns \cup {Listener}
    BY <2>1 DEF P!Registered
  <2>4. ASSUME chan[i] \in Conns PROVE told[chan[i]] = "up" /\ chan[i] \in connections
    <3>1. told[chan[i]] = "up"
      BY <2>1, <2>4, <1>2, LifeFacts
    <3>2. FdOf[chan[i]] \in Nat
      BY <2>4, FdType
    <3>3. P!PollFdOf(poller, chan[i]).fd # P!Ignored(FdOf[chan[i]])
      <4>1. P!PollFdOf(poller, chan[i]).fd = FdOf[chan[i]]
        BY <2>1
      <4>2. P!Ignored(FdOf[chan[i]]) = -FdOf[chan[i]] - 1
        BY DEF P!Ignored
      <4> QED
        BY <3>2, <4>1, <4>2
    <3> QED
      BY <3>1, <3>3, <2>1, <2>4, <1>1 DEF PollerInv
  <2> QED
    BY <2>1, <2>2, <2>3, <2>4
<1>8. ASSUME NEW k \in 1..n
      PROVE  /\ hit[k] \in P!Pollable(poller)
             /\ activeChannels'[k] = [chan |-> chan[hit[k]], revents |-> reports[hit[k]]]
             /\ activeChannels'[k].chan = chan[hit[k]]
             /\ activeChannels'[k].revents = reports[hit[k]]
  <2> HIDE DEF n
  <2> QED
    BY <1>4, <1>6 DEF P!FillActiveChannels
<1> HIDE DEF chan, n, ready
<1>9. ASSUME NEW k \in 1..n
      PROVE  activeChannels'[k] \in [chan : Conns \cup {Listener},
                                     revents : SUBSET {"IN", "OUT", "HUP"}]
  <2> DEFINE c == chan[hit[k]]
             r == reports[hit[k]]
  <2>1. hit[k] \in P!Pollable(poller) /\ activeChannels'[k] = [chan |-> c, revents |-> r]
    BY <1>8
  <2>2. c \in Conns \cup {Listener}
    BY <2>1, <1>7
  <2>3. r \in SUBSET {"IN", "OUT", "HUP"}
    BY <2>1
  <2> HIDE DEF c, r
  <2> QED
    BY <2>1, <2>2, <2>3
<1>10. /\ activeChannels' \in Seq([chan : Conns \cup {Listener},
                                   revents : SUBSET {"IN", "OUT", "HUP"}])
       /\ Len(activeChannels') = n
  <2>1. activeChannels' =
           [k \in 1..n |-> [chan    |-> P!FillActiveChannels(poller, hit)[k],
                            revents |-> reports[hit[k]]]]
    BY <1>4, <1>6
  <2>2. activeChannels' \in [1..n -> [chan : Conns \cup {Listener},
                                      revents : SUBSET {"IN", "OUT", "HUP"}]]
    BY <2>1, <1>9
  <2> DEFINE E == [chan : Conns \cup {Listener}, revents : SUBSET {"IN", "OUT", "HUP"}]
  <2>3. activeChannels' \in [1..n -> E]
    BY <2>2
  <2> HIDE DEF E
  <2>4. activeChannels' \in Seq(E) /\ Len(activeChannels') = n
    BY <2>3, <1>5
  <2> QED
    BY <2>4 DEF E
<1>11. ASSUME NEW k \in 1..n PROVE EventOk(activeChannels[k])'
  <2> DEFINE i == hit[k]
             c == chan[i]
  <2>1. /\ activeChannels'[k] = [chan |-> c, revents |-> reports[i]]
        /\ reports[i] \in Reports(c)
        /\ c \in Conns \cup {Listener}
        /\ c # Listener => told[c] = "up" /\ c \in connections
    BY <1>3, <1>7, <1>8 DEF chan
  <2> HIDE DEF c, i
  <2>2. c # Listener => ("HUP" \in reports[i] => peerClosed[c])
    BY <2>1 DEF Reports
  <2> QED
    BY <2>1, <2>2, <1>2 DEF EventOk
<1>12. ASSUME NEW j \in 1..n, NEW k \in 1..n,
              activeChannels'[j].chan = activeChannels'[k].chan
       PROVE  j = k
  <2>1. chan[hit[j]] = chan[hit[k]]
    <3>1. activeChannels'[j].chan = chan[hit[j]]
      BY <1>8
    <3>2. activeChannels'[k].chan = chan[hit[k]]
      BY <1>8
    <3> QED
      BY <3>1, <3>2, <1>12
  <2>2. hit[j] = hit[k] /\ hit[j] \in Nat
    <3>1. hit[j] \in P!Pollable(poller) /\ hit[k] \in P!Pollable(poller)
      BY <1>8
    <3>2. poller.index[chan[hit[j]]] = hit[j] - 1 /\ hit[j] \in Nat
      BY <3>1, <1>7
    <3>3. poller.index[chan[hit[k]]] = hit[k] - 1 /\ hit[k] \in Nat
      BY <3>1, <1>7
    <3> QED
      BY <2>1, <3>2, <3>3
  <2> QED
    BY <2>2, <1>5, <1>6
<1>13. EventsInv'
  BY <1>10, <1>11, <1>12 DEF EventsInv
<1>14. TypeOK'
  BY <1>1, <1>2, <1>10 DEF TypeOK, P!TypeOK
<1>15. \A c \in Conns : SameLife(c) /\ ShutdownCalled(c)' /\ (Live(c)' => Live(c))
  BY <1>2, SameLifeKept DEF Working, Storing
<1>16. LoopInv'
  BY <1>1, <1>2 DEF LoopInv
<1>17. Once' /\ SendsInv'
  BY <1>1, <1>2, FunctorsKept DEF SendsInv
<1> QED
  BY <1>2, <1>13, <1>14, <1>15, <1>16, <1>17, CoreKept

-----------------------------------------------------------------------------
Event == [chan : Conns \cup {Listener}, revents : SUBSET {"IN", "OUT", "HUP"}]

(* handleEvent() drops the bits it looked at from the event it handles. *)
LEMMA EventHandled ==
    ASSUME TypeOK, activeChannels # <<>>, NEW bits, Handled(bits)
    PROVE  /\ activeChannels' \in Seq(Event)
           /\ Len(activeChannels') = Len(activeChannels)
           /\ Len(activeChannels) \in Nat \ {0}
           /\ Dispatched = activeChannels[1]
           /\ Dispatched \in Event
           /\ \A k \in 2..Len(activeChannels) : activeChannels'[k] = activeChannels[k]
           /\ activeChannels'[1].chan = Dispatched.chan
           /\ activeChannels'[1].revents = Dispatched.revents \ bits
<1> DEFINE a == activeChannels
<1>1. a \in Seq(Event)
  BY DEF TypeOK, Event
<1>2. Len(a) \in Nat \ {0} /\ 1 \in 1..Len(a) /\ DOMAIN a = 1..Len(a)
  BY <1>1
<1>3. Dispatched = a[1] /\ a[1] \in Event
  BY <1>1, <1>2 DEF Dispatched
<1> DEFINE e == [a[1] EXCEPT !.revents = a[1].revents \ bits]
<1>4. e \in Event /\ e.chan = a[1].chan /\ e.revents = a[1].revents \ bits
  BY <1>3 DEF Event
<1>5. activeChannels' = [a EXCEPT ![1] = e]
  BY DEF Handled
<1> HIDE DEF a, e
<1>6. /\ activeChannels' \in Seq(Event) /\ Len(activeChannels') = Len(a)
      /\ activeChannels'[1] = e
      /\ \A k \in 2..Len(a) : activeChannels'[k] = a[k]
  <2>1. activeChannels' \in [1..Len(a) -> Event]
    BY <1>1, <1>2, <1>4, <1>5
  <2>2. activeChannels' \in Seq(Event) /\ Len(activeChannels') = Len(a)
    BY <2>1, <1>2
  <2>3. activeChannels'[1] = e
    BY <1>2, <1>5
  <2>4. \A k \in 2..Len(a) : k \in DOMAIN a /\ k # 1
    BY <1>2
  <2>5. \A k \in 2..Len(a) : activeChannels'[k] = a[k]
    BY <2>4, <1>5
  <2> QED
    BY <2>2, <2>3, <2>5
<1> QED
  BY <1>2, <1>3, <1>4, <1>6 DEF a

(* What is left of the events is right if it is for the connections whose  *)
(* events come later, and for the bits left of the present event.          *)
LEMMA EventsGoOn ==
    ASSUME TypeOK, EventsInv, activeChannels # <<>>, NEW bits, Handled(bits),
           \A c \in Conns \ {Dispatched.chan} :
              /\ told[c] = "up" => told'[c] = "up"
              /\ c \in connections => c \in connections'
              /\ peerClosed[c] => peerClosed'[c],
           Dispatched.chan \in Conns =>
              /\ told'[Dispatched.chan] = "up"
              /\ peerClosed[Dispatched.chan] => peerClosed'[Dispatched.chan]
              /\ \/ Dispatched.revents \ bits \subseteq {"OUT"}
                 \/ Dispatched.chan \in connections => Dispatched.chan \in connections'
    PROVE  EventsInv'
<1>1. /\ activeChannels' \in Seq(Event)
      /\ Len(activeChannels') = Len(activeChannels)
      /\ Len(activeChannels) \in Nat \ {0}
      /\ Dispatched = activeChannels[1]
      /\ Dispatched \in Event
      /\ \A k \in 2..Len(activeChannels) : activeChannels'[k] = activeChannels[k]
      /\ activeChannels'[1].chan = Dispatched.chan
      /\ activeChannels'[1].revents = Dispatched.revents \ bits
  BY EventHandled
<1>2. \A k \in 1..Len(activeChannels) : activeChannels'[k].chan = activeChannels[k].chan
  BY <1>1
<1>3. \A j, k \in 1..Len(activeChannels') :
         activeChannels'[j].chan = activeChannels'[k].chan => j = k
  BY <1>1, <1>2 DEF EventsInv
<1>4. ASSUME NEW k \in 2..Len(activeChannels)
      PROVE  EventOk(activeChannels[k])'
  <2> DEFINE e == activeChannels[k]
  <2>0. k \in 1..Len(activeChannels) /\ 1 \in 1..Len(activeChannels) /\ k # 1
    BY <1>1
  <2>1. e.chan # Dispatched.chan
    BY <1>1, <2>0 DEF EventsInv
  <2>2. EventOk(e) /\ activeChannels'[k] = e
    BY <1>1, <2>0 DEF EventsInv
  <2>3. e.chan \in Conns \cup {Listener}
    <3>1. e \in Event
      <4>1. activeChannels \in Seq(Event)
        BY DEF TypeOK, Event
      <4> QED
        BY <4>1, <2>0, ElementOfSeq
    <3> QED
      BY <3>1 DEF Event
  <2> HIDE DEF e
  <2> QED
    BY <2>1, <2>2, <2>3 DEF EventOk
<1>5. EventOk(activeChannels[1])'
  <2> DEFINE c == Dispatched.chan
             r == Dispatched.revents
  <2>1. EventOk(Dispatched)
    BY <1>1 DEF EventsInv
  <2>2. c \in Conns \cup {Listener} /\ r \subseteq {"IN", "OUT", "HUP"}
    BY <1>1 DEF Event
  <2>3. activeChannels'[1].chan = c /\ activeChannels'[1].revents = r \ bits
    BY <1>1
  <2> QED
    BY <2>1, <2>2, <2>3 DEF EventOk
<1>6. ASSUME NEW k \in 1..Len(activeChannels')
      PROVE  EventOk(activeChannels[k])'
  <2>1. k = 1 \/ k \in 2..Len(activeChannels)
    BY <1>1
  <2> QED
    BY <2>1, <1>4, <1>5
<1> QED
  BY <1>3, <1>6 DEF EventsInv

(* accept() fails. *)
LEMMA AcceptFailsCore ==
    ASSUME Core, IncomingHandler, UNCHANGED <<state, connections, queue>>
    PROVE  Core'
<1> USE DEF IncomingHandler, LoopAt, Running, appVars
<1>1. TypeOK /\ LoopInv /\ EventsInv /\ SendsInv /\ Once
  BY DEF Core
<1>2. activeChannels' \in Seq(Event)
  BY <1>1, EventHandled
<1>3. TypeOK'
  BY <1>1, <1>2 DEF TypeOK, P!TypeOK, Event
<1>4. \A c \in Conns : SameLife(c) /\ ShutdownCalled(c)' /\ (Live(c)' => Live(c))
  BY SameLifeKept DEF Working, Storing
<1>5. LoopInv'
  BY <1>1 DEF LoopInv
<1>6. Dispatched.chan \notin Conns
  BY ServerAssumption
<1>7. EventsInv'
  BY <1>1, <1>6, EventsGoOn
<1>8. Once' /\ SendsInv'
  BY <1>1, FunctorsKept DEF SendsInv
<1> QED
  BY <1>3, <1>4, <1>5, <1>7, <1>8, CoreKept

(* A connection is accepted. *)
LEMMA AcceptCore ==
    ASSUME Core, IncomingHandler, NEW c \in scene.conns, state[c] = "NONE",
           \A d \in Conns : Live(d) => FdOf[d] # FdOf[c],
           NewConnectionHandler(c)
    PROVE  Core'
<1> USE DEF LoopAt, Running, appVars
<1>1. TypeOK /\ LoopInv /\ EventsInv /\ SendsInv /\ Once
  BY DEF Core
<1>2. /\ UNCHANGED <<poller, phase, functors, next, callback, out, shutWr, told,
                     peerClosed, scene, appRefs, pc, fault>>
      /\ fault = None /\ phase = "handle" /\ callback = None
      /\ activeChannels # <<>> /\ Handled({"IN"})
      /\ Dispatched.chan = Listener
  BY DEF IncomingHandler
<1>3. c \in Conns
  BY <1>1, ServerAssumption DEF TypeOK
<1> DEFINE f == [op |-> "establish", conn |-> c]
<1>4. /\ state' = [state EXCEPT ![c] = "CONNECTING"]
      /\ connections' = connections \cup {c}
      /\ queue' = Append(queue, f)
      /\ f \in Functor /\ f.op = "establish" /\ f.conn = c
  BY <1>3 DEF NewConnectionHandler, Functor
<1> HIDE DEF f
<1>5. told[c] = "none" /\ NotYet(c)
  BY <1>3 DEF Core, Life, Up, Down
<1>6. /\ \A o, d : Pending(o, d)' <=> Pending(o, d) \/ Is(f, o, d)
      /\ Once'
      /\ \A d : /\ Owning(queue, d)' <=>
                      Owning(queue, d) \/ (f.conn = d /\ f.op # "send")
                /\ Owning(functors, d)' <=> Owning(functors, d)
      /\ queue' \in Seq(Functor)
  BY <1>1, <1>2, <1>4, <1>5, FunctorQueued DEF NotYet, OnceOps
<1>7. TypeOK'
  <2>1. activeChannels' \in Seq(Event)
    BY <1>1, <1>2, EventHandled
  <2>2. state' \in [Conns -> States] /\ connections' \subseteq Conns
    BY <1>1, <1>3, <1>4 DEF TypeOK, States
  <2> QED
    BY <1>1, <1>2, <1>6, <2>1, <2>2 DEF TypeOK, P!TypeOK, Event
<1>8. \A d \in Conns : (Working(d)' <=> Working(d)) /\ (Storing(d)' <=> Storing(d))
  BY <1>2 DEF Working, Storing
<1>9. \A d \in Conns \ {c} : state'[d] = state[d] /\ \A o : Pending(o, d)' <=> Pending(o, d)
  BY <1>1, <1>4, <1>6 DEF TypeOK, Is
<1>10. /\ state'[c] = "CONNECTING"
       /\ Pending("establish", c)'
       /\ \A o : o # "establish" => (Pending(o, c)' <=> Pending(o, c))
  BY <1>1, <1>3, <1>4, <1>6 DEF TypeOK, Is
<1>11. ASSUME NEW d \in Conns PROVE Life(d)'
  <2>1. CASE d = c
    BY <1>2, <1>4, <1>5, <1>8, <1>10, <2>1 DEF Life, NotYet
  <2>2. CASE d # c
    <3>1. SameLife(d)
      BY <1>2, <1>4, <1>8, <1>9, <2>2, NoneInProgress DEF SameLife
    <3> QED
      BY <3>1, LifeKept DEF Core
  <2> QED
    BY <2>1, <2>2
<1>12. ASSUME NEW d \in Conns PROVE ShutdownCalled(d)'
  <2>0. ShutdownCalled(d)
    BY DEF Core
  <2>1. CASE d = c
    BY <2>0, <1>2, <1>8, <1>10, <2>1 DEF ShutdownCalled
  <2>2. CASE d # c
    BY <2>0, <1>2, <1>8, <1>9, <2>2 DEF ShutdownCalled
  <2> QED
    BY <2>1, <2>2
<1>13. \A d \in Conns : OutputWatched(d)'
  BY <1>2 DEF Core, OutputWatched, IsWriting
<1>14. LoopInv'
  BY <1>1, <1>2 DEF LoopInv
<1>15. EventsInv'
  <2>1. Dispatched.chan \notin Conns
    BY <1>2, ServerAssumption
  <2> QED
    BY <1>1, <1>2, <1>4, <2>1, EventsGoOn
<1>16. DistinctFds'
  <2>1. \A d \in Conns \ {c} : Live(d)' => Live(d)
    BY <1>2, <1>4, <1>6 DEF Live
  <2>2. DistinctFds
    BY DEF Core
  <2> QED
    BY <2>1, <2>2, <1>3 DEF DistinctFds
<1>17. SendsInv'
  <2>1. \A d \in Conns : Pending("send", d)' => Pending("send", d)
    BY <1>9, <1>10
  <2> QED
    BY <2>1, <1>1, <1>2 DEF SendsInv
<1>18. PollerInv'
  BY <1>2, <1>4 DEF Core, PollerInv
<1>19. OnlyQueuedSendFaults'
  BY <1>2 DEF OnlyQueuedSendFaults
<1> QED
  BY <1>6, <1>7, <1>11, <1>12, <1>13, <1>14, <1>15, <1>16, <1>17, <1>18, <1>19 DEF Core

(* A step that updates a registered connection's channel. *)
LEMMA ChannelUpdated ==
    ASSUME TypeOK, PollerInv, NEW c \in Conns, c \in P!Registered(poller),
           poller.index[c] >= 0, NEW ev \in SUBSET P!Events,
           poller' = P!SetEvents(poller, c, ev)
    PROVE  /\ P!Consistent(poller') /\ P!WellTyped(poller')
           /\ P!UpdateAsserts(poller, c)
           /\ \A d \in P!Registered(poller) \ {c} :
                 P!PollFdOf(poller', d) = P!PollFdOf(poller, d)
           /\ ev = {} \/ P!PollFdOf(poller, c).fd = P!Ignored(FdOf[c])
                => P!PollFdOf(poller', c).fd = P!Ignored(FdOf[c])
           /\ P!Registered(poller') = P!Registered(poller)
           /\ poller'.index = poller.index
           /\ poller'.events[c] = ev
           /\ \A d \in Conns \ {c} : poller'.events[d] = poller.events[d]
<1>1. P!WellTyped(poller) /\ P!Consistent(poller)
  BY DEF TypeOK, P!TypeOK, PollerInv
<1> DEFINE q == P!SetEvents(poller, c, ev)
<1>2. P!Consistent(q) /\ P!UpdateAsserts(poller, c)
  BY <1>1, PollerUpdate
<1>3. \A d \in P!Registered(poller) \ {c} : P!PollFdOf(q, d) = P!PollFdOf(poller, d)
  BY <1>1, PollerUpdate
<1>4. ev = {} \/ P!PollFdOf(poller, c).fd = P!Ignored(FdOf[c])
         => P!PollFdOf(q, c).fd = P!Ignored(FdOf[c])
  BY <1>1, PollerUpdate
<1>5. c \in Conns \cup {Listener}
  OBVIOUS
<1>6. /\ P!WellTyped(q) /\ P!Registered(q) = P!Registered(poller)
      /\ q.index = poller.index
      /\ q.events = [poller.events EXCEPT ![c] = ev]
  BY <1>1, <1>5, PollerUpdateTyped
<1>7. poller.events \in [Conns \cup {Listener} -> SUBSET P!Events]
  BY <1>1 DEF P!WellTyped
<1>8. q = poller'
  OBVIOUS
<1> HIDE DEF q
<1> QED
  BY <1>2, <1>3, <1>4, <1>6, <1>7, <1>8

(* closeHandler() of the connection whose event is handled: it is up, in   *)
(* the map and registered, so that no assertion fails.                     *)
LEMMA CloseCore ==
    ASSUME Core, NEW c \in Conns, AtEvent(c), NEW bits, Handled(bits),
           "IN" \in Dispatched.revents \/ "HUP" \in Dispatched.revents,
           Dispatched.revents \ bits \subseteq {"OUT"},
           peerClosed[c], CloseHandler(c),
           UNCHANGED <<phase, functors, next, callback, state, out, shutWr, told,
                       peerClosed, appVars>>
    PROVE  Core'
<1> USE DEF AtEvent, LoopAt, Running, appVars
<1>1. /\ TypeOK /\ LoopInv /\ EventsInv /\ SendsInv /\ Once /\ PollerInv
      /\ fault = None /\ callback = None
  BY DEF Core
<1>2. told[c] = "up" /\ c \in connections
  <2>1. Dispatched = activeChannels[1] /\ Len(activeChannels) \in Nat \ {0}
    BY <1>1, EventHandled
  <2>2. EventOk(Dispatched)
    BY <1>1, <2>1 DEF EventsInv
  <2>3. c # Listener
    BY ServerAssumption
  <2> QED
    BY <2>2, <2>3 DEF EventOk
<1>3. Up(c)
  BY <1>2 DEF Core, Life
<1>4. ~Pending("destroy", c) /\ ~Pending("establish", c) /\ c \in P!Registered(poller)
  BY <1>1, <1>2, <1>3, NoneInProgress DEF Up
<1>5. /\ poller' = P!SetEvents(poller, c, {})
      /\ connections' = connections \ {c}
      /\ queue' = Append(queue, [op |-> "destroy", conn |-> c])
  BY DEF CloseHandler, RemoveConnection, P!DisableAll
<1>6. /\ P!Consistent(poller') /\ P!WellTyped(poller')
      /\ P!UpdateAsserts(poller, c)
      /\ \A d \in P!Registered(poller) \ {c} :
            P!PollFdOf(poller', d) = P!PollFdOf(poller, d)
      /\ P!PollFdOf(poller', c).fd = P!Ignored(FdOf[c])
      /\ P!Registered(poller') = P!Registered(poller)
      /\ poller'.index = poller.index
      /\ \A d \in Conns \ {c} : poller'.events[d] = poller.events[d]
  <2>1. {} \in SUBSET P!Events /\ poller.index[c] >= 0
    BY <1>3 DEF Up
  <2> QED
    BY <1>1, <1>4, <1>5, <2>1, ChannelUpdated
<1>8. fault' = None
  BY <1>2, <1>3, <1>6 DEF CloseHandler, AssertThat, Up
<1> DEFINE f == [op |-> "destroy", conn |-> c]
<1>9. queue' = Append(queue, f) /\ f \in Functor /\ f.op = "destroy" /\ f.conn = c
  BY <1>5 DEF Functor
<1> HIDE DEF f
<1>10. /\ \A o, d : Pending(o, d)' <=> Pending(o, d) \/ Is(f, o, d)
       /\ Once'
       /\ \A d : /\ Owning(queue, d)' <=>
                       Owning(queue, d) \/ (f.conn = d /\ f.op # "send")
                 /\ Owning(functors, d)' <=> Owning(functors, d)
       /\ queue' \in Seq(Functor)
  BY <1>1, <1>4, <1>9, FunctorQueued
<1>11. TypeOK'
  <2>1. activeChannels' \in Seq(Event)
    BY <1>1, EventHandled
  <2>2. connections' \subseteq Conns
    BY <1>1, <1>5 DEF TypeOK
  <2>3. P!TypeOK'
    BY <1>1, <1>6 DEF TypeOK, P!TypeOK
  <2> QED
    BY <1>1, <1>10, <2>1, <2>2, <2>3 DEF TypeOK, Event
<1>12. \A d \in Conns : (Working(d)' <=> Working(d)) /\ (Storing(d)' <=> Storing(d))
  BY DEF Working, Storing
<1>13. \A d \in Conns \ {c} : \A o : Pending(o, d)' <=> Pending(o, d)
  BY <1>9, <1>10 DEF Is
<1>14. /\ Pending("destroy", c)'
       /\ \A o : o # "destroy" => (Pending(o, c)' <=> Pending(o, c))
  BY <1>9, <1>10 DEF Is
<1>15. ASSUME NEW d \in Conns PROVE Life(d)'
  <2>1. CASE d = c
    BY <1>2, <1>3, <1>4, <1>5, <1>6, <1>14, <2>1 DEF Life, Up
  <2>2. CASE d # c
    <3>1. SameLife(d)
      BY <1>1, <1>5, <1>6, <1>12, <1>13, <2>2, NoneInProgress DEF SameLife
    <3> QED
      BY <3>1, LifeKept DEF Core
  <2> QED
    BY <2>1, <2>2
<1>16. ASSUME NEW d \in Conns PROVE ShutdownCalled(d)'
  <2>1. Pending("shutdown", d)' <=> Pending("shutdown", d)
    BY <1>13, <1>14
  <2> QED
    BY <2>1, <1>12 DEF Core, ShutdownCalled
<1>17. ASSUME NEW d \in Conns PROVE OutputWatched(d)'
  <2>1. d # c => poller'.events[d] = poller.events[d]
    BY <1>6
  <2> QED
    BY <2>1 DEF Core, OutputWatched, IsWriting
<1>18. LoopInv'
  BY <1>1 DEF LoopInv
<1>19. EventsInv'
  BY <1>1, <1>2, <1>5, EventsGoOn
<1>20. DistinctFds'
  <2>1. \A d \in Conns : Live(d)' => Live(d)
    BY <1>2, <1>5, <1>9, <1>10 DEF Live
  <2> QED
    BY <2>1, DistinctKept DEF Core
<1>21. SendsInv'
  <2>1. \A d \in Conns : Pending("send", d)' => Pending("send", d)
    BY <1>13, <1>14
  <2> QED
    BY <2>1, <1>1 DEF SendsInv
<1>22. PollerInv'
  <2>1. ASSUME NEW d \in Conns \cap P!Registered(poller')
        PROVE  /\ d \notin connections' => P!PollFdOf(poller', d).fd = P!Ignored(FdOf[d])
               /\ told'[d] = "down" => poller'.events[d] = {}
    <3>1. CASE d = c
      BY <3>1, <1>2, <1>6
    <3>2. CASE d # c
      <4>1. poller'.events[d] = poller.events[d]
        BY <1>6, <3>2
      <4> QED
        BY <4>1, <3>2, <1>1, <1>5, <1>6 DEF PollerInv
    <3> QED
      BY <3>1, <3>2
  <2> QED
    BY <2>1, <1>6 DEF PollerInv
<1>23. OnlyQueuedSendFaults'
  BY <1>8 DEF OnlyQueuedSendFaults
<1> QED
  BY <1>10, <1>11, <1>15, <1>16, <1>17, <1>18, <1>19, <1>20, <1>21, <1>22, <1>23
     DEF Core

(* What the application is told. *)
LEMMA TellFacts ==
    ASSUME TypeOK, NEW c \in Conns, NEW what, Tell(c, what)
    PROVE  /\ callback' = c
           /\ told[c] = "up" /\ what = "message" => told' = told
           /\ told[c] = "none" /\ what = "up" => told' = [told EXCEPT ![c] = "up"]
           /\ told[c] = "up" /\ what = "down" => told' = [told EXCEPT ![c] = "down"]
<1> DEFINE expected == {<<"none", "up", "up">>, <<"up", "message", "up">>,
                        <<"up", "down", "down">>}
           then == CHOOSE t \in {"up", "down"} : <<told[c], what, t>> \in expected
<1>1. /\ callback' = c
      /\ \A t \in {"up", "down"} :
            <<told[c], what, t>> \in expected =>
                told' = [told EXCEPT ![c] = then] /\ <<told[c], what, then>> \in expected
  BY DEF Tell
<1>2. told \in [Conns -> {"none", "up", "down", "wrong"}]
  BY DEF TypeOK
<1> HIDE DEF then
<1>3. told[c] = "up" /\ what = "message" => then = "up" /\ told' = [told EXCEPT ![c] = then]
  BY <1>1
<1>4. told[c] = "none" /\ what = "up" => then = "up" /\ told' = [told EXCEPT ![c] = then]
  BY <1>1
<1>5. told[c] = "up" /\ what = "down" => then = "down" /\ told' = [told EXCEPT ![c] = then]
  BY <1>1
<1> QED
  BY <1>1, <1>2, <1>3, <1>4, <1>5

(* The connection whose event is handled is up. *)
LEMMA DispatchedIsUp ==
    ASSUME Core, NEW c \in Conns, AtEvent(c)
    PROVE  /\ told[c] = "up"
           /\ Dispatched.revents \in SUBSET {"IN", "OUT", "HUP"}
           /\ "IN" \in Dispatched.revents \/ "HUP" \in Dispatched.revents => c \in connections
           /\ "HUP" \in Dispatched.revents => peerClosed[c]
<1>1. activeChannels \in Seq(Event) /\ activeChannels # <<>> /\ EventsInv
  BY DEF Core, TypeOK, Event, AtEvent
<1>2. Dispatched = activeChannels[1] /\ 1 \in 1..Len(activeChannels) /\ Dispatched \in Event
  BY <1>1 DEF Dispatched
<1>3. EventOk(Dispatched)
  BY <1>1, <1>2 DEF EventsInv
<1>4. c # Listener /\ Dispatched.chan = c
  BY ServerAssumption DEF AtEvent
<1> QED
  BY <1>2, <1>3, <1>4 DEF EventOk, Event

(* POLLHUP closes a connection that is up. *)
LEMMA HandleHupCore ==
    ASSUME Core, NEW c \in Conns, HandleHup(c)
    PROVE  Core'
<1>1. /\ AtEvent(c) /\ Handled({"HUP"}) /\ CloseHandler(c)
      /\ "HUP" \in Dispatched.revents /\ "IN" \notin Dispatched.revents
      /\ UNCHANGED <<phase, functors, next, callback, state, out, shutWr, told,
                     peerClosed, appVars>>
  BY DEF HandleHup
<1>2. Dispatched.revents \ {"HUP"} \subseteq {"OUT"} /\ peerClosed[c]
  BY <1>1, DispatchedIsUp
<1> QED
  BY <1>1, <1>2, CloseCore

(* connectionHandler() reads a message, or closes the connection. *)
LEMMA ConnectionHandlerCore ==
    ASSUME Core, NEW c \in Conns, ConnectionHandler(c)
    PROVE  Core'
<1>1. /\ AtEvent(c) /\ Handled({"IN", "HUP"}) /\ "IN" \in Dispatched.revents
      /\ UNCHANGED <<phase, functors, next, state, out, shutWr, peerClosed, appVars>>
  BY DEF ConnectionHandler
<1>2. /\ Dispatched.revents \ {"IN", "HUP"} \subseteq {"OUT"}
      /\ told[c] = "up" /\ c \in connections
  BY <1>1, DispatchedIsUp
<1>3. CASE peerClosed[c] /\ CloseHandler(c) /\ UNCHANGED <<callback, told>>
  BY <1>1, <1>2, <1>3, CloseCore
<1>4. CASE Tell(c, "message") /\ UNCHANGED <<poller, connections, queue, fault>>
  <2>1. /\ TypeOK /\ LoopInv /\ EventsInv /\ SendsInv /\ Once
        /\ fault = None /\ callback = None /\ activeChannels # <<>> /\ phase = "handle"
        /\ Dispatched.chan = c
    BY <1>1 DEF Core, AtEvent, LoopAt, Running
  <2>2. callback' = c /\ told' = told
    BY <1>2, <1>4, <2>1, TellFacts
  <2>3. TypeOK'
    <3>1. activeChannels' \in Seq(Event)
      BY <1>1, <2>1, EventHandled
    <3> QED
      BY <1>1, <1>4, <2>1, <2>2, <3>1 DEF TypeOK, P!TypeOK, Event, appVars
  <2>4. ASSUME NEW d \in Conns
        PROVE  SameLife(d) /\ ShutdownCalled(d)' /\ (Live(d)' => Live(d))
    <3>1. (Working(d)' <=> Working(d)) /\ (Storing(d)' <=> Storing(d))
      BY <1>1 DEF Working, Storing, appVars
    <3>2. /\ \A op : Pending(op, d)' <=> Pending(op, d)
          /\ Owning(queue, d)' <=> Owning(queue, d)
          /\ Owning(functors, d)' <=> Owning(functors, d)
      BY <1>1, <1>4, FunctorsKept
    <3>3. SameLife(d)
      BY <1>1, <1>2, <1>4, <2>1, <2>2, <3>1, <3>2, NoneInProgress DEF SameLife, appVars
    <3>4. ShutdownCalled(d)'
      BY <1>1, <3>1, <3>2 DEF Core, ShutdownCalled
    <3>5. Live(d)' => Live(d)
      BY <1>1, <1>2, <1>4, <2>2, <3>1, <3>2 DEF Live, Working, appVars
    <3> QED
      BY <3>3, <3>4, <3>5
  <2>5. LoopInv'
    BY <1>1, <2>1 DEF LoopInv
  <2>6. EventsInv'
    BY <1>1, <1>2, <1>4, <2>1, <2>2, EventsGoOn
  <2>7. Once' /\ SendsInv'
    BY <1>1, <1>4, <2>1, FunctorsKept DEF SendsInv, appVars
  <2> QED
    BY <1>1, <1>4, <2>1, <2>2, <2>3, <2>4, <2>5, <2>6, <2>7, CoreKept
<1> QED
  BY <1>3, <1>4 DEF ConnectionHandler

(* An update of the channel of a connection that is up, in the map or not. *)
LEMMA UpdateOfUp ==
    ASSUME Core, fault = None, NEW c \in Conns, told[c] = "up",
           NEW ev \in SUBSET P!Events, poller' = P!SetEvents(poller, c, ev),
           UNCHANGED <<told, connections>>
    PROVE  /\ PollerInv' /\ P!WellTyped(poller')
           /\ P!UpdateAsserts(poller, c)
           /\ P!Registered(poller') = P!Registered(poller)
           /\ poller'.index = poller.index
           /\ poller'.events[c] = ev
           /\ \A d \in Conns \ {c} : poller'.events[d] = poller.events[d]
<1>1. TypeOK /\ PollerInv /\ Up(c)
  BY DEF Core, Life
<1>2. c \in P!Registered(poller) /\ poller.index[c] >= 0
  BY <1>1 DEF Up
<1>3. /\ P!Consistent(poller') /\ P!WellTyped(poller')
      /\ P!UpdateAsserts(poller, c)
      /\ \A d \in P!Registered(poller) \ {c} :
            P!PollFdOf(poller', d) = P!PollFdOf(poller, d)
      /\ P!PollFdOf(poller, c).fd = P!Ignored(FdOf[c])
            => P!PollFdOf(poller', c).fd = P!Ignored(FdOf[c])
      /\ P!Registered(poller') = P!Registered(poller)
      /\ poller'.index = poller.index
      /\ poller'.events[c] = ev
      /\ \A d \in Conns \ {c} : poller'.events[d] = poller.events[d]
  BY <1>1, <1>2, ChannelUpdated
<1>4. ASSUME NEW d \in Conns \cap P!Registered(poller')
      PROVE  /\ d \notin connections' => P!PollFdOf(poller', d).fd = P!Ignored(FdOf[d])
             /\ told'[d] = "down" => poller'.events[d] = {}
  <2>1. CASE d = c
    BY <2>1, <1>1, <1>2, <1>3 DEF PollerInv
  <2>2. CASE d # c
    BY <2>2, <1>1, <1>3 DEF PollerInv
  <2> QED
    BY <2>1, <2>2
<1> QED
  BY <1>3, <1>4 DEF PollerInv

(* writeHandler() writes some of the output that waits. *)
LEMMA WriteHandlerCore ==
    ASSUME Core, NEW c \in Conns, WriteHandler(c)
    PROVE  Core'
<1>1. /\ AtEvent(c) /\ Handled({"OUT"}) /\ Dispatched.revents = {"OUT"}
      /\ UNCHANGED <<phase, functors, next, queue, callback, connections, state,
                     told, peerClosed, scene, appRefs, pc>>
  BY DEF WriteHandler, appVars
<1>2. /\ TypeOK /\ LoopInv /\ EventsInv /\ SendsInv /\ Once /\ PollerInv
      /\ fault = None /\ callback = None /\ activeChannels # <<>> /\ phase = "handle"
      /\ Dispatched.chan = c
  BY <1>1 DEF Core, AtEvent, LoopAt, Running
<1>3. told[c] = "up"
  BY <1>1, DispatchedIsUp
<1>4. /\ fault' = None
      /\ PollerInv' /\ P!WellTyped(poller')
      /\ P!Registered(poller') = P!Registered(poller)
      /\ poller'.index = poller.index
      /\ out' \in [Conns -> Nat] /\ shutWr' \in [Conns -> BOOLEAN]
      /\ \A d \in Conns : shutWr'[d] => shutWr[d] \/ state[d] = "DISCONNECTING"
      /\ \A d \in Conns : OutputWatched(d)'
  <2>0. /\ out \in [Conns -> Nat] /\ shutWr \in [Conns -> BOOLEAN]
        /\ P!WellTyped(poller)
        /\ \A d \in Conns : OutputWatched(d)
    BY <1>2 DEF Core, TypeOK, P!TypeOK
  <2>1. CASE UNCHANGED <<poller, out, shutWr, fault>>
    <3>1. PollerInv'
      BY <1>1, <1>2, <2>1 DEF PollerInv
    <3>2. \A d \in Conns : OutputWatched(d)'
      BY <1>1, <2>0, <2>1 DEF OutputWatched, IsWriting
    <3> QED
      BY <1>2, <2>0, <2>1, <3>1, <3>2
  <2>2. ASSUME NEW left \in 0..out[c], out' = [out EXCEPT ![c] = left],
               UNCHANGED <<poller, shutWr, fault>>
        PROVE  <1>4!:
    <3>1. PollerInv'
      BY <1>1, <1>2, <2>2 DEF PollerInv
    <3>2. out' \in [Conns -> Nat] /\ \A d \in Conns : out'[d] > 0 => out[d] > 0
      BY <2>0, <2>2
    <3>3. \A d \in Conns : OutputWatched(d)'
      BY <1>1, <2>0, <2>2, <3>2 DEF OutputWatched, IsWriting
    <3> QED
      BY <1>2, <2>0, <2>2, <3>1, <3>2, <3>3
  <2>3. ASSUME out' = [out EXCEPT ![c] = 0],
               AssertThat(P!UpdateAsserts(poller, c)),
               poller' = P!DisableWriting(poller, c),
               shutWr' = [shutWr EXCEPT ![c] = @ \/ state[c] = "DISCONNECTING"]
        PROVE  <1>4!:
    <3> DEFINE ev == poller.events[c] \ {"WRITE"}
    <3>1. ev \in SUBSET P!Events /\ poller' = P!SetEvents(poller, c, ev)
      BY <2>0, <2>3 DEF P!WellTyped, P!DisableWriting
    <3> HIDE DEF ev
    <3>2. /\ PollerInv' /\ P!WellTyped(poller')
          /\ P!UpdateAsserts(poller, c)
          /\ P!Registered(poller') = P!Registered(poller)
          /\ poller'.index = poller.index
          /\ \A d \in Conns \ {c} : poller'.events[d] = poller.events[d]
      BY <1>1, <1>2, <1>3, <3>1, UpdateOfUp
    <3>3. fault' = None
      BY <2>3, <3>2 DEF AssertThat
    <3>4. /\ out' \in [Conns -> Nat] /\ out'[c] = 0
          /\ \A d \in Conns \ {c} : out'[d] = out[d]
      BY <2>0, <2>3
    <3>5. /\ shutWr' \in [Conns -> BOOLEAN]
          /\ \A d \in Conns : shutWr'[d] => shutWr[d] \/ state[d] = "DISCONNECTING"
      BY <2>0, <2>3
    <3>6. ASSUME NEW d \in Conns PROVE OutputWatched(d)'
      BY <1>1, <2>0, <3>2, <3>4 DEF OutputWatched, IsWriting
    <3> QED
      BY <3>2, <3>3, <3>4, <3>5, <3>6
  <2> QED
    BY <2>1, <2>2, <2>3 DEF WriteHandler
<1>5. TypeOK'
  <2>1. activeChannels' \in Seq(Event)
    BY <1>1, <1>2, EventHandled
  <2>2. P!TypeOK'
    BY <1>2, <1>4 DEF TypeOK, P!TypeOK
  <2> QED
    BY <1>1, <1>2, <1>4, <2>1, <2>2 DEF TypeOK, Event
<1>6. ASSUME NEW d \in Conns
      PROVE  Life(d)' /\ ShutdownCalled(d)' /\ (Live(d)' => Live(d))
  <2>1. (Working(d)' <=> Working(d)) /\ (Storing(d)' <=> Storing(d))
    BY <1>1 DEF Working, Storing
  <2>2. /\ \A op : Pending(op, d)' <=> Pending(op, d)
        /\ Owning(queue, d)' <=> Owning(queue, d)
        /\ Owning(functors, d)' <=> Owning(functors, d)
    BY <1>1, FunctorsKept
  <2>3. SameLife(d)
    BY <1>1, <1>2, <1>4, <2>1, <2>2, NoneInProgress DEF SameLife
  <2>4. Life(d)'
    BY <2>3, LifeKept DEF Core
  <2>5. ShutdownCalled(d)'
    BY <1>1, <1>4, <2>1, <2>2 DEF Core, ShutdownCalled
  <2>6. Live(d)' => Live(d)
    BY <1>1, <2>1, <2>2 DEF Live, Working
  <2> QED
    BY <2>4, <2>5, <2>6
<1>7. LoopInv'
  BY <1>1, <1>2 DEF LoopInv
<1>8. EventsInv'
  BY <1>1, <1>2, <1>3, EventsGoOn
<1>9. Once' /\ SendsInv'
  BY <1>1, <1>2, FunctorsKept DEF SendsInv
<1>10. DistinctFds'
  BY <1>6, DistinctKept DEF Core
<1>11. OnlyQueuedSendFaults'
  BY <1>4 DEF OnlyQueuedSendFaults
<1> QED
  BY <1>4, <1>5, <1>6, <1>7, <1>8, <1>9, <1>10, <1>11 DEF Core

-----------------------------------------------------------------------------
(* sendInLoopThread() on a connection that is up, or on one that is down   *)
(* and no longer registered: it leaves the tables consistent unless an     *)
(* assertion fails, and nothing fails on a connection that is up and was   *)
(* not shut down.                                                          *)
LEMMA SendEffect ==
    ASSUME Core, fault = None, NEW c \in Conns, SendInLoopThread(c),
           UNCHANGED <<told, connections, peerClosed>>,
           told[c] = "up" \/ (told[c] = "down" /\ c \notin P!Registered(poller))
    PROVE  /\ P!WellTyped(poller')
           /\ P!Registered(poller') = P!Registered(poller)
           /\ poller'.index = poller.index
           /\ out' \in [Conns -> Nat]
           /\ \A d \in Conns : OutputWatched(d)'
           /\ fault' = None => PollerInv'
           /\ told[c] = "up" /\ ~shutWr[c] => fault' = None
<1>0. /\ out \in [Conns -> Nat] /\ P!WellTyped(poller) /\ PollerInv
      /\ \A d \in Conns : OutputWatched(d)
      /\ poller.index[c] >= 0
  BY LifeFacts DEF Core, TypeOK, P!TypeOK
<1>1. CASE UNCHANGED <<poller, out>> /\ fault' = IF shutWr[c] THEN "SIGPIPE" ELSE None
  <2>1. PollerInv'
    BY <1>0, <1>1 DEF PollerInv
  <2>2. \A d \in Conns : OutputWatched(d)'
    BY <1>0, <1>1 DEF OutputWatched, IsWriting
  <2> QED
    BY <1>0, <1>1, <2>1, <2>2
<1>2. CASE /\ out' = [out EXCEPT ![c] = @ + 1]
           /\ IsWriting(c)
           /\ UNCHANGED <<poller, fault>>
  <2>1. PollerInv'
    BY <1>0, <1>2 DEF PollerInv
  <2>2. out' \in [Conns -> Nat] /\ \A d \in Conns \ {c} : out'[d] = out[d]
    BY <1>0, <1>2
  <2>3. \A d \in Conns : OutputWatched(d)'
    BY <1>0, <1>2, <2>2 DEF OutputWatched, IsWriting
  <2> QED
    BY <1>0, <1>2, <2>1, <2>2, <2>3
<1>3. CASE /\ out' = [out EXCEPT ![c] = @ + 1]
           /\ AssertThat(P!UpdateAsserts(poller, c))
           /\ poller' = P!EnableWriting(poller, c)
  <2> DEFINE ev == poller.events[c] \cup {"WRITE"}
  <2>1. ev \in SUBSET P!Events /\ poller' = P!SetEvents(poller, c, ev) /\ "WRITE" \in ev
    BY <1>0, <1>3 DEF P!WellTyped, P!EnableWriting, P!Events
  <2> HIDE DEF ev
  <2>2. out' \in [Conns -> Nat] /\ \A d \in Conns \ {c} : out'[d] = out[d]
    BY <1>0, <1>3
  <2>3. /\ P!WellTyped(poller') /\ P!Registered(poller') = P!Registered(poller)
        /\ poller'.index = poller.index
        /\ poller'.events = [poller.events EXCEPT ![c] = ev]
    <3>1. c \in Conns \cup {Listener}
      OBVIOUS
    <3> QED
      BY <1>0, <2>1, <3>1, PollerUpdateTyped
  <2>4. poller'.events[c] = ev /\ \A d \in Conns \ {c} : poller'.events[d] = poller.events[d]
    <3>1. poller.events \in [Conns \cup {Listener} -> SUBSET P!Events]
      BY <1>0 DEF P!WellTyped
    <3> QED
      BY <3>1, <2>3
  <2>5. \A d \in Conns : OutputWatched(d)'
    BY <1>0, <2>1, <2>2, <2>4 DEF OutputWatched, IsWriting
  <2>6. CASE told[c] = "up"
    <3>1. PollerInv' /\ P!UpdateAsserts(poller, c)
      BY <2>1, <2>6, UpdateOfUp
    <3> QED
      BY <3>1, <2>2, <2>3, <2>5, <1>3 DEF AssertThat
  <2>7. CASE told[c] = "down" /\ c \notin P!Registered(poller)
    <3>1. ~P!UpdateAsserts(poller, c)
      <4>1. poller.index[c] \in Int
        BY <1>0 DEF P!WellTyped
      <4> QED
        BY <4>1, <1>0, <2>7 DEF P!UpdateAsserts
    <3>2. fault' = "assertion"
      BY <3>1, <1>3 DEF AssertThat
    <3>3. fault' = None => PollerInv'
      BY <3>2, ServerAssumption DEF Faults
    <3> QED
      BY <3>2, <3>3, <2>2, <2>3, <2>5, <2>7
  <2> QED
    BY <2>6, <2>7
<1> QED
  BY <1>1, <1>2, <1>3 DEF SendInLoopThread

(* A send() of the application on the loop thread. *)
LEMMA SendOnLoopCore ==
    ASSUME Core, NEW c \in Conns, SendOnLoop(c)
    PROVE  Core'
<1>1. /\ SendInLoopThread(c) /\ state[c] = "CONNECTED" /\ fault = None
      /\ UNCHANGED <<activeChannels, phase, functors, next, queue, callback,
                     connections, state, shutWr, told, peerClosed, scene, appRefs, pc>>
  BY DEF SendOnLoop, InCallback, Running, loopVars, appVars
<1>2. TypeOK /\ LoopInv /\ EventsInv /\ SendsInv /\ Once /\ ShutdownCalled(c)
  BY DEF Core
<1>3. told[c] = "up" /\ ~shutWr[c]
  BY <1>1, <1>2 DEF Core, Life, NotYet, Down, ShutdownCalled
<1>4. /\ P!WellTyped(poller')
      /\ P!Registered(poller') = P!Registered(poller)
      /\ poller'.index = poller.index
      /\ out' \in [Conns -> Nat]
      /\ \A d \in Conns : OutputWatched(d)'
      /\ PollerInv' /\ fault' = None
  BY <1>1, <1>3, SendEffect
<1>5. TypeOK'
  <2>1. P!TypeOK'
    BY <1>2, <1>4 DEF TypeOK, P!TypeOK
  <2> QED
    BY <1>1, <1>2, <1>4, <2>1 DEF TypeOK
<1>6. ASSUME NEW d \in Conns
      PROVE  Life(d)' /\ ShutdownCalled(d)' /\ (Live(d)' => Live(d))
  <2>1. (Working(d)' <=> Working(d)) /\ (Storing(d)' <=> Storing(d))
    BY <1>1 DEF Working, Storing
  <2>2. /\ \A op : Pending(op, d)' <=> Pending(op, d)
        /\ Owning(queue, d)' <=> Owning(queue, d)
        /\ Owning(functors, d)' <=> Owning(functors, d)
    BY <1>1, FunctorsKept
  <2>3. \A op : InProgress(op, d)' <=> InProgress(op, d)
    BY <1>1 DEF InProgress
  <2>4. SameLife(d)
    BY <1>1, <1>4, <2>1, <2>2, <2>3 DEF SameLife
  <2>5. Life(d)'
    BY <2>4, LifeKept DEF Core
  <2>6. ShutdownCalled(d)'
    BY <1>1, <2>1, <2>2 DEF Core, ShutdownCalled
  <2>7. Live(d)' => Live(d)
    BY <1>1, <2>1, <2>2 DEF Live, Working
  <2> QED
    BY <2>5, <2>6, <2>7
<1>7. LoopInv'
  BY <1>1, <1>2, <1>4 DEF LoopInv, InProgress
<1>8. EventsInv'
  BY <1>1, <1>2, EventsKept
<1>9. Once' /\ SendsInv'
  BY <1>1, <1>2, FunctorsKept DEF SendsInv
<1>10. DistinctFds'
  BY <1>6, DistinctKept DEF Core
<1>11. OnlyQueuedSendFaults'
  BY <1>4 DEF OnlyQueuedSendFaults
<1> QED
  BY <1>4, <1>5, <1>6, <1>7, <1>8, <1>9, <1>10, <1>11 DEF Core

(* The functor of a worker's send() may find its connection down. *)
LEMMA RunSendCore ==
    ASSUME Core, NEW c \in Conns, RunSend(c)
    PROVE  Core'
<1>1. /\ AtFunctor("send", c) /\ next' = next + 1
      /\ UNCHANGED <<activeChannels, phase, functors, queue, callback, connections,
                     state, shutWr, told, peerClosed, scene, appRefs, pc>>
  BY DEF RunSend, appVars
<1>2. /\ TypeOK /\ LoopInv /\ EventsInv /\ SendsInv /\ Once /\ PollerInv
      /\ fault = None /\ callback = None /\ phase = "run"
      /\ next <= Len(functors) /\ Is(functors[next], "send", c)
  BY <1>1 DEF Core, AtFunctor, LoopAt, Running, Is
<1>3. next \in next..Len(functors) /\ next \in 1..Len(functors) /\ next \in Nat
  BY <1>2 DEF TypeOK
<1>4. Pending("send", c)
  BY <1>2, <1>3 DEF Pending, ToRun
<1>5. told[c] = "up" \/ (told[c] = "down" /\ c \notin P!Registered(poller))
  <2>1. told[c] # "none"
    BY <1>4 DEF Core, Life, NotYet
  <2> QED
    BY <2>1, <1>2, LifeFacts DEF Core, Life
<1>6. /\ P!WellTyped(poller')
      /\ P!Registered(poller') = P!Registered(poller)
      /\ poller'.index = poller.index
      /\ out' \in [Conns -> Nat]
      /\ \A d \in Conns : OutputWatched(d)'
      /\ fault' = None => PollerInv'
  <2>1. CASE SendInLoopThread(c)
    BY <2>1, <1>1, <1>2, <1>5, SendEffect
  <2>2. CASE UNCHANGED <<poller, out>>
    <3>1. PollerInv'
      BY <1>1, <1>2, <2>2 DEF PollerInv
    <3>2. \A d \in Conns : OutputWatched(d)'
      BY <1>1, <2>2 DEF Core, OutputWatched, IsWriting
    <3> QED
      BY <1>2, <2>2, <3>1, <3>2 DEF TypeOK, P!TypeOK
  <2> QED
    BY <2>1, <2>2 DEF RunSend
<1>7. /\ \A op, d : Pending(op, d)' => Pending(op, d)
      /\ \A op, d : ~Is(functors[next], op, d) =>
                       (Pending(op, d)' <=> Pending(op, d))
      /\ Once'
      /\ \A d : /\ Owning(queue, d)' <=> Owning(queue, d)
                /\ Owning(functors, d)' <=> Owning(functors, d)
      /\ next' \in 1..Len(functors') + 1
  BY <1>1, <1>2, FunctorRan
<1>8. TypeOK'
  <2>1. P!TypeOK'
    BY <1>2, <1>6 DEF TypeOK, P!TypeOK
  <2> QED
    BY <1>1, <1>2, <1>6, <1>7, <2>1 DEF TypeOK
<1>9. ASSUME NEW d \in Conns
      PROVE  Life(d)' /\ ShutdownCalled(d)' /\ (Live(d)' => Live(d))
  <2>1. (Working(d)' <=> Working(d)) /\ (Storing(d)' <=> Storing(d))
    BY <1>1 DEF Working, Storing
  <2>2. \A op \in OnceOps : Pending(op, d)' <=> Pending(op, d)
    BY <1>2, <1>7 DEF Is, OnceOps
  <2>3. SameLife(d)
    BY <1>1, <1>2, <1>6, <1>7, <2>1, <2>2, NoneInProgress DEF SameLife
  <2>4. Life(d)'
    BY <2>3, LifeKept DEF Core
  <2>5. ShutdownCalled(d)'
    BY <1>1, <1>7, <2>1 DEF Core, ShutdownCalled
  <2>6. Live(d)' => Live(d)
    BY <1>1, <1>7, <2>1 DEF Live, Working
  <2> QED
    BY <2>4, <2>5, <2>6
<1>10. LoopInv'
  BY <1>1, <1>2 DEF LoopInv
<1>11. EventsInv'
  BY <1>1, <1>2, EventsKept
<1>12. SendsInv'
  BY <1>1, <1>2, <1>7 DEF SendsInv
<1>13. DistinctFds'
  BY <1>9, DistinctKept DEF Core
<1>14. OnlyQueuedSendFaults'
  <2>1. scene'.workers # {}
    BY <1>1, <1>2, <1>4 DEF SendsInv
  <2>2. next' > 1 /\ next' - 1 = next
    BY <1>1, <1>3
  <2> QED
    BY <2>1, <2>2, <1>1, <1>2 DEF OnlyQueuedSendFaults, Is
<1> QED
  BY <1>6, <1>7, <1>8, <1>9, <1>10, <1>11, <1>12, <1>13, <1>14 DEF Core

(* The functor of a shutdown(). *)
LEMMA RunShutdownCore ==
    ASSUME Core, NEW c \in Conns, RunShutdown(c)
    PROVE  Core'
<1>1. /\ AtFunctor("shutdown", c) /\ next' = next + 1
      /\ shutWr' = [shutWr EXCEPT ![c] = @ \/ ~IsWriting(c)]
      /\ UNCHANGED <<poller, activeChannels, phase, functors, queue, callback,
                     connections, state, out, told, peerClosed, scene, appRefs, pc,
                     fault>>
  BY DEF RunShutdown, ShutdownInLoopThread, appVars
<1>2. /\ TypeOK /\ LoopInv /\ EventsInv /\ SendsInv /\ Once
      /\ fault = None /\ callback = None /\ phase = "run"
      /\ next <= Len(functors) /\ Is(functors[next], "shutdown", c)
  BY <1>1 DEF Core, AtFunctor, LoopAt, Running, Is
<1>3. Pending("shutdown", c)
  BY <1>2 DEF Pending, ToRun, TypeOK
<1>4. /\ \A op, d : Pending(op, d)' => Pending(op, d)
      /\ \A op, d : ~Is(functors[next], op, d) =>
                       (Pending(op, d)' <=> Pending(op, d))
      /\ Once'
      /\ \A d : /\ Owning(queue, d)' <=> Owning(queue, d)
                /\ Owning(functors, d)' <=> Owning(functors, d)
      /\ next' \in 1..Len(functors') + 1
  BY <1>1, <1>2, FunctorRan
<1>5. /\ shutWr' \in [Conns -> BOOLEAN]
      /\ \A d \in Conns \ {c} : shutWr'[d] = shutWr[d]
  BY <1>1, <1>2 DEF TypeOK
<1>6. TypeOK'
  BY <1>1, <1>2, <1>4, <1>5 DEF TypeOK, P!TypeOK
<1>7. ASSUME NEW d \in Conns
      PROVE  SameLife(d) /\ ShutdownCalled(d)' /\ (Live(d)' => Live(d))
  <2>1. (Working(d)' <=> Working(d)) /\ (Storing(d)' <=> Storing(d))
    BY <1>1 DEF Working, Storing
  <2>2. \A op \in OnceOps : Pending(op, d)' <=> Pending(op, d)
    BY <1>2, <1>4 DEF Is, OnceOps
  <2>3. SameLife(d)
    BY <1>1, <1>2, <1>4, <2>1, <2>2, NoneInProgress DEF SameLife
  <2>4. ShutdownCalled(d)'
    BY <1>1, <1>3, <1>4, <1>5, <2>1 DEF Core, ShutdownCalled
  <2>5. Live(d)' => Live(d)
    BY <1>1, <1>4, <2>1 DEF Live, Working
  <2> QED
    BY <2>3, <2>4, <2>5
<1>8. LoopInv'
  BY <1>1, <1>2 DEF LoopInv
<1>9. EventsInv'
  BY <1>1, <1>2, EventsKept
<1>10. SendsInv'
  BY <1>1, <1>2, <1>4 DEF SendsInv
<1> QED
  BY <1>1, <1>2, <1>4, <1>6, <1>7, <1>8, <1>9, <1>10, CoreKept

(* shutdown() stores DISCONNECTING in a connection that is up, or, on      *)
(* another thread, in one that went down since _state was tested.          *)
LEMMA StoreCore ==
    ASSUME Core, fault = None, NEW c \in Conns, told[c] \in {"up", "down"},
           state' = [state EXCEPT ![c] = "DISCONNECTING"],
           UNCHANGED <<poller, activeChannels, phase, functors, next, queue, callback,
                       connections, out, told, peerClosed, scene, appRefs, fault>>,
           shutWr' \in [Conns -> BOOLEAN],
           \A d \in Conns \ {c} : shutWr'[d] = shutWr[d],
           pc' \in [Workers -> {None} \cup
                               [at   : {"queueSend", "setState", "queueShutdown"},
                                conn : Conns]],
           \A w \in Workers : pc'[w] # None => pc[w] # None,
           \A d \in Conns : Working(d)' => Working(d),
           \A d \in Conns \ {c} : Storing(d)' => Storing(d)
    PROVE  Core'
<1>1. TypeOK /\ LoopInv /\ EventsInv /\ SendsInv /\ Once
  BY DEF Core
<1>2. /\ state'[c] = "DISCONNECTING"
      /\ \A d \in Conns \ {c} : state'[d] = state[d]
      /\ state' \in [Conns -> States]
  BY <1>1 DEF TypeOK, States
<1>3. TypeOK'
  BY <1>1, <1>2 DEF TypeOK, P!TypeOK
<1>4. ASSUME NEW d \in Conns
      PROVE  Life(d)' /\ ShutdownCalled(d)' /\ (Live(d)' => Live(d))
  <2>1. /\ \A op : Pending(op, d)' <=> Pending(op, d)
        /\ Owning(queue, d)' <=> Owning(queue, d)
        /\ Owning(functors, d)' <=> Owning(functors, d)
    BY FunctorsKept
  <2>2. \A op : InProgress(op, d)' <=> InProgress(op, d)
    BY DEF InProgress
  <2>3. CASE d = c
    <3>1. ASSUME told[c] = "up" PROVE Life(d)'
      BY <3>1, <2>1, <2>2, <2>3, <1>2 DEF Core, Life, Up
    <3>2. ASSUME told[c] = "down" PROVE Life(d)'
      BY <3>2, <2>1, <2>2, <2>3, <1>2 DEF Core, Life, Down
    <3>3. ShutdownCalled(d)'
      BY <2>3, <1>2 DEF ShutdownCalled
    <3>4. Live(d)' => Live(d)
      BY <2>1 DEF Live, Working
    <3> QED
      BY <3>1, <3>2, <3>3, <3>4
  <2>4. CASE d # c
    <3>1. SameLife(d)
      BY <2>1, <2>2, <2>4, <1>2 DEF SameLife
    <3>2. ShutdownCalled(d)'
      BY <2>1, <2>4, <1>2 DEF Core, ShutdownCalled
    <3>3. Live(d)' => Live(d)
      BY <2>1 DEF Live, Working
    <3> QED
      BY <3>1, <3>2, <3>3, LifeKept DEF Core
  <2> QED
    BY <2>3, <2>4
<1>5. \A d \in Conns : OutputWatched(d)'
  BY DEF Core, OutputWatched, IsWriting
<1>6. LoopInv'
  BY <1>1 DEF LoopInv, InProgress
<1>7. EventsInv'
  BY <1>1, EventsKept
<1>8. Once' /\ SendsInv'
  BY <1>1, FunctorsKept DEF SendsInv
<1>9. DistinctFds'
  BY <1>4, DistinctKept DEF Core
<1>10. PollerInv'
  BY DEF Core, PollerInv
<1>11. OnlyQueuedSendFaults'
  BY DEF OnlyQueuedSendFaults
<1> QED
  BY <1>3, <1>4, <1>5, <1>6, <1>7, <1>8, <1>9, <1>10, <1>11 DEF Core

(* A shutdown() of the application on the loop thread. *)
LEMMA ShutdownOnLoopCore ==
    ASSUME Core, NEW c \in Conns, ShutdownOnLoop(c)
    PROVE  Core'
<1>1. /\ state[c] = "CONNECTED" /\ fault = None
      /\ state' = [state EXCEPT ![c] = "DISCONNECTING"]
      /\ shutWr' = [shutWr EXCEPT ![c] = @ \/ ~IsWriting(c)]
      /\ UNCHANGED <<poller, activeChannels, phase, functors, next, queue, callback,
                     connections, out, told, peerClosed, scene, appRefs, pc, fault>>
  BY DEF ShutdownOnLoop, InCallback, Running, ShutdownInLoopThread, loopVars, appVars
<1>2. told[c] \in {"up", "down"}
  BY <1>1 DEF Core, Life, NotYet
<1>3. /\ shutWr' \in [Conns -> BOOLEAN]
      /\ \A d \in Conns \ {c} : shutWr'[d] = shutWr[d]
  BY <1>1 DEF Core, TypeOK
<1>4. /\ pc' \in [Workers -> {None} \cup
                               [at   : {"queueSend", "setState", "queueShutdown"},
                                conn : Conns]]
      /\ \A w \in Workers : pc'[w] # None => pc[w] # None
      /\ \A d \in Conns : (Working(d)' => Working(d)) /\ (Storing(d)' => Storing(d))
  BY <1>1 DEF Core, TypeOK, Working, Storing
<1> QED
  BY <1>1, <1>2, <1>3, <1>4, StoreCore

(* The store to _state of a shutdown() on another thread. *)
LEMMA WorkerSetsStateCore ==
    ASSUME Core, NEW w \in Workers, WorkerSetsState(w)
    PROVE  Core'
<1> DEFINE c == pc[w].conn
<1>1. /\ pc[w] # None /\ fault = None
      /\ state' = [state EXCEPT ![c] = "DISCONNECTING"]
      /\ pc' = [pc EXCEPT ![w].at = "queueShutdown"]
      /\ UNCHANGED <<poller, activeChannels, phase, functors, next, queue, callback,
                     connections, out, shutWr, told, peerClosed, scene, appRefs, fault>>
  BY DEF WorkerSetsState, WorkerAt, Running, loopVars
<1>2. /\ pc \in [Workers -> {None} \cup
                               [at   : {"queueSend", "setState", "queueShutdown"},
                                conn : Conns]]
      /\ shutWr \in [Conns -> BOOLEAN]
  BY DEF Core, TypeOK
<1>3. /\ pc[w] \in [at   : {"queueSend", "setState", "queueShutdown"}, conn : Conns]
      /\ c \in Conns
  BY <1>1, <1>2
<1>4. /\ pc'[w].conn = c
      /\ pc'[w] \in [at   : {"queueSend", "setState", "queueShutdown"}, conn : Conns]
      /\ \A v \in Workers \ {w} : pc'[v] = pc[v]
      /\ pc' \in [Workers -> {None} \cup
                               [at   : {"queueSend", "setState", "queueShutdown"},
                                conn : Conns]]
  BY <1>1, <1>2, <1>3
<1> HIDE DEF c
<1>5. /\ \A v \in Workers : pc'[v] # None => pc[v] # None
      /\ \A d \in Conns : Working(d)' => Working(d)
      /\ \A d \in Conns \ {c} : Storing(d)' => Storing(d)
  BY <1>1, <1>4 DEF Working, Storing, c
<1>6. told[c] \in {"up", "down"}
  BY <1>1, <1>3, LifeFacts DEF Working, c
<1> QED
  BY <1>1, <1>2, <1>3, <1>4, <1>5, <1>6, StoreCore

-----------------------------------------------------------------------------
(* The functor in progress is about a connection, and has not returned. *)
LEMMA FunctorAt ==
    ASSUME Core, NEW c \in Conns, NEW op, AtFunctor(op, c)
    PROVE  /\ TypeOK /\ LoopInv /\ EventsInv /\ SendsInv /\ Once /\ PollerInv
           /\ fault = None /\ callback = None /\ phase = "run"
           /\ next <= Len(functors) /\ Is(functors[next], op, c)
           /\ Pending(op, c) /\ activeChannels = <<>>
<1>1. /\ TypeOK /\ LoopInv /\ EventsInv /\ SendsInv /\ Once /\ PollerInv
      /\ fault = None /\ callback = None /\ phase = "run"
      /\ next <= Len(functors) /\ Is(functors[next], op, c)
  BY DEF Core, AtFunctor, LoopAt, Running, Is
<1>2. next \in next..Len(functors)
  BY <1>1 DEF TypeOK
<1>3. Pending(op, c)
  BY <1>1, <1>2 DEF Pending, ToRun
<1>4. activeChannels = <<>>
  BY <1>1 DEF LoopInv
<1> QED
  BY <1>1, <1>3, <1>4

(* With no events left, EventsInv holds. *)
LEMMA NoEvents ==
    ASSUME activeChannels = <<>>, UNCHANGED activeChannels
    PROVE  EventsInv'
BY DEF EventsInv

(* establishConnection(): the connection was accepted, its descriptor is   *)
(* no other channel's, and no assertion fails.                             *)
LEMMA EstablishCore ==
    ASSUME Core, NEW c \in Conns, EstablishConnection(c)
    PROVE  Core'
<1>1. /\ AtFunctor("establish", c)
      /\ AssertThat(state[c] = "CONNECTING" /\ P!UpdateAsserts(poller, c))
      /\ state' = [state EXCEPT ![c] = "CONNECTED"]
      /\ poller' = P!EnableReading(poller, c)
      /\ Tell(c, "up")
      /\ UNCHANGED <<activeChannels, phase, functors, next, queue, connections, out,
                     shutWr, peerClosed, scene, appRefs, pc>>
  BY DEF EstablishConnection, loopVars, appVars
<1>2. /\ TypeOK /\ LoopInv /\ EventsInv /\ SendsInv /\ Once /\ PollerInv
      /\ fault = None /\ callback = None /\ phase = "run"
      /\ next <= Len(functors) /\ Is(functors[next], "establish", c)
      /\ Pending("establish", c) /\ activeChannels = <<>>
  BY <1>1, FunctorAt
<1>3. told[c] = "none" /\ NotYet(c)
  BY <1>2, NoneInProgress DEF Core, Life, Up, Down, OnceOps
<1>4. state[c] = "CONNECTING" /\ c \in connections /\ c \notin P!Registered(poller)
      /\ poller.index[c] = -1
  BY <1>2, <1>3 DEF NotYet
<1>5. FdOf[c] \notin DOMAIN poller.channels
  <2>1. P!Consistent(poller) /\ P!WellTyped(poller) /\ DistinctFds /\ Live(c)
    BY <1>2, <1>4 DEF Core, PollerInv, TypeOK, P!TypeOK, Live
  <2>2. SUFFICES ASSUME FdOf[c] \in DOMAIN poller.channels PROVE FALSE
    OBVIOUS
  <2> DEFINE d == poller.channels[FdOf[c]]
  <2>3. d \in Conns \cup {Listener} /\ FdOf[d] = FdOf[c]
    BY <2>1, <2>2 DEF P!Consistent, P!WellTyped
  <2>4. d \in P!Registered(poller)
    BY <2>2, <2>3 DEF P!Registered
  <2>5. d # Listener
    BY <2>3, ServerAssumption
  <2>6. Live(d)
    BY <2>3, <2>4, <2>5, LifeFacts
  <2>7. d = c
    BY <2>1, <2>3, <2>5, <2>6 DEF DistinctFds
  <2> QED
    BY <2>4, <2>7, <1>4
<1>6. /\ P!WellTyped(poller') /\ P!Consistent(poller')
      /\ P!UpdateAsserts(poller, c)
      /\ P!Registered(poller') = P!Registered(poller) \cup {c}
      /\ poller'.events = [poller.events EXCEPT ![c] = @ \cup {"READ"}]
      /\ poller'.index = [poller.index EXCEPT ![c] = Len(poller.fds)]
      /\ \A d \in P!Registered(poller) :
            P!PollFdOf(poller', d) = P!PollFdOf(poller, d)
  <2>1. P!WellTyped(poller) /\ P!Consistent(poller) /\ c \in Conns \cup {Listener}
    BY <1>2 DEF TypeOK, P!TypeOK, PollerInv
  <2> QED
    BY <1>1, <1>4, <1>5, <2>1, PollerRegister
<1>7. /\ poller'.index[c] >= 0
      /\ \A d \in Conns \ {c} : /\ poller'.index[d] = poller.index[d]
                                /\ poller'.events[d] = poller.events[d]
      /\ \A d \in Conns : "WRITE" \in poller.events[d] => "WRITE" \in poller'.events[d]
  <2>1. P!WellTyped(poller)
    BY <1>2 DEF TypeOK, P!TypeOK
  <2>2. /\ poller.index \in [Conns \cup {Listener} -> Int]
        /\ poller.events \in [Conns \cup {Listener} -> SUBSET P!Events]
        /\ Len(poller.fds) \in Nat
    BY <2>1 DEF P!WellTyped
  <2> QED
    BY <2>2, <1>6
<1>8. fault' = None
  BY <1>1, <1>4, <1>6 DEF AssertThat
<1>9. callback' = c /\ told' = [told EXCEPT ![c] = "up"]
  BY <1>1, <1>2, <1>3, TellFacts
<1>10. /\ told'[c] = "up" /\ state'[c] = "CONNECTED"
       /\ \A d \in Conns \ {c} : told'[d] = told[d] /\ state'[d] = state[d]
       /\ told' \in [Conns -> {"none", "up", "down", "wrong"}]
       /\ state' \in [Conns -> States]
  BY <1>1, <1>2, <1>9 DEF TypeOK, States
<1>11. TypeOK'
  <2>1. P!TypeOK'
    BY <1>2, <1>6 DEF TypeOK, P!TypeOK
  <2> QED
    BY <1>1, <1>2, <1>9, <1>10, <2>1 DEF TypeOK
<1>12. InProgress("establish", c)'
  BY <1>1, <1>2, <1>9 DEF InProgress
<1>13. \A op, d : /\ Pending(op, d)' <=> Pending(op, d)
                  /\ Owning(queue, d)' <=> Owning(queue, d)
                  /\ Owning(functors, d)' <=> Owning(functors, d)
  BY <1>1, FunctorsKept
<1>14. \A d \in Conns : (Working(d)' <=> Working(d)) /\ (Storing(d)' <=> Storing(d))
  BY <1>1 DEF Working, Storing
<1>15. ASSUME NEW d \in Conns PROVE Life(d)'
  <2>1. CASE d = c
    BY <2>1, <1>1, <1>3, <1>4, <1>6, <1>7, <1>10, <1>12, <1>13 DEF Life, Up, NotYet
  <2>2. CASE d # c
    <3>1. SameLife(d)
      BY <2>2, <1>1, <1>2, <1>6, <1>7, <1>9, <1>10, <1>13, <1>14, NoneInProgress
         DEF SameLife
    <3> QED
      BY <3>1, LifeKept DEF Core
  <2> QED
    BY <2>1, <2>2
<1>16. ASSUME NEW d \in Conns PROVE ShutdownCalled(d)'
  <2>0. ShutdownCalled(d)
    BY DEF Core
  <2>1. CASE d = c
    BY <2>0, <2>1, <1>1, <1>4, <1>13, <1>14 DEF ShutdownCalled
  <2>2. CASE d # c
    BY <2>0, <2>2, <1>1, <1>10, <1>13, <1>14 DEF ShutdownCalled
  <2> QED
    BY <2>1, <2>2
<1>17. \A d \in Conns : OutputWatched(d)'
  BY <1>1, <1>7 DEF Core, OutputWatched, IsWriting
<1>18. LoopInv'
  BY <1>1, <1>2, <1>9, <1>10, <1>12 DEF LoopInv
<1>19. EventsInv'
  BY <1>1, <1>2, NoEvents
<1>20. Once' /\ SendsInv'
  BY <1>1, <1>2, FunctorsKept DEF SendsInv
<1>21. DistinctFds'
  <2>1. \A d \in Conns : Live(d)' => Live(d)
    BY <1>1, <1>4, <1>9, <1>13 DEF Live
  <2> QED
    BY <2>1, DistinctKept DEF Core
<1>22. PollerInv'
  <2>1. ASSUME NEW d \in Conns \cap P!Registered(poller')
        PROVE  /\ d \notin connections' => P!PollFdOf(poller', d).fd = P!Ignored(FdOf[d])
               /\ told'[d] = "down" => poller'.events[d] = {}
    <3>1. CASE d = c
      BY <3>1, <1>1, <1>4, <1>10
    <3>2. CASE d # c
      BY <3>2, <1>1, <1>2, <1>6, <1>7, <1>10 DEF PollerInv
    <3> QED
      BY <3>1, <3>2
  <2> QED
    BY <2>1, <1>6 DEF PollerInv
<1>23. OnlyQueuedSendFaults'
  BY <1>8 DEF OnlyQueuedSendFaults
<1> QED
  BY <1>11, <1>15, <1>16, <1>17, <1>18, <1>19, <1>20, <1>21, <1>22, <1>23 DEF Core

(* destroyConnection(): the connection is up, left the map when its peer   *)
(* closed, and is still registered, so that no assertion fails.            *)
LEMMA DestroyCore ==
    ASSUME Core, NEW c \in Conns, DestroyConnection(c)
    PROVE  Core'
<1>1. /\ AtFunctor("destroy", c)
      /\ AssertThat(/\ state[c] \in {"CONNECTED", "DISCONNECTING"}
                    /\ P!UpdateAsserts(poller, c))
      /\ state' = [state EXCEPT ![c] = "DISCONNECTED"]
      /\ poller' = P!SetEvents(poller, c, {})
      /\ Tell(c, "down")
      /\ UNCHANGED <<activeChannels, phase, functors, next, queue, connections, out,
                     shutWr, peerClosed, scene, appRefs, pc>>
  BY DEF DestroyConnection, P!DisableAll, loopVars, appVars
<1>2. /\ TypeOK /\ LoopInv /\ EventsInv /\ SendsInv /\ Once /\ PollerInv
      /\ fault = None /\ callback = None /\ phase = "run"
      /\ next <= Len(functors) /\ Is(functors[next], "destroy", c)
      /\ Pending("destroy", c) /\ activeChannels = <<>>
  BY <1>1, FunctorAt
<1>3. told[c] = "up" /\ Up(c)
  BY <1>2, NoneInProgress DEF Core, Life, NotYet, Down
<1>4. /\ state[c] \in {"CONNECTED", "DISCONNECTING"} /\ c \notin connections
      /\ peerClosed[c] /\ c \in P!Registered(poller) /\ poller.index[c] >= 0
      /\ ~Pending("establish", c)
  BY <1>2, <1>3, NoneInProgress DEF Up
<1>6. /\ P!Consistent(poller') /\ P!WellTyped(poller')
      /\ P!UpdateAsserts(poller, c)
      /\ \A d \in P!Registered(poller) \ {c} :
            P!PollFdOf(poller', d) = P!PollFdOf(poller, d)
      /\ P!PollFdOf(poller', c).fd = P!Ignored(FdOf[c])
      /\ P!Registered(poller') = P!Registered(poller)
      /\ poller'.index = poller.index
      /\ poller'.events[c] = {}
      /\ \A d \in Conns \ {c} : poller'.events[d] = poller.events[d]
  <2>1. {} \in SUBSET P!Events
    OBVIOUS
  <2> QED
    BY <1>1, <1>2, <1>4, <2>1, ChannelUpdated
<1>8. fault' = None
  BY <1>1, <1>4, <1>6 DEF AssertThat
<1>9. callback' = c /\ told' = [told EXCEPT ![c] = "down"]
  BY <1>1, <1>2, <1>3, TellFacts
<1>10. /\ told'[c] = "down" /\ state'[c] = "DISCONNECTED"
       /\ \A d \in Conns \ {c} : told'[d] = told[d] /\ state'[d] = state[d]
       /\ told' \in [Conns -> {"none", "up", "down", "wrong"}]
       /\ state' \in [Conns -> States]
  BY <1>1, <1>2, <1>9 DEF TypeOK, States
<1>11. TypeOK'
  <2>1. P!TypeOK'
    BY <1>2, <1>6 DEF TypeOK, P!TypeOK
  <2> QED
    BY <1>1, <1>2, <1>9, <1>10, <2>1 DEF TypeOK
<1>12. InProgress("destroy", c)'
  BY <1>1, <1>2, <1>9 DEF InProgress
<1>13. \A op, d : /\ Pending(op, d)' <=> Pending(op, d)
                  /\ Owning(queue, d)' <=> Owning(queue, d)
                  /\ Owning(functors, d)' <=> Owning(functors, d)
  BY <1>1, FunctorsKept
<1>14. \A d \in Conns : (Working(d)' <=> Working(d)) /\ (Storing(d)' <=> Storing(d))
  BY <1>1 DEF Working, Storing
<1>15. ASSUME NEW d \in Conns PROVE Life(d)'
  <2>1. CASE d = c
    BY <2>1, <1>1, <1>4, <1>6, <1>10, <1>12, <1>13 DEF Life, Down
  <2>2. CASE d # c
    <3>1. SameLife(d)
      BY <2>2, <1>1, <1>2, <1>6, <1>9, <1>10, <1>13, <1>14, NoneInProgress
         DEF SameLife
    <3> QED
      BY <3>1, LifeKept DEF Core
  <2> QED
    BY <2>1, <2>2
<1>16. ASSUME NEW d \in Conns PROVE ShutdownCalled(d)'
  <2>0. ShutdownCalled(d)
    BY DEF Core
  <2>1. CASE d = c
    BY <2>1, <1>10 DEF ShutdownCalled
  <2>2. CASE d # c
    BY <2>0, <2>2, <1>1, <1>10, <1>13, <1>14 DEF ShutdownCalled
  <2> QED
    BY <2>1, <2>2
<1>17. ASSUME NEW d \in Conns PROVE OutputWatched(d)'
  BY <1>1, <1>4, <1>6 DEF Core, OutputWatched, IsWriting
<1>18. LoopInv'
  BY <1>1, <1>2, <1>4, <1>6, <1>9, <1>10, <1>12 DEF LoopInv
<1>19. EventsInv'
  BY <1>1, <1>2, NoEvents
<1>20. Once' /\ SendsInv'
  BY <1>1, <1>2, FunctorsKept DEF SendsInv
<1>21. DistinctFds'
  <2>1. Live(c)
    BY <1>3, LifeFacts
  <2>2. \A d \in Conns : Live(d)' => Live(d)
    BY <2>1, <1>1, <1>9, <1>13 DEF Live
  <2> QED
    BY <2>2, DistinctKept DEF Core
<1>22. PollerInv'
  <2>1. ASSUME NEW d \in Conns \cap P!Registered(poller')
        PROVE  /\ d \notin connections' => P!PollFdOf(poller', d).fd = P!Ignored(FdOf[d])
               /\ told'[d] = "down" => poller'.events[d] = {}
    <3>1. CASE d = c
      BY <3>1, <1>6
    <3>2. CASE d # c
      BY <3>2, <1>1, <1>2, <1>6, <1>10 DEF PollerInv
    <3> QED
      BY <3>1, <3>2
  <2> QED
    BY <2>1, <1>6 DEF PollerInv
<1>23. OnlyQueuedSendFaults'
  BY <1>8 DEF OnlyQueuedSendFaults
<1> QED
  BY <1>11, <1>15, <1>16, <1>17, <1>18, <1>19, <1>20, <1>21, <1>22, <1>23 DEF Core

(* The callback of a handler returns. *)
LEMMA HandlerReturnsCore ==
    ASSUME Core, CallbackReturns, phase = "handle"
    PROVE  Core'
<1>1. /\ UNCHANGED <<poller, next, fault, activeChannels, phase, functors, queue,
                     connections, state, out, shutWr, told, peerClosed, scene,
                     appRefs, pc>>
      /\ fault = None /\ callback' = None
  BY DEF CallbackReturns, Running, connVars, appVars
<1>2. TypeOK /\ LoopInv /\ EventsInv /\ SendsInv /\ Once
  BY DEF Core
<1>3. TypeOK'
  BY <1>1, <1>2 DEF TypeOK, P!TypeOK
<1>4. ASSUME NEW d \in Conns
      PROVE  SameLife(d) /\ ShutdownCalled(d)' /\ (Live(d)' => Live(d))
  <2>0. None # d
    BY ServerAssumption
  <2>1. (Working(d)' <=> Working(d)) /\ (Storing(d)' <=> Storing(d))
    BY <1>1 DEF Working, Storing
  <2>2. /\ \A op : Pending(op, d)' <=> Pending(op, d)
        /\ Owning(queue, d)' <=> Owning(queue, d)
        /\ Owning(functors, d)' <=> Owning(functors, d)
    BY <1>1, FunctorsKept
  <2>3. \A op : ~InProgress(op, d)
    BY DEF InProgress
  <2>4. SameLife(d)
    BY <1>1, <2>0, <2>1, <2>2, <2>3 DEF SameLife
  <2>5. ShutdownCalled(d)'
    BY <1>1, <2>1, <2>2 DEF Core, ShutdownCalled
  <2>6. Live(d)' => Live(d)
    BY <1>1, <2>0, <2>1, <2>2 DEF Live, Working
  <2> QED
    BY <2>4, <2>5, <2>6
<1>5. LoopInv'
  BY <1>1, <1>2 DEF LoopInv
<1>6. EventsInv'
  BY <1>1, <1>2, EventsKept
<1>7. Once' /\ SendsInv'
  BY <1>1, <1>2, FunctorsKept DEF SendsInv
<1> QED
  BY <1>1, <1>3, <1>4, <1>5, <1>6, <1>7, CoreKept

(* The callback of a functor returns, and the functor with it: the channel *)
(* of a destroyed connection is removed.                                   *)
LEMMA FunctorReturnsCore ==
    ASSUME Core, CallbackReturns, phase = "run"
    PROVE  Core'
<1>0. PICK c \in Conns : c = callback
  BY DEF CallbackReturns, Core, TypeOK
<1>1. /\ fault = None /\ callback # None /\ callback' = None /\ next' = next + 1
      /\ UNCHANGED <<activeChannels, phase, functors, queue, connections, state, out,
                     shutWr, told, peerClosed, scene, appRefs, pc>>
      /\ \/ functors[next].op = "establish" /\ UNCHANGED <<poller, fault>>
         \/ /\ functors[next].op = "destroy"
            /\ AssertThat(P!RemoveAsserts(poller, c))
            /\ poller' = P!RemoveChannel(poller, c)
  BY <1>0 DEF CallbackReturns, Running, connVars, appVars
<1>2. TypeOK /\ LoopInv /\ EventsInv /\ SendsInv /\ Once /\ PollerInv
  BY <1>1 DEF Core
<1>3. c \in Conns /\ None \notin Conns
  BY ServerAssumption
<1>4. PICK op \in OnceOps :
         /\ next <= Len(functors) /\ Is(functors[next], op, c)
         /\ \/ op = "establish" /\ told[c] = "up" /\ UNCHANGED <<poller, fault>>
            \/ /\ op = "destroy" /\ told[c] = "down" /\ c \in P!Registered(poller)
               /\ AssertThat(P!RemoveAsserts(poller, c))
               /\ poller' = P!RemoveChannel(poller, c)
  BY <1>0, <1>1, <1>2 DEF LoopInv, InProgress, Is, OnceOps
<1>5. /\ \A o, d : Pending(o, d)' => Pending(o, d)
      /\ \A o, d : ~Is(functors[next], o, d) =>
                       (Pending(o, d)' <=> Pending(o, d))
      /\ Once'
      /\ ~Pending(op, c)'
      /\ \A d : /\ Owning(queue, d)' <=> Owning(queue, d)
                /\ Owning(functors, d)' <=> Owning(functors, d)
      /\ next' \in 1..Len(functors') + 1
  BY <1>1, <1>2, <1>3, <1>4, FunctorRan
<1>6. \A o, d : d # c \/ o # op => (Pending(o, d)' <=> Pending(o, d))
  BY <1>4, <1>5 DEF Is
<1>7. \A o : \A d \in Conns : (d # c => ~InProgress(o, d)) /\ ~InProgress(o, d)'
  BY <1>0, <1>1, <1>3 DEF InProgress
<1>8. /\ fault' = None /\ P!WellTyped(poller') /\ PollerInv'
      /\ \A d \in Conns \ {c} : /\ (d \in P!Registered(poller')) <=>
                                      (d \in P!Registered(poller))
                                /\ poller.index[d] = -1 => poller'.index[d] = -1
                                /\ poller.index[d] >= 0 => poller'.index[d] >= 0
      /\ poller'.index[c] >= 0
      /\ (c \in P!Registered(poller')) <=> (told[c] = "up")
      /\ poller'.events = poller.events
  <2>0. P!WellTyped(poller) /\ P!Consistent(poller) /\ Life(c)
    BY <1>2, <1>3 DEF TypeOK, P!TypeOK, PollerInv, Core
  <2>1. CASE told[c] = "up" /\ UNCHANGED <<poller, fault>>
    <3>1. PollerInv'
      BY <1>1, <1>2, <2>1 DEF PollerInv
    <3>2. poller.index[c] >= 0 /\ c \in P!Registered(poller)
      BY <2>0, <2>1 DEF Life, Up
    <3> QED
      BY <1>1, <2>0, <2>1, <3>1, <3>2
  <2>2. CASE /\ told[c] = "down" /\ c \in P!Registered(poller)
             /\ AssertThat(P!RemoveAsserts(poller, c))
             /\ poller' = P!RemoveChannel(poller, c)
    <3>1. poller.events[c] = {}
      BY <1>2, <1>3, <2>2 DEF PollerInv
    <3>2. /\ P!WellTyped(poller') /\ P!Consistent(poller')
          /\ P!RemoveAsserts(poller, c)
          /\ P!Registered(poller') = P!Registered(poller) \ {c}
          /\ poller'.events = poller.events
          /\ \A d \in (Conns \cup {Listener}) \ P!Registered(poller) :
                poller'.index[d] = poller.index[d]
          /\ poller'.index[c] >= 0
          /\ \A d \in P!Registered(poller) \ {c} :
                P!PollFdOf(poller', d) = P!PollFdOf(poller, d)
      BY <2>0, <2>2, <3>1, PollerRemove
    <3>3. fault' = None
      BY <2>2, <3>2 DEF AssertThat
    <3>4. ASSUME NEW d \in Conns \ {c}
          PROVE  /\ (d \in P!Registered(poller')) <=> (d \in P!Registered(poller))
                 /\ poller.index[d] = -1 => poller'.index[d] = -1
                 /\ poller.index[d] >= 0 => poller'.index[d] >= 0
      <4>1. CASE d \in P!Registered(poller)
        <5>1. poller.index[d] \in Nat /\ poller'.index[d] \in Nat
          BY <4>1, <2>0, <3>2 DEF P!WellTyped
        <5> QED
          BY <5>1, <4>1, <3>2
      <4>2. CASE d \notin P!Registered(poller)
        BY <4>2, <3>2
      <4> QED
        BY <4>1, <4>2
    <3>5. PollerInv'
      <4>1. ASSUME NEW d \in Conns \cap P!Registered(poller')
            PROVE  /\ d \notin connections' => P!PollFdOf(poller', d).fd = P!Ignored(FdOf[d])
                   /\ told'[d] = "down" => poller'.events[d] = {}
        BY <1>1, <1>2, <3>2 DEF PollerInv
      <4> QED
        BY <4>1, <3>2 DEF PollerInv
    <3> QED
      BY <2>2, <3>2, <3>3, <3>4, <3>5
  <2> QED
    BY <1>4, <2>1, <2>2
<1>9. TypeOK'
  <2>1. P!TypeOK'
    BY <1>2, <1>8 DEF TypeOK, P!TypeOK
  <2> QED
    BY <1>1, <1>2, <1>5, <2>1 DEF TypeOK
<1>10. ASSUME NEW d \in Conns
       PROVE  Life(d)' /\ ShutdownCalled(d)' /\ OutputWatched(d)' /\ (Live(d)' => Live(d))
  <2>1. (Working(d)' <=> Working(d)) /\ (Storing(d)' <=> Storing(d))
    BY <1>1 DEF Working, Storing
  <2>2. ASSUME d = c PROVE Life(d)'
    <3>1. CASE told[c] = "up"
      BY <3>1, <2>2, <1>1, <1>3, <1>4, <1>5, <1>6, <1>8 DEF Core, Life, Up
    <3>2. CASE told[c] = "down"
      BY <3>2, <2>2, <1>1, <1>3, <1>4, <1>5, <1>6, <1>8 DEF Core, Life, Down
    <3> QED
      BY <3>1, <3>2, <1>4
  <2>3. ASSUME d # c PROVE Life(d)'
    <3>0. None # d
      BY <1>3
    <3>1. SameLife(d)
      BY <2>1, <2>3, <3>0, <1>1, <1>6, <1>7, <1>8 DEF SameLife
    <3> QED
      BY <3>1, LifeKept DEF Core
  <2>4. ShutdownCalled(d)'
    BY <1>1, <1>5, <2>1 DEF Core, ShutdownCalled
  <2>5. OutputWatched(d)'
    BY <1>1, <1>8 DEF Core, OutputWatched, IsWriting
  <2>6. Live(d)' => Live(d)
    BY <1>1, <1>3, <1>5, <2>1 DEF Live, Working
  <2> QED
    BY <2>2, <2>3, <2>4, <2>5, <2>6
<1>11. LoopInv'
  BY <1>1, <1>2 DEF LoopInv
<1>12. EventsInv'
  BY <1>1, <1>2, EventsKept
<1>13. SendsInv'
  BY <1>1, <1>2, <1>5 DEF SendsInv
<1>14. DistinctFds'
  BY <1>10, DistinctKept DEF Core
<1>15. OnlyQueuedSendFaults'
  BY <1>8 DEF OnlyQueuedSendFaults
<1> QED
  BY <1>5, <1>8, <1>9, <1>10, <1>11, <1>12, <1>13, <1>14, <1>15 DEF Core

-----------------------------------------------------------------------------
(* The core invariant is inductive. *)
LEMMA InitCore == Init => Core
<1> SUFFICES ASSUME Init PROVE Core
  OBVIOUS
<1>0. /\ scene \in Scenes /\ activeChannels = <<>> /\ phase = "poll"
      /\ functors = <<>> /\ next = 1 /\ queue = <<>> /\ callback = None
      /\ connections = {} /\ appRefs = {} /\ fault = None
      /\ state = [c \in Conns |-> "NONE"] /\ out = [c \in Conns |-> 0]
      /\ shutWr = [c \in Conns |-> FALSE] /\ peerClosed = [c \in Conns |-> FALSE]
      /\ pc = [w \in Workers |-> None] /\ told = [c \in Conns |-> "none"]
  BY DEF Init
<1>1. /\ P!WellTyped(poller) /\ P!Consistent(poller)
      /\ P!Registered(poller) = {Listener}
      /\ \A c \in Conns : poller.index[c] = -1
  <2> DEFINE p == P!NoChannels
  <2>1. /\ P!WellTyped(p) /\ P!Consistent(p) /\ P!Registered(p) = {}
        /\ Listener \in Conns \cup {Listener}
    BY PollerStart
  <2>2. /\ FdOf[Listener] \notin DOMAIN p.channels /\ p.index[Listener] = -1
        /\ p.index = [c \in Conns \cup {Listener} |-> -1]
    BY DEF P!NoChannels
  <2>3. poller = P!EnableReading(p, Listener)
    BY DEF Init
  <2> HIDE DEF p
  <2>4. /\ P!WellTyped(poller) /\ P!Consistent(poller)
        /\ P!Registered(poller) = P!Registered(p) \cup {Listener}
        /\ poller.index = [p.index EXCEPT ![Listener] = Len(p.fds)]
    BY <2>1, <2>2, <2>3, PollerRegister
  <2> QED
    BY <2>1, <2>2, <2>4, ServerAssumption
<1>2. Len(queue) = 0 /\ Len(functors) = 0 /\ Len(activeChannels) = 0
  BY <1>0
<1>3. \A op, c : ~Pending(op, c) /\ ~Queued(op, c) /\ ~ToRun(op, c)
  BY <1>0, <1>2 DEF Pending, Queued, ToRun
<1>4. TypeOK
  <2>1. P!TypeOK
    BY <1>1 DEF P!TypeOK
  <2>2. next \in 1..Len(functors) + 1
    BY <1>0, <1>2
  <2> QED
    BY <2>1, <2>2, <1>0 DEF TypeOK, States
<1>5. Once
  BY <1>0, <1>2, <1>3 DEF Once
<1>6. \A c \in Conns : ~Working(c) /\ ~Storing(c)
  BY <1>0 DEF Working, Storing
<1>7. ASSUME NEW c \in Conns PROVE Life(c) /\ ShutdownCalled(c) /\ OutputWatched(c)
  <2>0. None # c /\ c # Listener
    BY ServerAssumption
  <2>1. Life(c)
    BY <2>0, <1>0, <1>1, <1>3, <1>6 DEF Life, NotYet
  <2>2. ShutdownCalled(c)
    BY <1>0, <1>3, <1>6 DEF ShutdownCalled
  <2>3. OutputWatched(c)
    BY <1>0 DEF OutputWatched
  <2> QED
    BY <2>1, <2>2, <2>3
<1>8. LoopInv
  BY <1>0 DEF LoopInv
<1>9. EventsInv
  BY <1>2 DEF EventsInv
<1>10. DistinctFds
  <2>1. \A c \in Conns : ~Live(c)
    BY <1>0, <1>2, ServerAssumption DEF Live, Owning
  <2> QED
    BY <2>1 DEF DistinctFds
<1>11. SendsInv
  BY <1>0, <1>3 DEF SendsInv
<1>12. PollerInv
  BY <1>1, ServerAssumption DEF PollerInv
<1> QED
  BY <1>0, <1>4, <1>5, <1>7, <1>8, <1>9, <1>10, <1>11, <1>12
     DEF Core, OnlyQueuedSendFaults

(* A step that changes no variable. *)
LEMMA StutterCore == Core /\ UNCHANGED vars => Core'
<1> SUFFICES ASSUME Core, UNCHANGED vars PROVE Core'
  OBVIOUS
<1>0. UNCHANGED <<scene, poller, activeChannels, phase, functors, next, queue,
                  callback, connections, state, out, shutWr, peerClosed, appRefs, pc,
                  told, fault>>
  BY DEF vars
<1>1. /\ \A op, c : Pending(op, c)' <=> Pending(op, c)
      /\ Once' <=> Once
      /\ \A c : /\ Owning(queue, c)' <=> Owning(queue, c)
                /\ Owning(functors, c)' <=> Owning(functors, c)
  BY <1>0, FunctorsKept
<1>2. \A c : /\ Working(c)' <=> Working(c)
             /\ Storing(c)' <=> Storing(c)
             /\ \A op : InProgress(op, c)' <=> InProgress(op, c)
  BY <1>0 DEF Working, Storing, InProgress
<1>3. TypeOK' /\ Once'
  BY <1>0, <1>1 DEF Core, TypeOK, P!TypeOK
<1>4. ASSUME NEW c \in Conns
      PROVE  Life(c)' /\ ShutdownCalled(c)' /\ OutputWatched(c)' /\ (Live(c)' => Live(c))
  <2>1. Life(c)'
    BY <1>0, <1>1, <1>2, LifeKept DEF Core, SameLife
  <2>2. ShutdownCalled(c)'
    BY <1>0, <1>1, <1>2 DEF Core, ShutdownCalled
  <2>3. OutputWatched(c)'
    BY <1>0 DEF Core, OutputWatched, IsWriting
  <2>4. Live(c)' => Live(c)
    BY <1>0, <1>1, <1>2 DEF Live, Working
  <2> QED
    BY <2>1, <2>2, <2>3, <2>4
<1>5. LoopInv'
  BY <1>0, <1>2 DEF Core, LoopInv
<1>6. EventsInv'
  BY <1>0, EventsKept DEF Core
<1>7. SendsInv'
  BY <1>0, <1>1 DEF Core, SendsInv
<1>8. DistinctFds'
  BY <1>4, DistinctKept DEF Core
<1>9. fault' = None => PollerInv'
  BY <1>0 DEF Core, PollerInv
<1>10. OnlyQueuedSendFaults'
  BY <1>0 DEF Core, OnlyQueuedSendFaults
<1> QED
  BY <1>3, <1>4, <1>5, <1>6, <1>7, <1>8, <1>9, <1>10 DEF Core

(* Every step keeps Core. *)
LEMMA NextCore == Core /\ [Next]_vars => Core'
<1> SUFFICES ASSUME Core, [Next]_vars PROVE Core'
  OBVIOUS
<1>1. CASE UNCHANGED vars
  BY <1>1, StutterCore
<1>2. CASE Poll \/ HandleEventReturns \/ ProcessFunctors \/ ProcessFunctorsReturns
  BY <1>2, PollCore, HandleEventReturnsCore, ProcessFunctorsCore,
     ProcessFunctorsReturnsCore
<1>3. CASE IncomingHandler
  BY <1>3, AcceptFailsCore, AcceptCore DEF IncomingHandler
<1>4. CASE CallbackReturns
  BY <1>4, HandlerReturnsCore, FunctorReturnsCore DEF CallbackReturns
<1>5. ASSUME NEW c \in Conns,
             \/ EstablishConnection(c) \/ DestroyConnection(c)
             \/ HandleHup(c) \/ ConnectionHandler(c) \/ WriteHandler(c)
             \/ RunSend(c) \/ RunShutdown(c)
      PROVE  Core'
  BY <1>5, EstablishCore, DestroyCore, HandleHupCore, ConnectionHandlerCore,
     WriteHandlerCore, RunSendCore, RunShutdownCore
<1>6. ASSUME NEW w \in Workers, WorkerStep(w) PROVE Core'
  BY <1>6, WorkerCalledCore, WorkerQueuesCore, WorkerSetsStateCore DEF WorkerStep
<1>7. ASSUME NEW c \in Conns, SendOnLoop(c) \/ ShutdownOnLoop(c) PROVE Core'
  BY <1>7, SendOnLoopCore, ShutdownOnLoopCore
<1>8. CASE Retain \/ \E c \in Conns : Release(c) \/ PeerCloses(c)
  BY <1>8, ReferencesCore
<1> QED
  BY <1>1, <1>2, <1>3, <1>4, <1>5, <1>6, <1>7, <1>8 DEF Next, LoopStep

(* Core is an invariant. *)
LEMMA SpecCore == Spec => []Core
BY InitCore, NextCore, PTL DEF Spec

-----------------------------------------------------------------------------
(* Theorems.                                                               *)

(* No raw pointer the Poller or the list of active channels keeps points   *)
(* to a destroyed connection, with any number of connections and workers.  *)
THEOREM NoDanglingChannelHolds == Spec => []NoDanglingChannel
<1>1. Core => NoDanglingChannel
  <2> SUFFICES ASSUME Core PROVE NoDanglingChannel
    OBVIOUS
  <2>1. TypeOK /\ EventsInv /\ activeChannels \in Seq(Event)
    BY DEF Core, TypeOK, Event
  <2>2. \A c \in Conns : c \in P!Registered(poller) => Live(c)
    BY LifeFacts
  <2>3. ASSUME NEW k \in 1..Len(activeChannels), activeChannels[k].chan # Listener
        PROVE  Live(activeChannels[k].chan)
    <3>1. activeChannels[k] \in Event
      BY <2>1, ElementOfSeq
    <3>2. activeChannels[k].chan \in Conns
      BY <3>1, <2>3 DEF Event
    <3>3. told[activeChannels[k].chan] = "up"
      BY <2>1, <2>3 DEF EventsInv, EventOk
    <3> QED
      BY <3>2, <3>3, LifeFacts
  <2> QED
    BY <2>1, <2>2, <2>3 DEF NoDanglingChannel
<1> QED
  BY <1>1, SpecCore, PTL

(* The application hears up once, then messages, then down once. *)
THEOREM CallbackProtocolHolds == Spec => []CallbackProtocol
<1>1. Core => CallbackProtocol
  BY LifeFacts DEF CallbackProtocol
<1> QED
  BY <1>1, SpecCore, PTL

(* No assertion fails and no connection is used after it was destroyed,    *)
(* except by the functor of a send() on another thread.                    *)
THEOREM OnlyQueuedSendFaultsHolds == Spec => []OnlyQueuedSendFaults
<1>1. Core => OnlyQueuedSendFaults
  BY DEF Core
<1> QED
  BY <1>1, SpecCore, PTL

(* A connection goes through its states in order, except when shutdown()   *)
(* on another thread stores over the state of one that went down.          *)
THEOREM StateGoesForwardHolds == Spec => StateGoesForward
<1> DEFINE Forward(c) ==
       \/ Rank[state[c]] <= Rank[state'[c]]
       \/ \E w \in Workers : pc[w] = [conn |-> c, at |-> "setState"]
<1>1. ASSUME Core, Next, NEW c \in Conns PROVE Forward(c)
  <2>1. TypeOK /\ state \in [Conns -> States]
    BY <1>1 DEF Core, TypeOK
  <2>2. /\ Rank["NONE"] = 0 /\ Rank["CONNECTING"] = 1 /\ Rank["CONNECTED"] = 2
        /\ Rank["DISCONNECTING"] = 3 /\ Rank["DISCONNECTED"] = 4
    BY DEF Rank
  <2>3. state[c] \in States
    BY <2>1
  <2>4. CASE state' = state
    BY <2>2, <2>3, <2>4 DEF States
  <2>5. ASSUME NEW d \in Conns, NEW s \in States, state' = [state EXCEPT ![d] = s],
               Rank[state[d]] <= Rank[s]
        PROVE  Forward(c)
    BY <2>1, <2>2, <2>3, <2>5 DEF States
  <2>6. CASE IncomingHandler
    <3>1. ASSUME NEW d \in scene.conns, state[d] = "NONE", NewConnectionHandler(d)
          PROVE  Forward(c)
      <4>1. d \in Conns
        BY <2>1, <3>1, ServerAssumption DEF TypeOK
      <4>2. "CONNECTING" \in States /\ Rank[state[d]] <= Rank["CONNECTING"]
        BY <3>1, <2>2 DEF States
      <4>3. state' = [state EXCEPT ![d] = "CONNECTING"]
        BY <3>1 DEF NewConnectionHandler
      <4> HIDE DEF Forward
      <4> QED
        BY <4>1, <4>2, <4>3, <2>5
    <3> QED
      BY <3>1, <2>4, <2>6 DEF IncomingHandler
  <2>7. ASSUME NEW d \in Conns, EstablishConnection(d) PROVE Forward(c)
    <3>1. state[d] \in {"NONE", "CONNECTING"} /\ state' = [state EXCEPT ![d] = "CONNECTED"]
      <4>1. callback = None /\ Pending("establish", d)
        BY <1>1, <2>7, FunctorAt DEF EstablishConnection
      <4> QED
        BY <4>1, <1>1, <2>7, NoneInProgress
           DEF EstablishConnection, Core, Life, NotYet, Up, Down
    <3>2. "CONNECTED" \in States /\ Rank[state[d]] <= Rank["CONNECTED"]
      BY <3>1, <2>2 DEF States
    <3> HIDE DEF Forward
    <3> QED
      BY <3>1, <3>2, <2>5
  <2>8. ASSUME NEW d \in Conns, DestroyConnection(d) PROVE Forward(c)
    <3>1. state' = [state EXCEPT ![d] = "DISCONNECTED"] /\ state[d] \in States
      BY <2>1, <2>8 DEF DestroyConnection
    <3>2. "DISCONNECTED" \in States /\ Rank[state[d]] <= Rank["DISCONNECTED"]
      BY <3>1, <2>2 DEF States
    <3> HIDE DEF Forward
    <3> QED
      BY <3>1, <3>2, <2>5
  <2>9. ASSUME NEW d \in Conns, ShutdownOnLoop(d) PROVE Forward(c)
    <3>1. state' = [state EXCEPT ![d] = "DISCONNECTING"] /\ state[d] = "CONNECTED"
      BY <2>9 DEF ShutdownOnLoop, InCallback
    <3>2. "DISCONNECTING" \in States /\ Rank[state[d]] <= Rank["DISCONNECTING"]
      BY <3>1, <2>2 DEF States
    <3> HIDE DEF Forward
    <3> QED
      BY <3>1, <3>2, <2>5
  <2>10. ASSUME NEW w \in Workers, WorkerSetsState(w) PROVE Forward(c)
    <3>1. /\ pc[w] # None /\ pc[w].at = "setState"
          /\ state' = [state EXCEPT ![pc[w].conn] = "DISCONNECTING"]
      BY <2>10 DEF WorkerSetsState, WorkerAt
    <3>2. pc[w] \in [at : {"queueSend", "setState", "queueShutdown"}, conn : Conns]
      BY <2>1, <3>1 DEF TypeOK
    <3>3. CASE pc[w].conn = c
      BY <3>1, <3>2, <3>3
    <3>4. CASE pc[w].conn # c
      <4>1. state'[c] = state[c]
        BY <2>1, <3>1, <3>2, <3>4
      <4> QED
        BY <4>1, <2>2, <2>3 DEF States
    <3> QED
      BY <3>3, <3>4
  <2>11. CASE \/ Poll \/ HandleEventReturns \/ ProcessFunctors
              \/ ProcessFunctorsReturns \/ CallbackReturns \/ Retain
    BY <2>4, <2>11 DEF Poll, HandleEventReturns, ProcessFunctors,
       ProcessFunctorsReturns, CallbackReturns, Retain, connVars
  <2>12. ASSUME NEW d \in Conns,
                \/ HandleHup(d) \/ ConnectionHandler(d) \/ WriteHandler(d)
                \/ RunSend(d) \/ RunShutdown(d)
                \/ SendOnLoop(d) \/ Release(d) \/ PeerCloses(d)
         PROVE  Forward(c)
    BY <2>4, <2>12 DEF HandleHup, ConnectionHandler, WriteHandler, RunSend,
       RunShutdown, SendOnLoop, Release, PeerCloses, connVars
  <2>13. ASSUME NEW w \in Workers, NEW d \in Conns,
                WorkerCalled(w, d) \/ WorkerQueuesSend(w) \/ WorkerQueuesShutdown(w)
         PROVE  Forward(c)
    BY <2>4, <2>13 DEF WorkerCalled, WorkerQueuesSend, WorkerQueuesShutdown, connVars
  <2> QED
    BY <1>1, <2>6, <2>7, <2>8, <2>9, <2>10, <2>11, <2>12, <2>13
       DEF Next, LoopStep, WorkerStep
<1>2. ASSUME Core, [Next]_vars PROVE [\A c \in Conns : Forward(c)]_vars
  BY <1>1, <1>2
<1> QED
  BY <1>2, SpecCore, PTL DEF Spec, StateGoesForward

(* shutdown() lets the output drain unless the peer closed. *)
THEOREM ShutdownDrainsHolds == Spec => ShutdownDrains
<1> DEFINE Drained(c) == shutWr'[c] /\ ~shutWr[c] => out'[c] = 0 \/ peerClosed[c]
<1>1. ASSUME Core, Next, NEW c \in Conns PROVE Drained(c)
  <2>1. /\ shutWr \in [Conns -> BOOLEAN] /\ out \in [Conns -> Nat]
        /\ \A d \in Conns : OutputWatched(d)
    BY <1>1 DEF Core, TypeOK
  <2>2. CASE shutWr' = shutWr
    BY <2>2
  <2>3. ASSUME NEW d \in Conns, UNCHANGED out,
               shutWr' = [shutWr EXCEPT ![d] = @ \/ ~IsWriting(d)]
        PROVE  Drained(c)
    BY <2>1, <2>3 DEF OutputWatched
  <2>4. ASSUME NEW d \in Conns, WriteHandler(d) PROVE Drained(c)
    <3>1. \/ shutWr' = shutWr
          \/ /\ out' = [out EXCEPT ![d] = 0]
             /\ shutWr' = [shutWr EXCEPT ![d] = @ \/ state[d] = "DISCONNECTING"]
      BY <2>4 DEF WriteHandler
    <3> QED
      BY <2>1, <2>2, <3>1
  <2>5. ASSUME NEW d \in Conns, ShutdownOnLoop(d) \/ RunShutdown(d) PROVE Drained(c)
    BY <2>3, <2>5 DEF ShutdownOnLoop, RunShutdown, ShutdownInLoopThread
  <2>6. CASE \/ Poll \/ HandleEventReturns \/ ProcessFunctors
             \/ ProcessFunctorsReturns \/ IncomingHandler \/ CallbackReturns \/ Retain
    BY <2>2, <2>6 DEF Poll, HandleEventReturns, ProcessFunctors,
       ProcessFunctorsReturns, IncomingHandler, CallbackReturns, Retain, connVars
  <2>7. ASSUME NEW d \in Conns,
               \/ EstablishConnection(d) \/ DestroyConnection(d)
               \/ HandleHup(d) \/ ConnectionHandler(d) \/ RunSend(d)
               \/ SendOnLoop(d) \/ Release(d) \/ PeerCloses(d)
        PROVE  Drained(c)
    BY <2>2, <2>7 DEF EstablishConnection, DestroyConnection, HandleHup,
       ConnectionHandler, RunSend, SendOnLoop, Release, PeerCloses, connVars
  <2>8. ASSUME NEW w \in Workers, NEW d \in Conns,
               \/ WorkerCalled(w, d) \/ WorkerQueuesSend(w)
               \/ WorkerSetsState(w) \/ WorkerQueuesShutdown(w)
        PROVE  Drained(c)
    BY <2>2, <2>8 DEF WorkerCalled, WorkerQueuesSend, WorkerSetsState,
       WorkerQueuesShutdown, connVars
  <2> QED
    BY <1>1, <2>4, <2>5, <2>6, <2>7, <2>8 DEF Next, LoopStep, WorkerStep
<1>2. ASSUME Core, [Next]_vars PROVE [\A c \in Conns : Drained(c)]_vars
  BY <1>1, <1>2
<1> QED
  BY <1>2, SpecCore, PTL DEF Spec, ShutdownDrains

-----------------------------------------------------------------------------
(* poll(2) looks at every connection that is up and in the map, for input. *)
Watched(c) ==
    fault = None /\ c \in connections /\ told[c] = "up" =>
        /\ "READ" \in poller.events[c]
        /\ P!PollFdOf(poller, c).fd = FdOf[c]

(* When the loop is in poll() with nothing queued, every connection is one *)
(* the server does not have, one whose end poll(2) will report, or one     *)
(* that is down and of which nothing is left.                              *)
Settled(c) ==
    \/ told[c] = "none" /\ state[c] = "NONE" /\ c \notin connections
    \/ /\ told[c] = "up" /\ c \in connections
       /\ \E i \in P!Pollable(poller) :
             /\ poller.channels[poller.fds[i].fd] = c
             /\ "READ" \in poller.fds[i].events
    \/ told[c] = "down" /\ c \notin connections /\ c \notin P!Registered(poller)

IdleIsSettled ==
    fault = None /\ phase = "poll" /\ queue = <<>> => \A c \in Conns : Settled(c)

(* An update that wants events leaves the descriptor as it is. *)
LEMMA PollerUpdateFd ==
    ASSUME NEW p, P!WellTyped(p), P!Consistent(p), NEW c \in P!Registered(p),
           NEW ev \in SUBSET P!Events, ev # {}
    PROVE  P!PollFdOf(P!SetEvents(p, c, ev), c).fd = P!PollFdOf(p, c).fd
<1> DEFINE q == P!SetEvents(p, c, ev)
<1>1. PP!WellTyped(p) /\ PP!Consistent(p) /\ c \in PP!Registered(p)
      /\ ev \in SUBSET PP!Events
  BY SameOperators
<1>2. PP!PollFdOf(PP!SetEvents(p, c, ev), c).fd = PP!PollFdOf(p, c).fd
  BY <1>1, FdType, PP!ChangeFd
<1>3. q = PP!SetEvents(p, c, ev)
  BY SameOperators
<1>4. PP!PollFdOf(q, c) = P!PollFdOf(q, c) /\ PP!PollFdOf(p, c) = P!PollFdOf(p, c)
  BY SameOperators
<1> HIDE DEF q
<1>5. P!PollFdOf(q, c).fd = P!PollFdOf(p, c).fd
  BY <1>2, <1>3, <1>4
<1> QED
  BY <1>5 DEF q

(* An assertion without a fault held. *)
LEMMA AssertHeld ==
    ASSUME NEW condition, AssertThat(condition), fault' = None
    PROVE  condition
<1>1. "assertion" # None
  <2>1. "assertion" \in Faults
    BY Zenon DEF Faults
  <2> QED
    BY <2>1, ServerAssumption
<1> QED
  BY <1>1 DEF AssertThat

(* The connections of which a step does not change what Watched says. *)
LEMMA WatchedKept ==
    ASSUME NEW c \in Conns, Watched(c), fault = None,
           c \in connections' /\ told'[c] = "up" => c \in connections /\ told[c] = "up",
           poller'.events[c] = poller.events[c],
           P!PollFdOf(poller', c) = P!PollFdOf(poller, c)
    PROVE  Watched(c)'
BY DEF Watched

(* An update of one connection's channel leaves the others watched, and    *)
(* that one too when it goes on reading.                                   *)
LEMMA WatchedAfterUpdate ==
    ASSUME Core, fault = None, \A c \in Conns : Watched(c),
           NEW d \in Conns, d \in P!Registered(poller), poller.index[d] >= 0,
           NEW ev \in SUBSET P!Events, poller' = P!SetEvents(poller, d, ev),
           \A c \in Conns \ {d} :
              c \in connections' /\ told'[c] = "up" => c \in connections /\ told[c] = "up",
           \/ d \notin connections' \/ told'[d] # "up"
           \/ /\ UNCHANGED <<connections, told>>
              /\ "READ" \in poller.events[d] => "READ" \in ev
    PROVE  \A c \in Conns : Watched(c)'
<1>1. TypeOK /\ PollerInv /\ P!WellTyped(poller) /\ P!Consistent(poller)
  BY DEF Core, TypeOK, P!TypeOK, PollerInv
<1>2. /\ \A c \in P!Registered(poller) \ {d} :
            P!PollFdOf(poller', c) = P!PollFdOf(poller, c)
      /\ poller'.events[d] = ev
      /\ \A c \in Conns \ {d} : poller'.events[c] = poller.events[c]
  BY <1>1, ChannelUpdated
<1>3. ASSUME NEW c \in Conns \ {d}, c \in connections', told'[c] = "up" PROVE Watched(c)'
  <2>1. c \in connections /\ told[c] = "up" /\ c \in P!Registered(poller)
    BY <1>3 DEF Core, Life, Up
  <2> QED
    BY <1>2, <1>3, <2>1, WatchedKept
<1>4. Watched(d)'
  <2>1. CASE UNCHANGED <<connections, told>> /\ ("READ" \in poller.events[d] => "READ" \in ev)
    <3>1. CASE "READ" \in ev
      <4>1. P!PollFdOf(poller', d).fd = P!PollFdOf(poller, d).fd
        BY <1>1, <3>1, PollerUpdateFd
      <4> QED
        BY <1>2, <2>1, <3>1, <4>1 DEF Watched
    <3>2. CASE "READ" \notin poller.events[d]
      BY <2>1, <3>2 DEF Watched
    <3> QED
      BY <2>1, <3>1, <3>2
  <2>2. CASE d \notin connections' \/ told'[d] # "up"
    BY <2>2 DEF Watched
  <2> QED
    BY <2>1, <2>2
<1>5. ASSUME NEW c \in Conns PROVE Watched(c)'
  <2>1. CASE c \in connections' /\ told'[c] = "up" /\ c # d
    BY <1>3, <2>1
  <2>2. CASE ~(c \in connections' /\ told'[c] = "up")
    BY <2>2 DEF Watched
  <2> QED
    BY <1>4, <2>1, <2>2
<1> QED
  BY <1>5

(* closeHandler() takes the connection out of the map. *)
LEMMA WatchedAfterClose ==
    ASSUME Core, fault = None, \A c \in Conns : Watched(c), NEW d \in Conns,
           told[d] = "up", CloseHandler(d), UNCHANGED told
    PROVE  \A c \in Conns : Watched(c)'
<1>1. /\ poller' = P!SetEvents(poller, d, {}) /\ connections' = connections \ {d}
      /\ {} \in SUBSET P!Events
  BY DEF CloseHandler, RemoveConnection, P!DisableAll
<1>2. d \in P!Registered(poller) /\ poller.index[d] >= 0
  BY DEF Core, Life, Up
<1> QED
  BY <1>1, <1>2, WatchedAfterUpdate

(* sendInLoopThread() adds POLLOUT to what is watched. *)
LEMMA WatchedAfterSend ==
    ASSUME Core, fault = None, \A c \in Conns : Watched(c), NEW d \in Conns,
           told[d] # "none", SendInLoopThread(d), UNCHANGED <<connections, told>>
    PROVE  \A c \in Conns : Watched(c)'
<1>1. CASE UNCHANGED poller
  BY <1>1 DEF Watched
<1>2. CASE /\ AssertThat(P!UpdateAsserts(poller, d))
           /\ poller' = P!EnableWriting(poller, d)
  <2>1. CASE fault' = None
    <3>1. P!UpdateAsserts(poller, d)
      BY <1>2, <2>1, AssertHeld
    <3>2. poller.index[d] >= 0 /\ poller.index[d] \in Int /\ P!WellTyped(poller)
      BY LifeFacts DEF Core, TypeOK, P!TypeOK, P!WellTyped
    <3>3. d \in P!Registered(poller)
      BY <3>1, <3>2 DEF P!UpdateAsserts
    <3>4. PICK ev \in SUBSET P!Events : /\ poller' = P!SetEvents(poller, d, ev)
                                        /\ ev = poller.events[d] \cup {"WRITE"}
      BY <1>2, <3>2 DEF P!WellTyped, P!EnableWriting, P!Events
    <3> QED
      BY <3>2, <3>3, <3>4, WatchedAfterUpdate
  <2>2. CASE fault' # None
    BY <2>2 DEF Watched
  <2> QED
    BY <2>1, <2>2
<1> QED
  BY <1>1, <1>2 DEF SendInLoopThread

(* establishConnection() registers a descriptor poll(2) looks at. *)
LEMMA WatchedAfterEstablish ==
    ASSUME Core, \A c \in Conns : Watched(c), NEW d \in Conns, EstablishConnection(d),
           fault' = None
    PROVE  \A c \in Conns : Watched(c)'
<1>1. /\ AtFunctor("establish", d)
      /\ poller' = P!EnableReading(poller, d)
      /\ Tell(d, "up") /\ UNCHANGED connections
      /\ P!UpdateAsserts(poller, d)
  BY AssertHeld DEF EstablishConnection
<1>2. /\ TypeOK /\ PollerInv /\ fault = None /\ callback = None
      /\ Pending("establish", d) /\ P!WellTyped(poller) /\ P!Consistent(poller)
  BY <1>1, FunctorAt DEF TypeOK, P!TypeOK, PollerInv
<1>3. told[d] = "none" /\ poller.index[d] = -1
  BY <1>2, NoneInProgress DEF Core, Life, NotYet, Up, Down, OnceOps
<1>4. told' = [told EXCEPT ![d] = "up"]
  BY <1>1, <1>2, <1>3, TellFacts
<1>5. FdOf[d] \notin DOMAIN poller.channels
  BY <1>1, <1>3 DEF P!UpdateAsserts
<1>6. /\ poller'.events = [poller.events EXCEPT ![d] = @ \cup {"READ"}]
      /\ \A c \in P!Registered(poller) :
            P!PollFdOf(poller', c) = P!PollFdOf(poller, c)
      /\ poller'.index = [poller.index EXCEPT ![d] = Len(poller.fds)]
  <2>1. d \in Conns \cup {Listener}
    OBVIOUS
  <2> QED
    BY <1>1, <1>2, <1>3, <1>5, <2>1, PollerRegister
<1>7. /\ poller.events \in [Conns \cup {Listener} -> SUBSET P!Events]
      /\ poller.index \in [Conns \cup {Listener} -> Int]
      /\ poller.fds \in Seq(P!PollFds)
      /\ told \in [Conns -> {"none", "up", "down", "wrong"}]
  BY <1>2 DEF P!WellTyped, TypeOK
<1>8. P!PollFdOf(poller', d).fd = FdOf[d]
  <2> DEFINE ev == poller.events[d] \cup {"READ"}
             r == [fds |-> poller.fds, channels |-> poller.channels,
                   index |-> poller.index,
                   events |-> [poller.events EXCEPT ![d] = ev]]
             e == r.events[d]
  <2>0. r.fds = poller.fds /\ poller' = P!AddChannel(r, d)
    BY <1>1, <1>3 DEF P!EnableReading, P!SetEvents, P!UpdateChannel
  <2> HIDE DEF r
  <2>1. poller'.fds = Append(poller.fds, [fd |-> FdOf[d], events |-> e])
    BY <2>0 DEF P!AddChannel
  <2>2. poller'.fds[Len(poller.fds) + 1] = [fd |-> FdOf[d], events |-> e]
    BY <1>7, <2>1
  <2>3. poller'.index[d] = Len(poller.fds)
    BY <1>6, <1>7
  <2> QED
    BY <2>2, <2>3 DEF P!PollFdOf
<1>9. ASSUME NEW c \in Conns PROVE Watched(c)'
  <2>1. CASE c = d
    <3>1. "READ" \in poller'.events[d]
      BY <1>6, <1>7
    <3> QED
      BY <1>8, <2>1, <3>1 DEF Watched
  <2>2. CASE c # d /\ c \in connections' /\ told'[c] = "up"
    <3>1. c \in connections /\ told[c] = "up"
      BY <1>1, <1>4, <1>7, <2>2
    <3>2. c \in P!Registered(poller)
      BY <3>1 DEF Core, Life, Up
    <3>3. poller'.events[c] = poller.events[c]
      BY <1>6, <1>7, <2>2
    <3> QED
      BY <1>2, <1>6, <3>1, <3>2, <3>3, WatchedKept
  <2>3. CASE ~(c \in connections' /\ told'[c] = "up")
    BY <2>3 DEF Watched
  <2> QED
    BY <2>1, <2>2, <2>3
<1> QED
  BY <1>9

(* destroyConnection() up to its callback: the connection is down then. *)
LEMMA WatchedAfterDestroy ==
    ASSUME Core, \A c \in Conns : Watched(c), NEW d \in Conns, DestroyConnection(d)
    PROVE  \A c \in Conns : Watched(c)'
<1>1. /\ AtFunctor("destroy", d) /\ Tell(d, "down") /\ UNCHANGED connections
      /\ poller' = P!SetEvents(poller, d, {}) /\ {} \in SUBSET P!Events
  BY DEF DestroyConnection, P!DisableAll
<1>2. TypeOK /\ fault = None /\ callback = None /\ Pending("destroy", d)
  BY <1>1, FunctorAt
<1>3. told[d] = "up" /\ d \in P!Registered(poller) /\ poller.index[d] >= 0
  BY <1>2, NoneInProgress DEF Core, Life, NotYet, Up, Down, OnceOps
<1>4. told' = [told EXCEPT ![d] = "down"]
  BY <1>1, <1>2, <1>3, TellFacts
<1>5. told'[d] = "down" /\ \A c \in Conns \ {d} : told'[c] = told[c]
  BY <1>2, <1>4 DEF TypeOK
<1> QED
  BY <1>1, <1>2, <1>3, <1>5, WatchedAfterUpdate

(* The end of destroyConnection() removes the channel of a connection that *)
(* is down, and moves the pollfd of another one.                           *)
LEMMA WatchedAfterRemove ==
    ASSUME Core, fault = None, \A c \in Conns : Watched(c), callback # None,
           phase = "run", functors[next].op = "destroy",
           poller' = P!RemoveChannel(poller, callback), UNCHANGED <<connections, told>>
    PROVE  \A c \in Conns : Watched(c)'
<1>1. TypeOK /\ LoopInv /\ PollerInv /\ P!WellTyped(poller) /\ P!Consistent(poller)
  BY DEF Core, TypeOK, P!TypeOK, PollerInv
<1>2. told[callback] = "down" /\ callback \in P!Registered(poller)
  BY <1>1 DEF LoopInv, InProgress, Is
<1>3. callback \in Conns /\ poller.events[callback] = {}
  BY <1>1, <1>2 DEF TypeOK, PollerInv
<1>4. /\ poller'.events = poller.events
      /\ \A c \in P!Registered(poller) \ {callback} :
            P!PollFdOf(poller', c) = P!PollFdOf(poller, c)
  BY <1>1, <1>2, <1>3, PollerRemove
<1>5. ASSUME NEW c \in Conns, c \in connections, told[c] = "up" PROVE Watched(c)'
  <2>1. c \in P!Registered(poller) /\ c # callback
    BY <1>2, <1>5 DEF Core, Life, Up
  <2> QED
    BY <1>4, <1>5, <2>1, WatchedKept
<1> QED
  BY <1>5 DEF Watched

(* Every step leaves every connection watched. *)
LEMMA NextWatched ==
    ASSUME Core, \A c \in Conns : Watched(c), [Next]_vars
    PROVE  \A c \in Conns : Watched(c)'
<1>1. ASSUME UNCHANGED <<poller, connections, told, fault>>
      PROVE  \A c \in Conns : Watched(c)'
  BY <1>1 DEF Watched
<1>2. CASE UNCHANGED vars
  BY <1>1, <1>2 DEF vars
<1>3. CASE Poll \/ HandleEventReturns \/ ProcessFunctors \/ ProcessFunctorsReturns \/ Retain
  BY <1>1, <1>3 DEF Poll, HandleEventReturns, ProcessFunctors, ProcessFunctorsReturns,
                    Retain, connVars
<1>4. CASE IncomingHandler
  <2>1. ASSUME NEW c \in Conns, c \in connections', told'[c] = "up"
        PROVE  c \in connections
    <3>1. told' = told
      BY <1>4 DEF IncomingHandler
    <3>2. state[c] # "NONE"
      BY <2>1, <3>1 DEF Core, Life, Up
    <3> QED
      BY <1>4, <2>1, <3>2 DEF IncomingHandler, NewConnectionHandler
  <2>2. UNCHANGED <<poller, told, fault>>
    BY <1>4 DEF IncomingHandler
  <2> QED
    BY <2>1, <2>2 DEF Watched
<1>5. CASE CallbackReturns
  <2>1. fault = None /\ callback # None /\ UNCHANGED <<connections, told>>
    BY <1>5 DEF CallbackReturns, Running, connVars
  <2>2. CASE UNCHANGED <<poller, fault>>
    BY <1>1, <2>1, <2>2
  <2>3. CASE /\ phase = "run" /\ functors[next].op = "destroy"
             /\ poller' = P!RemoveChannel(poller, callback)
    BY <2>1, <2>3, WatchedAfterRemove
  <2> QED
    BY <1>5, <2>2, <2>3 DEF CallbackReturns
<1>6. ASSUME NEW d \in Conns, EstablishConnection(d) PROVE \A c \in Conns : Watched(c)'
  <2>1. CASE fault' = None
    BY <1>6, <2>1, WatchedAfterEstablish
  <2>2. CASE fault' # None
    BY <2>2 DEF Watched
  <2> QED
    BY <2>1, <2>2
<1>7. ASSUME NEW d \in Conns, DestroyConnection(d) PROVE \A c \in Conns : Watched(c)'
  BY <1>7, WatchedAfterDestroy
<1>8. ASSUME NEW d \in Conns, HandleHup(d) \/ ConnectionHandler(d)
      PROVE  \A c \in Conns : Watched(c)'
  <2>1. AtEvent(d) /\ fault = None
    BY <1>8 DEF HandleHup, ConnectionHandler, AtEvent, LoopAt, Running
  <2>2. told[d] = "up"
    BY <2>1, DispatchedIsUp
  <2>3. CASE CloseHandler(d) /\ UNCHANGED told
    BY <2>1, <2>2, <2>3, WatchedAfterClose
  <2>4. CASE Tell(d, "message") /\ UNCHANGED <<poller, connections, fault>>
    <3>1. told' = told
      BY <2>2, <2>4, TellFacts DEF Core
    <3> QED
      BY <1>1, <2>4, <3>1
  <2> QED
    BY <1>8, <2>3, <2>4 DEF HandleHup, ConnectionHandler
<1>9. ASSUME NEW d \in Conns, WriteHandler(d) PROVE \A c \in Conns : Watched(c)'
  <2>1. AtEvent(d) /\ fault = None /\ UNCHANGED <<connections, told>>
    BY <1>9 DEF WriteHandler, AtEvent, LoopAt, Running
  <2>2. told[d] = "up" /\ d \in P!Registered(poller) /\ poller.index[d] >= 0
    BY <2>1, DispatchedIsUp DEF Core, Life, Up
  <2>3. CASE poller' = P!DisableWriting(poller, d)
    <3>1. P!WellTyped(poller)
      BY DEF Core, TypeOK, P!TypeOK
    <3>2. PICK ev \in SUBSET P!Events : /\ poller' = P!SetEvents(poller, d, ev)
                                        /\ ev = poller.events[d] \ {"WRITE"}
      BY <2>3, <3>1 DEF P!WellTyped, P!DisableWriting
    <3> QED
      BY <2>1, <2>2, <3>2, WatchedAfterUpdate
  <2>4. CASE UNCHANGED <<poller, fault>>
    BY <1>1, <2>1, <2>4
  <2> QED
    BY <1>9, <2>3, <2>4 DEF WriteHandler
<1>10. ASSUME NEW d \in Conns, RunSend(d) PROVE \A c \in Conns : Watched(c)'
  <2>1. AtFunctor("send", d) /\ UNCHANGED <<connections, told>>
    BY <1>10, Zenon DEF RunSend
  <2>2. fault = None /\ Pending("send", d)
    BY <2>1, FunctorAt
  <2>3. told[d] # "none"
    BY <2>2 DEF Core, Life, NotYet
  <2>4. CASE SendInLoopThread(d)
    BY <2>1, <2>2, <2>3, <2>4, WatchedAfterSend
  <2>5. CASE fault' = "use after free"
    <3>1. fault' # None
      BY <2>5, ServerAssumption, Zenon DEF Faults
    <3> QED
      BY <3>1 DEF Watched
  <2> QED
    BY <1>10, <2>4, <2>5, Zenon DEF RunSend
<1>11. ASSUME NEW d \in Conns, SendOnLoop(d) PROVE \A c \in Conns : Watched(c)'
  <2>1. /\ fault = None /\ state[d] = "CONNECTED" /\ UNCHANGED <<connections, told>>
        /\ SendInLoopThread(d)
    BY <1>11 DEF SendOnLoop, InCallback, Running
  <2>2. told[d] # "none"
    BY <2>1 DEF Core, Life, NotYet
  <2> QED
    BY <2>1, <2>2, WatchedAfterSend
<1>12. ASSUME NEW d \in Conns,
              RunShutdown(d) \/ ShutdownOnLoop(d) \/ Release(d) \/ PeerCloses(d)
       PROVE  \A c \in Conns : Watched(c)'
  BY <1>1, <1>12 DEF RunShutdown, ShutdownOnLoop, Release, PeerCloses, connVars
<1>13. ASSUME NEW w \in Workers, WorkerStep(w) PROVE \A c \in Conns : Watched(c)'
  BY <1>1, <1>13 DEF WorkerStep, WorkerCalled, WorkerQueuesSend, WorkerSetsState,
                     WorkerQueuesShutdown, connVars
<1> QED
  BY <1>2, <1>3, <1>4, <1>5, <1>6, <1>7, <1>8, <1>9, <1>10, <1>11, <1>12, <1>13
     DEF Next, LoopStep

(* No connection is stranded: whenever the loop is in poll() with nothing  *)
(* queued, a connection that is up is among the descriptors poll(2) looks  *)
(* at for input, so that the end of it will be reported, and one that is   *)
(* down has left _connections and the Poller.  updateChannel() makes a     *)
(* descriptor negative and never positive again; no step of TcpConnection  *)
(* gets into that with a connection that is still in use.  This is the     *)
(* safety part of ClosedConnectionsGoDown.                                 *)
THEOREM IdleIsSettledHolds == Spec => []IdleIsSettled
<1> DEFINE Inv == Core /\ \A c \in Conns : Watched(c)
<1>1. Init => Inv
  <2>1. Init => \A c \in Conns : Watched(c)
    BY DEF Init, Watched
  <2> QED
    BY <2>1, InitCore
<1>2. Inv /\ [Next]_vars => Inv'
  BY NextCore, NextWatched
<1>3. Inv => IdleIsSettled
  <2> SUFFICES ASSUME Inv, fault = None, phase = "poll", queue = <<>>, NEW c \in Conns
               PROVE  Settled(c)
    BY DEF IdleIsSettled
  <2>1. TypeOK /\ LoopInv /\ P!WellTyped(poller) /\ P!Consistent(poller) /\ Life(c)
    BY DEF Core, TypeOK, P!TypeOK, PollerInv
  <2>2. functors = <<>> /\ next = 1
    BY <2>1 DEF LoopInv
  <2>3. \A op : ~Pending(op, c) /\ ~InProgress(op, c)
    BY <2>2 DEF Pending, Queued, ToRun, InProgress
  <2>4. CASE told[c] = "none" /\ NotYet(c)
    BY <2>3, <2>4 DEF NotYet, Settled
  <2>5. CASE told[c] = "down" /\ Down(c)
    BY <2>3, <2>5 DEF Down, Settled
  <2>6. CASE told[c] = "up" /\ Up(c)
    <3>1. c \in connections /\ c \in P!Registered(poller)
      BY <2>3, <2>6 DEF Up
    <3>2. /\ poller.index[c] \in 0..Len(poller.fds) - 1
          /\ P!PollFdOf(poller, c).events = poller.events[c]
          /\ poller.fds \in Seq(P!PollFds)
          /\ poller.channels[FdOf[c]] = c
      BY <2>1, <3>1 DEF P!Consistent, P!WellTyped, P!Registered
    <3>3. "READ" \in poller.events[c] /\ P!PollFdOf(poller, c).fd = FdOf[c] /\ FdOf[c] \in Nat
      BY <2>6, <3>1, ServerAssumption DEF Watched
    <3>4. PICK i \in 1..Len(poller.fds) : i = poller.index[c] + 1
      BY <3>2
    <3>5. poller.fds[i].fd = FdOf[c] /\ "READ" \in poller.fds[i].events
      BY <3>2, <3>3, <3>4 DEF P!PollFdOf
    <3>6. i \in P!Pollable(poller)
      BY <3>3, <3>5 DEF P!Pollable
    <3> QED
      BY <2>6, <3>1, <3>2, <3>5, <3>6 DEF Settled
  <2> QED
    BY <2>1, <2>4, <2>5, <2>6 DEF Life
<1> QED
  BY <1>1, <1>2, <1>3, PTL DEF Spec
=============================================================================
