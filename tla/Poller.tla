------------------------------- MODULE Poller -------------------------------
(***************************************************************************)
(* Poller (src/Poller.cpp) and the part of Channel (src/Channel.cpp,       *)
(* include/network/Channel.hpp) that registers with it: the array _fds     *)
(* handed to poll(2), the map _channels from descriptor to channel, and    *)
(* the position in _fds that every channel caches in _index.               *)
(*                                                                         *)
(* The operations are written as operators from one poller state to the    *)
(* next, so that a handler that calls several of them (TcpServer) is one   *)
(* step; the specification of this module lets any channel call any of     *)
(* them in any order its owners may.                                       *)
(***************************************************************************)
EXTENDS Integers, Sequences, FiniteSets, Functions

CONSTANTS
    Channels,  \* the Channel objects created over time
    FdOf       \* their descriptors (_fd); the kernel reuses closed ones

ASSUME FdAssumption == FdOf \in [Channels -> Nat]

Events == {"READ", "WRITE"}     \* READEVENT, WRITEEVENT; {} is EMPTYEVENT

(***************************************************************************)
(* A poller state:                                                         *)
(*   fds       _fds; revents is consumed inside poll() and not kept        *)
(*   channels  _channels                                                   *)
(*   index     Channel::_index, -1 until the channel is first updated      *)
(*   events    Channel::_events                                            *)
(***************************************************************************)
NoChannels == [fds      |-> <<>>,
               channels |-> <<>>,
               index    |-> [c \in Channels |-> -1],
               events   |-> [c \in Channels |-> {}]]

(* The value poll(2) skips; fd 0 must not be mapped to itself. *)
NegatedWithoutOffset(fd) == -fd

Ignored(fd) == -fd - 1

Registered(p) ==
    {c \in Channels : FdOf[c] \in DOMAIN p.channels /\ p.channels[FdOf[c]] = c}

-----------------------------------------------------------------------------
(* Poller::updateChannel() when channel->index() < 0 *)
AddChannel(p, c) ==
    [fds      |-> Append(p.fds, [fd |-> FdOf[c], events |-> p.events[c]]),
     channels |-> [f \in DOMAIN p.channels \cup {FdOf[c]} |->
                     IF f = FdOf[c] THEN c ELSE p.channels[f]],
     index    |-> [p.index EXCEPT ![c] = Len(p.fds)],
     events   |-> p.events]

(* updateChannel() for a known channel: it makes the descriptor negative   *)
(* for an empty event set and never makes it positive again.               *)
ChangeChannel(p, c) ==
    [fds      |-> [p.fds EXCEPT ![p.index[c] + 1] =
                     [fd     |-> IF p.events[c] = {} THEN Ignored(FdOf[c])
                                                     ELSE @.fd,
                      events |-> p.events[c]]],
     channels |-> p.channels,
     index    |-> p.index,
     events   |-> p.events]

UpdateChannel(p, c) ==
    IF p.index[c] < 0 THEN AddChannel(p, c) ELSE ChangeChannel(p, c)

(* Channel::enableReading(), enableWriting(), disableWriting(), disableAll() *)
SetEvents(p, c, events) ==
    UpdateChannel([fds |-> p.fds, channels |-> p.channels, index |-> p.index,
                   events |-> [p.events EXCEPT ![c] = events]], c)

EnableReading(p, c)  == SetEvents(p, c, p.events[c] \cup {"READ"})
EnableWriting(p, c)  == SetEvents(p, c, p.events[c] \cup {"WRITE"})
DisableWriting(p, c) == SetEvents(p, c, p.events[c] \ {"WRITE"})
DisableAll(p, c)     == SetEvents(p, c, {})

(* the descriptor of the last pollfd, also when it is an ignored one *)
LastFd(p) ==
    LET fd == p.fds[Len(p.fds)].fd IN IF fd < 0 THEN -fd - 1 ELSE fd

(* removeChannel() without the set_index() of the channel that moved *)
RemoveWithoutReindex(p, c) ==
    LET at == p.index[c] + 1
        n  == Len(p.fds)
    IN  [fds      |-> SubSeq([p.fds EXCEPT ![at] = p.fds[n]], 1, n - 1),
         channels |-> [f \in DOMAIN p.channels \ {FdOf[c]} |-> p.channels[f]],
         index    |-> p.index,
         events   |-> p.events]

(* removeChannel() that erases from the middle and re-indexes as if it had *)
(* swapped                                                                 *)
EraseFromMiddle(p, c) ==
    LET at == p.index[c] + 1
        n  == Len(p.fds)
    IN  [fds      |-> SubSeq(p.fds, 1, at - 1) \o SubSeq(p.fds, at + 1, n),
         channels |-> [f \in DOMAIN p.channels \ {FdOf[c]} |-> p.channels[f]],
         index    |-> IF at = n
                        THEN p.index
                        ELSE [p.index EXCEPT ![p.channels[LastFd(p)]] = at - 1],
         events   |-> p.events]

(* Poller::removeChannel(): the last pollfd takes the place of the removed *)
(* one and its channel's index is updated; _index of the removed channel   *)
(* keeps its value.                                                        *)
RemoveChannel(p, c) ==
    LET at == p.index[c] + 1
        n  == Len(p.fds)
    IN  [fds      |-> SubSeq([p.fds EXCEPT ![at] = p.fds[n]], 1, n - 1),
         channels |-> [f \in DOMAIN p.channels \ {FdOf[c]} |-> p.channels[f]],
         index    |-> IF at = n
                        THEN p.index
                        ELSE [p.index EXCEPT ![p.channels[LastFd(p)]] = at - 1],
         events   |-> p.events]

(* The positions of the ready pollfds in the order of _fds. *)
InOrder(ready) ==
    {hit \in [1..Cardinality(ready) -> ready] :
        \A j, k \in DOMAIN hit : j < k => hit[j] < hit[k]}

(* Poller::fillActiveChannels(): the channels of the pollfds with a        *)
(* revents, looked up by descriptor.                                       *)
FillActiveChannels(p, hit) ==
    [k \in DOMAIN hit |-> p.channels[p.fds[hit[k]].fd]]

(* The pollfds the kernel looks at. *)
Pollable(p) == {i \in 1..Len(p.fds) : p.fds[i].fd >= 0}

-----------------------------------------------------------------------------
(* The assertions of the code, as predicates on the state they look at.    *)

(* updateChannel(), lines 53, 69-70 and 75-76 *)
UpdateAsserts(p, c) ==
    IF p.index[c] < 0
      THEN FdOf[c] \notin DOMAIN p.channels
      ELSE /\ c \in Registered(p)
           /\ p.index[c] < Len(p.fds)
           /\ p.fds[p.index[c] + 1].fd \in {FdOf[c], Ignored(FdOf[c])}

(* removeChannel(), lines 92-94 and 100-102, and the lookup of line 117,   *)
(* which must find a channel                                               *)
RemoveAsserts(p, c) ==
    /\ c \in Registered(p)
    /\ p.events[c] = {}
    /\ p.index[c] \in 0..Len(p.fds) - 1
    /\ p.fds[p.index[c] + 1] = [fd |-> Ignored(FdOf[c]), events |-> {}]
    /\ LastFd(p) \in DOMAIN p.channels

(* fillActiveChannels(), lines 133 and 137 *)
FillAsserts(p) ==
    \A i \in Pollable(p) :
        /\ p.fds[i].fd \in DOMAIN p.channels
        /\ FdOf[p.channels[p.fds[i].fd]] = p.fds[i].fd

-----------------------------------------------------------------------------
VARIABLES
    poller,         \* the state of the Poller and its channels
    activeChannels  \* what the last poll() reported

vars == <<poller, activeChannels>>

Init ==
    /\ poller = NoChannels
    /\ activeChannels = <<>>

(* A channel is first updated by enableReading(), on a descriptor that no  *)
(* registered channel has: owners remove a channel before they close.      *)
Register(c) ==
    /\ poller.index[c] = -1
    /\ FdOf[c] \notin DOMAIN poller.channels
    /\ poller' = EnableReading(poller, c)
    /\ UNCHANGED activeChannels

Update(c) ==
    /\ c \in Registered(poller)
    /\ \/ poller' = EnableReading(poller, c)
       \/ poller' = EnableWriting(poller, c)
       \/ poller' = DisableWriting(poller, c)
       \/ poller' = DisableAll(poller, c)
    /\ UNCHANGED activeChannels

(* Owners disable every event first. *)
Remove(c) ==
    /\ c \in Registered(poller)
    /\ poller.events[c] = {}
    /\ poller' = RemoveChannel(poller, c)
    /\ UNCHANGED activeChannels

(* EventLoop clears its list before every poll(); none is ready when the   *)
(* timeout ends it.                                                        *)
Poll(ready) ==
    /\ \E hit \in InOrder(ready) :
          activeChannels' = FillActiveChannels(poller, hit)
    /\ UNCHANGED poller

Next ==
    \/ \E c \in Channels : Register(c) \/ Update(c) \/ Remove(c)
    \/ \E ready \in SUBSET Pollable(poller) : Poll(ready)

Spec == Init /\ [][Next]_vars

-----------------------------------------------------------------------------
PollFds == [fd : Int, events : SUBSET Events]

WellTyped(p) ==
    /\ p.fds \in Seq(PollFds)
    /\ DOMAIN p.channels \subseteq Nat
    /\ \A f \in DOMAIN p.channels : p.channels[f] \in Channels
    /\ p.index \in [Channels -> Int]
    /\ p.events \in [Channels -> SUBSET Events]
    /\ \A c \in Registered(p) : p.index[c] \in Nat

(* The types; a channel the map knows has an index that is not -1. *)
TypeOK == WellTyped(poller)

PollFdOf(p, c) == p.fds[p.index[c] + 1]

Consistent(p) ==
    /\ \A f \in DOMAIN p.channels : FdOf[p.channels[f]] = f
    /\ \A c \in Registered(p) :
          /\ p.index[c] \in 0..Len(p.fds) - 1
          /\ PollFdOf(p, c).fd \in {FdOf[c], Ignored(FdOf[c])}
          /\ PollFdOf(p, c).events = p.events[c]
          /\ p.events[c] = {} => PollFdOf(p, c).fd = Ignored(FdOf[c])
    /\ \A i \in 1..Len(p.fds) : \E c \in Registered(p) : p.index[c] = i - 1

(* The indices cached in the channels, _fds and _channels describe one     *)
(* bijection, whatever was swapped by removals, and an empty event set     *)
(* means an ignored descriptor.  Inductive.                                *)
IndexInv == Consistent(poller)

(* No assertion of Poller.cpp fails for a channel its owner may use.  The  *)
(* build compiles them out, so a failure would go on with a wrong pollfd.  *)
NoAssertFails ==
    /\ \A c \in Registered(poller) :
          /\ UpdateAsserts(poller, c)
          /\ poller.events[c] = {} => RemoveAsserts(poller, c)
    /\ FillAsserts(poller)

(* What poll() reports are registered channels that want events or are     *)
(* hung up, each once: two pollfds never lead to the same channel, and a   *)
(* channel whose owner disabled everything is not reported.                *)
ReportsEachOnce ==
    [][(\E ready \in SUBSET Pollable(poller) : Poll(ready)) =>
          /\ IsInjective(activeChannels')
          /\ \A k \in DOMAIN activeChannels' :
                /\ activeChannels'[k] \in Registered(poller)
                /\ poller.events[activeChannels'[k]] # {}]_vars

(* Registering, updating or removing a channel leaves every other channel  *)
(* registered, with the pollfd it had, although a removal moves one of     *)
(* these pollfds to another position.                                      *)
OthersUntouched ==
    [][\A c \in Channels :
          Register(c) \/ Update(c) \/ Remove(c) =>
             \A d \in Registered(poller) \ {c} :
                /\ d \in Registered(poller')
                /\ PollFdOf(poller', d) = PollFdOf(poller, d)]_vars

=============================================================================
