---------------------------- MODULE PollerProofs ----------------------------
(***************************************************************************)
(* Proofs about Poller for any channels and any assignment of descriptors: *)
(* each operation keeps _fds, _channels and the cached indices consistent, *)
(* so that no assertion of Poller.cpp can fail.                            *)
(***************************************************************************)
EXTENDS Poller, SequenceTheorems, TLAPS

(* Adding a channel whose descriptor is not in the map keeps the tables    *)
(* consistent, provided that it asks for some event.                       *)
LEMMA AddConsistent ==
    ASSUME NEW p, WellTyped(p), Consistent(p),
           NEW c \in Channels, FdOf[c] \notin DOMAIN p.channels,
           p.events[c] # {}
    PROVE  /\ WellTyped(AddChannel(p, c)) /\ Consistent(AddChannel(p, c))
           /\ Registered(AddChannel(p, c)) = Registered(p) \cup {c}
           /\ \A d \in Registered(p) : PollFdOf(AddChannel(p, c), d) = PollFdOf(p, d)
<1> DEFINE q == AddChannel(p, c)
           n == Len(p.fds)
           pfd == [fd |-> FdOf[c], events |-> p.events[c]]
<1>0. FdOf \in [Channels -> Nat]
  BY FdAssumption
<1>1. pfd \in PollFds
  BY <1>0 DEF PollFds, WellTyped
<1>2. /\ q.fds = Append(p.fds, pfd)
      /\ q.index = [p.index EXCEPT ![c] = n]
      /\ q.events = p.events
      /\ q.channels = [f \in DOMAIN p.channels \cup {FdOf[c]} |->
                         IF f = FdOf[c] THEN c ELSE p.channels[f]]
  BY DEF AddChannel
<1>3. /\ q.fds \in Seq(PollFds)
      /\ n \in Nat
      /\ Len(q.fds) = n + 1
      /\ \A i \in 1..n : q.fds[i] = p.fds[i]
      /\ q.fds[n + 1] = pfd
  BY <1>1, <1>2, AppendProperties, LenProperties DEF WellTyped
<1>4. /\ DOMAIN q.channels = DOMAIN p.channels \cup {FdOf[c]}
      /\ q.channels[FdOf[c]] = c
      /\ \A f \in DOMAIN p.channels : q.channels[f] = p.channels[f]
  BY <1>2
<1>5. Registered(q) = Registered(p) \cup {c} /\ c \notin Registered(p)
  BY <1>0, <1>4 DEF Registered
<1>6. /\ q.index \in [Channels -> Int]
      /\ q.index[c] = n
      /\ \A d \in Channels \ {c} : q.index[d] = p.index[d]
  BY <1>2, <1>3 DEF WellTyped
<1>7. WellTyped(q)
  <2>1. \A d \in Registered(q) : q.index[d] \in Nat
    BY <1>3, <1>5, <1>6 DEF WellTyped, Registered
  <2>2. DOMAIN q.channels \subseteq Nat
    BY <1>0, <1>4 DEF WellTyped
  <2>3. \A f \in DOMAIN q.channels : q.channels[f] \in Channels
    BY <1>4 DEF WellTyped
  <2> QED
    BY <1>2, <1>3, <1>6, <2>1, <2>2, <2>3 DEF WellTyped
<1>8. \A f \in DOMAIN q.channels : FdOf[q.channels[f]] = f
  BY <1>4 DEF Consistent
<1>8a. ASSUME NEW d \in Registered(p)
       PROVE  /\ q.index[d] \in 0..n - 1
              /\ PollFdOf(q, d) = PollFdOf(p, d)
  <2>1. d \in Channels \ {c}
    BY <1>5 DEF Registered
  <2>2. q.index[d] = p.index[d] /\ p.index[d] \in 0..n - 1
    BY <1>6, <2>1 DEF Consistent
  <2>3. p.index[d] + 1 \in 1..n
    BY <1>3, <2>2
  <2>4. q.fds[p.index[d] + 1] = p.fds[p.index[d] + 1]
    BY <1>3, <2>3
  <2> QED
    BY <2>2, <2>4 DEF PollFdOf
<1>9. \A d \in Registered(q) :
        /\ q.index[d] \in 0..Len(q.fds) - 1
        /\ PollFdOf(q, d).fd \in {FdOf[d], Ignored(FdOf[d])}
        /\ PollFdOf(q, d).events = q.events[d]
        /\ q.events[d] = {} => PollFdOf(q, d).fd = Ignored(FdOf[d])
  <2>2. PollFdOf(q, c) = pfd
    BY <1>3, <1>6 DEF PollFdOf
  <2> TAKE d \in Registered(q)
  <2>3. CASE d = c
    BY <1>2, <1>3, <1>6, <2>2, <2>3
  <2>4. CASE d \in Registered(p)
    <3>1. /\ PollFdOf(p, d).fd \in {FdOf[d], Ignored(FdOf[d])}
          /\ PollFdOf(p, d).events = p.events[d]
          /\ p.events[d] = {} => PollFdOf(p, d).fd = Ignored(FdOf[d])
      BY <2>4 DEF Consistent
    <3>2. q.index[d] \in 0..n - 1 /\ PollFdOf(q, d) = PollFdOf(p, d)
      BY <1>8a, <2>4
    <3>3. q.index[d] \in 0..Len(q.fds) - 1
      BY <1>3, <3>2
    <3> QED
      BY <1>2, <3>1, <3>2, <3>3
  <2> QED
    BY <1>5, <2>3, <2>4
<1>10. \A i \in 1..Len(q.fds) : \E d \in Registered(q) : q.index[d] = i - 1
  <2> TAKE i \in 1..Len(q.fds)
  <2>1. CASE i = n + 1
    BY <1>3, <1>5, <1>6, <2>1
  <2>2. CASE i \in 1..n
    <3>1. PICK d \in Registered(p) : p.index[d] = i - 1
      BY <2>2 DEF Consistent
    <3> QED
      BY <1>5, <1>6, <3>1 DEF Registered
  <2> QED
    BY <1>3, <2>1, <2>2
<1> QED
  BY <1>5, <1>7, <1>8, <1>8a, <1>9, <1>10 DEF Consistent

(* Changing the events of a registered channel keeps them consistent. *)
LEMMA ChangeConsistent ==
    ASSUME NEW p, WellTyped(p), Consistent(p),
           NEW c \in Registered(p), NEW ev \in SUBSET Events
    PROVE  /\ WellTyped(SetEvents(p, c, ev))
           /\ Consistent(SetEvents(p, c, ev))
           /\ Registered(SetEvents(p, c, ev)) = Registered(p)
           /\ SetEvents(p, c, ev).index = p.index
           /\ SetEvents(p, c, ev).events = [p.events EXCEPT ![c] = ev]
           /\ \A d \in Registered(p) \ {c} :
                 PollFdOf(SetEvents(p, c, ev), d) = PollFdOf(p, d)
<1> DEFINE q == SetEvents(p, c, ev)
           at == p.index[c] + 1
           pfd == [fd     |-> IF ev = {} THEN Ignored(FdOf[c]) ELSE p.fds[at].fd,
                   events |-> ev]
<1>0. FdOf \in [Channels -> Nat]
  BY FdAssumption
<1>1. c \in Channels /\ at \in 1..Len(p.fds) /\ Len(p.fds) \in Nat
  BY LenProperties DEF WellTyped, Consistent, Registered
<1>2. /\ q.fds = [p.fds EXCEPT ![at] = pfd]
      /\ q.index = p.index
      /\ q.events = [p.events EXCEPT ![c] = ev]
      /\ q.channels = p.channels
  BY <1>1 DEF SetEvents, UpdateChannel, ChangeChannel, WellTyped
<1>3. pfd \in PollFds
  <2>0. p.fds[at] \in PollFds
    BY <1>1, ElementOfSeq DEF WellTyped
  <2>1. p.fds[at].fd \in Int
    BY <2>0 DEF PollFds
  <2> QED
    BY <1>0, <1>1, <2>1 DEF PollFds, Ignored
<1>4. /\ q.fds \in Seq(PollFds)
      /\ Len(q.fds) = Len(p.fds)
      /\ q.fds[at] = pfd
      /\ \A i \in 1..Len(p.fds) : i # at => q.fds[i] = p.fds[i]
  BY <1>1, <1>2, <1>3, ExceptSeq DEF WellTyped
<1>5. Registered(q) = Registered(p)
  BY <1>2 DEF Registered
<1>6. WellTyped(q)
  BY <1>1, <1>2, <1>4, <1>5 DEF WellTyped
<1>7. \A d \in Registered(p) : d # c => p.index[d] # p.index[c]
  <2> SUFFICES ASSUME NEW d \in Registered(p), p.index[d] = p.index[c]
               PROVE  d = c
    OBVIOUS
  <2>1. /\ p.fds[at].fd \in {FdOf[d], -FdOf[d] - 1}
        /\ p.fds[at].fd \in {FdOf[c], -FdOf[c] - 1}
    BY DEF Consistent, PollFdOf, Ignored
  <2>2. FdOf[c] \in Nat /\ FdOf[d] \in Nat
    BY <1>0 DEF Registered
  <2>3. FdOf[d] = FdOf[c]
    BY <2>1, <2>2
  <2> QED
    BY <2>3 DEF Registered
<1>a. \A d \in Registered(p) \ {c} : PollFdOf(q, d) = PollFdOf(p, d)
  <2> TAKE d \in Registered(p) \ {c}
  <2>1. p.index[d] \in 0..Len(p.fds) - 1 /\ p.index[c] \in 0..Len(p.fds) - 1
    BY DEF Consistent
  <2>2. p.index[d] # p.index[c]
    BY <1>7
  <2>3. p.index[d] + 1 \in 1..Len(p.fds) /\ p.index[d] + 1 # at
    BY <1>1, <2>1, <2>2
  <2>4. q.fds[p.index[d] + 1] = p.fds[p.index[d] + 1]
    BY <1>4, <2>3
  <2> QED
    BY <1>2, <2>4 DEF PollFdOf
<1>b. PollFdOf(q, c) = pfd
  BY <1>2, <1>4 DEF PollFdOf
<1>8. \A d \in Registered(q) :
        /\ q.index[d] \in 0..Len(q.fds) - 1
        /\ PollFdOf(q, d).fd \in {FdOf[d], Ignored(FdOf[d])}
        /\ PollFdOf(q, d).events = q.events[d]
        /\ q.events[d] = {} => PollFdOf(q, d).fd = Ignored(FdOf[d])
  <2> TAKE d \in Registered(q)
  <2>0. d \in Registered(p) /\ d \in Channels
    BY <1>5 DEF Registered
  <2>1. CASE d = c
    <3>1. PollFdOf(q, d) = pfd
      BY <1>b, <2>1
    <3>2. q.events[d] = ev
      BY <1>1, <1>2, <2>1 DEF WellTyped
    <3>3. p.fds[at].fd \in {FdOf[d], Ignored(FdOf[d])}
      BY <2>0, <2>1 DEF Consistent, PollFdOf
    <3>4. q.index[d] \in 0..Len(q.fds) - 1
      BY <1>2, <1>4, <2>0 DEF Consistent
    <3>5. pfd.events = ev /\ pfd.fd \in {FdOf[d], Ignored(FdOf[d])}
      BY <2>1, <3>3
    <3>6. ev = {} => pfd.fd = Ignored(FdOf[d])
      BY <2>1
    <3> HIDE DEF pfd, q
    <3> QED
      BY <3>1, <3>2, <3>4, <3>5, <3>6
  <2>2. CASE d # c
    <3>1. PollFdOf(q, d) = PollFdOf(p, d)
      BY <1>a, <2>0, <2>2
    <3>2. q.events[d] = p.events[d]
      BY <1>2, <2>0, <2>2 DEF WellTyped
    <3> QED
      BY <1>2, <1>4, <2>0, <3>1, <3>2 DEF Consistent
  <2> QED
    BY <2>1, <2>2
<1>9. Consistent(q)
  BY <1>2, <1>4, <1>5, <1>8 DEF Consistent
<1> HIDE DEF q, pfd
<1> QED
  BY <1>2, <1>5, <1>6, <1>9, <1>a DEF q

(* An update negates the descriptor of a pollfd for an empty event set and *)
(* leaves it as it was for any other.                                      *)
LEMMA ChangeFd ==
    ASSUME NEW p, WellTyped(p), Consistent(p), NEW c \in Registered(p),
           NEW ev \in SUBSET Events
    PROVE  PollFdOf(SetEvents(p, c, ev), c).fd =
              IF ev = {} THEN Ignored(FdOf[c]) ELSE PollFdOf(p, c).fd
<1> DEFINE q == SetEvents(p, c, ev)
           at == p.index[c] + 1
           pfd == [fd     |-> IF ev = {} THEN Ignored(FdOf[c]) ELSE p.fds[at].fd,
                   events |-> ev]
<1>1. c \in Channels /\ at \in 1..Len(p.fds) /\ Len(p.fds) \in Nat
  BY LenProperties DEF WellTyped, Consistent, Registered
<1>2. /\ q.fds = [p.fds EXCEPT ![at] = pfd]
      /\ q.index = p.index
      /\ q.events = [p.events EXCEPT ![c] = ev]
      /\ q.channels = p.channels
  BY <1>1 DEF SetEvents, UpdateChannel, ChangeChannel, WellTyped
<1>3. q.fds[at] = pfd
  BY <1>1, <1>2, LenProperties DEF WellTyped
<1>4. PollFdOf(q, c) = pfd
  BY <1>2, <1>3 DEF PollFdOf
<1>5. pfd.fd = IF ev = {} THEN Ignored(FdOf[c]) ELSE PollFdOf(p, c).fd
  BY DEF PollFdOf
<1> QED
  BY <1>4, <1>5

(* An empty event set makes the descriptor of the pollfd an ignored one,   *)
(* and another one leaves it as it is: ignored once, ignored until removal.*)
LEMMA ChangeIgnores ==
    ASSUME NEW p, WellTyped(p), Consistent(p), NEW c \in Registered(p),
           NEW ev \in SUBSET Events, ev = {} \/ PollFdOf(p, c).fd = Ignored(FdOf[c])
    PROVE  PollFdOf(SetEvents(p, c, ev), c).fd = Ignored(FdOf[c])
BY ChangeFd

(* Removing a channel that wants no events keeps them consistent: the      *)
(* index of the channel whose pollfd moved is the one that must follow.    *)
LEMMA RemoveConsistent ==
    ASSUME NEW p, WellTyped(p), Consistent(p), NEW c \in Registered(p)
    PROVE  /\ WellTyped(RemoveChannel(p, c))
           /\ Consistent(RemoveChannel(p, c))
           /\ Registered(RemoveChannel(p, c)) = Registered(p) \ {c}
           /\ RemoveChannel(p, c).events = p.events
           /\ \A d \in Channels \ Registered(p) :
                 RemoveChannel(p, c).index[d] = p.index[d]
           /\ RemoveChannel(p, c).index[c] >= 0
           /\ \A d \in Registered(p) \ {c} :
                 PollFdOf(RemoveChannel(p, c), d) = PollFdOf(p, d)
<1> DEFINE q == RemoveChannel(p, c)
           at == p.index[c] + 1
           n == Len(p.fds)
<1>0. FdOf \in [Channels -> Nat]
  BY FdAssumption
<1>1. c \in Channels /\ at \in 1..n /\ n \in Nat
  BY LenProperties DEF WellTyped, Consistent, Registered
<1>2. /\ q.fds = SubSeq([p.fds EXCEPT ![at] = p.fds[n]], 1, n - 1)
      /\ q.index = IF at = n
                     THEN p.index
                     ELSE [p.index EXCEPT ![p.channels[LastFd(p)]] = at - 1]
      /\ q.events = p.events
      /\ q.channels = [f \in DOMAIN p.channels \ {FdOf[c]} |-> p.channels[f]]
  BY DEF RemoveChannel
<1> DEFINE swapped == [p.fds EXCEPT ![at] = p.fds[n]]
<1>3. /\ swapped \in Seq(PollFds)
      /\ Len(swapped) = n
      /\ \A i \in 1..n : swapped[i] = IF i = at THEN p.fds[n] ELSE p.fds[i]
  <2>1. p.fds[n] \in PollFds
    BY <1>1, ElementOfSeq DEF WellTyped
  <2> QED
    BY <1>1, <2>1, ExceptSeq DEF WellTyped
<1>4. /\ q.fds \in Seq(PollFds)
      /\ Len(q.fds) = n - 1
      /\ \A i \in 1..n - 1 : q.fds[i] = IF i = at THEN p.fds[n] ELSE p.fds[i]
  <2> HIDE DEF swapped
  <2>1. /\ SubSeq(swapped, 1, n - 1) \in Seq(PollFds)
        /\ Len(SubSeq(swapped, 1, n - 1)) = n - 1
        /\ \A i \in 1..n - 1 : SubSeq(swapped, 1, n - 1)[i] = swapped[i]
    BY <1>1, <1>3, SubSeqProperties
  <2>2. q.fds = SubSeq(swapped, 1, n - 1)
    BY <1>2 DEF swapped
  <2> QED
    BY <1>1, <1>3, <2>1, <2>2
<1>5. Registered(q) = Registered(p) \ {c}
  <2>1. DOMAIN q.channels = DOMAIN p.channels \ {FdOf[c]}
    BY <1>2
  <2>2. \A f \in DOMAIN q.channels : q.channels[f] = p.channels[f]
    BY <1>2
  <2>3. \A d \in Registered(p) : d # c => FdOf[d] # FdOf[c]
    BY DEF Registered
  <2> QED
    BY <2>1, <2>2, <2>3 DEF Registered
<1>6. PICK last \in Registered(p) : p.index[last] = n - 1
  BY <1>1 DEF Consistent
<1>7. p.channels[LastFd(p)] = last
  <2>0. p.index[last] + 1 = n
    BY <1>1, <1>6
  <2>1. p.fds[n].fd \in {FdOf[last], -FdOf[last] - 1}
    BY <2>0 DEF Consistent, PollFdOf, Ignored
  <2>2. FdOf[last] \in Nat
    BY <1>0 DEF Registered
  <2>3. LastFd(p) = FdOf[last]
    BY <2>1, <2>2 DEF LastFd
  <2> QED
    BY <2>3 DEF Registered
<1>8. \A d, e \in Registered(p) : p.index[d] = p.index[e] => d = e
  <2> TAKE d, e \in Registered(p)
  <2> HAVE p.index[d] = p.index[e]
  <2>1. /\ PollFdOf(p, d).fd \in {FdOf[d], -FdOf[d] - 1}
        /\ PollFdOf(p, e).fd \in {FdOf[e], -FdOf[e] - 1}
        /\ PollFdOf(p, d) = PollFdOf(p, e)
    BY DEF Consistent, PollFdOf, Ignored
  <2>2. FdOf[d] \in Nat /\ FdOf[e] \in Nat
    BY <1>0 DEF Registered
  <2>3. FdOf[d] = FdOf[e]
    BY <2>1, <2>2
  <2> QED
    BY <2>3 DEF Registered
<1>9. /\ q.index \in [Channels -> Int]
      /\ \A d \in Registered(q) :
            q.index[d] = IF d = last THEN at - 1 ELSE p.index[d]
  <2>0. p.index \in [Channels -> Int] /\ last \in Channels
    BY DEF WellTyped, Registered
  <2>1. CASE at = n
    <3>1. last = c
      BY <1>1, <1>6, <1>8, <2>0, <2>1
    <3> QED
      BY <1>2, <1>5, <2>0, <2>1, <3>1
  <2>2. CASE at # n
    <3>1. q.index = [p.index EXCEPT ![last] = at - 1]
      BY <1>2, <1>7, <2>2
    <3> QED
      BY <1>1, <1>5, <2>0, <3>1 DEF Registered
  <2> QED
    BY <2>1, <2>2
<1>10. \A d \in Registered(q) :
         /\ q.index[d] \in 0..n - 2
         /\ PollFdOf(q, d) = PollFdOf(p, d)
  <2> TAKE d \in Registered(q)
  <2>0. /\ d \in Registered(p) /\ d # c /\ p.index[d] # p.index[c]
        /\ p.index[d] \in 0..n - 1 /\ p.index[c] \in 0..n - 1
    BY <1>5, <1>8 DEF Consistent
  <2>1. CASE d = last
    <3>1. q.index[d] = at - 1 /\ at - 1 \in 0..n - 2
      BY <1>1, <1>6, <1>9, <2>0, <2>1
    <3>2. q.fds[at] = p.fds[n]
      BY <1>1, <1>4, <3>1
    <3> QED
      BY <1>1, <1>6, <2>1, <3>1, <3>2 DEF PollFdOf
  <2>2. CASE d # last
    <3>1. p.index[d] # n - 1
      BY <1>6, <1>8, <2>0, <2>2
    <3>2. q.index[d] = p.index[d] /\ p.index[d] \in 0..n - 2
      BY <1>1, <1>9, <2>0, <2>2, <3>1
    <3>3. p.index[d] + 1 \in 1..n - 1 /\ p.index[d] + 1 # at
      BY <1>1, <2>0, <3>2
    <3>4. q.fds[p.index[d] + 1] = p.fds[p.index[d] + 1]
      BY <1>4, <3>3
    <3> QED
      BY <3>2, <3>4 DEF PollFdOf
  <2> QED
    BY <2>1, <2>2
<1>11. WellTyped(q)
  <2>1. \A d \in Registered(q) : q.index[d] \in Nat
    BY <1>10
  <2>2. /\ DOMAIN q.channels \subseteq Nat
        /\ \A f \in DOMAIN q.channels : q.channels[f] \in Channels
    BY <1>2 DEF WellTyped
  <2> QED
    BY <1>2, <1>4, <1>9, <2>1, <2>2 DEF WellTyped
<1>12. \A i \in 1..Len(q.fds) : \E d \in Registered(q) : q.index[d] = i - 1
  <2> TAKE i \in 1..Len(q.fds)
  <2>0. i \in 1..n - 1
    BY <1>4
  <2>1. CASE i = at
    <3>1. last # c
      BY <1>1, <1>6, <2>0, <2>1
    <3> QED
      BY <1>5, <1>6, <1>9, <2>1, <3>1
  <2>2. CASE i # at
    <3>1. PICK d \in Registered(p) : p.index[d] = i - 1
      BY <1>1, <2>0 DEF Consistent
    <3>2. d # c /\ d # last
      BY <1>1, <1>6, <2>0, <2>2, <3>1
    <3> QED
      BY <1>5, <1>9, <3>1, <3>2
  <2> QED
    BY <2>1, <2>2
<1>13. \A f \in DOMAIN q.channels : FdOf[q.channels[f]] = f
  BY <1>2 DEF Consistent
<1>14. \A d \in Registered(q) :
         /\ q.index[d] \in 0..Len(q.fds) - 1
         /\ PollFdOf(q, d).fd \in {FdOf[d], Ignored(FdOf[d])}
         /\ PollFdOf(q, d).events = q.events[d]
         /\ q.events[d] = {} => PollFdOf(q, d).fd = Ignored(FdOf[d])
  <2> TAKE d \in Registered(q)
  <2>1. d \in Registered(p)
    BY <1>5
  <2>2. q.index[d] \in 0..Len(q.fds) - 1
    BY <1>1, <1>4, <1>10
  <2> QED
    BY <1>2, <1>10, <2>1, <2>2 DEF Consistent
<1>15. \A d \in Channels \ Registered(p) : q.index[d] = p.index[d]
  BY <1>2, <1>7 DEF WellTyped
<1>16. q.index[c] >= 0
  <2>1. p.index[c] >= 0 /\ at - 1 >= 0
    BY <1>1 DEF WellTyped
  <2>2. q.index[c] \in {p.index[c], at - 1}
    BY <1>1, <1>2 DEF WellTyped
  <2> QED
    BY <2>1, <2>2
<1> QED
  BY <1>2, <1>5, <1>10, <1>11, <1>12, <1>13, <1>14, <1>15, <1>16 DEF Consistent

(* The first enableReading() of a channel. *)
LEMMA RegisterConsistent ==
    ASSUME NEW p, WellTyped(p), Consistent(p),
           NEW c \in Channels, FdOf[c] \notin DOMAIN p.channels, p.index[c] = -1
    PROVE  /\ WellTyped(EnableReading(p, c)) /\ Consistent(EnableReading(p, c))
           /\ Registered(EnableReading(p, c)) = Registered(p) \cup {c}
           /\ EnableReading(p, c).events = [p.events EXCEPT ![c] = @ \cup {"READ"}]
           /\ EnableReading(p, c).index = [p.index EXCEPT ![c] = Len(p.fds)]
           /\ \A d \in Registered(p) :
                 PollFdOf(EnableReading(p, c), d) = PollFdOf(p, d)
<1> DEFINE ev == p.events[c] \cup {"READ"}
           r == [fds |-> p.fds, channels |-> p.channels, index |-> p.index,
                 events |-> [p.events EXCEPT ![c] = ev]]
<1>1. /\ r.fds = p.fds /\ r.channels = p.channels /\ r.index = p.index
      /\ r.events = [p.events EXCEPT ![c] = ev]
  OBVIOUS
<1>2. /\ r.events \in [Channels -> SUBSET Events]
      /\ r.events[c] # {}
      /\ \A d \in Channels \ {c} : r.events[d] = p.events[d]
  BY <1>1 DEF WellTyped, Events
<1>3. EnableReading(p, c) = AddChannel(r, c)
  BY <1>1 DEF EnableReading, SetEvents, UpdateChannel
<1> HIDE DEF r
<1>4. Registered(r) = Registered(p) /\ c \notin Registered(p)
  BY <1>1 DEF Registered
<1>5. WellTyped(r)
  BY <1>1, <1>2, <1>4 DEF WellTyped
<1>6. \A d \in Registered(p) :
        PollFdOf(r, d) = PollFdOf(p, d) /\ r.events[d] = p.events[d]
  BY <1>1, <1>2, <1>4 DEF PollFdOf, Registered
<1>7. Consistent(r)
  BY <1>1, <1>4, <1>6 DEF Consistent
<1>8. FdOf[c] \notin DOMAIN r.channels /\ r.events[c] # {}
  BY <1>1, <1>2
<1>9. /\ WellTyped(AddChannel(r, c)) /\ Consistent(AddChannel(r, c))
      /\ Registered(AddChannel(r, c)) = Registered(r) \cup {c}
      /\ \A d \in Registered(r) : PollFdOf(AddChannel(r, c), d) = PollFdOf(r, d)
  BY <1>5, <1>7, <1>8, AddConsistent
<1>10. /\ AddChannel(r, c).events = r.events
       /\ AddChannel(r, c).index = [r.index EXCEPT ![c] = Len(r.fds)]
  BY DEF AddChannel
<1> QED
  BY <1>1, <1>3, <1>4, <1>6, <1>9, <1>10

(* What an update does to an object that was registered once, whether it   *)
(* still is or not: the map and the indices stay as they are.              *)
LEMMA UpdateTyped ==
    ASSUME NEW p, WellTyped(p), NEW c \in Channels, p.index[c] >= 0,
           NEW ev \in SUBSET Events
    PROVE  /\ WellTyped(SetEvents(p, c, ev))
           /\ Registered(SetEvents(p, c, ev)) = Registered(p)
           /\ SetEvents(p, c, ev).index = p.index
           /\ SetEvents(p, c, ev).events = [p.events EXCEPT ![c] = ev]
<1> DEFINE q == SetEvents(p, c, ev)
           at == p.index[c] + 1
           pfd == [fd     |-> IF ev = {} THEN Ignored(FdOf[c]) ELSE p.fds[at].fd,
                   events |-> ev]
<1>0. FdOf \in [Channels -> Nat] /\ Len(p.fds) \in Nat /\ p.index[c] \in Nat
  BY FdAssumption, LenProperties DEF WellTyped
<1>1. /\ q.fds = [p.fds EXCEPT ![at] = pfd]
      /\ q.index = p.index
      /\ q.events = [p.events EXCEPT ![c] = ev]
      /\ q.channels = p.channels
  BY <1>0 DEF SetEvents, UpdateChannel, ChangeChannel, WellTyped
<1>2. Registered(q) = Registered(p)
  BY <1>1 DEF Registered
<1>3. q.fds \in Seq(PollFds)
  <2>1. CASE at \in 1..Len(p.fds)
    <3>1. p.fds[at] \in PollFds
      BY <2>1, ElementOfSeq DEF WellTyped
    <3>2. p.fds[at].fd \in Int
      BY <3>1 DEF PollFds
    <3>3. pfd \in PollFds
      BY <1>0, <3>2 DEF PollFds, Ignored
    <3> QED
      BY <1>1, <2>1, <3>3, ExceptSeq DEF WellTyped
  <2>2. CASE at \notin 1..Len(p.fds)
    <3>1. p.fds = [i \in 1..Len(p.fds) |-> p.fds[i]]
      BY LenProperties DEF WellTyped
    <3>2. [p.fds EXCEPT ![at] = pfd] = p.fds
      BY <2>2, <3>1
    <3> QED
      BY <1>1, <3>2 DEF WellTyped
  <2> QED
    BY <2>1, <2>2
<1>4. WellTyped(q)
  BY <1>0, <1>1, <1>2, <1>3 DEF WellTyped
<1> QED
  BY <1>1, <1>2, <1>4

(* The empty tables are consistent. *)
LEMMA NoChannelsConsistent ==
    WellTyped(NoChannels) /\ Consistent(NoChannels) /\ Registered(NoChannels) = {}
<1> DEFINE p == NoChannels
<1>1. /\ p.fds = <<>> /\ p.channels = <<>>
      /\ p.index = [c \in Channels |-> -1]
      /\ p.events = [c \in Channels |-> {}]
  BY DEF NoChannels
<1>2. Registered(p) = {} /\ DOMAIN p.channels = {}
  BY <1>1 DEF Registered
<1>3. <<>> \in Seq(PollFds) /\ Len(p.fds) = 0
  BY <1>1
<1> HIDE DEF p
<1>4. WellTyped(p) /\ Consistent(p)
  BY <1>1, <1>2, <1>3 DEF WellTyped, Consistent
<1> QED
  BY <1>2, <1>4 DEF p

(* After every sequence of updates and removals the cached indices, _fds   *)
(* and _channels describe one bijection (and have their types), for any    *)
(* channels and descriptors.                                               *)
THEOREM PollerInvariant == Spec => [](TypeOK /\ IndexInv)
<1>1. Init => TypeOK /\ IndexInv
  BY NoChannelsConsistent DEF Init, TypeOK, IndexInv
<1>2. TypeOK /\ IndexInv /\ [Next]_vars => TypeOK' /\ IndexInv'
  <2> SUFFICES ASSUME TypeOK, IndexInv, [Next]_vars PROVE TypeOK' /\ IndexInv'
    OBVIOUS
  <2> USE DEF TypeOK, IndexInv
  <2>1. ASSUME NEW c \in Channels, Register(c) PROVE TypeOK' /\ IndexInv'
    BY <2>1, RegisterConsistent DEF Register
  <2>2. ASSUME NEW c \in Channels, Update(c) PROVE TypeOK' /\ IndexInv'
    <3>1. PICK ev \in SUBSET Events : poller' = SetEvents(poller, c, ev)
      BY <2>2
      DEF Update, EnableReading, EnableWriting, DisableWriting, DisableAll,
          WellTyped, Events
    <3> QED
      BY <2>2, <3>1, ChangeConsistent DEF Update
  <2>3. ASSUME NEW c \in Channels, Remove(c) PROVE TypeOK' /\ IndexInv'
    BY <2>3, RemoveConsistent DEF Remove
  <2>4. CASE UNCHANGED poller
    BY <2>4
  <2> QED
    BY <2>1, <2>2, <2>3, <2>4 DEF Next, Poll, vars
<1> QED
  BY <1>1, <1>2, PTL DEF Spec

(* A pollfd that poll(2) looks at leads to one registered channel, whose   *)
(* cached index is the position of the pollfd and which wants some event.  *)
LEMMA PollableIsRegistered ==
    ASSUME NEW p, WellTyped(p), Consistent(p), NEW i \in Pollable(p)
    PROVE  /\ p.fds[i].fd \in DOMAIN p.channels
           /\ p.channels[p.fds[i].fd] \in Registered(p)
           /\ FdOf[p.channels[p.fds[i].fd]] = p.fds[i].fd
           /\ p.index[p.channels[p.fds[i].fd]] = i - 1
           /\ PollFdOf(p, p.channels[p.fds[i].fd]) = p.fds[i]
           /\ p.events[p.channels[p.fds[i].fd]] # {}
<1>0. FdOf \in [Channels -> Nat] /\ Len(p.fds) \in Nat
  BY FdAssumption, LenProperties DEF WellTyped
<1>1. i \in 1..Len(p.fds) /\ p.fds[i].fd >= 0
  BY DEF Pollable
<1>2. PICK c \in Registered(p) : p.index[c] = i - 1
  BY <1>1 DEF Consistent
<1>3. p.index[c] + 1 = i /\ FdOf[c] \in Nat
  BY <1>0, <1>1, <1>2 DEF Registered
<1>4. PollFdOf(p, c) = p.fds[i]
  BY <1>3 DEF PollFdOf
<1>5. p.fds[i].fd = FdOf[c]
  BY <1>1, <1>3, <1>4 DEF Consistent, Ignored
<1>6. p.channels[p.fds[i].fd] = c /\ p.fds[i].fd \in DOMAIN p.channels
  BY <1>5 DEF Registered
<1>7. p.events[c] # {}
  BY <1>3, <1>4, <1>5 DEF Consistent, Ignored
<1> QED
  BY <1>2, <1>4, <1>5, <1>6, <1>7

(* In a consistent state no assertion fails for a registered channel.      *)
LEMMA ConsistentAsserts ==
    ASSUME NEW p, WellTyped(p), Consistent(p), NEW c \in Registered(p)
    PROVE  /\ UpdateAsserts(p, c)
           /\ p.events[c] = {} => RemoveAsserts(p, c)
<1> DEFINE n == Len(p.fds)
<1>0. FdOf \in [Channels -> Nat] /\ n \in Nat
  BY FdAssumption, LenProperties DEF WellTyped
<1>1. UpdateAsserts(p, c)
  BY <1>0 DEF UpdateAsserts, WellTyped, Consistent, PollFdOf
<1>2. ASSUME p.events[c] = {} PROVE RemoveAsserts(p, c)
  <2>1. p.index[c] \in 0..n - 1
    BY DEF Consistent
  <2>2. PollFdOf(p, c) \in PollFds
    BY <1>0, <2>1, ElementOfSeq DEF WellTyped, PollFdOf
  <2>3. PollFdOf(p, c).fd = Ignored(FdOf[c]) /\ PollFdOf(p, c).events = {}
    BY <1>2 DEF Consistent
  <2>4. PollFdOf(p, c) = [fd |-> Ignored(FdOf[c]), events |-> {}]
    BY <2>2, <2>3 DEF PollFds
  <2>5. PICK d \in Registered(p) : p.index[d] = n - 1
    BY <1>0, <2>1 DEF Consistent
  <2>6. p.index[d] + 1 = n
    BY <1>0, <2>5
  <2>7. p.fds[n].fd \in {FdOf[d], -FdOf[d] - 1} /\ FdOf[d] \in Nat
    BY <1>0, <2>6 DEF Consistent, PollFdOf, Ignored, Registered
  <2>8. LastFd(p) = FdOf[d]
    BY <2>7 DEF LastFd
  <2>9. LastFd(p) \in DOMAIN p.channels
    BY <2>8 DEF Registered
  <2> QED
    BY <1>2, <2>1, <2>4, <2>9 DEF RemoveAsserts, PollFdOf
<1> QED
  BY <1>1, <1>2

(* No assertion of updateChannel(), removeChannel() or                     *)
(* fillActiveChannels() can fail, and the lookup of the moved channel in   *)
(* removeChannel() finds one, as long as owners use a channel between its  *)
(* registration and its removal.                                           *)
THEOREM PollerAssertsHold == Spec => []NoAssertFails
<1>1. TypeOK /\ IndexInv => NoAssertFails
  BY ConsistentAsserts, PollableIsRegistered
  DEF TypeOK, IndexInv, NoAssertFails, FillAsserts
<1> QED
  BY <1>1, PollerInvariant, PTL

(* What fillActiveChannels() hands to the loop are registered channels     *)
(* that want events, none of them twice: no channel is dispatched for a    *)
(* pollfd of another one, and none whose owner disabled everything.        *)
THEOREM PollReportsEachOnce == Spec => ReportsEachOnce
<1>1. ASSUME TypeOK, IndexInv, NEW ready \in SUBSET Pollable(poller), Poll(ready)
      PROVE  /\ IsInjective(activeChannels')
             /\ \A k \in DOMAIN activeChannels' :
                   /\ activeChannels'[k] \in Registered(poller)
                   /\ poller.events[activeChannels'[k]] # {}
  <2>1. PICK hit \in InOrder(ready) :
           activeChannels' = FillActiveChannels(poller, hit)
    BY <1>1 DEF Poll
  <2> DEFINE n == Cardinality(ready)
  <2>2. /\ DOMAIN activeChannels' = 1..n
        /\ \A k \in 1..n : /\ hit[k] \in Pollable(poller)
                           /\ activeChannels'[k] = poller.channels[poller.fds[hit[k]].fd]
    BY <2>1 DEF InOrder, FillActiveChannels
  <2>3. \A k \in 1..n : /\ activeChannels'[k] \in Registered(poller)
                        /\ poller.index[activeChannels'[k]] = hit[k] - 1
                        /\ poller.events[activeChannels'[k]] # {}
    BY <1>1, <2>2, PollableIsRegistered DEF TypeOK, IndexInv
  <2>4. ASSUME NEW j \in 1..n, NEW k \in 1..n, j # k PROVE hit[j] # hit[k]
    <3>1. \A a, b \in 1..n : a < b => hit[a] < hit[b]
      BY <2>1 DEF InOrder
    <3>2. hit[j] \in Int /\ hit[k] \in Int
      BY <2>2 DEF Pollable
    <3>3. j \in Int /\ k \in Int
      OBVIOUS
    <3>4. j < k \/ k < j
      BY <2>4, <3>3
    <3> QED
      BY <3>1, <3>2, <3>4
  <2>5. \A k \in 1..n : hit[k] \in Int
    BY <2>2 DEF Pollable
  <2>6. \A j, k \in 1..n : activeChannels'[j] = activeChannels'[k] => j = k
    <3> TAKE j, k \in 1..n
    <3> HAVE activeChannels'[j] = activeChannels'[k]
    <3>1. hit[j] - 1 = hit[k] - 1
      BY <2>3
    <3>2. hit[j] = hit[k]
      BY <2>5, <3>1
    <3> QED
      BY <2>4, <3>2
  <2> QED
    BY <2>2, <2>3, <2>6 DEF IsInjective
<1>2. TypeOK /\ IndexInv =>
        [(\E ready \in SUBSET Pollable(poller) : Poll(ready)) =>
            /\ IsInjective(activeChannels')
            /\ \A k \in DOMAIN activeChannels' :
                  /\ activeChannels'[k] \in Registered(poller)
                  /\ poller.events[activeChannels'[k]] # {}]_vars
  BY <1>1
<1> QED
  BY <1>2, PollerInvariant, PTL DEF ReportsEachOnce

(* No registration, update or removal takes another channel out of the map *)
(* or changes its pollfd, wherever a removal moved it to.                  *)
THEOREM OthersStayUntouched == Spec => OthersUntouched
<1> DEFINE Frame(c) == \A d \in Registered(poller) \ {c} :
                          /\ d \in Registered(poller')
                          /\ PollFdOf(poller', d) = PollFdOf(poller, d)
<1>1. ASSUME TypeOK, IndexInv, NEW c \in Channels, Register(c) \/ Update(c) \/ Remove(c)
      PROVE  Frame(c)
  <2> USE DEF TypeOK, IndexInv
  <2>1. WellTyped(poller) /\ Consistent(poller)
    BY <1>1
  <2>2. CASE Register(c)
    BY <2>1, <2>2, RegisterConsistent DEF Register
  <2>3. CASE Update(c)
    <3>1. PICK ev \in SUBSET Events : poller' = SetEvents(poller, c, ev)
      BY <2>1, <2>3
      DEF Update, EnableReading, EnableWriting, DisableWriting, DisableAll,
          WellTyped, Events
    <3>2. /\ Registered(SetEvents(poller, c, ev)) = Registered(poller)
          /\ \A d \in Registered(poller) \ {c} :
                PollFdOf(SetEvents(poller, c, ev), d) = PollFdOf(poller, d)
      <4>1. c \in Registered(poller)
        BY <2>3 DEF Update
      <4> QED
        BY <2>1, <4>1, ChangeConsistent
    <3> QED
      BY <3>1, <3>2
  <2>4. CASE Remove(c)
    BY <2>1, <2>4, RemoveConsistent DEF Remove
  <2> QED
    BY <1>1, <2>2, <2>3, <2>4
<1>2. TypeOK /\ IndexInv =>
        [\A c \in Channels : Register(c) \/ Update(c) \/ Remove(c) => Frame(c)]_vars
  BY <1>1
<1>3. Spec => [][\A c \in Channels : Register(c) \/ Update(c) \/ Remove(c) => Frame(c)]_vars
  BY <1>2, PollerInvariant, PTL DEF Spec
<1> QED
  BY <1>3 DEF OthersUntouched
=============================================================================
