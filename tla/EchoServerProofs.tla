-------------------------- MODULE EchoServerProofs --------------------------
(***************************************************************************)
(* Proofs about EchoServer, for any number of clients, workers, addresses  *)
(* and failures: the children of the forking server are all reaped, no     *)
(* line comes back that was not sent, and the descriptor of a connection   *)
(* is open exactly as long as somebody serves it or is about to.           *)
(***************************************************************************)
EXTENDS EchoServer, SequenceTheorems, FiniteSetTheorems, TLAPS

Stages == {"none", "backlog", "accepted", "buffered", "pool", "served", "done"}

(* The types of all but the counters, and what main() can be at. *)
Shapes ==
    /\ kind \in Kinds
    /\ peer \in [Clients -> {"open", "closed", "reset", "gone"}]
    /\ stage \in [Clients -> Stages]
    /\ main \in {"open", "accept", "fork", "close", "insert", "echo",
                 "select", "handle", "dead"}
    /\ addrs \in 0..MaxAddrs
    /\ connfd \in Clients \cup {None}
    /\ holders \in [Clients -> SUBSET {"parent", "child"}]
    /\ buf \in Seq(Clients \cup {None}) /\ Len(buf) <= Capacity
    /\ ready \subseteq Clients
    /\ zombies \subseteq Clients
    /\ sigchld \in BOOLEAN /\ handler \in BOOLEAN
    /\ spinning \in Nat /\ failures \in 0..MaxFailures

MainOfKind ==
    /\ main = "accept" => kind # "select"
    /\ main \in {"fork", "close"} => kind = "fork"
    /\ main = "insert" => kind = "threads"
    /\ main = "echo" => kind = "iterative"
    /\ main \in {"select", "handle"} => kind = "select"
    /\ kind # "threads" => buf = <<>>

(* What was echoed was read before, and what was read was sent. *)
Counting ==
    /\ sent \in [Clients -> Nat] /\ got \in [Clients -> Nat]
    /\ echoed \in [Clients -> Nat]
    /\ \A c \in Clients : /\ sent[c] <= 2 * Lines[c]
                          /\ got[c] <= sent[c]
                          /\ 2 * echoed[c] <= got[c]

(* A descriptor -1 that main() is going to hand to a child or a worker. *)
Pending == IF main \in {"fork", "insert"} /\ connfd = None THEN 1 ELSE 0

Refused(s) == {i \in 1..Len(s) : s[i] = None}

(* An echo() that never ends had a failed accept() of its own. *)
Spins ==
    /\ spinning + Pending + Cardinality(Refused(buf)) <= failures
    /\ main = "echo" /\ connfd = None => failures >= 1

Waited == zombies # {} => sigchld \/ handler

(* The copy of the descriptor that the parent is about to close. *)
ParentCopy(c) == IF main = "close" /\ connfd = c THEN {"parent"} ELSE {}

(* Who has the descriptor of c open. *)
Owned(c) ==
    /\ stage[c] \in {"none", "backlog"} => holders[c] = {}
    /\ stage[c] \in {"accepted", "buffered", "pool"} => holders[c] = {"parent"}
    /\ stage[c] = "served" =>
          holders[c] = (IF kind = "fork" THEN {"child"} ELSE {"parent"})
                          \cup ParentCopy(c)
    /\ stage[c] = "done" => holders[c] = ParentCopy(c)

(* Where a connection is when main() or the select() loop hands it on. *)
Placed(c) ==
    /\ main \in {"fork", "insert"} /\ connfd = c => stage[c] = "accepted"
    /\ main = "close" /\ connfd = c => stage[c] \in {"accepted", "served", "done"}
    /\ c \in ready => stage[c] = "pool"

(* The SharedBuf holds each buffered connection once. *)
Queued ==
    /\ \A i \in 1..Len(buf) : buf[i] # None => stage[buf[i]] = "buffered"
    /\ \A i, j \in 1..Len(buf) : buf[i] = buf[j] /\ buf[i] # None => i = j

Connections == Queued /\ \A c \in Clients : Owned(c) /\ Placed(c)

(* The inductive invariant. *)
IInv == Shapes /\ MainOfKind /\ Counting /\ Spins /\ Waited /\ Connections

-----------------------------------------------------------------------------
(* Every step keeps the types, and main() where its kind of server has it. *)
LEMMA ShapesStep ==
    ASSUME Shapes, MainOfKind, Next
    PROVE  Shapes' /\ MainOfKind'
<1> USE DEF Shapes, MainOfKind, clientVars, connVars, mainVars, procVars
<1>0. /\ kind \in AllKinds /\ Capacity \in Nat /\ MaxFailures \in Nat /\ MaxAddrs \in Nat
      /\ kind' = kind
  <2>1. kind' = kind
    BY DEF Next, MainStep, OpenListenFd, Accept, EchoItself, Fork, ParentCloses,
           Insert, Select, HandleReady, DeliverSigchld, Reap, Remove, Connect,
           Arrive, Leave, Serve, Refill, EchoLine, EndOfFile, Sigpipe, ReadError
  <2> QED
    BY <2>1, EchoAssumption
<1>1. CASE OpenListenFd
  BY <1>0, <1>1 DEF OpenListenFd, LoopStart
<1>2. CASE Accept
  <2>1. kind # "select" /\ main = "accept"
    BY <1>2 DEF Accept, At
  <2>2. PICK where : /\ where = CASE kind = "fork" -> "fork"
                                  [] kind = "threads" -> "insert"
                                  [] kind = "iterative" -> "echo"
                     /\ Accepted(where)
    BY <1>2 DEF Accept
  <2>3. \/ kind = "fork" /\ where = "fork"
        \/ kind = "threads" /\ where = "insert"
        \/ kind = "iterative" /\ where = "echo"
    BY <1>0, <2>1, <2>2 DEF AllKinds
  <2>4. main' = where
    BY <2>2 DEF Accepted
  <2>5. UNCHANGED <<peer, addrs, buf, ready, zombies, sigchld, handler, spinning>>
    BY <1>2 DEF Accept
  <2>6. /\ stage' \in [Clients -> Stages] /\ connfd' \in Clients \cup {None}
        /\ holders' \in [Clients -> SUBSET {"parent", "child"}]
        /\ failures' \in 0..MaxFailures
    BY <1>0, <2>2 DEF Accepted, Stages
  <2> QED
    BY <1>0, <2>3, <2>4, <2>5, <2>6
<1>3. CASE EchoItself
  BY <1>0, <1>3 DEF EchoItself, Stages
<1>4. CASE Fork
  <2>1. kind = "fork" /\ main' = "close"
    BY <1>4 DEF Fork, At
  <2>2. stage' \in [Clients -> Stages]
    BY <1>4 DEF Fork, Stages
  <2>3. holders' \in [Clients -> SUBSET {"parent", "child"}]
    BY <1>4 DEF Fork
  <2>4. spinning' \in Nat /\ failures' \in 0..MaxFailures
    BY <1>0, <1>4 DEF Fork
  <2> QED
    BY <1>0, <1>4, <2>1, <2>2, <2>3, <2>4 DEF Fork
<1>5. CASE ParentCloses
  <2>1. kind = "fork" /\ main' = "accept"
    BY <1>5 DEF ParentCloses, At
  <2>2. stage' \in [Clients -> Stages]
    BY <1>5 DEF ParentCloses, Stages
  <2>3. holders' \in [Clients -> SUBSET {"parent", "child"}]
    BY <1>5 DEF ParentCloses
  <2> QED
    BY <1>0, <1>5, <2>1, <2>2, <2>3 DEF ParentCloses
<1>6. CASE Insert
  <2>1. kind = "threads" /\ main' = "accept" /\ Len(buf) < Capacity
    BY <1>6 DEF Insert, At
  <2>2. stage' \in [Clients -> Stages]
    BY <1>6 DEF Insert, Stages
  <2>3. buf' \in Seq(Clients \cup {None}) /\ Len(buf') = Len(buf) + 1
    BY <1>6, AppendProperties DEF Insert
  <2>4. Len(buf') <= Capacity
    BY <1>0, <2>1, <2>3, LenProperties
  <2> QED
    BY <1>0, <1>6, <2>1, <2>2, <2>3, <2>4 DEF Insert
<1>7. CASE Select
  <2>1. kind = "select" /\ main' \in {"handle", "dead"}
    BY <1>7 DEF Select
  <2>2. /\ stage' \in [Clients -> Stages]
        /\ holders' \in [Clients -> SUBSET {"parent", "child"}]
        /\ failures' \in 0..MaxFailures /\ ready' \subseteq Clients
    BY <1>0, <1>7 DEF Select, Stages
  <2> QED
    BY <1>0, <1>7, <2>1, <2>2 DEF Select
<1>8. CASE HandleReady
  BY <1>0, <1>8 DEF HandleReady, Stages
<1>9. CASE DeliverSigchld
  BY <1>0, <1>9 DEF DeliverSigchld
<1>10. CASE Reap
  BY <1>0, <1>10 DEF Reap
<1>11. CASE Remove
  <2>1. kind = "threads" /\ UNCHANGED main
    BY <1>11 DEF Remove
  <2>2. buf # <<>> /\ buf' = Tail(buf)
    BY <1>11 DEF Remove
  <2>3. /\ buf' \in Seq(Clients \cup {None}) /\ Len(buf') = Len(buf) - 1
        /\ Head(buf) \in Clients \cup {None}
    BY <2>2, HeadTailProperties
  <2>4. Len(buf') <= Capacity
    BY <1>0, <2>3, LenProperties
  <2>5. stage' \in [Clients -> Stages] /\ spinning' \in Nat
    BY <1>11, <2>3 DEF Remove, Stages
  <2> QED
    BY <1>0, <1>11, <2>1, <2>3, <2>4, <2>5 DEF Remove
<1>12. ASSUME NEW c \in Clients, Connect(c) PROVE Shapes' /\ MainOfKind'
  BY <1>0, <1>12 DEF Connect, Stages
<1>13. ASSUME NEW c \in Clients, Arrive(c) PROVE Shapes' /\ MainOfKind'
  BY <1>0, <1>13 DEF Arrive
<1>14. ASSUME NEW c \in Clients, Leave(c) PROVE Shapes' /\ MainOfKind'
  BY <1>0, <1>14 DEF Leave
<1>15. ASSUME NEW c \in Clients, Refill(c) PROVE Shapes' /\ MainOfKind'
  BY <1>0, <1>15 DEF Refill
<1>16. ASSUME NEW c \in Clients, EchoLine(c) PROVE Shapes' /\ MainOfKind'
  BY <1>0, <1>16 DEF EchoLine, Stages
<1>17. ASSUME NEW c \in Clients, EndOfFile(c) PROVE Shapes' /\ MainOfKind'
  BY <1>0, <1>17 DEF EndOfFile, Release, Stages
<1>18. ASSUME NEW c \in Clients, Sigpipe(c) PROVE Shapes' /\ MainOfKind'
  <2>1. CASE kind = "fork"
    BY <1>0, <1>18, <2>1 DEF Sigpipe, Release, Stages
  <2>2. CASE kind # "fork"
    BY <1>0, <1>18, <2>2 DEF Sigpipe
  <2> QED
    BY <2>1, <2>2
<1>19. ASSUME NEW c \in Clients, ReadError(c) PROVE Shapes' /\ MainOfKind'
  BY <1>0, <1>19 DEF ReadError, Stages
<1> QED
  BY <1>1, <1>2, <1>3, <1>4, <1>5, <1>6, <1>7, <1>8, <1>9, <1>10, <1>11, <1>12,
     <1>13, <1>14, <1>15, <1>16, <1>17, <1>18, <1>19
  DEF Next, MainStep, Serve

(* What is read was sent, and what is echoed was read. *)
LEMMA CountingStep ==
    ASSUME Counting, Next
    PROVE  Counting'
<1> USE DEF clientVars, connVars
<1>0. Lines \in [Clients -> Nat]
  BY EchoAssumption
<1>1. CASE UNCHANGED <<sent, got, echoed>>
  BY <1>1 DEF Counting
<1>2. ASSUME NEW c \in Clients, Arrive(c) PROVE Counting'
  <2>1. /\ UNCHANGED <<got, echoed>> /\ sent' = [sent EXCEPT ![c] = @ + 1]
        /\ sent[c] < 2 * Lines[c]
    BY <1>2 DEF Arrive
  <2> QED
    BY <1>0, <2>1 DEF Counting
<1>3. ASSUME NEW c \in Clients, Refill(c) PROVE Counting'
  <2>1. PICK n \in got[c] + 1..sent[c] :
           got' = [got EXCEPT ![c] = n] /\ UNCHANGED <<sent, echoed>>
    BY <1>3 DEF Refill
  <2>2. n \in Nat /\ got[c] <= n /\ n <= sent[c]
    BY <2>1 DEF Counting
  <2> QED
    BY <1>0, <2>1, <2>2 DEF Counting
<1>4. ASSUME NEW c \in Clients, EchoLine(c) PROVE Counting'
  <2>1. /\ echoed' = [echoed EXCEPT ![c] = @ + 1] /\ UNCHANGED <<sent, got>>
        /\ got[c] >= 2 * (echoed[c] + 1)
    BY <1>4 DEF EchoLine, LineThere
  <2> QED
    BY <1>0, <2>1 DEF Counting
<1>5. ASSUME NEW c \in Clients, ReadError(c) PROVE Counting'
  <2>1. sent' = [sent EXCEPT ![c] = got[c]] /\ UNCHANGED <<got, echoed>>
    BY <1>5 DEF ReadError
  <2> QED
    BY <1>0, <2>1 DEF Counting
<1> QED
  BY <1>1, <1>2, <1>3, <1>4, <1>5
  DEF Next, MainStep, OpenListenFd, Accept, EchoItself, Fork, ParentCloses,
      Insert, Select, HandleReady, DeliverSigchld, Reap, Remove, Connect,
      Leave, Serve, EndOfFile, Sigpipe

(* Every exit of a child leaves a SIGCHLD that is pending, and the handler *)
(* that consumed it goes on until no child is left.                        *)
LEMMA WaitedStep ==
    ASSUME Waited, Next
    PROVE  Waited'
<1> USE DEF Waited, procVars
<1>1. CASE UNCHANGED <<zombies, sigchld, handler>>
  BY <1>1
<1>2. CASE DeliverSigchld
  BY <1>2 DEF DeliverSigchld
<1>3. CASE Reap
  BY <1>3 DEF Reap
<1>4. ASSUME NEW c \in Clients, EndOfFile(c) PROVE Waited'
  BY <1>4 DEF EndOfFile, Release
<1>5. ASSUME NEW c \in Clients, Sigpipe(c) PROVE Waited'
  BY <1>5 DEF Sigpipe, Release
<1> QED
  BY <1>1, <1>2, <1>3, <1>4, <1>5
  DEF Next, MainStep, OpenListenFd, Accept, EchoItself, Fork, ParentCloses,
      Insert, Select, HandleReady, Remove, Connect, Arrive, Leave, Serve,
      Refill, EchoLine, ReadError

-----------------------------------------------------------------------------
(* The descriptors -1 in a queue are finitely many. *)
LEMMA RefusedFinite ==
    ASSUME NEW s \in Seq(Clients \cup {None})
    PROVE  IsFiniteSet(Refused(s)) /\ Cardinality(Refused(s)) \in Nat
<1>1. Len(s) \in Nat
  OBVIOUS
<1>2. IsFiniteSet(1..Len(s)) /\ Refused(s) \in SUBSET (1..Len(s))
  BY <1>1, FS_Interval DEF Refused
<1> QED
  BY <1>2, FS_Subset, FS_CardinalityType

(* One more may come in. *)
LEMMA RefusedAppend ==
    ASSUME NEW s \in Seq(Clients \cup {None}), NEW e \in Clients \cup {None}
    PROVE  Cardinality(Refused(Append(s, e)))
              = Cardinality(Refused(s)) + (IF e = None THEN 1 ELSE 0)
<1>1. Len(s) \in Nat
  OBVIOUS
<1>2. PICK t : t = Append(s, e)
  OBVIOUS
<1>3. /\ Len(t) = Len(s) + 1 /\ t[Len(s) + 1] = e
      /\ \A i \in 1..Len(s) : t[i] = s[i]
  BY <1>2, AppendProperties
<1>4. 1..Len(t) = (1..Len(s)) \cup {Len(s) + 1}
  BY <1>1, <1>3
<1>5. Len(s) + 1 \notin Refused(s)
  BY <1>1 DEF Refused
<1>6. Cardinality(Refused(s)) \in Nat
  BY RefusedFinite
<1>7. CASE e = None
  <2>1. Refused(t) = Refused(s) \cup {Len(s) + 1}
    BY <1>3, <1>4, <1>7 DEF Refused
  <2>2. Cardinality(Refused(t)) = Cardinality(Refused(s)) + 1
    BY <1>5, <2>1, RefusedFinite, FS_AddElement
  <2> QED
    BY <1>2, <1>7, <2>2
<1>8. CASE e # None
  <2>1. Refused(t) = Refused(s)
    BY <1>3, <1>4, <1>8 DEF Refused
  <2> QED
    BY <1>2, <1>6, <1>8, <2>1
<1> QED
  BY <1>7, <1>8

(* The one at the head goes. *)
LEMMA RefusedTail ==
    ASSUME NEW s \in Seq(Clients \cup {None}), s # <<>>
    PROVE  Cardinality(Refused(Tail(s))) + (IF Head(s) = None THEN 1 ELSE 0)
              <= Cardinality(Refused(s))
<1>1. PICK t : t = Tail(s)
  OBVIOUS
<1>2. /\ t \in Seq(Clients \cup {None}) /\ Len(t) = Len(s) - 1 /\ Head(s) = s[1]
      /\ \A i \in 1..Len(t) : t[i] = s[i + 1]
  BY <1>1, HeadTailProperties
<1>3. Len(s) \in Nat /\ Len(t) \in Nat /\ 1 \in 1..Len(s)
  BY <1>2, LenProperties, EmptySeq
<1> DEFINE f == [i \in Refused(t) |-> i + 1]
           R == Refused(s) \ {1}
<1>4. \A i \in Refused(t) : i \in Nat /\ i + 1 \in R
  <2>1. ASSUME NEW i \in Refused(t) PROVE i \in Nat /\ i + 1 \in R
    <3>1. i \in 1..Len(t) /\ t[i] = None
      BY DEF Refused
    <3>2. i \in Nat /\ i + 1 \in 1..Len(s) /\ i + 1 # 1
      BY <1>2, <1>3, <3>1
    <3> QED
      BY <1>2, <3>1, <3>2 DEF Refused
  <2> QED
    BY <2>1
<1>5. f \in [Refused(t) -> R] /\ \A i, j \in Refused(t) : f[i] = f[j] => i = j
  BY <1>4
<1>6. f \in Injection(Refused(t), R)
  BY <1>5 DEF Injection, IsInjective
<1>7. IsFiniteSet(R) /\ Cardinality(R) = IF 1 \in Refused(s) THEN Cardinality(Refused(s)) - 1
                                                            ELSE Cardinality(Refused(s))
  BY RefusedFinite, FS_RemoveElement
<1>8. Cardinality(Refused(t)) <= Cardinality(R)
  BY <1>6, <1>7, FS_Injection
<1>9. 1 \in Refused(s) <=> Head(s) = None
  BY <1>2, <1>3 DEF Refused
<1>10. /\ Cardinality(Refused(t)) \in Nat /\ Cardinality(Refused(s)) \in Nat
       /\ Cardinality(R) \in Nat
  BY <1>2, <1>7, RefusedFinite, FS_CardinalityType
<1> HIDE DEF R, f
<1> QED
  BY <1>1, <1>7, <1>8, <1>9, <1>10

(* A step that only makes failures of accept() or fork(), or takes main()  *)
(* on with a descriptor, keeps the account.                                *)
LEMMA SpinsFrame ==
    ASSUME Shapes, Spins, spinning' = spinning, buf' = buf,
           failures' \in Nat, failures <= failures',
           Pending' \in Nat, Pending' + failures <= Pending + failures',
           main' = "echo" /\ connfd' = None =>
              (main = "echo" /\ connfd = None) \/ failures' >= 1
    PROVE  Spins'
<1>1. Cardinality(Refused(buf)) \in Nat /\ failures \in Nat /\ spinning \in Nat
  BY RefusedFinite, EchoAssumption DEF Shapes
<1>2. Pending \in Nat
  BY DEF Pending
<1>3. Cardinality(Refused(buf))' = Cardinality(Refused(buf))
  BY DEF Refused
<1>4. spinning' + Pending' + Cardinality(Refused(buf))' <= failures'
  <2>1. spinning + Pending + Cardinality(Refused(buf)) <= failures
    BY DEF Spins
  <2>2. spinning + Pending' + Cardinality(Refused(buf)) <= failures'
    <3>1. PICK p, q, k : p = Pending /\ q = Pending' /\ k = Cardinality(Refused(buf))
      OBVIOUS
    <3>2. p \in Nat /\ q \in Nat /\ k \in Nat
      BY <1>1, <1>2, <3>1
    <3>3. spinning + p + k <= failures /\ q + failures <= p + failures'
      BY <2>1, <3>1
    <3>4. \A m, f, g \in Nat : m + p + k <= f /\ q + f <= p + g => m + q + k <= g
      BY <3>2
    <3>5. spinning + q + k <= failures'
      BY <1>1, <3>3, <3>4
    <3> QED
      BY <3>1, <3>5
  <2> QED
    BY <1>3, <2>2
<1>5. main' = "echo" /\ connfd' = None => failures' >= 1
  BY <1>1 DEF Spins
<1> QED
  BY <1>4, <1>5 DEF Spins

(* Whoever spins in echo() does so for a failed accept(), and there are no *)
(* more of them than failures.                                             *)
LEMMA SpinsStep ==
    ASSUME Shapes, MainOfKind, Spins, Next
    PROVE  Spins'
<1> USE DEF clientVars, connVars, mainVars, procVars
<1>0. /\ Cardinality(Refused(buf)) \in Nat /\ failures \in Nat /\ spinning \in Nat
      /\ None \notin Clients /\ Pending \in Nat
  BY RefusedFinite, EchoAssumption DEF Shapes, Pending
<1>1. CASE UNCHANGED <<spinning, buf, failures, main, connfd>>
  <2>1. Pending' = Pending
    BY <1>1 DEF Pending
  <2>2. /\ failures' \in Nat /\ failures <= failures' /\ Pending' \in Nat
        /\ Pending' + failures <= Pending + failures'
    BY <1>0, <1>1, <2>1
  <2> QED
    BY <1>1, <2>2, SpinsFrame
<1>2. ASSUME UNCHANGED <<spinning, buf>>, failures' = failures \/ failures' = failures + 1,
             main' \notin {"fork", "insert", "echo"}
      PROVE  Spins'
  <2>1. Pending' = 0
    BY <1>2 DEF Pending
  <2>2. /\ failures' \in Nat /\ failures <= failures' /\ Pending' \in Nat
        /\ Pending' + failures <= Pending + failures'
    BY <1>0, <1>2, <2>1
  <2> QED
    BY <1>2, <2>2, SpinsFrame
<1>3. CASE OpenListenFd
  BY <1>2, <1>3 DEF OpenListenFd, LoopStart
<1>4. CASE Accept
  <2>1. UNCHANGED <<spinning, buf>> /\ main = "accept"
    BY <1>4 DEF Accept, At
  <2>2. Pending = 0
    BY <2>1 DEF Pending
  <2>3. \/ connfd' \in Clients /\ failures' = failures
        \/ connfd' = None /\ failures' = failures + 1
    BY <1>4 DEF Accept, Accepted
  <2>4. CASE connfd' \in Clients /\ failures' = failures
    <3>1. connfd' # None /\ Pending' = 0
      BY <1>0, <2>4 DEF Pending
    <3>2. /\ failures' \in Nat /\ failures <= failures' /\ Pending' \in Nat
          /\ Pending' + failures <= Pending + failures'
      BY <1>0, <2>2, <2>4, <3>1
    <3> QED
      BY <2>1, <3>1, <3>2, SpinsFrame
  <2>5. CASE connfd' = None /\ failures' = failures + 1
    <3>1. Pending' \in Nat /\ Pending' <= 1
      BY DEF Pending
    <3>2. /\ failures' \in Nat /\ failures <= failures' /\ Pending' \in Nat
          /\ Pending' + failures <= Pending + failures' /\ failures' >= 1
      <4>1. PICK q : q = Pending'
        OBVIOUS
      <4>2. q \in Nat /\ q <= 1
        BY <3>1, <4>1
      <4>3. q + failures <= 0 + (failures + 1)
        BY <1>0, <4>2
      <4>4. failures + 1 \in Nat /\ failures <= failures + 1 /\ failures + 1 >= 1
        BY <1>0
      <4> QED
        BY <2>2, <2>5, <4>1, <4>2, <4>3, <4>4
    <3> QED
      BY <2>1, <3>2, SpinsFrame
  <2> QED
    BY <2>3, <2>4, <2>5
<1>5. CASE EchoItself
  <2>1. /\ main = "echo" /\ UNCHANGED <<main, connfd, buf, failures>>
        /\ spinning' = spinning \/ (connfd = None /\ spinning' = 1)
    BY <1>5 DEF EchoItself, At
  <2>2. CASE spinning' = spinning
    BY <1>1, <2>1, <2>2
  <2>3. CASE connfd = None /\ spinning' = 1
    <3>1. failures >= 1 /\ buf = <<>>
      BY <2>1, <2>3 DEF Spins, MainOfKind
    <3>2. Refused(buf)' = {}
      BY <2>1, <3>1 DEF Refused
    <3>3. Pending' = 0
      BY <2>1 DEF Pending
    <3>4. Cardinality(Refused(buf))' = 0
      BY <3>2, FS_EmptySet
    <3>5. spinning' + Pending' + Cardinality(Refused(buf))' <= failures'
      BY <1>0, <2>1, <2>3, <3>1, <3>3, <3>4
    <3> QED
      BY <2>1, <3>1, <3>5 DEF Spins
  <2> QED
    BY <2>1, <2>2, <2>3
<1>6. CASE Fork
  <2>1. /\ main = "fork" /\ main' = "close" /\ UNCHANGED <<connfd, buf>>
        /\ \/ spinning' = spinning /\ (failures' = failures \/ failures' = failures + 1)
           \/ connfd = None /\ spinning' = spinning + 1 /\ failures' = failures
    BY <1>6 DEF Fork, At
  <2>2. CASE spinning' = spinning /\ (failures' = failures \/ failures' = failures + 1)
    BY <1>2, <2>1, <2>2
  <2>3. CASE connfd = None /\ spinning' = spinning + 1 /\ failures' = failures
    <3>1. Pending = 1 /\ Pending' = 0
      BY <2>1, <2>3 DEF Pending
    <3>2. Refused(buf)' = Refused(buf)
      BY <2>1 DEF Refused
    <3> QED
      BY <1>0, <2>1, <2>3, <3>1, <3>2 DEF Spins
  <2> QED
    BY <2>1, <2>2, <2>3
<1>7. CASE ParentCloses
  BY <1>2, <1>7 DEF ParentCloses
<1>8. CASE Insert
  <2>1. /\ main = "insert" /\ main' = "accept" /\ buf' = Append(buf, connfd)
        /\ UNCHANGED <<spinning, failures, connfd>>
    BY <1>8 DEF Insert, At
  <2>2. Pending = (IF connfd = None THEN 1 ELSE 0) /\ Pending' = 0
    BY <2>1 DEF Pending
  <2>3. Cardinality(Refused(buf'))
           = Cardinality(Refused(buf)) + (IF connfd = None THEN 1 ELSE 0)
    BY <2>1, RefusedAppend DEF Shapes
  <2>4. spinning' + Pending' + Cardinality(Refused(buf')) <= failures'
    BY <1>0, <2>1, <2>2, <2>3 DEF Spins
  <2> QED
    BY <2>1, <2>4 DEF Spins
<1>9. CASE Select
  BY <1>2, <1>9 DEF Select
<1>10. CASE HandleReady
  <2>1. main' \in {"handle", "select"} /\ UNCHANGED <<spinning, buf, failures>>
    BY <1>10 DEF HandleReady
  <2> QED
    BY <1>2, <2>1
<1>11. CASE Remove
  <2>1. /\ buf # <<>> /\ buf' = Tail(buf) /\ UNCHANGED <<main, connfd, failures>>
        /\ \/ Head(buf) # None /\ spinning' = spinning
           \/ Head(buf) = None /\ spinning' = spinning + 1
    BY <1>11 DEF Remove
  <2>2. Cardinality(Refused(buf')) + (IF Head(buf) = None THEN 1 ELSE 0)
           <= Cardinality(Refused(buf))
    BY <2>1, RefusedTail DEF Shapes
  <2>3. Cardinality(Refused(buf')) \in Nat
    BY <2>1, RefusedFinite, HeadTailProperties DEF Shapes
  <2>4. Pending' = Pending
    BY <2>1 DEF Pending
  <2>5. spinning' + Pending' + Cardinality(Refused(buf')) <= failures'
    BY <1>0, <2>1, <2>2, <2>3, <2>4 DEF Spins
  <2> QED
    BY <2>1, <2>5 DEF Spins
<1>12. ASSUME NEW c \in Clients, EndOfFile(c) PROVE Spins'
  <2>1. UNCHANGED <<spinning, buf, failures, connfd>> /\ (main' = main \/ main' = "accept")
    BY <1>12 DEF EndOfFile, Release
  <2> QED
    BY <1>1, <1>2, <2>1
<1>13. ASSUME NEW c \in Clients, Sigpipe(c) PROVE Spins'
  <2>1. /\ UNCHANGED <<spinning, buf, failures, connfd>>
        /\ main' = main \/ main' = "accept" \/ main' = "dead"
    BY <1>13 DEF Sigpipe, Release
  <2> QED
    BY <1>1, <1>2, <2>1
<1> QED
  BY <1>1, <1>3, <1>4, <1>5, <1>6, <1>7, <1>8, <1>9, <1>10, <1>11, <1>12, <1>13
  DEF Next, MainStep, DeliverSigchld, Reap, Connect, Arrive, Leave, Serve,
      Refill, EchoLine, ReadError

-----------------------------------------------------------------------------
(* A connection stays in the SharedBuf until a worker takes it. *)
LEMMA QueuedFrame ==
    ASSUME Shapes, Queued, buf' = buf,
           \A c \in Clients : stage[c] = "buffered" => stage'[c] = "buffered"
    PROVE  Queued'
<1>1. \A i \in 1..Len(buf) : buf[i] \in Clients \cup {None}
  BY ElementOfSeq DEF Shapes
<1> QED
  BY <1>1 DEF Queued

(* Only main() and those who serve a connection move it. *)
LEMMA ConnectionsFrame ==
    ASSUME Connections, UNCHANGED <<kind, stage, holders, main, connfd, buf, ready>>
    PROVE  Connections'
BY DEF Connections, Queued, Owned, Placed, ParentCopy

(* A connection that is served ends with the descriptor of who serves it   *)
(* closed.                                                                 *)
LEMMA ReleaseStep ==
    ASSUME Shapes, MainOfKind, Connections, NEW c \in Clients, stage[c] = "served",
           Release(c), UNCHANGED <<kind, connfd, buf, ready>>
    PROVE  Connections'
<1>1. stage' = [stage EXCEPT ![c] = "done"]
  BY DEF Release
<1>2. Queued'
  BY <1>1, QueuedFrame DEF Shapes, Connections
<1>3. ASSUME NEW d \in Clients PROVE Owned(d)' /\ Placed(d)'
  <2>1. Owned(d) /\ Placed(d) /\ Owned(c) /\ Placed(c)
    BY DEF Connections
  <2>2. CASE kind = "fork"
    <3>1. main' = main /\ holders' = [holders EXCEPT ![c] = @ \ {"child"}]
      BY <2>2 DEF Release
    <3> QED
      BY <1>1, <2>1, <2>2, <3>1 DEF Owned, Placed, ParentCopy, Shapes
  <2>3. CASE kind # "fork"
    <3>1. /\ holders' = [holders EXCEPT ![c] = {}]
          /\ main' = main \/ main' = "accept"
      BY <2>3 DEF Release
    <3>2. main # "close" /\ main' # "close"
      BY <2>3, <3>1 DEF MainOfKind
    <3> QED
      BY <1>1, <2>1, <2>3, <3>1, <3>2 DEF Owned, Placed, ParentCopy, Shapes
  <2> QED
    BY <2>2, <2>3
<1> QED
  BY <1>2, <1>3 DEF Connections

(* Whoever gets a connection has its descriptor open, and nobody keeps it  *)
(* beyond that.                                                            *)
LEMMA ConnectionsStep ==
    ASSUME Shapes, MainOfKind, Connections, Next
    PROVE  Connections'
<1> USE DEF clientVars, connVars, mainVars, procVars
<1>0. /\ stage \in [Clients -> Stages] /\ connfd \in Clients \cup {None}
      /\ holders \in [Clients -> SUBSET {"parent", "child"}]
      /\ buf \in Seq(Clients \cup {None}) /\ ready \subseteq Clients
      /\ None \notin Clients /\ Queued
      /\ \A c \in Clients : Owned(c) /\ Placed(c)
  BY EchoAssumption DEF Shapes, Connections
<1>1. CASE UNCHANGED <<kind, stage, holders, main, connfd, buf, ready>>
  BY <1>1, ConnectionsFrame
<1>2. CASE OpenListenFd
  <2>1. /\ UNCHANGED <<kind, stage, holders, connfd, buf, ready>>
        /\ main = "open" /\ main' \in {"open", "accept", "select", "dead"}
    BY <1>2 DEF OpenListenFd, LoopStart
  <2>2. Queued'
    BY <1>0, <2>1, QueuedFrame
  <2> QED
    BY <1>0, <2>1, <2>2 DEF Connections, Owned, Placed, ParentCopy
<1>3. CASE Accept
  <2>1. UNCHANGED <<kind, buf, ready>> /\ main = "accept" /\ kind # "select"
    BY <1>3 DEF Accept, At, MainOfKind
  <2>2. main' # "close"
    <3>1. PICK where : /\ where = CASE kind = "fork" -> "fork"
                                    [] kind = "threads" -> "insert"
                                    [] kind = "iterative" -> "echo"
                       /\ Accepted(where)
      BY <1>3 DEF Accept
    <3>2. where # "close" /\ main' = where
      BY <2>1, <3>1, EchoAssumption DEF Accepted, AllKinds, Shapes
    <3> QED
      BY <3>2
  <2>3. CASE connfd' = None /\ UNCHANGED <<stage, holders>>
    <3>1. Queued'
      BY <1>0, <2>1, <2>3, QueuedFrame
    <3> QED
      BY <1>0, <2>1, <2>2, <2>3, <3>1 DEF Connections, Owned, Placed, ParentCopy
  <2>4. ASSUME NEW c \in Clients, stage[c] = "backlog",
               stage' = [stage EXCEPT ![c] = "accepted"],
               holders' = [holders EXCEPT ![c] = {"parent"}], connfd' = c
        PROVE  Connections'
    <3>1. Queued'
      BY <1>0, <2>1, <2>4, QueuedFrame
    <3> QED
      BY <1>0, <2>1, <2>2, <2>4, <3>1 DEF Connections, Owned, Placed, ParentCopy
  <2> QED
    BY <1>3, <2>3, <2>4 DEF Accept, Accepted
<1>4. CASE EchoItself
  <2>1. UNCHANGED <<kind, holders, main, connfd, buf, ready>> /\ main = "echo"
    BY <1>4 DEF EchoItself, At
  <2>2. CASE UNCHANGED stage
    BY <1>1, <2>1, <2>2
  <2>3. CASE /\ connfd # None /\ stage[connfd] = "accepted"
             /\ stage' = [stage EXCEPT ![connfd] = "served"]
    <3>1. Queued'
      BY <1>0, <2>1, <2>3, QueuedFrame
    <3>2. kind # "fork"
      BY <2>1 DEF MainOfKind
    <3> QED
      BY <1>0, <2>1, <2>3, <3>1, <3>2 DEF Connections, Owned, Placed, ParentCopy
  <2> QED
    BY <1>4, <2>2, <2>3 DEF EchoItself
<1>5. CASE Fork
  <2>1. /\ UNCHANGED <<kind, connfd, buf, ready>> /\ main = "fork" /\ main' = "close"
        /\ kind = "fork"
    BY <1>5 DEF Fork, At, MainOfKind
  <2>2. CASE UNCHANGED <<stage, holders>>
    <3>1. Queued'
      BY <1>0, <2>1, <2>2, QueuedFrame
    <3> QED
      BY <1>0, <2>1, <2>2, <3>1 DEF Connections, Owned, Placed, ParentCopy
  <2>3. CASE /\ connfd # None
             /\ stage' = [stage EXCEPT ![connfd] = "served"]
             /\ holders' = [holders EXCEPT ![connfd] = @ \cup {"child"}]
    <3>1. connfd \in Clients /\ stage[connfd] = "accepted"
      BY <1>0, <2>1, <2>3 DEF Placed
    <3>2. Queued'
      BY <1>0, <2>1, <2>3, <3>1, QueuedFrame
    <3>3. ASSUME NEW d \in Clients PROVE Owned(d)' /\ Placed(d)'
      <4>1. CASE d = connfd
        BY <1>0, <2>1, <2>3, <3>1, <4>1 DEF Owned, Placed, ParentCopy
      <4>2. CASE d # connfd
        BY <1>0, <2>1, <2>3, <3>1, <4>2 DEF Owned, Placed, ParentCopy
      <4> QED
        BY <4>1, <4>2
    <3> QED
      BY <3>2, <3>3 DEF Connections
  <2> QED
    BY <1>5, <2>2, <2>3 DEF Fork
<1>6. CASE ParentCloses
  <2>1. /\ UNCHANGED <<kind, connfd, buf, ready>> /\ main = "close" /\ main' = "accept"
        /\ kind = "fork"
    BY <1>6 DEF ParentCloses, At, MainOfKind
  <2>2. CASE connfd = None /\ UNCHANGED <<stage, holders>>
    <3>1. Queued'
      BY <1>0, <2>1, <2>2, QueuedFrame
    <3> QED
      BY <1>0, <2>1, <2>2, <3>1 DEF Connections, Owned, Placed, ParentCopy
  <2>3. CASE /\ connfd # None
             /\ holders' = [holders EXCEPT ![connfd] = @ \ {"parent"}]
             /\ stage' = IF stage[connfd] = "accepted"
                           THEN [stage EXCEPT ![connfd] = "done"] ELSE stage
    <3>1. connfd \in Clients /\ stage[connfd] \in {"accepted", "served", "done"}
      BY <1>0, <2>1, <2>3 DEF Placed
    <3>2. Queued'
      BY <1>0, <2>1, <2>3, <3>1, QueuedFrame
    <3>3. ASSUME NEW d \in Clients PROVE Owned(d)' /\ Placed(d)'
      <4>1. CASE d = connfd
        BY <1>0, <2>1, <2>3, <3>1, <4>1 DEF Owned, Placed, ParentCopy
      <4>2. CASE d # connfd
        BY <1>0, <2>1, <2>3, <3>1, <4>2 DEF Owned, Placed, ParentCopy
      <4> QED
        BY <4>1, <4>2
    <3> QED
      BY <3>2, <3>3 DEF Connections
  <2> QED
    BY <1>6, <2>2, <2>3 DEF ParentCloses
<1>7. CASE Insert
  <2>1. /\ UNCHANGED <<kind, holders, connfd, ready>> /\ main = "insert" /\ main' = "accept"
        /\ buf' = Append(buf, connfd)
        /\ stage' = IF connfd = None THEN stage
                                     ELSE [stage EXCEPT ![connfd] = "buffered"]
    BY <1>7 DEF Insert, At
  <2>2. connfd # None => connfd \in Clients /\ stage[connfd] = "accepted"
    BY <1>0, <2>1 DEF Placed
  <2>3. Len(buf) \in Nat
    BY <1>0
  <2>4. /\ Len(buf') = Len(buf) + 1 /\ buf'[Len(buf) + 1] = connfd
        /\ \A i \in 1..Len(buf) : buf'[i] = buf[i]
    BY <1>0, <2>1, AppendProperties
  <2>5. 1..Len(buf') = (1..Len(buf)) \cup {Len(buf) + 1}
    BY <2>3, <2>4
  <2>6. \A i \in 1..Len(buf) : buf[i] # None =>
           buf[i] \in Clients /\ stage[buf[i]] = "buffered" /\ buf[i] # connfd
    BY <1>0, <2>2, ElementOfSeq DEF Queued
  <2>7. \A c \in Clients : stage[c] = "buffered" => stage'[c] = "buffered"
    BY <1>0, <2>1, <2>2
  <2>8. connfd # None => stage'[connfd] = "buffered"
    BY <1>0, <2>1, <2>2
  <2>9. Queued'
    <3>1. \A i \in 1..Len(buf') : buf'[i] # None => stage'[buf'[i]] = "buffered"
      BY <2>4, <2>5, <2>6, <2>7, <2>8
    <3>2. \A i, j \in 1..Len(buf') : buf'[i] = buf'[j] /\ buf'[i] # None => i = j
      BY <1>0, <2>4, <2>5, <2>6 DEF Queued
    <3> QED
      BY <3>1, <3>2 DEF Queued
  <2>10. ASSUME NEW d \in Clients PROVE Owned(d)' /\ Placed(d)'
    BY <1>0, <2>1, <2>2 DEF Owned, Placed, ParentCopy
  <2> QED
    BY <2>9, <2>10 DEF Connections
<1>8. CASE Select
  <2>1. /\ UNCHANGED <<kind, connfd, buf>> /\ main = "select" /\ main' \in {"handle", "dead"}
        /\ \A c \in ready' : c \in Clients /\ stage[c] = "pool"
    BY <1>8 DEF Select, Readable
  <2>2. CASE UNCHANGED <<stage, holders>>
    <3>1. Queued'
      BY <1>0, <2>1, <2>2, QueuedFrame
    <3> QED
      BY <1>0, <2>1, <2>2, <3>1 DEF Connections, Owned, Placed, ParentCopy
  <2>3. ASSUME NEW c \in Clients, stage[c] = "backlog",
               stage' = [stage EXCEPT ![c] = "pool"],
               holders' = [holders EXCEPT ![c] = {"parent"}]
        PROVE  Connections'
    <3>1. Queued'
      BY <1>0, <2>1, <2>3, QueuedFrame
    <3> QED
      BY <1>0, <2>1, <2>3, <3>1 DEF Connections, Owned, Placed, ParentCopy
  <2> QED
    BY <1>8, <2>2, <2>3 DEF Select
<1>9. CASE HandleReady
  <2>1. /\ UNCHANGED <<kind, holders, connfd, buf>> /\ main = "handle"
        /\ kind = "select" /\ main' \in {"handle", "select"}
    BY <1>9 DEF HandleReady, MainOfKind
  <2>2. CASE UNCHANGED <<ready, stage>>
    <3>1. Queued'
      BY <1>0, <2>1, <2>2, QueuedFrame
    <3> QED
      BY <1>0, <2>1, <2>2, <3>1 DEF Connections, Owned, Placed, ParentCopy
  <2>3. ASSUME NEW c \in ready, ready' = ready \ {c},
               stage' = [stage EXCEPT ![c] = "served"]
        PROVE  Connections'
    <3>1. c \in Clients /\ stage[c] = "pool"
      BY <1>0 DEF Placed
    <3>2. Queued'
      BY <1>0, <2>1, <2>3, <3>1, QueuedFrame
    <3> QED
      BY <1>0, <2>1, <2>3, <3>1, <3>2 DEF Connections, Owned, Placed, ParentCopy
  <2> QED
    BY <1>9, <2>2, <2>3 DEF HandleReady
<1>10. CASE Remove
  <2>1. /\ UNCHANGED <<kind, holders, main, connfd, ready>> /\ kind = "threads"
        /\ buf # <<>> /\ buf' = Tail(buf)
    BY <1>10 DEF Remove
  <2>2. /\ Len(buf') = Len(buf) - 1 /\ Head(buf) = buf[1]
        /\ \A i \in 1..Len(buf') : buf'[i] = buf[i + 1]
    BY <1>0, <2>1, HeadTailProperties
  <2>3. Len(buf) \in Nat /\ 1 \in 1..Len(buf)
    BY <1>0, <2>1, LenProperties, EmptySeq
  <2>4. \A i \in 1..Len(buf') : i \in Nat /\ i + 1 \in 1..Len(buf) /\ i + 1 # 1
    BY <2>2, <2>3
  <2>5. \A i \in 1..Len(buf) : buf[i] # None =>
           buf[i] \in Clients /\ stage[buf[i]] = "buffered"
    BY <1>0, ElementOfSeq DEF Queued
  <2>6. \A i \in 1..Len(buf') : buf'[i] # None =>
           buf'[i] \in Clients /\ stage[buf'[i]] = "buffered" /\ buf'[i] # Head(buf)
    BY <1>0, <2>2, <2>3, <2>4, <2>5 DEF Queued
  <2>7. \A i, j \in 1..Len(buf') : buf'[i] = buf'[j] /\ buf'[i] # None => i = j
    <3>1. ASSUME NEW i \in 1..Len(buf'), NEW j \in 1..Len(buf'),
                 buf'[i] = buf'[j], buf'[i] # None
          PROVE  i = j
      <4>1. i + 1 = j + 1
        BY <1>0, <2>2, <2>4, <3>1 DEF Queued
      <4> QED
        BY <2>4, <4>1
    <3> QED
      BY <3>1
  <2>8. CASE UNCHANGED stage
    <3>1. Queued'
      BY <2>6, <2>7, <2>8 DEF Queued
    <3> QED
      BY <1>0, <2>1, <2>8, <3>1 DEF Connections, Owned, Placed, ParentCopy
  <2>9. CASE Head(buf) # None /\ stage' = [stage EXCEPT ![Head(buf)] = "served"]
    <3>1. Head(buf) \in Clients /\ stage[Head(buf)] = "buffered"
      BY <2>2, <2>3, <2>5, <2>9
    <3>2. Queued'
      <4>1. \A i \in 1..Len(buf') : buf'[i] # None => stage'[buf'[i]] = "buffered"
        BY <1>0, <2>6, <2>9
      <4> QED
        BY <2>7, <4>1 DEF Queued
    <3> QED
      BY <1>0, <2>1, <2>9, <3>1, <3>2 DEF Connections, Owned, Placed, ParentCopy
  <2> QED
    BY <1>10, <2>8, <2>9 DEF Remove
<1>11. ASSUME NEW c \in Clients, Connect(c) PROVE Connections'
  <2>1. /\ UNCHANGED <<kind, holders, main, connfd, buf, ready>>
        /\ stage[c] = "none" /\ stage' = [stage EXCEPT ![c] = "backlog"]
    BY <1>11 DEF Connect
  <2>2. Queued'
    BY <1>0, <2>1, QueuedFrame
  <2> QED
    BY <1>0, <2>1, <2>2 DEF Connections, Owned, Placed, ParentCopy
<1>12. ASSUME NEW c \in Clients, EchoLine(c) \/ ReadError(c) PROVE Connections'
  <2>1. /\ UNCHANGED <<kind, holders, main, connfd, buf, ready>> /\ stage[c] = "served"
        /\ IF kind = "select" THEN stage' = [stage EXCEPT ![c] = "pool"]
                              ELSE UNCHANGED stage
    BY <1>12 DEF EchoLine, ReadError
  <2>2. CASE UNCHANGED stage
    BY <1>1, <2>1, <2>2
  <2>3. CASE kind = "select" /\ stage' = [stage EXCEPT ![c] = "pool"]
    <3>1. Queued'
      BY <1>0, <2>1, <2>3, QueuedFrame
    <3>2. main # "close"
      BY <2>3 DEF MainOfKind
    <3> QED
      BY <1>0, <2>1, <2>3, <3>1, <3>2 DEF Connections, Owned, Placed, ParentCopy
  <2> QED
    BY <2>1, <2>2, <2>3
<1>13. ASSUME NEW c \in Clients, EndOfFile(c) PROVE Connections'
  BY <1>13, ReleaseStep DEF EndOfFile
<1>14. ASSUME NEW c \in Clients, Sigpipe(c) PROVE Connections'
  <2>1. UNCHANGED <<kind, connfd, buf, ready>> /\ stage[c] = "served"
    BY <1>14 DEF Sigpipe
  <2>2. CASE Release(c)
    BY <2>1, <2>2, ReleaseStep
  <2>3. CASE kind # "fork" /\ main' = "dead" /\ UNCHANGED <<stage, holders>>
    <3>1. Queued'
      BY <1>0, <2>1, <2>3, QueuedFrame
    <3>2. main # "close"
      BY <2>3 DEF MainOfKind
    <3> QED
      BY <1>0, <2>1, <2>3, <3>1, <3>2 DEF Connections, Owned, Placed, ParentCopy
  <2> QED
    BY <1>14, <2>2, <2>3 DEF Sigpipe
<1> QED
  BY <1>1, <1>2, <1>3, <1>4, <1>5, <1>6, <1>7, <1>8, <1>9, <1>10, <1>11, <1>12,
     <1>13, <1>14
  DEF Next, MainStep, DeliverSigchld, Reap, Arrive, Leave, Serve, Refill

-----------------------------------------------------------------------------
(* Before the server listens there is nothing to account for. *)
LEMMA InitIInv == Init => IInv
<1> SUFFICES ASSUME Init PROVE IInv
  OBVIOUS
<1>1. /\ Capacity \in Nat /\ MaxFailures \in Nat /\ MaxAddrs \in Nat
      /\ Lines \in [Clients -> Nat]
  BY EchoAssumption
<1>2. buf = <<>> /\ Len(buf) = 0 /\ buf \in Seq(Clients \cup {None})
  BY DEF Init
<1>3. Shapes /\ MainOfKind
  <2>1. /\ stage \in [Clients -> Stages]
        /\ peer \in [Clients -> {"open", "closed", "reset", "gone"}]
        /\ holders \in [Clients -> SUBSET {"parent", "child"}]
    BY DEF Init, Stages
  <2>2. Len(buf) <= Capacity /\ spinning \in Nat /\ failures \in 0..MaxFailures
    BY <1>1, <1>2 DEF Init
  <2>3. kind \in Kinds /\ addrs \in 0..MaxAddrs /\ main = "open"
    BY DEF Init
  <2>4. /\ connfd \in Clients \cup {None} /\ ready \subseteq Clients
        /\ zombies \subseteq Clients /\ sigchld \in BOOLEAN /\ handler \in BOOLEAN
    BY DEF Init
  <2> QED
    BY <1>2, <2>1, <2>2, <2>3, <2>4 DEF Shapes, MainOfKind
<1>4. Counting
  BY <1>1 DEF Init, Counting
<1>5. Spins
  <2>1. Refused(buf) = {} /\ Pending = 0
    BY <1>2 DEF Init, Refused, Pending
  <2>2. Cardinality(Refused(buf)) = 0
    BY <2>1, FS_EmptySet
  <2> QED
    BY <2>1, <2>2 DEF Init, Spins
<1>6. Waited
  BY DEF Init, Waited
<1>7. Connections
  BY <1>2 DEF Init, Connections, Queued, Owned, Placed, ParentCopy
<1> QED
  BY <1>3, <1>4, <1>5, <1>6, <1>7 DEF IInv

(* Every step of the server or of a client keeps it. *)
LEMMA NextIInv == IInv /\ [Next]_vars => IInv'
<1> SUFFICES ASSUME IInv, [Next]_vars PROVE IInv'
  OBVIOUS
<1>1. CASE Next
  BY <1>1, ShapesStep, CountingStep, SpinsStep, WaitedStep, ConnectionsStep DEF IInv
<1>2. CASE UNCHANGED vars
  BY <1>2 DEF vars, clientVars, connVars, mainVars, procVars, IInv, Shapes,
     MainOfKind, Counting, Spins, Pending, Refused, Waited, Connections, Queued,
     Owned, Placed, ParentCopy
<1> QED
  BY <1>1, <1>2

(* The invariant holds in every state of every echo server. *)
LEMMA IInvHolds == Spec => []IInv
BY InitIInv, NextIInv, PTL DEF Spec

(* sigchld_handler() of echoServerp.cpp: while a child that exited waits   *)
(* to be reaped, a SIGCHLD is pending or the handler runs, although the    *)
(* signals of several children are one signal; for any number of children. *)
THEOREM NoForgottenChildHolds == Spec => []NoForgottenChild
<1>1. IInv => NoForgottenChild
  <2> SUFFICES ASSUME IInv PROVE NoForgottenChild
    OBVIOUS
  <2>1. Cardinality(Refused(buf)) \in Nat /\ Pending \in Nat /\ MaxFailures \in Nat
    BY RefusedFinite, EchoAssumption DEF IInv, Shapes, Pending
  <2>2. spinning \in 0..MaxFailures
    BY <2>1 DEF IInv, Shapes, Spins
  <2>3. \A c \in Clients : /\ sent[c] \in 0..2 * Lines[c] /\ got[c] \in 0..sent[c]
                           /\ 2 * echoed[c] <= got[c]
    BY EchoAssumption DEF IInv, Counting
  <2> QED
    BY <2>2, <2>3 DEF IInv, Shapes, Stages, Waited, NoForgottenChild, TypeOK
<1> QED
  BY <1>1, IInvHolds, PTL

(* Who has the descriptor of a connection open: nobody before it was       *)
(* accepted and, but for the copy that the parent is about to close,       *)
(* nobody after it ended; while it waits to be served or is served,        *)
(* somebody has, and in a child of the forking server the child has.       *)
DescriptorsAccounted ==
    \A c \in Clients :
       /\ stage[c] \in {"none", "backlog"} => holders[c] = {}
       /\ stage[c] \in {"accepted", "buffered", "pool", "served"} => holders[c] # {}
       /\ stage[c] = "done" /\ holders[c] # {} => main = "close" /\ connfd = c
       /\ "child" \in holders[c] <=> kind = "fork" /\ stage[c] = "served"

(* Close() in the loops of echoServer.cpp and echoServerm.cpp, in the      *)
(* parent and the child of echoServerp.cpp and in the workers of           *)
(* echoServert.cpp: no echo server leaks the descriptor of a connection,   *)
(* and none reads from a closed one.                                       *)
THEOREM DescriptorsAccountedHolds == Spec => []DescriptorsAccounted
<1>1. IInv => DescriptorsAccounted
  <2> SUFFICES ASSUME IInv, NEW c \in Clients
               PROVE  /\ stage[c] \in {"none", "backlog"} => holders[c] = {}
                      /\ stage[c] \in {"accepted", "buffered", "pool", "served"} =>
                            holders[c] # {}
                      /\ stage[c] = "done" /\ holders[c] # {} =>
                            main = "close" /\ connfd = c
                      /\ "child" \in holders[c] <=> kind = "fork" /\ stage[c] = "served"
    BY DEF DescriptorsAccounted
  <2>1. Owned(c) /\ stage[c] \in Stages
    BY DEF IInv, Connections, Shapes
  <2> QED
    BY <2>1 DEF Owned, ParentCopy, Stages
<1> QED
  BY <1>1, IInvHolds, PTL
=============================================================================
