--------------------------- MODULE BufferProofs ----------------------------
(***************************************************************************)
(* Proofs about the two components that keep bytes between a stream and    *)
(* its reader, for bytes, buffers and calls of any size.                   *)
(*                                                                         *)
(* RobustIo: no byte is lost, repeated or reordered between writen() and   *)
(* the buffers of the reader, and what the reader's calls return is right. *)
(*                                                                         *)
(* HyBuffer: what is readable is what was put in, as long as every store   *)
(* stayed inside the vector, and who has read everything never leaves it.  *)
(***************************************************************************)
EXTENDS RobustIo, HyBuffer, SequenceTheorems, TLAPS

-----------------------------------------------------------------------------
(* Rio and Riob. *)

(* the bytes _read() keeps *)
Kept == IF cnt > 0 THEN cnt ELSE 0

(* the bytes of s are those behind a, in order *)
Follow(s, a) == \A i \in 1..Len(s) : s[i] = a + i

(* Where each byte that was written is: NothingLost byte by byte. *)
InOrder ==
    /\ Follow(delivered, 0)
    /\ \A i \in 1..Kept : buf[bufptr + i] = Len(delivered) + i
    /\ Follow(pipe, Len(delivered) + Kept)
    /\ Len(delivered) + Kept + Len(pipe) = bufp
    /\ bufptr + Kept <= Len(buf)
    /\ ~buffered => cnt = 0

Writing == bufp + nleft <= MaxBytes /\ (closed => nleft = 0)

Ops == {"none", "readlineb", "readnb", "readn"}

CallTypes == [op : Ops, max : {0} \cup Lengths, stored : Seq(Bytes)]

(* A call that runs has room left, and no line of it is complete. *)
Calling ==
    /\ call \in CallTypes
    /\ call.op = "none" => call = NoCall
    /\ call.op # "none" =>
          /\ call.max \in Lengths /\ Len(call.stored) < call.max
          /\ call.op = "readn" <=> ~buffered
    /\ call.op = "readlineb" =>
          \A i \in 1..Len(call.stored) : call.stored[i] \notin newlines
    /\ Len(call.stored) <= Len(delivered)

RetTypes == [op : Ops, max : {0} \cup Lengths, stored : Seq(Bytes),
             value : -1..MaxBytes + 1]

Returned == ret \in RetTypes /\ ResultsAreRight

(* The inductive invariant. *)
IInv == TypeOK /\ InOrder /\ Writing /\ Calling /\ Returned

-----------------------------------------------------------------------------
(* Sequences of bytes. *)

(* u is s with t behind it *)
Joined(S, s, t, u) ==
    /\ u \in Seq(S) /\ Len(u) = Len(s) + Len(t)
    /\ \A i \in 1..Len(s) : u[i] = s[i]
    /\ \A i \in 1..Len(t) : u[Len(s) + i] = t[i]

(* What a concatenation consists of, element by element. *)
LEMMA Concat ==
    ASSUME NEW S, NEW s \in Seq(S), NEW t \in Seq(S), NEW u, u = s \o t
    PROVE  Joined(S, s, t, u)
<1>1. Len(s) \in Nat /\ Len(t) \in Nat
  OBVIOUS
<1>2. /\ u \in Seq(S) /\ Len(u) = Len(s) + Len(t)
      /\ \A i \in 1..Len(s) + Len(t) : u[i] = IF i <= Len(s) THEN s[i] ELSE t[i - Len(s)]
  BY ConcatProperties
<1>3. \A i \in 1..Len(s) : i \in 1..Len(s) + Len(t) /\ i <= Len(s)
  BY <1>1
<1>4. \A i \in 1..Len(t) : /\ Len(s) + i \in 1..Len(s) + Len(t) /\ ~(Len(s) + i <= Len(s))
                           /\ (Len(s) + i) - Len(s) = i
  BY <1>1
<1>5. \A i \in 1..Len(s) : u[i] = s[i]
  BY <1>2, <1>3
<1>6. \A i \in 1..Len(t) : u[Len(s) + i] = t[i]
  BY <1>2, <1>4
<1> QED
  BY <1>2, <1>5, <1>6 DEF Joined

(* u is the n elements of s behind its first m *)
IsCut(S, s, m, n, u) ==
    /\ u \in Seq(S) /\ Len(u) = n
    /\ \A i \in 1..n : u[i] = s[m + i]

(* What a subsequence consists of, element by element. *)
LEMMA Cut ==
    ASSUME NEW S, NEW s \in Seq(S), NEW m \in Nat, NEW n \in Nat, m + n <= Len(s),
           NEW u, u = SubSeq(s, m + 1, m + n)
    PROVE  IsCut(S, s, m, n, u)
<1>1. Len(s) \in Nat /\ m + 1 \in Int /\ m + n \in Int
  OBVIOUS
<1>2. \A i \in (m + 1)..(m + n) : i \in 1..Len(s)
  BY <1>1
<1>3. \A i \in (m + 1)..(m + n) : s[i] \in S
  BY <1>2, ElementOfSeq
<1>4. /\ u \in Seq(S)
      /\ Len(u) = IF m + 1 <= m + n THEN (m + n) - (m + 1) + 1 ELSE 0
      /\ \A i \in 1..(m + n) - (m + 1) + 1 : u[i] = s[(m + 1) + i - 1]
  BY <1>1, <1>3, SubSeqProperties
<1>5. /\ (IF m + 1 <= m + n THEN (m + n) - (m + 1) + 1 ELSE 0) = n
      /\ (m + n) - (m + 1) + 1 = n
      /\ \A i \in 1..n : (m + 1) + i - 1 = m + i
  OBVIOUS
<1>6. Len(u) = n
  BY <1>4, <1>5
<1>7. \A i \in 1..n : u[i] = s[m + i]
  BY <1>4, <1>5
<1> QED
  BY <1>4, <1>6, <1>7 DEF IsCut

(* what is left of s behind its first k elements *)
LEMMA CutRest ==
    ASSUME NEW S, NEW s \in Seq(S), NEW k \in Nat, k <= Len(s),
           NEW u, u = SubSeq(s, k + 1, Len(s))
    PROVE  IsCut(S, s, k, Len(s) - k, u)
<1>1. Len(s) \in Nat /\ Len(s) - k \in Nat /\ k + (Len(s) - k) = Len(s)
  OBVIOUS
<1>2. k + (Len(s) - k) <= Len(s)
  BY <1>1
<1>3. u = SubSeq(s, k + 1, k + (Len(s) - k))
  BY <1>1
<1> QED
  BY <1>1, <1>2, <1>3, Cut

(* The smaller of two numbers. *)
LEMMA MinOfTwo ==
    ASSUME NEW a \in Int, NEW c \in Int
    PROVE  Min({a, c}) \in {a, c} /\ Min({a, c}) <= a /\ Min({a, c}) <= c
<1>1. \E x \in {a, c} : \A y \in {a, c} : x <= y
  OBVIOUS
<1> QED
  BY <1>1 DEF Min

(* The bytes behind a are a + 1, a + 2 and so on. *)
LEMMA BytesAfterIs ==
    ASSUME NEW a \in 0..MaxBytes, NEW n \in 0..MaxBytes, a + n <= MaxBytes
    PROVE  /\ BytesAfter(a, a + n) \in Seq(Bytes)
           /\ Len(BytesAfter(a, a + n)) = n
           /\ Follow(BytesAfter(a, a + n), a)
<1>1. MaxBytes \in Nat
  BY RioAssumption
<1>2. a \in Nat /\ n \in Nat /\ (a + n) - a = n
  BY <1>1
<1>3. BytesAfter(a, a + n) = [i \in 1..n |-> a + i]
  BY <1>2 DEF BytesAfter
<1>4. \A i \in 1..n : a + i \in Bytes
  BY <1>1, <1>2 DEF Bytes
<1>5. [i \in 1..n |-> a + i] \in Seq(Bytes)
  BY <1>2, <1>4, IsASeq
<1>6. Len([i \in 1..n |-> a + i]) = n
  BY <1>2
<1> QED
  BY <1>3, <1>5, <1>6 DEF Follow

(* Two sequences that follow each other are one that follows. *)
LEMMA FollowJoined ==
    ASSUME NEW s \in Seq(Bytes), NEW t \in Seq(Bytes), NEW u, NEW a \in Nat,
           Joined(Bytes, s, t, u), Follow(s, a), Follow(t, a + Len(s))
    PROVE  Follow(u, a)
<1>1. Len(s) \in Nat /\ Len(t) \in Nat
  OBVIOUS
<1>2. /\ Len(u) = Len(s) + Len(t)
      /\ \A i \in 1..Len(s) : u[i] = a + i
      /\ \A i \in 1..Len(t) : u[Len(s) + i] = (a + Len(s)) + i
  BY DEF Joined, Follow
<1>3. ASSUME NEW j \in 1..Len(u) PROVE u[j] = a + j
  <2>1. CASE j <= Len(s)
    BY <1>1, <1>2, <2>1
  <2>2. CASE ~(j <= Len(s))
    <3>1. PICK i \in 1..Len(t) : j = Len(s) + i
      <4>1. j - Len(s) \in 1..Len(t) /\ j = Len(s) + (j - Len(s))
        BY <1>1, <1>2, <2>2
      <4> QED
        BY <4>1
    <3>2. u[j] = (a + Len(s)) + i
      BY <1>2, <3>1
    <3> QED
      BY <1>1, <3>1, <3>2
  <2> QED
    BY <2>1, <2>2
<1> QED
  BY <1>3 DEF Follow

(* A subsequence follows the bytes in front of it. *)
LEMMA FollowCut ==
    ASSUME NEW s \in Seq(Bytes), NEW m \in Nat, NEW n \in Nat, m + n <= Len(s),
           NEW u, IsCut(Bytes, s, m, n, u), NEW a \in Nat, Follow(s, a)
    PROVE  Follow(u, a + m)
<1>1. Len(s) \in Nat
  OBVIOUS
<1>2. \A i \in 1..n : m + i \in 1..Len(s) /\ a + (m + i) = (a + m) + i
  BY <1>1
<1> QED
  BY <1>2 DEF IsCut, Follow

(* delivered is everything that was written once it is as long *)
LEMMA EndIs ==
    ASSUME NEW d \in Seq(Bytes), NEW n \in 0..MaxBytes, Follow(d, 0)
    PROVE  d = BytesAfter(0, n) <=> Len(d) = n
<1>1. MaxBytes \in Nat /\ 0 \in 0..MaxBytes /\ 0 + n = n /\ 0 + n <= MaxBytes
  BY RioAssumption
<1>2. BytesAfter(0, n) \in Seq(Bytes) /\ Len(BytesAfter(0, n)) = n /\ Follow(BytesAfter(0, n), 0)
  BY <1>1, BytesAfterIs
<1>3. ASSUME Len(d) = n PROVE d = BytesAfter(0, n)
  <2>1. \A i \in 1..Len(d) : d[i] = BytesAfter(0, n)[i]
    BY <1>2, <1>3 DEF Follow
  <2> QED
    BY <1>2, <1>3, <2>1, SeqEqual
<1> QED
  BY <1>2, <1>3

-----------------------------------------------------------------------------
(* The types of what the invariant speaks of. *)
LEMMA Types ==
    ASSUME IInv
    PROVE  /\ MaxBytes \in Nat /\ PipeSize \in Nat /\ BufSize \in Nat
           /\ pipe \in Seq(Bytes) /\ Len(pipe) \in Nat /\ Len(pipe) <= PipeSize
           /\ buf \in Seq(Bytes) /\ Len(buf) \in Nat /\ Len(buf) <= BufSize
           /\ delivered \in Seq(Bytes) /\ Len(delivered) \in Nat
           /\ call.stored \in Seq(Bytes) /\ Len(call.stored) \in Nat /\ call.max \in Nat
           /\ ret.stored \in Seq(Bytes) /\ Len(ret.stored) \in Nat
           /\ bufp \in Nat /\ bufp <= MaxBytes /\ nleft \in Nat
           /\ cnt \in Int /\ bufptr \in Nat /\ Kept \in Nat
           /\ Len(delivered) <= bufp
<1>1. MaxBytes \in Nat /\ PipeSize \in Nat /\ BufSize \in Nat /\ Lengths \subseteq Nat
  BY RioAssumption
<1>2. /\ pipe \in Seq(Bytes) /\ buf \in Seq(Bytes) /\ delivered \in Seq(Bytes)
      /\ call.stored \in Seq(Bytes) /\ ret.stored \in Seq(Bytes)
  BY DEF IInv, TypeOK, Returned, RetTypes
<1>3. /\ Len(pipe) \in Nat /\ Len(buf) \in Nat /\ Len(delivered) \in Nat
      /\ Len(call.stored) \in Nat /\ Len(ret.stored) \in Nat
  BY <1>2
<1>4. /\ bufp \in 0..MaxBytes /\ nleft \in 0..MaxBytes /\ cnt \in -1..BufSize
      /\ bufptr \in 0..BufSize /\ Len(pipe) <= PipeSize /\ Len(buf) <= BufSize
      /\ call.max \in {0} \cup Lengths
  BY DEF IInv, TypeOK
<1>5. bufp \in Nat /\ bufp <= MaxBytes /\ nleft \in Nat /\ cnt \in Int /\ bufptr \in Nat
  BY <1>1, <1>4
<1>6. call.max \in Nat
  <2>1. call.max \in {0} \cup Lengths
    BY DEF IInv, TypeOK
  <2>2. {0} \cup Lengths \subseteq Nat
    BY RioAssumption
  <2> QED
    BY <2>1, <2>2
<1>7. Kept \in Nat
  BY <1>5 DEF Kept
<1>8. Len(delivered) <= bufp
  <2>1. Len(delivered) + Kept + Len(pipe) = bufp
    BY DEF IInv, InOrder
  <2> QED
    BY <1>3, <1>5, <1>7, <2>1
<1> QED
  BY <1>1, <1>2, <1>3, <1>4, <1>5, <1>6, <1>7, <1>8

(* The last result stays right: the end of the stream stays the end.       *)
LEMMA StillReturned ==
    ASSUME IInv, UNCHANGED <<ret, newlines, delivered>>,
           closed => UNCHANGED <<closed, bufp>>
    PROVE  Returned'
BY DEF IInv, Returned, ResultsAreRight, ResultIsCount, LineCount, ShortMeansEnd, LineEnded

(* A step of the writer, which leaves the reader alone. *)
LEMMA WriterInv ==
    ASSUME IInv, \/ \E n \in Lengths : Writen(n)
                 \/ Write \/ WriteFails \/ Close
    PROVE  IInv'
<1>1. UNCHANGED <<newlines, buffered, cnt, bufptr, buf, call, ret, delivered>>
  BY DEF Writen, Write, WriteFails, Close, inputs, riob, reader
<1>2. Calling' /\ Kept' = Kept
  BY <1>1 DEF IInv, Calling, Kept
<1>3. CASE \E n \in Lengths : Writen(n)
  <2>1. PICK n \in Lengths : Writen(n)
    BY <1>3
  <2>2. /\ nleft = 0 /\ ~closed /\ bufp + n <= MaxBytes /\ nleft' = n
        /\ UNCHANGED <<pipe, closed, bufp>>
    BY <2>1 DEF Writen
  <2>3. n \in Nat /\ n \in 0..MaxBytes
    BY <2>2, RioAssumption, Types
  <2>4. TypeOK' /\ InOrder' /\ Writing'
    BY <1>1, <1>2, <2>2, <2>3 DEF IInv, TypeOK, InOrder, Writing
  <2> QED
    BY <1>1, <1>2, <2>2, <2>4, StillReturned DEF IInv
<1>4. CASE Write
  <2>1. nleft > 0 /\ ~closed /\ closed' = closed
    <3>1. nleft > 0 /\ UNCHANGED closed
      BY <1>4 DEF Write
    <3>2. nleft # 0
      BY <3>1, Types
    <3> QED
      BY <3>1, <3>2 DEF IInv, Writing
  <2>2. PICK k \in 1..Min({nleft, PipeSize - Len(pipe)}) :
           /\ pipe' = pipe \o BytesAfter(bufp, bufp + k)
           /\ bufp' = bufp + k /\ nleft' = nleft - k
    BY <1>4 DEF Write
  <2>3. k \in Nat /\ k <= nleft /\ k <= PipeSize - Len(pipe)
    <3>1. nleft \in Int /\ PipeSize - Len(pipe) \in Int
      BY Types
    <3>2. /\ Min({nleft, PipeSize - Len(pipe)}) \in {nleft, PipeSize - Len(pipe)}
          /\ Min({nleft, PipeSize - Len(pipe)}) <= nleft
          /\ Min({nleft, PipeSize - Len(pipe)}) <= PipeSize - Len(pipe)
      BY <3>1, MinOfTwo
    <3> QED
      BY <3>1, <3>2
  <2>4. /\ bufp + nleft <= MaxBytes /\ bufp + k <= MaxBytes
        /\ bufp \in 0..MaxBytes /\ k \in 0..MaxBytes
        /\ bufp + k \in 0..MaxBytes /\ nleft - k \in 0..MaxBytes
        /\ (bufp + k) + (nleft - k) <= MaxBytes
        /\ Len(pipe) + k <= PipeSize
    <3>1. bufp + nleft <= MaxBytes
      BY DEF IInv, Writing
    <3>2. /\ bufp \in Nat /\ nleft \in Nat /\ MaxBytes \in Nat /\ Len(pipe) \in Nat
          /\ PipeSize \in Nat
      BY Types
    <3> QED
      BY <2>3, <3>1, <3>2
  <2>5. PICK t \in Seq(Bytes) : /\ t = BytesAfter(bufp, bufp + k) /\ Len(t) = k
                                /\ Follow(t, bufp)
    BY <2>4, BytesAfterIs
  <2>6. Joined(Bytes, pipe, t, pipe')
    BY <2>2, <2>5, Concat, Types
  <2>7. pipe' \in Seq(Bytes) /\ Len(pipe') = Len(pipe) + k
    BY <2>5, <2>6 DEF Joined
  <2>8. /\ Follow(pipe, Len(delivered) + Kept)
        /\ Len(delivered) + Kept \in Nat
        /\ (Len(delivered) + Kept) + Len(pipe) = bufp
    <3>1. InOrder
      BY DEF IInv
    <3>2. Len(delivered) \in Nat /\ Kept \in Nat
      BY Types
    <3>3. Len(delivered) + Kept \in Nat
      BY <3>2
    <3> QED
      BY <3>1, <3>3 DEF InOrder
  <2>9. Follow(pipe', Len(delivered) + Kept)
    <3>1. Follow(t, (Len(delivered) + Kept) + Len(pipe))
      BY <2>5, <2>8
    <3> QED
      BY <2>6, <2>8, <3>1, FollowJoined, Types
  <2>10. Len(delivered) + Kept + Len(pipe') = bufp'
    <3>1. /\ Len(delivered) \in Nat /\ Kept \in Nat /\ Len(pipe) \in Nat /\ bufp \in Nat
          /\ Len(pipe') = Len(pipe) + k /\ bufp' = bufp + k
      BY <2>2, <2>7, Types
    <3> QED
      BY <2>3, <2>8, <3>1
  <2>11. InOrder'
    BY <1>1, <1>2, <2>9, <2>10 DEF IInv, InOrder
  <2>12. TypeOK' /\ Writing'
    <3>1. Len(pipe') <= PipeSize
      BY <2>4, <2>7
    <3>2. TypeOK'
      BY <1>1, <2>1, <2>2, <2>4, <2>7, <3>1 DEF IInv, TypeOK
    <3> QED
      BY <2>1, <2>2, <2>4, <3>2 DEF Writing
  <2> QED
    BY <1>1, <1>2, <2>1, <2>11, <2>12, StillReturned DEF IInv
<1>5. CASE WriteFails \/ Close
  <2>1. nleft' = 0 /\ closed' = TRUE /\ UNCHANGED <<pipe, bufp>>
    BY <1>5 DEF WriteFails, Close
  <2>2. InOrder'
    BY <1>1, <1>2, <2>1 DEF IInv, InOrder
  <2>3. TypeOK' /\ Writing'
    <3>1. 0 \in 0..MaxBytes /\ bufp + 0 <= MaxBytes
      BY Types
    <3> QED
      BY <1>1, <2>1, <3>1 DEF IInv, TypeOK, Writing
  <2>4. Returned'
    BY <1>1, <2>1, StillReturned DEF IInv, TypeOK
  <2> QED
    BY <1>2, <2>2, <2>3, <2>4 DEF IInv
<1> QED
  BY <1>3, <1>4, <1>5

-----------------------------------------------------------------------------
(* The reader. *)

(* A call begins with nothing stored. *)
LEMMA CallInv ==
    ASSUME IInv, NEW op \in {"readlineb", "readnb", "readn"}, NEW max \in Lengths,
           Call(op, max)
    PROVE  IInv'
<1>1. /\ call' = [op |-> op, max |-> max, stored |-> <<>>] /\ (op = "readn" <=> ~buffered)
      /\ UNCHANGED <<newlines, buffered, pipe, bufp, nleft, closed, cnt, bufptr, buf, ret,
                     delivered>>
  BY DEF Call, inputs, writer, riob
<1>2. /\ call'.op = op /\ call'.max = max /\ call'.stored = <<>> /\ call' \in CallTypes
      /\ Len(call'.stored) = 0
  <2>1. <<>> \in Seq(Bytes) /\ Len(<<>>) = 0
    OBVIOUS
  <2> QED
    BY <1>1, <2>1 DEF CallTypes, Ops
<1>3. TypeOK'
  <2>1. call'.op \in {"none", "readlineb", "readnb", "readn"} /\ call'.max \in {0} \cup Lengths
        /\ call'.stored \in Seq(Bytes)
    BY <1>2
  <2> QED
    BY <1>1, <2>1 DEF IInv, TypeOK
<1>4. InOrder' /\ Writing'
  BY <1>1 DEF IInv, InOrder, Writing, Kept
<1>5. Calling'
  <2>1. 0 < max /\ 0 <= Len(delivered)
    BY RioAssumption, Types
  <2> QED
    BY <1>1, <1>2, <2>1 DEF Calling
<1> QED
  BY <1>1, <1>3, <1>4, <1>5, StillReturned DEF IInv

(* A call returns what it has stored. *)
LEMMA ReturnInv ==
    ASSUME IInv, call.op # "none", call' = NoCall,
           ret' \in RetTypes, ret'.op = call.op, ret'.max = call.max,
           ret'.stored = call.stored,
           ret'.value >= 0 =>
              IF call.op = "readlineb"
                THEN /\ ret'.value = IF call.stored = <<>> /\ call.max > 1
                                       THEN 0 ELSE Len(call.stored) + 1
                     /\ Len(call.stored) + 1 < call.max =>
                           closed /\ delivered = BytesAfter(0, bufp)
                ELSE ret'.value = Len(call.stored) /\ closed /\ delivered = BytesAfter(0, bufp),
           UNCHANGED <<newlines, buffered, pipe, bufp, nleft, closed, bufptr, buf, delivered>>,
           cnt' \in -1..BufSize, Kept' = Kept, ~buffered => cnt' = cnt
    PROVE  IInv'
<1>1. call'.op = "none" /\ call'.max = 0 /\ call'.stored = <<>> /\ call' \in CallTypes
  <2>1. <<>> \in Seq(Bytes)
    OBVIOUS
  <2> QED
    BY <2>1 DEF NoCall, CallTypes, Ops
<1>2. TypeOK'
  <2>1. ret'.value \in -1..MaxBytes + 1 /\ <<>> \in Seq(Bytes)
    BY DEF RetTypes
  <2> QED
    BY <1>1, <2>1 DEF IInv, TypeOK
<1>3. InOrder' /\ Writing'
  BY DEF IInv, InOrder, Writing
<1>4. Calling'
  <2>1. Len(<<>>) = 0 /\ 0 <= Len(delivered)
    BY Types
  <2> QED
    BY <1>1, <2>1 DEF Calling
<1>5. ResultsAreRight'
  <2>1. /\ Len(call.stored) \in Nat /\ call.max \in Nat /\ Len(call.stored) < call.max
        /\ call.op = "readlineb" =>
              \A i \in 1..Len(call.stored) : call.stored[i] \notin newlines
    BY Types DEF IInv, Calling
  <2>2. CASE ~(ret'.value >= 0)
    BY <2>2 DEF ResultsAreRight
  <2>3. CASE ret'.value >= 0 /\ call.op = "readlineb"
    <3>1. ~LineEnded'
      <4>1. call.stored # <<>> => Len(call.stored) \in 1..Len(call.stored)
        BY <2>1, Types
      <4> QED
        BY <2>1, <2>3, <4>1 DEF LineEnded
    <3>2. \A i \in 1..Len(call.stored) - 1 : i \in 1..Len(call.stored)
      BY <2>1
    <3>3. ret'.value = LineCount'
      BY <2>3, <3>1 DEF LineCount
    <3>4. ResultIsCount'
      BY <2>1, <2>3, <3>1, <3>2, <3>3 DEF ResultIsCount
    <3>5. ShortMeansEnd'
      BY <2>3 DEF ShortMeansEnd
    <3> QED
      BY <3>4, <3>5 DEF ResultsAreRight
  <2>4. CASE ret'.value >= 0 /\ call.op # "readlineb"
    <3>1. ret'.value = Len(call.stored) /\ Len(call.stored) <= call.max
      BY <2>1, <2>4
    <3>2. ResultIsCount'
      BY <2>4, <3>1 DEF ResultIsCount
    <3>3. ShortMeansEnd'
      BY <2>4 DEF ShortMeansEnd
    <3> QED
      BY <3>2, <3>3 DEF ResultsAreRight
  <2> QED
    BY <2>2, <2>3, <2>4
<1> QED
  BY <1>2, <1>3, <1>4, <1>5 DEF IInv, Returned

(* The record a call that returns leaves behind. *)
LEMMA RetIs ==
    ASSUME IInv, NEW value \in -1..MaxBytes + 1,
           ret' = [op |-> call.op, max |-> call.max, stored |-> call.stored,
                   value |-> value]
    PROVE  /\ ret' \in RetTypes /\ ret'.op = call.op /\ ret'.max = call.max
           /\ ret'.stored = call.stored /\ ret'.value = value
<1>1. call.op \in Ops /\ call.max \in {0} \cup Lengths /\ call.stored \in Seq(Bytes)
  BY DEF IInv, Calling, CallTypes
<1> QED
  BY <1>1 DEF RetTypes

(* readlineb() returns when maxlen - 1 bytes are stored. *)
LEMMA LineFullReturnsInv ==
    ASSUME IInv, LineFullReturns
    PROVE  IInv'
<1>1. /\ call.op = "readlineb" /\ Len(call.stored) + 1 >= call.max
      /\ ret' = [op |-> call.op, max |-> call.max, stored |-> call.stored,
                 value |-> Len(call.stored) + 1]
      /\ call' = NoCall
      /\ UNCHANGED <<newlines, buffered, pipe, bufp, nleft, closed, cnt, bufptr, buf, delivered>>
  BY DEF LineFullReturns, LineFull, Return, inputs, writer, riob
<1>2. /\ Len(call.stored) \in Nat /\ call.max \in Nat /\ MaxBytes \in Nat
      /\ Len(delivered) \in Nat /\ bufp \in Nat
      /\ Len(call.stored) <= Len(delivered) /\ Len(delivered) <= bufp /\ bufp <= MaxBytes
  BY Types DEF IInv, Calling
<1>3. Len(call.stored) + 1 \in -1..MaxBytes + 1 /\ ~(Len(call.stored) + 1 < call.max)
  BY <1>1, <1>2
<1>4. /\ ret' \in RetTypes /\ ret'.op = call.op /\ ret'.max = call.max
      /\ ret'.stored = call.stored /\ ret'.value = Len(call.stored) + 1
  BY <1>1, <1>3, RetIs
<1>7. ~(call.stored = <<>> /\ call.max > 1)
  BY <1>1, <1>2
<1>5. cnt' \in -1..BufSize /\ Kept' = Kept
  BY <1>1 DEF IInv, TypeOK, Kept
<1>6. call.op # "none"
  BY <1>1
<1> QED
  BY <1>1, <1>3, <1>4, <1>5, <1>6, <1>7, ReturnInv

(* At the end of the stream everything that was written was delivered. *)
LEMMA AtEnd ==
    ASSUME IInv, Kept = 0, pipe = <<>>
    PROVE  delivered = BytesAfter(0, bufp)
<1>1. Len(delivered) + 0 + 0 = bufp /\ Follow(delivered, 0)
  BY DEF IInv, InOrder
<1>2. Len(delivered) = bufp /\ delivered \in Seq(Bytes) /\ bufp \in 0..MaxBytes
  BY <1>1, Types
<1> QED
  BY <1>1, <1>2, EndIs

(* A call that meets the end of the stream returns what it stored. *)
LEMMA EofReturns ==
    ASSUME IInv, call.op # "none", ~LineFull, Kept = 0, pipe = <<>>, closed,
           Return(call.stored, EofValue),
           UNCHANGED <<newlines, buffered, pipe, bufp, nleft, closed, bufptr, buf, delivered>>,
           cnt' \in -1..BufSize, Kept' = Kept, ~buffered => cnt' = cnt
    PROVE  IInv'
<1>1. /\ call' = NoCall
      /\ ret' = [op |-> call.op, max |-> call.max, stored |-> call.stored,
                 value |-> EofValue]
  BY DEF Return
<1>2. /\ Len(call.stored) \in Nat /\ MaxBytes \in Nat /\ Len(delivered) \in Nat /\ bufp \in Nat
      /\ Len(call.stored) <= Len(delivered) /\ Len(delivered) <= bufp /\ bufp <= MaxBytes
  BY Types DEF IInv, Calling
<1>3. /\ Len(call.stored) + 1 \in -1..MaxBytes + 1 /\ Len(call.stored) \in -1..MaxBytes + 1
  BY <1>2
<1>4. /\ call.op = "readlineb" =>
            EofValue = IF call.stored = <<>> /\ call.max > 1
                         THEN 0 ELSE Len(call.stored) + 1
      /\ call.op # "readlineb" => EofValue = Len(call.stored)
  <2>1. call.op = "readlineb" => ~(Len(call.stored) + 1 >= call.max)
    BY DEF LineFull
  <2>2. call.stored = <<>> => Len(call.stored) = 0
    OBVIOUS
  <2>3. call.op = "readlineb" /\ call.stored = <<>> => call.max > 1
    BY <1>2, <2>1, <2>2, Types DEF IInv, Calling
  <2> QED
    BY <2>2, <2>3 DEF EofValue
<1>5. EofValue \in -1..MaxBytes + 1
  BY <1>3 DEF EofValue
<1>6. /\ ret' \in RetTypes /\ ret'.op = call.op /\ ret'.max = call.max
      /\ ret'.stored = call.stored /\ ret'.value = EofValue
  BY <1>1, <1>5, RetIs
<1>7. delivered = BytesAfter(0, bufp)
  BY AtEnd
<1> QED
  BY <1>1, <1>4, <1>6, <1>7, ReturnInv

(* A call that meets an error returns -1. *)
LEMMA FailsReturns ==
    ASSUME IInv, call.op # "none", Return(call.stored, -1),
           UNCHANGED <<newlines, buffered, pipe, bufp, nleft, closed, bufptr, buf, delivered>>,
           cnt' \in -1..BufSize, Kept' = Kept, ~buffered => cnt' = cnt
    PROVE  IInv'
<1>1. /\ call' = NoCall
      /\ ret' = [op |-> call.op, max |-> call.max, stored |-> call.stored,
                 value |-> -1]
  BY DEF Return
<1>2. -1 \in -1..MaxBytes + 1
  BY Types
<1>3. /\ ret' \in RetTypes /\ ret'.op = call.op /\ ret'.max = call.max
      /\ ret'.stored = call.stored /\ ret'.value = -1
  BY <1>1, <1>2, RetIs
<1>4. ~(ret'.value >= 0)
  BY <1>3
<1> QED
  BY <1>1, <1>3, <1>4, ReturnInv

(* Bytes that were the next ones of the stream are stored. *)
LEMMA StoreInv ==
    ASSUME IInv, call.op # "none", ~LineFull,
           NEW bytes \in Seq(Bytes), Len(bytes) >= 1, Follow(bytes, Len(delivered)),
           Len(delivered) + Len(bytes) <= bufp,
           call.op = "readlineb" => Len(bytes) = 1,
           call.op # "readlineb" => Len(call.stored) + Len(bytes) <= call.max,
           Store(bytes), UNCHANGED <<newlines, buffered, closed, bufp>>
    PROVE  /\ delivered' \in Seq(Bytes) /\ Len(delivered') = Len(delivered) + Len(bytes)
           /\ Follow(delivered', 0) /\ Calling' /\ Returned'
<1>1. /\ MaxBytes \in Nat /\ Len(call.stored) \in Nat /\ call.max \in Nat /\ Len(bytes) \in Nat
      /\ Len(delivered) \in Nat /\ bufp \in Nat /\ bufp <= MaxBytes
      /\ Len(call.stored) <= Len(delivered) /\ Len(call.stored) < call.max
      /\ call.stored \in Seq(Bytes) /\ delivered \in Seq(Bytes)
      /\ call.max \in Lengths
  BY Types DEF IInv, Calling
<1>2. PICK stored : stored = call.stored \o bytes
  OBVIOUS
<1>3. Joined(Bytes, call.stored, bytes, stored)
  BY <1>1, <1>2, Concat
<1>4. /\ stored \in Seq(Bytes) /\ Len(stored) = Len(call.stored) + Len(bytes)
      /\ \A i \in 1..Len(call.stored) : stored[i] = call.stored[i]
      /\ \A i \in 1..Len(bytes) : stored[Len(call.stored) + i] = bytes[i]
  BY <1>3 DEF Joined
<1>5. Joined(Bytes, delivered, bytes, delivered')
  <2>1. delivered' = delivered \o bytes
    BY DEF Store
  <2> QED
    BY <1>1, <2>1, Concat
<1>6. delivered' \in Seq(Bytes) /\ Len(delivered') = Len(delivered) + Len(bytes)
  BY <1>5 DEF Joined
<1>7. Follow(delivered', 0)
  <2>1. Follow(delivered, 0) /\ Follow(bytes, 0 + Len(delivered)) /\ 0 \in Nat
    BY <1>1 DEF IInv, InOrder
  <2> QED
    BY <1>1, <1>5, <2>1, FollowJoined
<1>8. Len(stored) \in Nat /\ Len(stored) >= 1 /\ Len(stored) <= Len(delivered')
      /\ Len(stored) <= bufp /\ Len(stored) \in -1..MaxBytes + 1
  <2>1. Len(stored) = Len(call.stored) + Len(bytes) /\ Len(delivered') = Len(delivered) + Len(bytes)
    BY <1>4, <1>6
  <2>2. /\ MaxBytes \in Nat /\ Len(call.stored) \in Nat /\ Len(bytes) \in Nat
        /\ Len(delivered) \in Nat /\ bufp \in Nat /\ bufp <= MaxBytes
        /\ Len(call.stored) <= Len(delivered)
    BY <1>1
  <2> QED
    BY <2>1, <2>2
<1>9. call.op = "readlineb" =>
         /\ Len(stored) < call.max /\ Len(stored) - 1 = Len(call.stored)
         /\ \A i \in 1..Len(stored) - 1 : stored[i] \notin newlines
  <2> SUFFICES ASSUME call.op = "readlineb"
               PROVE  /\ Len(stored) < call.max /\ Len(stored) - 1 = Len(call.stored)
                      /\ \A i \in 1..Len(stored) - 1 : stored[i] \notin newlines
    OBVIOUS
  <2>1. ~(Len(call.stored) + 1 >= call.max) /\ Len(stored) = Len(call.stored) + 1
    BY <1>4 DEF LineFull
  <2>2. Len(stored) < call.max /\ Len(stored) - 1 = Len(call.stored)
    BY <1>1, <2>1
  <2>3. \A i \in 1..Len(call.stored) : call.stored[i] \notin newlines
    BY DEF IInv, Calling
  <2> QED
    BY <1>4, <2>2, <2>3
<1>10. call.op # "readlineb" => Len(stored) <= call.max
  BY <1>4
<1> DEFINE done == IF call.op = "readlineb" THEN stored[Len(stored)] \in newlines
                                            ELSE Len(stored) = call.max
<1>11. CASE done
  <2>1. /\ call' = NoCall
        /\ ret' = [op |-> call.op, max |-> call.max, stored |-> stored,
                   value |-> Len(stored)]
    BY <1>2, <1>11 DEF Store, Return
  <2>2. ret' \in RetTypes
    <3>1. call.op \in Ops /\ call.max \in {0} \cup Lengths
      BY DEF IInv, Calling, CallTypes
    <3> QED
      BY <1>4, <1>8, <2>1, <3>1 DEF RetTypes
  <2>3. /\ ret'.op = call.op /\ ret'.max = call.max /\ ret'.stored = stored
        /\ ret'.value = Len(stored)
    BY <2>1
  <2>4. stored # <<>>
    BY <1>8
  <2>5. ResultIsCount' /\ ShortMeansEnd'
    <3>1. CASE call.op = "readlineb"
      <4>1. LineEnded'
        BY <1>11, <2>3, <2>4, <3>1 DEF LineEnded
      <4> QED
        BY <1>9, <2>3, <3>1, <4>1 DEF ResultIsCount, LineCount, ShortMeansEnd
    <3>2. CASE call.op # "readlineb"
      <4>1. Len(stored) = call.max /\ Len(stored) <= call.max /\ ~(Len(stored) < call.max)
        BY <1>1, <1>8, <1>11, <3>2
      <4> QED
        BY <2>3, <3>2, <4>1 DEF ResultIsCount, LineCount, ShortMeansEnd
    <3> QED
      BY <3>1, <3>2
  <2>6. Returned'
    BY <2>2, <2>5 DEF Returned, ResultsAreRight
  <2>7. Calling'
    <3>1. /\ call'.op = "none" /\ call'.max = 0 /\ call'.stored = <<>>
      BY <2>1 DEF NoCall
    <3>2. <<>> \in Seq(Bytes) /\ Len(<<>>) = 0
      OBVIOUS
    <3>3. call' \in CallTypes
      BY <2>1, <3>2 DEF NoCall, CallTypes, Ops
    <3>4. 0 <= Len(delivered')
      BY <1>1, <1>6
    <3> QED
      BY <2>1, <3>1, <3>2, <3>3, <3>4 DEF Calling
  <2> QED
    BY <1>6, <1>7, <2>6, <2>7
<1>12. CASE ~done
  <2>1. call' = [call EXCEPT !.stored = stored] /\ UNCHANGED ret
    BY <1>2, <1>12 DEF Store
  <2>2. /\ call' \in CallTypes /\ call'.op = call.op /\ call'.max = call.max
        /\ call'.stored = stored
    <3>1. call \in CallTypes
      BY DEF IInv, Calling
    <3> QED
      BY <1>4, <2>1, <3>1 DEF CallTypes
  <2>3. Len(stored) < call.max
    <3>1. CASE call.op = "readlineb"
      BY <1>9, <3>1
    <3>2. CASE call.op # "readlineb"
      BY <1>1, <1>8, <1>10, <1>12, <3>2
    <3> QED
      BY <3>1, <3>2
  <2>4. call.op = "readlineb" => \A i \in 1..Len(stored) : stored[i] \notin newlines
    <3>1. \A i \in 1..Len(stored) : i = Len(stored) \/ i \in 1..Len(stored) - 1
      BY <1>8
    <3> QED
      BY <1>9, <1>12, <3>1
  <2>5. Calling'
    <3>1. call.op = "readn" <=> ~buffered
      BY DEF IInv, Calling
    <3> QED
      BY <1>1, <1>8, <2>2, <2>3, <2>4, <3>1 DEF Calling
  <2>6. delivered # BytesAfter(0, bufp)
    <3>1. Len(delivered) # bufp /\ bufp \in 0..MaxBytes
      BY <1>1
    <3> QED
      BY <1>1, <3>1, EndIs DEF IInv, InOrder
  <2>7. Returned'
    BY <2>1, <2>6 DEF IInv, Returned, ResultsAreRight, ResultIsCount, LineCount, ShortMeansEnd, LineEnded
  <2> QED
    BY <1>6, <1>7, <2>5, <2>7
<1> QED
  BY <1>11, <1>12

(* What the types of a call and a result say for TypeOK. *)
LEMMA CallTypesOK ==
    ASSUME Calling', Returned'
    PROVE  /\ call'.op \in {"none", "readlineb", "readnb", "readn"}
           /\ call'.max \in {0} \cup Lengths /\ call'.stored \in Seq(Bytes)
           /\ ret'.value \in -1..MaxBytes + 1
BY DEF Calling, Returned, CallTypes, RetTypes, Ops

(* _read() fills its empty buffer from the pipe. *)
LEMMA RefillInv ==
    ASSUME IInv, Refill
    PROVE  IInv'
<1>1. /\ cnt <= 0
      /\ UNCHANGED <<newlines, buffered, bufp, nleft, closed, call, ret, delivered>>
      /\ buffered
  BY DEF Refill, MustRefill, inputs, writer, reader
<1>2. PICK k \in 1..Min({BufSize, Len(pipe)}) :
         /\ cnt' = k /\ bufptr' = 0
         /\ buf' = SubSeq(pipe, 1, k) \o SubSeq(buf, k + 1, Len(buf))
         /\ pipe' = SubSeq(pipe, k + 1, Len(pipe))
  BY DEF Refill
<1>3. /\ BufSize \in Nat /\ Len(pipe) \in Nat /\ Len(buf) \in Nat /\ Len(buf) <= BufSize
      /\ Len(delivered) \in Nat /\ bufp \in Nat /\ PipeSize \in Nat /\ Len(pipe) <= PipeSize
  BY Types
<1>4. pipe \in Seq(Bytes) /\ buf \in Seq(Bytes)
  BY Types
<1>5. k \in Nat /\ k >= 1 /\ k <= BufSize /\ k <= Len(pipe)
  <2>1. /\ Min({BufSize, Len(pipe)}) \in {BufSize, Len(pipe)}
        /\ Min({BufSize, Len(pipe)}) <= BufSize
        /\ Min({BufSize, Len(pipe)}) <= Len(pipe)
    <3>1. BufSize \in Int /\ Len(pipe) \in Int
      BY <1>3
    <3> QED
      BY <3>1, MinOfTwo
  <2> QED
    BY <1>3, <2>1
<1>6. PICK h : h = SubSeq(pipe, 1, k)
  OBVIOUS
<1>7. IsCut(Bytes, pipe, 0, k, h)
  <2>1. 0 \in Nat /\ 0 + k <= Len(pipe) /\ 0 + 1 = 1 /\ 0 + k = k
    BY <1>5
  <2>2. h = SubSeq(pipe, 0 + 1, 0 + k)
    BY <1>6, <2>1
  <2> QED
    BY <1>4, <1>5, <2>1, <2>2, Cut
<1>8. h \in Seq(Bytes) /\ Len(h) = k /\ \A i \in 1..k : h[i] = pipe[0 + i]
  BY <1>7 DEF IsCut
<1>9. PICK t : t = SubSeq(buf, k + 1, Len(buf))
  OBVIOUS
<1>10. t \in Seq(Bytes) /\ Len(t) \in Nat /\ k + Len(t) <= BufSize
  <2>1. CASE k <= Len(buf)
    <3>1. IsCut(Bytes, buf, k, Len(buf) - k, t)
      BY <1>4, <1>5, <1>9, <2>1, CutRest
    <3>2. t \in Seq(Bytes) /\ Len(t) = Len(buf) - k
      BY <3>1 DEF IsCut
    <3> QED
      BY <1>3, <1>5, <2>1, <3>2
  <2>2. CASE ~(k <= Len(buf))
    <3>1. Len(buf) < k + 1 /\ Len(buf) \in Int /\ k + 1 \in Int
      BY <1>3, <1>5, <2>2
    <3>2. t = <<>>
      BY <1>9, <3>1, SubSeqEmpty
    <3>3. <<>> \in Seq(Bytes) /\ Len(<<>>) = 0
      OBVIOUS
    <3> QED
      BY <1>5, <3>2, <3>3
  <2> QED
    BY <2>1, <2>2
<1>11. Joined(Bytes, h, t, buf')
  BY <1>2, <1>6, <1>8, <1>9, <1>10, Concat
<1>12. /\ buf' \in Seq(Bytes) /\ Len(buf') = k + Len(t)
       /\ \A i \in 1..k : buf'[i] = pipe[0 + i]
  BY <1>8, <1>11 DEF Joined
<1>13. IsCut(Bytes, pipe, k, Len(pipe) - k, pipe')
  BY <1>2, <1>4, <1>5, CutRest
<1>14. pipe' \in Seq(Bytes) /\ Len(pipe') = Len(pipe) - k
  BY <1>13 DEF IsCut
<1>15. Kept = 0 /\ Kept' = k
  <2>1. ~(cnt > 0) /\ k > 0
    BY <1>1, <1>5, Types
  <2> QED
    BY <1>2, <2>1 DEF Kept
<1>16. /\ Follow(pipe, Len(delivered)) /\ Len(delivered) + Len(pipe) = bufp
  <2>1. Len(delivered) + 0 = Len(delivered)
    BY <1>3
  <2>2. Follow(pipe, Len(delivered) + 0) /\ Len(delivered) + 0 + Len(pipe) = bufp
    BY <1>15 DEF IInv, InOrder
  <2> QED
    BY <2>1, <2>2
<1>17. \A i \in 1..k : buf'[0 + i] = Len(delivered) + i
  <2>1. \A i \in 1..k : 0 + i = i /\ i \in 1..Len(pipe)
    BY <1>3, <1>5
  <2> QED
    BY <1>12, <1>16, <2>1 DEF Follow
<1>18. Follow(pipe', Len(delivered) + k)
  <2>1. k + (Len(pipe) - k) <= Len(pipe) /\ Len(pipe) - k \in Nat
    BY <1>3, <1>5
  <2> QED
    BY <1>3, <1>4, <1>5, <1>13, <1>16, <2>1, FollowCut
<1>19. Len(delivered) + k + Len(pipe') = bufp /\ 0 + k <= Len(buf')
  <2>1. /\ Len(pipe') = Len(pipe) - k /\ Len(buf') = k + Len(t) /\ Len(t) \in Nat
        /\ Len(delivered) + Len(pipe) = bufp
    BY <1>10, <1>12, <1>14, <1>16
  <2> QED
    BY <1>3, <1>5, <2>1
<1>20. InOrder'
  <2>1. Follow(delivered, 0)
    BY DEF IInv, InOrder
  <2> QED
    BY <1>1, <1>2, <1>15, <1>17, <1>18, <1>19, <2>1 DEF InOrder
<1>21. TypeOK'
  <2>1. k \in -1..BufSize /\ 0 \in 0..BufSize
    BY <1>3, <1>5
  <2>2. Len(buf') <= BufSize /\ Len(pipe') <= PipeSize
    BY <1>3, <1>5, <1>10, <1>12, <1>14
  <2> QED
    BY <1>1, <1>2, <1>12, <1>14, <2>1, <2>2 DEF IInv, TypeOK
<1>22. Writing' /\ Calling'
  BY <1>1 DEF IInv, Writing, Calling
<1> QED
  BY <1>1, <1>20, <1>21, <1>22, StillReturned DEF IInv

(* _read() meets the end, an error or a signal instead. *)
LEMMA NoRefillInv ==
    ASSUME IInv, RefillEof \/ RefillFails \/ RefillInterrupted
    PROVE  IInv'
<1>1. /\ call.op # "none" /\ ~LineFull /\ cnt <= 0 /\ buffered
      /\ UNCHANGED <<newlines, buffered, pipe, bufp, nleft, closed, bufptr, buf, delivered>>
      /\ cnt' \in {0, -1}
  BY DEF RefillEof, RefillFails, RefillInterrupted, MustRefill, Reading, inputs, writer, reader
<1>2. cnt' \in -1..BufSize /\ Kept = 0 /\ Kept' = 0
  <2>1. cnt \in Int /\ BufSize \in Nat
    BY Types
  <2>2. ~(cnt > 0) /\ ~(cnt' > 0) /\ cnt' \in -1..BufSize
    BY <1>1, <2>1
  <2> QED
    BY <2>2 DEF Kept
<1>3. CASE RefillEof
  <2>1. pipe = <<>> /\ closed /\ Return(call.stored, EofValue)
    BY <1>3 DEF RefillEof
  <2> QED
    BY <1>1, <1>2, <2>1, EofReturns
<1>4. CASE RefillFails
  <2>1. Return(call.stored, -1)
    BY <1>4 DEF RefillFails
  <2> QED
    BY <1>1, <1>2, <2>1, FailsReturns
<1>5. CASE RefillInterrupted
  <2>1. UNCHANGED <<call, ret>>
    BY <1>5 DEF RefillInterrupted, reader
  <2>2. TypeOK' /\ InOrder' /\ Writing' /\ Calling'
    BY <1>1, <1>2, <2>1 DEF IInv, TypeOK, InOrder, Writing, Calling
  <2> QED
    BY <1>1, <2>1, <2>2, StillReturned DEF IInv
<1> QED
  BY <1>3, <1>4, <1>5

(* _read() hands bytes of its buffer to the caller. *)
LEMMA CopyInv ==
    ASSUME IInv, Copy
    PROVE  IInv'
<1>1. /\ call.op # "none" /\ ~LineFull /\ cnt > 0 /\ buffered
      /\ UNCHANGED <<newlines, buffered, pipe, bufp, nleft, closed, buf>>
  BY DEF Copy, Reading, inputs, writer
<1>2. PICK n : n = IF call.op = "readlineb" THEN 1 ELSE call.max - Len(call.stored)
  OBVIOUS
<1>3. PICK k : k = Min({n, cnt})
  OBVIOUS
<1>4. /\ Store(SubSeq(buf, bufptr + 1, bufptr + k))
      /\ bufptr' = bufptr + k /\ cnt' = cnt - k
  BY <1>2, <1>3 DEF Copy
<1>5. /\ Len(call.stored) \in Nat /\ call.max \in Nat /\ Len(call.stored) < call.max
      /\ cnt \in Int /\ bufptr \in Nat /\ Len(buf) \in Nat /\ BufSize \in Nat
      /\ Len(buf) <= BufSize /\ Len(delivered) \in Nat /\ Len(pipe) \in Nat /\ bufp \in Nat
  BY <1>1, Types DEF IInv, Calling
<1>6. /\ n \in Int /\ n >= 1
      /\ call.op = "readlineb" => n = 1
      /\ call.op # "readlineb" => n = call.max - Len(call.stored)
  BY <1>2, <1>5
<1>7. k \in Nat /\ k >= 1 /\ k <= n /\ k <= cnt
  <2>1. Min({n, cnt}) \in {n, cnt} /\ Min({n, cnt}) <= n /\ Min({n, cnt}) <= cnt
    BY <1>5, <1>6, MinOfTwo
  <2> QED
    BY <1>1, <1>3, <1>5, <1>6, <2>1
<1>8. Kept = cnt /\ Kept' = cnt - k
  <2>1. IF cnt - k > 0 THEN TRUE ELSE cnt - k = 0
    BY <1>5, <1>7
  <2> QED
    BY <1>1, <1>4, <2>1 DEF Kept
<1>9. /\ \A i \in 1..cnt : buf[bufptr + i] = Len(delivered) + i
      /\ Follow(pipe, Len(delivered) + cnt)
      /\ Len(delivered) + cnt + Len(pipe) = bufp /\ bufptr + cnt <= Len(buf)
  BY <1>8 DEF IInv, InOrder
<1>10. PICK bytes : bytes = SubSeq(buf, bufptr + 1, bufptr + k)
  OBVIOUS
<1>11. IsCut(Bytes, buf, bufptr, k, bytes)
  <2>1. bufptr + k <= Len(buf)
    BY <1>5, <1>7, <1>9
  <2>2. buf \in Seq(Bytes)
    BY Types
  <2> QED
    BY <1>5, <1>7, <1>10, <2>1, <2>2, Cut
<1>12. /\ bytes \in Seq(Bytes) /\ Len(bytes) = k
       /\ \A i \in 1..k : bytes[i] = buf[bufptr + i]
  BY <1>11 DEF IsCut
<1>13. Follow(bytes, Len(delivered))
  <2>1. \A i \in 1..k : i \in 1..cnt
    BY <1>5, <1>7
  <2> QED
    BY <1>9, <1>12, <2>1 DEF Follow
<1>14. /\ Len(bytes) >= 1 /\ Len(delivered) + Len(bytes) <= bufp
       /\ call.op = "readlineb" => Len(bytes) = 1
       /\ call.op # "readlineb" => Len(call.stored) + Len(bytes) <= call.max
  <2>1. Len(delivered) + k <= bufp
    BY <1>5, <1>7, <1>9
  <2>2. call.op = "readlineb" => k = 1
    BY <1>6, <1>7
  <2>3. call.op # "readlineb" => Len(call.stored) + k <= call.max
    BY <1>5, <1>6, <1>7
  <2> QED
    BY <1>7, <1>12, <2>1, <2>2, <2>3
<1>15. /\ delivered' \in Seq(Bytes) /\ Len(delivered') = Len(delivered) + k
       /\ Follow(delivered', 0) /\ Calling' /\ Returned'
  BY <1>1, <1>4, <1>10, <1>12, <1>13, <1>14, StoreInv
<1>16. InOrder'
  <2>1. /\ Len(delivered') + Kept' = Len(delivered) + cnt
        /\ Len(delivered') + Kept' + Len(pipe) = bufp /\ bufptr' + Kept' <= Len(buf)
    <3>1. /\ Len(delivered') = Len(delivered) + k /\ Kept' = cnt - k /\ bufptr' = bufptr + k
      BY <1>4, <1>8, <1>15
    <3>2. Len(delivered) + cnt + Len(pipe) = bufp /\ bufptr + cnt <= Len(buf)
      BY <1>9
    <3> QED
      BY <1>5, <1>7, <3>1, <3>2
  <2>2. ASSUME NEW i \in 1..Kept' PROVE buf[bufptr' + i] = Len(delivered') + i
    <3>1. /\ k + i \in 1..cnt /\ bufptr' + i = bufptr + (k + i)
          /\ Len(delivered') + i = Len(delivered) + (k + i)
      <4>1. /\ Len(delivered') = Len(delivered) + k /\ Kept' = cnt - k
            /\ bufptr' = bufptr + k
        BY <1>4, <1>8, <1>15
      <4>2. i \in 1..cnt - k
        BY <4>1
      <4> QED
        BY <1>5, <1>7, <4>1, <4>2
    <3> QED
      BY <1>9, <3>1
  <2>3. Follow(pipe, Len(delivered') + Kept')
    BY <1>9, <2>1
  <2> QED
    BY <1>1, <1>15, <2>1, <2>2, <2>3 DEF InOrder
<1>17. TypeOK'
  <2>1. cnt' \in -1..BufSize /\ bufptr' \in 0..BufSize
    <3>1. cnt \in -1..BufSize
      BY DEF IInv, TypeOK
    <3> QED
      BY <1>4, <1>5, <1>7, <1>9, <3>1
  <2> QED
    BY <1>1, <1>15, <2>1, CallTypesOK DEF IInv, TypeOK
<1> QED
  BY <1>1, <1>15, <1>16, <1>17 DEF IInv, Writing

(* A round of readn(), which has no buffer of its own. *)
LEMMA ReadnInv ==
    ASSUME IInv, Readn \/ ReadnFails
    PROVE  IInv'
<1>1. /\ call.op # "none" /\ ~LineFull /\ ~buffered
      /\ UNCHANGED <<newlines, buffered, bufp, nleft, closed, cnt, bufptr, buf>>
  BY DEF Readn, ReadnFails, Reading, inputs, writer, riob
<1>2. cnt = 0 /\ Kept = 0 /\ Kept' = 0 /\ cnt' \in -1..BufSize /\ call.op = "readn"
  BY <1>1 DEF IInv, InOrder, Calling, Kept, TypeOK
<1>3. CASE ReadnFails
  <2>1. Return(call.stored, -1) /\ UNCHANGED <<pipe, delivered>>
    BY <1>3 DEF ReadnFails
  <2> QED
    BY <1>1, <1>2, <2>1, FailsReturns
<1>4. CASE /\ pipe = <<>> /\ closed
           /\ Return(call.stored, EofValue)
           /\ UNCHANGED <<pipe, delivered>>
  BY <1>1, <1>2, <1>4, EofReturns
<1>5. ASSUME NEW k \in 1..Min({call.max - Len(call.stored), Len(pipe)}),
             Store(SubSeq(pipe, 1, k)), pipe' = SubSeq(pipe, k + 1, Len(pipe))
      PROVE  IInv'
  <2>1. /\ Len(call.stored) \in Nat /\ call.max \in Nat /\ Len(delivered) \in Nat
        /\ Len(pipe) \in Nat /\ bufp \in Nat /\ PipeSize \in Nat /\ Len(pipe) <= PipeSize
    BY Types
  <2>2. k \in Nat /\ k >= 1 /\ k <= call.max - Len(call.stored) /\ k <= Len(pipe)
    <3>1. call.max - Len(call.stored) \in Int /\ Len(pipe) \in Int
      BY <2>1
    <3>2. /\ Min({call.max - Len(call.stored), Len(pipe)}) \in {call.max - Len(call.stored), Len(pipe)}
          /\ Min({call.max - Len(call.stored), Len(pipe)}) <= call.max - Len(call.stored)
          /\ Min({call.max - Len(call.stored), Len(pipe)}) <= Len(pipe)
      BY <3>1, MinOfTwo
    <3> QED
      BY <1>5, <3>1, <3>2
  <2>3. /\ Follow(pipe, Len(delivered)) /\ Len(delivered) + Len(pipe) = bufp
    <3>1. Len(delivered) + 0 = Len(delivered)
      BY <2>1
    <3>2. Follow(pipe, Len(delivered) + 0) /\ Len(delivered) + 0 + Len(pipe) = bufp
      BY <1>2 DEF IInv, InOrder
    <3> QED
      BY <3>1, <3>2
  <2>4. PICK bytes : bytes = SubSeq(pipe, 1, k)
    OBVIOUS
  <2>5. pipe \in Seq(Bytes) /\ 0 \in Nat /\ 0 + k <= Len(pipe)
    BY <2>2, Types
  <2>6. IsCut(Bytes, pipe, 0, k, bytes)
    <3>1. bytes = SubSeq(pipe, 0 + 1, 0 + k)
      <4>1. 0 + 1 = 1 /\ 0 + k = k
        BY <2>2
      <4> QED
        BY <2>4, <4>1
    <3> QED
      BY <2>2, <2>5, <3>1, Cut
  <2>7. bytes \in Seq(Bytes) /\ Len(bytes) = k
    BY <2>6 DEF IsCut
  <2>8. Follow(bytes, Len(delivered))
    <3>1. Follow(bytes, Len(delivered) + 0) /\ Len(delivered) + 0 = Len(delivered)
      BY <2>1, <2>2, <2>3, <2>5, <2>6, FollowCut
    <3> QED
      BY <3>1
  <2>9. /\ Len(bytes) >= 1 /\ Len(delivered) + Len(bytes) <= bufp
        /\ Len(call.stored) + Len(bytes) <= call.max
    BY <2>1, <2>2, <2>3, <2>7
  <2>10. /\ delivered' \in Seq(Bytes) /\ Len(delivered') = Len(delivered) + k
         /\ Follow(delivered', 0) /\ Calling' /\ Returned'
    BY <1>1, <1>2, <1>5, <2>4, <2>7, <2>8, <2>9, StoreInv
  <2>11. IsCut(Bytes, pipe, k, Len(pipe) - k, pipe')
    BY <1>5, <2>2, <2>5, CutRest
  <2>12. pipe' \in Seq(Bytes) /\ Len(pipe') = Len(pipe) - k
    BY <2>11 DEF IsCut
  <2>13. Follow(pipe', Len(delivered) + k)
    <3>1. k + (Len(pipe) - k) <= Len(pipe) /\ Len(pipe) - k \in Nat
      BY <2>1, <2>2
    <3> QED
      BY <2>1, <2>2, <2>3, <2>5, <2>11, <3>1, FollowCut
  <2>14. /\ Len(delivered') + 0 = Len(delivered) + k
         /\ Len(delivered') + 0 + Len(pipe') = bufp /\ Len(pipe') <= PipeSize
    <3>1. /\ Len(delivered') = Len(delivered) + k /\ Len(pipe') = Len(pipe) - k
          /\ Len(delivered) + Len(pipe) = bufp
      BY <2>3, <2>10, <2>12
    <3> QED
      BY <2>1, <2>2, <3>1
  <2>15. InOrder'
    <3>1. Follow(pipe', Len(delivered') + 0) /\ \A i \in 1..0 : FALSE
      BY <2>13, <2>14
    <3>2. bufptr + 0 <= Len(buf)
      BY <1>2 DEF IInv, InOrder
    <3> QED
      BY <1>1, <1>2, <2>10, <2>14, <3>1, <3>2 DEF InOrder
  <2>16. TypeOK'
    BY <1>1, <2>10, <2>12, <2>14, CallTypesOK DEF IInv, TypeOK
  <2> QED
    BY <1>1, <2>10, <2>15, <2>16 DEF IInv, Writing
<1> QED
  BY <1>3, <1>4, <1>5 DEF Readn

-----------------------------------------------------------------------------
(* Nothing was written or read at the start. *)
LEMMA InitIInv == Init => IInv
<1> SUFFICES ASSUME Init PROVE IInv
  OBVIOUS
<1>1. /\ MaxBytes \in Nat /\ PipeSize \in Nat /\ BufSize \in Nat
  BY RioAssumption
<1>2. /\ 0 \in 0..MaxBytes /\ 0 \in -1..BufSize /\ 0 \in 0..BufSize /\ 0 <= PipeSize
      /\ 0 <= BufSize /\ 0 \in -1..MaxBytes + 1 /\ 0 + 0 <= MaxBytes
  BY <1>1
<1>3. <<>> \in Seq(Bytes) /\ Len(<<>>) = 0
  OBVIOUS
<1>4. /\ call = NoCall /\ call.op = "none" /\ call.max = 0 /\ call.stored = <<>>
      /\ ret.op = "none" /\ ret.value = 0
  BY DEF Init, NoCall, NoReturn
<1>5. TypeOK
  BY <1>2, <1>3, <1>4 DEF Init, TypeOK
<1>6. Kept = 0
  BY DEF Init, Kept
<1>7. InOrder
  BY <1>3, <1>6 DEF Init, InOrder, Follow
<1>8. Calling
  <2>1. call \in CallTypes
    BY <1>3, <1>4 DEF NoCall, CallTypes, Ops
  <2>2. 0 <= 0
    OBVIOUS
  <2> QED
    BY <1>3, <1>4, <2>1, <2>2 DEF Init, Calling
<1>9. Returned
  <2>1. ret \in RetTypes
    BY <1>2, <1>3 DEF Init, NoReturn, RetTypes, Ops
  <2> QED
    BY <1>4, <2>1 DEF Returned, ResultsAreRight
<1> QED
  BY <1>2, <1>5, <1>7, <1>8, <1>9 DEF Init, IInv, Writing

(* Every step of writer and reader keeps the invariant. *)
LEMMA NextIInv == IInv /\ [Next]_vars => IInv'
<1> SUFFICES ASSUME IInv, [Next]_vars PROVE IInv'
  OBVIOUS
<1>1. CASE (\E n \in Lengths : Writen(n)) \/ Write \/ WriteFails \/ Close
  BY <1>1, WriterInv
<1>2. CASE \E op \in {"readlineb", "readnb", "readn"}, max \in Lengths : Call(op, max)
  BY <1>2, CallInv
<1>3. CASE LineFullReturns
  BY <1>3, LineFullReturnsInv
<1>4. CASE Refill
  BY <1>4, RefillInv
<1>5. CASE RefillEof \/ RefillFails \/ RefillInterrupted
  BY <1>5, NoRefillInv
<1>6. CASE Copy
  BY <1>6, CopyInv
<1>7. CASE Readn \/ ReadnFails
  BY <1>7, ReadnInv
<1>8. CASE UNCHANGED vars
  BY <1>8 DEF vars, inputs, writer, riob, reader, IInv, TypeOK, InOrder, Kept, Writing,
             Calling, Returned, ResultsAreRight, ResultIsCount, LineCount, ShortMeansEnd, LineEnded
<1> QED
  BY <1>1, <1>2, <1>3, <1>4, <1>5, <1>6, <1>7, <1>8 DEF Next, ReaderStep, Failure

(* What NothingLost says of the whole stream follows from what InOrder     *)
(* says of each byte.                                                      *)
LEMMA InOrderIsNothingLost ==
    ASSUME IInv
    PROVE  delivered \o Unread \o pipe = BytesAfter(0, bufp)
<1>1. /\ Follow(delivered, 0) /\ Follow(pipe, Len(delivered) + Kept)
      /\ \A i \in 1..Kept : buf[bufptr + i] = Len(delivered) + i
      /\ Len(delivered) + Kept + Len(pipe) = bufp
      /\ bufptr + Kept <= Len(buf)
  BY DEF IInv, InOrder
<1>2. /\ delivered \in Seq(Bytes) /\ pipe \in Seq(Bytes) /\ buf \in Seq(Bytes)
      /\ Kept \in Nat /\ bufptr \in Nat /\ Len(delivered) \in Nat /\ Len(buf) \in Nat
      /\ cnt \in Int
  BY Types
<1>3. PICK u : u = Unread
  OBVIOUS
<1>4. IsCut(Bytes, buf, bufptr, Kept, u)
  <2>1. CASE cnt > 0
    <3>1. Kept = cnt
      BY <2>1 DEF Kept
    <3>2. u = SubSeq(buf, bufptr + 1, bufptr + Kept)
      BY <1>3, <3>1 DEF Unread
    <3> QED
      BY <1>1, <1>2, <3>2, Cut
  <2>2. CASE ~(cnt > 0)
    <3>1. bufptr + cnt < bufptr + 1 /\ bufptr + cnt \in Int /\ bufptr + 1 \in Int
      BY <1>2, <2>2
    <3>2. u = <<>>
      BY <1>3, <3>1, SubSeqEmpty DEF Unread
    <3>3. Kept = 0
      BY <2>2 DEF Kept
    <3>4. <<>> \in Seq(Bytes) /\ Len(<<>>) = 0 /\ \A i \in 1..0 : FALSE
      OBVIOUS
    <3> QED
      BY <3>2, <3>3, <3>4 DEF IsCut
  <2> QED
    BY <2>1, <2>2
<1>5. u \in Seq(Bytes) /\ Len(u) = Kept /\ Follow(u, Len(delivered))
  BY <1>1, <1>4 DEF IsCut, Follow
<1>6. PICK v : v = delivered \o u
  OBVIOUS
<1>7. Joined(Bytes, delivered, u, v)
  BY <1>2, <1>5, <1>6, Concat
<1>8. v \in Seq(Bytes) /\ Len(v) = Len(delivered) + Kept
  BY <1>5, <1>7 DEF Joined
<1>9. Follow(v, 0)
  <2>1. 0 \in Nat /\ 0 + Len(delivered) = Len(delivered)
    BY <1>2
  <2> QED
    BY <1>1, <1>2, <1>5, <1>7, <2>1, FollowJoined
<1>10. PICK w : w = v \o pipe
  OBVIOUS
<1>11. Joined(Bytes, v, pipe, w)
  BY <1>2, <1>8, <1>10, Concat
<1>12. w \in Seq(Bytes) /\ Len(w) = bufp
  BY <1>1, <1>8, <1>11 DEF Joined
<1>13. Follow(w, 0)
  <2>1. 0 \in Nat /\ 0 + Len(v) = Len(delivered) + Kept
    BY <1>2, <1>8
  <2> QED
    BY <1>1, <1>2, <1>8, <1>9, <1>11, <2>1, FollowJoined
<1>14. bufp \in 0..MaxBytes
  BY DEF IInv, TypeOK
<1>15. w = BytesAfter(0, bufp)
  BY <1>12, <1>13, <1>14, EndIs
<1> QED
  BY <1>3, <1>6, <1>10, <1>15

(* No byte is lost, repeated or reordered on its way from writen() to the  *)
(* buffers of the reader, wherever read() and write() cut the stream or    *)
(* fail, for any sizes of the pipe, of Riob's buffer and of the calls.     *)
THEOREM NothingLostHolds == Spec => []NothingLost
<1>1. IInv => NothingLost
  BY InOrderIsNothingLost DEF IInv, NothingLost
<1> QED
  BY <1>1, InitIInv, NextIInv, PTL DEF Spec

(* What readlineb(), readnb() and readn() return is right: the count, the  *)
(* end of a line and a short count only at the end of the stream.          *)
THEOREM ResultsAreRightHolds == Spec => []ResultsAreRight
<1>1. IInv => ResultsAreRight
  BY DEF IInv, Returned
<1> QED
  BY <1>1, InitIInv, NextIInv, PTL DEF Spec

-----------------------------------------------------------------------------
(* HyBuffer. *)

Buffers == [buffer : Seq(ByteValues), r : Nat, w : Nat]

(* The readable bytes of x are s. *)
Holds(x, s) ==
    /\ x \in Buffers /\ s \in Seq(ByteValues)
    /\ x.r + Len(s) = x.w /\ x.w <= Len(x.buffer)
    /\ \A i \in 1..Len(s) : x.buffer[x.r + i] = s[i]

(* y is x with chunk stored from position at on, as far as it goes *)
IsStored(x, at, chunk, y) ==
    /\ y \in Buffers /\ y.r = x.r /\ y.w = x.w
    /\ Len(y.buffer) = Len(x.buffer)
    /\ \A i \in 1..Len(x.buffer) :
          y.buffer[i] = IF at < i /\ i <= at + Len(chunk) THEN chunk[i - at]
                                                          ELSE x.buffer[i]

(* What is in the vector after a store, position by position. *)
LEMMA StoredIs ==
    ASSUME NEW x \in Buffers, NEW at \in Nat, NEW chunk \in Seq(ByteValues)
    PROVE  IsStored(x, at, chunk, Stored(x, at, chunk))
<1> DEFINE f == [i \in 1..Len(x.buffer) |-> IF i \in at + 1..at + Len(chunk)
                                              THEN chunk[i - at] ELSE x.buffer[i]]
<1>1. Len(x.buffer) \in Nat /\ Len(chunk) \in Nat /\ x.buffer \in Seq(ByteValues)
  BY LenProperties DEF Buffers
<1>2. \A i \in 1..Len(x.buffer) :
         i \in at + 1..at + Len(chunk) => i - at \in 1..Len(chunk)
  BY <1>1
<1>3. \A i \in 1..Len(x.buffer) : f[i] \in ByteValues
  BY <1>1, <1>2, ElementOfSeq
<1>4. f \in Seq(ByteValues)
  BY <1>1, <1>3, IsASeq
<1>5. Len(f) = Len(x.buffer)
  BY <1>1
<1>6. Stored(x, at, chunk) = [x EXCEPT !.buffer = f]
  BY DEF Stored, Size
<1>7. \A i \in 1..Len(x.buffer) :
         i \in at + 1..at + Len(chunk) <=> at < i /\ i <= at + Len(chunk)
  BY <1>1
<1>8. \A i \in 1..Len(x.buffer) :
         f[i] = IF at < i /\ i <= at + Len(chunk) THEN chunk[i - at] ELSE x.buffer[i]
  BY <1>7
<1> HIDE DEF f
<1> QED
  BY <1>4, <1>5, <1>6, <1>8 DEF Buffers, IsStored

(* The vector after resize(). *)
LEMMA ResizedIs ==
    ASSUME Zero \in ByteValues, NEW x \in Buffers, NEW n \in Nat
    PROVE  /\ Resized(x, n) \in Buffers
           /\ Resized(x, n).r = x.r /\ Resized(x, n).w = x.w
           /\ Len(Resized(x, n).buffer) = x.w + n
           /\ \A i \in 1..Len(x.buffer) :
                 i <= x.w => Resized(x, n).buffer[i] = x.buffer[i]
<1> DEFINE f == [i \in 1..x.w + n |-> IF i <= Len(x.buffer) THEN x.buffer[i] ELSE Zero]
<1>1. Len(x.buffer) \in Nat /\ x.w + n \in Nat /\ x.w \in Nat /\ x.buffer \in Seq(ByteValues)
  BY LenProperties DEF Buffers
<1>2. \A i \in 1..x.w + n : i <= Len(x.buffer) => i \in 1..Len(x.buffer)
  BY <1>1
<1>3. \A i \in 1..x.w + n : f[i] \in ByteValues
  BY <1>1, <1>2, ElementOfSeq
<1>4. f \in Seq(ByteValues)
  BY <1>1, <1>3, IsASeq
<1>5. Len(f) = x.w + n
  BY <1>1
<1>6. \A i \in 1..Len(x.buffer) : i <= x.w => f[i] = x.buffer[i]
  BY <1>1
<1>7. Resized(x, n) = [x EXCEPT !.buffer = f]
  BY DEF Resized, Size
<1> HIDE DEF f
<1> QED
  BY <1>4, <1>5, <1>6, <1>7 DEF Buffers

(* The readable bytes, as the reader gets them. *)
LEMMA PayloadIs ==
    ASSUME NEW x, NEW s, Holds(x, s)
    PROVE  Payload(x) = s
<1>1. /\ x.r \in Nat /\ x.w \in Nat /\ x.buffer \in Seq(ByteValues) /\ s \in Seq(ByteValues)
      /\ Len(s) \in Nat /\ Len(x.buffer) \in Nat /\ x.w = x.r + Len(s)
      /\ x.w <= Len(x.buffer)
  BY LenProperties DEF Holds, Buffers
<1>2. IsCut(ByteValues, x.buffer, x.r, Len(s), Payload(x))
  BY <1>1, Cut DEF Payload
<1> QED
  BY <1>1, <1>2, SeqEqual DEF IsCut, Holds

(* reserve() keeps the readable bytes, wherever it puts them, and makes    *)
(* room for n bytes when there are none.                                   *)
LEMMA ReserveKeeps ==
    ASSUME NEW x, NEW s, Holds(x, s), NEW n \in Nat,
           Len(x.buffer) >= Prependable
    PROVE  /\ Holds(Reserve(x, n), s)
           /\ Len(Reserve(x, n).buffer) >= Prependable
           /\ s = <<>> => Reserve(x, n).w + n <= Len(Reserve(x, n).buffer)
<1>1. /\ x \in Buffers /\ x.r \in Nat /\ x.w \in Nat /\ s \in Seq(ByteValues)
      /\ Len(s) \in Nat /\ Len(x.buffer) \in Nat /\ x.w = x.r + Len(s)
      /\ x.w <= Len(x.buffer) /\ x.r <= x.w
      /\ \A i \in 1..Len(s) : x.buffer[x.r + i] = s[i]
  BY LenProperties DEF Holds, Buffers
<1>2. Prependable \in Nat /\ Zero \in ByteValues
  BY BufferAssumption
<1>3. /\ WritableBytes(x) = Len(x.buffer) - x.r
      /\ PrependableBytes(x) = x.r
      /\ ReadableBytes(x) = Len(s)
  BY <1>1 DEF WritableBytes, PrependableBytes, ReadableBytes, Size
<1>4. s = <<>> => Len(s) = 0
  OBVIOUS
<1>5. CASE Len(x.buffer) - x.r >= n
  <2>1. Reserve(x, n) = x
    <3>1. WritableBytes(x) >= n /\ ~(WritableBytes(x) < n)
      BY <1>1, <1>3, <1>5
    <3> QED
      BY <3>1 DEF Reserve
  <2> QED
    BY <1>1, <1>4, <1>5, <2>1
<1>6. CASE Len(x.buffer) - x.r < n /\ Len(x.buffer) < n + Prependable
  <2>1. Reserve(x, n) = Resized(x, n)
    <3>1. ~(WritableBytes(x) >= n)
      BY <1>1, <1>3, <1>6
    <3>2. WritableBytes(x) < n
      BY <1>3, <1>6
    <3>3. WritableBytes(x) + PrependableBytes(x) < n + Prependable
      BY <1>1, <1>3, <1>6
    <3> QED
      BY <3>1, <3>2, <3>3 DEF Reserve
  <2>2. PICK y : y = Resized(x, n)
    OBVIOUS
  <2>3. /\ y \in Buffers /\ y.r = x.r /\ y.w = x.w /\ Len(y.buffer) = x.w + n
        /\ \A i \in 1..Len(x.buffer) : i <= x.w => y.buffer[i] = x.buffer[i]
    BY <1>1, <1>2, <2>2, ResizedIs
  <2>4. \A i \in 1..Len(s) : x.r + i \in 1..Len(x.buffer) /\ x.r + i <= x.w
    BY <1>1
  <2>5. \A i \in 1..Len(s) : y.buffer[x.r + i] = s[i]
    BY <1>1, <2>3, <2>4
  <2>6. x.w + n >= Prependable /\ x.w <= x.w + n
    BY <1>1, <1>2, <1>6
  <2> QED
    BY <1>1, <2>1, <2>2, <2>3, <2>5, <2>6 DEF Holds
<1>7. CASE Len(x.buffer) - x.r < n /\ ~(Len(x.buffer) < n + Prependable)
  <2>1. Reserve(x, n) = Moved(x)
    <3>1. ~(WritableBytes(x) >= n)
      BY <1>1, <1>3, <1>7
    <3>2. ~(WritableBytes(x) + PrependableBytes(x) < n + Prependable)
      BY <1>1, <1>3, <1>7
    <3> QED
      BY <3>1, <3>2 DEF Reserve
  <2>2. Payload(x) = s
    BY PayloadIs
  <2>3. PICK z : z = Stored(x, Prependable, s)
    OBVIOUS
  <2>4. /\ z \in Buffers /\ Len(z.buffer) = Len(x.buffer)
        /\ \A i \in 1..Len(x.buffer) :
              z.buffer[i] = IF Prependable < i /\ i <= Prependable + Len(s)
                              THEN s[i - Prependable] ELSE x.buffer[i]
    <3>1. IsStored(x, Prependable, s, z)
      BY <1>1, <1>2, <2>3, StoredIs
    <3> QED
      BY <3>1 DEF IsStored
  <2>5. PICK y : y = [z EXCEPT !.r = Prependable, !.w = Prependable + Len(s)]
    OBVIOUS
  <2>6. Reserve(x, n) = y
    BY <1>3, <2>1, <2>2, <2>3, <2>5 DEF Moved
  <2>7. Prependable + Len(s) \in Nat
    BY <1>1, <1>2
  <2>8. y \in Buffers /\ y.buffer = z.buffer /\ y.r = Prependable /\ y.w = Prependable + Len(s)
    BY <1>2, <2>4, <2>5, <2>7 DEF Buffers
  <2>9. Prependable <= x.r /\ Prependable + Len(s) <= Len(x.buffer)
    BY <1>1, <1>2, <1>7
  <2>10. ASSUME NEW i \in 1..Len(s) PROVE z.buffer[Prependable + i] = s[i]
    <3>1. /\ Prependable + i \in 1..Len(x.buffer) /\ Prependable < Prependable + i
          /\ Prependable + i <= Prependable + Len(s) /\ (Prependable + i) - Prependable = i
      BY <1>1, <1>2, <2>9
    <3> QED
      BY <2>4, <3>1
  <2>11. Len(s) = 0 => Prependable + Len(s) + n <= Len(x.buffer)
    BY <1>1, <1>2, <1>7
  <2> QED
    BY <1>1, <1>4, <2>4, <2>6, <2>8, <2>9, <2>10, <2>11 DEF Holds
<1> QED
  BY <1>1, <1>2, <1>5, <1>6, <1>7

(* A chunk that is stored behind the readable bytes. *)
Put(x, chunk) == [Stored(x, x.w, chunk) EXCEPT !.w = x.w + Len(chunk)]

(* As long as the vector goes, it is readable behind them. *)
LEMMA PutKeeps ==
    ASSUME NEW x, NEW s, Holds(x, s), NEW chunk \in Seq(ByteValues)
    PROVE  /\ Put(x, chunk) \in Buffers
           /\ Put(x, chunk).r = x.r /\ Put(x, chunk).w = x.w + Len(chunk)
           /\ Len(Put(x, chunk).buffer) = Len(x.buffer)
           /\ x.w + Len(chunk) <= Len(x.buffer) => Holds(Put(x, chunk), s \o chunk)
<1>1. /\ x \in Buffers /\ x.r \in Nat /\ x.w \in Nat /\ s \in Seq(ByteValues)
      /\ Len(s) \in Nat /\ Len(x.buffer) \in Nat /\ x.w = x.r + Len(s)
      /\ x.w <= Len(x.buffer) /\ Len(chunk) \in Nat
      /\ \A i \in 1..Len(s) : x.buffer[x.r + i] = s[i]
  BY LenProperties DEF Holds, Buffers
<1>2. PICK z : z = Stored(x, x.w, chunk)
  OBVIOUS
<1>3. IsStored(x, x.w, chunk, z)
  BY <1>1, <1>2, StoredIs
<1>4. x.w + Len(chunk) \in Nat
  BY <1>1
<1>5. PICK y : y = Put(x, chunk)
  OBVIOUS
<1>6. /\ y \in Buffers /\ y.r = x.r /\ y.w = x.w + Len(chunk) /\ y.buffer = z.buffer
      /\ Len(y.buffer) = Len(x.buffer)
  BY <1>2, <1>3, <1>4, <1>5 DEF Put, IsStored, Buffers
<1>7. ASSUME x.w + Len(chunk) <= Len(x.buffer) PROVE Holds(y, s \o chunk)
  <2>1. PICK u : u = s \o chunk
    OBVIOUS
  <2>2. Joined(ByteValues, s, chunk, u)
    BY <1>1, <2>1, Concat
  <2>3. ASSUME NEW i \in 1..Len(u) PROVE y.buffer[y.r + i] = u[i]
    <3>1. CASE i <= Len(s)
      <4>1. i \in 1..Len(s) /\ x.r + i \in 1..Len(x.buffer) /\ ~(x.w < x.r + i)
        BY <1>1, <2>2, <3>1 DEF Joined
      <4>2. z.buffer[x.r + i] = x.buffer[x.r + i]
        BY <1>3, <4>1 DEF IsStored
      <4> QED
        BY <1>1, <1>6, <2>2, <4>1, <4>2 DEF Joined
    <3>2. CASE ~(i <= Len(s))
      <4>1. PICK k \in 1..Len(chunk) : i = Len(s) + k
        <5>1. i - Len(s) \in 1..Len(chunk) /\ i = Len(s) + (i - Len(s))
          BY <1>1, <2>2, <3>2 DEF Joined
        <5> QED
          BY <5>1
      <4>2. k \in Nat /\ 1 <= k /\ k <= Len(chunk) /\ i \in Nat
        BY <1>1, <4>1
      <4>5. x.r + i = x.w + k
        BY <1>1, <4>1, <4>2
      <4>6. /\ x.w + k \in 1..Len(x.buffer) /\ x.w < x.w + k
            /\ x.w + k <= x.w + Len(chunk) /\ (x.w + k) - x.w = k
        <5>1. /\ x.w \in Nat /\ Len(chunk) \in Nat /\ Len(x.buffer) \in Nat
              /\ x.w + Len(chunk) <= Len(x.buffer)
          BY <1>1, <1>7
        <5>2. x.w + k <= Len(x.buffer) /\ 1 <= x.w + k /\ x.w + k \in Nat
          BY <4>2, <5>1
        <5> QED
          BY <4>2, <5>1, <5>2
      <4>3. z.buffer[x.r + i] = chunk[k]
        BY <1>3, <4>5, <4>6 DEF IsStored
      <4> QED
        BY <1>6, <2>2, <4>1, <4>3 DEF Joined
    <3> QED
      BY <3>1, <3>2
  <2>4. /\ u \in Seq(ByteValues) /\ Len(u) = Len(s) + Len(chunk)
        /\ y.r + Len(u) = y.w /\ y.w <= Len(y.buffer)
    BY <1>1, <1>6, <1>7, <2>2 DEF Joined
  <2> QED
    BY <1>6, <2>1, <2>3, <2>4 DEF Holds
<1> QED
  BY <1>5, <1>6, <1>7

(* What append() and readFd() may do with a chunk: put it behind the       *)
(* readable bytes s, or store behind the end of the vector.                *)
TookIn(s, chunk, a) ==
    /\ a.x \in Buffers /\ a.x.r <= a.x.w /\ Len(a.x.buffer) >= Prependable
    /\ a.bad \in BOOLEAN
    /\ ~a.bad => Holds(a.x, s \o chunk)

(* append() does so, and stays in the vector when nothing was readable. *)
LEMMA AppendKeeps ==
    ASSUME NEW x, NEW s, Holds(x, s),
           Len(x.buffer) >= Prependable, NEW chunk \in Seq(ByteValues)
    PROVE  /\ TookIn(s, chunk, Appended(x, chunk))
           /\ s = <<>> => ~Appended(x, chunk).bad
<1>1. Len(chunk) \in Nat
  OBVIOUS
<1>2. PICK y : y = Reserve(x, Len(chunk))
  OBVIOUS
<1>3. /\ Holds(y, s) /\ Len(y.buffer) >= Prependable
      /\ s = <<>> => y.w + Len(chunk) <= Len(y.buffer)
  BY <1>1, <1>2, ReserveKeeps
<1>4. Appended(x, chunk) = [x |-> Put(y, chunk), bad |-> y.w + Len(chunk) > Len(y.buffer)]
  BY <1>2 DEF Appended, Overruns, Size, Put
<1>5. /\ Put(y, chunk) \in Buffers
      /\ Put(y, chunk).r = y.r /\ Put(y, chunk).w = y.w + Len(chunk)
      /\ Len(Put(y, chunk).buffer) = Len(y.buffer)
      /\ y.w + Len(chunk) <= Len(y.buffer) => Holds(Put(y, chunk), s \o chunk)
  BY <1>3, PutKeeps
<1>6. y.w \in Nat /\ y.r \in Nat /\ y.r <= y.w /\ Len(y.buffer) \in Nat
  BY <1>3, LenProperties DEF Holds, Buffers
<1>7. PICK a : a = Appended(x, chunk)
  OBVIOUS
<1>8. a.x = Put(y, chunk) /\ a.bad = (y.w + Len(chunk) > Len(y.buffer))
  BY <1>4, <1>7
<1>9. a.x.r <= a.x.w
  BY <1>1, <1>5, <1>6, <1>8
<1>10. a.bad <=> ~(y.w + Len(chunk) <= Len(y.buffer))
  <2>1. (y.w + Len(chunk) > Len(y.buffer)) <=> ~(y.w + Len(chunk) <= Len(y.buffer))
    BY <1>1, <1>6
  <2> QED
    BY <1>8, <2>1, Zenon
<1>11. a.bad \in BOOLEAN
  BY <1>8
<1> QED
  BY <1>3, <1>5, <1>7, <1>8, <1>9, <1>10, <1>11 DEF TookIn

(* A buffer whose indices are in order holds what is between them. *)
LEMMA HoldsPayload ==
    ASSUME NEW x \in Buffers, x.r <= x.w, x.w <= Len(x.buffer)
    PROVE  Holds(x, Payload(x))
<1>1. /\ x.r \in Nat /\ x.w \in Nat /\ x.buffer \in Seq(ByteValues)
      /\ Len(x.buffer) \in Nat
  BY LenProperties DEF Buffers
<1>2. x.w - x.r \in Nat /\ x.r + (x.w - x.r) = x.w
  BY <1>1
<1>3. IsCut(ByteValues, x.buffer, x.r, x.w - x.r, Payload(x))
  BY <1>1, <1>2, Cut DEF Payload
<1> QED
  BY <1>1, <1>2, <1>3 DEF IsCut, Holds

(* readFd() does so too; what it reads into the vector itself stays there  *)
(* when nothing was readable.                                              *)
LEMMA ReadKeeps ==
    ASSUME NEW x, NEW s, Holds(x, s),
           Len(x.buffer) >= Prependable, NEW chunk \in Seq(ByteValues)
    PROVE  /\ TookIn(s, chunk, ReadInto(x, chunk))
           /\ s = <<>> /\ Len(chunk) <= WritableBytes(x)
                 => ~ReadInto(x, chunk).bad
<1> DEFINE m == Len(x.buffer) - x.r
<1>1. /\ x \in Buffers /\ x.r \in Nat /\ x.w \in Nat /\ s \in Seq(ByteValues)
      /\ Len(s) \in Nat /\ Len(x.buffer) \in Nat /\ x.w = x.r + Len(s)
      /\ x.w <= Len(x.buffer) /\ Len(chunk) \in Nat
      /\ x.buffer \in Seq(ByteValues)
  BY LenProperties DEF Holds, Buffers
<1>2. m \in Nat /\ x.r + m = Len(x.buffer) /\ WritableBytes(x) = m
  BY <1>1 DEF WritableBytes, Size
<1>3. s = <<>> => Len(s) = 0
  OBVIOUS
<1>4. PICK a : a = ReadInto(x, chunk)
  OBVIOUS
<1> HIDE DEF m
<1>5. CASE Len(chunk) <= m
  <2>1. a = [x |-> Put(x, chunk), bad |-> x.w + Len(chunk) > Len(x.buffer)]
    BY <1>2, <1>4, <1>5 DEF ReadInto, Overruns, Size, Put
  <2>2. a.x = Put(x, chunk) /\ a.bad = (x.w + Len(chunk) > Len(x.buffer))
    BY <2>1
  <2>3. a.bad \in BOOLEAN
    BY <2>2
  <2>4. a.bad <=> ~(x.w + Len(chunk) <= Len(x.buffer))
    <3>1. (x.w + Len(chunk) > Len(x.buffer)) <=> ~(x.w + Len(chunk) <= Len(x.buffer))
      BY <1>1
    <3> QED
      BY <2>2, <3>1, Zenon
  <2>5. /\ a.x \in Buffers
        /\ a.x.r = x.r /\ a.x.w = x.w + Len(chunk)
        /\ Len(a.x.buffer) = Len(x.buffer)
        /\ x.w + Len(chunk) <= Len(x.buffer) => Holds(a.x, s \o chunk)
    BY <2>2, PutKeeps
  <2>6. a.x.r <= a.x.w
    BY <1>1, <2>5
  <2>7. s = <<>> => ~a.bad
    BY <1>1, <1>2, <1>3, <1>5, <2>4
  <2> QED
    BY <1>4, <2>3, <2>4, <2>5, <2>6, <2>7 DEF TookIn
<1>6. CASE ~(Len(chunk) <= m)
  <2>1. PICK first, rest : first = SubSeq(chunk, 1, m) /\ rest = SubSeq(chunk, m + 1, Len(chunk))
    OBVIOUS
  <2>2. first \in Seq(ByteValues) /\ Len(first) = m /\ \A i \in 1..m : first[i] = chunk[i]
    <3>1. 0 + 1 = 1 /\ 0 + m = m /\ m <= Len(chunk) /\ \A i \in 1..m : 0 + i = i
      BY <1>1, <1>2, <1>6
    <3>2. IsCut(ByteValues, chunk, 0, m, first)
      BY <1>1, <1>2, <2>1, <3>1, Cut
    <3> QED
      BY <3>1, <3>2 DEF IsCut
  <2>3. IsCut(ByteValues, chunk, m, Len(chunk) - m, rest)
    <3>1. m <= Len(chunk)
      BY <1>1, <1>2, <1>6
    <3> QED
      BY <1>2, <2>1, <3>1, CutRest
  <2>4. PICK z : z = [Stored(x, x.w, first) EXCEPT !.w = Len(x.buffer)]
    OBVIOUS
  <2>5. IsStored(x, x.w, first, Stored(x, x.w, first))
    BY <1>1, <2>2, StoredIs
  <2>6. /\ z \in Buffers /\ z.r = x.r /\ z.w = Len(x.buffer)
        /\ Len(z.buffer) = Len(x.buffer)
    BY <1>1, <2>4, <2>5 DEF IsStored, Buffers
  <2>7. PICK t : t = Payload(z)
    OBVIOUS
  <2>8. Holds(z, t)
    BY <1>1, <2>6, <2>7, HoldsPayload
  <2>9. PICK filled : filled = Appended(z, rest)
    OBVIOUS
  <2>10. TookIn(t, rest, filled)
    BY <2>3, <2>6, <2>8, <2>9, AppendKeeps DEF IsCut
  <2>11. a = [x |-> filled.x, bad |-> filled.bad \/ x.w + Len(first) > Len(x.buffer)]
    BY <1>2, <1>4, <1>6, <2>1, <2>4, <2>9 DEF ReadInto, Overruns, Size
  <2>12. a.x = filled.x /\ a.bad = (filled.bad \/ x.w + Len(first) > Len(x.buffer))
    BY <2>11
  <2>13. a.bad \in BOOLEAN
    BY <2>12
  <2>14. ASSUME ~a.bad PROVE Holds(a.x, s \o chunk)
    <3>1. ~filled.bad /\ ~(x.w + Len(first) > Len(x.buffer))
      BY <2>12, <2>14
    <3>2. Len(s) = 0 /\ x.w = x.r
      BY <1>1, <1>2, <2>2, <3>1
    <3>3. z = Put(x, first)
      BY <1>2, <2>2, <2>4, <3>2 DEF Put
    <3>4. Holds(z, s \o first)
      <4>1. x.w + Len(first) <= Len(x.buffer)
        BY <1>1, <1>2, <2>2, <3>2
      <4> QED
        BY <2>2, <3>3, <4>1, PutKeeps
    <3>5. t = s \o first
      BY <2>7, <3>4, PayloadIs
    <3>6. (s \o first) \o rest = s \o chunk
      <4>1. s = <<>> /\ rest \in Seq(ByteValues)
        BY <1>1, <2>3, <3>2, EmptySeq DEF IsCut
      <4>2. s \o first = first /\ s \o chunk = chunk
        BY <2>2, <4>1
      <4>3. PICK u : u = first \o rest
        OBVIOUS
      <4>4. Joined(ByteValues, first, rest, u)
        BY <2>2, <4>1, <4>3, Concat
      <4>5. Len(u) = Len(chunk)
        BY <1>1, <1>2, <2>2, <2>3, <4>4 DEF Joined, IsCut
      <4>6. ASSUME NEW i \in 1..Len(chunk) PROVE u[i] = chunk[i]
        <5>1. CASE i <= m
          BY <1>1, <1>2, <2>2, <4>4, <5>1 DEF Joined
        <5>2. CASE ~(i <= m)
          <6>1. PICK k \in 1..Len(chunk) - m : i = m + k
            <7>1. i - m \in 1..Len(chunk) - m /\ i = m + (i - m)
              BY <1>1, <1>2, <5>2
            <7> QED
              BY <7>1
          <6> QED
            BY <2>2, <2>3, <4>4, <6>1 DEF Joined, IsCut
        <5> QED
          BY <5>1, <5>2
      <4>7. u \in Seq(ByteValues)
        BY <4>4 DEF Joined
      <4>8. u = chunk
        BY <4>5, <4>6, <4>7, SeqEqual
      <4> QED
        BY <4>2, <4>3, <4>8
    <3> QED
      BY <2>10, <2>12, <3>1, <3>5, <3>6 DEF TookIn
  <2> QED
    BY <1>2, <1>4, <1>6, <2>10, <2>12, <2>13, <2>14 DEF TookIn
<1> QED
  BY <1>5, <1>6
-----------------------------------------------------------------------------
(* The inductive invariant: the types, and as long as no store went behind *)
(* the end, the bytes between the two indices are those not consumed.      *)
BufferInv ==
    /\ b \in Buffers /\ b.r <= b.w
    /\ Len(b.buffer) \in Prependable..MaxSize
    /\ overrun \in BOOLEAN /\ unread \in Seq(ByteValues)
    /\ ~overrun => Holds(b, unread)

(* A chunk is a sequence of bytes that is not empty. *)
LEMMA ChunkIs ==
    ASSUME NEW chunk \in Chunks
    PROVE  chunk \in Seq(ByteValues) /\ Len(chunk) \in Nat /\ Len(chunk) \in 1..MaxChunk
<1>1. PICK n \in 1..MaxChunk : chunk \in [1..n -> ByteValues]
  BY DEF Chunks
<1>2. n \in Nat
  BY <1>1, BufferAssumption
<1>3. chunk \in Seq(ByteValues) /\ Len(chunk) = n
  BY <1>1, <1>2
<1> QED
  BY <1>1, <1>2, <1>3

(* append() and readFd() keep the invariant. *)
LEMMA PutInInv ==
    ASSUME BufferInv, NEW chunk \in Seq(ByteValues), NEW a,
           ~overrun => TookIn(unread, chunk, a), PutIn(a, chunk)
    PROVE  BufferInv'
<1>1. /\ ~overrun /\ Len(a.x.buffer) <= MaxSize
      /\ b' = a.x /\ unread' = unread \o chunk /\ overrun' = a.bad
  BY DEF PutIn, Size
<1>2. /\ b' \in Buffers /\ b'.r <= b'.w /\ Len(b'.buffer) >= Prependable
      /\ overrun' \in BOOLEAN
      /\ ~overrun' => Holds(b', unread')
  BY <1>1 DEF TookIn
<1>3. unread' \in Seq(ByteValues)
  BY <1>1, ConcatProperties DEF BufferInv
<1>4. Len(b'.buffer) \in Nat
  BY <1>2, LenProperties DEF Buffers
<1>5. Len(b'.buffer) \in Prependable..MaxSize
  BY <1>1, <1>2, <1>4, BufferAssumption
<1> QED
  BY <1>2, <1>3, <1>5 DEF BufferInv, Holds

(* prepend() puts a chunk in front of the readable bytes. *)
LEMMA PrependInv ==
    ASSUME BufferInv, NEW chunk \in Seq(ByteValues), Prepend(chunk)
    PROVE  BufferInv'
<1>1. /\ ~overrun /\ Len(chunk) <= b.r
      /\ b' = [Stored(b, b.r - Len(chunk), chunk) EXCEPT !.r = b.r - Len(chunk)]
      /\ unread' = chunk \o unread /\ overrun' = overrun
  BY DEF Prepend, PrependableBytes
<1>2. /\ b \in Buffers /\ b.r \in Nat /\ b.w \in Nat /\ unread \in Seq(ByteValues)
      /\ Len(unread) \in Nat /\ Len(b.buffer) \in Nat /\ b.w = b.r + Len(unread)
      /\ b.w <= Len(b.buffer) /\ Len(chunk) \in Nat
      /\ \A i \in 1..Len(unread) : b.buffer[b.r + i] = unread[i]
  BY <1>1, LenProperties DEF BufferInv, Holds, Buffers
<1>3. PICK at : at = b.r - Len(chunk)
  OBVIOUS
<1>4. at \in Nat /\ at + Len(chunk) = b.r
  BY <1>1, <1>2, <1>3
<1>5. PICK z : z = Stored(b, at, chunk)
  OBVIOUS
<1>6. IsStored(b, at, chunk, z)
  BY <1>2, <1>4, <1>5, StoredIs
<1>7. /\ b' \in Buffers /\ b'.r = at /\ b'.w = b.w /\ b'.buffer = z.buffer
      /\ Len(b'.buffer) = Len(b.buffer)
  BY <1>1, <1>3, <1>4, <1>5, <1>6 DEF IsStored, Buffers
<1>8. Joined(ByteValues, chunk, unread, unread')
  BY <1>1, <1>2, Concat
<1>9. /\ unread' \in Seq(ByteValues) /\ Len(unread') = Len(chunk) + Len(unread)
      /\ at + Len(unread') = b.w /\ at <= b.w
  BY <1>2, <1>4, <1>8 DEF Joined
<1>10. ASSUME NEW i \in 1..Len(unread') PROVE z.buffer[at + i] = unread'[i]
  <2>1. CASE i <= Len(chunk)
    <3>1. i \in 1..Len(chunk) /\ at < at + i /\ at + i <= at + Len(chunk) /\ (at + i) - at = i
      BY <1>2, <1>4, <1>9, <2>1
    <3>2. at + i \in 1..Len(b.buffer)
      BY <1>2, <1>4, <3>1
    <3> QED
      BY <1>6, <1>8, <3>1, <3>2 DEF Joined, IsStored
  <2>2. CASE ~(i <= Len(chunk))
    <3>1. PICK k \in 1..Len(unread) : i = Len(chunk) + k
      <4>1. i - Len(chunk) \in 1..Len(unread) /\ i = Len(chunk) + (i - Len(chunk))
        BY <1>2, <1>9, <2>2
      <4> QED
        BY <4>1
    <3>2. at + i = b.r + k
      BY <1>2, <1>4, <3>1
    <3>3. b.r + k \in 1..Len(b.buffer) /\ ~(b.r + k <= at + Len(chunk))
      <4>1. /\ b.r \in Nat /\ Len(unread) \in Nat /\ Len(b.buffer) \in Nat
            /\ b.r + Len(unread) <= Len(b.buffer)
        BY <1>2
      <4>2. b.r + k \in 1..Len(b.buffer) /\ ~(b.r + k <= b.r)
        BY <3>1, <4>1
      <4> QED
        BY <1>4, <4>2
    <3>4. z.buffer[b.r + k] = b.buffer[b.r + k]
      BY <1>6, <3>3 DEF IsStored
    <3> QED
      BY <1>2, <1>8, <3>1, <3>2, <3>4 DEF Joined
  <2> QED
    BY <2>1, <2>2
<1> QED
  BY <1>1, <1>2, <1>7, <1>9, <1>10 DEF BufferInv, Holds

(* clear() gives up the first readable bytes. *)
LEMMA ClearInv ==
    ASSUME BufferInv, NEW length \in Nat, Clear(length)
    PROVE  BufferInv'
<1>1. /\ ~overrun /\ length \in 1..b.w - b.r
      /\ b' = [b EXCEPT !.r = @ + length]
      /\ unread' = SubSeq(unread, length + 1, Len(unread)) /\ overrun' = overrun
  BY DEF Clear, ReadableBytes
<1>2. /\ b \in Buffers /\ b.r \in Nat /\ b.w \in Nat /\ unread \in Seq(ByteValues)
      /\ Len(unread) \in Nat /\ Len(b.buffer) \in Nat /\ b.w = b.r + Len(unread)
      /\ b.w <= Len(b.buffer)
      /\ \A i \in 1..Len(unread) : b.buffer[b.r + i] = unread[i]
  BY <1>1, LenProperties DEF BufferInv, Holds, Buffers
<1>3. length <= Len(unread)
  BY <1>1, <1>2
<1>4. IsCut(ByteValues, unread, length, Len(unread) - length, unread')
  BY <1>1, <1>2, <1>3, CutRest
<1>5. b.r + length \in Nat
  BY <1>2
<1>6. b' \in Buffers /\ b'.r = b.r + length /\ b'.w = b.w /\ b'.buffer = b.buffer
  BY <1>1, <1>2, <1>5 DEF Buffers
<1>7. /\ unread' \in Seq(ByteValues) /\ Len(unread') = Len(unread) - length
      /\ \A i \in 1..Len(unread') : unread'[i] = unread[length + i]
  BY <1>4 DEF IsCut
<1>8. /\ b.r + length <= b.w /\ (b.r + length) + Len(unread') = b.w
      /\ \A i \in 1..Len(unread') : /\ length + i \in 1..Len(unread)
                                    /\ b.r + (length + i) = (b.r + length) + i
  BY <1>2, <1>3, <1>7
<1>9. \A i \in 1..Len(unread') : b.buffer[(b.r + length) + i] = unread'[i]
  BY <1>2, <1>7, <1>8
<1> QED
  BY <1>1, <1>2, <1>6, <1>7, <1>8, <1>9 DEF BufferInv, Holds

(* clearAll() gives up all of them. *)
LEMMA ClearAllInv ==
    ASSUME BufferInv, ClearAll
    PROVE  BufferInv'
<1>1. /\ b' = [b EXCEPT !.r = Prependable, !.w = Prependable]
      /\ unread' = <<>> /\ overrun' = overrun
  BY DEF ClearAll
<1>2. Prependable \in Nat /\ MaxSize \in Nat
  BY BufferAssumption
<1>3. /\ b' \in Buffers /\ b'.r = Prependable /\ b'.w = Prependable
      /\ b'.buffer = b.buffer
  BY <1>1, <1>2 DEF BufferInv, Buffers
<1>4. unread' \in Seq(ByteValues) /\ Len(unread') = 0
  BY <1>1
<1>5. Prependable <= Len(b.buffer) /\ Len(b.buffer) \in Prependable..MaxSize
  BY <1>2 DEF BufferInv
<1> QED
  BY <1>1, <1>2, <1>3, <1>4, <1>5 DEF BufferInv, Holds

(* The constructor's buffer holds nothing. *)
LEMMA InitBufferInv == BufferInit => BufferInv
<1> SUFFICES ASSUME BufferInit PROVE BufferInv
  OBVIOUS
<1> DEFINE f == [i \in 1..Prependable + InitialSize |-> Zero]
<1>1. /\ Prependable \in Nat /\ InitialSize \in Nat /\ MaxSize \in Nat /\ Zero \in ByteValues
      /\ Prependable + InitialSize <= MaxSize /\ Prependable + InitialSize \in Nat
  BY BufferAssumption
<1>2. f \in Seq(ByteValues)
  BY <1>1, IsASeq
<1>3. Len(f) = Prependable + InitialSize
  BY <1>1
<1>4. /\ b = [buffer |-> f, r |-> Prependable, w |-> Prependable]
      /\ unread = <<>> /\ overrun = FALSE
  BY DEF BufferInit, Empty
<1> HIDE DEF f
<1>5. b \in Buffers /\ b.buffer = f /\ b.r = Prependable /\ b.w = Prependable
  BY <1>1, <1>2, <1>4 DEF Buffers
<1>6. unread \in Seq(ByteValues) /\ Len(unread) = 0
  BY <1>4
<1>7. Len(f) \in Prependable..MaxSize /\ Prependable <= Len(f)
  BY <1>1, <1>3
<1>8. Holds(b, unread)
  <2>1. Prependable + 0 = Prependable
    BY <1>1
  <2>2. 1..0 = {}
    OBVIOUS
  <2> QED
    BY <1>5, <1>6, <1>7, <2>1, <2>2 DEF Holds
<1>9. b.r <= b.w /\ Len(b.buffer) \in Prependable..MaxSize
  BY <1>1, <1>5, <1>7
<1> QED
  BY <1>4, <1>5, <1>6, <1>8, <1>9 DEF BufferInv

(* Every operation keeps the invariant. *)
LEMMA NextBufferInv == BufferInv /\ [BufferNext]_bufferVars => BufferInv'
<1> SUFFICES ASSUME BufferInv, [BufferNext]_bufferVars PROVE BufferInv'
  OBVIOUS
<1>1. ~overrun => Holds(b, unread) /\ Len(b.buffer) >= Prependable
  BY BufferAssumption DEF BufferInv
<1>2. ASSUME NEW chunk \in Chunks, AppendChunk(chunk) PROVE BufferInv'
  <2>1. chunk \in Seq(ByteValues)
    BY <1>2, ChunkIs
  <2>2. ~overrun => TookIn(unread, chunk, Appended(b, chunk))
    BY <1>1, <2>1, AppendKeeps
  <2> QED
    BY <1>2, <2>1, <2>2, PutInInv DEF AppendChunk
<1>3. ASSUME NEW chunk \in Chunks, ReadFd(chunk) PROVE BufferInv'
  <2>1. chunk \in Seq(ByteValues)
    BY <1>3, ChunkIs
  <2>2. ~overrun => TookIn(unread, chunk, ReadInto(b, chunk))
    BY <1>1, <2>1, ReadKeeps
  <2> QED
    BY <1>3, <2>1, <2>2, PutInInv DEF ReadFd
<1>4. ASSUME NEW chunk \in Chunks, Prepend(chunk) PROVE BufferInv'
  BY <1>4, ChunkIs, PrependInv
<1>5. ASSUME NEW length \in 1..MaxSize, Clear(length) PROVE BufferInv'
  <2>1. length \in Nat
    BY BufferAssumption
  <2> QED
    BY <1>5, <2>1, ClearInv
<1>6. CASE UNCHANGED bufferVars
  BY <1>6 DEF bufferVars, BufferInv, Holds
<1> QED
  BY <1>2, <1>3, <1>4, <1>5, <1>6, ClearAllInv DEF BufferNext

(* append(), prepend(), readFd(), clear() and clearAll() of a HyBuffer of  *)
(* any size: what is readable is what was put in and not consumed.         *)
THEOREM ContentIntactHolds == BufferSpec => []ContentIntact
<1>1. BufferInv => ContentIntact
  <2> SUFFICES ASSUME BufferInv PROVE ContentIntact
    OBVIOUS
  <2>1. ~overrun => Payload(b) = unread
    BY PayloadIs DEF BufferInv
  <2>2. b.buffer \in Seq(ByteValues) /\ b.r \in Nat /\ b.w \in Nat /\ 0 <= b.r
    BY DEF BufferInv, Buffers
  <2> QED
    BY <2>1, <2>2 DEF BufferInv, Holds, ContentIntact, BufferTypeOK, Size
<1> QED
  BY <1>1, InitBufferInv, NextBufferInv, PTL DEF BufferSpec

(* An append(), and a readFd() into the vector itself, with nothing left   *)
(* to read stays inside the vector, for every size and every history.      *)
THEOREM DrainedIsSafeHolds == BufferSpec => DrainedIsSafe
<1> DEFINE Drained == overrun' /\ ReadableBytes(b) = 0 =>
                        \A chunk \in Chunks :
                           /\ ~AppendChunk(chunk)
                           /\ ~(ReadFd(chunk) /\ Len(chunk) <= WritableBytes(b))
<1>1. ASSUME BufferInv PROVE Drained
  <2> SUFFICES ASSUME overrun', ReadableBytes(b) = 0, NEW chunk \in Chunks
               PROVE  /\ ~AppendChunk(chunk)
                      /\ ~(ReadFd(chunk) /\ Len(chunk) <= WritableBytes(b))
    OBVIOUS
  <2>1. chunk \in Seq(ByteValues)
    BY ChunkIs
  <2>2. ASSUME ~overrun PROVE unread = <<>>
    <3>1. /\ b.r \in Nat /\ b.w \in Nat /\ unread \in Seq(ByteValues) /\ Len(unread) \in Nat
          /\ b.r + Len(unread) = b.w /\ b.w - b.r = 0
      BY <1>1, <2>2, LenProperties DEF BufferInv, Holds, Buffers, ReadableBytes
    <3>2. Len(unread) = 0
      BY <3>1
    <3> QED
      BY <3>1, <3>2, EmptySeq
  <2>3. ~overrun => Holds(b, unread) /\ Len(b.buffer) >= Prependable
    BY <1>1, BufferAssumption DEF BufferInv
  <2>4. ASSUME AppendChunk(chunk) PROVE FALSE
    <3>1. ~overrun /\ overrun' = Appended(b, chunk).bad
      BY <2>4 DEF AppendChunk, PutIn
    <3>2. ~Appended(b, chunk).bad
      BY <2>1, <2>2, <2>3, <3>1, AppendKeeps
    <3> QED
      BY <3>1, <3>2
  <2>5. ASSUME ReadFd(chunk), Len(chunk) <= WritableBytes(b) PROVE FALSE
    <3>1. ~overrun /\ overrun' = ReadInto(b, chunk).bad
      BY <2>5 DEF ReadFd, PutIn
    <3>2. ~ReadInto(b, chunk).bad
      BY <2>1, <2>2, <2>3, <2>5, <3>1, ReadKeeps
    <3> QED
      BY <3>1, <3>2
  <2> QED
    BY <2>4, <2>5
<1>2. BufferInv /\ [BufferNext]_bufferVars => [Drained]_bufferVars
  BY <1>1
<1> HIDE DEF Drained
<1>3. BufferSpec => [][Drained]_bufferVars
  BY <1>2, InitBufferInv, NextBufferInv, PTL DEF BufferSpec
<1> QED
  BY <1>3 DEF Drained, DrainedIsSafe

=============================================================================
