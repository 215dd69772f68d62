------------------------------ MODULE RobustIo ------------------------------
(***************************************************************************)
(* Riob and Rio of src/robustio.cpp between a writer and a reader that     *)
(* share a pipe or a socket.  The writer calls Rio::writen(); the reader   *)
(* calls Riob::readlineb() and Riob::readnb() in any mixture, or, when it  *)
(* has no Riob, Rio::readn().  read() and write() transfer as many bytes   *)
(* as they like, fail, or are interrupted by a signal.                     *)
(*                                                                         *)
(* A byte is its position in what the writer sends; newlines is the set of *)
(* positions that hold '\n'.  A system call is one step, and so is a copy  *)
(* out of the internal buffer with the loop test that follows it.  A       *)
(* call that is interrupted and repeated without any change of state (the  *)
(* EINTR branches of readn() and writen()) is a stuttering step.           *)
(***************************************************************************)
EXTENDS Integers, Sequences, FiniteSetsExt

CONSTANTS
    MaxBytes,    \* bytes the writer sends in all
    PipeSize,    \* capacity of the pipe
    BufSize,     \* RIO_BUFSIZE
    Lengths      \* the lengths and maxlens calls are made with

ASSUME RioAssumption ==
    /\ {MaxBytes, PipeSize, BufSize} \subseteq Nat \ {0}
    /\ Lengths \subseteq Nat \ {0}

VARIABLES
    newlines, buffered,    \* chosen at the start: see above, is there a Riob
    pipe, closed,          \* bytes in the pipe; the writer closed its end
    bufp, nleft,           \* of writen(): last byte written, bytes left
    cnt, bufptr, buf,      \* _cnt, _bufptr (as an offset), _buf
    call,                  \* the call of the reader that runs
    ret,                   \* what its last call returned
    delivered              \* history: bytes stored into its usrbufs, in order

inputs == <<newlines, buffered>>
writer == <<bufp, nleft, closed>>
riob == <<cnt, bufptr, buf>>
reader == <<call, ret, delivered>>
vars == <<inputs, pipe, writer, riob, reader>>

Bytes == 1..MaxBytes
BytesAfter(a, b) == [i \in 1..(b - a) |-> a + i]    \* the bytes a + 1 .. b

NoCall == [op |-> "none", max |-> 0, stored |-> <<>>]
NoReturn == [op |-> "none", max |-> 0, stored |-> <<>>, value |-> 0]
Unread == SubSeq(buf, bufptr + 1, bufptr + cnt)

TypeOK ==
    /\ newlines \subseteq Bytes /\ buffered \in BOOLEAN
    /\ pipe \in Seq(Bytes) /\ Len(pipe) <= PipeSize /\ closed \in BOOLEAN
    /\ bufp \in 0..MaxBytes /\ nleft \in 0..MaxBytes
    /\ cnt \in -1..BufSize /\ bufptr \in 0..BufSize
    /\ buf \in Seq(Bytes) /\ Len(buf) <= BufSize
    /\ call.op \in {"none", "readlineb", "readnb", "readn"}
    /\ call.max \in {0} \cup Lengths /\ call.stored \in Seq(Bytes)
    /\ ret.value \in -1..MaxBytes + 1
    /\ delivered \in Seq(Bytes)

Init ==
    /\ newlines \in SUBSET Bytes /\ buffered \in BOOLEAN
    /\ pipe = <<>> /\ closed = FALSE
    /\ bufp = 0 /\ nleft = 0
    /\ cnt = 0 /\ bufptr = 0 /\ buf = <<>>
    /\ call = NoCall /\ ret = NoReturn /\ delivered = <<>>

-----------------------------------------------------------------------------
(* The writer: Rio::writen() *)

Writen(n) ==
    /\ nleft = 0 /\ ~closed
    /\ bufp + n <= MaxBytes
    /\ nleft' = n
    /\ UNCHANGED <<inputs, pipe, closed, bufp, riob, reader>>

(* One write() takes some of what is left; the loop goes on with the rest. *)
Write ==
    /\ nleft > 0
    /\ \E k \in 1..Min({nleft, PipeSize - Len(pipe)}) :
         /\ pipe' = pipe \o BytesAfter(bufp, bufp + k)
         /\ bufp' = bufp + k
         /\ nleft' = nleft - k
    /\ UNCHANGED <<inputs, closed, riob, reader>>

(* writen() returned -1 and its caller gives up, or has sent everything.   *)
WriteFails == nleft > 0 /\ nleft' = 0 /\ closed' = TRUE
              /\ UNCHANGED <<inputs, pipe, bufp, riob, reader>>

Close == nleft = 0 /\ ~closed /\ closed' = TRUE
         /\ UNCHANGED <<inputs, pipe, bufp, nleft, riob, reader>>

-----------------------------------------------------------------------------
(* The reader.  A call returns value, having stored bytes. *)

Return(stored, value) ==
    /\ ret' = [op |-> call.op, max |-> call.max, stored |-> stored,
               value |-> value]
    /\ call' = NoCall

Call(op, max) ==
    /\ call = NoCall
    /\ op = "readn" <=> ~buffered
    /\ call' = [op |-> op, max |-> max, stored |-> <<>>]
    /\ UNCHANGED <<inputs, pipe, writer, riob, ret, delivered>>

(* readlineb() counts with n, from 1: before each byte n is one more than  *)
(* has been stored, and maxlen = 1 returns before anything is read.        *)
LineFull == call.op = "readlineb" /\ Len(call.stored) + 1 >= call.max

LineFullReturns ==
    /\ LineFull
    /\ Return(call.stored, Len(call.stored) + 1)
    /\ UNCHANGED <<inputs, pipe, writer, riob, delivered>>

(* EOF after a partial line taken for EOF with no data *)
EofValueOfNothing == IF call.op = "readlineb" THEN 0 ELSE Len(call.stored)

(* At end of file readlineb() breaks with n, or returns 0 when n = 1; the  *)
(* others return what they stored.                                         *)
EofValue ==
    IF call.op = "readlineb" /\ call.stored # <<>>
      THEN Len(call.stored) + 1
      ELSE Len(call.stored)

(* Stores bytes and goes to the loop test, which may end the call.         *)
Store(bytes) ==
    LET stored == call.stored \o bytes
        done == IF call.op = "readlineb"
                  THEN stored[Len(stored)] \in newlines
                  ELSE Len(stored) = call.max
    IN  /\ delivered' = delivered \o bytes
        /\ IF done THEN Return(stored, Len(stored))
                   ELSE call' = [call EXCEPT !.stored = stored] /\ UNCHANGED ret

Reading == call.op # "none" /\ ~LineFull
MustRefill == Reading /\ buffered /\ cnt <= 0

(* read() in _read(): some bytes, end of file, an error, or a signal, with *)
(* which the loop tries again.                                             *)
Refill ==
    /\ MustRefill
    /\ \E k \in 1..Min({BufSize, Len(pipe)}) :
         /\ cnt' = k
         /\ bufptr' = 0
         /\ buf' = SubSeq(pipe, 1, k) \o SubSeq(buf, k + 1, Len(buf))
         /\ pipe' = SubSeq(pipe, k + 1, Len(pipe))
    /\ UNCHANGED <<inputs, writer, reader>>

(* end of file tried again like an interrupted read() *)
RefillEofRetries ==
    /\ MustRefill
    /\ pipe = <<>> /\ closed
    /\ cnt' = 0
    /\ UNCHANGED <<inputs, pipe, writer, bufptr, buf, reader>>

RefillEof ==
    /\ MustRefill
    /\ pipe = <<>> /\ closed
    /\ cnt' = 0
    /\ Return(call.stored, EofValue)
    /\ UNCHANGED <<inputs, pipe, writer, bufptr, buf, delivered>>

RefillFails ==
    /\ MustRefill
    /\ cnt' = -1
    /\ Return(call.stored, -1)
    /\ UNCHANGED <<inputs, pipe, writer, bufptr, buf, delivered>>

RefillInterrupted ==
    /\ MustRefill
    /\ cnt' = -1
    /\ UNCHANGED <<inputs, pipe, writer, bufptr, buf, reader>>

(* the copy of _read() without the advance of _bufptr *)
CopyKeepsBufptr ==
    /\ Reading /\ buffered /\ cnt > 0
    /\ LET n == IF call.op = "readlineb" THEN 1 ELSE call.max - Len(call.stored)
           k == Min({n, cnt})
       IN  /\ Store(SubSeq(buf, bufptr + 1, bufptr + k))
           /\ cnt' = cnt - k
    /\ UNCHANGED <<inputs, pipe, writer, bufptr, buf>>

(* the copy of _read(): one byte for readlineb(), what is left for readnb() *)
Copy ==
    /\ Reading /\ buffered /\ cnt > 0
    /\ LET n == IF call.op = "readlineb" THEN 1 ELSE call.max - Len(call.stored)
           k == Min({n, cnt})
       IN  /\ Store(SubSeq(buf, bufptr + 1, bufptr + k))
           /\ bufptr' = bufptr + k
           /\ cnt' = cnt - k
    /\ UNCHANGED <<inputs, pipe, writer, buf>>

(* Rio::readn() *)
Readn ==
    /\ Reading /\ ~buffered
    /\ \/ \E k \in 1..Min({call.max - Len(call.stored), Len(pipe)}) :
            /\ Store(SubSeq(pipe, 1, k))
            /\ pipe' = SubSeq(pipe, k + 1, Len(pipe))
       \/ /\ pipe = <<>> /\ closed
          /\ Return(call.stored, EofValue)
          /\ UNCHANGED <<pipe, delivered>>
    /\ UNCHANGED <<inputs, writer, riob>>

ReadnFails ==
    /\ Reading /\ ~buffered
    /\ Return(call.stored, -1)
    /\ UNCHANGED <<inputs, pipe, writer, riob, delivered>>

ReaderStep == LineFullReturns \/ Refill \/ RefillEof \/ Copy \/ Readn
Failure == RefillFails \/ RefillInterrupted \/ ReadnFails

Next ==
    \/ \E n \in Lengths : Writen(n)
    \/ Write \/ WriteFails \/ Close
    \/ \E op \in {"readlineb", "readnb", "readn"}, max \in Lengths : Call(op, max)
    \/ ReaderStep \/ Failure

(* The writer goes on writing and at last closes; a system call that could *)
(* transfer something is not interrupted for ever.                         *)
Spec == Init /\ [][Next]_vars
FairSpec == Spec /\ WF_vars(Write) /\ WF_vars(Close) /\ WF_vars(ReaderStep)

-----------------------------------------------------------------------------
(* Properties *)

(* However read() and write() cut, interrupt or fail, the bytes stored in  *)
(* the buffers of the caller, those _read() keeps between _bufptr and _cnt *)
(* and those in the pipe are, in this order, the bytes that were written.  *)
NothingLost == TypeOK /\ delivered \o Unread \o pipe = BytesAfter(0, bufp)

LineEnded == ret.stored # <<>> /\ ret.stored[Len(ret.stored)] \in newlines

(* What a successful readlineb() returns: the bytes of a line that ended   *)
(* in a newline; 0 when there was room and nothing to store; otherwise,    *)
(* as n runs from 1, one more than it stored.                              *)
LineCount ==
    CASE LineEnded -> Len(ret.stored)
      [] ret.stored = <<>> /\ ret.max > 1 -> 0
      [] OTHER -> Len(ret.stored) + 1

(* A successful readlineb() stored one line at most, left room for the     *)
(* terminating zero and returns LineCount; a successful readnb() or        *)
(* readn() returns the number of bytes it stored.                          *)
ResultIsCount ==
    IF ret.op = "readlineb"
      THEN /\ \A i \in 1..(Len(ret.stored) - 1) : ret.stored[i] \notin newlines
           /\ Len(ret.stored) < ret.max
           /\ ret.value = LineCount
      ELSE ret.value = Len(ret.stored) /\ ret.value <= ret.max

(* One that stored neither a whole line nor as much as there was room for  *)
(* was given the last bytes of the stream: a short count means the end.    *)
ShortMeansEnd ==
    (IF ret.op = "readlineb"
       THEN ~LineEnded /\ Len(ret.stored) + 1 < ret.max
       ELSE Len(ret.stored) < ret.max)
    => closed /\ delivered = BytesAfter(0, bufp)

(* What the calls of readlineb(), readnb() and readn() return can be       *)
(* relied on: the count, the end of the line and the end of the stream.    *)
ResultsAreRight ==
    ret.op # "none" /\ ret.value >= 0 => ResultIsCount /\ ShortMeansEnd

(* Every call of the reader returns.                                       *)
CallsReturn == call # NoCall ~> call = NoCall

=============================================================================
