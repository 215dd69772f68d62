------------------------------ MODULE HyBuffer ------------------------------
(***************************************************************************)
(* HyBuffer (src/HyBuffer.cpp, include/core/HyBuffer.hpp): the bytes of    *)
(* [_readerIndex, _writerIndex) are readable, room in front of them serves *)
(* prepend(), the rest of the vector is filled by append() and readFd().   *)
(*                                                                         *)
(* writableBytes() counts from _readerIndex, so it includes what is still  *)
(* to be read.  overrun records the first store behind the end of the      *)
(* vector; the behaviour of the program is undefined from there on and the *)
(* model stops.  unread is what the callers put in and did not consume     *)
(* yet, against which the vector is compared.                              *)
(***************************************************************************)
EXTENDS Integers, Sequences

CONSTANTS
    Prependable,  \* PREPENDABLEBYTES
    InitialSize,  \* INITIALSIZE
    ByteValues,   \* the values of a byte
    Zero,         \* the one a vector is filled with
    MaxChunk,     \* bound: bytes of one append(), prepend() or readFd()
    MaxSize       \* bound: the size the vector may grow to

ASSUME BufferAssumption ==
    /\ Prependable \in Nat /\ InitialSize \in Nat
    /\ Zero \in ByteValues
    /\ MaxChunk \in Nat \ {0}
    /\ MaxSize \in Nat /\ Prependable + InitialSize <= MaxSize

VARIABLES
    b,        \* the object: [buffer, r, w], r and w its two indices;
              \* position i of the vector is buffer[i + 1]
    unread,   \* history: the bytes handed over and not consumed
    overrun   \* was a byte stored behind the end of the vector?

bufferVars == <<b, unread, overrun>>

Chunks == UNION {[1..n -> ByteValues] : n \in 1..MaxChunk}

Size(x) == Len(x.buffer)
ReadableBytes(x) == x.w - x.r
PrependableBytes(x) == x.r
WritableBytes(x) == Size(x) - x.r
Payload(x) == SubSeq(x.buffer, x.r + 1, x.w)

BufferTypeOK ==
    /\ b.buffer \in Seq(ByteValues)
    /\ Size(b) \in Prependable..MaxSize
    /\ 0 <= b.r /\ b.r <= b.w
    /\ ~overrun => b.w <= Size(b)
    /\ unread \in Seq(ByteValues)
    /\ overrun \in BOOLEAN

Empty == [buffer |-> [i \in 1..Prependable + InitialSize |-> Zero],
          r |-> Prependable, w |-> Prependable]

BufferInit ==
    /\ b = Empty
    /\ unread = <<>>
    /\ overrun = FALSE

-----------------------------------------------------------------------------
(* _buffer.resize(_writerIndex + length) *)
Resized(x, length) ==
    [x EXCEPT !.buffer = [i \in 1..x.w + length |->
                             IF i <= Size(x) THEN x.buffer[i] ELSE Zero]]

(* x with chunk stored from position at on, as far as the vector goes *)
Stored(x, at, chunk) ==
    [x EXCEPT !.buffer = [i \in 1..Size(x) |->
                             IF i \in at + 1..at + Len(chunk)
                               THEN chunk[i - at] ELSE x.buffer[i]]]

Overruns(x, at, chunk) == at + Len(chunk) > Size(x)

(* the move to the front of the indices alone *)
MovedWithoutCopy(x) ==
    [x EXCEPT !.r = Prependable, !.w = Prependable + ReadableBytes(x)]

(* the readable bytes are moved to the front *)
Moved(x) ==
    [Stored(x, Prependable, Payload(x)) EXCEPT
        !.r = Prependable, !.w = Prependable + ReadableBytes(x)]

(* reserve() that looks only at the vector's size *)
ReserveBySize(x, length) == IF Size(x) >= length THEN x ELSE Resized(x, length)

Reserve(x, length) ==
    CASE WritableBytes(x) >= length -> x
      [] /\ WritableBytes(x) < length
         /\ WritableBytes(x) + PrependableBytes(x) < length + Prependable ->
            Resized(x, length)
      [] OTHER -> Moved(x)

(* append(): [x, bad], bad when it stores behind the end *)
Appended(x, chunk) ==
    LET y == Reserve(x, Len(chunk))
    IN  [x   |-> [Stored(y, y.w, chunk) EXCEPT !.w = y.w + Len(chunk)],
         bad |-> Overruns(y, y.w, chunk)]

(* readFd() of chunk: readv() fills writableBytes() bytes from the writer  *)
(* on, and appends the rest from a second array.                           *)
ReadInto(x, chunk) ==
    LET writable == WritableBytes(x)
        first    == SubSeq(chunk, 1, writable)
        rest     == SubSeq(chunk, writable + 1, Len(chunk))
        filled   == Appended([Stored(x, x.w, first) EXCEPT !.w = Size(x)], rest)
    IN  IF Len(chunk) <= writable
          THEN [x   |-> [Stored(x, x.w, chunk) EXCEPT !.w = x.w + Len(chunk)],
                bad |-> Overruns(x, x.w, chunk)]
          ELSE [x   |-> filled.x,
                bad |-> filled.bad \/ Overruns(x, x.w, first)]

-----------------------------------------------------------------------------
PutIn(result, chunk) ==
    /\ ~overrun
    /\ Size(result.x) <= MaxSize
    /\ b' = result.x
    /\ unread' = unread \o chunk
    /\ overrun' = result.bad

AppendChunk(chunk) == PutIn(Appended(b, chunk), chunk)

ReadFd(chunk) == PutIn(ReadInto(b, chunk), chunk)

(* prepend(), with what its assertion asks for *)
Prepend(chunk) ==
    /\ ~overrun
    /\ Len(chunk) <= PrependableBytes(b)
    /\ b' = [Stored(b, b.r - Len(chunk), chunk) EXCEPT !.r = b.r - Len(chunk)]
    /\ unread' = chunk \o unread
    /\ UNCHANGED overrun

(* clear() and clearUntil() of bytes that are there *)
Clear(length) ==
    /\ ~overrun
    /\ length \in 1..ReadableBytes(b)
    /\ b' = [b EXCEPT !.r = @ + length]
    /\ unread' = SubSeq(unread, length + 1, Len(unread))
    /\ UNCHANGED overrun

(* clearAll(), also at the end of readAsString() *)
ClearAll ==
    /\ ~overrun
    /\ b' = [b EXCEPT !.r = Prependable, !.w = Prependable]
    /\ unread' = <<>>
    /\ UNCHANGED overrun

BufferNext ==
    \/ \E chunk \in Chunks : AppendChunk(chunk) \/ ReadFd(chunk) \/ Prepend(chunk)
    \/ \E length \in 1..MaxSize : Clear(length)
    \/ ClearAll

BufferSpec == BufferInit /\ [][BufferNext]_bufferVars

-----------------------------------------------------------------------------
(* What is readable is what was put in and not consumed, in order, however *)
(* the bytes were moved, resized, prepended or split between the two       *)
(* arrays of readFd(); as long as every store stayed inside the vector.    *)
ContentIntact == BufferTypeOK /\ (~overrun => Payload(b) = unread)

(* reserve() is right for a caller that consumed everything: an append(),  *)
(* or a readFd() of no more than writableBytes(), only stores behind the   *)
(* end of the vector when unread bytes are in the buffer.                  *)
DrainedIsSafe ==
    [][overrun' /\ ReadableBytes(b) = 0 =>
          \A chunk \in Chunks :
             /\ ~AppendChunk(chunk)
             /\ ~(ReadFd(chunk) /\ Len(chunk) <= WritableBytes(b))]_bufferVars

=============================================================================
