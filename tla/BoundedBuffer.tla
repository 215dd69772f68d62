---------------------------- MODULE BoundedBuffer ----------------------------
(***************************************************************************)
(* What SharedBuf promises its threads: a queue of at most Capacity items, *)
(* from which every item that was put in is taken once, in order.          *)
(***************************************************************************)
EXTENDS Naturals, Sequences

CONSTANTS Items, Capacity

VARIABLES queue,   \* the items inside
          taken    \* the items taken out so far, in order

Init ==
    /\ queue = <<>>
    /\ taken = <<>>

Put(item) ==
    /\ Len(queue) < Capacity
    /\ queue' = Append(queue, item)
    /\ UNCHANGED taken

Take ==
    /\ queue # <<>>
    /\ taken' = Append(taken, Head(queue))
    /\ queue' = Tail(queue)

Next == Take \/ \E item \in Items : Put(item)

Spec == Init /\ [][Next]_<<queue, taken>>
=============================================================================
