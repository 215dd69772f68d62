----------------------------- MODULE MCBuffers -----------------------------
(* The two buffers of bytes side by side.  They share nothing: a behaviour *)
(* is one of a HyBuffer or one of a writer and a reader with a Riob, and   *)
(* the other one rests in an initial state.                                *)
EXTENDS HyBuffer, RobustIo

VARIABLE subject

Subjects == {"HyBuffer", "Riob"}

BuffersInit ==
    /\ subject \in Subjects
    /\ BufferInit
    /\ Init
    /\ subject = "HyBuffer" => newlines = {} /\ buffered

OfHyBuffer(action) == subject = "HyBuffer" /\ action /\ UNCHANGED <<subject, vars>>
OfRiob(action) == subject = "Riob" /\ action /\ UNCHANGED <<subject, bufferVars>>

BuffersNext == OfHyBuffer(BufferNext) \/ OfRiob(Next)

(* the fairness of RobustIo's FairSpec *)
BuffersSpec ==
    /\ BuffersInit
    /\ [][BuffersNext]_<<subject, bufferVars, vars>>
    /\ WF_vars(OfRiob(Write))
    /\ WF_vars(OfRiob(Close))
    /\ WF_vars(OfRiob(ReaderStep))
=============================================================================
