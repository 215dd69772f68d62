------------------------------ MODULE MCPoller ------------------------------
(* Poller with four channels over three descriptors, 0 included: the last  *)
(* channel can only register after the one whose descriptor it reuses was  *)
(* removed.                                                                *)
EXTENDS Poller, TLC

CONSTANTS c1, c2, c3, c4

MCChannels == {c1, c2, c3, c4}
MCFdOf == c1 :> 0 @@ c2 :> 1 @@ c3 :> 2 @@ c4 :> 1
=============================================================================
