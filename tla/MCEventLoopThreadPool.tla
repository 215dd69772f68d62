----------------------- MODULE MCEventLoopThreadPool -----------------------
(* A pool of two threads. *)
EXTENDS EventLoopThreadPool

TwoObjects == 1..2
=============================================================================
