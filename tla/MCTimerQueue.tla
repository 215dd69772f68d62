---------------------------- MODULE MCTimerQueue ----------------------------
(* TimerQueue with a repeating timer and two others, one of them shorter   *)
(* than the interval.                                                      *)
EXTENDS TimerQueue, TLC

CONSTANTS every, soon, later

MCTimers == {every, soon, later}
MCDelay == every :> 2 @@ soon :> 1 @@ later :> 3
MCInterval == every :> 2 @@ soon :> 0 @@ later :> 0
=============================================================================
