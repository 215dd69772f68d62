----------------------------- MODULE TimerQueue -----------------------------
(***************************************************************************)
(* TimerQueue (src/TimerQueue.cpp) with its Timers (src/Timer.cpp) and the *)
(* runAfter() / runEvery() of EventLoop: timers ordered by expiration, one *)
(* timerfd armed for the earliest of them.                                 *)
(*                                                                         *)
(* Time passes between any two steps, also inside a handler: an expiration *)
(* is computed by the caller, the timerfd is armed later with the          *)
(* difference to the time it is then.  The build compiles assertions out;  *)
(* assertFailed records that the one of resetTimerfd() would have failed.  *)
(***************************************************************************)
EXTENDS Naturals, Sequences, FiniteSetsExt

CONSTANTS
    Timers,    \* the timers that are ever added
    Delay,     \* their delays; for a repeating timer also its first one
    Interval,  \* 0 for a timer that does not repeat
    MaxTime,   \* bound: the clock stops here
    None

ASSUME TimerAssumption ==
    /\ Delay \in [Timers -> Nat]
    /\ Interval \in [Timers -> Nat]
    /\ MaxTime \in Nat
    /\ None \notin Nat

VARIABLES
    now,          \* the clock
    requests,     \* addTimer() functors of other threads, queued in the loop
    timers,       \* _timers: [timer, end]
    timerfd,      \* when the timerfd expires, None when disarmed
    loopPc,       \* "idle", "active": poll() reported the timerfd,
                  \* "callbacks": inside timerHandler()
    handlerNow,   \* the local now of timerHandler()
    expired,      \* its local vector: callbacks still to be run
    finished,     \* ... and entries whose callback returned
    arming,       \* expiration resetTimerfd() is about to arm, or None
    assertFailed, \* resetTimerfd() was called with microSecs <= 0
    added,        \* history: timers given to runAfter() or runEvery()
    hasRun        \* history: timers whose callback ran

history == <<added, hasRun>>
vars == <<now, requests, timers, timerfd, loopPc, handlerNow, expired,
          finished, arming, assertFailed, history>>

Entries == [timer : Timers, end : Nat]

TypeOK ==
    /\ now \in 0..MaxTime
    /\ requests \in Seq(Entries)
    /\ timers \subseteq Entries
    /\ timerfd \in Nat \cup {None}
    /\ loopPc \in {"idle", "active", "callbacks"}
    /\ handlerNow \in 0..now
    /\ expired \subseteq Entries /\ finished \subseteq Entries
    /\ loopPc # "callbacks" => expired = {} /\ finished = {}
    /\ arming \in Nat \cup {None}
    /\ assertFailed \in BOOLEAN
    /\ added \subseteq Timers /\ hasRun \subseteq Timers

Init ==
    /\ now = 0
    /\ requests = <<>>
    /\ timers = {}
    /\ timerfd = None
    /\ loopPc = "idle"
    /\ handlerNow = 0
    /\ expired = {}
    /\ finished = {}
    /\ arming = None
    /\ assertFailed = FALSE
    /\ added = {} /\ hasRun = {}

Held == timers \cup expired \cup finished \cup
        {requests[i] : i \in 1..Len(requests)}

Earliest(entries) == Min({e.end : e \in entries})

-----------------------------------------------------------------------------
Tick ==
    /\ now < MaxTime
    /\ now' = now + 1
    /\ UNCHANGED <<requests, timers, timerfd, loopPc, handlerNow, expired,
                   finished, arming, assertFailed, history>>

(* insert() that reports only the first timer of an empty queue *)
FirstIfEmpty(end) == timers = {}

(* insert(): is the new timer the earliest one? *)
First(end) == timers = {} \/ end < Earliest(timers)

(* addTimerInLoopThread() *)
AddTimerInLoopThread(e) ==
    /\ timers' = timers \cup {e}
    /\ arming' = IF First(e.end) THEN e.end ELSE None

(* runAfter() / runEvery() on the loop thread: in the callback of a        *)
(* channel or of a timer, or outside loop(); runInLoopThread() calls the   *)
(* functor at once.                                                        *)
AddTimer(t) ==
    /\ arming = None
    /\ loopPc = "callbacks" => expired # {}
    /\ t \notin added
    /\ added' = added \cup {t}
    /\ AddTimerInLoopThread([timer |-> t, end |-> now + Delay[t]])
    /\ UNCHANGED <<now, requests, timerfd, loopPc, handlerNow, expired,
                   finished, assertFailed, hasRun>>

(* The same on another thread: the functor is queued... *)
RequestTimer(t) ==
    /\ t \notin added
    /\ added' = added \cup {t}
    /\ requests' = Append(requests, [timer |-> t, end |-> now + Delay[t]])
    /\ UNCHANGED <<now, timers, timerfd, loopPc, handlerNow, expired,
                   finished, arming, assertFailed, hasRun>>

(* ... and run by the loop after it dispatched its channels. *)
RunRequest ==
    /\ loopPc = "idle" /\ arming = None
    /\ requests # <<>>
    /\ AddTimerInLoopThread(Head(requests))
    /\ requests' = Tail(requests)
    /\ UNCHANGED <<now, timerfd, loopPc, handlerNow, expired, finished,
                   assertFailed, history>>

(* resetTimerfd(), with the delay from the time it is by now: zero disarms *)
(* the timerfd and timerfd_settime() rejects a negative one.  The system   *)
(* clock of the expirations and the timerfd's CLOCK_MONOTONIC are one here.*)
ResetTimerfd ==
    /\ arming # None
    /\ timerfd' = CASE arming > now -> arming
                    [] arming = now -> None
                    [] arming < now -> timerfd
    /\ assertFailed' = (assertFailed \/ arming <= now)
    /\ arming' = None
    /\ UNCHANGED <<now, requests, timers, loopPc, handlerNow, expired,
                   finished, history>>

-----------------------------------------------------------------------------
Readable == timerfd # None /\ timerfd <= now

(* poll() reports the channel of the timerfd; the callbacks of other       *)
(* channels may run before its own.                                        *)
PollReturns ==
    /\ loopPc = "idle" /\ arming = None
    /\ Readable
    /\ loopPc' = "active"
    /\ UNCHANGED <<now, requests, timers, timerfd, handlerNow, expired,
                   finished, arming, assertFailed, history>>

(* getExpiration() that erases all that expired and returns the first of it *)
TimerHandlerTakesFirst ==
    /\ loopPc = "active" /\ arming = None
    /\ handlerNow' = now
    /\ timerfd' = IF Readable THEN None ELSE timerfd
    /\ expired' = {e \in timers : e.end <= now /\ e.end = Earliest(timers)}
    /\ timers' = {e \in timers : e.end > now}
    /\ loopPc' = "callbacks"
    /\ UNCHANGED <<now, requests, finished, arming, assertFailed, history>>

(* timerHandler() up to the callbacks: readFd(), which finds nothing when  *)
(* the timerfd was armed anew since poll(), and getExpiration().           *)
TimerHandler ==
    /\ loopPc = "active" /\ arming = None
    /\ handlerNow' = now
    /\ timerfd' = IF Readable THEN None ELSE timerfd
    /\ expired' = {e \in timers : e.end <= now}
    /\ timers' = {e \in timers : e.end > now}
    /\ loopPc' = "callbacks"
    /\ UNCHANGED <<now, requests, finished, arming, assertFailed, history>>

(* The callback of the earliest expired timer returns; ties are in the     *)
(* order of the Timers' addresses.                                         *)
RunCallback ==
    /\ loopPc = "callbacks" /\ arming = None
    /\ \E e \in expired :
          /\ e.end = Earliest(expired)
          /\ expired' = expired \ {e}
          /\ finished' = finished \cup {e}
          /\ hasRun' = hasRun \cup {e.timer}
    /\ UNCHANGED <<now, requests, timers, timerfd, loopPc, handlerNow,
                   arming, assertFailed, added>>

(* Timer::restart() *)
Restart(e) == [e EXCEPT !.end = handlerNow + Interval[e.timer]]

(* reset() that arms the timerfd only for timers it inserts again *)
ResetArmsForRepeats ==
    /\ loopPc = "callbacks" /\ arming = None
    /\ expired = {}
    /\ LET again == {Restart(e) : e \in {f \in finished : Interval[f.timer] > 0}}
       IN  /\ timers' = timers \cup again
           /\ arming' = IF again = {} THEN None ELSE Earliest(timers')
    /\ finished' = {}
    /\ loopPc' = "idle"
    /\ UNCHANGED <<now, requests, timerfd, handlerNow, expired, assertFailed,
                   history>>

(* reset(): the repeating timers are inserted again and the timerfd is     *)
(* armed for the earliest timer.                                           *)
Reset ==
    /\ loopPc = "callbacks" /\ arming = None
    /\ expired = {}
    /\ timers' = timers \cup {Restart(e) : e \in
                                {f \in finished : Interval[f.timer] > 0}}
    /\ arming' = IF timers' = {} THEN None ELSE Earliest(timers')
    /\ finished' = {}
    /\ loopPc' = "idle"
    /\ UNCHANGED <<now, requests, timerfd, handlerNow, expired, assertFailed,
                   history>>

LoopStep ==
    \/ RunRequest
    \/ ResetTimerfd
    \/ PollReturns
    \/ TimerHandler
    \/ RunCallback
    \/ Reset

Next ==
    \/ Tick
    \/ LoopStep
    \/ \E t \in Timers : AddTimer(t) \/ RequestTimer(t)

Spec == Init /\ [][Next]_vars

(* Time goes on and the loop thread is scheduled. *)
FairSpec == Spec /\ WF_vars(Tick) /\ WF_vars(LoopStep)

-----------------------------------------------------------------------------
(* While the loop waits with timers in the queue, the timerfd is armed for *)
(* the earliest of them or before (or has expired): whatever was inserted, *)
(* restarted or armed in between, the next expiration is not slept         *)
(* through.  It can only fail after an arming with no time left.           *)
ArmedForEarliest ==
    (/\ ~assertFailed
     /\ loopPc # "callbacks" /\ arming = None
     /\ timers # {})
    => timerfd # None /\ timerfd <= Earliest(timers)

(* The places that hold t: a request, an entry of _timers, of expiration   *)
(* before its callback or of expiration after it.                          *)
In(place, entries, t) == {<<place, e>> : e \in {f \in entries : f.timer = t}}

Places(t) ==
    {<<"requests", i>> : i \in {j \in 1..Len(requests) : requests[j].timer = t}}
    \cup In("timers", timers, t)
    \cup In("expired", expired, t)
    \cup In("finished", finished, t)

(* A timer that was added is in one place until its callback ran, and a    *)
(* repeating one also then; no timer is in two places, and one that does   *)
(* not repeat is nowhere where its callback could run again.               *)
NoTimerLost ==
    /\ TypeOK
    /\ \A t \in Timers : \A p, q \in Places(t) : p = q
    /\ \A t \in added : t \notin hasRun \/ Interval[t] > 0 => Places(t) # {}
    /\ \A t \in hasRun : Interval[t] = 0 => Places(t) \subseteq In("finished", finished, t)

(* The callback of every timer that is added, and is due before the clock  *)
(* stops, runs; unless some arming had no time left.                       *)
EveryTimerRuns ==
    \A t \in Timers :
        (\E e \in Held : e.timer = t /\ e.end < MaxTime)
            ~> (t \in hasRun \/ assertFailed)

(* resetTimerfd() asserts microSecs > 0 (line 131). *)
DelayIsPositive == ~assertFailed

=============================================================================
