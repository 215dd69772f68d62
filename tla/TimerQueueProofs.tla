-------------------------- MODULE TimerQueueProofs --------------------------
(***************************************************************************)
(* Proofs about TimerQueue for any timers, delays, intervals and clock:    *)
(* no timer is lost or doubled, and the timerfd is armed in time.          *)
(***************************************************************************)
EXTENDS TimerQueue, WellFoundedInduction, SequenceTheorems, TLAPS

(* The earliest expiration of a queue that is not empty. *)
LEMMA EarliestIsLeast ==
    ASSUME NEW S \in SUBSET Entries, S # {}
    PROVE  /\ Earliest(S) \in Nat
           /\ \E e \in S : e.end = Earliest(S)
           /\ \A e \in S : Earliest(S) <= e.end
<1> DEFINE T == {e.end : e \in S}
           R == OpToRel(<, Nat)
<1>1. T \subseteq Nat /\ T # {}
  BY DEF Entries
<1>2. IsWellFoundedOn(R, Nat)
  BY NatLessThanWellFounded
<1>3. \A x, y \in Nat : y < x => <<y, x>> \in R
  BY DEF OpToRel
<1> HIDE DEF R, T
<1>4. PICK n \in T : \A m \in T : ~(<<m, n>> \in R)
  BY <1>1, <1>2, WFMin
<1>5. \A m \in T : n <= m
  <2> TAKE m \in T
  <2>1. n \in Nat /\ m \in Nat /\ ~(m < n)
    BY <1>1, <1>3, <1>4
  <2> QED
    BY <2>1
<1>6. Min(T) \in T /\ \A m \in T : Min(T) <= m
  BY <1>5 DEF Min
<1>7. Earliest(S) = Min(T)
  BY DEF Earliest, T
<1> QED
  BY <1>1, <1>6, <1>7 DEF T

-----------------------------------------------------------------------------
(* The places a timer can be in: no two of them hold the same timer, and   *)
(* none holds one twice.                                                   *)
Requested == {requests[i] : i \in 1..Len(requests)}

Unique(S) == \A e, f \in S : e.timer = f.timer => e = f

Apart(S, T) == \A e \in S, f \in T : e.timer # f.timer

OnePlace ==
    /\ Unique(timers) /\ Unique(expired) /\ Unique(finished)
    /\ \A i, j \in 1..Len(requests) :
          requests[i].timer = requests[j].timer => i = j
    /\ Apart(timers, expired) /\ Apart(timers, finished) /\ Apart(expired, finished)
    /\ Apart(timers, Requested) /\ Apart(expired, Requested) /\ Apart(finished, Requested)

(* What is held or ran was added, a timer is held until its callback ran   *)
(* and after that if it repeats, and only such a one can run again.        *)
Pending == timers \cup expired \cup Requested

Accounted ==
    /\ hasRun \subseteq added /\ \A e \in Held : e.timer \in added
    /\ \A t \in added : t \notin hasRun \/ Interval[t] > 0 => \E e \in Held : e.timer = t
    /\ \A e \in Pending : e.timer \in hasRun => Interval[e.timer] > 0
    /\ \A e \in finished : e.timer \in hasRun

(* The inductive invariant of the timers. *)
TimersInv == TypeOK /\ OnePlace /\ Accounted

(* What is armed, or about to be armed, is not later than any timer; true  *)
(* between two handlers as long as no arming came too late.                *)
ArmedInv ==
    (~assertFailed /\ loopPc # "callbacks") =>
        \A e \in timers :
           IF arming = None THEN timerfd # None /\ timerfd <= e.end
                            ELSE arming <= e.end

-----------------------------------------------------------------------------
(* The timer a step adds is a new one with an expiration in its type. *)
LEMMA NewEntry ==
    ASSUME TypeOK, NEW t \in Timers
    PROVE  [timer |-> t, end |-> now + Delay[t]] \in Entries
BY TimerAssumption DEF TypeOK, Entries

(* Restart() keeps the timer and moves its end by the interval. *)
LEMMA RestartEntry ==
    ASSUME TypeOK, NEW e \in Entries
    PROVE  /\ Restart(e) \in Entries
           /\ Restart(e).timer = e.timer
           /\ Restart(e).end = handlerNow + Interval[e.timer]
<1>1. handlerNow \in Nat /\ Interval[e.timer] \in Nat
  BY TimerAssumption DEF TypeOK, Entries
<1> QED
  BY <1>1 DEF Restart, Entries

(* The first request and the others, as sequence and as set. *)
LEMMA HeadAndTail ==
    ASSUME TypeOK, requests # <<>>
    PROVE  /\ Head(requests) \in Entries /\ Tail(requests) \in Seq(Entries)
           /\ Len(requests) \in Nat \ {0}
           /\ Head(requests) = requests[1]
           /\ Len(Tail(requests)) = Len(requests) - 1
           /\ \A i \in 1..Len(Tail(requests)) : Tail(requests)[i] = requests[i + 1]
           /\ Requested = {Head(requests)} \cup
                          {Tail(requests)[i] : i \in 1..Len(Tail(requests))}
<1>1. requests \in Seq(Entries)
  BY DEF TypeOK
<1>2. /\ Head(requests) \in Entries /\ Tail(requests) \in Seq(Entries)
      /\ Len(requests) \in Nat \ {0}
      /\ Head(requests) = requests[1]
      /\ Len(Tail(requests)) = Len(requests) - 1
      /\ \A i \in 1..Len(Tail(requests)) : Tail(requests)[i] = requests[i + 1]
  BY <1>1
<1>3. \A i \in 1..Len(requests) : i = 1 \/ (i - 1 \in 1..Len(Tail(requests)) /\ (i - 1) + 1 = i)
  BY <1>2
<1>4. \A i \in 1..Len(Tail(requests)) : i + 1 \in 1..Len(requests)
  BY <1>2
<1>5. 1 \in 1..Len(requests)
  BY <1>2
<1>6. Requested \subseteq {Head(requests)} \cup
                          {Tail(requests)[i] : i \in 1..Len(Tail(requests))}
  BY <1>2, <1>3 DEF Requested
<1>7. {Head(requests)} \cup {Tail(requests)[i] : i \in 1..Len(Tail(requests))}
         \subseteq Requested
  BY <1>2, <1>4, <1>5 DEF Requested
<1> QED
  BY <1>2, <1>6, <1>7

(* The timers that are held, place by place. *)
LEMMA HeldIs == Held = timers \cup expired \cup finished \cup Requested
BY DEF Held, Requested

(* The types hold at the start. *)
LEMMA InitTypeOK == Init => TypeOK
<1> SUFFICES ASSUME Init PROVE TypeOK
  OBVIOUS
<1>1. now \in 0..MaxTime /\ handlerNow \in 0..now
  BY TimerAssumption DEF Init
<1>2. requests \in Seq(Entries)
  BY DEF Init
<1> QED
  BY <1>1, <1>2 DEF Init, TypeOK

(* Every step keeps the types. *)
LEMMA NextTypeOK == TypeOK /\ [Next]_vars => TypeOK'
<1> SUFFICES ASSUME TypeOK, [Next]_vars PROVE TypeOK'
  OBVIOUS
<1>0. MaxTime \in Nat /\ None \notin Nat
  BY TimerAssumption
<1>1. CASE UNCHANGED vars
  BY <1>1 DEF vars, TypeOK, history
<1>2. CASE Tick
  BY <1>0, <1>2 DEF Tick, TypeOK, history
<1>3. ASSUME NEW e \in Entries, AddTimerInLoopThread(e)
      PROVE  timers' \subseteq Entries /\ arming' \in Nat \cup {None}
  BY <1>3 DEF AddTimerInLoopThread, Entries, TypeOK, history
<1>4. CASE RunRequest
  BY <1>3, <1>4, HeadAndTail DEF RunRequest, TypeOK, history
<1>5. CASE ResetTimerfd
  <2>1. arming \in Nat /\ now \in Nat
    BY <1>0, <1>5 DEF ResetTimerfd, TypeOK, history
  <2>2. timerfd' \in Nat \cup {None}
    BY <2>1, <1>5 DEF ResetTimerfd, TypeOK, history
  <2> QED
    BY <2>2, <1>5 DEF ResetTimerfd, TypeOK, history
<1>6. CASE PollReturns
  BY <1>6 DEF PollReturns, TypeOK, history
<1>7. CASE TimerHandler
  <2>1. now \in 0..now
    BY <1>0 DEF TypeOK
  <2> QED
    BY <2>1, <1>7 DEF TimerHandler, TypeOK, history
<1>8. CASE RunCallback
  BY <1>8 DEF RunCallback, TypeOK, Entries
<1>9. CASE Reset
  <2>1. timers' \subseteq Entries
    BY <1>9, RestartEntry DEF Reset, TypeOK, history
  <2>2. arming' \in Nat \cup {None}
    BY <2>1, <1>9, EarliestIsLeast DEF Reset
  <2> QED
    BY <2>1, <2>2, <1>9 DEF Reset, TypeOK, history
<1>10. ASSUME NEW t \in Timers, AddTimer(t) PROVE TypeOK'
  BY <1>3, <1>10, NewEntry DEF AddTimer, TypeOK, history
<1>11. ASSUME NEW t \in Timers, RequestTimer(t) PROVE TypeOK'
  BY <1>11, NewEntry DEF RequestTimer, TypeOK
<1> QED
  BY <1>1, <1>2, <1>4, <1>5, <1>6, <1>7, <1>8, <1>9, <1>10, <1>11 DEF Next, LoopStep

-----------------------------------------------------------------------------
(* A timer is added where no other place holds it. *)
LEMMA NewIsApart ==
    ASSUME Accounted, NEW t, t \notin added, NEW e, e.timer = t
    PROVE  /\ Apart({e}, timers) /\ Apart({e}, expired) /\ Apart({e}, finished)
           /\ Apart({e}, Requested)
BY HeldIs DEF Accounted, Apart

(* Every step keeps each timer in one place, and held as long as it is due. *)
LEMMA NextTimersInv == TimersInv /\ [Next]_vars => TimersInv'
<1> SUFFICES ASSUME TimersInv, [Next]_vars PROVE OnePlace' /\ Accounted'
  BY NextTypeOK DEF TimersInv
<1>0. /\ TypeOK /\ OnePlace /\ Accounted
      /\ timers \subseteq Entries /\ expired \subseteq Entries
      /\ finished \subseteq Entries /\ requests \in Seq(Entries)
  BY DEF TimersInv, TypeOK
<1>1. ASSUME UNCHANGED <<requests, timers, expired, finished, added, hasRun>>
      PROVE  OnePlace' /\ Accounted'
  <2>1. OnePlace'
    BY <1>0, <1>1 DEF OnePlace, Requested, Apart, Unique
  <2>2. Accounted'
    BY <1>0, <1>1 DEF Accounted, Held, Pending, Requested
  <2> QED
    BY <2>1, <2>2
<1>2. CASE UNCHANGED vars
  BY <1>1, <1>2 DEF vars, history
<1>3. CASE Tick
  BY <1>1, <1>3 DEF Tick, history
<1>4. CASE ResetTimerfd
  BY <1>1, <1>4 DEF ResetTimerfd, history
<1>5. CASE PollReturns
  BY <1>1, <1>5 DEF PollReturns, history
<1>6. CASE RunRequest
  <2> DEFINE e == Head(requests)
             rest == Tail(requests)
  <2>0. requests # <<>>
    BY <1>6 DEF RunRequest
  <2>1. /\ timers' = timers \cup {e} /\ requests' = rest
        /\ UNCHANGED <<expired, finished, added, hasRun>>
    BY <1>6 DEF RunRequest, AddTimerInLoopThread, history
  <2>2. /\ e \in Entries /\ e = requests[1]
        /\ Len(requests) \in Nat \ {0}
        /\ Len(rest) = Len(requests) - 1
        /\ \A i \in 1..Len(rest) : rest[i] = requests[i + 1]
        /\ Requested = {e} \cup {rest[i] : i \in 1..Len(rest)}
    BY <1>0, <2>0, HeadAndTail
  <2>3. Requested' = {rest[i] : i \in 1..Len(rest)}
    BY <2>1 DEF Requested
  <2> HIDE DEF e, rest
  <2>4. \A i \in 1..Len(rest) : i + 1 \in 1..Len(requests) /\ i + 1 # 1
    BY <2>2
  <2>5. \A i \in 1..Len(rest) : rest[i].timer # e.timer
    <3>1. 1 \in 1..Len(requests)
      BY <2>2
    <3> QED
      BY <3>1, <2>2, <2>4, <1>0 DEF OnePlace
  <2>6. Apart({e}, Requested')
    BY <2>3, <2>5 DEF Apart
  <2>7. \A i, j \in 1..Len(rest) : rest[i].timer = rest[j].timer => i = j
    <3>1. \A i, j \in 1..Len(rest) : rest[i].timer = rest[j].timer => i + 1 = j + 1
      BY <2>2, <2>4, <1>0 DEF OnePlace
    <3>2. \A i, j \in 1..Len(rest) : i + 1 = j + 1 => i = j
      BY <2>2
    <3> QED
      BY <3>1, <3>2
  <2>8. OnePlace'
    <3>1. Unique(timers')
      BY <1>0, <2>1, <2>2 DEF OnePlace, Unique, Apart
    <3>2. Apart(timers', expired) /\ Apart(timers', finished)
      BY <1>0, <2>1, <2>2 DEF OnePlace, Apart
    <3>3. Apart(timers', Requested') /\ Apart(expired, Requested') /\ Apart(finished, Requested')
      BY <1>0, <2>1, <2>2, <2>3, <2>6 DEF OnePlace, Apart
    <3> QED
      BY <1>0, <2>1, <2>7, <3>1, <3>2, <3>3 DEF OnePlace
  <2>9. Held' = Held
    BY <2>1, <2>2, <2>3, HeldIs DEF Held, Requested
  <2>10. Accounted'
    <3>1. Pending' = Pending
      BY <2>1, <2>2, <2>3 DEF Pending
    <3> QED
      BY <1>0, <2>1, <2>9, <3>1 DEF Accounted
  <2> QED
    BY <2>8, <2>10
<1>7. CASE TimerHandler
  <2>1. /\ expired = {}
        /\ expired' = {e \in timers : e.end <= now}
        /\ timers' = {e \in timers : e.end > now}
        /\ UNCHANGED <<requests, finished, added, hasRun>>
    BY <1>0, <1>7 DEF TimerHandler, TypeOK, history
  <2>2. \A e \in timers : e \in expired' <=> e \notin timers'
    <3>1. now \in Nat /\ \A e \in timers : e.end \in Nat
      BY <1>0, TimerAssumption DEF TypeOK, Entries
    <3> QED
      BY <3>1, <2>1
  <2>3. timers' \subseteq timers /\ expired' \subseteq timers /\ timers' \cup expired' = timers
    BY <2>1, <2>2
  <2>4. Requested' = Requested
    BY <2>1 DEF Requested
  <2>5. OnePlace'
    <3>1. Apart(timers', expired')
      BY <1>0, <2>2, <2>3 DEF OnePlace, Apart, Unique
    <3>2. Unique(timers') /\ Unique(expired')
      BY <1>0, <2>3 DEF OnePlace, Unique
    <3>3. /\ Apart(timers', finished) /\ Apart(expired', finished)
          /\ Apart(timers', Requested) /\ Apart(expired', Requested)
      BY <1>0, <2>3 DEF OnePlace, Apart
    <3> QED
      BY <1>0, <2>1, <2>4, <3>1, <3>2, <3>3 DEF OnePlace
  <2>6. Held' = Held
    BY <2>1, <2>3 DEF Held
  <2>7. Pending' = Pending
    BY <2>1, <2>3, <2>4 DEF Pending
  <2> QED
    BY <1>0, <2>1, <2>5, <2>6, <2>7 DEF Accounted
<1>8. CASE RunCallback
  <2>1. PICK e \in expired : /\ expired' = expired \ {e}
                             /\ finished' = finished \cup {e}
                             /\ hasRun' = hasRun \cup {e.timer}
    BY <1>8 DEF RunCallback
  <2>2. UNCHANGED <<requests, timers, added>>
    BY <1>8 DEF RunCallback
  <2>3. Requested' = Requested
    BY <2>2 DEF Requested
  <2>4. OnePlace'
    <3>1. Unique(expired') /\ Unique(finished')
      BY <1>0, <2>1 DEF OnePlace, Unique, Apart
    <3>2. /\ Apart(timers, expired') /\ Apart(timers, finished') /\ Apart(expired', finished')
          /\ Apart(expired', Requested) /\ Apart(finished', Requested)
      BY <1>0, <2>1 DEF OnePlace, Unique, Apart
    <3> QED
      BY <1>0, <2>2, <2>3, <3>1, <3>2 DEF OnePlace
  <2>5. Held' = Held
    BY <2>1, <2>2 DEF Held
  <2>6. e \in Held
    BY DEF Held
  <2>7. Accounted'
    <3>1. e.timer \in added
      BY <1>0, <2>6 DEF Accounted
    <3>2. Pending' \subseteq Pending
      BY <2>1, <2>2, <2>3 DEF Pending
    <3>3. \A f \in Pending' : f.timer # e.timer
      BY <1>0, <2>1, <2>2, <2>3 DEF OnePlace, Unique, Apart, Pending
    <3> QED
      BY <1>0, <2>1, <2>2, <2>5, <3>1, <3>2, <3>3 DEF Accounted
  <2> QED
    BY <2>4, <2>7
<1>9. CASE Reset
  <2> DEFINE again == {Restart(e) : e \in {f \in finished : Interval[f.timer] > 0}}
  <2>1. /\ timers' = timers \cup again /\ finished' = {}
        /\ expired = {}
        /\ UNCHANGED <<requests, expired, added, hasRun>>
    BY <1>9 DEF Reset, history
  <2>2. \A r \in again : \E e \in finished : /\ r = Restart(e) /\ r.timer = e.timer
                                            /\ Interval[r.timer] > 0
    BY <1>0, RestartEntry
  <2>3. \A e \in finished : Interval[e.timer] > 0 => \E r \in again : r.timer = e.timer
    BY <1>0, RestartEntry
  <2> HIDE DEF again
  <2>4. Requested' = Requested
    BY <2>1 DEF Requested
  <2>5. OnePlace'
    <3>1. Unique(again)
      BY <1>0, <2>2 DEF OnePlace, Unique
    <3>2. Apart(timers, again) /\ Apart(again, Requested)
      BY <1>0, <2>2 DEF OnePlace, Apart
    <3>3. Unique(timers')
      BY <1>0, <2>1, <3>1, <3>2 DEF OnePlace, Unique, Apart
    <3>4. Apart(timers', Requested)
      BY <1>0, <2>1, <3>2 DEF OnePlace, Apart
    <3>5. /\ Apart(timers', expired') /\ Apart(timers', finished')
          /\ Apart(expired', finished') /\ Apart(expired', Requested)
          /\ Apart(finished', Requested) /\ Unique(expired') /\ Unique(finished')
      BY <2>1 DEF Apart, Unique
    <3> QED
      BY <1>0, <2>1, <2>4, <3>3, <3>4, <3>5 DEF OnePlace
  <2>6. ASSUME NEW t \in added, t \notin hasRun \/ Interval[t] > 0
        PROVE  \E e \in Held' : e.timer = t
    <3>1. PICK e \in Held : e.timer = t
      BY <1>0, <2>6 DEF Accounted
    <3>2. timers' \subseteq Held' /\ Requested' \subseteq Held' /\ timers \subseteq timers'
      BY <2>1 DEF Held, Requested
    <3>3. CASE e \in finished
      <4>1. t \in hasRun
        BY <1>0, <3>1, <3>3 DEF Accounted
      <4> QED
        BY <3>1, <3>2, <3>3, <4>1, <2>1, <2>3, <2>6
    <3>4. CASE e \in timers \cup Requested
      BY <3>1, <3>2, <3>4, <2>4
    <3> QED
      BY <3>1, <3>3, <3>4, <2>1, HeldIs
  <2>7. \A e \in Held' : \E f \in Held : f.timer = e.timer
    BY <2>1, <2>2, <2>4, HeldIs DEF Held, Requested
  <2>8. \A e \in Pending' : e.timer \in hasRun => Interval[e.timer] > 0
    BY <1>0, <2>1, <2>2, <2>4 DEF Accounted, Pending
  <2> QED
    BY <1>0, <2>1, <2>5, <2>6, <2>7, <2>8 DEF Accounted
<1>10. ASSUME NEW t \in Timers, AddTimer(t) PROVE OnePlace' /\ Accounted'
  <2> DEFINE e == [timer |-> t, end |-> now + Delay[t]]
  <2>1. /\ t \notin added /\ timers' = timers \cup {e} /\ added' = added \cup {t}
        /\ UNCHANGED <<requests, expired, finished, hasRun>>
    BY <1>10 DEF AddTimer, AddTimerInLoopThread
  <2>2. e.timer = t
    OBVIOUS
  <2> HIDE DEF e
  <2>3. /\ Apart({e}, timers) /\ Apart({e}, expired) /\ Apart({e}, finished)
        /\ Apart({e}, Requested) /\ Requested' = Requested
    BY <1>0, <2>1, <2>2, NewIsApart DEF Requested
  <2>4. Unique(timers')
    BY <1>0, <2>1, <2>3 DEF OnePlace, Unique, Apart
  <2>5. Apart(timers', expired) /\ Apart(timers', finished) /\ Apart(timers', Requested)
    BY <1>0, <2>1, <2>3 DEF OnePlace, Apart
  <2>6. OnePlace'
    BY <1>0, <2>1, <2>3, <2>4, <2>5 DEF OnePlace
  <2>7. Held' = Held \cup {e} /\ Pending' = Pending \cup {e}
    BY <2>1, <2>3 DEF Held, Pending
  <2> QED
    BY <1>0, <2>1, <2>2, <2>6, <2>7 DEF Accounted
<1>11. ASSUME NEW t \in Timers, RequestTimer(t) PROVE OnePlace' /\ Accounted'
  <2> DEFINE e == [timer |-> t, end |-> now + Delay[t]]
  <2>1. /\ t \notin added /\ requests' = Append(requests, e) /\ added' = added \cup {t}
        /\ UNCHANGED <<timers, expired, finished, hasRun>>
    BY <1>11 DEF RequestTimer
  <2>2. e.timer = t /\ e \in Entries
    BY <1>0, NewEntry
  <2> HIDE DEF e
  <2>3. /\ Apart({e}, timers) /\ Apart({e}, expired) /\ Apart({e}, finished)
        /\ Apart({e}, Requested)
    BY <1>0, <2>1, <2>2, NewIsApart
  <2>4. /\ Len(requests) \in Nat /\ Len(requests') = Len(requests) + 1
        /\ requests'[Len(requests) + 1] = e
        /\ \A i \in 1..Len(requests) : requests'[i] = requests[i]
    BY <1>0, <2>1, <2>2
  <2>5. Requested' = Requested \cup {e}
    BY <2>4 DEF Requested
  <2>6. ASSUME NEW i \in 1..Len(requests'), NEW j \in 1..Len(requests'),
               requests'[i].timer = requests'[j].timer
        PROVE  i = j
    <3>1. \A k \in 1..Len(requests) : requests[k].timer # e.timer
      BY <2>3 DEF Apart, Requested
    <3>2. /\ i \in 1..Len(requests) \/ i = Len(requests) + 1
          /\ j \in 1..Len(requests) \/ j = Len(requests) + 1
      BY <2>4
    <3> QED
      BY <3>1, <3>2, <2>4, <2>6, <1>0 DEF OnePlace
  <2>7. /\ Apart(timers, Requested') /\ Apart(expired, Requested')
        /\ Apart(finished, Requested')
    BY <1>0, <2>3, <2>5 DEF OnePlace, Apart
  <2>8. OnePlace'
    BY <1>0, <2>1, <2>6, <2>7 DEF OnePlace
  <2>9. Held' = Held \cup {e} /\ Pending' = Pending \cup {e}
    BY <2>1, <2>5 DEF Held, Requested, Pending
  <2> QED
    BY <1>0, <2>1, <2>2, <2>8, <2>9 DEF Accounted
<1> QED
  BY <1>2, <1>3, <1>4, <1>5, <1>6, <1>7, <1>8, <1>9, <1>10, <1>11 DEF Next, LoopStep

(* An entry among those of t in one of the four places. *)
LEMMA PlaceIs ==
    ASSUME NEW t, NEW p \in Places(t)
    PROVE  \/ \E i \in 1..Len(requests) : p = <<"requests", i>> /\ requests[i].timer = t
           \/ \E e \in timers : p = <<"timers", e>> /\ e.timer = t
           \/ \E e \in expired : p = <<"expired", e>> /\ e.timer = t
           \/ p \in In("finished", finished, t)
              /\ \E e \in finished : p = <<"finished", e>> /\ e.timer = t
BY DEF Places, In

(* What Held holds is in a place. *)
LEMMA HeldIsPlaced ==
    ASSUME NEW t, NEW e \in Held, e.timer = t
    PROVE  Places(t) # {}
<1>1. CASE \E i \in 1..Len(requests) : e = requests[i]
  BY <1>1 DEF Places
<1>2. CASE e \in timers \cup expired \cup finished
  BY <1>2 DEF Places, In
<1> QED
  BY <1>1, <1>2 DEF Held

(* A timer that was added is in one place, and not forgotten before its    *)
(* callback ran nor, if it repeats, afterwards, for any timers, delays and *)
(* intervals: the steps of addTimer(), timerHandler() and reset() only     *)
(* move it from one place to the next.                                     *)
THEOREM NoTimerLostHolds == Spec => []NoTimerLost
<1>1. ASSUME Init PROVE TimersInv
  <2>1. Requested = {} /\ Held = {}
    BY <1>1 DEF Init, Requested, Held
  <2>2. OnePlace
    BY <1>1, <2>1 DEF Init, OnePlace, Unique, Apart
  <2>3. Accounted
    BY <1>1, <2>1 DEF Init, Accounted, Pending
  <2> QED
    BY <1>1, <2>2, <2>3, InitTypeOK DEF TimersInv
<1>2. ASSUME TimersInv PROVE NoTimerLost
  <2>1. TypeOK /\ OnePlace /\ Accounted
    BY <1>2 DEF TimersInv
  <2>2. ASSUME NEW t, NEW p \in Places(t), NEW q \in Places(t) PROVE p = q
    <3>1. \A i \in 1..Len(requests) : requests[i] \in Requested
      BY DEF Requested
    <3>2. CASE \E i \in 1..Len(requests) : p = <<"requests", i>> /\ requests[i].timer = t
      BY <2>1, <3>1, <3>2, PlaceIs DEF OnePlace, Apart
    <3>3. CASE \E e \in timers : p = <<"timers", e>> /\ e.timer = t
      BY <2>1, <3>1, <3>3, PlaceIs DEF OnePlace, Apart, Unique
    <3>4. CASE \E e \in expired : p = <<"expired", e>> /\ e.timer = t
      BY <2>1, <3>1, <3>4, PlaceIs DEF OnePlace, Apart, Unique
    <3>5. CASE \E e \in finished : p = <<"finished", e>> /\ e.timer = t
      BY <2>1, <3>1, <3>5, PlaceIs DEF OnePlace, Apart, Unique
    <3> QED
      BY <3>2, <3>3, <3>4, <3>5, PlaceIs
  <2>3. ASSUME NEW t \in added, t \notin hasRun \/ Interval[t] > 0
        PROVE  Places(t) # {}
    BY <2>1, <2>3, HeldIsPlaced DEF Accounted
  <2>4. ASSUME NEW t \in hasRun, Interval[t] = 0, NEW p \in Places(t)
        PROVE  p \in In("finished", finished, t)
    <3>1. \A e \in Pending : e.timer # t
      BY <2>1, <2>4 DEF Accounted
    <3>2. /\ \A e \in timers \cup expired : e.timer # t
          /\ \A i \in 1..Len(requests) : requests[i].timer # t
      BY <3>1 DEF Pending, Requested
    <3> QED
      BY <3>2, PlaceIs
  <2> QED
    BY <2>1, <2>2, <2>3, <2>4 DEF NoTimerLost
<1> QED
  BY <1>1, <1>2, NextTimersInv, PTL DEF Spec

-----------------------------------------------------------------------------
(* What insert() reports and the caller arms is not later than any timer. *)
LEMMA AddedIsArmed ==
    ASSUME TypeOK, ArmedInv, arming = None, NEW e \in Entries,
           AddTimerInLoopThread(e),
           UNCHANGED <<timerfd, loopPc, assertFailed>>
    PROVE  ArmedInv'
<1> SUFFICES ASSUME ~assertFailed, loopPc # "callbacks", NEW f \in timers'
             PROVE  IF arming' = None THEN timerfd # None /\ timerfd <= f.end
                                      ELSE arming' <= f.end
  BY DEF ArmedInv
<1>1. /\ None \notin Nat /\ timers \subseteq Entries /\ timerfd \in Nat \cup {None}
      /\ e.end \in Nat /\ f \in Entries /\ f.end \in Nat
  BY TimerAssumption DEF TypeOK, Entries, AddTimerInLoopThread
<1>2. \A g \in timers : timerfd # None /\ timerfd <= g.end
  BY DEF ArmedInv
<1>3. CASE timers = {}
  BY <1>1, <1>3 DEF AddTimerInLoopThread, First
<1>4. CASE timers # {}
  <2>1. /\ Earliest(timers) \in Nat
        /\ \A g \in timers : Earliest(timers) <= g.end
    BY <1>1, <1>4, EarliestIsLeast
  <2>2. PICK g \in timers : g.end = Earliest(timers)
    BY <1>1, <1>4, EarliestIsLeast
  <2>3. f = e \/ f \in timers
    BY DEF AddTimerInLoopThread
  <2>4. CASE e.end < Earliest(timers)
    BY <1>1, <2>1, <2>3, <2>4 DEF AddTimerInLoopThread, First
  <2>5. CASE ~(e.end < Earliest(timers))
    <3>1. arming' = None
      BY <1>4, <2>5 DEF AddTimerInLoopThread, First
    <3>2. timerfd \in Nat /\ timerfd <= Earliest(timers)
      BY <1>1, <1>2, <2>2
    <3> QED
      BY <1>1, <1>2, <2>1, <2>3, <2>5, <3>1, <3>2
  <2> QED
    BY <2>4, <2>5
<1> QED
  BY <1>3, <1>4

(* Every step keeps the timerfd armed in time, or about to be. *)
LEMMA NextArmedInv == TypeOK /\ ArmedInv /\ [Next]_vars => ArmedInv'
<1> SUFFICES ASSUME TypeOK, ArmedInv, [Next]_vars PROVE ArmedInv'
  OBVIOUS
<1>0. None \notin Nat /\ now \in Nat
  BY TimerAssumption DEF TypeOK
<1>1. ASSUME UNCHANGED <<timers, timerfd, arming, assertFailed>>,
             loopPc' = loopPc \/ loopPc # "callbacks"
      PROVE  ArmedInv'
  BY <1>1 DEF ArmedInv
<1>2. CASE UNCHANGED vars
  BY <1>1, <1>2 DEF vars
<1>3. CASE Tick
  BY <1>1, <1>3 DEF Tick
<1>4. CASE RunRequest
  BY <1>4, AddedIsArmed, HeadAndTail DEF RunRequest
<1>5. CASE ResetTimerfd
  <2>1. arming \in Nat
    BY <1>0, <1>5 DEF ResetTimerfd, TypeOK
  <2>2. ASSUME ~assertFailed' PROVE ~assertFailed /\ timerfd' = arming
    <3>1. ~assertFailed /\ ~(arming <= now)
      BY <1>5, <2>2 DEF ResetTimerfd, TypeOK
    <3>2. arming > now
      BY <1>0, <2>1, <3>1
    <3>3. arming # now /\ ~(arming < now)
      BY <1>0, <2>1, <3>1
    <3> QED
      BY <1>5, <3>1, <3>2, <3>3 DEF ResetTimerfd
  <2> QED
    BY <1>0, <1>5, <2>1, <2>2 DEF ResetTimerfd, ArmedInv
<1>6. CASE PollReturns
  BY <1>1, <1>6 DEF PollReturns
<1>7. CASE TimerHandler
  BY <1>7 DEF TimerHandler, ArmedInv
<1>8. CASE RunCallback
  BY <1>1, <1>8 DEF RunCallback
<1>9. CASE Reset
  <2>1. timers' \subseteq Entries
    BY NextTypeOK DEF TypeOK
  <2>2. timers' # {} => /\ arming' \in Nat
                        /\ \A e \in timers' : arming' <= e.end
    BY <1>9, <2>1, EarliestIsLeast DEF Reset
  <2> QED
    BY <1>0, <2>2 DEF ArmedInv
<1>10. ASSUME NEW t \in Timers, AddTimer(t) PROVE ArmedInv'
  BY <1>10, AddedIsArmed, NewEntry DEF AddTimer
<1>11. ASSUME NEW t \in Timers, RequestTimer(t) PROVE ArmedInv'
  BY <1>1, <1>11 DEF RequestTimer
<1> QED
  BY <1>1, <1>2, <1>3, <1>4, <1>5, <1>6, <1>7, <1>8, <1>9, <1>10, <1>11
     DEF Next, LoopStep

(* Whatever was inserted, restarted or armed in between, the loop never    *)
(* waits with a timerfd that is disarmed or later than the earliest timer, *)
(* as long as resetTimerfd() was never left without time.                  *)
THEOREM ArmedForEarliestHolds == Spec => []ArmedForEarliest
<1>1. Init => TypeOK /\ ArmedInv
  BY InitTypeOK DEF Init, ArmedInv
<1>2. ASSUME TypeOK, ArmedInv PROVE ArmedForEarliest
  <2>1. SUFFICES ASSUME ~assertFailed, loopPc # "callbacks", arming = None, timers # {}
                 PROVE  timerfd # None /\ timerfd <= Earliest(timers)
    BY DEF ArmedForEarliest
  <2>2. PICK e \in timers : e.end = Earliest(timers)
    BY <1>2, <2>1, EarliestIsLeast DEF TypeOK
  <2> QED
    BY <1>2, <2>1, <2>2 DEF ArmedInv
<1>3. TypeOK /\ ArmedInv /\ [Next]_vars => (TypeOK /\ ArmedInv)'
  BY NextTypeOK, NextArmedInv
<1> QED
  BY <1>1, <1>2, <1>3, PTL DEF Spec
=============================================================================
