-------------------------- MODULE EventLoopProofs --------------------------
(***************************************************************************)
(* Proofs about EventLoop, for any set of threads and any MaxSubmitted,    *)
(* and about the threads that run event loops: EventLoopThread for any set *)
(* of objects and EventLoopThreadPool for any number of threads.           *)
(***************************************************************************)
EXTENDS EventLoop, EventLoopThreadPool, SequenceTheorems, FiniteSetTheorems, TLAPS

(* The type invariant and the phase of the loop: in particular             *)
(* _processingFunctors is set exactly inside processFunctors() and its     *)
(* local vector is empty whenever the loop thread is elsewhere.            *)
THEOREM TypeCorrect == Spec => []TypeOK
<1>1. Init => TypeOK
  <2> SUFFICES ASSUME Init PROVE TypeOK
    OBVIOUS
  <2>0. <<>> \in Seq(Functors)
    OBVIOUS
  <2>1. Types
    BY <2>0 DEF Init, Types, LoopPcs, ChannelNames
  <2>2. loopPc # "run" /\ loopPc \notin {"swap", "run"}
    BY DEF Init
  <2>3. ~processingFunctors /\ functors = <<>> /\ activeChannels = {}
    BY DEF Init
  <2> QED
    BY <2>1, <2>2, <2>3 DEF TypeOK
<1>2. TypeOK /\ [Next]_vars => TypeOK'
  <2> SUFFICES ASSUME TypeOK, [Next]_vars PROVE TypeOK'
    OBVIOUS
  <2> USE DEF TypeOK, Types, LoopPcs, ChannelNames, LoopAt
  <2>1. CASE EnterLoop
    BY <2>1 DEF EnterLoop
  <2>2. CASE TestQuit
    BY <2>2 DEF TestQuit
  <2>3. CASE \E ready \in SUBSET ChannelNames : PollReturns(ready)
    BY <2>3 DEF PollReturns
  <2>4. CASE PollTimesOut
    BY <2>4 DEF PollTimesOut
  <2>5. CASE ReadFd
    BY <2>5 DEF ReadFd
  <2>6. CASE HandleEventReturns
    BY <2>6 DEF HandleEventReturns
  <2>7. CASE ProcessFunctors
    BY <2>7 DEF ProcessFunctors
  <2>8. CASE SwapFunctors
    BY <2>8 DEF SwapFunctors
  <2>9. CASE FunctorReturns
    BY <2>9, HeadTailProperties, AppendProperties DEF FunctorReturns
  <2>10. CASE ProcessFunctorsReturns
    BY <2>10 DEF ProcessFunctorsReturns
  <2>11. ASSUME NEW t \in Callers, AddToLoopThread(t) PROVE TypeOK'
    <3>1. (IF t = LoopThread /\ loopPc = "idle" THEN Early ELSE t) \in Functors
      BY DEF Callers, Functors
    <3>2. unprocessedFunctors' \in Seq(Functors)
      BY <2>11, <3>1, AppendProperties DEF AddToLoopThread
    <3> QED
      BY <2>11, <3>2 DEF AddToLoopThread
  <2>12. ASSUME NEW t \in Callers, Quit(t) PROVE TypeOK'
    BY <2>12 DEF Quit
  <2>13. ASSUME NEW t \in Callers, Waken(t) PROVE TypeOK'
    BY <2>13 DEF Waken
  <2>14. CASE UNCHANGED vars
    BY <2>14 DEF vars
  <2> QED
    BY <2>1, <2>2, <2>3, <2>4, <2>5, <2>6, <2>7, <2>8, <2>9, <2>10, <2>11,
       <2>12, <2>13, <2>14
    DEF Next, LoopStep, Call
<1> QED
  BY <1>1, <1>2, PTL DEF Spec

(* WakeupPending survives every step of another thread. *)
THEOREM WakeupInvariant == Spec => []WakeupInv
<1>1. Init => WakeupInv
  BY DEF Init, WakeupInv
<1>2. TypeOK /\ WakeupInv /\ [Next]_vars => WakeupInv'
  <2> SUFFICES ASSUME TypeOK, WakeupInv, [Next]_vars PROVE WakeupInv'
    OBVIOUS
  <2> USE DEF WakeupInv, WakeupPending, LoopAt
  <2>1. CASE EnterLoop
    BY <2>1 DEF EnterLoop
  <2>2. CASE TestQuit
    BY <2>2 DEF TestQuit
  <2>3. CASE \E ready \in SUBSET ChannelNames : PollReturns(ready)
    BY <2>3 DEF PollReturns
  <2>4. CASE PollTimesOut
    BY <2>4 DEF PollTimesOut
  <2>5. CASE ReadFd
    BY <2>5 DEF ReadFd
  <2>6. CASE HandleEventReturns
    BY <2>6 DEF HandleEventReturns
  <2>7. CASE ProcessFunctors
    BY <2>7 DEF ProcessFunctors
  <2>8. CASE SwapFunctors
    BY <2>8 DEF SwapFunctors
  <2>9. CASE FunctorReturns
    BY <2>9 DEF FunctorReturns
  <2>10. CASE ProcessFunctorsReturns
    BY <2>10 DEF ProcessFunctorsReturns
  <2>11. ASSUME NEW t \in Callers, AddToLoopThread(t) PROVE WakeupInv'
    <3>1. CASE t # LoopThread \/ processingFunctors
      <4>1. pc' = [pc EXCEPT ![t] = "waken"]
        BY <2>11, <3>1 DEF AddToLoopThread, MustWaken
      <4>2. pc'[t] = "waken"
        BY <4>1 DEF TypeOK, Types
      <4> QED
        BY <4>2
    <3>2. CASE t = LoopThread /\ ~processingFunctors
      <4>1. loopPc \in {"idle", "handle"} /\ loopPc' = loopPc
        BY <2>11, <3>2
        DEF AddToLoopThread, MayCall, LoopThreadInCallback, TypeOK
      <4>2. CASE loopPc = "handle"
        BY <4>1, <4>2
      <4>3. CASE loopPc = "idle"
        <5>1. unprocessedFunctors' = Append(unprocessedFunctors, Early)
          BY <2>11, <3>2, <4>3 DEF AddToLoopThread
        <5>2. \A i \in 1..Len(unprocessedFunctors') :
                 unprocessedFunctors'[i] # Early =>
                    /\ i \in 1..Len(unprocessedFunctors)
                    /\ unprocessedFunctors'[i] = unprocessedFunctors[i]
          BY <5>1, AppendProperties DEF TypeOK, Types, Functors
        <5>3. pc'= pc /\ wakenfd' = wakenfd
          BY <2>11, <3>2 DEF AddToLoopThread, MustWaken, MayCall, TypeOK, Types
        <5> QED
          BY <5>2, <5>3, <4>3
      <4> QED
        BY <4>1, <4>2, <4>3
    <3> QED
      BY <3>1, <3>2
  <2>12. ASSUME NEW t \in Callers, Quit(t) PROVE WakeupInv'
    <3>1. pc' = pc \/ pc'[t] = "waken"
      BY <2>12 DEF Quit, MayCall, TypeOK, Types
    <3> QED
      BY <2>12, <3>1 DEF Quit
  <2>13. ASSUME NEW t \in Callers, Waken(t) PROVE WakeupInv'
    BY <2>13 DEF Waken
  <2>14. CASE UNCHANGED vars
    BY <2>14 DEF vars
  <2> QED
    BY <2>1, <2>2, <2>3, <2>4, <2>5, <2>6, <2>7, <2>8, <2>9, <2>10, <2>11,
       <2>12, <2>13, <2>14
    DEF Next, LoopStep, Call
<1> QED
  BY <1>1, <1>2, TypeCorrect, PTL DEF Spec

(* The loop thread never blocks in poll() on a queued functor with no      *)
(* wake-up due: the order of addToLoopThread() (push, then write) and of   *)
(* the loop (read the eventfd, then swap) loses none, for any number of    *)
(* threads.                                                                *)
THEOREM NoWakeupIsLost == Spec => []NoLostWakeup
<1>1. WakeupInv => NoLostWakeup
  BY DEF WakeupInv, NoLostWakeup
<1> QED
  BY <1>1, WakeupInvariant, PTL

(* quit() by another thread cannot slip between the loop's test of _quit   *)
(* and its poll(): a poll() entered or blocked with _quit set has a        *)
(* wake-up due, because quit() stores the flag before it writes the        *)
(* eventfd.                                                                *)
THEOREM NoQuitIsLost == Spec => []NoLostQuit
<1>1. Init => NoLostQuit
  BY DEF Init, NoLostQuit
<1>2. TypeOK /\ NoLostQuit /\ [Next]_vars => NoLostQuit'
  <2> SUFFICES ASSUME TypeOK, NoLostQuit, [Next]_vars PROVE NoLostQuit'
    OBVIOUS
  <2> USE DEF NoLostQuit, WakeupPending, LoopAt
  <2>1. CASE EnterLoop
    BY <2>1 DEF EnterLoop
  <2>2. CASE TestQuit
    <3>1. loopPc' = "poll" => ~quit /\ quit' = quit
      BY <2>2 DEF TestQuit
    <3> QED
      BY <3>1
  <2>3. CASE \E ready \in SUBSET ChannelNames : PollReturns(ready)
    BY <2>3 DEF PollReturns
  <2>4. CASE PollTimesOut
    BY <2>4 DEF PollTimesOut
  <2>5. CASE ReadFd
    BY <2>5 DEF ReadFd
  <2>6. CASE HandleEventReturns
    BY <2>6 DEF HandleEventReturns
  <2>7. CASE ProcessFunctors
    BY <2>7 DEF ProcessFunctors
  <2>8. CASE SwapFunctors
    BY <2>8 DEF SwapFunctors
  <2>9. CASE FunctorReturns
    BY <2>9 DEF FunctorReturns
  <2>10. CASE ProcessFunctorsReturns
    BY <2>10 DEF ProcessFunctorsReturns
  <2>11. ASSUME NEW t \in Callers, AddToLoopThread(t) PROVE NoLostQuit'
    <3>1. pc' = pc \/ pc'[t] = "waken"
      BY <2>11 DEF AddToLoopThread, MayCall, TypeOK, Types
    <3> QED
      BY <2>11, <3>1 DEF AddToLoopThread
  <2>12. ASSUME NEW t \in Callers, Quit(t) PROVE NoLostQuit'
    <3>1. CASE t = LoopThread
      BY <2>12, <3>1 DEF Quit, MayCall, LoopThreadInCallback
    <3>2. CASE t # LoopThread
      BY <2>12, <3>2 DEF Quit, TypeOK, Types
    <3> QED
      BY <3>1, <3>2
  <2>13. ASSUME NEW t \in Callers, Waken(t) PROVE NoLostQuit'
    BY <2>13 DEF Waken
  <2>14. CASE UNCHANGED vars
    BY <2>14 DEF vars
  <2> QED
    BY <2>1, <2>2, <2>3, <2>4, <2>5, <2>6, <2>7, <2>8, <2>9, <2>10, <2>11,
       <2>12, <2>13, <2>14
    DEF Next, LoopStep, Call
<1> QED
  BY <1>1, <1>2, TypeCorrect, PTL DEF Spec

-----------------------------------------------------------------------------
(* Removing the head of s \o t removes the head of s. *)
LEMMA HeadTailOfConcat ==
    ASSUME NEW S, NEW s \in Seq(S), NEW t \in Seq(S), s # <<>>
    PROVE  /\ s \o t # <<>>
           /\ Head(s \o t) = Head(s)
           /\ Tail(s \o t) = Tail(s) \o t
<1>1. /\ s \o t \in Seq(S)
      /\ Len(s \o t) = Len(s) + Len(t)
      /\ \A i \in 1..Len(s) + Len(t) :
            (s \o t)[i] = IF i <= Len(s) THEN s[i] ELSE t[i - Len(s)]
  BY ConcatProperties
<1>2. /\ Len(s) \in Nat \ {0}
      /\ Tail(s) \in Seq(S)
      /\ Len(Tail(s)) = Len(s) - 1
      /\ \A i \in 1..Len(Tail(s)) : Tail(s)[i] = s[i + 1]
      /\ Head(s) = s[1]
  BY HeadTailProperties, LenProperties, EmptySeq
<1>3. Len(t) \in Nat
  BY LenProperties
<1>4. s \o t # <<>>
  BY <1>1, <1>2, <1>3, EmptySeq
<1>5. Head(s \o t) = Head(s)
  BY <1>1, <1>2, <1>3, <1>4, HeadTailProperties
<1>6. /\ Tail(s \o t) \in Seq(S)
      /\ Len(Tail(s \o t)) = Len(s) + Len(t) - 1
      /\ \A i \in 1..Len(s) + Len(t) - 1 : Tail(s \o t)[i] = (s \o t)[i + 1]
  BY <1>1, <1>4, HeadTailProperties
<1>7. /\ Tail(s) \o t \in Seq(S)
      /\ Len(Tail(s) \o t) = Len(s) - 1 + Len(t)
      /\ \A i \in 1..Len(s) - 1 + Len(t) :
            (Tail(s) \o t)[i] =
                IF i <= Len(s) - 1 THEN Tail(s)[i] ELSE t[i - (Len(s) - 1)]
  BY <1>2, ConcatProperties
<1>8. \A i \in 1..Len(s) + Len(t) - 1 : Tail(s \o t)[i] = (Tail(s) \o t)[i]
  BY <1>1, <1>2, <1>3, <1>6, <1>7
<1>9. Tail(s \o t) = Tail(s) \o t
  BY <1>2, <1>3, <1>6, <1>7, <1>8, SeqEqual
<1> QED
  BY <1>4, <1>5, <1>9

(* The loop executes the functors the way SerialExecutor says: a push is   *)
(* a Submit, the return of a functor is an Execute of the oldest task, and *)
(* everything else, the swap of the two vectors included, is a stutter.    *)
THEOREM EventLoopImplements == Spec => ImplementsExecutor
<1> DEFINE pending == functors \o unprocessedFunctors
<1>1. Init => Executor!Init
  BY ConcatEmptySeq DEF Init, Executor!Init
<1>2. TypeOK /\ [Next]_vars => [Executor!Next]_<<pending, ran>>
  <2> SUFFICES ASSUME TypeOK, [Next]_vars
               PROVE  Executor!Next \/ (pending' = pending /\ ran' = ran)
    OBVIOUS
  <2>0. functors \in Seq(Functors) /\ unprocessedFunctors \in Seq(Functors)
    BY DEF TypeOK, Types
  <2>1. CASE SwapFunctors
    <3>1. functors = <<>>
      BY <2>1 DEF SwapFunctors, LoopAt, TypeOK
    <3>2. pending = unprocessedFunctors
      BY <2>0, <3>1, ConcatEmptySeq
    <3>3. pending' = unprocessedFunctors
      BY <2>0, <2>1, ConcatEmptySeq DEF SwapFunctors
    <3> QED
      BY <2>1, <3>2, <3>3 DEF SwapFunctors
  <2>2. CASE FunctorReturns
    <3>1. pending # <<>> /\ Head(pending) = Head(functors)
                        /\ Tail(pending) = Tail(functors) \o unprocessedFunctors
      BY <2>0, <2>2, HeadTailOfConcat DEF FunctorReturns
    <3>2. Executor!Execute
      BY <2>2, <3>1 DEF FunctorReturns, Executor!Execute
    <3> QED
      BY <3>2 DEF Executor!Next
  <2>3. ASSUME NEW t \in Callers, AddToLoopThread(t) PROVE Executor!Next
    <3> DEFINE f == IF t = LoopThread /\ loopPc = "idle" THEN Early ELSE t
    <3>1. f \in Functors
      BY DEF Callers, Functors
    <3>2. unprocessedFunctors' = unprocessedFunctors \o <<f>>
      BY <2>0, <2>3, <3>1, AppendIsConcat DEF AddToLoopThread
    <3>3. pending' = pending \o <<f>>
      BY <2>0, <2>3, <3>1, <3>2, ConcatAssociative DEF AddToLoopThread
    <3>4. pending \in Seq(Functors)
      BY <2>0, ConcatProperties
    <3>5. pending' = Append(pending, f)
      BY <3>1, <3>3, <3>4, AppendIsConcat
    <3>6. Executor!Submit
      BY <2>3, <3>1, <3>5 DEF AddToLoopThread, Executor!Submit
    <3> QED
      BY <3>6 DEF Executor!Next
  <2>4. ASSUME UNCHANGED <<functors, unprocessedFunctors, ran>>
        PROVE  pending' = pending /\ ran' = ran
    BY <2>4
  <2> QED
    BY <2>1, <2>2, <2>3, <2>4
    DEF Next, LoopStep, Call, EnterLoop, TestQuit, PollReturns, PollTimesOut,
        ReadFd, HandleEventReturns, ProcessFunctors, ProcessFunctorsReturns,
        Quit, Waken, vars
<1> QED
  BY <1>1, <1>2, TypeCorrect, PTL DEF Spec, ImplementsExecutor, Executor!Spec

-----------------------------------------------------------------------------
(* How owner and thread go together: _loop is set before loop() is         *)
(* entered, an owner leaves start() only when it found it set, it sleeps   *)
(* only before the notification, loop() returns only when _quit was        *)
(* stored, which only quit() does, and a store to it that found loop()     *)
(* running is not undone.                                                  *)
Handshake(o) ==
    /\ owner[o] = "new" => thread[o] = "none"
    /\ thread[o] = "none" => owner[o] \in {"new", "gone"}
    /\ owner[o] \in {"started", "join"} => loop[o]
    /\ loop[o] <=> thread[o] \in {"enter", "looping", "gone"}
    /\ threadQuit[o] \/ thread[o] = "gone" => asked[o] # "no"
    /\ owner[o] = "asleep" => thread[o] \in {"construct", "publish"}
    /\ asked[o] = "looping" => threadQuit[o] /\ thread[o] \in {"looping", "gone"}

ThreadInv == ThreadTypeOK /\ \A o \in Objects : Handshake(o)

(* Each step of an owner or of a thread keeps the handshake.               *)
LEMMA NextThreadInv == ThreadInv /\ [ThreadNext]_threadVars => ThreadInv'
<1> SUFFICES ASSUME ThreadInv, [ThreadNext]_threadVars PROVE ThreadInv'
  OBVIOUS
<1> USE DEF ThreadInv, ThreadTypeOK, Handshake
<1>1. ASSUME NEW o \in Objects, Start(o) PROVE ThreadInv'
  BY <1>1 DEF Start
<1>2. ASSUME NEW o \in Objects, QuitThread(o) PROVE ThreadInv'
  BY <1>2 DEF QuitThread
<1>3. ASSUME NEW o \in Objects, Destroy(o) PROVE ThreadInv'
  BY <1>3 DEF Destroy
<1>4. ASSUME NEW o \in Objects, TestLoop(o) PROVE ThreadInv'
  BY <1>4 DEF TestLoop
<1>5. ASSUME NEW o \in Objects, Joined(o) PROVE ThreadInv'
  BY <1>5 DEF Joined
<1>6. ASSUME NEW o \in Objects, SpuriousWakeup(o) PROVE ThreadInv'
  BY <1>6 DEF SpuriousWakeup
<1>7. ASSUME NEW o \in Objects, Construct(o) PROVE ThreadInv'
  BY <1>7 DEF Construct
<1>8. ASSUME NEW o \in Objects, Publish(o) PROVE ThreadInv'
  BY <1>8 DEF Publish
<1>9. ASSUME NEW o \in Objects, ThreadEntersLoop(o) PROVE ThreadInv'
  BY <1>9 DEF ThreadEntersLoop
<1>10. ASSUME NEW o \in Objects, LoopReturns(o) PROVE ThreadInv'
  BY <1>10 DEF LoopReturns
<1>11. CASE UNCHANGED threadVars
  BY <1>11 DEF threadVars
<1> QED
  BY <1>1, <1>2, <1>3, <1>4, <1>5, <1>6, <1>7, <1>8, <1>9, <1>10, <1>11
  DEF ThreadNext, OwnerStep, ThreadStep

(* The address that EventLoopThread::start() returned is that of an        *)
(* EventLoop that has been constructed and, until quit() is called on it,  *)
(* not destroyed, for any number of loop threads.                          *)
THEOREM StartedLoopIsAliveHolds == ThreadSpec => []StartedLoopIsAlive
<1>1. ThreadInit => ThreadInv
  BY DEF ThreadInit, ThreadInv, ThreadTypeOK, Handshake
<1>2. ThreadInv => StartedLoopIsAlive
  BY DEF ThreadInv, ThreadTypeOK, Handshake, StartedLoopIsAlive
<1> QED
  BY <1>1, <1>2, NextThreadInv, PTL DEF ThreadSpec

(* The owner waits for something that is still to come: asleep in start(), *)
(* for a thread that did not notify it yet; in the destructor, after a     *)
(* quit() of the running loop, for a thread that returned or that finds    *)
(* _quit set.                                                              *)
WaitsEnd ==
    \A o \in Objects :
       /\ owner[o] = "asleep" => thread[o] \in {"construct", "publish"}
       /\ owner[o] = "join" /\ asked[o] = "looping" =>
             thread[o] = "gone" \/ (thread[o] = "looping" /\ threadQuit[o])

(* No notification falls between the owner's test of _loop and its wait,   *)
(* and no quit() of a running loop is forgotten: neither start() nor the   *)
(* destructor waits for a thread that went past it.                        *)
THEOREM WaitsEndHolds == ThreadSpec => []WaitsEnd
<1>1. ThreadInit => ThreadInv
  BY DEF ThreadInit, ThreadInv, ThreadTypeOK, Handshake
<1>2. ThreadInv => WaitsEnd
  BY DEF ThreadInv, ThreadTypeOK, Handshake, WaitsEnd
<1> QED
  BY <1>1, <1>2, NextThreadInv, PTL DEF ThreadSpec

-----------------------------------------------------------------------------
(* Nobody has a loop on which to call quit() while run() is in its first   *)
(* round, so that the thread of the temporary does not end.                *)
FirstRound ==
    /\ ThreadInv
    /\ round = 1 /\ loops = <<>>
    /\ \A o \in Objects : asked[o] = "no" /\ owner[o] # "gone"

(* EventLoopThreadPool::run() with at least one thread never returns: the  *)
(* destructor of the temporary EventLoopThread of the first round joins a  *)
(* thread whose loop nobody can quit.  DESIGN.md has the main reactor hand *)
(* connections to the loops of the pool.                                   *)
THEOREM RunNeverReturns ==
    ASSUME NEW n \in Nat \ {0}, Objects = 1..n
    PROVE  PoolSpec => [](~RunReturned /\ loops = <<>>)
<1>1. 1 \in Objects /\ NumThreads = n
  <2>1. 1 \in Objects /\ Cardinality(Objects) = n
    BY FS_Interval
  <2> QED
    BY <2>1 DEF NumThreads
<1>2. PoolInit => FirstRound
  BY DEF PoolInit, ThreadInit, FirstRound, ThreadInv, ThreadTypeOK, Handshake
<1>3. FirstRound /\ [PoolNext]_poolVars => FirstRound'
  <2> SUFFICES ASSUME FirstRound, [PoolNext]_poolVars PROVE FirstRound'
    OBVIOUS
  <2>1. ASSUME [ThreadNext]_threadVars, UNCHANGED <<round, loops>>,
               \A o \in Objects : asked'[o] = asked[o],
               \A o \in Objects : owner'[o] # "gone"
        PROVE  FirstRound'
    BY <2>1, NextThreadInv DEF FirstRound
  <2>2. \A o \in Objects : thread[o] # "gone"
    BY DEF FirstRound, ThreadInv, Handshake
  <2>3. CASE RunStep
    <3>1. [ThreadNext]_threadVars
      BY <1>1, <2>3 DEF RunStep, FirstRound, ThreadNext
    <3>2. UNCHANGED <<round, loops, asked>>
      BY <2>3 DEF RunStep, Start, OwnerStep, TestLoop, Joined, Destroy
    <3>3. owner' = [owner EXCEPT ![1] = owner'[1]] /\ owner'[1] # "gone"
      <4>1. owner[1] = "started" => thread[1] # "none"
        BY <1>1 DEF FirstRound, ThreadInv, Handshake
      <4>2. owner \in [Objects -> {"new", "test", "asleep", "started", "join", "gone"}]
        BY DEF FirstRound, ThreadInv, ThreadTypeOK
      <4> QED
        BY <1>1, <2>2, <2>3, <4>1, <4>2
        DEF FirstRound, RunStep, Start, OwnerStep, TestLoop, Joined, Destroy
    <3> QED
      BY <2>1, <3>1, <3>2, <3>3 DEF FirstRound, ThreadInv, ThreadTypeOK
  <2>4. CASE PushBack
    BY <1>1, <2>4 DEF PushBack, FirstRound
  <2>5. CASE NextLoop
    BY <1>1, <2>5 DEF NextLoop, RunReturned, FirstRound
  <2>6. CASE LoopThreads
    <3>1. PICK o \in Objects : ThreadStep(o)
      BY <2>6 DEF LoopThreads
    <3>2. [ThreadNext]_threadVars
      BY <3>1 DEF ThreadNext
    <3>3. UNCHANGED asked /\ \A u \in Objects : owner'[u] # "gone"
      BY <3>1 DEF ThreadStep, Construct, Publish, ThreadEntersLoop, LoopReturns,
                  FirstRound, ThreadInv, ThreadTypeOK
    <3> QED
      BY <2>1, <2>6, <3>2, <3>3 DEF LoopThreads
  <2>7. CASE UNCHANGED poolVars
    BY <2>1, <2>7 DEF poolVars, threadVars, FirstRound
  <2> QED
    BY <2>3, <2>4, <2>5, <2>6, <2>7 DEF PoolNext
<1>4. FirstRound => ~RunReturned /\ loops = <<>>
  BY <1>1 DEF FirstRound, RunReturned
<1> QED
  BY <1>2, <1>3, <1>4, PTL DEF PoolSpec
=============================================================================
