------------------------------ MODULE EventLoop ------------------------------
(***************************************************************************)
(* One EventLoop (src/EventLoop.cpp): the thread that runs loop(), the     *)
(* functors other threads and its own callbacks hand to it, the eventfd    *)
(* that wakes it up, and quit().                                           *)
(*                                                                         *)
(* The step of every thread ends where another thread can observe it: the  *)
(* push under _mutex, the store to _quit, the write to the eventfd, the    *)
(* swap under _mutex, the test of the while loop and the return of poll(). *)
(* _processingFunctors is read by the loop thread only (the || of line 188 *)
(* does not evaluate it on another thread), so its test is part of the     *)
(* push.  _quit is a plain bool shared by threads; the calls in the body   *)
(* of the loop keep the compiler from caching it, so a load returns the    *)
(* last store.                                                             *)
(***************************************************************************)
EXTENDS Naturals, Sequences

CONSTANTS
    Threads,       \* the threads other than the loop's own thread
    LoopThread,    \* the thread that constructed the loop (_threadId)
    Early,         \* see Functors
    MaxSubmitted   \* bound: how many functors are ever queued

ASSUME ThreadsAssumption ==
    /\ LoopThread \notin Threads
    /\ Early \notin Threads \cup {LoopThread}
    /\ MaxSubmitted \in Nat

(* A functor is told apart by who queued it; Early is one that the loop    *)
(* thread itself queued while it was not inside loop().                    *)
Functors == Threads \cup {LoopThread, Early}

Callers == Threads \cup {LoopThread}

(* "waken" is _wakenChannel; "io" stands for every other channel, whose    *)
(* callbacks are code outside this class.                                  *)
ChannelNames == {"waken", "io"}

VARIABLES
    loopPc,              \* where the loop thread is, see LoopPcs
    quit,                \* _quit
    processingFunctors,  \* _processingFunctors
    unprocessedFunctors, \* _unprocessedFunctors, guarded by _mutex
    functors,            \* the local vector of processFunctors(), oldest first
    activeChannels,      \* _activeChannels whose handleEvent() is outstanding
    wakenfd,             \* is the eventfd readable (its counter non-zero)?
    pc,                  \* per caller: "idle", or "waken": about to write it
    ran                  \* history: functors executed, in order

vars == <<loopPc, quit, processingFunctors, unprocessedFunctors, functors,
          activeChannels, wakenfd, pc, ran>>

(* idle: outside loop(); while: at the loop's test; poll: in poll();       *)
(* handle: dispatching the active channels; swap: in processFunctors()     *)
(* before the swap; run: executing the swapped functors.                   *)
LoopPcs == {"idle", "while", "poll", "handle", "swap", "run"}

Types ==
    /\ loopPc \in LoopPcs
    /\ quit \in BOOLEAN
    /\ processingFunctors \in BOOLEAN
    /\ unprocessedFunctors \in Seq(Functors)
    /\ functors \in Seq(Functors)
    /\ activeChannels \in SUBSET ChannelNames
    /\ wakenfd \in BOOLEAN
    /\ pc \in [Callers -> {"idle", "waken"}]
    /\ ran \in Seq(Functors)

(* Types, and the state that belongs to a phase of the loop: the flag is   *)
(* set exactly inside processFunctors(), its vector is empty elsewhere and *)
(* no channel is left to handle outside the dispatch.                      *)
TypeOK ==
    /\ Types
    /\ processingFunctors <=> loopPc \in {"swap", "run"}
    /\ loopPc # "run" => functors = <<>>
    /\ loopPc # "handle" => activeChannels = {}

Init ==
    /\ loopPc = "idle"
    /\ quit = FALSE
    /\ processingFunctors = FALSE
    /\ unprocessedFunctors = <<>>
    /\ functors = <<>>
    /\ activeChannels = {}
    /\ wakenfd = FALSE
    /\ pc = [t \in Callers |-> "idle"]
    /\ ran = <<>>

Submitted == ran \o functors \o unprocessedFunctors

-----------------------------------------------------------------------------
(* The operations a thread may call.                                       *)

(* Code of the application runs on the loop thread outside loop(), in the  *)
(* callback of a channel and in a functor; loop() itself is suspended then.*)
LoopThreadInCallback ==
    /\ loopPc \in {"handle", "run"}
    /\ loopPc = "handle" => "io" \in activeChannels
    /\ loopPc = "run" => functors # <<>>

MayCall(t) ==
    /\ pc[t] = "idle"
    /\ t = LoopThread => loopPc = "idle" \/ LoopThreadInCallback

(* addToLoopThread() forgets that a functor may be queued by a functor *)
MustWakenIgnoringFunctors(t) == t # LoopThread

(* addToLoopThread() takes a loop that runs functors for one that is awake *)
MustWakenUnlessBusy(t) ==
    IF t = LoopThread THEN processingFunctors ELSE ~processingFunctors

MustWaken(t) == t # LoopThread \/ processingFunctors

(* addToLoopThread(); runInLoopThread() is this on another thread, and a   *)
(* plain call of the functor on the loop thread.                           *)
AddToLoopThread(t) ==
    /\ MayCall(t)
    /\ Len(Submitted) < MaxSubmitted
    /\ unprocessedFunctors' =
          Append(unprocessedFunctors,
                 IF t = LoopThread /\ loopPc = "idle" THEN Early ELSE t)
    /\ pc' = [pc EXCEPT ![t] = IF MustWaken(t) THEN "waken" ELSE "idle"]
    /\ UNCHANGED <<loopPc, quit, processingFunctors, functors,
                   activeChannels, wakenfd, ran>>

(* quit() that expects the poll timeout to end the loop *)
QuitWithoutWaken(t) ==
    /\ MayCall(t)
    /\ quit' = TRUE
    /\ UNCHANGED <<loopPc, processingFunctors, unprocessedFunctors, functors,
                   activeChannels, wakenfd, pc, ran>>

Quit(t) ==
    /\ MayCall(t)
    /\ quit' = TRUE
    /\ pc' = [pc EXCEPT ![t] = IF t # LoopThread THEN "waken" ELSE "idle"]
    /\ UNCHANGED <<loopPc, processingFunctors, unprocessedFunctors, functors,
                   activeChannels, wakenfd, ran>>

(* waken(): the write adds 1 to the counter of the eventfd.  Called by the *)
(* two operations above, and a public member itself.                       *)
Waken(t) ==
    /\ pc[t] = "waken" \/ MayCall(t)
    /\ wakenfd' = TRUE
    /\ pc' = [pc EXCEPT ![t] = "idle"]
    /\ UNCHANGED <<loopPc, quit, processingFunctors, unprocessedFunctors,
                   functors, activeChannels, ran>>

-----------------------------------------------------------------------------
(* The loop thread inside loop(); it is suspended while a callback of its  *)
(* own is about to write the eventfd.                                      *)
LoopAt(where) == loopPc = where /\ pc[LoopThread] = "idle"

(* loop() is entered, for the first time or again after it returned. *)
EnterLoop ==
    /\ LoopAt("idle")
    /\ quit' = FALSE
    /\ loopPc' = "while"
    /\ UNCHANGED <<processingFunctors, unprocessedFunctors, functors,
                   activeChannels, wakenfd, pc, ran>>

(* while (!_quit) *)
TestQuit ==
    /\ LoopAt("while")
    /\ loopPc' = IF quit THEN "idle" ELSE "poll"
    /\ UNCHANGED <<quit, processingFunctors, unprocessedFunctors, functors,
                   activeChannels, wakenfd, pc, ran>>

(* poll() returns the channels that are ready; it does not return without  *)
(* the eventfd's when that is readable.                                    *)
PollReturns(ready) ==
    /\ LoopAt("poll")
    /\ wakenfd <=> "waken" \in ready
    /\ ready # {}
    /\ activeChannels' = ready
    /\ loopPc' = "handle"
    /\ UNCHANGED <<quit, processingFunctors, unprocessedFunctors, functors,
                   wakenfd, pc, ran>>

(* POLLTIME elapsed, or a signal interrupted poll() *)
PollTimesOut ==
    /\ LoopAt("poll")
    /\ ~wakenfd
    /\ activeChannels' = {}
    /\ loopPc' = "handle"
    /\ UNCHANGED <<quit, processingFunctors, unprocessedFunctors, functors,
                   wakenfd, pc, ran>>

(* The read callback of _wakenChannel: reading an eventfd zeroes it. *)
ReadFd ==
    /\ LoopAt("handle")
    /\ "waken" \in activeChannels
    /\ wakenfd' = FALSE
    /\ activeChannels' = activeChannels \ {"waken"}
    /\ UNCHANGED <<loopPc, quit, processingFunctors, unprocessedFunctors,
                   functors, pc, ran>>

(* The callback of another channel returns. *)
HandleEventReturns ==
    /\ LoopAt("handle")
    /\ "io" \in activeChannels
    /\ activeChannels' = activeChannels \ {"io"}
    /\ UNCHANGED <<loopPc, quit, processingFunctors, unprocessedFunctors,
                   functors, wakenfd, pc, ran>>

(* Every channel was handled: processFunctors() is called. *)
ProcessFunctors ==
    /\ LoopAt("handle")
    /\ activeChannels = {}
    /\ processingFunctors' = TRUE
    /\ loopPc' = "swap"
    /\ UNCHANGED <<quit, unprocessedFunctors, functors, activeChannels,
                   wakenfd, pc, ran>>

(* the swap written as a copy that leaves the member behind *)
CopyFunctors ==
    /\ LoopAt("swap")
    /\ functors' = unprocessedFunctors
    /\ loopPc' = "run"
    /\ UNCHANGED <<quit, processingFunctors, unprocessedFunctors,
                   activeChannels, wakenfd, pc, ran>>

(* functors.swap(_unprocessedFunctors) under _mutex *)
SwapFunctors ==
    /\ LoopAt("swap")
    /\ functors' = unprocessedFunctors
    /\ unprocessedFunctors' = <<>>
    /\ loopPc' = "run"
    /\ UNCHANGED <<quit, processingFunctors, activeChannels, wakenfd, pc, ran>>

(* The functor in progress, the oldest of the vector, returns. *)
FunctorReturns ==
    /\ LoopAt("run")
    /\ functors # <<>>
    /\ ran' = Append(ran, Head(functors))
    /\ functors' = Tail(functors)
    /\ UNCHANGED <<loopPc, quit, processingFunctors, unprocessedFunctors,
                   activeChannels, wakenfd, pc>>

ProcessFunctorsReturns ==
    /\ LoopAt("run")
    /\ functors = <<>>
    /\ processingFunctors' = FALSE
    /\ loopPc' = "while"
    /\ UNCHANGED <<quit, unprocessedFunctors, functors, activeChannels,
                   wakenfd, pc, ran>>

-----------------------------------------------------------------------------
LoopStep ==
    \/ TestQuit
    \/ \E ready \in SUBSET ChannelNames : PollReturns(ready)
    \/ ReadFd
    \/ HandleEventReturns
    \/ ProcessFunctors
    \/ SwapFunctors
    \/ FunctorReturns
    \/ ProcessFunctorsReturns

Call(t) ==
    \/ AddToLoopThread(t)
    \/ Quit(t)
    \/ Waken(t)

Next ==
    \/ EnterLoop
    \/ LoopStep
    \/ PollTimesOut
    \/ \E t \in Callers : Call(t)

Spec == Init /\ [][Next]_vars

(***************************************************************************)
(* The scheduler keeps running the loop thread and finishes a call of      *)
(* waken() once it is due.  Nothing makes a thread enter loop(), call an   *)
(* operation, or a descriptor become ready; and no promise below leans on  *)
(* the POLLTIME timeout, which would turn a lost wake-up into a delay of   *)
(* ten seconds.  A poll() that the eventfd ends is a step of LoopStep; one *)
(* that a descriptor ends is not taken by fairness.                        *)
(***************************************************************************)
PollWakes == wakenfd /\ \E ready \in SUBSET ChannelNames : PollReturns(ready)

Fairness ==
    /\ WF_vars(TestQuit)
    /\ WF_vars(PollWakes)
    /\ WF_vars(ReadFd)
    /\ WF_vars(HandleEventReturns)
    /\ WF_vars(ProcessFunctors)
    /\ WF_vars(SwapFunctors)
    /\ WF_vars(FunctorReturns)
    /\ WF_vars(ProcessFunctorsReturns)
    /\ \A t \in Callers : WF_vars(pc[t] = "waken" /\ Waken(t))

FairSpec == Spec /\ Fairness

-----------------------------------------------------------------------------
(* Properties.                                                             *)

WakeupPending == wakenfd \/ \E t \in Callers : pc[t] = "waken"

(* The loop never goes to sleep on work: when the loop thread is in poll() *)
(* (or about to test _quit and poll) with a functor queued, the eventfd is *)
(* readable or its writer is on the way.  Functors the owning thread       *)
(* queued before it entered loop() are the one exception: addToLoopThread  *)
(* does not write the eventfd for them, so they wait for the next event.   *)
NoLostWakeup ==
    (/\ loopPc \in {"while", "poll"}
     /\ \E i \in 1..Len(unprocessedFunctors) : unprocessedFunctors[i] # Early)
    => WakeupPending

(* NoLostWakeup, strengthened to be inductive: from the swap of one        *)
(* iteration to the end of the next poll().                                *)
WakeupInv ==
    (/\ loopPc \notin {"handle", "swap"}
     /\ \E i \in 1..Len(unprocessedFunctors) : unprocessedFunctors[i] # Early)
    => WakeupPending

(* quit() called while the loop polls, or between its test of _quit and    *)
(* its poll(), is noticed: poll() cannot stay blocked on a set _quit.      *)
NoLostQuit == loopPc = "poll" /\ quit => WakeupPending

(* A functor queued while loop() runs is executed, unless loop() returns   *)
(* first; no timeout of poll() is needed.                                  *)
QueuedFunctorsRun ==
    \A n \in 1..MaxSubmitted :
        (loopPc # "idle" /\ Len(Submitted) >= n /\ Submitted[n] # Early)
            ~> (Len(ran) >= n \/ loopPc = "idle")

(* quit() called while loop() runs makes loop() return. *)
QuitReturns == (loopPc # "idle" /\ quit) ~> (loopPc = "idle")

(* The functors are executed as SerialExecutor says: one at a time, in the *)
(* order of the pushes, each exactly once, also when a functor queues      *)
(* another one or loop() is left and entered again.                        *)
Executor == INSTANCE SerialExecutor
                WITH Tasks <- Functors,
                     pending <- functors \o unprocessedFunctors,
                     done <- ran

ImplementsExecutor == Executor!Spec
=============================================================================
