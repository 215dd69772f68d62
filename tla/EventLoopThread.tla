--------------------------- MODULE EventLoopThread ---------------------------
(***************************************************************************)
(* EventLoopThread (src/EventLoopThread.cpp): a thread that constructs an  *)
(* EventLoop on its stack and runs loop(), and an owner that start()s it,  *)
(* waits on a condition variable for the address of the loop, and joins    *)
(* the thread in the destructor.  Several objects, each with its owner.    *)
(*                                                                         *)
(* Of the EventLoop only what matters here is kept: loop() begins with     *)
(* _quit = false and returns when it finds _quit set (EventLoop shows that *)
(* a quit() of a running loop is not missed).                              *)
(***************************************************************************)
EXTENDS Naturals, Sequences

CONSTANT Objects

VARIABLES
    owner,       \* "new", "test" and "asleep" in start(), "started", "join"
                 \* in the destructor, "gone"
    thread,      \* "none", "construct", "publish", "enter", "looping", "gone"
    loop,        \* was _loop set?  It is never reset.
    alive,       \* is there an EventLoop object on the thread's stack?
    threadQuit,  \* its _quit
    asked        \* history: "no"; "early" or "looping": when quit() was called

threadVars == <<owner, thread, loop, alive, threadQuit, asked>>

(* The types; the EventLoop exists from its construction to the return of  *)
(* loop().                                                                 *)
ThreadTypeOK ==
    /\ owner \in [Objects -> {"new", "test", "asleep", "started", "join", "gone"}]
    /\ thread \in [Objects -> {"none", "construct", "publish", "enter",
                               "looping", "gone"}]
    /\ loop \in [Objects -> BOOLEAN]
    /\ alive \in [Objects -> BOOLEAN]
    /\ threadQuit \in [Objects -> BOOLEAN]
    /\ asked \in [Objects -> {"no", "early", "looping"}]
    /\ \A o \in Objects : alive[o] <=> thread[o] \in {"publish", "enter", "looping"}

ThreadInit ==
    /\ owner = [o \in Objects |-> "new"]
    /\ thread = [o \in Objects |-> "none"]
    /\ loop = [o \in Objects |-> FALSE]
    /\ alive = [o \in Objects |-> FALSE]
    /\ threadQuit = [o \in Objects |-> FALSE]
    /\ asked = [o \in Objects |-> "no"]

-----------------------------------------------------------------------------
(* The owner.                                                              *)

(* start() creates the thread ... *)
Start(o) ==
    /\ owner[o] = "new"
    /\ owner' = [owner EXCEPT ![o] = "test"]
    /\ thread' = [thread EXCEPT ![o] = "construct"]
    /\ UNCHANGED <<loop, alive, threadQuit, asked>>

(* ... start() that does not wait for the thread ... *)
ReturnAtOnce(o) ==
    /\ owner[o] = "test"
    /\ owner' = [owner EXCEPT ![o] = "started"]
    /\ UNCHANGED <<thread, loop, alive, threadQuit, asked>>

(* ... and waits for _loop: the test and the wait are under _mutex. *)
TestLoop(o) ==
    /\ owner[o] = "test"
    /\ owner' = [owner EXCEPT ![o] = IF loop[o] THEN "started" ELSE "asleep"]
    /\ UNCHANGED <<thread, loop, alive, threadQuit, asked>>

SpuriousWakeup(o) ==
    /\ owner[o] = "asleep"
    /\ owner' = [owner EXCEPT ![o] = "test"]
    /\ UNCHANGED <<thread, loop, alive, threadQuit, asked>>

(* quit() that only wakes the loop up *)
QuitStoresNothing(o) ==
    /\ owner[o] = "started"
    /\ asked[o] = "no"
    /\ asked' = [asked EXCEPT ![o] = IF thread[o] = "looping" THEN "looping"
                                                              ELSE "early"]
    /\ UNCHANGED <<owner, thread, loop, alive, threadQuit>>

(* quit() on the loop that start() returned, once: loop() has been entered *)
(* or is about to be, in which case ThreadEntersLoop forgets the call.     *)
QuitThread(o) ==
    /\ owner[o] = "started"
    /\ asked[o] = "no"
    /\ threadQuit' = [threadQuit EXCEPT ![o] = TRUE]
    /\ asked' = [asked EXCEPT ![o] = IF thread[o] = "looping" THEN "looping"
                                                              ELSE "early"]
    /\ UNCHANGED <<owner, thread, loop, alive>>

(* ~EventLoopThread(): a thread that was started is joined. *)
Destroy(o) ==
    /\ owner[o] \in {"new", "started"}
    /\ owner' = [owner EXCEPT ![o] = IF thread[o] = "none" THEN "gone" ELSE "join"]
    /\ UNCHANGED <<thread, loop, alive, threadQuit, asked>>

Joined(o) ==
    /\ owner[o] = "join" /\ thread[o] = "gone"
    /\ owner' = [owner EXCEPT ![o] = "gone"]
    /\ UNCHANGED <<thread, loop, alive, threadQuit, asked>>

-----------------------------------------------------------------------------
(* The thread: startEventLoop().                                           *)

Construct(o) ==
    /\ thread[o] = "construct"
    /\ alive' = [alive EXCEPT ![o] = TRUE]
    /\ thread' = [thread EXCEPT ![o] = "publish"]
    /\ UNCHANGED <<owner, loop, threadQuit, asked>>

(* the store to _loop without notify_one() *)
PublishSilently(o) ==
    /\ thread[o] = "publish"
    /\ loop' = [loop EXCEPT ![o] = TRUE]
    /\ thread' = [thread EXCEPT ![o] = "enter"]
    /\ UNCHANGED <<owner, alive, threadQuit, asked>>

(* _loop = &loop and notify_one(), under _mutex *)
Publish(o) ==
    /\ thread[o] = "publish"
    /\ loop' = [loop EXCEPT ![o] = TRUE]
    /\ owner' = [owner EXCEPT ![o] = IF @ = "asleep" THEN "test" ELSE @]
    /\ thread' = [thread EXCEPT ![o] = "enter"]
    /\ UNCHANGED <<alive, threadQuit, asked>>

(* loop() is entered: _quit = false *)
ThreadEntersLoop(o) ==
    /\ thread[o] = "enter"
    /\ threadQuit' = [threadQuit EXCEPT ![o] = FALSE]
    /\ thread' = [thread EXCEPT ![o] = "looping"]
    /\ UNCHANGED <<owner, loop, alive, asked>>

(* loop() returns and the EventLoop is destroyed *)
LoopReturns(o) ==
    /\ thread[o] = "looping"
    /\ threadQuit[o]
    /\ alive' = [alive EXCEPT ![o] = FALSE]
    /\ thread' = [thread EXCEPT ![o] = "gone"]
    /\ UNCHANGED <<owner, loop, threadQuit, asked>>

ThreadStep(o) == Construct(o) \/ Publish(o) \/ ThreadEntersLoop(o) \/ LoopReturns(o)

OwnerStep(o) == TestLoop(o) \/ Joined(o)

ThreadNext ==
    \E o \in Objects :
        \/ Start(o) \/ QuitThread(o) \/ Destroy(o)
        \/ OwnerStep(o) \/ SpuriousWakeup(o)
        \/ ThreadStep(o)

ThreadSpec == ThreadInit /\ [][ThreadNext]_threadVars

(* Both threads are scheduled; nothing makes an owner call start(), quit() *)
(* or the destructor, and nothing makes a spurious wake-up happen.         *)
ThreadFairness ==
    \A o \in Objects :
        WF_threadVars(ThreadStep(o)) /\ WF_threadVars(OwnerStep(o))

ThreadFairSpec == ThreadSpec /\ ThreadFairness

-----------------------------------------------------------------------------
(* start() returns the address of a constructed EventLoop, which stays     *)
(* there until quit() is called on it.                                     *)
StartedLoopIsAlive ==
    /\ ThreadTypeOK
    /\ \A o \in Objects :
          owner[o] \in {"started", "join"} /\ asked[o] = "no"
              => loop[o] /\ alive[o]

(* start() returns: the notification cannot fall between the owner's test  *)
(* of _loop and its wait.                                                  *)
StartReturns ==
    \A o \in Objects : owner[o] = "test" ~> owner[o] \notin {"test", "asleep"}

(* The destructor returns when quit() was called on the running loop.      *)
DestructorReturns ==
    \A o \in Objects :
        owner[o] = "join" /\ asked[o] = "looping" ~> owner[o] = "gone"
=============================================================================
