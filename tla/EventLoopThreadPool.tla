------------------------- MODULE EventLoopThreadPool -------------------------
(***************************************************************************)
(* EventLoopThreadPool (src/EventLoopThreadPool.cpp): run() creates one    *)
(* EventLoopThread per thread, as a temporary: its destructor, which joins *)
(* the thread, runs before run() stores the loop and goes on.  nextLoop()  *)
(* hands out the loops in turn, or the main loop when there are none.      *)
(* Object i of EventLoopThread is the temporary of round i.                *)
(***************************************************************************)
EXTENDS EventLoopThread, FiniteSets

(* _numThreads; Objects is 1..NumThreads *)
NumThreads == Cardinality(Objects)

VARIABLES
    round,      \* of the loop in run(); run() returned when it is past the end
    loops,      \* _loops; 0 stands for the main loop in what is handed out
    nextIndex,  \* _nextIndex
    handed      \* what nextLoop() returned last

poolVars == <<threadVars, round, loops, nextIndex, handed>>

PoolInit ==
    /\ ThreadInit
    /\ round = 1
    /\ loops = <<>>
    /\ nextIndex = 0
    /\ handed = 0

RunReturned == round > NumThreads

(* EventLoopThread().start(), and the temporary's destructor *)
RunStep ==
    /\ ~RunReturned
    /\ \/ Start(round)
       \/ OwnerStep(round)
       \/ owner[round] = "started" /\ Destroy(round)
    /\ UNCHANGED <<round, loops, nextIndex, handed>>

PushBack ==
    /\ ~RunReturned
    /\ owner[round] = "gone"
    /\ loops' = Append(loops, round)
    /\ round' = round + 1
    /\ UNCHANGED <<threadVars, nextIndex, handed>>

NextLoop ==
    /\ RunReturned
    /\ IF loops = <<>>
         THEN handed' = 0 /\ UNCHANGED nextIndex
         ELSE /\ handed' = loops[nextIndex + 1]
              /\ nextIndex' = (nextIndex + 1) % Len(loops)
    /\ UNCHANGED <<threadVars, round, loops>>

LoopThreads ==
    /\ \E o \in Objects : ThreadStep(o)
    /\ UNCHANGED <<round, loops, nextIndex, handed>>

PoolNext == RunStep \/ PushBack \/ NextLoop \/ LoopThreads

PoolSpec ==
    /\ PoolInit
    /\ [][PoolNext]_poolVars
    /\ WF_poolVars(RunStep) /\ WF_poolVars(PushBack) /\ WF_poolVars(LoopThreads)

-----------------------------------------------------------------------------
(* DESIGN.md: the main reactor hands connections to one of several sub     *)
(* reactors in turn.  So run() returns with the loops of the pool.         *)
RunReturns == <>(RunReturned /\ Len(loops) = NumThreads)
=============================================================================
