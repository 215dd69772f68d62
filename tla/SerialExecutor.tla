--------------------------- MODULE SerialExecutor ---------------------------
(***************************************************************************)
(* What EventLoop::runInLoopThread / addToLoopThread promise the other     *)
(* components: tasks handed to the loop from any thread are executed one   *)
(* at a time, in the order they were handed over, each exactly once.       *)
(* EventLoop implements this specification (theorem EventLoopImplements).  *)
(***************************************************************************)
EXTENDS Sequences

CONSTANT Tasks

VARIABLES pending,   \* handed over, not executed yet
          done       \* executed, in the order of execution

Init ==
    /\ pending = <<>>
    /\ done = <<>>

(* Some thread hands over a task. *)
Submit ==
    \E task \in Tasks :
        /\ pending' = Append(pending, task)
        /\ UNCHANGED done

(* The loop thread completes the oldest pending task. *)
Execute ==
    /\ pending # <<>>
    /\ done' = Append(done, Head(pending))
    /\ pending' = Tail(pending)

Next == Submit \/ Execute

Spec == Init /\ [][Next]_<<pending, done>>
=============================================================================
