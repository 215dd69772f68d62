------------------------------ MODULE SharedBuf ------------------------------
(***************************************************************************)
(* SharedBuf (src/sharedBuf.cpp) on the semaphore Sem (include/sem/sem.hpp)*)
(* that the library builds from a mutex and a condition variable.  The     *)
(* threads are those of tests/sharedBuf_unittest.cpp: a producer inserts   *)
(* its items one after the other, a consumer removes a number of them.     *)
(*                                                                         *)
(* A critical section is one step.  A thread in Sem::wait() tests the      *)
(* count and, when it is zero, sleeps on the condition variable until      *)
(* notify_one() or a spurious wake-up makes it test again.                 *)
(***************************************************************************)
EXTENDS Integers, Sequences, FiniteSets

CONSTANTS
    Producers,
    Consumers,
    PerProducer,   \* items a producer inserts
    PerConsumer,   \* items a consumer removes
    Capacity

ASSUME BufAssumption ==
    /\ IsFiniteSet(Producers) /\ IsFiniteSet(Consumers)
    /\ Producers \cap Consumers = {}
    /\ PerProducer \in Nat /\ PerConsumer \in Nat
    /\ Capacity \in Nat \ {0}

Threads == Producers \cup Consumers
Items == Producers \X (1..PerProducer)

VARIABLES
    slots,    \* slots._count
    items,    \* items._count
    buf,
    pc,       \* of a thread, see Pcs
    count,    \* insertions or removals a thread has completed
    taken     \* history: what was removed, in order

vars == <<slots, items, buf, pc, count, taken>>

(* test: in the while of Sem::wait(); asleep: in its _cond.wait(); access: *)
(* the semaphore was passed, buf is next; post: before the final post().   *)
Pcs == {"test", "asleep", "access", "post"}

Quota(t) == IF t \in Producers THEN PerProducer ELSE PerConsumer

(* the semaphore a thread waits on: slots for insert(), items for remove() *)
Count(t) == IF t \in Producers THEN slots ELSE items

TypeOK ==
    /\ slots \in 0..Capacity /\ items \in 0..Capacity
    /\ buf \in Seq(Items)
    /\ pc \in [Threads -> Pcs]
    /\ \A t \in Threads : count[t] \in 0..Quota(t)
    /\ taken \in Seq(Items)

Init ==
    /\ slots = Capacity
    /\ items = 0
    /\ buf = <<>>
    /\ pc = [t \in Threads |-> "test"]
    /\ count = [t \in Threads |-> 0]
    /\ taken = <<>>

(* Sem::wait(), one round of the loop, after the call or after a wake-up *)
Wait(t) ==
    /\ pc[t] = "test" /\ count[t] < Quota(t)
    /\ IF Count(t) = 0
         THEN pc' = [pc EXCEPT ![t] = "asleep"] /\ UNCHANGED <<slots, items>>
         ELSE /\ pc' = [pc EXCEPT ![t] = "access"]
              /\ slots' = IF t \in Producers THEN slots - 1 ELSE slots
              /\ items' = IF t \in Consumers THEN items - 1 ELSE items
    /\ UNCHANGED <<buf, count, taken>>

SpuriousWakeup(t) ==
    /\ pc[t] = "asleep"
    /\ pc' = [pc EXCEPT ![t] = "test"]
    /\ UNCHANGED <<slots, items, buf, count, taken>>

(* buf.push_front() instead of push_back() *)
PushFront(p) ==
    /\ pc[p] = "access"
    /\ buf' = <<<<p, count[p] + 1>>>> \o buf
    /\ pc' = [pc EXCEPT ![p] = "post"]
    /\ UNCHANGED <<slots, items, count, taken>>

(* insert(): the push under _mutex *)
Push(p) ==
    /\ pc[p] = "access"
    /\ buf' = Append(buf, <<p, count[p] + 1>>)
    /\ pc' = [pc EXCEPT ![p] = "post"]
    /\ UNCHANGED <<slots, items, count, taken>>

(* remove(): front() and pop_front() under _mutex *)
Pop(c) ==
    /\ pc[c] = "access"
    /\ taken' = Append(taken, Head(buf))
    /\ buf' = Tail(buf)
    /\ pc' = [pc EXCEPT ![c] = "post"]
    /\ UNCHANGED <<slots, items, count>>

(* post() without its notify_one() *)
NotifyNobody(t, waiters) == pc' = [pc EXCEPT ![t] = "test"]

(* notify_one(): some thread that waits, if there is one, wakes up; the    *)
(* caller goes on to its next insertion or removal.                        *)
NotifyOne(t, waiters) ==
    IF waiters = {}
      THEN pc' = [pc EXCEPT ![t] = "test"]
      ELSE \E u \in waiters : pc' = [pc EXCEPT ![t] = "test", ![u] = "test"]

Asleep(threads) == {t \in threads : pc[t] = "asleep"}

(* insert() and remove() that post the semaphore they waited for *)
PostSameSemaphore(t) ==
    /\ pc[t] = "post"
    /\ \/ /\ t \in Producers
          /\ slots' = slots + 1
          /\ NotifyOne(t, Asleep(Producers))
          /\ UNCHANGED items
       \/ /\ t \in Consumers
          /\ items' = items + 1
          /\ NotifyOne(t, Asleep(Consumers))
          /\ UNCHANGED slots
    /\ count' = [count EXCEPT ![t] = @ + 1]
    /\ UNCHANGED <<buf, taken>>

(* Sem::post(): items.post() ends insert(), slots.post() ends remove() *)
Post(t) ==
    /\ pc[t] = "post"
    /\ \/ /\ t \in Producers
          /\ items' = items + 1
          /\ NotifyOne(t, Asleep(Consumers))
          /\ UNCHANGED slots
       \/ /\ t \in Consumers
          /\ slots' = slots + 1
          /\ NotifyOne(t, Asleep(Producers))
          /\ UNCHANGED items
    /\ count' = [count EXCEPT ![t] = @ + 1]
    /\ UNCHANGED <<buf, taken>>

Done == \A t \in Threads : count[t] = Quota(t)

(* Every thread returned. *)
Joined == Done /\ UNCHANGED vars

Step(t) == Wait(t) \/ Post(t) \/ (t \in Producers /\ Push(t))
                              \/ (t \in Consumers /\ Pop(t))

Next ==
    \/ \E t \in Threads : Step(t) \/ SpuriousWakeup(t)
    \/ Joined

Spec == Init /\ [][Next]_vars

(* Every thread that is not asleep is scheduled; nothing makes a spurious  *)
(* wake-up happen, and every thread that waits for a mutex gets it.        *)
FairSpec == Spec /\ \A t \in Threads : WF_vars(Step(t))

-----------------------------------------------------------------------------
(* The semaphores account for the buffer: a slot is free, held by an       *)
(* inserting thread, filled, or not yet given back; and likewise for the   *)
(* items.  remove() never meets an empty deque because of it.              *)
At(threads, where) == Cardinality({t \in threads : pc[t] = where})

SemaphoresAccount ==
    /\ TypeOK
    /\ slots + At(Producers, "access") + Len(buf) + At(Consumers, "post") = Capacity
    /\ items + At(Consumers, "access") + At(Producers, "post") = Len(buf)

(* notify_one() is enough: while a thread sleeps on a positive semaphore,  *)
(* as many threads as it counts are awake to take it.                      *)
NoSleepOnPositive ==
    \A group \in {Producers, Consumers} :
        \A t \in group :
            pc[t] = "asleep" /\ Count(t) > 0 =>
                Cardinality({u \in group : pc[u] = "test" /\ count[u] < Quota(u)})
                    >= Count(t)

(* SharedBuf is a bounded buffer. *)
Buffer == INSTANCE BoundedBuffer WITH queue <- buf

ImplementsBuffer == Buffer!Spec

(* As many removals as insertions: every thread returns. *)
AllReturn == <>Done
=============================================================================
