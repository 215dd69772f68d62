--------------------------- MODULE SharedBufProofs ---------------------------
(***************************************************************************)
(* Proofs about SharedBuf for any number of threads, any quotas and any    *)
(* capacity.                                                               *)
(***************************************************************************)
EXTENDS SharedBuf, FiniteSetTheorems, SequenceTheorems, TLAPS

(* When one thread of a group moves, the number of threads of the group    *)
(* at a place grows if it arrives there and shrinks if it leaves.          *)
LEMMA MoveOne ==
    ASSUME NEW S, IsFiniteSet(S), NEW t \in S, NEW where,
           \A u \in S \ {t} : pc'[u] = pc[u]
    PROVE  /\ At(S, where) \in Nat
           /\ At(S, where)' = At(S, where)
                               + (IF pc'[t] = where THEN 1 ELSE 0)
                               - (IF pc[t] = where THEN 1 ELSE 0)
<1> DEFINE A == {u \in S : pc[u] = where}
           B == {u \in S : pc'[u] = where}
           C == {u \in S \ {t} : pc[u] = where}
<1>1. IsFiniteSet(A) /\ IsFiniteSet(C)
  BY FS_Subset, A \subseteq S, C \subseteq S
<1>2. Cardinality(A) \in Nat /\ Cardinality(C) \in Nat
  BY <1>1, FS_CardinalityType
<1>3. Cardinality(C \cup {t}) = Cardinality(C) + 1
  BY <1>1, FS_AddElement, t \notin C
<1>4. A = IF pc[t] = where THEN C \cup {t} ELSE C
  OBVIOUS
<1>5. B = IF pc'[t] = where THEN C \cup {t} ELSE C
  OBVIOUS
<1> HIDE DEF A, B, C
<1>6. Cardinality(A) = Cardinality(C) + (IF pc[t] = where THEN 1 ELSE 0)
  BY <1>2, <1>3, <1>4
<1>7. Cardinality(B) = Cardinality(C) + (IF pc'[t] = where THEN 1 ELSE 0)
  BY <1>2, <1>3, <1>5
<1> QED
  BY <1>2, <1>6, <1>7 DEF At, A, B

(* When no thread of a group moves to a place or from it, their number     *)
(* there does not change.                                                  *)
LEMMA MoveNone ==
    ASSUME NEW S, IsFiniteSet(S), NEW where,
           \A u \in S : pc'[u] = where <=> pc[u] = where
    PROVE  At(S, where) \in Nat /\ At(S, where)' = At(S, where)
<1> DEFINE A == {u \in S : pc[u] = where}
<1>1. Cardinality(A) \in Nat
  BY FS_Subset, FS_CardinalityType, A \subseteq S
<1>2. {u \in S : pc'[u] = where} = A
  OBVIOUS
<1> QED
  BY <1>1, <1>2 DEF At

(* Arithmetic: the two equations of SemaphoresAccount bound the counts. *)
LEMMA SumBounds ==
    ASSUME NEW a \in Nat, NEW b \in Nat, NEW c \in Nat, NEW d \in Nat,
           NEW e \in Nat, NEW f \in Nat, NEW len \in Nat, NEW cap \in Nat,
           a + b + len + c = cap, d + e + f = len
    PROVE  a \in 0..cap /\ d \in 0..cap
OBVIOUS

-----------------------------------------------------------------------------
(* A thread that has passed the test of its loop has an operation left to  *)
(* complete.                                                               *)
Counts ==
    /\ count \in [Threads -> Nat]
    /\ \A t \in Threads : pc[t] # "test" => count[t] < Quota(t)

IInv == SemaphoresAccount /\ Counts

(* What the assumptions on the constants say of a thread. *)
LEMMA ThreadFacts ==
    /\ IsFiniteSet(Producers) /\ IsFiniteSet(Consumers)
    /\ \A t \in Threads : t \in Producers <=> t \notin Consumers
    /\ Producers \subseteq Threads /\ Consumers \subseteq Threads
    /\ \A t \in Threads : Quota(t) \in Nat
    /\ Capacity \in Nat
BY BufAssumption DEF Threads, Quota

(* At the start nobody holds a slot or an item. *)
LEMMA InitIInv == Init => IInv
<1> SUFFICES ASSUME Init PROVE IInv
  OBVIOUS
<1>1. TypeOK /\ Counts
  <2>1. <<>> \in Seq(Items)
    BY EmptySeq
  <2> QED
    BY ThreadFacts, <2>1 DEF Init, TypeOK, Counts, Pcs
<1>2. ASSUME NEW where \in {"access", "post"}, NEW S \in {Producers, Consumers}
      PROVE  At(S, where) = 0
  <2>1. {t \in S : pc[t] = where} = {}
    BY ThreadFacts DEF Init
  <2> QED
    BY <2>1, FS_EmptySet DEF At
<1>3. Len(buf) = 0
  BY EmptySeq DEF Init
<1> QED
  BY <1>1, <1>2, <1>3, ThreadFacts DEF IInv, SemaphoresAccount, Init

(* Every step keeps the account: only the thread that moves changes places *)
(* that count, and a thread that is woken up is at none of them.           *)
LEMMA NextIInv == IInv /\ [Next]_vars => IInv'
<1> SUFFICES ASSUME IInv, [Next]_vars PROVE IInv'
  OBVIOUS
<1> DEFINE PA == At(Producers, "access")
           PP == At(Producers, "post")
           CA == At(Consumers, "access")
           CP == At(Consumers, "post")
<1>0. /\ slots \in Nat /\ items \in Nat
      /\ buf \in Seq(Items) /\ taken \in Seq(Items)
      /\ Len(buf) \in Nat
      /\ pc \in [Threads -> Pcs]
      /\ count \in [Threads -> Nat]
      /\ \A t \in Threads : count[t] <= Quota(t)
      /\ \A t \in Threads : pc[t] # "test" => count[t] < Quota(t)
      /\ slots + PA + Len(buf) + CP = Capacity
      /\ items + CA + PP = Len(buf)
  BY LenProperties DEF IInv, SemaphoresAccount, TypeOK, Counts
<1>n. /\ slots \in Nat /\ items \in Nat /\ Len(buf) \in Nat /\ Capacity \in Nat
      /\ slots + PA + Len(buf) + CP = Capacity
      /\ items + CA + PP = Len(buf)
  BY <1>0, ThreadFacts
<1>a. /\ PA \in Nat /\ PP \in Nat /\ CA \in Nat /\ CP \in Nat
      /\ PA' \in Nat /\ PP' \in Nat /\ CA' \in Nat /\ CP' \in Nat
  <2>1. ASSUME NEW S \in {Producers, Consumers}, NEW f, NEW where
        PROVE  Cardinality({t \in S : f[t] = where}) \in Nat
    BY ThreadFacts, FS_Subset, FS_CardinalityType,
       {t \in S : f[t] = where} \subseteq S
  <2> QED
    BY <2>1 DEF At
<1> HIDE DEF PA, PP, CA, CP
<1>b. ASSUME NEW t \in Producers, \A u \in Producers \ {t} : pc'[u] = pc[u]
      PROVE  /\ PA' = PA + (IF pc'[t] = "access" THEN 1 ELSE 0)
                         - (IF pc[t] = "access" THEN 1 ELSE 0)
             /\ PP' = PP + (IF pc'[t] = "post" THEN 1 ELSE 0)
                         - (IF pc[t] = "post" THEN 1 ELSE 0)
  BY <1>b, MoveOne, ThreadFacts DEF PA, PP
<1>c. ASSUME NEW t \in Consumers, \A u \in Consumers \ {t} : pc'[u] = pc[u]
      PROVE  /\ CA' = CA + (IF pc'[t] = "access" THEN 1 ELSE 0)
                         - (IF pc[t] = "access" THEN 1 ELSE 0)
             /\ CP' = CP + (IF pc'[t] = "post" THEN 1 ELSE 0)
                         - (IF pc[t] = "post" THEN 1 ELSE 0)
  BY <1>c, MoveOne, ThreadFacts DEF CA, CP
<1>d. ASSUME \A u \in Producers : pc'[u] = pc[u]
      PROVE  PA' = PA /\ PP' = PP
  BY <1>d, MoveNone, ThreadFacts DEF PA, PP
<1>e. ASSUME \A u \in Consumers : pc'[u] = pc[u]
      PROVE  CA' = CA /\ CP' = CP
  BY <1>e, MoveNone, ThreadFacts DEF CA, CP
(* It is enough that the two equations hold again and that the threads,    *)
(* the buffer and the history have their types.                            *)
<1>f. ASSUME slots' \in Nat, items' \in Nat,
             buf' \in Seq(Items), taken' \in Seq(Items),
             pc' \in [Threads -> Pcs],
             count' \in [Threads -> Nat],
             \A t \in Threads : count'[t] <= Quota(t),
             \A t \in Threads : pc'[t] # "test" => count'[t] < Quota(t),
             slots' + PA' + Len(buf') + CP' = Capacity,
             items' + CA' + PP' = Len(buf')
      PROVE  IInv'
  <2>1. Len(buf') \in Nat
    BY <1>f, LenProperties
  <2>2. Capacity \in Nat
    BY ThreadFacts
  <2>3. /\ slots' \in Nat /\ items' \in Nat
        /\ slots' + PA' + Len(buf') + CP' = Capacity
        /\ items' + CA' + PP' = Len(buf')
    BY <1>f
  <2>4. slots' \in 0..Capacity /\ items' \in 0..Capacity
    BY <1>a, <2>1, <2>2, <2>3, SumBounds
  <2>5. \A t \in Threads : count'[t] \in 0..Quota(t)
    BY <1>f, ThreadFacts
  <2> QED
    BY <1>f, <2>4, <2>5
    DEF IInv, SemaphoresAccount, TypeOK, Counts, PA, PP, CA, CP
<1>1. ASSUME NEW t \in Threads, Wait(t) PROVE IInv'
  <2> DEFINE took == IF pc'[t] = "access" THEN 1 ELSE 0
  <2>1. pc[t] = "test" /\ count[t] < Quota(t)
    BY <1>1 DEF Wait
  <2>2. pc' = [pc EXCEPT ![t] = pc'[t]] /\ pc'[t] \in {"asleep", "access"}
    BY <1>0, <1>1 DEF Wait
  <2>3. UNCHANGED <<buf, count, taken>>
    BY <1>1 DEF Wait
  <2>4. \A u \in Threads \ {t} : pc'[u] = pc[u]
    BY <1>0, <2>2
  <2>5. CASE t \in Producers
    <3>1. CA' = CA /\ CP' = CP
      BY <1>e, <2>4, <2>5, ThreadFacts
    <3>2. /\ PA' = PA + took - (IF pc[t] = "access" THEN 1 ELSE 0)
          /\ PP' = PP + (IF pc'[t] = "post" THEN 1 ELSE 0)
                      - (IF pc[t] = "post" THEN 1 ELSE 0)
      BY <1>b, <2>4, <2>5, ThreadFacts
    <3>3. PA' = PA + took /\ PP' = PP
      BY <1>a, <2>1, <2>2, <3>2
    <3>4. items' = items /\ slots' \in Nat /\ slots' = slots - took
      BY <1>0, <1>1, <2>5, ThreadFacts DEF Wait, Count
    <3>5. /\ slots' + PA' + Len(buf') + CP' = Capacity
          /\ items' + CA' + PP' = Len(buf')
      BY <1>n, <1>a, <2>3, <3>1, <3>3, <3>4
    <3> QED
      BY <1>0, <1>f, <2>1, <2>2, <2>3, <3>4, <3>5 DEF Pcs
  <2>6. CASE t \in Consumers
    <3>1. PA' = PA /\ PP' = PP
      BY <1>d, <2>4, <2>6, ThreadFacts
    <3>2. /\ CA' = CA + took - (IF pc[t] = "access" THEN 1 ELSE 0)
          /\ CP' = CP + (IF pc'[t] = "post" THEN 1 ELSE 0)
                      - (IF pc[t] = "post" THEN 1 ELSE 0)
      BY <1>c, <2>4, <2>6, ThreadFacts
    <3>3. CA' = CA + took /\ CP' = CP
      BY <1>a, <2>1, <2>2, <3>2
    <3>4. slots' = slots /\ items' \in Nat /\ items' = items - took
      BY <1>0, <1>1, <2>6, ThreadFacts DEF Wait, Count
    <3>5. /\ slots' + PA' + Len(buf') + CP' = Capacity
          /\ items' + CA' + PP' = Len(buf')
      BY <1>n, <1>a, <2>3, <3>1, <3>3, <3>4
    <3> QED
      BY <1>0, <1>f, <2>1, <2>2, <2>3, <3>4, <3>5 DEF Pcs
  <2> QED
    BY <2>5, <2>6 DEF Threads
<1>2. ASSUME NEW t \in Threads, SpuriousWakeup(t) PROVE IInv'
  <2>1. /\ pc[t] = "asleep" /\ pc' = [pc EXCEPT ![t] = "test"]
        /\ UNCHANGED <<slots, items, buf, count, taken>>
    BY <1>2 DEF SpuriousWakeup
  <2>2. \A u \in Threads, where \in {"access", "post"} :
           pc'[u] = where <=> pc[u] = where
    BY <1>0, <2>1
  <2>3. PA' = PA /\ PP' = PP /\ CA' = CA /\ CP' = CP
    BY <2>2, MoveNone, ThreadFacts DEF PA, PP, CA, CP
  <2> QED
    BY <1>0, <1>a, <1>f, <2>1, <2>3 DEF Pcs
<1>3. ASSUME NEW p \in Producers, Push(p) PROVE IInv'
  <2>1. /\ pc[p] = "access" /\ pc' = [pc EXCEPT ![p] = "post"]
        /\ buf' = Append(buf, <<p, count[p] + 1>>)
        /\ UNCHANGED <<slots, items, count, taken>>
    BY <1>3 DEF Push
  <2>2. p \in Threads /\ Quota(p) = PerProducer
    BY ThreadFacts DEF Quota
  <2>3. <<p, count[p] + 1>> \in Items
    <3>1. count[p] + 1 \in 1..PerProducer
      BY <1>0, <2>1, <2>2, BufAssumption
    <3> QED
      BY <3>1 DEF Items
  <2>4. buf' \in Seq(Items) /\ Len(buf') = Len(buf) + 1
    BY <1>0, <2>1, <2>3, AppendProperties
  <2>5. \A u \in Threads \ {p} : pc'[u] = pc[u]
    BY <1>0, <2>1
  <2>6. pc'[p] = "post"
    BY <1>0, <2>1, <2>2
  <2>7. CA' = CA /\ CP' = CP
    BY <1>e, <2>5, ThreadFacts
  <2>8. /\ PA' = PA + (IF pc'[p] = "access" THEN 1 ELSE 0)
                    - (IF pc[p] = "access" THEN 1 ELSE 0)
        /\ PP' = PP + (IF pc'[p] = "post" THEN 1 ELSE 0)
                    - (IF pc[p] = "post" THEN 1 ELSE 0)
    BY <1>b, <2>5, ThreadFacts
  <2>9. PA' = PA - 1 /\ PP' = PP + 1
    BY <1>a, <2>1, <2>6, <2>8
  <2>10. slots' = slots /\ items' = items
    BY <2>1
  <2>11. /\ slots' + PA' + Len(buf') + CP' = Capacity
         /\ items' + CA' + PP' = Len(buf')
    BY <1>n, <1>a, <2>4, <2>7, <2>9, <2>10
  <2> QED
    BY <1>0, <1>f, <2>1, <2>2, <2>4, <2>11 DEF Pcs
<1>4. ASSUME NEW c \in Consumers, Pop(c) PROVE IInv'
  <2>1. /\ pc[c] = "access" /\ pc' = [pc EXCEPT ![c] = "post"]
        /\ taken' = Append(taken, Head(buf)) /\ buf' = Tail(buf)
        /\ UNCHANGED <<slots, items, count>>
    BY <1>4 DEF Pop
  <2>2. c \in Threads
    BY ThreadFacts
  <2>3. \A u \in Threads \ {c} : pc'[u] = pc[u]
    BY <1>0, <2>1
  <2>4. pc'[c] = "post"
    BY <1>0, <2>1, <2>2
  <2>5. PA' = PA /\ PP' = PP
    BY <1>d, <2>3, ThreadFacts
  <2>6. /\ CA' = CA + (IF pc'[c] = "access" THEN 1 ELSE 0)
                    - (IF pc[c] = "access" THEN 1 ELSE 0)
        /\ CP' = CP + (IF pc'[c] = "post" THEN 1 ELSE 0)
                    - (IF pc[c] = "post" THEN 1 ELSE 0)
    BY <1>c, <2>3, ThreadFacts
  <2>7. CA' = CA - 1 /\ CP' = CP + 1
    BY <1>a, <2>1, <2>4, <2>6
  <2>8. Len(buf) > 0
    BY <1>n, <1>a, <2>7
  <2>9. /\ buf' \in Seq(Items) /\ Len(buf') = Len(buf) - 1
        /\ Head(buf) \in Items
    BY <1>0, <2>1, <2>8, HeadTailProperties, EmptySeq
  <2>10. taken' \in Seq(Items)
    BY <1>0, <2>1, <2>9, AppendProperties
  <2>11. slots' = slots /\ items' = items
    BY <2>1
  <2>12. /\ slots' + PA' + Len(buf') + CP' = Capacity
         /\ items' + CA' + PP' = Len(buf')
    BY <1>n, <1>a, <2>5, <2>7, <2>9, <2>11
  <2> QED
    BY <1>0, <1>f, <2>1, <2>2, <2>9, <2>10, <2>12 DEF Pcs
<1>5. ASSUME NEW t \in Threads, Post(t) PROVE IInv'
  <2>1. pc[t] = "post" /\ count' = [count EXCEPT ![t] = @ + 1]
    BY <1>5 DEF Post
  <2>2. Len(buf') = Len(buf)
    BY <1>5 DEF Post
  <2>3. UNCHANGED <<buf, taken>>
    BY <1>5 DEF Post
  <2>4. /\ count' \in [Threads -> Nat]
        /\ \A u \in Threads : count'[u] <= Quota(u)
        /\ \A u \in Threads \ {t} : count'[u] = count[u]
    BY <1>0, <2>1, ThreadFacts
  <2>5. CASE t \in Producers
    <3>1. /\ items' = items + 1 /\ slots' = slots
          /\ NotifyOne(t, Asleep(Consumers))
      BY <1>5, <2>5, ThreadFacts DEF Post
    <3>2. /\ pc' \in [Threads -> Pcs]
          /\ \A u \in Threads \ {t} : \/ pc'[u] = pc[u]
                                     \/ /\ u \in Consumers
                                        /\ pc[u] = "asleep" /\ pc'[u] = "test"
          /\ pc'[t] = "test"
      BY <1>0, <2>1, <3>1, ThreadFacts DEF NotifyOne, Asleep, Pcs
    <3>3. \A u \in Producers \ {t} : pc'[u] = pc[u]
      BY <3>2, ThreadFacts
    <3>4. /\ PA' = PA + (IF pc'[t] = "access" THEN 1 ELSE 0)
                      - (IF pc[t] = "access" THEN 1 ELSE 0)
          /\ PP' = PP + (IF pc'[t] = "post" THEN 1 ELSE 0)
                      - (IF pc[t] = "post" THEN 1 ELSE 0)
      BY <1>b, <2>5, <3>3
    <3>5. PA' = PA /\ PP' = PP - 1
      BY <1>a, <2>1, <3>2, <3>4
    <3>6. ASSUME NEW where \in {"access", "post"}
          PROVE  \A u \in Consumers : pc'[u] = where <=> pc[u] = where
      BY <2>5, <3>2, ThreadFacts
    <3>7. CA' = CA /\ CP' = CP
      BY <3>6, MoveNone, ThreadFacts DEF CA, CP
    <3>8. /\ slots' + PA' + Len(buf') + CP' = Capacity
          /\ items' + CA' + PP' = Len(buf')
      BY <1>n, <1>a, <2>2, <3>1, <3>5, <3>7
    <3>9. slots' \in Nat /\ items' \in Nat
      BY <1>n, <3>1
    <3>10. \A u \in Threads : pc'[u] # "test" => u # t /\ pc[u] # "test"
      BY <3>2
    <3> QED
      BY <1>0, <1>f, <2>3, <2>4, <3>2, <3>8, <3>9, <3>10
  <2>6. CASE t \in Consumers
    <3>1. /\ slots' = slots + 1 /\ items' = items
          /\ NotifyOne(t, Asleep(Producers))
      BY <1>5, <2>6, ThreadFacts DEF Post
    <3>2. /\ pc' \in [Threads -> Pcs]
          /\ \A u \in Threads \ {t} : \/ pc'[u] = pc[u]
                                     \/ /\ u \in Producers
                                        /\ pc[u] = "asleep" /\ pc'[u] = "test"
          /\ pc'[t] = "test"
      BY <1>0, <2>1, <3>1, ThreadFacts DEF NotifyOne, Asleep, Pcs
    <3>3. \A u \in Consumers \ {t} : pc'[u] = pc[u]
      BY <3>2, ThreadFacts
    <3>4. /\ CA' = CA + (IF pc'[t] = "access" THEN 1 ELSE 0)
                      - (IF pc[t] = "access" THEN 1 ELSE 0)
          /\ CP' = CP + (IF pc'[t] = "post" THEN 1 ELSE 0)
                      - (IF pc[t] = "post" THEN 1 ELSE 0)
      BY <1>c, <2>6, <3>3
    <3>5. CA' = CA /\ CP' = CP - 1
      BY <1>a, <2>1, <3>2, <3>4
    <3>6. ASSUME NEW where \in {"access", "post"}
          PROVE  \A u \in Producers : pc'[u] = where <=> pc[u] = where
      BY <2>6, <3>2, ThreadFacts
    <3>7. PA' = PA /\ PP' = PP
      BY <3>6, MoveNone, ThreadFacts DEF PA, PP
    <3>8. /\ slots' + PA' + Len(buf') + CP' = Capacity
          /\ items' + CA' + PP' = Len(buf')
      BY <1>n, <1>a, <2>2, <3>1, <3>5, <3>7
    <3>9. slots' \in Nat /\ items' \in Nat
      BY <1>n, <3>1
    <3>10. \A u \in Threads : pc'[u] # "test" => u # t /\ pc[u] # "test"
      BY <3>2
    <3> QED
      BY <1>0, <1>f, <2>3, <2>4, <3>2, <3>8, <3>9, <3>10
  <2> QED
    BY <2>5, <2>6 DEF Threads
<1>6. CASE UNCHANGED vars
  BY <1>6 DEF vars, IInv, SemaphoresAccount, TypeOK, Counts, At
<1> QED
  BY <1>1, <1>2, <1>3, <1>4, <1>5, <1>6 DEF Next, Step, Joined

(* No semaphore is over-posted and none under-counts: in every reachable   *)
(* state of any number of threads, SharedBuf::remove() that passed         *)
(* items.wait() finds an item in the deque and insert() finds room.        *)
THEOREM SemaphoresAccountHolds == Spec => []SemaphoresAccount
<1>1. IInv => SemaphoresAccount
  BY DEF IInv
<1> QED
  BY <1>1, InitIInv, NextIInv, PTL DEF Spec

-----------------------------------------------------------------------------
(* A producer that has passed slots.wait() finds room in the deque, and a  *)
(* consumer that has passed items.wait() finds an item there.              *)
LEMMA AccessIsSafe ==
    ASSUME SemaphoresAccount
    PROVE  /\ \A p \in Producers : pc[p] = "access" => Len(buf) < Capacity
           /\ \A c \in Consumers : pc[c] = "access" => buf # <<>>
<1>0. slots \in Nat /\ items \in Nat /\ Len(buf) \in Nat /\ Capacity \in Nat
  BY LenProperties, ThreadFacts DEF SemaphoresAccount, TypeOK
<1>1. ASSUME NEW S \in {Producers, Consumers}, NEW where
      PROVE  At(S, where) \in Nat /\ \A t \in S : pc[t] = where => At(S, where) > 0
  <2> DEFINE T == {t \in S : pc[t] = where}
  <2>1. IsFiniteSet(T) /\ Cardinality(T) \in Nat
    BY ThreadFacts, FS_Subset, FS_CardinalityType, T \subseteq S
  <2>2. T # {} => Cardinality(T) # 0
    BY <2>1, FS_EmptySet
  <2> QED
    BY <2>1, <2>2 DEF At
<1>2. ASSUME NEW p \in Producers, pc[p] = "access" PROVE Len(buf) < Capacity
  <2>1. /\ At(Producers, "access") \in Nat /\ At(Producers, "access") > 0
        /\ At(Consumers, "post") \in Nat
    BY <1>1, <1>2
  <2>2. slots + At(Producers, "access") + Len(buf) + At(Consumers, "post") = Capacity
    BY DEF SemaphoresAccount
  <2> QED
    BY <1>0, <2>1, <2>2
<1>3. ASSUME NEW c \in Consumers, pc[c] = "access" PROVE buf # <<>>
  <2>1. /\ At(Consumers, "access") \in Nat /\ At(Consumers, "access") > 0
        /\ At(Producers, "post") \in Nat
    BY <1>1, <1>3
  <2>2. items + At(Consumers, "access") + At(Producers, "post") = Len(buf)
    BY DEF SemaphoresAccount
  <2>3. Len(buf) # 0
    BY <1>0, <2>1, <2>2
  <2> QED
    BY <2>3, EmptySeq
<1> QED
  BY <1>2, <1>3

(* SharedBuf is a bounded buffer: a push is a Put of an item into a queue  *)
(* that has room, a pop is the Take of the oldest item of a queue that is  *)
(* not empty, and everything else leaves the queue alone.                  *)
THEOREM SharedBufImplements == Spec => ImplementsBuffer
<1>1. Init => Buffer!Init
  BY DEF Init, Buffer!Init
<1>2. IInv /\ [Next]_vars => [Buffer!Next]_<<buf, taken>>
  <2> SUFFICES ASSUME IInv, [Next]_vars
               PROVE  Buffer!Next \/ UNCHANGED <<buf, taken>>
    OBVIOUS
  <2>1. ASSUME NEW p \in Producers, Push(p) PROVE Buffer!Next
    <3>1. p \in Threads /\ Quota(p) = PerProducer /\ pc[p] = "access"
      BY <2>1, ThreadFacts DEF Push, Quota
    <3>2. count[p] + 1 \in 1..PerProducer
      BY <3>1, BufAssumption DEF IInv, Counts
    <3>3. <<p, count[p] + 1>> \in Items
      BY <3>2 DEF Items
    <3>4. Len(buf) < Capacity
      BY <3>1, AccessIsSafe DEF IInv
    <3>5. Buffer!Put(<<p, count[p] + 1>>)
      BY <2>1, <3>4 DEF Push, Buffer!Put
    <3> QED
      BY <3>3, <3>5 DEF Buffer!Next
  <2>2. ASSUME NEW c \in Consumers, Pop(c) PROVE Buffer!Next
    <3>1. buf # <<>>
      BY <2>2, AccessIsSafe DEF IInv, Pop
    <3> QED
      BY <2>2, <3>1 DEF Pop, Buffer!Next, Buffer!Take
  <2>3. ASSUME NEW t \in Threads, Wait(t) \/ Post(t) \/ SpuriousWakeup(t)
        PROVE  UNCHANGED <<buf, taken>>
    BY <2>3 DEF Wait, Post, SpuriousWakeup
  <2>4. CASE UNCHANGED vars
    BY <2>4 DEF vars
  <2> QED
    BY <2>1, <2>2, <2>3, <2>4 DEF Next, Step, Joined
<1> QED
  BY <1>1, <1>2, InitIInv, NextIInv, PTL DEF Spec, ImplementsBuffer, Buffer!Spec

-----------------------------------------------------------------------------
(* The threads of a group that are awake in the loop of Sem::wait(), and   *)
(* what NoSleepOnPositive says of one group and its semaphore.             *)
Awake(group) == {u \in group : pc[u] = "test" /\ count[u] < Quota(u)}

Enough(group, n) ==
    \A t \in group : pc[t] = "asleep" /\ n > 0 => Cardinality(Awake(group)) >= n

(* A step that puts nobody of the group to sleep keeps Enough when those   *)
(* awake stay awake and the semaphore does not grow, when one more is      *)
(* awake and it grows by one, or when all but one stay awake and it        *)
(* shrinks by one.                                                         *)
LEMMA GroupStep ==
    ASSUME NEW G \in {Producers, Consumers}, NEW n \in Nat, NEW m \in Nat,
           Enough(G, n),
           \A u \in G : pc'[u] = "asleep" => pc[u] = "asleep",
           \/ m <= n /\ Awake(G) \subseteq Awake(G)'
           \/ /\ m = n + 1 /\ Awake(G) \subseteq Awake(G)'
              /\ \E u \in Awake(G)' : u \notin Awake(G)
           \/ m = n - 1 /\ \E u \in Awake(G) : Awake(G) \ {u} \subseteq Awake(G)',
           NEW t \in G, pc'[t] = "asleep", m > 0
    PROVE  Cardinality(Awake(G)') >= m
<1> DEFINE A == Awake(G)
           B == Awake(G)'
<1>1. IsFiniteSet(A) /\ IsFiniteSet(B)
  BY FS_Subset, ThreadFacts, A \subseteq G, B \subseteq G DEF Awake
<1>2. Cardinality(A) \in Nat /\ Cardinality(B) \in Nat
  BY <1>1, FS_CardinalityType
<1>3. n > 0 => Cardinality(A) >= n
  BY DEF Enough
<1> HIDE DEF A, B
<1>4. CASE m <= n /\ A \subseteq B
  <2>1. Cardinality(A) <= Cardinality(B)
    BY <1>1, <1>4, FS_Subset
  <2> QED
    BY <1>2, <1>3, <1>4, <2>1 DEF B
<1>5. CASE m = n + 1 /\ A \subseteq B /\ \E u \in B : u \notin A
  <2>1. PICK u \in B : u \notin A
    BY <1>5
  <2>2. IsFiniteSet(A \cup {u}) /\ Cardinality(A \cup {u}) = Cardinality(A) + 1
    BY <1>1, <2>1, FS_AddElement
  <2>3. Cardinality(A \cup {u}) <= Cardinality(B)
    BY <1>1, <1>5, FS_Subset, A \cup {u} \subseteq B
  <2> QED
    BY <1>2, <1>3, <1>5, <2>2, <2>3 DEF B
<1>6. CASE m = n - 1 /\ \E u \in A : A \ {u} \subseteq B
  <2>1. PICK u \in A : A \ {u} \subseteq B
    BY <1>6
  <2>2. IsFiniteSet(A \ {u}) /\ Cardinality(A \ {u}) = Cardinality(A) - 1
    BY <1>1, FS_RemoveElement
  <2>3. Cardinality(A \ {u}) <= Cardinality(B)
    BY <1>1, <2>1, FS_Subset
  <2> QED
    BY <1>2, <1>3, <1>6, <2>2, <2>3 DEF B
<1> QED
  BY <1>4, <1>5, <1>6 DEF A, B

(* Sem::post() notifies one thread per unit it adds, and a thread that     *)
(* takes a unit was awake: the number of awake threads keeps up with the   *)
(* semaphore while somebody sleeps on it.                                  *)
LEMMA NextEnough ==
    ASSUME IInv, IInv', [Next]_vars,
           Enough(Producers, slots), Enough(Consumers, items)
    PROVE  Enough(Producers, slots)' /\ Enough(Consumers, items)'
<1>0. /\ slots \in Nat /\ items \in Nat /\ slots' \in Nat /\ items' \in Nat
      /\ pc \in [Threads -> Pcs] /\ pc' \in [Threads -> Pcs]
      /\ count \in [Threads -> Nat]
      /\ \A t \in Threads : pc[t] # "test" => count[t] < Quota(t)
  BY ThreadFacts DEF IInv, SemaphoresAccount, TypeOK, Counts
(* What a step may do to one group and its semaphore. *)
<1> DEFINE Kept(G, n, m) ==
        \/ m = 0
        \/ \A u \in G : pc'[u] # "asleep"
        \/ /\ \A u \in G : pc'[u] = "asleep" => pc[u] = "asleep"
           /\ \/ m <= n /\ Awake(G) \subseteq Awake(G)'
              \/ /\ m = n + 1 /\ Awake(G) \subseteq Awake(G)'
                 /\ \E u \in Awake(G)' : u \notin Awake(G)
              \/ m = n - 1 /\ \E u \in Awake(G) : Awake(G) \ {u} \subseteq Awake(G)'
<1>1. ASSUME NEW G \in {Producers, Consumers}, NEW n \in Nat, NEW m \in Nat,
             Enough(G, n), Kept(G, n, m)
      PROVE  \A t \in G : pc'[t] = "asleep" /\ m > 0 => Cardinality(Awake(G)') >= m
  <2> TAKE t \in G
  <2> HAVE pc'[t] = "asleep" /\ m > 0
  <2> QED
    BY <1>1, GroupStep
<1>2. SUFFICES Kept(Producers, slots, slots') /\ Kept(Consumers, items, items')
  <2> HIDE DEF Kept
  <2> QED
    BY <1>0, <1>1 DEF Enough
(* The other threads of a group, and a group of which nobody moves. *)
<1>3. ASSUME NEW G \in {Producers, Consumers}, NEW n \in Nat,
             \A u \in G : pc'[u] = pc[u] /\ count'[u] = count[u]
      PROVE  Kept(G, n, n)
  BY <1>3 DEF Awake
<1>4. ASSUME NEW G \in {Producers, Consumers}, NEW n \in Nat, NEW t \in G,
             pc[t] # "test", pc'[t] # "asleep",
             \A u \in G \ {t} : pc'[u] = pc[u] /\ count'[u] = count[u]
      PROVE  Kept(G, n, n)
  BY <1>4 DEF Awake
<1>5. ASSUME NEW t \in Threads, Wait(t)
      PROVE  Kept(Producers, slots, slots') /\ Kept(Consumers, items, items')
  <2>1. /\ pc[t] = "test" /\ count[t] < Quota(t) /\ count' = count
        /\ \A u \in Threads \ {t} : pc'[u] = pc[u]
    BY <1>0, <1>5 DEF Wait
  <2>2. ASSUME NEW G \in {Producers, Consumers}, t \in G, Count(t) > 0
        PROVE  Kept(G, Count(t), Count(t) - 1)
    <3>1. pc'[t] = "access"
      BY <1>0, <1>5, <2>2 DEF Wait
    <3>2. t \in Awake(G)
      BY <2>1, <2>2 DEF Awake
    <3>3. Awake(G) \ {t} \subseteq Awake(G)'
      BY <2>1, ThreadFacts DEF Awake
    <3>4. \A u \in G : pc'[u] = "asleep" => pc[u] = "asleep"
      BY <2>1, <3>1, ThreadFacts
    <3> QED
      BY <3>2, <3>3, <3>4
  <2>3. CASE t \in Producers
    <3>1. items' = items
      BY <1>5, <2>3, ThreadFacts DEF Wait
    <3>2. Kept(Consumers, items, items')
      BY <1>0, <1>3, <2>1, <2>3, <3>1, ThreadFacts
    <3>3. CASE slots = 0
      BY <1>5, <2>3, <3>2, <3>3 DEF Wait, Count
    <3>4. CASE slots > 0
      <4>1. slots' = slots - 1 /\ Count(t) = slots
        BY <1>5, <2>3, <3>4 DEF Wait, Count
      <4> QED
        BY <2>2, <2>3, <3>2, <3>4, <4>1
    <3> QED
      BY <1>0, <3>3, <3>4
  <2>4. CASE t \in Consumers
    <3>1. slots' = slots
      BY <1>5, <2>4, ThreadFacts DEF Wait
    <3>2. Kept(Producers, slots, slots')
      BY <1>0, <1>3, <2>1, <2>4, <3>1, ThreadFacts
    <3>3. CASE items = 0
      BY <1>5, <2>4, <3>2, <3>3, ThreadFacts DEF Wait, Count
    <3>4. CASE items > 0
      <4>1. items' = items - 1 /\ Count(t) = items
        BY <1>5, <2>4, <3>4, ThreadFacts DEF Wait, Count
      <4> QED
        BY <2>2, <2>4, <3>2, <3>4, <4>1
    <3> QED
      BY <1>0, <3>3, <3>4
  <2> QED
    BY <2>3, <2>4 DEF Threads
(* Push, Pop and a spurious wake-up: one thread moves, to be awake or past *)
(* the test, and the semaphores are left alone.                            *)
<1>6. ASSUME NEW t \in Threads, UNCHANGED <<slots, items, count>>,
             pc[t] # "test", pc'[t] # "asleep",
             \A u \in Threads \ {t} : pc'[u] = pc[u]
      PROVE  Kept(Producers, slots, slots') /\ Kept(Consumers, items, items')
  <2> HIDE DEF Kept
  <2>1. CASE t \in Producers
    BY <1>0, <1>3, <1>4, <1>6, <2>1, ThreadFacts
  <2>2. CASE t \in Consumers
    BY <1>0, <1>3, <1>4, <1>6, <2>2, ThreadFacts
  <2> QED
    BY <2>1, <2>2 DEF Threads
<1>7. ASSUME NEW t \in Threads,
             SpuriousWakeup(t) \/ (t \in Producers /\ Push(t))
                               \/ (t \in Consumers /\ Pop(t))
      PROVE  Kept(Producers, slots, slots') /\ Kept(Consumers, items, items')
  <2> HIDE DEF Kept
  <2>1. /\ UNCHANGED <<slots, items, count>>
        /\ pc[t] # "test" /\ pc'[t] # "asleep"
        /\ \A u \in Threads \ {t} : pc'[u] = pc[u]
    BY <1>0, <1>7 DEF SpuriousWakeup, Push, Pop
  <2> QED
    BY <1>6, <2>1
<1>8. ASSUME NEW t \in Threads, Post(t)
      PROVE  Kept(Producers, slots, slots') /\ Kept(Consumers, items, items')
  <2>1. /\ pc[t] = "post" /\ t \notin Awake(Producers) \cup Awake(Consumers)
        /\ \A u \in Threads \ {t} : count'[u] = count[u]
    BY <1>0, <1>8 DEF Post, Awake
(* the group that is notified ... *)
  <2>2. ASSUME NEW G \in {Producers, Consumers}, NEW n \in Nat,
               t \notin G, NotifyOne(t, Asleep(G))
        PROVE  Kept(G, n, n + 1)
    <3>1. CASE Asleep(G) = {}
      BY <1>0, <2>1, <2>2, <3>1, ThreadFacts DEF NotifyOne, Asleep
    <3>2. CASE Asleep(G) # {}
      <4>1. PICK u \in Asleep(G) : pc' = [pc EXCEPT ![t] = "test", ![u] = "test"]
        BY <2>2, <3>2 DEF NotifyOne
      <4>2. u \in G /\ u \in Threads /\ u # t /\ pc[u] = "asleep" /\ pc'[u] = "test"
        BY <1>0, <2>2, <4>1, ThreadFacts DEF Asleep
      <4>3. \A v \in G \ {u} : pc'[v] = pc[v]
        BY <1>0, <2>2, <4>1, ThreadFacts
      <4>4. \A v \in G : count'[v] = count[v]
        BY <2>1, <2>2, ThreadFacts
      <4>5. u \in Awake(G)' /\ u \notin Awake(G)
        BY <1>0, <4>2, <4>4 DEF Awake
      <4>6. Awake(G) \subseteq Awake(G)'
        BY <4>2, <4>3, <4>4 DEF Awake
      <4>7. \A v \in G : pc'[v] = "asleep" => pc[v] = "asleep"
        BY <4>2, <4>3
      <4> QED
        BY <4>5, <4>6, <4>7
    <3> QED
      BY <3>1, <3>2
(* ... and the group of the thread itself *)
  <2>3. ASSUME NEW G \in {Producers, Consumers}, NEW H \in {Producers, Consumers},
               G \cap H = {}, NEW n \in Nat, t \in G, NotifyOne(t, Asleep(H))
        PROVE  Kept(G, n, n)
    <3>1. pc'[t] = "test" /\ \A u \in G \ {t} : pc'[u] = pc[u]
      BY <1>0, <2>3, ThreadFacts DEF NotifyOne, Asleep
    <3> HIDE DEF Kept
    <3> QED
      BY <1>4, <2>1, <2>3, <3>1, ThreadFacts
  <2> HIDE DEF Kept
  <2>4. CASE t \in Producers
    <3>1. slots' = slots /\ items' = items + 1 /\ NotifyOne(t, Asleep(Consumers))
      BY <1>8, <2>4, ThreadFacts DEF Post
    <3> QED
      BY <1>0, <2>2, <2>3, <2>4, <3>1, ThreadFacts, BufAssumption
  <2>5. CASE t \in Consumers
    <3>1. items' = items /\ slots' = slots + 1 /\ NotifyOne(t, Asleep(Producers))
      BY <1>8, <2>5, ThreadFacts DEF Post
    <3> QED
      BY <1>0, <2>2, <2>3, <2>5, <3>1, ThreadFacts, BufAssumption
  <2> QED
    BY <2>4, <2>5 DEF Threads
<1>9. CASE UNCHANGED vars
  <2> HIDE DEF Kept
  <2> QED
    BY <1>0, <1>3, <1>9, ThreadFacts DEF vars
<1> HIDE DEF Kept
<1> QED
  BY <1>5, <1>7, <1>8, <1>9 DEF Next, Step, Joined

(* notify_one() is enough for any number of threads: while a thread sleeps *)
(* on a positive semaphore, at least as many threads of its kind are awake *)
(* in the loop of Sem::wait() as the semaphore counts.                     *)
THEOREM NoSleepOnPositiveHolds == Spec => []NoSleepOnPositive
<1> DEFINE SInv == IInv /\ Enough(Producers, slots) /\ Enough(Consumers, items)
<1>1. Init => SInv
  BY InitIInv, ThreadFacts DEF Init, Enough
<1>2. SInv /\ [Next]_vars => SInv'
  BY NextIInv, NextEnough
<1>3. SInv => NoSleepOnPositive
  <2> SUFFICES ASSUME SInv, NEW G \in {Producers, Consumers}, NEW t \in G,
                      pc[t] = "asleep", Count(t) > 0
               PROVE  Cardinality(Awake(G)) >= Count(t)
    BY DEF NoSleepOnPositive, Awake
  <2>1. CASE G = Producers
    BY <2>1 DEF Enough, Count
  <2>2. CASE G = Consumers
    BY <2>2, ThreadFacts DEF Enough, Count
  <2> QED
    BY <2>1, <2>2
<1> QED
  BY <1>1, <1>2, <1>3, PTL DEF Spec
-----------------------------------------------------------------------------
(* A thread that can go on: it was through Sem::wait(), or is awake in it. *)
Active(t) ==
    \/ pc[t] \in {"access", "post"}
    \/ pc[t] = "test" /\ count[t] < Quota(t)

(* When nobody can go on, a producer sleeps only on a full buffer that no  *)
(* consumer is left to empty, and a consumer only on an empty one that no  *)
(* producer is left to fill: insert() and remove() do not deadlock.        *)
StuckMeansOthersDone ==
    (\A t \in Threads : ~Active(t)) =>
        /\ \A p \in Producers : pc[p] = "asleep" =>
              Len(buf) = Capacity /\ \A c \in Consumers : count[c] = PerConsumer
        /\ \A c \in Consumers : pc[c] = "asleep" =>
              buf = <<>> /\ \A p \in Producers : count[p] = PerProducer

(* Nobody of a group is at a place of the code. *)
LEMMA AtNone ==
    ASSUME NEW S, NEW where, \A t \in S : pc[t] # where
    PROVE  At(S, where) = 0
<1>1. {t \in S : pc[t] = where} = {}
  OBVIOUS
<1> QED
  BY <1>1, FS_EmptySet DEF At

(* A group of which nobody can go on and somebody sleeps has a semaphore   *)
(* that is zero.                                                           *)
LEMMA SleepsOnZero ==
    ASSUME NoSleepOnPositive, NEW G \in {Producers, Consumers},
           \A t \in G : ~Active(t), NEW t \in G, pc[t] = "asleep", Count(t) \in Nat
    PROVE  Count(t) = 0
<1>1. {u \in G : pc[u] = "test" /\ count[u] < Quota(u)} = {}
  BY DEF Active
<1>2. Cardinality({u \in G : pc[u] = "test" /\ count[u] < Quota(u)}) = 0
  BY <1>1, FS_EmptySet
<1>3. ~(Count(t) > 0)
  <2> SUFFICES ASSUME Count(t) > 0 PROVE FALSE
    OBVIOUS
  <2>1. 0 >= Count(t)
    BY <1>2 DEF NoSleepOnPositive
  <2> QED
    BY <2>1
<1> QED
  BY <1>3

(* A thread that neither sleeps nor can go on has returned. *)
LEMMA ReturnedIs ==
    ASSUME TypeOK, NEW t \in Threads, ~Active(t), pc[t] # "asleep"
    PROVE  count[t] = Quota(t)
<1>1. pc[t] = "test" /\ ~(count[t] < Quota(t))
  BY DEF TypeOK, Pcs, Active
<1>2. count[t] \in 0..Quota(t) /\ Quota(t) \in Nat
  BY ThreadFacts DEF TypeOK
<1> QED
  BY <1>1, <1>2

(* The semaphores of SharedBuf cannot bring all threads to a halt while    *)
(* producers and consumers are left, for any number of them and any        *)
(* capacity.                                                               *)
THEOREM StuckMeansOthersDoneHolds == Spec => []StuckMeansOthersDone
<1>1. ASSUME SemaphoresAccount, NoSleepOnPositive PROVE StuckMeansOthersDone
  <2> SUFFICES ASSUME \A t \in Threads : ~Active(t)
               PROVE  /\ \A p \in Producers : pc[p] = "asleep" =>
                            /\ Len(buf) = Capacity
                            /\ \A c \in Consumers : count[c] = PerConsumer
                      /\ \A c \in Consumers : pc[c] = "asleep" =>
                            /\ buf = <<>>
                            /\ \A p \in Producers : count[p] = PerProducer
    BY DEF StuckMeansOthersDone
  <2>1. /\ TypeOK /\ slots \in Nat /\ items \in Nat /\ buf \in Seq(Items)
        /\ Len(buf) \in Nat /\ Capacity \in Nat /\ Capacity # 0
    BY <1>1, BufAssumption, LenProperties DEF SemaphoresAccount, TypeOK
  <2>2. \A t \in Threads : pc[t] # "access" /\ pc[t] # "post"
    BY DEF Active
  <2>3. /\ At(Producers, "access") = 0 /\ At(Consumers, "post") = 0
        /\ At(Consumers, "access") = 0 /\ At(Producers, "post") = 0
    BY <2>2, ThreadFacts, AtNone
  <2>4. slots + Len(buf) = Capacity /\ items = Len(buf)
    BY <1>1, <2>1, <2>3 DEF SemaphoresAccount
  <2>5. ASSUME NEW p \in Producers, pc[p] = "asleep" PROVE slots = 0
    BY <1>1, <2>1, <2>5, ThreadFacts, SleepsOnZero DEF Count
  <2>6. ASSUME NEW c \in Consumers, pc[c] = "asleep" PROVE items = 0
    BY <1>1, <2>1, <2>6, ThreadFacts, SleepsOnZero DEF Count
  <2>7. ASSUME NEW p \in Producers, pc[p] = "asleep"
        PROVE  Len(buf) = Capacity /\ \A c \in Consumers : count[c] = PerConsumer
    <3>1. Len(buf) = Capacity /\ items # 0
      BY <2>1, <2>4, <2>5, <2>7
    <3>2. \A c \in Consumers : pc[c] # "asleep"
      BY <2>6, <3>1
    <3>3. \A c \in Consumers : count[c] = Quota(c) /\ Quota(c) = PerConsumer
      BY <2>1, <3>2, ThreadFacts, ReturnedIs DEF Quota
    <3> QED
      BY <3>1, <3>3
  <2>8. ASSUME NEW c \in Consumers, pc[c] = "asleep"
        PROVE  buf = <<>> /\ \A p \in Producers : count[p] = PerProducer
    <3>1. Len(buf) = 0 /\ slots # 0
      BY <2>1, <2>4, <2>6, <2>8
    <3>2. \A p \in Producers : pc[p] # "asleep"
      BY <2>5, <3>1
    <3>3. \A p \in Producers : count[p] = Quota(p) /\ Quota(p) = PerProducer
      BY <2>1, <3>2, ThreadFacts, ReturnedIs DEF Quota
    <3> QED
      BY <2>1, <3>1, <3>3, EmptySeq
  <2> QED
    BY <2>7, <2>8
<1> QED
  BY <1>1, SemaphoresAccountHolds, NoSleepOnPositiveHolds, PTL
=============================================================================
