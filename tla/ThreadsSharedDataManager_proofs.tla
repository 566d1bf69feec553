------------------- MODULE ThreadsSharedDataManager_proofs -------------------
(***************************************************************************)
(* Proofs about the shared queue, for any finite sets of threads, any      *)
(* items and any number of pushes.                                         *)
(***************************************************************************)
EXTENDS ThreadsSharedDataManager, FiniteSetTheorems, SequenceTheorems, TLAPS

(* Each kind of thread runs its own code. *)
Roles ==
  /\ \A p \in Producers : pc[p] \in {"idle", "push", "notify"}
  /\ \A c \in Consumers : pc[c] \in {"idle", "lock", "test", "block", "asleep",
                                     "relock", "take", "erase", "done"}
  /\ \A w \in Closers : pc[w] \in {"run", "done"}

(* A consumer is inside the critical section iff it holds the mutex. *)
MutexHeld ==
  \A c \in Consumers : pc[c] \in {"test", "block", "take", "erase"} <=> m_mutex = c

(* What the consumer between front and pop leaves in the queue is what was *)
(* pushed and not handed out.                                              *)
Left(c) == SubSeq(m_shared_data, TakeCount(c) + 1, Len(m_shared_data))

LeftIsQueued ==
  \A c \in Erasing : m_shared_data # <<>> /\ pushed = popped \o Left(c)

IInv ==
  /\ TypeOK
  /\ Roles
  /\ MutexHeld
  /\ FirstInFirstOut
  /\ LeftIsQueued
  /\ NothingSlipsIn
  /\ EveryItemAttended

(* No thread has two roles. *)
LEMMA DistinctRoles ==
  /\ Producers \cap Consumers = {} /\ Closers \cap Producers = {}
  /\ Closers \cap Consumers = {} /\ PopAllConsumers \cap TimedConsumers = {}
  /\ Producers \subseteq Threads /\ Consumers \subseteq Threads /\ Closers \subseteq Threads
  /\ NoThread \notin Consumers
  /\ IsFiniteSet(Producers) /\ IsFiniteSet(Consumers)
BY ThreadAssumption DEF Threads

(* Init establishes the invariant. *)
LEMMA InitIInv == Init => IInv
<1> SUFFICES ASSUME Init PROVE IInv
  OBVIOUS
<1>1. \A t \in Threads : pc[t] = IF t \in Closers THEN "run" ELSE "idle"
  BY DEF Init
<1>2. TypeOK
  <2>1. g_keep_running_system \in BOOLEAN
    BY DEF Init
  <2>2. pc \in [Threads -> {"idle", "push", "notify", "lock", "test", "block", "asleep",
                            "relock", "take", "erase", "run", "done"}]
    BY DEF Init
  <2>3. m_shared_data \in Seq(Items) /\ pushed \in Seq(Items) /\ popped \in Seq(Items)
    BY DEF Init
  <2> QED
    BY <2>1, <2>2, <2>3 DEF Init, TypeOK
<1>3. Roles
  BY <1>1, DistinctRoles DEF Roles
<1>4. MutexHeld
  BY <1>1, DistinctRoles DEF Init, MutexHeld
<1>5. FirstInFirstOut /\ LeftIsQueued
  BY <1>1, DistinctRoles DEF Init, FirstInFirstOut, LeftIsQueued, Erasing
<1>6. NothingSlipsIn
  BY <1>1, DistinctRoles DEF NothingSlipsIn
<1>7. EveryItemAttended
  BY <1>1, DistinctRoles DEF EveryItemAttended, Asleep
<1> QED
  BY <1>2, <1>3, <1>4, <1>5, <1>6, <1>7 DEF IInv

(* What Take hands out and what it leaves are the queue, cut in two. *)
LEMMA TakeSplitsQueue ==
  ASSUME TypeOK, NEW c \in Consumers, m_shared_data # <<>>
  PROVE  /\ TakeCount(c) \in 0..Len(m_shared_data)
         /\ SubSeq(m_shared_data, 1, TakeCount(c)) \in Seq(Items)
         /\ SubSeq(m_shared_data, TakeCount(c) + 1, Len(m_shared_data)) \in Seq(Items)
         /\ SubSeq(m_shared_data, 1, TakeCount(c))
              \o SubSeq(m_shared_data, TakeCount(c) + 1, Len(m_shared_data)) = m_shared_data
         /\ Len(SubSeq(m_shared_data, TakeCount(c) + 1, Len(m_shared_data)))
              = Len(m_shared_data) - TakeCount(c)
<1>1. m_shared_data \in Seq(Items) /\ Len(m_shared_data) \in Nat
  BY DEF TypeOK
<1>2. Len(m_shared_data) > 0
  BY <1>1
<1>3. TakeCount(c) \in 0..Len(m_shared_data)
  BY <1>1, <1>2 DEF TakeCount
<1> DEFINE n == TakeCount(c)
<1> HIDE DEF n
<1>4. n \in 0..Len(m_shared_data) /\ n \in Nat
  BY <1>3 DEF n
<1>5. SubSeq(m_shared_data, 1, n) \in Seq(Items)
      /\ SubSeq(m_shared_data, n + 1, Len(m_shared_data)) \in Seq(Items)
  BY <1>1, <1>4
<1>6. SubSeq(m_shared_data, 1, n) \o SubSeq(m_shared_data, n + 1, Len(m_shared_data))
        = m_shared_data
  <2>1. SubSeq(m_shared_data, 1, n) \o SubSeq(m_shared_data, n + 1, Len(m_shared_data))
          = SubSeq(m_shared_data, 1, Len(m_shared_data))
    <3>1. 1 \in 1..Len(m_shared_data) + 1 /\ n \in 1 - 1..Len(m_shared_data)
          /\ Len(m_shared_data) \in n..Len(m_shared_data)
      BY <1>1, <1>4
    <3> QED
      BY <1>1, <3>1, ConcatAdjacentSubSeq
  <2> QED
    BY <1>1, <2>1, SubSeqFull
<1>7. Len(SubSeq(m_shared_data, n + 1, Len(m_shared_data))) = Len(m_shared_data) - n
  BY <1>1, <1>4
<1> QED
  BY <1>3, <1>5, <1>6, <1>7 DEF n

-----------------------------------------------------------------------------
(* Types, roles, the mutex and the queue's contents. *)
LEMMA TypeStep == TypeOK /\ Roles /\ LeftIsQueued /\ [Next]_vars => TypeOK' /\ Roles'
<1> SUFFICES ASSUME TypeOK, Roles, LeftIsQueued, [Next]_vars PROVE TypeOK' /\ Roles'
  OBVIOUS
<1> USE DistinctRoles
<1>1. ASSUME NEW p \in Producers, StartPush(p) PROVE TypeOK' /\ Roles'
  BY <1>1 DEF StartPush, Goto, TypeOK, Roles
<1>2. ASSUME NEW p \in Producers, Push(p) PROVE TypeOK' /\ Roles'
  BY <1>2 DEF Push, Goto, TypeOK, Roles
<1>3. ASSUME NEW p \in Producers, NotifyOne(p) PROVE TypeOK' /\ Roles'
  BY <1>3 DEF NotifyOne, Goto, TypeOK, Roles, Asleep
<1>4. ASSUME NEW c \in Consumers, Call(c) PROVE TypeOK' /\ Roles'
  BY <1>4 DEF Call, Goto, TypeOK, Roles
<1>5. ASSUME NEW c \in Consumers, Lock(c) PROVE TypeOK' /\ Roles'
  BY <1>5 DEF Lock, Goto, TypeOK, Roles
<1>6. ASSUME NEW c \in Consumers, Test(c) PROVE TypeOK' /\ Roles'
  BY <1>6 DEF Test, Goto, TypeOK, Roles
<1>7. ASSUME NEW c \in Consumers, Block(c) PROVE TypeOK' /\ Roles'
  BY <1>7 DEF Block, Goto, TypeOK, Roles
<1>8. ASSUME NEW c \in Consumers, Take(c) PROVE TypeOK' /\ Roles'
  <2>1. popped' \in Seq(Items)
    BY <1>8, TakeSplitsQueue DEF Take, TypeOK
  <2> QED
    BY <1>8, <2>1 DEF Take, Goto, TypeOK, Roles
<1>15. ASSUME NEW c \in Consumers, ReturnEmpty(c) PROVE TypeOK' /\ Roles'
  BY <1>15 DEF ReturnEmpty, Goto, TypeOK, Roles
<1>14. ASSUME NEW c \in Consumers, Erase(c) PROVE TypeOK' /\ Roles'
  <2>1. m_shared_data' \in Seq(Items)
    BY <1>14, TakeSplitsQueue DEF Erase, TypeOK, LeftIsQueued, Erasing
  <2> QED
    BY <1>14, <2>1 DEF Erase, Goto, TypeOK, Roles
<1>9. ASSUME NEW c \in Consumers, Timeout(c) PROVE TypeOK' /\ Roles'
  BY <1>9 DEF Timeout, Goto, TypeOK, Roles
<1>10. ASSUME NEW c \in Consumers, SpuriousWakeUp(c) PROVE TypeOK' /\ Roles'
  BY <1>10 DEF SpuriousWakeUp, Goto, TypeOK, Roles
<1>11. ASSUME NEW w \in Closers, WakeUpAll(w) PROVE TypeOK' /\ Roles'
  BY <1>11 DEF WakeUpAll, TypeOK, Roles, Asleep
<1>12. CASE Stop
  <2>1. g_keep_running_system' \in BOOLEAN
    BY <1>12 DEF Stop
  <2> QED
    BY <1>12, <2>1 DEF Stop, TypeOK, Roles
<1>13. CASE UNCHANGED vars
  BY <1>13 DEF vars, TypeOK, Roles
<1> QED
  BY <1>1, <1>2, <1>3, <1>4, <1>5, <1>6, <1>7, <1>8, <1>9, <1>10, <1>11, <1>12, <1>13, <1>14,
     <1>15
  DEF Next, push_data, pop

(* Mutual exclusion. *)
LEMMA MutexStep == TypeOK /\ Roles /\ MutexHeld /\ [Next]_vars => MutexHeld'
<1> SUFFICES ASSUME TypeOK, Roles, MutexHeld, [Next]_vars PROVE MutexHeld'
  OBVIOUS
<1> USE DistinctRoles DEF TypeOK, Roles, MutexHeld
<1>1. ASSUME NEW p \in Producers, StartPush(p) PROVE MutexHeld'
  BY <1>1 DEF StartPush, Goto
<1>2. ASSUME NEW p \in Producers, Push(p) PROVE MutexHeld'
  BY <1>2 DEF Push, Goto
<1>3. ASSUME NEW p \in Producers, NotifyOne(p) PROVE MutexHeld'
  BY <1>3 DEF NotifyOne, Goto, Asleep
<1>4. ASSUME NEW c \in Consumers, Call(c) PROVE MutexHeld'
  BY <1>4 DEF Call, Goto
<1>5. ASSUME NEW c \in Consumers, Lock(c) PROVE MutexHeld'
  BY <1>5 DEF Lock, Goto
<1>6. ASSUME NEW c \in Consumers, Test(c) PROVE MutexHeld'
  BY <1>6 DEF Test, Goto
<1>7. ASSUME NEW c \in Consumers, Block(c) PROVE MutexHeld'
  BY <1>7 DEF Block, Goto
<1>8. ASSUME NEW c \in Consumers, Take(c) PROVE MutexHeld'
  BY <1>8 DEF Take, Goto
<1>14. ASSUME NEW c \in Consumers, ReturnEmpty(c) PROVE MutexHeld'
  BY <1>14 DEF ReturnEmpty, Goto
<1>13. ASSUME NEW c \in Consumers, Erase(c) PROVE MutexHeld'
  BY <1>13 DEF Erase, Goto
<1>9. ASSUME NEW c \in Consumers, Timeout(c) PROVE MutexHeld'
  BY <1>9 DEF Timeout, Goto
<1>10. ASSUME NEW c \in Consumers, SpuriousWakeUp(c) PROVE MutexHeld'
  BY <1>10 DEF SpuriousWakeUp, Goto
<1>11. ASSUME NEW w \in Closers, WakeUpAll(w) PROVE MutexHeld'
  BY <1>11 DEF WakeUpAll, Asleep
<1>12. CASE Stop \/ UNCHANGED vars
  BY <1>12 DEF Stop, vars
<1> QED
  BY <1>1, <1>2, <1>3, <1>4, <1>5, <1>6, <1>7, <1>8, <1>9, <1>10, <1>11, <1>12, <1>13,
     <1>14
  DEF Next, push_data, pop

(* Nothing is lost, duplicated or reordered: only one thread is between    *)
(* front and pop, and nobody pushes meanwhile.                             *)
LEMMA FifoStep ==
  TypeOK /\ MutexHeld /\ FirstInFirstOut /\ LeftIsQueued /\ [Next]_vars
    => FirstInFirstOut' /\ LeftIsQueued'
<1> SUFFICES ASSUME TypeOK, MutexHeld, FirstInFirstOut, LeftIsQueued, [Next]_vars
             PROVE  FirstInFirstOut' /\ LeftIsQueued'
  OBVIOUS
<1> USE DistinctRoles
<1>0. m_shared_data \in Seq(Items) /\ popped \in Seq(Items) /\ pushed \in Seq(Items)
  BY DEF TypeOK
<1>1. ASSUME NEW p \in Producers, Push(p) PROVE FirstInFirstOut' /\ LeftIsQueued'
  <2>1. PICK item \in Items : /\ m_shared_data' = Append(m_shared_data, item)
                              /\ pushed' = Append(pushed, item)
    BY <1>1 DEF Push
  <2>2. Append(m_shared_data, item) = m_shared_data \o <<item>>
    BY <1>0, AppendIsConcat
  <2>4. Append(pushed, item) = pushed \o <<item>>
    BY <1>0, AppendIsConcat
  <2>5. <<item>> \in Seq(Items)
    OBVIOUS
  <2>6. (popped \o m_shared_data) \o <<item>> = popped \o (m_shared_data \o <<item>>)
    BY <1>0, <2>5, ConcatAssociative
  <2>7. popped' = popped
    BY <1>1 DEF Push
  <2>8. Erasing = {} /\ Erasing' = {}
    BY <1>1 DEF Push, Goto, TypeOK, MutexHeld, Erasing
  <2> QED
    BY <2>1, <2>2, <2>4, <2>6, <2>7, <2>8 DEF FirstInFirstOut, LeftIsQueued
<1>2. ASSUME NEW c \in Consumers, Take(c) PROVE FirstInFirstOut' /\ LeftIsQueued'
  <2> DEFINE taken == SubSeq(m_shared_data, 1, TakeCount(c))
  <2>1. taken \in Seq(Items) /\ Left(c) \in Seq(Items) /\ taken \o Left(c) = m_shared_data
    BY <1>2, TakeSplitsQueue DEF Left, Take
  <2>2. popped' = popped \o taken /\ m_shared_data' = m_shared_data /\ pushed' = pushed
    BY <1>2 DEF Take
  <2> HIDE DEF taken
  <2>3. (popped \o taken) \o Left(c) = popped \o (taken \o Left(c))
    <3>1. popped \in Seq(Items) /\ taken \in Seq(Items) /\ Left(c) \in Seq(Items)
      BY <1>0, <2>1
    <3> QED
      BY <3>1, ConcatAssociative
  <2>4. Erasing = {} /\ Erasing' = {c}
    BY <1>2 DEF Take, Goto, TypeOK, MutexHeld, Erasing
  <2>5. Left(c)' = Left(c) /\ m_shared_data # <<>>
    BY <1>2, <2>2 DEF Left, TakeCount, Take
  <2> QED
    BY <2>1, <2>2, <2>3, <2>4, <2>5 DEF FirstInFirstOut, LeftIsQueued
<1>3. ASSUME NEW c \in Consumers, Erase(c) PROVE FirstInFirstOut' /\ LeftIsQueued'
  <2>1. m_shared_data' = Left(c) /\ popped' = popped /\ pushed' = pushed
    BY <1>3 DEF Erase, Left
  <2>2. c \in Erasing /\ Erasing' = {}
    BY <1>3 DEF Erase, Goto, TypeOK, MutexHeld, Erasing
  <2> QED
    BY <2>1, <2>2 DEF FirstInFirstOut, LeftIsQueued
<1>4. CASE /\ \A p \in Producers : ~Push(p)
           /\ \A c \in Consumers : ~Take(c) /\ ~Erase(c)
  <2>1. UNCHANGED <<m_shared_data, pushed, popped>>
    BY <1>4 DEF Next, push_data, pop, StartPush, NotifyOne, Call, Lock, Test, Block,
                ReturnEmpty, Timeout, SpuriousWakeUp, WakeUpAll, Stop, vars
  <2>2. Erasing' = Erasing
    <3> USE DEF TypeOK, Erasing
    <3>1. ASSUME NEW p \in Producers, StartPush(p) \/ NotifyOne(p) PROVE Erasing' = Erasing
      BY <3>1 DEF StartPush, NotifyOne, Goto, Asleep
    <3>2. ASSUME NEW c \in Consumers,
                 \/ Call(c) \/ Lock(c) \/ Test(c) \/ Block(c)
                 \/ ReturnEmpty(c) \/ Timeout(c) \/ SpuriousWakeUp(c)
          PROVE  Erasing' = Erasing
      BY <3>2 DEF Call, Lock, Test, Block, ReturnEmpty, Timeout, SpuriousWakeUp, Goto
    <3>3. ASSUME NEW w \in Closers, WakeUpAll(w) PROVE Erasing' = Erasing
      BY <3>3 DEF WakeUpAll, Asleep
    <3>4. CASE Stop \/ UNCHANGED vars
      BY <3>4 DEF Stop, vars
    <3> QED
      BY <1>4, <3>1, <3>2, <3>3, <3>4 DEF Next, push_data, pop
  <2>3. \A c \in Consumers : Left(c)' = Left(c)
    BY <2>1 DEF Left, TakeCount
  <2>4. Erasing \subseteq Consumers
    BY DEF Erasing
  <2> QED
    BY <2>1, <2>2, <2>3, <2>4 DEF FirstInFirstOut, LeftIsQueued
<1> QED
  BY <1>1, <1>2, <1>3, <1>4

(* A consumer that decided to sleep keeps the mutex and the queue stays empty. *)
LEMMA SlipStep ==
  TypeOK /\ Roles /\ MutexHeld /\ NothingSlipsIn /\ [Next]_vars => NothingSlipsIn'
<1> SUFFICES ASSUME TypeOK, Roles, MutexHeld, NothingSlipsIn, [Next]_vars,
                    NEW b \in Consumers, pc'[b] = "block"
             PROVE  m_shared_data' = <<>> /\ m_mutex' = b
  BY DEF NothingSlipsIn
<1> USE DistinctRoles DEF TypeOK, Roles, MutexHeld, NothingSlipsIn
<1>1. ASSUME NEW p \in Producers, StartPush(p) PROVE m_shared_data' = <<>> /\ m_mutex' = b
  BY <1>1 DEF StartPush, Goto
<1>2. ASSUME NEW p \in Producers, Push(p) PROVE m_shared_data' = <<>> /\ m_mutex' = b
  BY <1>2 DEF Push, Goto
<1>3. ASSUME NEW p \in Producers, NotifyOne(p) PROVE m_shared_data' = <<>> /\ m_mutex' = b
  BY <1>3 DEF NotifyOne, Goto, Asleep
<1>4. ASSUME NEW c \in Consumers, Call(c) PROVE m_shared_data' = <<>> /\ m_mutex' = b
  BY <1>4 DEF Call, Goto
<1>5. ASSUME NEW c \in Consumers, Lock(c) PROVE m_shared_data' = <<>> /\ m_mutex' = b
  BY <1>5 DEF Lock, Goto
<1>6. ASSUME NEW c \in Consumers, Test(c) PROVE m_shared_data' = <<>> /\ m_mutex' = b
  BY <1>6 DEF Test, Goto, WakeUpCondition
<1>7. ASSUME NEW c \in Consumers, Block(c) PROVE m_shared_data' = <<>> /\ m_mutex' = b
  BY <1>7 DEF Block, Goto
<1>8. ASSUME NEW c \in Consumers, Take(c) PROVE m_shared_data' = <<>> /\ m_mutex' = b
  BY <1>8 DEF Take, Goto
<1>14. ASSUME NEW c \in Consumers, ReturnEmpty(c)
       PROVE  m_shared_data' = <<>> /\ m_mutex' = b
  BY <1>14 DEF ReturnEmpty, Goto
<1>13. ASSUME NEW c \in Consumers, Erase(c) PROVE m_shared_data' = <<>> /\ m_mutex' = b
  BY <1>13 DEF Erase, Goto
<1>9. ASSUME NEW c \in Consumers, Timeout(c) PROVE m_shared_data' = <<>> /\ m_mutex' = b
  BY <1>9 DEF Timeout, Goto
<1>10. ASSUME NEW c \in Consumers, SpuriousWakeUp(c)
       PROVE  m_shared_data' = <<>> /\ m_mutex' = b
  BY <1>10 DEF SpuriousWakeUp, Goto
<1>11. ASSUME NEW w \in Closers, WakeUpAll(w) PROVE m_shared_data' = <<>> /\ m_mutex' = b
  BY <1>11 DEF WakeUpAll, Asleep
<1>12. CASE Stop \/ UNCHANGED vars
  BY <1>12 DEF Stop, vars
<1> QED
  BY <1>1, <1>2, <1>3, <1>4, <1>5, <1>6, <1>7, <1>8, <1>9, <1>10, <1>11, <1>12, <1>13,
     <1>14
  DEF Next, push_data, pop

-----------------------------------------------------------------------------
(* The counting argument: an item, a pending notification and an awake     *)
(* consumer come and go together.                                          *)

(* The two sets of attendants are finite, before and after a step. *)
LEMMA AttendantsFinite ==
  /\ IsFiniteSet(PendingNotifications) /\ IsFiniteSet(AwakeInCall)
  /\ Cardinality(PendingNotifications) \in Nat /\ Cardinality(AwakeInCall) \in Nat
<1>1. PendingNotifications \in SUBSET Producers /\ AwakeInCall \in SUBSET Consumers
  BY DEF PendingNotifications, AwakeInCall
<1>2. IsFiniteSet(PendingNotifications) /\ IsFiniteSet(AwakeInCall)
  BY <1>1, DistinctRoles, FS_Subset
<1> QED
  BY <1>2, FS_CardinalityType

(* More awake consumers attend at least as many items. *)
LEMMA MoreAttendants ==
  ASSUME NEW q \in Nat, NEW n \in Nat, NEW a \in Nat, NEW b \in Nat, q <= n + a, a <= b
  PROVE  q <= n + b
OBVIOUS

(* Every step keeps each item attended. *)
LEMMA AttendedStep == IInv /\ [Next]_vars => EveryItemAttended'
<1> DEFINE queued == Len(m_shared_data)
           pending == Cardinality(PendingNotifications)
           awake == Cardinality(AwakeInCall)
<1> SUFFICES ASSUME IInv, [Next]_vars, Asleep' # {}
             PROVE  queued' <= pending' + awake'
  BY DEF EveryItemAttended
<1> USE DistinctRoles
<1>0. /\ TypeOK /\ Roles /\ MutexHeld /\ NothingSlipsIn
      /\ Asleep # {} => queued <= pending + awake
      /\ LeftIsQueued /\ queued \in Nat
  BY DEF IInv, EveryItemAttended, TypeOK
<1>a. /\ pending \in Nat /\ awake \in Nat
      /\ IsFiniteSet(PendingNotifications) /\ IsFiniteSet(AwakeInCall)
  BY AttendantsFinite
<1>b. pending' \in Nat /\ awake' \in Nat /\ IsFiniteSet(PendingNotifications')
      /\ IsFiniteSet(AwakeInCall')
  <2>1. PendingNotifications' \in SUBSET Producers /\ AwakeInCall' \in SUBSET Consumers
    BY DEF PendingNotifications, AwakeInCall
  <2>2. IsFiniteSet(PendingNotifications') /\ IsFiniteSet(AwakeInCall')
    BY <2>1, FS_Subset
  <2> QED
    BY <2>2, FS_CardinalityType
<1>c. AwakeInCall \subseteq AwakeInCall' => awake <= awake'
  BY <1>b, FS_Subset
<1>d. PendingNotifications' = PendingNotifications => pending' = pending
  OBVIOUS
<1> DEFINE Frame == /\ queued' = queued /\ PendingNotifications' = PendingNotifications
                    /\ AwakeInCall \subseteq AwakeInCall' /\ Asleep # {}
<1>e. Frame => queued' <= pending' + awake'
  <2> SUFFICES ASSUME Frame PROVE queued' <= pending' + awake'
    OBVIOUS
  <2>1. queued' = queued /\ pending' = pending /\ awake <= awake' /\ Asleep # {}
    BY <1>c, <1>d
  <2> QED
    BY <1>0, <1>a, <1>b, <2>1, MoreAttendants
<1>1. ASSUME NEW p \in Producers, StartPush(p) PROVE Frame
  BY <1>0, <1>1 DEF StartPush, Goto, PendingNotifications, AwakeInCall, Asleep, TypeOK, Roles
<1>2. ASSUME NEW p \in Producers, Push(p) PROVE queued' <= pending' + awake'
  <2>1. queued' = queued + 1
    BY <1>2 DEF Push, TypeOK, IInv
  <2>2. Asleep' = Asleep /\ AwakeInCall' = AwakeInCall
    BY <1>0, <1>2 DEF Push, Goto, Asleep, AwakeInCall, TypeOK
  <2>3. PendingNotifications' = PendingNotifications \cup {p} /\ p \notin PendingNotifications
    BY <1>0, <1>2 DEF Push, Goto, PendingNotifications, TypeOK
  <2>4. pending' = pending + 1
    BY <1>a, <2>3, FS_AddElement
  <2>5. awake' = awake
    BY <2>2
  <2> HIDE DEF queued, pending, awake
  <2> QED
    BY <1>0, <1>a, <2>1, <2>2, <2>4, <2>5
<1>3. ASSUME NEW p \in Producers, NotifyOne(p) PROVE queued' <= pending' + awake'
  <2>1. PICK c \in Asleep : pc' = [pc EXCEPT ![p] = "idle", ![c] = "relock"]
    BY <1>0, <1>3 DEF NotifyOne, Goto, Asleep, TypeOK
  <2>2. c \in Consumers /\ pc[c] = "asleep" /\ pc[p] = "notify"
    BY <1>3, <2>1 DEF Asleep, NotifyOne
  <2>3. PendingNotifications' = PendingNotifications \ {p} /\ p \in PendingNotifications
    BY <1>0, <2>1, <2>2 DEF PendingNotifications, TypeOK
  <2>4. AwakeInCall' = AwakeInCall \cup {c} /\ c \notin AwakeInCall
    BY <1>0, <2>1, <2>2 DEF AwakeInCall, TypeOK
  <2>5. pending' = pending - 1
    BY <1>a, <2>3, FS_RemoveElement
  <2>6. awake' = awake + 1
    BY <1>a, <2>4, FS_AddElement
  <2>7. queued' = queued /\ Asleep # {}
    BY <1>3, <2>1 DEF NotifyOne
  <2> HIDE DEF queued, pending, awake
  <2> QED
    BY <1>0, <1>a, <2>5, <2>6, <2>7
<1>4. ASSUME NEW c \in Consumers, Call(c) PROVE Frame
  BY <1>0, <1>4 DEF Call, Goto, PendingNotifications, AwakeInCall, Asleep, TypeOK
<1>5. ASSUME NEW c \in Consumers, Lock(c) PROVE Frame
  BY <1>0, <1>5 DEF Lock, Goto, PendingNotifications, AwakeInCall, Asleep, TypeOK
<1>6. ASSUME NEW c \in Consumers, Test(c) PROVE queued' <= pending' + awake'
  <2>1. CASE m_shared_data = <<>>
    <3>1. queued' = 0
      BY <1>6, <2>1 DEF Test
    <3> QED
      BY <1>b, <3>1
  <2>2. CASE m_shared_data # <<>>
    <3>1. Frame
      BY <1>0, <1>6, <2>2 DEF Test, Goto, WakeUpCondition, PendingNotifications, AwakeInCall,
                              Asleep, TypeOK
    <3> QED
      BY <1>e, <3>1
  <2> QED
    BY <2>1, <2>2
<1>7. ASSUME NEW c \in Consumers, Block(c) PROVE queued' <= pending' + awake'
  <2>1. queued' = 0
    BY <1>0, <1>7 DEF Block, NothingSlipsIn
  <2> QED
    BY <1>b, <2>1
<1>12. ASSUME NEW c \in Consumers, Take(c) PROVE Frame
  BY <1>0, <1>12 DEF Take, Goto, PendingNotifications, AwakeInCall, Asleep, TypeOK
<1>13. ASSUME NEW c \in Consumers, ReturnEmpty(c) PROVE queued' <= pending' + awake'
  <2>1. queued' = 0
    BY <1>13 DEF ReturnEmpty
  <2> QED
    BY <1>b, <2>1
<1>8. ASSUME NEW c \in Consumers, Erase(c) PROVE queued' <= pending' + awake'
  <2>1. TakeCount(c) \in 0..queued /\ queued' = queued - TakeCount(c)
    BY <1>0, <1>8, TakeSplitsQueue DEF Erase, LeftIsQueued, Erasing
  <2>2. queued' = 0 \/ TakeCount(c) = 1
    BY <1>0, <2>1 DEF TakeCount
  <2>3. Asleep' = Asleep /\ PendingNotifications' = PendingNotifications
    BY <1>0, <1>8 DEF Erase, Goto, Asleep, PendingNotifications, TypeOK
  <2>4. AwakeInCall' = AwakeInCall \ {c} /\ c \in AwakeInCall
    BY <1>0, <1>8 DEF Erase, Goto, AwakeInCall, TypeOK
  <2>5. awake' = awake - 1
    BY <1>a, <2>4, FS_RemoveElement
  <2>6. pending' = pending
    BY <2>3
  <2> HIDE DEF queued, pending, awake
  <2> QED
    BY <1>0, <1>a, <1>b, <2>1, <2>2, <2>3, <2>5, <2>6
<1>9. ASSUME NEW c \in Consumers, Timeout(c) \/ SpuriousWakeUp(c) PROVE Frame
  BY <1>0, <1>9 DEF Timeout, SpuriousWakeUp, Goto, PendingNotifications, AwakeInCall, Asleep,
                    TypeOK
<1>10. ASSUME NEW w \in Closers, WakeUpAll(w) PROVE FALSE
  BY <1>0, <1>10 DEF WakeUpAll, Asleep, TypeOK
<1>11. CASE Stop \/ UNCHANGED vars
  BY <1>0, <1>e, <1>11 DEF Stop, vars, PendingNotifications, AwakeInCall, Asleep
<1> HIDE DEF Frame
<1> QED
  BY <1>e, <1>1, <1>2, <1>3, <1>4, <1>5, <1>6, <1>7, <1>8, <1>9, <1>10, <1>11, <1>12,
     <1>13
  DEF Next, push_data, pop

-----------------------------------------------------------------------------
(* The inductive invariant. *)
THEOREM Inductive == Spec => []IInv
<1>1. Init => IInv
  BY InitIInv
<1>2. IInv /\ [Next]_vars => IInv'
  BY TypeStep, MutexStep, FifoStep, SlipStep, AttendedStep DEF IInv
<1> QED
  BY <1>1, <1>2, PTL DEF Spec

(* Every variable keeps its range. *)
THEOREM TypeCorrect == Spec => []TypeOK
<1>1. IInv => TypeOK
  BY DEF IInv
<1> QED
  BY <1>1, Inductive, PTL

(* Every item is handed out once, in the order of the pushes. *)
THEOREM QueueIsFifo == Spec => []FirstInFirstOut
<1>1. IInv => FirstInFirstOut
  BY DEF IInv
<1> QED
  BY <1>1, Inductive, PTL

(* No item is pushed between a consumer's test and its falling asleep. *)
THEOREM NoItemSlipsIn == Spec => []NothingSlipsIn
<1>1. IInv => NothingSlipsIn
  BY DEF IInv
<1> QED
  BY <1>1, Inductive, PTL

(* One notify_one for each push is enough: no wake-up for an item is lost. *)
THEOREM NoWakeUpLost == Spec => []EveryItemAttended
<1>1. IInv => EveryItemAttended
  BY DEF IInv
<1> QED
  BY <1>1, Inductive, PTL
=============================================================================
