----------------------- MODULE ConcurrentQueueProofs -----------------------
(***************************************************************************)
(* Proofs about ConcurrentQueue for every set of threads, every set of     *)
(* items and every max_size_.                                              *)
(***************************************************************************)
EXTENDS ConcurrentQueue, FiniteSetTheorems, SequenceTheorems, TLAPS

(* Type correctness *)

\* Every step of every operation in concurrent_queue.h preserves the types.
LEMMA TypeStep == TypeOK /\ [Next]_vars => TypeOK'
<1> SUFFICES ASSUME TypeOK, [Next]_vars PROVE TypeOK'
  OBVIOUS
<1>1. CASE UNCHANGED vars
  BY <1>1 DEF TypeOK, vars
<1>2. ASSUME NEW t \in Threads, NEW o \in Ops, Call(t, o) PROVE TypeOK'
  BY <1>2 DEF TypeOK, Call
<1>3. ASSUME NEW t \in Threads, Lock(t) PROVE TypeOK'
  BY <1>3 DEF TypeOK, Lock
<1>4. ASSUME NEW t \in Threads, WaitNotFull(t) PROVE TypeOK'
  BY <1>4 DEF TypeOK, WaitNotFull, Wait
<1>5. ASSUME NEW t \in Threads, WaitNotEmpty(t) PROVE TypeOK'
  BY <1>5 DEF TypeOK, WaitNotEmpty, Wait
<1>6. ASSUME NEW t \in Threads, PushBack(t) PROVE TypeOK'
  <2>1. op[t].item \in Items
    BY <1>6 DEF TypeOK, PushBack, Ops, PushOps, PopOps
  <2>2. queue' \in Seq(Items)
    BY <1>6, <2>1, AppendProperties DEF TypeOK, PushBack
  <2>3. not_empty_cond' \in SUBSET Threads
    BY <1>6 DEF TypeOK, PushBack, NotifyOne
  <2> QED
    BY <1>6, <2>2, <2>3 DEF TypeOK, PushBack, Finish, Rets
<1>7. ASSUME NEW t \in Threads, PopFront(t) PROVE TypeOK'
  <2>1. queue' \in Seq(Items) /\ Head(queue) \in Items
    BY <1>7, HeadTailProperties DEF TypeOK, PopFront
  <2>2. not_full_cond' \in SUBSET Threads
    BY <1>7 DEF TypeOK, PopFront, NotifyOne
  <2> QED
    BY <1>7, <2>1, <2>2 DEF TypeOK, PopFront, Finish, Rets
<1>8. ASSUME NEW t \in Threads, PeekFront(t) PROVE TypeOK'
  <2>1. Head(queue) \in Items
    BY <1>8, HeadTailProperties DEF TypeOK, PeekFront
  <2> QED
    BY <1>8, <2>1 DEF TypeOK, PeekFront, Finish, Rets
<1>9. ASSUME NEW t \in Threads, Refuse(t) PROVE TypeOK'
  BY <1>9 DEF TypeOK, Refuse, Finish, Rets
<1>10. ASSUME NEW t \in Threads, Unlock(t) PROVE TypeOK'
  BY <1>10 DEF TypeOK, Unlock
<1>11. ASSUME NEW t \in Threads, SpuriousWakeup(t) PROVE TypeOK'
  BY <1>11 DEF TypeOK, SpuriousWakeup
<1> QED
  BY <1>1, <1>2, <1>3, <1>4, <1>5, <1>6, <1>7, <1>8, <1>9, <1>10, <1>11
  DEF Next, Step

\* The members of a ConcurrentQueue keep their types through every step of
\* every operation in concurrent_queue.h.
THEOREM TypeCorrect == Spec => []TypeOK
<1>1. Init => TypeOK
  BY DEF Init, TypeOK, Ops, PopOps, PushOps, Rets
<1> QED
  BY <1>1, TypeStep, PTL DEF Spec

-----------------------------------------------------------------------------
(* Locking and wait sets *)

\* The mutex discipline and the wait sets: LockGuard and the two wait loops of
\* push and pop keep each sleeping thread in the set its operation waits on.
LEMMA LockStep ==
    ASSUME TypeOK, MutualExclusion, WaitSetsOK, [Next]_vars
    PROVE  MutualExclusion' /\ WaitSetsOK'
<1> USE ThreadsAssumption
<1>1. CASE UNCHANGED vars
  BY <1>1 DEF MutualExclusion, WaitSetsOK, vars
<1>2. ASSUME NEW t \in Threads, NEW o \in Ops, Call(t, o)
      PROVE  MutualExclusion' /\ WaitSetsOK'
  BY <1>2 DEF TypeOK, MutualExclusion, WaitSetsOK, Call
<1>3. ASSUME NEW t \in Threads, Lock(t)
      PROVE  MutualExclusion' /\ WaitSetsOK'
  BY <1>3 DEF TypeOK, MutualExclusion, WaitSetsOK, Lock
<1>4. ASSUME NEW t \in Threads, WaitNotFull(t)
      PROVE  MutualExclusion' /\ WaitSetsOK'
  BY <1>4 DEF TypeOK, MutualExclusion, WaitSetsOK, WaitNotFull, Wait,
              fullNoLock
<1>5. ASSUME NEW t \in Threads, WaitNotEmpty(t)
      PROVE  MutualExclusion' /\ WaitSetsOK'
  BY <1>5 DEF TypeOK, MutualExclusion, WaitSetsOK, WaitNotEmpty, Wait
<1>6. ASSUME NEW t \in Threads, PushBack(t)
      PROVE  MutualExclusion' /\ WaitSetsOK'
  <2>1. not_empty_cond' \subseteq not_empty_cond
    BY <1>6 DEF PushBack, NotifyOne
  <2> QED
    BY <1>6, <2>1 DEF TypeOK, MutualExclusion, WaitSetsOK, PushBack, Finish
<1>7. ASSUME NEW t \in Threads, PopFront(t)
      PROVE  MutualExclusion' /\ WaitSetsOK'
  <2>1. not_full_cond' \subseteq not_full_cond
    BY <1>7 DEF PopFront, NotifyOne
  <2> QED
    BY <1>7, <2>1 DEF TypeOK, MutualExclusion, WaitSetsOK, PopFront, Finish
<1>8. ASSUME NEW t \in Threads, PeekFront(t) \/ Refuse(t)
      PROVE  MutualExclusion' /\ WaitSetsOK'
  BY <1>8 DEF TypeOK, MutualExclusion, WaitSetsOK, PeekFront, Refuse, Finish
<1>9. ASSUME NEW t \in Threads, Unlock(t)
      PROVE  MutualExclusion' /\ WaitSetsOK'
  BY <1>9 DEF TypeOK, MutualExclusion, WaitSetsOK, Unlock
<1>10. ASSUME NEW t \in Threads, SpuriousWakeup(t)
       PROVE  MutualExclusion' /\ WaitSetsOK'
  BY <1>10 DEF TypeOK, MutualExclusion, WaitSetsOK, SpuriousWakeup
<1> QED
  BY <1>1, <1>2, <1>3, <1>4, <1>5, <1>6, <1>7, <1>8, <1>9, <1>10
  DEF Next, Step

-----------------------------------------------------------------------------
(* Capacity and wakeups *)

\* push and pushIfNotFull respect max_size_: the size test and the push_back
\* are one critical section.
LEMMA CapacityStep ==
    ASSUME TypeOK, NeverOverfull, [Next]_vars
    PROVE  NeverOverfull'
<1> USE MaxSizeAssumption
<1>1. ASSUME NEW t \in Threads, PushBack(t) PROVE NeverOverfull'
  <2>1. Len(queue') = Len(queue) + 1 /\ Len(queue) \in Nat
    BY <1>1, AppendProperties, LenProperties, op[t].item \in Items
    DEF TypeOK, PushBack, Ops, PushOps, PopOps
  <2> QED
    BY <1>1, <2>1 DEF NeverOverfull, PushBack, fullNoLock
<1>2. ASSUME NEW t \in Threads, PopFront(t) PROVE NeverOverfull'
  <2>1. Len(queue') = Len(queue) - 1 /\ Len(queue) \in Nat
    BY <1>2, HeadTailProperties, LenProperties DEF TypeOK, PopFront
  <2> QED
    BY <1>2, <2>1 DEF NeverOverfull
<1>3. CASE UNCHANGED queue
  BY <1>3 DEF NeverOverfull
<1> QED
  BY <1>1, <1>2, <1>3
  DEF Next, Step, vars, Call, Lock, WaitNotFull, WaitNotEmpty, Wait,
      PeekFront, Refuse, Unlock, SpuriousWakeup

\* The sets counted by the wakeup invariants are finite.
LEMMA AwakeFinite ==
    /\ IsFiniteSet(AwakePoppers) /\ Cardinality(AwakePoppers) \in Nat
    /\ IsFiniteSet(AwakePushers) /\ Cardinality(AwakePushers) \in Nat
<1>1. AwakePoppers \in SUBSET Threads /\ AwakePushers \in SUBSET Threads
  BY DEF AwakePoppers, AwakePushers
<1> QED
  BY <1>1, ThreadsAssumption, FS_Subset, FS_CardinalityType

\* Wakeups for pop are not lost: notifyOne() in push moves one sleeper per item
\* to the awake threads, and an awake thread leaves only by taking an item or
\* by finding the queue empty.
LEMMA ItemWakeupStep ==
    ASSUME TypeOK, MutualExclusion, WaitSetsOK, NoLostItemWakeup, [Next]_vars
    PROVE  NoLostItemWakeup'
<1> DEFINE P == AwakePoppers
<1>a. TypeOK'
  BY TypeStep
<1>b. IsFiniteSet(P) /\ Cardinality(P) \in Nat
  BY AwakeFinite
<1>c. IsFiniteSet(P') /\ Cardinality(P') \in Nat
  <2>1. P' \in SUBSET Threads
    BY DEF AwakePoppers
  <2> QED
    BY <2>1, ThreadsAssumption, FS_Subset, FS_CardinalityType
<1>d. Len(queue) \in Nat
  BY LenProperties DEF TypeOK
<1>e. ASSUME P \subseteq P', queue' = queue, not_empty_cond' \subseteq not_empty_cond
      PROVE  NoLostItemWakeup'
  <2>1. Cardinality(P) <= Cardinality(P')
    BY <1>c, <1>e, FS_Subset
  <2> QED
    BY <1>b, <1>c, <1>d, <1>e, <2>1 DEF NoLostItemWakeup
<1>1. CASE UNCHANGED vars
  BY <1>1, <1>e DEF AwakePoppers, vars
<1>2. ASSUME NEW t \in Threads, NEW o \in Ops, Call(t, o)
      PROVE  NoLostItemWakeup'
  BY <1>2, <1>e DEF AwakePoppers, Call, TypeOK
<1>3. ASSUME NEW t \in Threads, Lock(t) PROVE NoLostItemWakeup'
  BY <1>3, <1>e DEF AwakePoppers, Lock, TypeOK
<1>4. ASSUME NEW t \in Threads, WaitNotFull(t) PROVE NoLostItemWakeup'
  BY <1>4, <1>e DEF AwakePoppers, WaitNotFull, Wait, TypeOK
<1>5. ASSUME NEW t \in Threads, WaitNotEmpty(t) PROVE NoLostItemWakeup'
  BY <1>5, <1>c, EmptySeq DEF NoLostItemWakeup, WaitNotEmpty, Wait
<1>6. ASSUME NEW t \in Threads, PushBack(t) PROVE NoLostItemWakeup'
  <2>1. Len(queue') = Len(queue) + 1
    BY <1>6, AppendProperties, op[t].item \in Items
    DEF TypeOK, PushBack, Ops, PushOps, PopOps
  <2>2. CASE not_empty_cond = {}
    BY <1>6, <2>2 DEF PushBack, NotifyOne, NoLostItemWakeup
  <2>3. CASE not_empty_cond # {}
    <3>1. PICK w \in not_empty_cond : not_empty_cond' = not_empty_cond \ {w}
      BY <1>6, <2>3 DEF PushBack, NotifyOne
    <3>2. w \in Threads /\ w \notin P
      BY <3>1 DEF AwakePoppers, TypeOK, WaitSetsOK
    <3>3. P \cup {w} \in SUBSET P'
      BY <1>6, <3>1 DEF AwakePoppers, PushBack, Finish, TypeOK, WaitSetsOK
    <3>4. Cardinality(P \cup {w}) = Cardinality(P) + 1
      BY <1>b, <3>2, FS_AddElement
    <3>5. Cardinality(P) + 1 <= Cardinality(P')
      BY <1>c, <3>3, <3>4, FS_Subset
    <3> QED
      BY <1>b, <1>c, <1>d, <2>1, <2>3, <3>5 DEF NoLostItemWakeup
  <2> QED
    BY <2>2, <2>3
<1>7. ASSUME NEW t \in Threads, PopFront(t) PROVE NoLostItemWakeup'
  <2>1. Len(queue') = Len(queue) - 1
    BY <1>7, HeadTailProperties DEF TypeOK, PopFront
  <2>2. P \ {t} \in SUBSET P'
    BY <1>7 DEF AwakePoppers, PopFront, Finish, TypeOK
  <2>3. Cardinality(P) - 1 <= Cardinality(P')
    <3>1. Cardinality(P \ {t}) \in {Cardinality(P), Cardinality(P) - 1}
      BY <1>b, FS_RemoveElement
    <3>2. Cardinality(P \ {t}) <= Cardinality(P')
      BY <1>c, <2>2, FS_Subset
    <3> QED
      BY <1>b, <1>c, <3>1, <3>2
  <2> QED
    BY <1>7, <1>b, <1>c, <1>d, <2>1, <2>3 DEF NoLostItemWakeup, PopFront
<1>8. ASSUME NEW t \in Threads, PeekFront(t) \/ Refuse(t)
      PROVE  NoLostItemWakeup'
  BY <1>8, <1>e DEF AwakePoppers, PeekFront, Refuse, Finish, TypeOK
<1>9. ASSUME NEW t \in Threads, Unlock(t) PROVE NoLostItemWakeup'
  BY <1>9, <1>e DEF AwakePoppers, Unlock, TypeOK
<1>10. ASSUME NEW t \in Threads, SpuriousWakeup(t) PROVE NoLostItemWakeup'
  BY <1>10, <1>e DEF AwakePoppers, SpuriousWakeup, TypeOK
<1> QED
  BY <1>1, <1>2, <1>3, <1>4, <1>5, <1>6, <1>7, <1>8, <1>9, <1>10
  DEF Next, Step

\* Wakeups for push are not lost: notifyOne() in pop moves one sleeper per freed
\* slot to the awake threads, and an awake thread leaves only by filling a slot
\* or by finding the queue full.
LEMMA RoomWakeupStep ==
    ASSUME TypeOK, MutualExclusion, WaitSetsOK, NoLostRoomWakeup, [Next]_vars
    PROVE  NoLostRoomWakeup'
<1> DEFINE Q == AwakePushers
<1>a. MaxSize \in Nat
  BY MaxSizeAssumption
<1>b. IsFiniteSet(Q) /\ Cardinality(Q) \in Nat
  BY AwakeFinite
<1>c. IsFiniteSet(Q') /\ Cardinality(Q') \in Nat
  <2>1. Q' \in SUBSET Threads
    BY DEF AwakePushers
  <2> QED
    BY <2>1, ThreadsAssumption, FS_Subset, FS_CardinalityType
<1>d. Len(queue) \in Nat
  BY LenProperties DEF TypeOK
<1>e. ASSUME Q \subseteq Q', queue' = queue, not_full_cond' \subseteq not_full_cond
      PROVE  NoLostRoomWakeup'
  <2>1. Cardinality(Q) <= Cardinality(Q')
    BY <1>c, <1>e, FS_Subset
  <2> QED
    BY <1>a, <1>b, <1>c, <1>d, <1>e, <2>1 DEF NoLostRoomWakeup
<1>1. CASE UNCHANGED vars
  BY <1>1, <1>e DEF AwakePushers, vars
<1>2. ASSUME NEW t \in Threads, NEW o \in Ops, Call(t, o)
      PROVE  NoLostRoomWakeup'
  BY <1>2, <1>e DEF AwakePushers, Call, TypeOK
<1>3. ASSUME NEW t \in Threads, Lock(t) PROVE NoLostRoomWakeup'
  BY <1>3, <1>e DEF AwakePushers, Lock, TypeOK
<1>4. ASSUME NEW t \in Threads, WaitNotFull(t) PROVE NoLostRoomWakeup'
  BY <1>4, <1>a, <1>c, <1>d DEF NoLostRoomWakeup, WaitNotFull, Wait, fullNoLock
<1>5. ASSUME NEW t \in Threads, WaitNotEmpty(t) PROVE NoLostRoomWakeup'
  BY <1>5, <1>e DEF AwakePushers, WaitNotEmpty, Wait, TypeOK
<1>6. ASSUME NEW t \in Threads, PopFront(t) PROVE NoLostRoomWakeup'
  <2>1. Len(queue') = Len(queue) - 1
    BY <1>6, HeadTailProperties DEF TypeOK, PopFront
  <2>2. CASE not_full_cond = {}
    BY <1>6, <2>2 DEF PopFront, NotifyOne, NoLostRoomWakeup
  <2>3. CASE not_full_cond # {}
    <3>1. PICK w \in not_full_cond : not_full_cond' = not_full_cond \ {w}
      BY <1>6, <2>3 DEF PopFront, NotifyOne
    <3>2. w \in Threads /\ w \notin Q
      BY <3>1 DEF AwakePushers, TypeOK, WaitSetsOK
    <3>3. Q \cup {w} \in SUBSET Q'
      BY <1>6, <3>1 DEF AwakePushers, PopFront, Finish, TypeOK, WaitSetsOK
    <3>4. Cardinality(Q \cup {w}) = Cardinality(Q) + 1
      BY <1>b, <3>2, FS_AddElement
    <3>5. Cardinality(Q) + 1 <= Cardinality(Q')
      BY <1>c, <3>3, <3>4, FS_Subset
    <3> QED
      BY <1>a, <1>b, <1>c, <1>d, <2>1, <2>3, <3>5 DEF NoLostRoomWakeup
  <2> QED
    BY <2>2, <2>3
<1>7. ASSUME NEW t \in Threads, PushBack(t) PROVE NoLostRoomWakeup'
  <2>1. Len(queue') = Len(queue) + 1
    BY <1>7, AppendProperties, op[t].item \in Items
    DEF TypeOK, PushBack, Ops, PushOps, PopOps
  <2>2. Q \ {t} \in SUBSET Q'
    BY <1>7 DEF AwakePushers, PushBack, Finish, TypeOK
  <2>3. Cardinality(Q) - 1 <= Cardinality(Q')
    <3>1. Cardinality(Q \ {t}) \in {Cardinality(Q), Cardinality(Q) - 1}
      BY <1>b, FS_RemoveElement
    <3>2. Cardinality(Q \ {t}) <= Cardinality(Q')
      BY <1>c, <2>2, FS_Subset
    <3> QED
      BY <1>b, <1>c, <3>1, <3>2
  <2> QED
    BY <1>7, <1>a, <1>b, <1>c, <1>d, <2>1, <2>3 DEF NoLostRoomWakeup, PushBack
<1>8. ASSUME NEW t \in Threads, PeekFront(t) \/ Refuse(t)
      PROVE  NoLostRoomWakeup'
  BY <1>8, <1>e DEF AwakePushers, PeekFront, Refuse, Finish, TypeOK
<1>9. ASSUME NEW t \in Threads, Unlock(t) PROVE NoLostRoomWakeup'
  BY <1>9, <1>e DEF AwakePushers, Unlock, TypeOK
<1>10. ASSUME NEW t \in Threads, SpuriousWakeup(t) PROVE NoLostRoomWakeup'
  BY <1>10, <1>e DEF AwakePushers, SpuriousWakeup, TypeOK
<1> QED
  BY <1>1, <1>2, <1>3, <1>4, <1>5, <1>6, <1>7, <1>8, <1>9, <1>10
  DEF Next, Step

-----------------------------------------------------------------------------
(* The theorems about the queue *)

\* IndInv is an invariant of the queue under every interleaving.
THEOREM Invariance == Spec => []IndInv
<1>1. Init => IndInv
  <2> SUFFICES ASSUME Init PROVE IndInv
    OBVIOUS
  <2>1. TypeOK
    BY DEF Init, TypeOK, Ops, PopOps, PushOps, Rets
  <2>2. MutualExclusion /\ WaitSetsOK
    BY ThreadsAssumption DEF Init, MutualExclusion, WaitSetsOK
  <2>3. NeverOverfull
    BY MaxSizeAssumption, EmptySeq DEF Init, NeverOverfull
  <2> QED
    BY <2>1, <2>2, <2>3 DEF Init, IndInv, NoLostItemWakeup, NoLostRoomWakeup
<1>2. IndInv /\ [Next]_vars => IndInv'
  BY TypeStep, LockStep, CapacityStep, ItemWakeupStep, RoomWakeupStep DEF IndInv
<1> QED
  BY <1>1, <1>2, PTL DEF Spec

\* push and pushIfNotFull never take the queue over max_size_.
THEOREM Capacity == Spec => []NeverOverfull
  BY Invariance, PTL DEF IndInv

\* Threads blocked in push and threads blocked in pop never wait for each other.
THEOREM NoDeadlock == Spec => []NoMutualWait
<1>1. IndInv => NoMutualWait
  <2> SUFFICES ASSUME IndInv, not_full_cond # {}, not_empty_cond # {},
                      AwakePushers = {}, AwakePoppers = {}
               PROVE  FALSE
    BY DEF NoMutualWait
  <2>1. Len(queue) \in Nat /\ MaxSize \in Nat
    BY LenProperties, MaxSizeAssumption DEF IndInv, TypeOK
  <2>2. Len(queue) <= 0 /\ MaxSize <= Len(queue)
    BY <2>1, FS_EmptySet DEF IndInv, NoLostItemWakeup, NoLostRoomWakeup
  <2>3. MaxSize # 0
    BY DEF IndInv, WaitSetsOK
  <2> QED
    BY <2>1, <2>2, <2>3
<1> QED
  BY <1>1, Invariance, PTL

\* notifyOne() in each push and each pop is enough: no item waits for a sleeping pop,
\* and no free slot for a sleeping push, without an awake thread that will test the
\* queue, and the two kinds never sleep together.
THEOREM NoLostWakeups == Spec => []NoLostWakeup
  BY Invariance, NoDeadlock, PTL DEF IndInv, NoLostWakeup

-----------------------------------------------------------------------------
(* Refinement *)

\* The locking code implements BoundedFifo: every step of concurrent_queue.h is
\* a step of the abstract queue or leaves it unchanged.
THEOREM Refinement == Spec => ImplementsFifo
<1>1. Init => Fifo!Init
  BY DEF Init, Fifo!Init, phase
<1>2. TypeOK /\ [Next]_vars => [Fifo!Next]_(Fifo!vars)
  <2> SUFFICES ASSUME TypeOK, [Next]_vars
               PROVE  [Fifo!Next]_(Fifo!vars)
    OBVIOUS
  <2> USE DEF Fifo!vars
  <2>1. CASE UNCHANGED vars
    BY <2>1 DEF vars, phase
  <2>2. ASSUME NEW t \in Threads, NEW o \in Ops, Call(t, o)
        PROVE  Fifo!Next
    <3>1. Fifo!Call(t, o)
      BY <2>2 DEF Call, Fifo!Call, phase, TypeOK
    <3> QED
      BY <3>1 DEF Fifo!Next, Ops, PushOps, PopOps, Fifo!Ops
  <2>3. ASSUME NEW t \in Threads, Lock(t) PROVE UNCHANGED Fifo!vars
    BY <2>3 DEF Lock, phase, TypeOK
  <2>4. ASSUME NEW t \in Threads, WaitNotFull(t) \/ WaitNotEmpty(t)
        PROVE  UNCHANGED Fifo!vars
    BY <2>4 DEF WaitNotFull, WaitNotEmpty, Wait, phase, TypeOK
  <2>5. ASSUME NEW t \in Threads, PushBack(t) PROVE Fifo!Next
    <3>1. Fifo!Enqueue(t)
      BY <2>5 DEF PushBack, Finish, Fifo!Enqueue, Fifo!TakeEffect,
                  Fifo!IsFull, fullNoLock, phase, TypeOK
    <3> QED
      BY <3>1 DEF Fifo!Next
  <2>6. ASSUME NEW t \in Threads, PopFront(t) PROVE Fifo!Next
    <3>1. Fifo!Dequeue(t)
      BY <2>6 DEF PopFront, Finish, Fifo!Dequeue, Fifo!TakeEffect, phase, TypeOK
    <3> QED
      BY <3>1 DEF Fifo!Next
  <2>7. ASSUME NEW t \in Threads, PeekFront(t) PROVE Fifo!Next
    <3>1. Fifo!Look(t)
      BY <2>7 DEF PeekFront, Finish, Fifo!Look, Fifo!TakeEffect, phase, TypeOK
    <3> QED
      BY <3>1 DEF Fifo!Next
  <2>8. ASSUME NEW t \in Threads, Refuse(t) PROVE Fifo!Next
    <3>1. Fifo!Refuse(t)
      BY <2>8 DEF Refuse, Finish, Fifo!Refuse, Fifo!TakeEffect, Fifo!IsFull,
                  fullNoLock, phase, TypeOK
    <3> QED
      BY <3>1 DEF Fifo!Next
  <2>9. ASSUME NEW t \in Threads, Unlock(t) PROVE Fifo!Next
    <3>1. Fifo!Return(t)
      BY <2>9 DEF Unlock, Fifo!Return, phase, TypeOK
    <3> QED
      BY <3>1 DEF Fifo!Next
  <2>10. ASSUME NEW t \in Threads, SpuriousWakeup(t) PROVE UNCHANGED Fifo!vars
    BY <2>10 DEF SpuriousWakeup, phase
  <2> QED
    BY <2>1, <2>2, <2>3, <2>4, <2>5, <2>6, <2>7, <2>8, <2>9, <2>10
    DEF Next, Step
<1> QED
  BY <1>1, <1>2, TypeCorrect, PTL DEF Spec, ImplementsFifo, Fifo!Spec
=============================================================================
