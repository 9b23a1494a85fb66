-------------------------- MODULE ConcurrentQueue --------------------------
(***************************************************************************)
(* concurrent_queue.h: a queue protected by one mutex and two condition    *)
(* variables.  Every operation constructs a LockGuard, so it runs Lock,    *)
(* its body, and Unlock in the guard's destructor; push and pop re-test    *)
(* their condition in a loop around ConditionVariable::wait.               *)
(*                                                                         *)
(* wait() releases the mutex and enters the wait set in one step, and      *)
(* takes the mutex again before it returns.  notifyOne() removes one       *)
(* waiter from the wait set, if there is one; a waiter may also leave the  *)
(* wait set on its own (a spurious wakeup of pthread_cond_wait).           *)
(***************************************************************************)
EXTENDS Naturals, Sequences, FiniteSets

CONSTANTS
    Threads,        \* the threads that share the queue
    Items,          \* what can be pushed
    NoItem,         \* the item of an operation that has none
    NoThread,       \* the owner of a free mutex
    MaxSize         \* max_size_, 0 for an unbounded queue

ASSUME ThreadsAssumption == IsFiniteSet(Threads) /\ NoThread \notin Threads
ASSUME MaxSizeAssumption == MaxSize \in Nat

VARIABLES
    queue,          \* queue_
    data_mutex,     \* the thread that owns data_mutex_, or NoThread
    not_full_cond,  \* the threads waiting on not_full_cond_
    not_empty_cond, \* the threads waiting on not_empty_cond_
    pc,             \* where each thread is in its operation
    op,             \* the operation each thread last called
    ret             \* what each thread's last operation returned

vars == <<queue, data_mutex, not_full_cond, not_empty_cond, pc, op, ret>>

-----------------------------------------------------------------------------
PushOps == [name : {"push", "pushIfNotFull"}, item : Items]
PopOps == [name : {"pop", "popIfNotEmpty", "peek"}, item : {NoItem}]
Ops == PushOps \cup PopOps
Rets == [ok : BOOLEAN, item : Items \cup {NoItem}]

fullNoLock == MaxSize # 0 /\ Len(queue) >= MaxSize

Init ==
    /\ queue = <<>>
    /\ data_mutex = NoThread
    /\ not_full_cond = {}
    /\ not_empty_cond = {}
    /\ pc = [t \in Threads |-> "idle"]
    /\ op = [t \in Threads |-> [name |-> "peek", item |-> NoItem]]
    /\ ret = [t \in Threads |-> [ok |-> FALSE, item |-> NoItem]]

Call(t, o) ==
    /\ pc[t] = "idle"
    /\ pc' = [pc EXCEPT ![t] = "lock"]
    /\ op' = [op EXCEPT ![t] = o]
    /\ UNCHANGED <<queue, data_mutex, not_full_cond, not_empty_cond, ret>>

\* LockGuard's constructor, and the return from wait() of a thread that has
\* left the wait set.
Lock(t) ==
    /\ \/ pc[t] = "lock"
       \/ pc[t] = "waiting" /\ t \notin not_full_cond \cup not_empty_cond
    /\ data_mutex = NoThread
    /\ data_mutex' = t
    /\ pc' = [pc EXCEPT ![t] = "locked"]
    /\ UNCHANGED <<queue, not_full_cond, not_empty_cond, op, ret>>

\* ConditionVariable::wait: the mutex is released as the thread starts waiting.
Wait(t) ==
    /\ data_mutex' = NoThread
    /\ pc' = [pc EXCEPT ![t] = "waiting"]
    /\ UNCHANGED <<queue, op, ret>>

WaitNotFull(t) ==
    /\ pc[t] = "locked"
    /\ op[t].name = "push"
    /\ fullNoLock
    /\ not_full_cond' = not_full_cond \cup {t}
    /\ UNCHANGED not_empty_cond
    /\ Wait(t)

WaitNotEmpty(t) ==
    /\ pc[t] = "locked"
    /\ op[t].name = "pop"
    /\ queue = <<>>
    /\ not_empty_cond' = not_empty_cond \cup {t}
    /\ UNCHANGED not_full_cond
    /\ Wait(t)

\* The wait sets one notifyOne() can leave behind.
NotifyOne(cond) == IF cond = {} THEN {cond} ELSE {cond \ {w} : w \in cond}

\* The body of an operation ends and its result is fixed; the mutex is still
\* held until the guard is destroyed.
Finish(t, r) ==
    /\ pc' = [pc EXCEPT ![t] = "unlock"]
    /\ ret' = [ret EXCEPT ![t] = r]
    /\ UNCHANGED <<data_mutex, op>>

\* (mutant) a waiter is only notified when the queue was empty.
PushBackNotifyIfEmpty(t) ==
    /\ pc[t] = "locked"
    /\ op[t].name \in {"push", "pushIfNotFull"}
    /\ ~fullNoLock
    /\ queue' = Append(queue, op[t].item)
    /\ not_empty_cond' \in IF queue = <<>> THEN NotifyOne(not_empty_cond)
                           ELSE {not_empty_cond}
    /\ UNCHANGED not_full_cond
    /\ Finish(t, [ok |-> TRUE, item |-> NoItem])

\* push and pushIfNotFull when there is room.
PushBack(t) ==
    /\ pc[t] = "locked"
    /\ op[t].name \in {"push", "pushIfNotFull"}
    /\ ~fullNoLock
    /\ queue' = Append(queue, op[t].item)
    /\ not_empty_cond' \in NotifyOne(not_empty_cond)
    /\ UNCHANGED not_full_cond
    /\ Finish(t, [ok |-> TRUE, item |-> NoItem])

\* (mutants) the newest item is popped; the wrong condition variable is notified.
PopBack(t) ==
    /\ pc[t] = "locked"
    /\ op[t].name \in {"pop", "popIfNotEmpty"}
    /\ queue # <<>>
    /\ queue' = SubSeq(queue, 1, Len(queue) - 1)
    /\ not_full_cond' \in NotifyOne(not_full_cond)
    /\ UNCHANGED not_empty_cond
    /\ Finish(t, [ok |-> TRUE, item |-> queue[Len(queue)]])

PopFrontNotifyPoppers(t) ==
    /\ pc[t] = "locked"
    /\ op[t].name \in {"pop", "popIfNotEmpty"}
    /\ queue # <<>>
    /\ queue' = Tail(queue)
    /\ not_empty_cond' \in NotifyOne(not_empty_cond)
    /\ UNCHANGED not_full_cond
    /\ Finish(t, [ok |-> TRUE, item |-> Head(queue)])

\* pop and popIfNotEmpty when there is an item.
PopFront(t) ==
    /\ pc[t] = "locked"
    /\ op[t].name \in {"pop", "popIfNotEmpty"}
    /\ queue # <<>>
    /\ queue' = Tail(queue)
    /\ not_full_cond' \in NotifyOne(not_full_cond)
    /\ UNCHANGED not_empty_cond
    /\ Finish(t, [ok |-> TRUE, item |-> Head(queue)])

PeekFront(t) ==
    /\ pc[t] = "locked"
    /\ op[t].name = "peek"
    /\ queue # <<>>
    /\ UNCHANGED <<queue, not_full_cond, not_empty_cond>>
    /\ Finish(t, [ok |-> TRUE, item |-> Head(queue)])

\* The "return false" of pushIfNotFull, popIfNotEmpty and peek.
Refuse(t) ==
    /\ pc[t] = "locked"
    /\ \/ op[t].name = "pushIfNotFull" /\ fullNoLock
       \/ op[t].name \in {"popIfNotEmpty", "peek"} /\ queue = <<>>
    /\ UNCHANGED <<queue, not_full_cond, not_empty_cond>>
    /\ Finish(t, [ok |-> FALSE, item |-> NoItem])

\* LockGuard's destructor; the call returns.
Unlock(t) ==
    /\ pc[t] = "unlock"
    /\ data_mutex' = NoThread
    /\ pc' = [pc EXCEPT ![t] = "idle"]
    /\ UNCHANGED <<queue, not_full_cond, not_empty_cond, op, ret>>

\* pthread_cond_wait may return without a signal.
SpuriousWakeup(t) ==
    /\ t \in not_full_cond \cup not_empty_cond
    /\ not_full_cond' = not_full_cond \ {t}
    /\ not_empty_cond' = not_empty_cond \ {t}
    /\ UNCHANGED <<queue, data_mutex, pc, op, ret>>

\* The steps a thread takes once it has called an operation.
Step(t) ==
    \/ Lock(t)
    \/ WaitNotFull(t)
    \/ WaitNotEmpty(t)
    \/ PushBack(t)
    \/ PopFront(t)
    \/ PeekFront(t)
    \/ Refuse(t)
    \/ Unlock(t)

Next ==
    \E t \in Threads :
        \/ \E o \in Ops : Call(t, o)
        \/ Step(t)
        \/ SpuriousWakeup(t)

Spec == Init /\ [][Next]_vars

-----------------------------------------------------------------------------
(* Properties *)

\* Every variable keeps its type (members of ConcurrentQueue, thread states).
TypeOK ==
    /\ queue \in Seq(Items)
    /\ data_mutex \in Threads \cup {NoThread}
    /\ not_full_cond \in SUBSET Threads
    /\ not_empty_cond \in SUBSET Threads
    /\ pc \in [Threads -> {"idle", "lock", "locked", "waiting", "unlock"}]
    /\ op \in [Threads -> Ops]
    /\ ret \in [Threads -> Rets]

\* data_mutex_ excludes: a thread is inside an operation's body exactly when it
\* owns the mutex, so two bodies never overlap (concurrent_queue.h LockGuard).
MutualExclusion ==
    \A t \in Threads : pc[t] \in {"locked", "unlock"} <=> data_mutex = t

\* Only threads blocked in push wait for room, and only in a bounded queue; only
\* threads blocked in pop wait for an item (each loop waits on its own condition
\* variable).
WaitSetsOK ==
    /\ \A t \in not_full_cond : pc[t] = "waiting" /\ op[t].name = "push"
    /\ \A t \in not_empty_cond : pc[t] = "waiting" /\ op[t].name = "pop"
    /\ \A t \in Threads : pc[t] = "waiting" => op[t].name \in {"push", "pop"}
    /\ MaxSize = 0 => not_full_cond = {}

\* Threads in push (pop) that will test the loop condition without any further
\* notification: already holding the mutex, or woken and about to take it.
AwakePushers ==
    {t \in Threads : /\ op[t].name = "push"
                     /\ \/ pc[t] = "locked"
                        \/ pc[t] = "waiting" /\ t \notin not_full_cond}
AwakePoppers ==
    {t \in Threads : /\ op[t].name = "pop"
                     /\ \/ pc[t] = "locked"
                        \/ pc[t] = "waiting" /\ t \notin not_empty_cond}

\* max_size_ is a real limit under every interleaving of push, pushIfNotFull
\* and the pops (the test and the push_back are one critical section).
NeverOverfull == MaxSize # 0 => Len(queue) <= MaxSize

\* notifyOne() never loses a wakeup for pop: while a thread sleeps on
\* not_empty_cond_, every item in the queue has an awake thread in pop that
\* was sent for it and has not tested the queue yet.
NoLostItemWakeup ==
    not_empty_cond # {} => Len(queue) <= Cardinality(AwakePoppers)

\* The same for push: while a thread sleeps on not_full_cond_, every free slot
\* has an awake thread in push.
NoLostRoomWakeup ==
    not_full_cond # {} => MaxSize <= Len(queue) + Cardinality(AwakePushers)

\* Everyone waiting on everyone cannot happen: when a thread sleeps in push and
\* another sleeps in pop, some thread in push or pop is awake.
NoMutualWait ==
    not_full_cond # {} /\ not_empty_cond # {} =>
        AwakePushers \cup AwakePoppers # {}

\* However pushes and pops of several threads interleave, no wakeup is lost, of a
\* consumer or of a producer, and they never all sleep.
NoLostWakeup == NoLostItemWakeup /\ NoLostRoomWakeup /\ NoMutualWait

\* The inductive invariant behind the wakeup and mutual-wait properties.
IndInv ==
    /\ TypeOK
    /\ MutualExclusion
    /\ WaitSetsOK
    /\ NeverOverfull
    /\ NoLostItemWakeup
    /\ NoLostRoomWakeup

-----------------------------------------------------------------------------
(* Refinement: the queue is a BoundedFifo whose operations take effect where
   their body runs. *)

phase ==
    [t \in Threads |->
        IF pc[t] = "idle" THEN "idle"
        ELSE IF pc[t] = "unlock" THEN "done" ELSE "pending"]

Fifo == INSTANCE BoundedFifo WITH fifo <- queue

\* Every behaviour of the locking code is a behaviour of BoundedFifo: each
\* operation takes effect once, between its call and its return, on the oldest
\* item or the free end, and pushIfNotFull, popIfNotEmpty and peek refuse only
\* when the queue is full or empty at that instant.
ImplementsFifo == Fifo!Spec
=============================================================================
