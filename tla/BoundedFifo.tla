---------------------------- MODULE BoundedFifo ----------------------------
(***************************************************************************)
(* What ConcurrentQueue<T> promises its callers: a first-in first-out      *)
(* queue of at most MaxSize items (0: no limit) on which every operation   *)
(* takes effect at one instant between its call and its return.  push and  *)
(* pop take effect only when there is room, or an item; the other          *)
(* operations take effect in any state and report a refusal.  Mutexes and  *)
(* condition variables do not appear here.                                 *)
(***************************************************************************)
EXTENDS Naturals, Sequences

CONSTANTS
    Threads,        \* the threads that share the queue
    Items,          \* what can be pushed
    NoItem,         \* the item of an operation that has none
    MaxSize         \* max_size_, 0 for an unbounded queue

VARIABLES
    fifo,           \* the items, oldest first
    phase,          \* per thread: "idle", "pending" or "done"
    op,             \* per thread: the operation last called
    ret             \* per thread: the result last returned

vars == <<fifo, phase, op, ret>>

Ops == [name : {"push", "pushIfNotFull"}, item : Items]
       \cup [name : {"pop", "popIfNotEmpty", "peek"}, item : {NoItem}]

Rets == [ok : BOOLEAN, item : Items \cup {NoItem}]

IsFull == MaxSize # 0 /\ Len(fifo) >= MaxSize

Init ==
    /\ fifo = <<>>
    /\ phase = [t \in Threads |-> "idle"]
    /\ op = [t \in Threads |-> [name |-> "peek", item |-> NoItem]]
    /\ ret = [t \in Threads |-> [ok |-> FALSE, item |-> NoItem]]

Call(t, o) ==
    /\ phase[t] = "idle"
    /\ phase' = [phase EXCEPT ![t] = "pending"]
    /\ op' = [op EXCEPT ![t] = o]
    /\ UNCHANGED <<fifo, ret>>

TakeEffect(t, r) ==
    /\ phase[t] = "pending"
    /\ phase' = [phase EXCEPT ![t] = "done"]
    /\ ret' = [ret EXCEPT ![t] = r]
    /\ UNCHANGED op

Enqueue(t) ==
    /\ op[t].name \in {"push", "pushIfNotFull"}
    /\ ~IsFull
    /\ fifo' = Append(fifo, op[t].item)
    /\ TakeEffect(t, [ok |-> TRUE, item |-> NoItem])

Dequeue(t) ==
    /\ op[t].name \in {"pop", "popIfNotEmpty"}
    /\ fifo # <<>>
    /\ fifo' = Tail(fifo)
    /\ TakeEffect(t, [ok |-> TRUE, item |-> Head(fifo)])

Look(t) ==
    /\ op[t].name = "peek"
    /\ fifo # <<>>
    /\ TakeEffect(t, [ok |-> TRUE, item |-> Head(fifo)])
    /\ UNCHANGED fifo

Refuse(t) ==
    /\ \/ op[t].name = "pushIfNotFull" /\ IsFull
       \/ op[t].name \in {"popIfNotEmpty", "peek"} /\ fifo = <<>>
    /\ TakeEffect(t, [ok |-> FALSE, item |-> NoItem])
    /\ UNCHANGED fifo

Return(t) ==
    /\ phase[t] = "done"
    /\ phase' = [phase EXCEPT ![t] = "idle"]
    /\ UNCHANGED <<fifo, op, ret>>

Next ==
    \E t \in Threads :
        \/ \E o \in Ops : Call(t, o)
        \/ Enqueue(t)
        \/ Dequeue(t)
        \/ Look(t)
        \/ Refuse(t)
        \/ Return(t)

Spec == Init /\ [][Next]_vars
=============================================================================
