---------------------------- MODULE MessageQueue ----------------------------
(***************************************************************************)
(* message_queue.h: producer threads hand messages to the thread that runs *)
(* an IOService.  push() puts the message in a ConcurrentQueue and then    *)
(* writes one byte to a nonblocking self pipe; the I/O thread's epoll_wait *)
(* returns while the pipe holds bytes, and pipeReadCallback() first reads  *)
(* the pipe empty and then runs the client's callback.                     *)
(*                                                                         *)
(* The operations of the ConcurrentQueue are single steps here, which is   *)
(* what ConcurrentQueue!ImplementsFifo establishes.  The client's callback *)
(* (external, as in echo_server2.cc) pops until pop() fails, or stops      *)
(* early and calls yield() to be called again.                             *)
(***************************************************************************)
EXTENDS Integers, Sequences

CONSTANTS
    Producers,      \* the threads that push
    MaxSize,        \* max_size_ of the queue, 0 for no limit
    PipeCapacity,   \* bytes the pipe can hold
    ReadSize,       \* size of pipeReadCallback's buffer
    MessageBound    \* messages each producer pushes

ASSUME CapacityAssumption ==
    /\ MaxSize \in Nat
    /\ PipeCapacity \in Nat \ {0}
    /\ ReadSize \in Nat \ {0}
    /\ MessageBound \in Nat

VARIABLES
    queue,          \* queue_: messages <<producer, number>>
    pipe,           \* bytes in the pipe
    sent,           \* per producer: messages put in the queue so far
    pc,             \* per producer: "idle", or "pushed" before pipe_.write
    io,             \* the I/O thread: "poll", "drain", "pop" (in the client's
                    \* callback), "more" (it has popped) or "yield"
    delivered       \* messages the client has popped, in order

vars == <<queue, pipe, sent, pc, io, delivered>>

Messages == Producers \X Nat

Init ==
    /\ queue = <<>>
    /\ pipe = 0
    /\ sent = [p \in Producers |-> 0]
    /\ pc = [p \in Producers |-> "idle"]
    /\ io = "poll"
    /\ delivered = <<>>

Full == MaxSize # 0 /\ Len(queue) >= MaxSize

\* SelfPipe::write of one byte: fails with EAGAIN on a full pipe, and the
\* caller ignores that.
WritePipe == pipe' = IF pipe < PipeCapacity THEN pipe + 1 ELSE pipe

\* push(): queue_.push(item), which waits while the queue is full.
QueuePush(p) ==
    /\ pc[p] = "idle"
    /\ sent[p] < MessageBound
    /\ ~Full
    /\ queue' = Append(queue, <<p, sent[p] + 1>>)
    /\ sent' = [sent EXCEPT ![p] = @ + 1]
    /\ pc' = [pc EXCEPT ![p] = "pushed"]
    /\ UNCHANGED <<pipe, io, delivered>>

\* (mutant) a byte is saved when the queue holds more than one message
PipeWriteIfFirst(p) ==
    /\ pc[p] = "pushed"
    /\ IF Len(queue) = 1 THEN WritePipe ELSE UNCHANGED pipe
    /\ pc' = [pc EXCEPT ![p] = "idle"]
    /\ UNCHANGED <<queue, sent, io, delivered>>

\* push(): pipe_.write("1", 1).
PipeWrite(p) ==
    /\ pc[p] = "pushed"
    /\ WritePipe
    /\ pc' = [pc EXCEPT ![p] = "idle"]
    /\ UNCHANGED <<queue, sent, io, delivered>>

\* IOService::loop: epoll_wait reports the read end (level triggered).
PollReturns ==
    /\ io = "poll"
    /\ pipe > 0
    /\ io' = "drain"
    /\ UNCHANGED <<queue, pipe, sent, pc, delivered>>

\* pipeReadCallback(): one successful read of up to ReadSize bytes.
DrainRead ==
    /\ io = "drain"
    /\ pipe > 0
    /\ pipe' = IF pipe > ReadSize THEN pipe - ReadSize ELSE 0
    /\ UNCHANGED <<queue, sent, pc, io, delivered>>

\* pipeReadCallback(): read returns EAGAIN and recv_message_cb_ is called.
DrainDone ==
    /\ io = "drain"
    /\ pipe = 0
    /\ io' = "pop"
    /\ UNCHANGED <<queue, pipe, sent, pc, delivered>>

\* (mutant) the message is left in the queue
PopMessagePeeks ==
    /\ io \in {"pop", "more"}
    /\ queue # <<>>
    /\ io' = "more"
    /\ delivered' = Append(delivered, Head(queue))
    /\ UNCHANGED <<queue, pipe, sent, pc>>

\* The client's callback: pop() returns a message.
PopMessage ==
    /\ io \in {"pop", "more"}
    /\ queue # <<>>
    /\ io' = "more"
    /\ delivered' = Append(delivered, Head(queue))
    /\ queue' = Tail(queue)
    /\ UNCHANGED <<pipe, sent, pc>>

\* The client's callback: pop() fails and the callback returns.
PopNothing ==
    /\ io \in {"pop", "more"}
    /\ queue = <<>>
    /\ io' = "poll"
    /\ UNCHANGED <<queue, pipe, sent, pc, delivered>>

\* The client's callback has popped something and decides to go on later.
StopEarly ==
    /\ io = "more"
    /\ io' = "yield"
    /\ UNCHANGED <<queue, pipe, sent, pc, delivered>>

\* (mutant) yield() does nothing
YieldWriteNothing ==
    /\ io = "yield"
    /\ io' = "poll"
    /\ UNCHANGED <<queue, pipe, sent, pc, delivered>>

\* yield(), and the callback returns.
YieldWrite ==
    /\ io = "yield"
    /\ WritePipe
    /\ io' = "poll"
    /\ UNCHANGED <<queue, sent, pc, delivered>>

Produce(p) == QueuePush(p) \/ PipeWrite(p)

IOThread ==
    \/ PollReturns
    \/ DrainRead
    \/ DrainDone
    \/ PopMessage
    \/ PopNothing
    \/ StopEarly
    \/ YieldWrite

Next == IOThread \/ \E p \in Producers : Produce(p)

Spec == Init /\ [][Next]_vars

-----------------------------------------------------------------------------
(* Properties *)

\* The members of MessageQueue and the thread states keep their types.
TypeOK ==
    /\ queue \in Seq(Messages)
    /\ pipe \in 0..PipeCapacity
    /\ sent \in [Producers -> 0..MessageBound]
    /\ pc \in [Producers -> {"idle", "pushed"}]
    /\ io \in {"poll", "drain", "pop", "more", "yield"}
    /\ delivered \in Seq(Messages)

\* No wakeup is lost: when the I/O thread is about to sleep in epoll_wait and the
\* queue is not empty, the pipe holds a byte or a producer is about to write one.
\* This rests on the order "queue, then pipe" in push() and "pipe, then queue"
\* in pipeReadCallback(), and survives the byte dropped by a full pipe.
WakeupPending ==
    io = "poll" /\ queue # <<>> =>
        pipe > 0 \/ \E p \in Producers : pc[p] = "pushed"

\* What has been pushed: first what the client has got, then what is queued.
Stream == delivered \o queue

\* Nothing is in the stream that was not sent.
NothingInvented ==
    \A i \in DOMAIN Stream : Stream[i][2] \in 1..sent[Stream[i][1]]

\* Every message that was sent is in it.
NothingLost ==
    \A p \in Producers : \A n \in 1..sent[p] : \E i \in DOMAIN Stream : Stream[i] = <<p, n>>

\* The messages of a producer come in the order of its calls, none twice.
OncePerMessage ==
    \A i, j \in DOMAIN Stream :
        i < j /\ Stream[i][1] = Stream[j][1] => Stream[i][2] < Stream[j][2]

\* Messages of one producer reach the client in the order they were pushed, none
\* twice, and what is not delivered is still queued.
ExactlyOnceInOrder == NothingInvented /\ NothingLost /\ OncePerMessage
=============================================================================
