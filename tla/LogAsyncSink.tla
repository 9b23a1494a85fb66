---------------------------- MODULE LogAsyncSink ----------------------------
(***************************************************************************)
(* log_async_sink.cc with the ObjectPool, ConcurrentQueue and Thread it is *)
(* made of: worker threads log lines into a bounded queue, the logging     *)
(* thread writes them to the adapted sink, and the destructor waits for it *)
(* behind a null buffer.                                                   *)
(*                                                                         *)
(* The queue is the atomic bounded one that ConcurrentQueue implements;    *)
(* Threads are those of module Thread, here the workers of a program and   *)
(* log_thread_.  A buffer is a number; what it holds is a line.            *)
(***************************************************************************)
EXTENDS Thread, Sequences, SequencesExt

CONSTANTS
    log_thread_,    \* the Thread member of the sink; the others are workers
    Lines,          \* how many lines each worker logs
    QueueSize       \* queue_size

ASSUME LogThreadAssumption ==
    /\ log_thread_ \in Threads
    /\ Lines \in [Threads \ {log_thread_} -> Nat]

Workers == Threads \ {log_thread_}
nullptr == 0
NoLine == <<>>

VARIABLES
    reused_object_list_,            \* pool_: buffers to use again
    created,                        \* buffers made by new
    content,                        \* buffer -> its line, or NoLine
    queue_,                         \* buffers, and the null that ends it
    doing,                             \* where each thread is
    held,                           \* the buffer it holds, or nullptr
    logged,                         \* lines each worker has logged
    written,                        \* what adapted_sink_ was given
    sink                            \* "open", "pushed", "joined", "deleted"

bufferVars == <<reused_object_list_, created, content, queue_>>
logVars == <<bufferVars, doing, held, logged, written, sink>>
sinkVars == <<threadVars, logVars>>

Go(t, to) == doing' = [doing EXCEPT ![t] = to]
Hold(t, b) == held' = [held EXCEPT ![t] = b]

\* The constructor has run: log_thread_ is started.
SinkInit ==
    /\ ThreadInit
    /\ reused_object_list_ = <<>>
    /\ created = 0
    /\ content = <<>>
    /\ queue_ = <<>>
    /\ doing = [t \in Threads |-> "idle"]
    /\ held = [t \in Threads |-> nullptr]
    /\ logged = [w \in Workers |-> 0]
    /\ written = <<>>
    /\ sink = "none"

Construct ==
    /\ sink = "none"
    /\ sink' = "open"
    /\ start(Main, log_thread_)
    /\ UNCHANGED <<bufferVars, doing, held, logged, written>>

-----------------------------------------------------------------------------
(* log(), on a worker *)

\* getObject() under pool_mutex_: the buffer returned last, or a new one. The line
\* is added to what the buffer, now the thread's own, holds.
GetObject(w) ==
    /\ Free(w) /\ doing[w] = "idle" /\ logged[w] < Lines[w]
    /\ LET line == <<w, logged[w] + 1>>
       IN  IF reused_object_list_ # <<>>
           THEN /\ Hold(w, Last(reused_object_list_))
                /\ reused_object_list_' = Front(reused_object_list_)
                /\ content' = [content EXCEPT ![Last(reused_object_list_)] = @ \o line]
                /\ UNCHANGED created
           ELSE /\ Hold(w, created + 1)
                /\ created' = created + 1
                /\ content' = Append(content, line)
                /\ UNCHANGED reused_object_list_
    /\ Go(w, "push")
    /\ UNCHANGED <<threadVars, queue_, logged, written, sink>>

\* (mutant) the thread still owns what it has pushed
PushNoRelease(w) ==
    /\ doing[w] = "push"
    /\ Len(queue_) < QueueSize
    /\ queue_' = Append(queue_, held[w])
    /\ logged' = [logged EXCEPT ![w] = @ + 1]
    /\ Go(w, "idle")
    /\ UNCHANGED <<threadVars, reused_object_list_, created, content, held, written, sink>>

\* queue_.push waits for room.
Push(w) ==
    /\ doing[w] = "push"
    /\ Len(queue_) < QueueSize
    /\ queue_' = Append(queue_, held[w])
    /\ logged' = [logged EXCEPT ![w] = @ + 1]
    /\ Hold(w, nullptr)
    /\ Go(w, "idle")
    /\ UNCHANGED <<threadVars, reused_object_list_, created, content, written, sink>>

log(w) == GetObject(w) \/ Push(w)

-----------------------------------------------------------------------------
(* logThreadFunc() *)

Pop ==
    /\ os[log_thread_] = "running" /\ doing[log_thread_] = "idle"
    /\ queue_ # <<>>
    /\ queue_' = Tail(queue_)
    /\ Hold(log_thread_, Head(queue_))
    /\ Go(log_thread_, IF Head(queue_) = nullptr THEN "ending" ELSE "write")
    /\ UNCHANGED <<threadVars, reused_object_list_, created, content, logged, written,
                   sink>>

\* (mutant) the buffer is not read empty before it is used again
WriteKeeps ==
    /\ doing[log_thread_] = "write"
    /\ written' = Append(written, content[held[log_thread_]])
    /\ Go(log_thread_, "return")
    /\ UNCHANGED <<threadVars, bufferVars, held, logged, sink>>

\* The line goes to the adapted sink and out of the buffer.
Write ==
    /\ doing[log_thread_] = "write"
    /\ written' = Append(written, content[held[log_thread_]])
    /\ content' = [content EXCEPT ![held[log_thread_]] = NoLine]
    /\ Go(log_thread_, "return")
    /\ UNCHANGED <<threadVars, reused_object_list_, created, queue_, held, logged, sink>>

\* returnObject() under pool_mutex_.
ReturnObject ==
    /\ doing[log_thread_] = "return"
    /\ reused_object_list_' = Append(reused_object_list_, held[log_thread_])
    /\ Hold(log_thread_, nullptr)
    /\ Go(log_thread_, "idle")
    /\ UNCHANGED <<threadVars, created, content, queue_, logged, written, sink>>

logThreadEnds ==
    /\ doing[log_thread_] = "ending"
    /\ Finish(log_thread_)
    /\ Go(log_thread_, "ended")
    /\ UNCHANGED <<bufferVars, held, logged, written, sink>>

logThreadFunc == Pop \/ Write \/ ReturnObject \/ logThreadEnds

-----------------------------------------------------------------------------
(* The destructor, called when no worker logs any more *)

\* (mutant) the end mark is forgotten
PushNothing ==
    /\ sink = "open"
    /\ Free(Main)
    /\ \A w \in Workers : os[w] # "running"
    /\ sink' = "pushed"
    /\ UNCHANGED <<threadVars, bufferVars, doing, held, logged, written>>

PushNull ==
    /\ sink = "open"
    /\ Free(Main)
    /\ \A w \in Workers : os[w] # "running"
    /\ Len(queue_) < QueueSize
    /\ queue_' = Append(queue_, nullptr)
    /\ sink' = "pushed"
    /\ UNCHANGED <<threadVars, reused_object_list_, created, content, doing, held, logged,
                   written>>

\* (mutant) the destructor does not wait
NoJoin ==
    /\ sink = "pushed"
    /\ sink' = "joining"
    /\ UNCHANGED <<threadVars, bufferVars, doing, held, logged, written>>

JoinLogThread ==
    /\ sink = "pushed"
    /\ join(Main, log_thread_)
    /\ sink' = "joining"
    /\ UNCHANGED <<bufferVars, doing, held, logged, written>>

\* adapted_sink_ is deleted, then the members: the pool with its buffers, the
\* queue, and log_thread_.
DeleteMembers ==
    /\ sink = "joining"
    /\ destroy(Main, log_thread_)
    /\ sink' = "deleted"
    /\ UNCHANGED <<bufferVars, doing, held, logged, written>>

Destructor == PushNull \/ JoinLogThread \/ DeleteMembers

-----------------------------------------------------------------------------
(* The program: main() starts, joins, detaches and destroys the workers; a  *)
(* worker joins workers that come before it, so that none wait in a circle. *)

CONSTANT Before(_, _)   \* an order on Workers

\* The function of a worker returns when all is logged.
workerEnds(w) ==
    /\ doing[w] = "idle" /\ logged[w] = Lines[w]
    /\ Finish(w)
    /\ UNCHANGED logVars

startWorker(w) == sink = "open" /\ start(Main, w) /\ UNCHANGED logVars

joinWorker(c, w) ==
    /\ c \in Workers => logged[c] = Lines[c] /\ (Before(w, c) \/ w = c)
    /\ sink = "open"
    /\ join(c, w)
    /\ UNCHANGED logVars

joinStep(c) == JoinStep(c) /\ UNCHANGED logVars

wakeup(c) == SpuriousWakeup(c) /\ UNCHANGED logVars

detachWorker(w) == sink = "open" /\ detach(Main, w) /\ UNCHANGED logVars

destroyWorker(w) == sink = "open" /\ destroy(Main, w) /\ UNCHANGED logVars

SinkNext ==
    \/ Construct
    \/ \E w \in Workers : log(w) \/ workerEnds(w) \/ startWorker(w)
    \/ logThreadFunc
    \/ Destructor
    \/ \E c \in Workers \cup {Main}, w \in Workers : joinWorker(c, w)
    \/ \E c \in Workers \cup {Main} : joinStep(c) \/ wakeup(c)
    \/ \E w \in Workers : detachWorker(w) \/ destroyWorker(w)

SinkSpec == SinkInit /\ [][SinkNext]_sinkVars

-----------------------------------------------------------------------------
(* Properties *)

\* Each line reaches the adapted sink whole and once, the lines of a thread in the
\* order in which it logged them and without a gap, whichever buffers they
\* travelled in.
LinesInOrder ==
    /\ \A i \in DOMAIN written :
        \E w \in Workers : \E n \in 1..logged[w] : written[i] = <<w, n>>
    /\ \A i, j \in DOMAIN written :
        i < j /\ written[i][1] = written[j][1] => written[i][2] < written[j][2]
    /\ \A j \in DOMAIN written : \A n \in 1..written[j][2] - 1 :
        \E i \in 1..j - 1 : written[i] = <<written[j][1], n>>

\* Where a buffer can be: a slot of the pool or of the queue, or in a thread's hands.
Owners == ({"pool"} \X DOMAIN reused_object_list_) \cup ({"queue"} \X DOMAIN queue_)
          \cup ({"thread"} \X Threads)

OwnedBy(o) == CASE o[1] = "pool" -> reused_object_list_[o[2]]
                [] o[1] = "queue" -> queue_[o[2]]
                [] o[1] = "thread" -> held[o[2]]

\* A buffer has one owner at any time: the pool, the queue, or one thread. So
\* none is leaked, and none is freed or filled by two.
OneOwner ==
    \A b \in 1..created : \E o \in Owners : \A p \in Owners : OwnedBy(p) = b <=> p = o

\* When the members are deleted, the logging thread has ended, every line of every
\* worker has been written, and the pool holds every buffer that it is to free.
NothingLeftBehind ==
    sink = "deleted" =>
        /\ os[log_thread_] = "ended"
        /\ \A w \in Workers : started_[w] =>
            \A n \in 1..Lines[w] : \E i \in DOMAIN written : written[i] = <<w, n>>
        /\ queue_ = <<>>
        /\ \A b \in 1..created :
            \E i \in DOMAIN reused_object_list_ : reused_object_list_[i] = b

\* The destructor ends, and so does every join of the program: nobody sleeps for
\* ever in the queue, in pthread_join or in join_cond_.wait.
CallsReturn ==
    /\ (sink = "pushed") ~> (sink = "deleted")
    /\ \A c \in Workers \cup {Main} :
        (call[c].at \in Joining \cup Waiting) ~> (call[c].at = "joined")
=============================================================================
