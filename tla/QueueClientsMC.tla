--------------------------- MODULE QueueClientsMC ---------------------------
(***************************************************************************)
(* The two clients of ConcurrentQueue, one at a time: subject says which   *)
(* one a behaviour is about.  The log has two workers, w1 before w2.       *)
(***************************************************************************)
EXTENDS MessageQueue, LogAsyncSink

CONSTANTS w1, w2

TwoWorkers == {w1, w2, log_thread_}
LinesLogged == [w \in {w1, w2} |-> IF w = w1 THEN 2 ELSE 1]
Earlier(v, w) == v = w1 /\ w = w2

VARIABLE subject    \* "messages" or "log"

ClientsInit ==
    /\ subject \in {"messages", "log"}
    /\ Init
    /\ SinkInit

ClientsNext ==
    /\ UNCHANGED subject
    /\ \/ subject = "messages" /\ Next /\ UNCHANGED sinkVars
       \/ subject = "log" /\ SinkNext /\ UNCHANGED vars

\* The scheduler runs every thread that is not blocked.
ClientsSpec ==
    /\ ClientsInit
    /\ [][ClientsNext]_<<subject, vars, sinkVars>>
    /\ WF_vars(subject = "messages" /\ IOThread)
    /\ \A p \in Producers : WF_vars(subject = "messages" /\ Produce(p))
    /\ WF_sinkVars(subject = "log" /\ (logThreadFunc \/ Destructor))
    /\ \A w \in Workers : WF_sinkVars(subject = "log" /\ (log(w) \/ workerEnds(w)))
    /\ \A c \in Workers \cup {Main} : WF_sinkVars(subject = "log" /\ joinStep(c))

AllPopped ==
    \A p \in Producers :
        \E i \in DOMAIN delivered : delivered[i] = <<p, MessageBound>>

\* Every message pushed is eventually popped by the client of MessageQueue, though
\* bytes of the pipe are dropped and the client stops early.
AllDelivered == subject = "messages" ~> AllPopped
=============================================================================
