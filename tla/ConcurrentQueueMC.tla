------------------------- MODULE ConcurrentQueueMC -------------------------
(***************************************************************************)
(* ConcurrentQueue with a finite workload.  Script[t] is the sequence of   *)
(* calls thread t makes: at each position the set of operations it may     *)
(* choose from.  SpuriousBound caps the spurious wakeups of a behaviour.   *)
(***************************************************************************)
EXTENDS ConcurrentQueue, TLC

CONSTANTS Script, SpuriousBound

VARIABLES calls, spurious

mcVars == <<vars, calls, spurious>>

MCInit ==
    /\ Init
    /\ calls = [t \in Threads |-> 0]
    /\ spurious = 0

CallScripted(t) ==
    /\ calls[t] < Len(Script[t])
    /\ \E o \in Script[t][calls[t] + 1] : Call(t, o)
    /\ calls' = [calls EXCEPT ![t] = @ + 1]
    /\ UNCHANGED spurious

SpuriousBounded(t) ==
    /\ spurious < SpuriousBound
    /\ SpuriousWakeup(t)
    /\ spurious' = spurious + 1
    /\ UNCHANGED calls

MCNext ==
    \E t \in Threads :
        \/ CallScripted(t)
        \/ Step(t) /\ UNCHANGED <<calls, spurious>>
        \/ SpuriousBounded(t)

MCSpec == MCInit /\ [][MCNext]_mcVars

\* The operating system schedules every runnable thread: a thread whose next
\* step stays possible takes it.  Nothing is assumed about which of several
\* threads gets the mutex.
MCFairSpec ==
    /\ MCSpec
    /\ \A t \in Threads :
        /\ WF_mcVars(CallScripted(t))
        /\ WF_mcVars(Step(t) /\ UNCHANGED <<calls, spurious>>)

\* A call blocks for ever only on a queue that is of no use to it: in pop when
\* the queue stays empty, in push when it stays full.  A lost or misdirected
\* notifyOne() would strand a thread beside an item or a free slot.
StrandedOnlyInVain ==
    \A t \in Threads :
        /\ <>[](pc[t] = "waiting" /\ op[t].name = "pop") => <>[](queue = <<>>)
        /\ <>[](pc[t] = "waiting" /\ op[t].name = "push") => <>[]fullNoLock

-----------------------------------------------------------------------------
(* The workload *)

CONSTANTS t1, t2, t3, t4, a, b

PushItem(i) == [name |-> "push", item |-> i]
TryPushItem(i) == [name |-> "pushIfNotFull", item |-> i]
PopItem == [name |-> "pop", item |-> NoItem]
TryPopItem == [name |-> "popIfNotEmpty", item |-> NoItem]

\* Enough pushes to fill a queue of two and leave one waiting, enough pops to
\* empty it again and leave one waiting, two consumers asleep at once, and every
\* operation that does not block among them.
MixedScript ==
    t1 :> <<{PushItem(a), TryPushItem(a)}, {PushItem(b)}, PopOps>>
    @@ t2 :> <<{PushItem(b), PopItem, TryPopItem}, {PopItem, PushItem(a)}>>
    @@ t3 :> <<PopOps, {PopItem, TryPushItem(a)}>>
    @@ t4 :> <<{PopItem, PushItem(b)}>>
=============================================================================
