------------------------------- MODULE Thread -------------------------------
(***************************************************************************)
(* thread.cc: threads that several others may start, join, detach and      *)
(* destroy.                                                                *)
(*                                                                         *)
(* A Thread object also names the thread of the operating system it starts *)
(* (it starts one at most).  What the code does under data_mutex_ is one   *)
(* step; a join is several, for it waits.                                  *)
(***************************************************************************)
EXTENDS Integers

CONSTANTS
    Threads,        \* Thread objects
    Main,           \* the thread of main()
    Handles         \* what pthread_create can return

ASSUME MainAssumption == Main \notin Threads
ASSUME HandlesAssumption == Handles \subseteq Nat \ {0}

Callers == Threads \cup {Main}
Idle == [at |-> "idle", on |-> Main]

VARIABLES
    started_, join_started_, joined_, thread_handle_,   \* members, by object
    os,             \* the thread in the kernel: "none", "running" or "ended"
    joins,          \* calls of pthread_join that returned, by object
    detaches,       \* calls of pthread_detach, by object
    destroyed,      \* objects whose destructor has run
    call            \* what each caller is doing: [at, on]

memberVars == <<started_, join_started_, joined_, thread_handle_>>
kernelVars == <<os, joins, detaches>>
threadVars == <<memberVars, kernelVars, destroyed, call>>

\* Places in a call: in pthread_join, after it, in join_cond_.wait, notified.
Joining == {"pthread_join", "reaped"}
Waiting == {"waiting", "woken"}
\* How a join ended, kept until the caller's next call.
Ended == {"idle", "joined", "refused"}

Free(c) == call[c].at \in Ended /\ (c \in Threads => os[c] = "running")

Reaped(t) == os[t] = "ended" /\ joins[t] + detaches[t] > 0
\* A handle is used again only when its thread is reaped; handles are numbered
\* by their first use.
HandleFree(h) ==
    /\ \A t \in Threads : thread_handle_[t] = h => Reaped(t)
    /\ \A g \in 1..(h - 1) : \E t \in Threads : thread_handle_[t] = g

ThreadInit ==
    /\ started_ = [t \in Threads |-> FALSE]
    /\ join_started_ = [t \in Threads |-> FALSE]
    /\ joined_ = [t \in Threads |-> FALSE]
    /\ thread_handle_ = [t \in Threads |-> 0]
    /\ os = [t \in Threads |-> "none"]
    /\ joins = [t \in Threads |-> 0]
    /\ detaches = [t \in Threads |-> 0]
    /\ destroyed = {}
    /\ call = [c \in Callers |-> Idle]

\* A second start() throws and changes nothing; so does a failed pthread_create.
start(c, t) ==
    /\ Free(c)
    /\ t \notin destroyed
    /\ ~started_[t]
    /\ \E h \in Handles :
        /\ HandleFree(h)
        /\ thread_handle_' = [thread_handle_ EXCEPT ![t] = h]
    /\ os' = [os EXCEPT ![t] = "running"]
    /\ started_' = [started_ EXCEPT ![t] = TRUE]
    /\ UNCHANGED <<join_started_, joined_, joins, detaches, destroyed, call>>

\* The thread function returns, outside any call.
Finish(t) ==
    /\ Free(t)
    /\ os' = [os EXCEPT ![t] = "ended"]
    /\ UNCHANGED <<memberVars, joins, detaches, destroyed, call>>

\* pthread_equal: the handle of the object, which may have been reaped since,
\* against the handle of the caller.
IsSelf(c, t) == c \in Threads /\ thread_handle_[c] = thread_handle_[t]

JoinBegins(c, t, at) == call' = [call EXCEPT ![c] = [at |-> at, on |-> t]]

\* (mutant) who comes second does not wait
joinTwice(c, t) ==
    /\ Free(c)
    /\ t \notin destroyed
    /\ started_[t] /\ ~IsSelf(c, t)
    /\ join_started_' = [join_started_ EXCEPT ![t] = TRUE]
    /\ JoinBegins(c, t, IF join_started_[t] THEN "joined" ELSE "pthread_join")
    /\ UNCHANGED <<started_, joined_, thread_handle_, kernelVars, destroyed>>

\* The first critical section of join().
join(c, t) ==
    /\ Free(c)
    /\ t \notin destroyed
    /\ \/ /\ ~started_[t] \/ IsSelf(c, t)
          /\ JoinBegins(c, t, "refused")
          /\ UNCHANGED join_started_
       \/ /\ started_[t] /\ ~IsSelf(c, t) /\ ~join_started_[t]
          /\ join_started_' = [join_started_ EXCEPT ![t] = TRUE]
          /\ JoinBegins(c, t, "pthread_join")
       \/ /\ started_[t] /\ ~IsSelf(c, t) /\ join_started_[t]
          /\ JoinBegins(c, t, IF joined_[t] THEN "joined" ELSE "waiting")
          /\ UNCHANGED join_started_
    /\ UNCHANGED <<started_, joined_, thread_handle_, kernelVars, destroyed>>

PthreadJoin(c) ==
    /\ call[c].at = "pthread_join"
    /\ os[call[c].on] = "ended"
    /\ joins' = [joins EXCEPT ![call[c].on] = @ + 1]
    /\ call' = [call EXCEPT ![c].at = "reaped"]
    /\ UNCHANGED <<memberVars, os, detaches, destroyed>>

\* The second critical section: joined_, and notifyAll.
JoinEnds(c) ==
    /\ call[c].at = "reaped"
    /\ joined_' = [joined_ EXCEPT ![call[c].on] = TRUE]
    /\ call' = [d \in Callers |->
                    IF d = c THEN [call[c] EXCEPT !.at = "joined"]
                    ELSE IF call[d] = [at |-> "waiting", on |-> call[c].on]
                    THEN [call[d] EXCEPT !.at = "woken"]
                    ELSE call[d]]
    /\ UNCHANGED <<started_, join_started_, thread_handle_, kernelVars, destroyed>>

SpuriousWakeup(c) ==
    /\ call[c].at = "waiting"
    /\ call' = [call EXCEPT ![c].at = "woken"]
    /\ UNCHANGED <<memberVars, kernelVars, destroyed>>

\* The waiter looks at joined_ again.
WaitReturns(c) ==
    /\ call[c].at = "woken"
    /\ call' = [call EXCEPT ![c].at = IF joined_[call[c].on] THEN "joined" ELSE "waiting"]
    /\ UNCHANGED <<memberVars, kernelVars, destroyed>>

JoinStep(c) == PthreadJoin(c) \/ JoinEnds(c) \/ WaitReturns(c)

\* (mutant) a join that has begun is not noticed
DetachAlways(t) ==
    /\ detaches' = [detaches EXCEPT ![t] = @ + 1]
    /\ join_started_' = [join_started_ EXCEPT ![t] = TRUE]
    /\ joined_' = [joined_ EXCEPT ![t] = TRUE]

\* The body of detach().
Detach(t) ==
    IF join_started_[t] THEN UNCHANGED <<detaches, join_started_, joined_>>
    ELSE /\ detaches' = [detaches EXCEPT ![t] = @ + 1]
         /\ join_started_' = [join_started_ EXCEPT ![t] = TRUE]
         /\ joined_' = [joined_ EXCEPT ![t] = TRUE]

\* Callers detach what they have started: the code would pass a handle never set.
detach(c, t) ==
    /\ Free(c)
    /\ t \notin destroyed
    /\ started_[t]
    /\ Detach(t)
    /\ call' = [call EXCEPT ![c] = Idle]
    /\ UNCHANGED <<started_, thread_handle_, os, joins, destroyed>>

joinable(t) == started_[t] /\ ~joined_[t]

\* The destructor; nobody may be using the object.
destroy(c, t) ==
    /\ Free(c)
    /\ t \notin destroyed
    /\ \A d \in Callers : call[d].on = t => call[d].at \in Ended
    /\ IF joinable(t) THEN Detach(t)
       ELSE UNCHANGED <<detaches, join_started_, joined_>>
    /\ destroyed' = destroyed \cup {t}
    /\ call' = [call EXCEPT ![c] = Idle]
    /\ UNCHANGED <<started_, thread_handle_, os, joins>>

ThreadNext ==
    \/ \E t \in Threads : Finish(t)
    \/ \E c \in Callers, t \in Threads :
        start(c, t) \/ join(c, t) \/ detach(c, t) \/ destroy(c, t)
    \/ \E c \in Callers : JoinStep(c) \/ SpuriousWakeup(c)

ThreadSpec == ThreadInit /\ [][ThreadNext]_threadVars

-----------------------------------------------------------------------------
(* Properties *)

ThreadTypeOK ==
    /\ started_ \in [Threads -> BOOLEAN]
    /\ join_started_ \in [Threads -> BOOLEAN]
    /\ joined_ \in [Threads -> BOOLEAN]
    /\ thread_handle_ \in [Threads -> Handles \cup {0}]
    /\ os \in [Threads -> {"none", "running", "ended"}]
    /\ joins \in [Threads -> Nat]
    /\ detaches \in [Threads -> Nat]
    /\ destroyed \subseteq Threads
    /\ call \in [Callers -> [at : Ended \cup Joining \cup Waiting, on : Callers]]

\* However joins, detaches and the destructor race, the handle of a thread is
\* given back to the system once: by pthread_join or by pthread_detach, never by
\* both, and not left open by a destroyed object.
ReapedOnce ==
    \A t \in Threads :
        /\ joins[t] + detaches[t] <= 1
        /\ t \in destroyed /\ started_[t] => joins[t] + detaches[t] = 1

\* join() returns after the thread has ended, unless it was detached.
JoinMeansEnded ==
    \A c \in Callers :
        call[c].at = "joined" => os[call[c].on] = "ended" \/ detaches[call[c].on] > 0

\* A caller asleep in join_cond_.wait has another one on its way to notify it.
WaiterHasJoiner ==
    \A c \in Callers :
        call[c].at = "waiting" =>
            \E d \in Callers : call[d].at \in Joining /\ call[d].on = call[c].on
=============================================================================
