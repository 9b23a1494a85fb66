------------------------- MODULE LogAsyncSinkProofs -------------------------
(***************************************************************************)
(* Proofs about Thread for any set of threads and callers, and about       *)
(* LogAsyncSink for any number of workers, lines and buffers.              *)
(*                                                                         *)
(* The inductive invariant of the threads says for each object how far     *)
(* joining has come: nobody has begun; one caller is in pthread_join or    *)
(* back from it; or it is over, by one pthread_join or one pthread_detach. *)
(***************************************************************************)
EXTENDS LogAsyncSink, SequenceTheorems, TLAPS

-----------------------------------------------------------------------------
(* The threads *)

\* The callers in the middle of pthread_join for t.
JoiningOn(c, t) == call[c].at \in Joining /\ call[c].on = t

NotBegun(t) ==
    /\ ~joined_[t] /\ joins[t] = 0 /\ detaches[t] = 0
    /\ \A c \in Callers : call[c].on = t => call[c].at \in Ended

InProgress(t) ==
    /\ ~joined_[t] /\ detaches[t] = 0
    /\ \E c \in Callers : JoiningOn(c, t)
    /\ \A c, d \in Callers : JoiningOn(c, t) /\ JoiningOn(d, t) => c = d
    /\ \A c \in Callers : call[c].at = "pthread_join" /\ call[c].on = t => joins[t] = 0
    /\ \A c \in Callers :
        call[c].at = "reaped" /\ call[c].on = t => joins[t] = 1 /\ os[t] = "ended"

Over(t) ==
    /\ joined_[t]
    /\ \/ joins[t] = 1 /\ detaches[t] = 0 /\ os[t] = "ended"
       \/ joins[t] = 0 /\ detaches[t] = 1
    /\ \A c \in Callers : ~JoiningOn(c, t) /\ ~(call[c].at = "waiting" /\ call[c].on = t)

Phase(t) ==
    /\ ~join_started_[t] => NotBegun(t)
    /\ join_started_[t] => started_[t] /\ (InProgress(t) \/ Over(t))

CallsOnThreads ==
    \A c \in Callers :
        call[c].at # "idle" =>
            /\ call[c].on \in Threads
            /\ call[c].at # "refused" => started_[call[c].on] /\ join_started_[call[c].on]

DestroyedAreOver == \A t \in destroyed : started_[t] => joined_[t]

ThreadInv ==
    /\ ThreadTypeOK
    /\ CallsOnThreads
    /\ \A t \in Threads : Phase(t)
    /\ DestroyedAreOver
    /\ JoinMeansEnded

USE MainAssumption DEF Callers, Joining, Waiting, Ended



\* At the start no object is started and no call is under way.
LEMMA InitInv == ThreadInit => ThreadInv
  <1> SUFFICES ASSUME ThreadInit PROVE ThreadInv OBVIOUS
  <1>1. ThreadTypeOK BY DEF ThreadInit, ThreadTypeOK, Idle
  <1>2. CallsOnThreads BY DEF ThreadInit, CallsOnThreads, Idle
  <1>3. \A t \in Threads : Phase(t) BY DEF ThreadInit, Phase, NotBegun, Idle
  <1>4. DestroyedAreOver BY DEF ThreadInit, DestroyedAreOver
  <1>5. JoinMeansEnded BY DEF ThreadInit, JoinMeansEnded, Idle
  <1> QED BY <1>1, <1>2, <1>3, <1>4, <1>5 DEF ThreadInv

\* start keeps the invariant.
LEMMA StartKeeps ==
    ASSUME ThreadInv, NEW c \in Callers, NEW t \in Threads, start(c, t)
    PROVE  ThreadInv'
  <1> USE DEF ThreadInv, start, Free
  <1>1. ThreadTypeOK' BY DEF ThreadTypeOK
  <1>2. CallsOnThreads' BY DEF CallsOnThreads, ThreadTypeOK
  <1>3. \A u \in Threads : Phase(u)'
    <2> SUFFICES ASSUME NEW u \in Threads PROVE Phase(u)' OBVIOUS
    <2>1. Phase(u) OBVIOUS
    <2>2. CASE ~join_started_[u]
      BY <2>1, <2>2 DEF Phase, NotBegun
    <2>3. CASE join_started_[u]
      <3>1. u # t BY <2>1, <2>3 DEF Phase
      <3>2. os'[u] = os[u] /\ started_'[u] = started_[u] BY <3>1 DEF ThreadTypeOK
      <3> QED BY <2>1, <2>3, <3>2 DEF Phase, InProgress, Over, JoiningOn
    <2> QED BY <2>2, <2>3
  <1>4. DestroyedAreOver' BY DEF DestroyedAreOver, ThreadTypeOK
  <1>5. JoinMeansEnded' BY DEF JoinMeansEnded, CallsOnThreads, ThreadTypeOK
  <1> QED BY <1>1, <1>2, <1>3, <1>4, <1>5

\* The end of a thread keeps the invariant.
LEMMA FinishKeeps ==
    ASSUME ThreadInv, NEW t \in Threads, Finish(t)
    PROVE  ThreadInv'
  <1> USE DEF ThreadInv, Finish, Free, memberVars
  <1>1. ThreadTypeOK' BY DEF ThreadTypeOK
  <1>2. CallsOnThreads' BY DEF CallsOnThreads
  <1>3. \A u \in Threads : Phase(u)'
    <2> SUFFICES ASSUME NEW u \in Threads PROVE Phase(u)' OBVIOUS
    <2>1. Phase(u) OBVIOUS
    <2>2. os[u] = "ended" => os'[u] = "ended" BY DEF ThreadTypeOK
    <2> QED BY <2>1, <2>2 DEF Phase, NotBegun, InProgress, Over, JoiningOn
  <1>4. DestroyedAreOver' BY DEF DestroyedAreOver
  <1>5. JoinMeansEnded' BY DEF JoinMeansEnded, CallsOnThreads, ThreadTypeOK
  <1> QED BY <1>1, <1>2, <1>3, <1>4, <1>5

\* The first critical section of join keeps the invariant.
LEMMA JoinKeeps ==
    ASSUME ThreadInv, NEW c \in Callers, NEW t \in Threads, join(c, t)
    PROVE  ThreadInv'
  <1> USE DEF ThreadInv, join, Free, JoinBegins, kernelVars
  <1>1. ThreadTypeOK'
    <2>1. join_started_' \in [Threads -> BOOLEAN] BY DEF ThreadTypeOK
    <2>2. \E at \in {"refused", "pthread_join", "joined", "waiting"} :
            call' = [call EXCEPT ![c] = [at |-> at, on |-> t]]
      OBVIOUS
    <2>3. call' \in [Callers -> [at : Ended \cup Joining \cup Waiting, on : Callers]]
      BY <2>2 DEF ThreadTypeOK
    <2> QED BY <2>1, <2>3 DEF ThreadTypeOK
  <1>2. CallsOnThreads' BY DEF CallsOnThreads, ThreadTypeOK
  <1>3. \A d \in Callers : d # c => call'[d] = call[d] BY DEF ThreadTypeOK
  <1>4. call'[c].on = t /\ call'[c].at \in {"refused", "pthread_join", "joined", "waiting"}
    BY DEF ThreadTypeOK
  <1>5. \A u \in Threads : Phase(u)'
    <2> SUFFICES ASSUME NEW u \in Threads PROVE Phase(u)' OBVIOUS
    <2>1. Phase(u) OBVIOUS
    <2>2. CASE u # t
      <3>1. join_started_'[u] = join_started_[u] BY <2>2 DEF ThreadTypeOK
      <3>2. \A d \in Callers : JoiningOn(d, u)' <=> JoiningOn(d, u)
        BY <1>3, <1>4, <2>2 DEF JoiningOn
      <3>3. CASE NotBegun(u) /\ ~join_started_[u]
        BY <3>1, <3>3, <1>3, <1>4, <2>2 DEF Phase, NotBegun
      <3>4. CASE InProgress(u) /\ join_started_[u]
        BY <2>1, <3>1, <3>2, <3>4, <1>3, <1>4, <2>2 DEF Phase, InProgress
      <3>5. CASE Over(u) /\ join_started_[u]
        BY <2>1, <3>1, <3>2, <3>5, <1>3, <1>4, <2>2 DEF Phase, Over
      <3> QED BY <2>1, <3>3, <3>4, <3>5 DEF Phase
    <2>3. CASE u = t /\ ~join_started_[t]
      <3>1. NotBegun(t) BY <2>1, <2>3 DEF Phase
      <3>2. CASE call'[c].at = "refused" /\ join_started_' = join_started_
        BY <2>3, <3>1, <3>2, <1>3 DEF Phase, NotBegun
      <3>3. CASE call'[c].at = "pthread_join" /\ join_started_'[t] /\ started_[t]
        <4>1. \A d \in Callers : JoiningOn(d, t)' <=> d = c
          BY <1>3, <1>4, <3>1, <3>3 DEF JoiningOn, NotBegun
        <4>2. InProgress(t)'
          BY <4>1, <1>3, <1>4, <3>1, <3>3 DEF InProgress, NotBegun
        <4> QED BY <2>3, <3>3, <4>2 DEF Phase
      <3> QED BY <2>3, <3>2, <3>3 DEF ThreadTypeOK
    <2>4. CASE u = t /\ join_started_[t]
      <3>1. join_started_' = join_started_ /\ call'[c].at \notin Joining
        BY <2>4 DEF ThreadTypeOK
      <3>2. \A d \in Callers : JoiningOn(d, t)' <=> JoiningOn(d, t)
        BY <1>3, <1>4, <3>1 DEF JoiningOn
      <3>3. CASE InProgress(t)
        BY <2>1, <2>4, <3>1, <3>2, <3>3, <1>3, <1>4 DEF Phase, InProgress
      <3>4. CASE Over(t)
        <4>1. call'[c].at # "waiting" BY <3>4, <2>4 DEF Over, ThreadTypeOK
        <4> QED BY <2>1, <2>4, <3>1, <3>2, <3>4, <4>1, <1>3, <1>4 DEF Phase, Over
      <3> QED BY <2>1, <2>4, <3>3, <3>4 DEF Phase
    <2> QED BY <2>2, <2>3, <2>4
  <1>6. DestroyedAreOver' BY DEF DestroyedAreOver
  <1>7. JoinMeansEnded'
    <2>1. call'[c].at = "joined" => os[t] = "ended" \/ detaches[t] > 0
      <3> SUFFICES ASSUME call'[c].at = "joined" PROVE os[t] = "ended" \/ detaches[t] > 0
        OBVIOUS
      <3>1. join_started_[t] /\ joined_[t] BY DEF ThreadTypeOK
      <3> QED BY <3>1 DEF Phase, InProgress, Over, ThreadTypeOK
    <2> QED BY <2>1, <1>3, <1>4 DEF JoinMeansEnded
  <1> QED BY <1>1, <1>2, <1>5, <1>6, <1>7

\* The return of pthread_join keeps the invariant.
LEMMA PthreadJoinKeeps ==
    ASSUME ThreadInv, NEW c \in Callers, PthreadJoin(c)
    PROVE  ThreadInv'
  <1> USE DEF ThreadInv, PthreadJoin, memberVars
  <1> DEFINE t == call[c].on
  <1>1. t \in Threads /\ started_[t] /\ join_started_[t] BY DEF CallsOnThreads
  <1>2. ThreadTypeOK' BY <1>1 DEF ThreadTypeOK
  <1>3. /\ \A d \in Callers : d # c => call'[d] = call[d]
        /\ call'[c].at = "reaped" /\ call'[c].on = t
    BY DEF ThreadTypeOK
  <1>4. CallsOnThreads' BY <1>1, <1>3 DEF CallsOnThreads, ThreadTypeOK
  <1>5. \A u \in Threads : Phase(u)'
    <2> SUFFICES ASSUME NEW u \in Threads PROVE Phase(u)' OBVIOUS
    <2>1. Phase(u) OBVIOUS
    <2>2. \A d \in Callers : JoiningOn(d, u)' <=> JoiningOn(d, u)
      BY <1>3 DEF JoiningOn
    <2>3. CASE u = t
      <3>1. InProgress(t) BY <1>1, <2>1, <2>3 DEF Phase, Over, JoiningOn
      <3>2. \A d \in Callers : JoiningOn(d, t) => d = c BY <3>1 DEF InProgress, JoiningOn
      <3>3. joins'[t] = 1 BY <3>1, <1>1 DEF InProgress, ThreadTypeOK
      <3>4. InProgress(t)'
        BY <3>1, <3>2, <3>3, <2>2, <2>3, <1>3 DEF InProgress, JoiningOn
      <3> QED BY <3>4, <2>3, <1>1 DEF Phase
    <2>4. CASE u # t
      <3>1. joins'[u] = joins[u] BY <2>4 DEF ThreadTypeOK
      <3>2. CASE NotBegun(u) /\ ~join_started_[u]
        BY <3>1, <3>2, <2>4, <1>3 DEF Phase, NotBegun
      <3>3. CASE InProgress(u) /\ join_started_[u]
        BY <3>1, <3>3, <2>1, <2>2, <2>4, <1>3 DEF Phase, InProgress
      <3>4. CASE Over(u) /\ join_started_[u]
        BY <3>1, <3>4, <2>1, <2>2, <2>4, <1>3 DEF Phase, Over
      <3> QED BY <2>1, <3>2, <3>3, <3>4 DEF Phase
    <2> QED BY <2>3, <2>4
  <1>6. DestroyedAreOver' BY DEF DestroyedAreOver
  <1>7. JoinMeansEnded' BY <1>3 DEF JoinMeansEnded
  <1> QED BY <1>2, <1>4, <1>5, <1>6, <1>7

\* The last critical section of join keeps the invariant.
LEMMA JoinEndsKeeps ==
    ASSUME ThreadInv, NEW c \in Callers, JoinEnds(c)
    PROVE  ThreadInv'
  <1> USE DEF ThreadInv, JoinEnds, kernelVars
  <1> DEFINE t == call[c].on
  <1>1. t \in Threads /\ started_[t] /\ join_started_[t] BY DEF CallsOnThreads
  <1>2. ThreadTypeOK'
    <2>1. call' \in [Callers -> [at : Ended \cup Joining \cup Waiting, on : Callers]]
      BY DEF ThreadTypeOK
    <2> QED BY <1>1, <2>1 DEF ThreadTypeOK
  <1>3. /\ \A d \in Callers : call'[d].on = call[d].on
        /\ \A d \in Callers : d # c /\ call[d].on # t => call'[d].at = call[d].at
        /\ \A d \in Callers : d # c /\ call[d].at # "waiting" => call'[d].at = call[d].at
        /\ \A d \in Callers :
            d # c /\ call[d].at = "waiting" /\ call[d].on = t => call'[d].at = "woken"
        /\ call'[c].at = "joined"
    BY DEF ThreadTypeOK
  <1>4. CallsOnThreads' BY <1>1, <1>3 DEF CallsOnThreads, ThreadTypeOK
  <1>5. \A u \in Threads : Phase(u)'
    <2> SUFFICES ASSUME NEW u \in Threads PROVE Phase(u)' OBVIOUS
    <2>1. Phase(u) OBVIOUS
    <2>2. CASE u = t
      <3>1. InProgress(t) BY <1>1, <2>1, <2>2 DEF Phase, Over, JoiningOn
      <3>2. \A d \in Callers : JoiningOn(d, t) => d = c BY <3>1 DEF InProgress, JoiningOn
      <3>3. joins[t] = 1 /\ detaches[t] = 0 /\ os[t] = "ended"
        BY <3>1, <1>1 DEF InProgress
      <3>4. joined_'[t] BY <1>1 DEF ThreadTypeOK
      <3>6. \A d \in Callers : ~(call'[d].at = "waiting" /\ call'[d].on = t)
        BY <1>3
      <3>7. Over(u)'
        <4>1. joined_'[u] /\ joins'[u] = 1 /\ detaches'[u] = 0 /\ os'[u] = "ended"
          BY <2>2, <3>3, <3>4
        <4>2. \A d \in Callers : call'[d].on = u => call'[d].at \notin Joining
          BY <3>2, <2>2, <1>3 DEF JoiningOn
        <4>3. \A d \in Callers : ~(call'[d].at = "waiting" /\ call'[d].on = u)
          BY <3>6, <2>2
        <4> QED BY <4>1, <4>2, <4>3 DEF Over, JoiningOn
      <3> QED BY <3>7, <1>1, <2>2 DEF Phase
    <2>3. CASE u # t
      <3>1. joined_'[u] = joined_[u] BY <2>3 DEF ThreadTypeOK
      <3>2. \A d \in Callers : call'[d].on = u => call'[d].at = call[d].at
        BY <1>3, <2>3
      <3>3. CASE NotBegun(u) /\ ~join_started_[u]
        BY <3>1, <3>2, <3>3, <1>3 DEF Phase, NotBegun
      <3>4. CASE InProgress(u) /\ join_started_[u]
        <4>1. \A d \in Callers : JoiningOn(d, u)' <=> JoiningOn(d, u)
          BY <3>2, <1>3 DEF JoiningOn
        <4>2. InProgress(u)'
          BY <3>1, <3>2, <3>4, <4>1, <1>3 DEF InProgress
        <4> QED BY <2>1, <3>4, <4>2 DEF Phase
      <3>5. CASE Over(u) /\ join_started_[u]
        BY <3>1, <3>2, <3>5, <2>1, <1>3 DEF Phase, Over, JoiningOn
      <3> QED BY <2>1, <3>3, <3>4, <3>5 DEF Phase
    <2> QED BY <2>2, <2>3
  <1>6. DestroyedAreOver' BY DEF DestroyedAreOver, ThreadTypeOK
  <1>7. JoinMeansEnded'
    <2>1. os[t] = "ended"
      <3>1. Phase(t) BY <1>1
      <3> QED BY <3>1, <1>1 DEF Phase, InProgress, Over, JoiningOn
    <2> QED BY <2>1, <1>3 DEF JoinMeansEnded, ThreadTypeOK
  <1> QED BY <1>2, <1>4, <1>5, <1>6, <1>7

\* A waiter is notified or wakes by itself, and sleeps again unless it is over.
LEMMA WaiterKeeps ==
    ASSUME ThreadInv, NEW c \in Callers, SpuriousWakeup(c) \/ WaitReturns(c)
    PROVE  ThreadInv'
  <1> USE DEF ThreadInv, SpuriousWakeup, WaitReturns, memberVars, kernelVars
  <1> DEFINE t == call[c].on
  <1>1. t \in Threads /\ started_[t] /\ join_started_[t] /\ Phase(t)
    BY DEF CallsOnThreads
  <1>2. /\ \A d \in Callers : d # c => call'[d] = call[d]
        /\ call[c].at \notin Joining
        /\ call'[c].at \in {"woken", "waiting", "joined"} /\ call'[c].on = t
        /\ call'[c].at = "joined" => joined_[t]
        /\ call'[c].at = "waiting" => ~joined_[t]
    BY DEF ThreadTypeOK
  <1>3. ThreadTypeOK' BY DEF ThreadTypeOK
  <1>4. CallsOnThreads' BY <1>1, <1>2 DEF CallsOnThreads
  <1>5. \A u \in Threads : Phase(u)'
    <2> SUFFICES ASSUME NEW u \in Threads PROVE Phase(u)' OBVIOUS
    <2>1. Phase(u) OBVIOUS
    <2>2. \A d \in Callers : JoiningOn(d, u)' <=> JoiningOn(d, u)
      BY <1>2 DEF JoiningOn
    <2>3. CASE NotBegun(u) /\ ~join_started_[u]
      BY <2>3, <1>1, <1>2 DEF Phase, NotBegun
    <2>4. CASE InProgress(u) /\ join_started_[u]
      BY <2>1, <2>2, <2>4, <1>2 DEF Phase, InProgress
    <2>5. CASE Over(u) /\ join_started_[u]
      BY <2>1, <2>2, <2>5, <1>2 DEF Phase, Over
    <2> QED BY <2>1, <2>3, <2>4, <2>5 DEF Phase
  <1>6. DestroyedAreOver' BY DEF DestroyedAreOver
  <1>7. JoinMeansEnded'
    <2>1. joined_[t] => os[t] = "ended" \/ detaches[t] > 0
      BY <1>1 DEF Phase, InProgress, Over
    <2> QED BY <2>1, <1>2 DEF JoinMeansEnded
  <1> QED BY <1>3, <1>4, <1>5, <1>6, <1>7

\* The body of detach(), where nobody is joining or all is over.
LEMMA DetachKeepsPhase ==
    ASSUME ThreadInv, NEW c \in Callers, NEW t \in Threads, started_[t], Detach(t),
           Free(c), call' = [call EXCEPT ![c] = Idle],
           UNCHANGED <<started_, os, joins>>
    PROVE  /\ \A u \in Threads : Phase(u)'
           /\ \A u \in Threads : joined_[u] => joined_'[u]
           /\ JoinMeansEnded'
           /\ CallsOnThreads'
  <1> USE DEF ThreadInv, Detach, Free
  <1>1. /\ \A d \in Callers : d # c => call'[d] = call[d]
        /\ call[c].at \in Ended /\ call'[c].at = "idle"
    BY DEF ThreadTypeOK, Idle
  <1>2. \A u \in Threads : Phase(u)'
    <2> SUFFICES ASSUME NEW u \in Threads PROVE Phase(u)' OBVIOUS
    <2>1. Phase(u) OBVIOUS
    <2>2. \A d \in Callers : JoiningOn(d, u)' <=> JoiningOn(d, u)
      BY <1>1 DEF JoiningOn
    <2>3. CASE u = t /\ ~join_started_[t]
      <3>1. NotBegun(t) BY <2>1, <2>3 DEF Phase
      <3>2. joined_'[t] /\ join_started_'[t] /\ detaches'[t] = 1 /\ joins'[t] = 0
        BY <2>3, <3>1 DEF NotBegun, ThreadTypeOK
      <3>3. Over(t)' BY <2>2, <2>3, <3>1, <3>2, <1>1 DEF Over, NotBegun, JoiningOn
      <3> QED BY <2>3, <3>2, <3>3 DEF Phase
    <2>4. CASE ~(u = t /\ ~join_started_[t])
      <3>1. /\ joined_'[u] = joined_[u] /\ join_started_'[u] = join_started_[u]
            /\ detaches'[u] = detaches[u]
        BY <2>4 DEF ThreadTypeOK
      <3>2. CASE NotBegun(u) /\ ~join_started_[u]
        BY <3>1, <3>2, <1>1 DEF Phase, NotBegun
      <3>3. CASE InProgress(u) /\ join_started_[u]
        BY <3>1, <3>3, <2>1, <2>2, <1>1 DEF Phase, InProgress
      <3>4. CASE Over(u) /\ join_started_[u]
        BY <3>1, <3>4, <2>1, <2>2, <1>1 DEF Phase, Over
      <3> QED BY <2>1, <3>2, <3>3, <3>4 DEF Phase
    <2> QED BY <2>3, <2>4
  <1>3. \A u \in Threads : joined_[u] => joined_'[u] BY DEF ThreadTypeOK
  <1>4. \A u \in Threads : detaches'[u] >= detaches[u] BY DEF ThreadTypeOK
  <1>5. JoinMeansEnded'
    <2> SUFFICES ASSUME NEW d \in Callers, call'[d].at = "joined"
                 PROVE  os'[call'[d].on] = "ended" \/ detaches'[call'[d].on] > 0
      BY DEF JoinMeansEnded
    <2>1. d # c /\ call'[d] = call[d] BY <1>1
    <2>2. call[d].on \in Threads BY <2>1 DEF CallsOnThreads
    <2> QED BY <2>1, <2>2, <1>4 DEF JoinMeansEnded, ThreadTypeOK
  <1>6. CallsOnThreads' BY <1>1 DEF CallsOnThreads, ThreadTypeOK
  <1> QED BY <1>2, <1>3, <1>5, <1>6

\* detach() keeps the types of what it changes.
LEMMA DetachTyped ==
    ASSUME ThreadTypeOK, NEW t \in Threads, Detach(t)
    PROVE  /\ detaches' \in [Threads -> Nat]
           /\ join_started_' \in [Threads -> BOOLEAN]
           /\ joined_' \in [Threads -> BOOLEAN]
  <1>1. CASE join_started_[t] BY <1>1 DEF Detach, ThreadTypeOK
  <1>2. CASE ~join_started_[t]
    <2>1. detaches' \in [Threads -> Nat] BY <1>2 DEF Detach, ThreadTypeOK
    <2>2. join_started_' \in [Threads -> BOOLEAN] BY <1>2 DEF Detach, ThreadTypeOK
    <2>3. joined_' \in [Threads -> BOOLEAN] BY <1>2 DEF Detach, ThreadTypeOK
    <2> QED BY <2>1, <2>2, <2>3
  <1> QED BY <1>1, <1>2

\* detach keeps the invariant.
LEMMA DetachKeeps ==
    ASSUME ThreadInv, NEW c \in Callers, NEW t \in Threads, detach(c, t)
    PROVE  ThreadInv'
  <1> USE DEF detach
  <1>1. ThreadTypeOK'
    <2>1. ThreadTypeOK BY DEF ThreadInv
    <2>2. call' \in [Callers -> [at : Ended \cup Joining \cup Waiting, on : Callers]]
      BY <2>1 DEF ThreadTypeOK, Idle
    <2>3. /\ detaches' \in [Threads -> Nat]
          /\ join_started_' \in [Threads -> BOOLEAN]
          /\ joined_' \in [Threads -> BOOLEAN]
      <3>1. Detach(t) => /\ detaches' \in [Threads -> Nat]
                         /\ join_started_' \in [Threads -> BOOLEAN]
                         /\ joined_' \in [Threads -> BOOLEAN]
        BY <2>1, DetachTyped
      <3> QED BY <3>1, <2>1 DEF ThreadTypeOK
    <2> QED BY <2>1, <2>2, <2>3 DEF ThreadTypeOK
  <1>2. /\ \A u \in Threads : Phase(u)'
        /\ \A u \in Threads : joined_[u] => joined_'[u]
        /\ JoinMeansEnded'
        /\ CallsOnThreads'
    BY DetachKeepsPhase
  <1>3. DestroyedAreOver' BY <1>2 DEF ThreadInv, DestroyedAreOver, ThreadTypeOK
  <1> QED BY <1>1, <1>2, <1>3 DEF ThreadInv

\* The destructor keeps the invariant.
LEMMA DestroyKeeps ==
    ASSUME ThreadInv, NEW c \in Callers, NEW t \in Threads, destroy(c, t)
    PROVE  ThreadInv'
  <1> USE DEF destroy
  <1>1. ThreadTypeOK'
    <2>1. ThreadTypeOK BY DEF ThreadInv
    <2>2. call' \in [Callers -> [at : Ended \cup Joining \cup Waiting, on : Callers]]
      BY <2>1 DEF ThreadTypeOK, Idle
    <2>3. /\ detaches' \in [Threads -> Nat]
          /\ join_started_' \in [Threads -> BOOLEAN]
          /\ joined_' \in [Threads -> BOOLEAN]
      <3>1. Detach(t) => /\ detaches' \in [Threads -> Nat]
                         /\ join_started_' \in [Threads -> BOOLEAN]
                         /\ joined_' \in [Threads -> BOOLEAN]
        BY <2>1, DetachTyped
      <3> QED BY <3>1, <2>1 DEF ThreadTypeOK
    <2> QED BY <2>1, <2>2, <2>3 DEF ThreadTypeOK
  <1>2. /\ \A u \in Threads : Phase(u)'
        /\ \A u \in Threads : joined_[u] => joined_'[u]
        /\ JoinMeansEnded'
        /\ CallsOnThreads'
    <2>1. CASE joinable(t) BY <2>1, DetachKeepsPhase DEF joinable
    <2>2. CASE ~joinable(t)
      <3>1. /\ \A d \in Callers : d # c => call'[d] = call[d]
            /\ call[c].at \in Ended /\ call'[c].at = "idle"
        BY DEF ThreadInv, ThreadTypeOK, Idle, Free
      <3>2. /\ JoinMeansEnded' /\ CallsOnThreads'
        BY <2>2, <3>1 DEF ThreadInv, JoinMeansEnded, CallsOnThreads
      <3>3. \A u \in Threads : Phase(u)'
        <4> SUFFICES ASSUME NEW u \in Threads PROVE Phase(u)' OBVIOUS
        <4>1. Phase(u) BY DEF ThreadInv
        <4>2. \A d \in Callers : JoiningOn(d, u)' <=> JoiningOn(d, u)
          BY <3>1 DEF JoiningOn
        <4>3. CASE NotBegun(u) /\ ~join_started_[u]
          BY <4>3, <3>1, <2>2 DEF Phase, NotBegun
        <4>4. CASE InProgress(u) /\ join_started_[u]
          BY <4>1, <4>2, <4>4, <3>1, <2>2 DEF Phase, InProgress
        <4>5. CASE Over(u) /\ join_started_[u]
          BY <4>1, <4>2, <4>5, <3>1, <2>2 DEF Phase, Over
        <4> QED BY <4>1, <4>3, <4>4, <4>5 DEF Phase
      <3> QED BY <2>2, <3>2, <3>3
    <2> QED BY <2>1, <2>2
  <1>3. started_[t] => joined_'[t]
    <2> SUFFICES ASSUME started_[t] PROVE joined_'[t] OBVIOUS
    <2>1. CASE ~joinable(t) BY <2>1 DEF joinable
    <2>2. CASE joinable(t)
      <3>1. Phase(t) /\ ~joined_[t] BY <2>2 DEF ThreadInv, joinable
      <3>2. ~join_started_[t] BY <3>1 DEF Phase, InProgress, Over, JoiningOn
      <3> QED BY <2>2, <3>2 DEF Detach, ThreadInv, ThreadTypeOK
    <2> QED BY <2>1, <2>2
  <1>4. DestroyedAreOver' BY <1>2, <1>3 DEF ThreadInv, DestroyedAreOver, ThreadTypeOK
  <1> QED BY <1>1, <1>2, <1>4 DEF ThreadInv

\* A step that changes no thread keeps the invariant.
LEMMA StutterKeeps ==
    ASSUME ThreadInv, UNCHANGED threadVars
    PROVE  ThreadInv'
  <1> USE DEF ThreadInv, threadVars, memberVars, kernelVars
  <1>1. ThreadTypeOK' BY DEF ThreadTypeOK
  <1>2. CallsOnThreads' BY DEF CallsOnThreads
  <1>3. (\A t \in Threads : Phase(t))'
    BY DEF Phase, NotBegun, InProgress, Over, JoiningOn
  <1>4. DestroyedAreOver' BY DEF DestroyedAreOver
  <1>5. JoinMeansEnded' BY DEF JoinMeansEnded
  <1> QED BY <1>1, <1>2, <1>3, <1>4, <1>5

\* The invariant of the joining protocol of thread.cc, for any number of threads.
THEOREM Invariance == ThreadSpec => []ThreadInv
  <1>1. ThreadInv /\ [ThreadNext]_threadVars => ThreadInv'
    <2> SUFFICES ASSUME ThreadInv, [ThreadNext]_threadVars PROVE ThreadInv' OBVIOUS
    <2>1. CASE \E t \in Threads : Finish(t) BY <2>1, FinishKeeps
    <2>2. CASE \E c \in Callers, t \in Threads :
                start(c, t) \/ join(c, t) \/ detach(c, t) \/ destroy(c, t)
      BY <2>2, StartKeeps, JoinKeeps, DetachKeeps, DestroyKeeps
    <2>3. CASE \E c \in Callers : JoinStep(c) \/ SpuriousWakeup(c)
      BY <2>3, PthreadJoinKeeps, JoinEndsKeeps, WaiterKeeps DEF JoinStep
    <2>4. CASE UNCHANGED threadVars BY <2>4, StutterKeeps
    <2> QED BY <2>1, <2>2, <2>3, <2>4 DEF ThreadNext
  <1> QED BY InitInv, <1>1, PTL DEF ThreadSpec

\* Every variable of the threads keeps its type (thread.cc:25-31).
THEOREM TypeCorrect == ThreadSpec => []ThreadTypeOK
  <1>1. ThreadInv => ThreadTypeOK BY DEF ThreadInv
  <1> QED BY <1>1, Invariance, PTL

\* join(), detach() and ~Thread give a handle back at most once, and a destroyed
\* object has given it back, for any threads and callers.
THEOREM HandleReapedOnce == ThreadSpec => []ReapedOnce
  <1>1. ThreadInv => ReapedOnce
    <2> SUFFICES ASSUME ThreadInv, NEW t \in Threads
                 PROVE  /\ joins[t] + detaches[t] <= 1
                        /\ t \in destroyed /\ started_[t] => joins[t] + detaches[t] = 1
      BY DEF ReapedOnce
    <2>1. Phase(t) BY DEF ThreadInv
    <2>2. joins[t] \in Nat /\ detaches[t] \in Nat BY DEF ThreadInv, ThreadTypeOK
    <2>3. CASE NotBegun(t)
      BY <2>3 DEF NotBegun, ThreadInv, DestroyedAreOver
    <2>4. CASE InProgress(t)
      <3>1. PICK c \in Callers : JoiningOn(c, t) BY <2>4 DEF InProgress
      <3>2. joins[t] \in {0, 1} /\ detaches[t] = 0
        BY <2>4, <3>1 DEF InProgress, JoiningOn
      <3> QED BY <2>4, <3>2 DEF InProgress, ThreadInv, DestroyedAreOver
    <2>5. CASE Over(t) BY <2>5 DEF Over
    <2> QED BY <2>1, <2>3, <2>4, <2>5 DEF Phase
  <1> QED BY <1>1, Invariance, PTL

\* No join() of thread.cc returns before the thread has ended, unless detached.
THEOREM JoinWaits == ThreadSpec => []JoinMeansEnded
  <1>1. ThreadInv => JoinMeansEnded BY DEF ThreadInv
  <1> QED BY <1>1, Invariance, PTL

\* Whoever sleeps in join_cond_.wait (thread.cc:89) will be notified by a caller
\* that is in pthread_join or back from it.
THEOREM NoForgottenWaiter == ThreadSpec => []WaiterHasJoiner
  <1>1. ThreadInv => WaiterHasJoiner
    <2> SUFFICES ASSUME ThreadInv, NEW c \in Callers, call[c].at = "waiting"
                 PROVE  \E d \in Callers : call[d].at \in Joining /\ call[d].on = call[c].on
      BY DEF WaiterHasJoiner
    <2>1. /\ call[c].on \in Threads /\ join_started_[call[c].on]
          /\ Phase(call[c].on)
      BY DEF ThreadInv, CallsOnThreads
    <2> QED BY <2>1 DEF Phase, InProgress, Over, JoiningOn
  <1> QED BY <1>1, Invariance, PTL

HIDE MainAssumption DEF Callers, Joining, Waiting, Ended

-----------------------------------------------------------------------------
(* The sink *)

Line == Workers \X (Nat \ {0})

-----------------------------------------------------------------------------
(* The invariant *)

\* Once(s): no element comes twice.
Once(s) == \A i, j \in DOMAIN s : s[i] = s[j] => i = j
Elems(s) == {s[i] : i \in DOMAIN s}
InHand == {held[t] : t \in Threads} \ {nullptr}

LogTypes ==
    /\ created \in Nat
    /\ reused_object_list_ \in Seq(1..created)
    /\ queue_ \in Seq(0..created)
    /\ held \in [Threads -> 0..created]
    /\ content \in Seq(Line \cup {NoLine}) /\ Len(content) = created
    /\ written \in Seq(Line)
    /\ logged \in [Workers -> Nat]
    /\ doing \in [Threads -> {"idle", "push", "write", "return", "ending", "ended"}]
    /\ sink \in {"none", "open", "pushed", "joining", "deleted"}

\* The pool, the queue and the threads share out the buffers.
Shared ==
    /\ Once(reused_object_list_) /\ Once(queue_)
    /\ \A t, u \in Threads : held[t] = held[u] /\ held[t] # nullptr => t = u
    /\ Elems(reused_object_list_) \cap Elems(queue_) = {}
    /\ Elems(reused_object_list_) \cap InHand = {}
    /\ Elems(queue_) \cap InHand = {}
    /\ 1..created \subseteq Elems(reused_object_list_) \cup Elems(queue_) \cup InHand

\* What a thread is doing goes with what it holds.
HandsFit ==
    /\ \A w \in Workers :
        /\ doing[w] \in {"idle", "push"}
        /\ doing[w] = "push" <=> held[w] # nullptr
        /\ doing[w] = "push" => content[held[w]] = <<w, logged[w] + 1>>
        /\ doing[w] = "push" => os[w] = "running" /\ logged[w] < Lines[w]
        /\ os[w] = "ended" => logged[w] = Lines[w]
        /\ os[w] = "none" => ~started_[w]
    /\ doing[log_thread_] # "push"
    /\ doing[log_thread_] \in {"write", "return"} <=> held[log_thread_] # nullptr
    /\ doing[log_thread_] = "return" => content[held[log_thread_]] = NoLine
    /\ \A b \in Elems(reused_object_list_) : content[b] = NoLine

\* The null comes last, and is still in the queue or has been taken.
EndFits ==
    /\ sink \notin {"none", "open"} => \A w \in Workers : os[w] # "running"
    /\ nullptr \in Elems(queue_) => sink \notin {"none", "open"} /\ Last(queue_) = nullptr
    /\ doing[log_thread_] \in {"ending", "ended"} <=>
        sink \notin {"none", "open"} /\ nullptr \notin Elems(queue_)
    /\ doing[log_thread_] \in {"ending", "ended"} => queue_ = <<>>
    /\ os[log_thread_] = "ended" <=> doing[log_thread_] = "ended"

\* main() waits for the logging thread.
JoinFits ==
    /\ sink \in {"none", "open", "pushed"} => ~join_started_[log_thread_]
    /\ sink # "none" => started_[log_thread_]
    /\ sink = "joining" =>
        /\ call[Main].on = log_thread_
        /\ call[Main].at \in {"pthread_join", "reaped", "joined"}
        /\ call[Main].at # "pthread_join" => os[log_thread_] = "ended"
    /\ sink = "deleted" => os[log_thread_] = "ended"

\* The lines that were logged: written, with the logging thread, or queued.
Taken == IF doing[log_thread_] = "write" THEN <<content[held[log_thread_]]>> ELSE <<>>
Buffers == IF nullptr \in Elems(queue_) THEN Front(queue_) ELSE queue_
Lined(q) == [i \in DOMAIN q |-> content[q[i]]]
Stream == written \o Taken \o Lined(Buffers)

\* A stream holds the first lines of each worker, as many as counted, in its order.
InOrder(s, count) ==
    /\ s \in Seq(Line)
    /\ \A i \in DOMAIN s : s[i][2] <= count[s[i][1]]
    /\ \A i, j \in DOMAIN s : i < j /\ s[i][1] = s[j][1] => s[i][2] < s[j][2]
    /\ \A w \in Workers : \A n \in 1..count[w] : \E i \in DOMAIN s : s[i] = <<w, n>>

LogInv ==
    /\ LogTypes /\ Shared /\ HandsFit /\ EndFits /\ JoinFits /\ InOrder(Stream, logged)

-----------------------------------------------------------------------------
(* Sequences without repetition, and what the threads hold *)

\* A new element at the end.
LEMMA OnceAppend ==
  ASSUME NEW S, NEW s \in Seq(S), Once(s), NEW e \in S, e \notin Elems(s)
  PROVE  Once(Append(s, e)) /\ Elems(Append(s, e)) = Elems(s) \cup {e}
<1>1. /\ Len(Append(s, e)) = Len(s) + 1 /\ DOMAIN Append(s, e) = 1..Len(s) + 1
      /\ DOMAIN s = 1..Len(s) /\ Len(s) \in Nat
      /\ \A i \in 1..Len(s) : Append(s, e)[i] = s[i]
      /\ Append(s, e)[Len(s) + 1] = e
  BY AppendProperties, LenProperties
<1>2. \A i \in DOMAIN Append(s, e) : i \in DOMAIN s \/ i = Len(s) + 1
  BY <1>1
<1> QED
  BY <1>1, <1>2 DEF Once, Elems

\* Without the first element.
LEMMA OnceTail ==
  ASSUME NEW S, NEW s \in Seq(S), s # <<>>, Once(s)
  PROVE  Once(Tail(s)) /\ Elems(Tail(s)) = Elems(s) \ {Head(s)} /\ Head(s) \in Elems(s)
<1>1. /\ Tail(s) \in Seq(S) /\ Len(Tail(s)) = Len(s) - 1
      /\ \A i \in 1..Len(Tail(s)) : Tail(s)[i] = s[i + 1]
      /\ DOMAIN Tail(s) = 1..Len(Tail(s)) /\ DOMAIN s = 1..Len(s)
      /\ Head(s) = s[1] /\ Len(s) \in Nat \ {0}
  BY HeadTailProperties, LenProperties, EmptySeq
<1>2. Once(Tail(s))
  <2> SUFFICES ASSUME NEW i \in DOMAIN Tail(s), NEW j \in DOMAIN Tail(s), Tail(s)[i] = Tail(s)[j]
               PROVE  i = j
    BY DEF Once
  <2>1. i + 1 \in DOMAIN s /\ j + 1 \in DOMAIN s /\ s[i + 1] = s[j + 1]
    BY <1>1
  <2>2. i + 1 = j + 1
    BY <2>1 DEF Once
  <2> QED
    BY <1>1, <2>2
<1>3. ASSUME NEW x \in Elems(s), x # Head(s) PROVE x \in Elems(Tail(s))
  <2>1. PICK i \in DOMAIN s : s[i] = x
    BY DEF Elems
  <2>2. i # 1
    BY <1>1, <1>3, <2>1
  <2>3. i - 1 \in DOMAIN Tail(s) /\ Tail(s)[i - 1] = x
    BY <1>1, <2>1, <2>2
  <2> QED
    BY <2>3 DEF Elems
<1>4. ASSUME NEW x \in Elems(Tail(s)) PROVE x \in Elems(s) /\ x # Head(s)
  <2>1. PICK i \in DOMAIN Tail(s) : Tail(s)[i] = x
    BY <1>4 DEF Elems
  <2>2. i + 1 \in DOMAIN s /\ s[i + 1] = x /\ i + 1 # 1 /\ 1 \in DOMAIN s
    BY <1>1, <2>1
  <2> QED
    BY <1>1, <2>2 DEF Elems, Once
<1>5. Head(s) \in Elems(s)
  BY <1>1 DEF Elems
<1> QED
  BY <1>2, <1>3, <1>4, <1>5

\* All but the last element.
LEMMA FrontProperties ==
  ASSUME NEW S, NEW s \in Seq(S), s # <<>>
  PROVE  /\ Front(s) \in Seq(S) /\ Len(Front(s)) = Len(s) - 1
         /\ \A i \in 1..Len(s) - 1 : Front(s)[i] = s[i]
         /\ Last(s) = s[Len(s)] /\ Len(s) \in Nat \ {0}
<1>1. Len(s) \in Nat \ {0} /\ DOMAIN s = 1..Len(s) /\ \A i \in 1..Len(s) : s[i] \in S
  BY LenProperties, EmptySeq, ElementOfSeq
<1>2. \A i \in 1..Len(s) - 1 : s[i] \in S
  BY <1>1
<1>3. Len(s) - 1 \in Int /\ 1 \in Int
  BY <1>1
<1>4. /\ SubSeq(s, 1, Len(s) - 1) \in Seq(S)
      /\ Len(SubSeq(s, 1, Len(s) - 1)) =
           IF 1 <= Len(s) - 1 THEN Len(s) - 1 - 1 + 1 ELSE 0
      /\ \A i \in 1..Len(s) - 1 - 1 + 1 : SubSeq(s, 1, Len(s) - 1)[i] = s[1 + i - 1]
  BY <1>2, <1>3, SubSeqProperties
<1>5. /\ SubSeq(s, 1, Len(s) - 1) \in Seq(S)
      /\ Len(SubSeq(s, 1, Len(s) - 1)) = Len(s) - 1
      /\ \A i \in 1..Len(s) - 1 : SubSeq(s, 1, Len(s) - 1)[i] = s[i]
  BY <1>1, <1>4
<1> QED
  BY <1>1, <1>5 DEF Front, Last

\* They come no more than once either.
LEMMA OnceFront ==
  ASSUME NEW S, NEW s \in Seq(S), s # <<>>, Once(s)
  PROVE  /\ Front(s) \in Seq(S) /\ Once(Front(s)) /\ Elems(Front(s)) = Elems(s) \ {Last(s)}
         /\ Last(s) \in Elems(s) /\ Last(s) \in S
<1>1. /\ Front(s) \in Seq(S) /\ Len(Front(s)) = Len(s) - 1
      /\ \A i \in 1..Len(s) - 1 : Front(s)[i] = s[i]
      /\ DOMAIN Front(s) = 1..Len(s) - 1 /\ DOMAIN s = 1..Len(s)
      /\ Last(s) = s[Len(s)] /\ Len(s) \in Nat \ {0}
  BY FrontProperties, LenProperties
<1>2. \A i \in DOMAIN s : i \in DOMAIN Front(s) \/ i = Len(s)
  BY <1>1
<1>3. DOMAIN Front(s) \subseteq DOMAIN s /\ Len(s) \in DOMAIN s /\ Len(s) \notin DOMAIN Front(s)
  BY <1>1
<1>4. Last(s) \in S
  BY <1>1, ElementOfSeq
<1> QED
  BY <1>1, <1>2, <1>3, <1>4 DEF Once, Elems

\* A thread takes a buffer that no thread holds.
LEMMA HandTakes ==
  ASSUME NEW t \in Threads, NEW b \in Nat \ {nullptr}, LogTypes, Shared,
         held[t] = nullptr, b \notin InHand, held' = [held EXCEPT ![t] = b]
  PROVE  /\ InHand' = InHand \cup {b}
         /\ \A u, v \in Threads : held'[u] = held'[v] /\ held'[u] # nullptr => u = v
<1>1. held'[t] = b /\ \A u \in Threads \ {t} : held'[u] = held[u]
  BY DEF LogTypes
<1>2. \A u \in Threads : held[u] # b
  BY DEF InHand
<1>3. \A u, v \in Threads : held'[u] = held'[v] /\ held'[u] # nullptr => u = v
  BY <1>1, <1>2 DEF Shared
<1> QED
  BY <1>1, <1>3 DEF InHand

\* A thread gives away the buffer it holds.
LEMMA HandGives ==
  ASSUME NEW t \in Threads, LogTypes, Shared, held[t] # nullptr,
         held' = [held EXCEPT ![t] = nullptr]
  PROVE  /\ InHand' = InHand \ {held[t]} /\ held[t] \in InHand
         /\ \A u, v \in Threads : held'[u] = held'[v] /\ held'[u] # nullptr => u = v
<1>1. held'[t] = nullptr /\ \A u \in Threads \ {t} : held'[u] = held[u]
  BY DEF LogTypes
<1>2. \A u \in Threads \ {t} : held[u] # held[t]
  BY DEF Shared
<1> QED
  BY <1>1, <1>2 DEF InHand, Shared

-----------------------------------------------------------------------------
(* The lines that were logged *)

\* A worker's next line goes to the end.
LEMMA InOrderGrows ==
  ASSUME NEW s, NEW count \in [Workers -> Nat], InOrder(s, count), NEW w \in Workers
  PROVE  InOrder(Append(s, <<w, count[w] + 1>>), [count EXCEPT ![w] = @ + 1])
<1> DEFINE l == <<w, count[w] + 1>>
           s2 == Append(s, l)
           count2 == [count EXCEPT ![w] = @ + 1]
<1> SUFFICES InOrder(s2, count2)
  OBVIOUS
<1>1. count[w] \in Nat /\ l \in Line /\ l[1] = w /\ l[2] = count[w] + 1
  BY DEF Line
<1>2. /\ s2 \in Seq(Line) /\ DOMAIN s2 = 1..Len(s) + 1 /\ DOMAIN s = 1..Len(s)
      /\ Len(s) \in Nat /\ s2[Len(s) + 1] = l
      /\ \A i \in 1..Len(s) : s2[i] = s[i]
  BY <1>1, AppendProperties, LenProperties DEF InOrder
<1>3. \A i \in 1..Len(s) : s[i] \in Line
  BY ElementOfSeq DEF InOrder
<1>4. /\ count2[w] = count[w] + 1
      /\ \A v \in Workers : v # w => count2[v] = count[v]
      /\ \A v \in Workers : count[v] \in Nat /\ count2[v] \in Nat /\ count[v] <= count2[v]
  OBVIOUS
<1> HIDE DEF l, s2, count2
<1>5. ASSUME NEW i \in DOMAIN s2 PROVE s2[i][2] <= count2[s2[i][1]]
  <2>1. CASE i \in 1..Len(s)
    <3>1. s[i][1] \in Workers /\ s[i][2] \in Nat /\ s[i][2] <= count[s[i][1]]
      BY <1>2, <1>3, <2>1 DEF Line, InOrder
    <3> QED
      BY <1>2, <1>4, <2>1, <3>1
  <2>2. CASE i = Len(s) + 1
    BY <1>1, <1>2, <1>4, <2>2
  <2> QED
    BY <1>2, <2>1, <2>2
<1>6. ASSUME NEW i \in DOMAIN s2, NEW j \in DOMAIN s2, i < j, s2[i][1] = s2[j][1]
      PROVE  s2[i][2] < s2[j][2]
  <2>1. i \in 1..Len(s)
    BY <1>2, <1>6
  <2>2. CASE j \in 1..Len(s)
    BY <1>2, <1>6, <2>1, <2>2 DEF InOrder
  <2>3. CASE j = Len(s) + 1
    <3>1. s[i][1] = w /\ s[i][2] \in Nat /\ s[i][2] <= count[w]
      BY <1>1, <1>2, <1>3, <1>6, <2>1, <2>3 DEF Line, InOrder
    <3> QED
      BY <1>1, <1>2, <2>1, <2>3, <3>1
  <2> QED
    BY <1>2, <2>2, <2>3
<1>7. ASSUME NEW v \in Workers, NEW n \in 1..count2[v]
      PROVE  \E i \in DOMAIN s2 : s2[i] = <<v, n>>
  <2>1. CASE v = w /\ n = count[w] + 1
    <3>1. Len(s) + 1 \in DOMAIN s2
      BY <1>2
    <3> QED
      BY <1>2, <2>1, <3>1 DEF l
  <2>2. CASE ~(v = w /\ n = count[w] + 1)
    <3>1. n \in 1..count[v]
      BY <1>1, <1>4, <2>2
    <3>2. PICK i \in DOMAIN s : s[i] = <<v, n>>
      BY <3>1 DEF InOrder
    <3>3. i \in DOMAIN s2 /\ s2[i] = s[i]
      BY <1>2
    <3> QED
      BY <3>2, <3>3
  <2> QED
    BY <2>1, <2>2
<1> QED
  BY <1>2, <1>5, <1>6, <1>7 DEF InOrder

-----------------------------------------------------------------------------
(* The threads of the program are threads of module Thread *)

\* Every step is one of module Thread, or leaves its variables alone.
LEMMA SinkStepsThreads == SinkNext => [ThreadNext]_threadVars
<1> SUFFICES ASSUME SinkNext PROVE [ThreadNext]_threadVars
  OBVIOUS
<1> USE LogThreadAssumption DEF Workers, Callers
<1>1. CASE Construct
  BY <1>1 DEF Construct, ThreadNext
<1>2. CASE \E w \in Workers : log(w) \/ workerEnds(w) \/ startWorker(w)
  <2>1. PICK w \in Workers : log(w) \/ workerEnds(w) \/ startWorker(w)
    BY <1>2
  <2>2. CASE log(w)
    BY <2>2 DEF log, GetObject, Push
  <2>3. CASE workerEnds(w)
    BY <2>3 DEF workerEnds, ThreadNext
  <2>4. CASE startWorker(w)
    BY <2>4 DEF startWorker, ThreadNext
  <2> QED
    BY <2>1, <2>2, <2>3, <2>4
<1>3. CASE logThreadFunc
  <2>1. CASE Pop
    BY <2>1 DEF Pop
  <2>2. CASE Write
    BY <2>2 DEF Write
  <2>3. CASE ReturnObject
    BY <2>3 DEF ReturnObject
  <2>4. CASE logThreadEnds
    BY <2>4 DEF logThreadEnds, ThreadNext
  <2> QED
    BY <1>3, <2>1, <2>2, <2>3, <2>4 DEF logThreadFunc
<1>4. CASE Destructor
  <2>1. CASE PushNull
    BY <2>1 DEF PushNull
  <2>2. CASE JoinLogThread
    BY <2>2 DEF JoinLogThread, ThreadNext
  <2>3. CASE DeleteMembers
    BY <2>3 DEF DeleteMembers, ThreadNext
  <2> QED
    BY <1>4, <2>1, <2>2, <2>3 DEF Destructor
<1>5. CASE \E c \in Workers \cup {Main}, w \in Workers : joinWorker(c, w)
  BY <1>5 DEF joinWorker, ThreadNext
<1>6. CASE \E c \in Workers \cup {Main} : joinStep(c) \/ wakeup(c)
  BY <1>6 DEF joinStep, wakeup, ThreadNext
<1>7. CASE \E w \in Workers : detachWorker(w) \/ destroyWorker(w)
  BY <1>7 DEF detachWorker, destroyWorker, ThreadNext
<1> QED
  BY <1>1, <1>2, <1>3, <1>4, <1>5, <1>6, <1>7 DEF SinkNext

\* A program that logs uses thread.cc as module Thread says, so what is proved
\* there holds of its workers and of log_thread_.
THEOREM SinkUsesThreads == SinkSpec => ThreadSpec
<1>1. SinkInit => ThreadInit
  BY DEF SinkInit
<1>2. [SinkNext]_sinkVars => [ThreadNext]_threadVars
  BY SinkStepsThreads DEF sinkVars
<1> QED
  BY <1>1, <1>2, PTL DEF SinkSpec, ThreadSpec

\* So the handles of the workers and of log_thread_ are given back once, their joins
\* mean that they have ended, and no joiner is forgotten (thread.cc:41-110).
THEOREM SinkThreadsJoin == SinkSpec => [](ReapedOnce /\ JoinMeansEnded /\ WaiterHasJoiner)
BY SinkUsesThreads, HandleReapedOnce, JoinWaits, NoForgottenWaiter, PTL

-----------------------------------------------------------------------------
(* What keeps the stream of lines as it was *)

\* The same stream of the same lines is in order still.
LEMMA StreamStays ==
  ASSUME InOrder(Stream, logged), Stream' = Stream, logged' = logged
  PROVE  InOrder(Stream, logged)'
OBVIOUS

\* The sequences that make up the stream.
LEMMA StreamTypes ==
  ASSUME LogTypes, Shared, EndFits
  PROVE  /\ Buffers \in Seq(1..created)
         /\ Lined(Buffers) \in Seq(Line \cup {NoLine})
         /\ \A b \in 1..created : content[b] \in Line \cup {NoLine}
         /\ Elems(Buffers) = Elems(queue_) \ {nullptr}
<1>1. DOMAIN content = 1..created /\ \A b \in 1..created : content[b] \in Line \cup {NoLine}
  BY LenProperties, ElementOfSeq DEF LogTypes
<1>2. Buffers \in Seq(0..created) /\ Elems(Buffers) = Elems(queue_) \ {nullptr}
  <2>1. CASE nullptr \in Elems(queue_)
    <3>1. queue_ # <<>> /\ Last(queue_) = nullptr
      BY <2>1 DEF EndFits, Elems
    <3> QED
      BY <2>1, <3>1, OnceFront DEF Buffers, LogTypes, Shared
  <2>2. CASE nullptr \notin Elems(queue_)
    BY <2>2 DEF Buffers, LogTypes
  <2> QED
    BY <2>1, <2>2
<1>3. DOMAIN Buffers = 1..Len(Buffers) /\ Len(Buffers) \in Nat
  BY <1>2, LenProperties
<1>4. \A i \in 1..Len(Buffers) : Buffers[i] \in 1..created
  <2>1. \A i \in 1..Len(Buffers) : Buffers[i] \in Elems(Buffers) /\ Buffers[i] \in 0..created
    BY <1>2, <1>3, ElementOfSeq DEF Elems
  <2> QED
    BY <1>2, <2>1 DEF nullptr, LogTypes
<1>5. Buffers \in Seq(1..created)
  <2>1. Buffers \in [1..Len(Buffers) -> 1..created]
    BY <1>2, <1>3, <1>4, LenProperties
  <2> QED
    BY <1>3, <2>1, SeqDef
<1>6. Lined(Buffers) \in Seq(Line \cup {NoLine})
  <2>1. Lined(Buffers) \in [1..Len(Buffers) -> Line \cup {NoLine}]
    BY <1>1, <1>3, <1>4 DEF Lined
  <2> QED
    BY <1>3, <2>1, SeqDef
<1> QED
  BY <1>1, <1>2, <1>5, <1>6

\* Only a buffer that is in no queue and not with the logging thread is filled.
LEMMA StreamSpared ==
  ASSUME NEW b, InOrder(Stream, logged), LogTypes, Shared, EndFits, HandsFit, b \notin Elems(queue_),
         doing[log_thread_] = "write" => b # held[log_thread_],
         \A a \in 1..created : a # b => content'[a] = content[a],
         UNCHANGED <<queue_, written, logged>>,
         doing'[log_thread_] = doing[log_thread_], held'[log_thread_] = held[log_thread_]
  PROVE  InOrder(Stream, logged)'
<1>1. Buffers' = Buffers
  BY DEF Buffers, Elems
<1>2. Lined(Buffers)' = Lined(Buffers)
  <2>1. \A i \in DOMAIN Buffers : content'[Buffers[i]] = content[Buffers[i]]
    <3>1. Buffers \in Seq(1..created) /\ Elems(Buffers) \subseteq Elems(queue_)
      BY StreamTypes
    <3>2. \A i \in DOMAIN Buffers : Buffers[i] \in Elems(Buffers) /\ Buffers[i] \in 1..created
      BY <3>1, LenProperties, ElementOfSeq DEF Elems
    <3>3. \A i \in DOMAIN Buffers : Buffers[i] # b
      BY <3>1, <3>2
    <3> QED
      BY <3>2, <3>3
  <2> QED
    BY <1>1, <2>1 DEF Lined
<1>3. Taken' = Taken
  <2>1. CASE doing[log_thread_] = "write"
    <3>1. held[log_thread_] \in 1..created
      BY <2>1, LogThreadAssumption DEF HandsFit, LogTypes, nullptr
    <3> QED
      BY <2>1, <3>1 DEF Taken
  <2> QED
    BY <2>1 DEF Taken
<1> QED
  BY <1>1, <1>2, <1>3, StreamStays DEF Stream

-----------------------------------------------------------------------------
(* Steps of the threads outside log() and logThreadFunc() *)

\* Where the buffers and lines stay as they are, only the states of threads count.
LEMMA BuffersRest ==
  ASSUME LogInv, UNCHANGED <<bufferVars, doing, held, logged, written>>,
         sink' \in {"none", "open", "pushed", "joining", "deleted"},
         sink' \in {"none", "open"} <=> sink \in {"none", "open"}
  PROVE  /\ LogTypes' /\ Shared' /\ InOrder(Stream, logged)'
         /\ (\A w \in Workers : doing[w] = "push" => os'[w] = "running")
            /\ (\A w \in Workers : os'[w] = "ended" => logged[w] = Lines[w])
            /\ (\A w \in Workers : os'[w] = "none" => ~started_'[w]) => HandsFit'
         /\ (sink \notin {"none", "open"} => \A w \in Workers : os'[w] # "running")
            /\ os'[log_thread_] = os[log_thread_] => EndFits'
<1> USE DEF LogInv, bufferVars
<1>1. LogTypes'
  BY DEF LogTypes
<1>2. Shared'
  BY DEF Shared, Once, Elems, InHand
<1>3. InOrder(Stream, logged)'
  <2>1. Stream' = Stream
    BY DEF Stream, Taken, Buffers, Lined, Elems
  <2> QED
    BY <2>1, StreamStays
<1>4. (\A w \in Workers : doing[w] = "push" => os'[w] = "running")
      /\ (\A w \in Workers : os'[w] = "ended" => logged[w] = Lines[w])
      /\ (\A w \in Workers : os'[w] = "none" => ~started_'[w]) => HandsFit'
  BY DEF HandsFit, Elems
<1>5. (sink \notin {"none", "open"} => \A w \in Workers : os'[w] # "running")
      /\ os'[log_thread_] = os[log_thread_] => EndFits'
  BY DEF EndFits, Elems
<1> QED
  BY <1>1, <1>2, <1>3, <1>4, <1>5

\* Where the sink stays as it is too.
LEMMA SinkRests ==
  ASSUME LogInv, UNCHANGED logVars
  PROVE  /\ LogTypes' /\ Shared' /\ InOrder(Stream, logged)'
         /\ (\A w \in Workers : doing[w] = "push" => os'[w] = "running")
            /\ (\A w \in Workers : os'[w] = "ended" => logged[w] = Lines[w])
            /\ (\A w \in Workers : os'[w] = "none" => ~started_'[w]) => HandsFit'
         /\ (sink \notin {"none", "open"} => \A w \in Workers : os'[w] # "running")
            /\ os'[log_thread_] = os[log_thread_] => EndFits'
<1>1. UNCHANGED <<bufferVars, doing, held, logged, written>> /\ sink' = sink
  BY DEF logVars
<1>2. sink \in {"none", "open", "pushed", "joining", "deleted"}
  BY DEF LogInv, LogTypes
<1> QED
  BY <1>1, <1>2, BuffersRest

\* A worker's function returns when all its lines are logged.
LEMMA WorkerEndsKeeps ==
  ASSUME LogInv, ThreadTypeOK, NEW w \in Workers, workerEnds(w)
  PROVE  LogInv'
<1>1. /\ doing[w] = "idle" /\ logged[w] = Lines[w] /\ UNCHANGED logVars
      /\ os' = [os EXCEPT ![w] = "ended"] /\ UNCHANGED <<started_, join_started_, call>>
  BY DEF workerEnds, Finish, memberVars
<1>2. w \in Threads /\ w # log_thread_ /\ os'[w] = "ended"
      /\ \A t \in Threads : t # w => os'[t] = os[t]
  BY <1>1 DEF Workers, ThreadTypeOK
<1>3. JoinFits'
  BY <1>1, <1>2, LogThreadAssumption DEF LogInv, JoinFits, logVars
<1>4. HandsFit'
  BY <1>1, <1>2, SinkRests DEF LogInv, HandsFit, Workers
<1>5. EndFits'
  BY <1>1, <1>2, SinkRests, LogThreadAssumption DEF LogInv, EndFits, Workers
<1> QED
  BY <1>1, <1>3, <1>4, <1>5, SinkRests DEF LogInv

\* A worker starts while the sink is open.
LEMMA StartWorkerKeeps ==
  ASSUME LogInv, ThreadTypeOK, NEW w \in Workers, startWorker(w)
  PROVE  LogInv'
<1>1. /\ sink = "open" /\ UNCHANGED logVars
      /\ os' = [os EXCEPT ![w] = "running"] /\ started_' = [started_ EXCEPT ![w] = TRUE]
      /\ UNCHANGED <<join_started_, call>>
  BY DEF startWorker, start
<1>2. /\ w \in Threads /\ w # log_thread_ /\ os'[w] = "running"
      /\ \A t \in Threads : t # w => os'[t] = os[t] /\ started_'[t] = started_[t]
  BY <1>1 DEF Workers, ThreadTypeOK
<1>3. JoinFits'
  BY <1>1, <1>2, LogThreadAssumption DEF LogInv, JoinFits, logVars
<1>4. HandsFit'
  BY <1>1, <1>2, SinkRests DEF LogInv, HandsFit, Workers
<1>5. EndFits'
  BY <1>1, <1>2, SinkRests, LogThreadAssumption DEF LogInv, EndFits, Workers
<1> QED
  BY <1>1, <1>3, <1>4, <1>5, SinkRests DEF LogInv

\* Calls on workers while the sink is open.
LEMMA CallOnWorkerKeeps ==
  ASSUME LogInv, ThreadTypeOK, NEW c \in Callers, NEW w \in Workers,
         \/ joinWorker(c, w)
         \/ detachWorker(w)
         \/ destroyWorker(w)
  PROVE  LogInv'
<1>1. /\ sink = "open" /\ UNCHANGED logVars /\ UNCHANGED <<started_, os>>
      /\ \/ join_started_' = join_started_
         \/ join_started_' = [join_started_ EXCEPT ![w] = TRUE]
  BY DEF joinWorker, detachWorker, destroyWorker, join, detach, destroy, Detach, kernelVars
<1>2. join_started_'[log_thread_] = join_started_[log_thread_]
  BY <1>1, LogThreadAssumption DEF Workers, ThreadTypeOK
<1>3. JoinFits'
  BY <1>1, <1>2 DEF LogInv, JoinFits, logVars
<1>4. HandsFit' /\ EndFits'
  BY <1>1, SinkRests DEF LogInv, HandsFit, EndFits
<1> QED
  BY <1>1, <1>3, <1>4, SinkRests DEF LogInv

\* join() goes on, in whichever caller; main() may be waiting for log_thread_.
LEMMA JoinStepKeeps ==
  ASSUME LogInv, ThreadTypeOK, NEW c \in Callers, joinStep(c) \/ wakeup(c)
  PROVE  LogInv'
<1>1. /\ UNCHANGED logVars /\ UNCHANGED <<started_, os, join_started_>>
      /\ \/ PthreadJoin(c) \/ JoinEnds(c) \/ WaitReturns(c) \/ SpuriousWakeup(c)
  BY DEF joinStep, wakeup, JoinStep, PthreadJoin, JoinEnds, WaitReturns, SpuriousWakeup,
         memberVars, kernelVars
<1>2. Main \in Callers /\ call \in [Callers -> [at : Ended \cup Joining \cup Waiting, on : Callers]]
  BY DEF ThreadTypeOK, Callers
<1>3. ASSUME sink # "joining" PROVE JoinFits'
  BY <1>1, <1>3 DEF LogInv, JoinFits, logVars
<1>4. ASSUME sink = "joining" PROVE JoinFits'
  <2>1. /\ call[Main].on = log_thread_
        /\ call[Main].at \in {"pthread_join", "reaped", "joined"}
        /\ call[Main].at # "pthread_join" => os[log_thread_] = "ended"
    BY <1>4 DEF LogInv, JoinFits
  <2>2. /\ call'[Main].on = log_thread_
        /\ call'[Main].at \in {"pthread_join", "reaped", "joined"}
        /\ call'[Main].at # "pthread_join" => os[log_thread_] = "ended"
    <3>1. CASE PthreadJoin(c)
      BY <1>2, <2>1, <3>1 DEF PthreadJoin
    <3>2. CASE JoinEnds(c)
      BY <1>2, <2>1, <3>2 DEF JoinEnds
    <3>3. CASE WaitReturns(c)
      BY <1>2, <2>1, <3>3 DEF WaitReturns
    <3>4. CASE SpuriousWakeup(c)
      BY <1>2, <2>1, <3>4 DEF SpuriousWakeup
    <3> QED
      BY <1>1, <3>1, <3>2, <3>3, <3>4
  <2> QED
    BY <1>1, <1>4, <2>2 DEF LogInv, JoinFits, logVars
<1>5. JoinFits'
  BY <1>3, <1>4
<1>6. HandsFit' /\ EndFits'
  BY <1>1, SinkRests DEF LogInv, HandsFit, EndFits
<1> QED
  BY <1>1, <1>5, <1>6, SinkRests DEF LogInv

-----------------------------------------------------------------------------
(* Construction and the destructor *)

\* The constructor starts log_thread_, and it alone.
LEMMA ConstructKeeps ==
  ASSUME LogInv, ThreadTypeOK, Construct
  PROVE  LogInv'
<1>1. /\ sink = "none" /\ sink' = "open" /\ ~started_[log_thread_]
      /\ UNCHANGED <<bufferVars, doing, held, logged, written>>
      /\ os' = [os EXCEPT ![log_thread_] = "running"]
      /\ started_' = [started_ EXCEPT ![log_thread_] = TRUE]
      /\ UNCHANGED <<join_started_, call>>
  BY DEF Construct, start
<1>2. /\ os'[log_thread_] = "running" /\ started_'[log_thread_] = TRUE
      /\ \A t \in Workers : os'[t] = os[t] /\ started_'[t] = started_[t]
  BY <1>1, LogThreadAssumption DEF Workers, ThreadTypeOK
<1>3. JoinFits'
  BY <1>1, <1>2 DEF LogInv, JoinFits
<1>4. LogTypes' /\ Shared' /\ InOrder(Stream, logged)' /\ HandsFit'
  BY <1>1, <1>2, BuffersRest DEF LogInv, HandsFit
<1>5. EndFits'
  BY <1>1, <1>2 DEF LogInv, EndFits, Elems, bufferVars
<1> QED
  BY <1>3, <1>4, <1>5 DEF LogInv

\* The destructor is the first to join log_thread_, and nobody detached it.
LEMMA JoinLogThreadKeeps ==
  ASSUME LogInv, ThreadTypeOK, JoinLogThread
  PROVE  LogInv'
<1>1. /\ sink = "pushed" /\ sink' = "joining" /\ join(Main, log_thread_)
      /\ UNCHANGED <<bufferVars, doing, held, logged, written>>
      /\ UNCHANGED <<started_, os>>
  BY DEF JoinLogThread, join, kernelVars
<1>2. started_[log_thread_] /\ ~join_started_[log_thread_]
  BY <1>1 DEF LogInv, JoinFits
<1>3. call' = [call EXCEPT ![Main] = [at |-> "pthread_join", on |-> log_thread_]]
  BY <1>1, <1>2, MainAssumption DEF join, JoinBegins, IsSelf
<1>4. call'[Main] = [at |-> "pthread_join", on |-> log_thread_]
  BY <1>3 DEF ThreadTypeOK, Callers
<1>5. JoinFits'
  BY <1>1, <1>2, <1>4 DEF JoinFits
<1>6. LogTypes' /\ Shared' /\ InOrder(Stream, logged)' /\ HandsFit' /\ EndFits'
  BY <1>1, BuffersRest DEF LogInv, HandsFit, EndFits
<1> QED
  BY <1>5, <1>6 DEF LogInv

\* main() is back from its join, so log_thread_ has ended.
LEMMA DeleteMembersKeeps ==
  ASSUME LogInv, ThreadTypeOK, DeleteMembers
  PROVE  LogInv'
<1>1. /\ sink = "joining" /\ sink' = "deleted" /\ Free(Main)
      /\ UNCHANGED <<bufferVars, doing, held, logged, written>>
      /\ UNCHANGED <<started_, os>>
  BY DEF DeleteMembers, destroy
<1>2. call[Main].at = "joined" /\ os[log_thread_] = "ended"
  BY <1>1 DEF LogInv, JoinFits, Free, Ended
<1>3. JoinFits'
  BY <1>1, <1>2 DEF LogInv, JoinFits
<1>4. LogTypes' /\ Shared' /\ InOrder(Stream, logged)' /\ HandsFit' /\ EndFits'
  BY <1>1, BuffersRest DEF LogInv, HandsFit, EndFits
<1> QED
  BY <1>3, <1>4 DEF LogInv

\* What Append has added is the last element.
LEMMA FrontAppend ==
  ASSUME NEW S, NEW s \in Seq(S), NEW e \in S
  PROVE  Front(Append(s, e)) = s /\ Last(Append(s, e)) = e
<1> DEFINE a == Append(s, e)
<1>1. /\ a \in Seq(S) /\ Len(a) = Len(s) + 1 /\ Len(s) \in Nat /\ DOMAIN s = 1..Len(s)
      /\ \A i \in 1..Len(s) : a[i] = s[i] /\ a[i] \in S
      /\ a[Len(s) + 1] = e
  BY AppendProperties, LenProperties, ElementOfSeq
<1> SUFFICES Front(a) = s /\ Last(a) = e
  OBVIOUS
<1> HIDE DEF a
<1>2. Last(a) = e
  BY <1>1 DEF Last
<1>3. a # <<>>
  BY <1>1, AppendProperties DEF a
<1>4. Front(a) \in Seq(S) /\ Len(Front(a)) = Len(s) /\ \A i \in 1..Len(s) : Front(a)[i] = a[i]
  <2>1. /\ Front(a) \in Seq(S) /\ Len(Front(a)) = Len(a) - 1
        /\ \A i \in 1..Len(a) - 1 : Front(a)[i] = a[i]
    BY <1>1, <1>3, FrontProperties
  <2> QED
    BY <1>1, <2>1
<1>5. Front(a) = s
  <2> DEFINE f == Front(a)
  <2>1. f \in Seq(S) /\ Len(f) = Len(s) /\ \A i \in 1..Len(s) : f[i] = s[i]
    BY <1>1, <1>4
  <2> HIDE DEF f
  <2>2. f = s
    BY <2>1, SeqEqual
  <2> QED
    BY <2>2 DEF f
<1> QED
  BY <1>2, <1>5

\* The null goes behind what is queued, and ends the stream where it was.
LEMMA PushNullKeeps ==
  ASSUME LogInv, ThreadTypeOK, PushNull
  PROVE  LogInv'
<1>1. /\ sink = "open" /\ sink' = "pushed" /\ \A w \in Workers : os[w] # "running"
      /\ queue_' = Append(queue_, nullptr)
      /\ UNCHANGED <<threadVars, reused_object_list_, created, content, doing, held, logged,
                     written>>
  BY DEF PushNull
<1>2. nullptr \notin Elems(queue_) /\ Buffers = queue_
      /\ doing[log_thread_] \notin {"ending", "ended"}
  BY <1>1 DEF LogInv, EndFits, Buffers
<1>3. queue_ \in Seq(0..created) /\ nullptr \in 0..created /\ Once(queue_)
  BY DEF LogInv, LogTypes, Shared, nullptr
<1>4. /\ queue_' \in Seq(0..created) /\ Once(queue_')
      /\ Elems(queue_') = Elems(queue_) \cup {nullptr}
      /\ Front(queue_') = queue_ /\ Last(queue_') = nullptr
  <2> DEFINE a == Append(queue_, nullptr)
  <2>1. a \in Seq(0..created)
    BY <1>3, AppendProperties
  <2>2. Once(a) /\ Elems(a) = Elems(queue_) \cup {nullptr}
    BY <1>2, <1>3, OnceAppend
  <2>3. Front(a) = queue_ /\ Last(a) = nullptr
    BY <1>3, FrontAppend
  <2>4. queue_' = a
    BY <1>1
  <2> HIDE DEF a
  <2> QED
    BY <2>1, <2>2, <2>3, <2>4
<1>5. LogTypes'
  BY <1>1, <1>4 DEF LogInv, LogTypes
<1>6. Shared'
  <2>1. nullptr \notin Elems(reused_object_list_) /\ nullptr \notin InHand
    <3>1. \A i \in DOMAIN reused_object_list_ : reused_object_list_[i] \in 1..created
      BY LenProperties, ElementOfSeq DEF LogInv, LogTypes
    <3> QED
      BY <3>1 DEF Elems, InHand, nullptr
  <2>2. Elems(reused_object_list_)' = Elems(reused_object_list_) /\ InHand' = InHand
        /\ Elems(queue_)' = Elems(queue_) \cup {nullptr}
    BY <1>1, <1>4 DEF Elems, InHand
  <2> QED
    BY <1>1, <1>4, <2>1, <2>2 DEF LogInv, Shared, Once
<1>7. HandsFit'
  BY <1>1 DEF LogInv, HandsFit, Elems, threadVars, memberVars, kernelVars
<1>8. EndFits'
  <2>1. Elems(queue_)' = Elems(queue_) \cup {nullptr} /\ Last(queue_)' = nullptr
    BY <1>4 DEF Elems
  <2> QED
    BY <1>1, <1>2, <2>1 DEF LogInv, EndFits, threadVars, kernelVars
<1>9. JoinFits'
  BY <1>1 DEF LogInv, JoinFits, threadVars, memberVars, kernelVars
<1>10. InOrder(Stream, logged)'
  <2>1. Buffers' = Buffers
    BY <1>2, <1>4 DEF Buffers, Elems
  <2>2. Stream' = Stream
    BY <1>1, <2>1 DEF Stream, Taken, Lined
  <2> QED
    BY <1>1, <2>2, StreamStays DEF LogInv
<1> QED
  BY <1>5, <1>6, <1>7, <1>8, <1>9, <1>10 DEF LogInv

-----------------------------------------------------------------------------
(* log() *)

\* getObject() gives a worker a buffer that is nowhere else, with its next line alone in it.
LEMMA ObjectTaken ==
  ASSUME LogInv, ThreadTypeOK, NEW w \in Workers, GetObject(w)
  PROVE  \E b \in 1..created' :
           /\ b \notin Elems(queue_) /\ b \notin InHand
           /\ held' = [held EXCEPT ![w] = b]
           /\ created' \in Nat /\ 0..created \subseteq 0..created'
           /\ 1..created' \subseteq 1..created \cup {b}
           /\ content' \in Seq(Line \cup {NoLine}) /\ Len(content') = created'
           /\ content'[b] = <<w, logged[w] + 1>>
           /\ \A a \in 1..created : a # b => content'[a] = content[a]
           /\ reused_object_list_' \in Seq(1..created') /\ Once(reused_object_list_')
           /\ Elems(reused_object_list_)' = Elems(reused_object_list_) \ {b}
<1> DEFINE line == <<w, logged[w] + 1>>
           pool == reused_object_list_
<1>1. /\ created \in Nat /\ pool \in Seq(1..created) /\ queue_ \in Seq(0..created)
      /\ held \in [Threads -> 0..created]
      /\ content \in Seq(Line \cup {NoLine}) /\ Len(content) = created
      /\ DOMAIN content = 1..created /\ DOMAIN pool = 1..Len(pool)
      /\ \A i \in DOMAIN pool : pool[i] \in 1..created
      /\ \A i \in DOMAIN queue_ : queue_[i] \in 0..created
  BY LenProperties, ElementOfSeq DEF LogInv, LogTypes
<1>2. line \in Line \cup {NoLine}
  BY DEF LogInv, LogTypes, Line
<1>3. /\ Once(pool) /\ Elems(pool) \cap Elems(queue_) = {} /\ Elems(pool) \cap InHand = {}
      /\ \A b \in Elems(pool) : content[b] = NoLine
  BY DEF LogInv, Shared, HandsFit
<1>4. CASE pool # <<>>
  <2> DEFINE b == Last(pool)
  <2>1. /\ pool' = Front(pool) /\ created' = created /\ held' = [held EXCEPT ![w] = b]
        /\ content' = [content EXCEPT ![b] = content[b] \o line]
    BY <1>4 DEF GetObject, Hold
  <2>2. /\ Front(pool) \in Seq(1..created) /\ Once(Front(pool))
        /\ Elems(Front(pool)) = Elems(pool) \ {b} /\ b \in Elems(pool) /\ b \in 1..created
    BY <1>1, <1>3, <1>4, OnceFront
  <2> HIDE DEF b
  <2>3. content[b] \o line = line
    <3>1. content[b] = <<>> /\ line \in Seq({w, logged[w] + 1})
      BY <1>3, <2>2 DEF NoLine
    <3> QED
      BY <3>1, ConcatEmptySeq
  <2>4. content' = [content EXCEPT ![b] = line]
    BY <2>1, <2>3
  <2> HIDE DEF line
  <2>5. /\ content' \in Seq(Line \cup {NoLine}) /\ Len(content') = created'
        /\ content'[b] = line /\ \A a \in 1..created : a # b => content'[a] = content[a]
    <3>1. b \in 1..Len(content)
      BY <1>1, <2>2
    <3>2. /\ [content EXCEPT ![b] = line] \in Seq(Line \cup {NoLine})
          /\ Len([content EXCEPT ![b] = line]) = Len(content)
          /\ \A j \in 1..Len(content) :
               [content EXCEPT ![b] = line][j] = IF j = b THEN line ELSE content[j]
      BY <1>1, <1>2, <3>1, ExceptSeq
    <3> QED
      BY <1>1, <2>1, <2>4, <3>1, <3>2
  <2>6. Elems(pool)' = Elems(pool) \ {b} /\ Once(pool')
    BY <2>1, <2>2 DEF Elems
  <2>7. b \notin Elems(queue_) /\ b \notin InHand
    BY <1>3, <2>2
  <2> QED
    BY <1>1, <2>1, <2>2, <2>5, <2>6, <2>7 DEF line
<1>5. CASE pool = <<>>
  <2> DEFINE b == created + 1
  <2>1. /\ pool' = pool /\ created' = b /\ held' = [held EXCEPT ![w] = b]
        /\ content' = Append(content, line)
    BY <1>5 DEF GetObject, Hold
  <2>2. b \notin Elems(queue_) /\ b \notin InHand /\ b \notin Elems(pool)
    BY <1>1 DEF Elems, InHand
  <2> HIDE DEF line
  <2>3. /\ content' \in Seq(Line \cup {NoLine}) /\ Len(content') = created'
        /\ content'[b] = line /\ \A a \in 1..created : a # b => content'[a] = content[a]
    BY <1>1, <1>2, <2>1, AppendProperties
  <2>4. pool' \in Seq(1..created') /\ Once(pool') /\ Elems(pool)' = Elems(pool) \ {b}
    <3>1. pool \in Seq(1..created')
      <4>1. <<>> \in Seq(1..created')
        BY EmptySeq
      <4> QED
        BY <1>5, <4>1
    <3>2. Elems(pool)' = Elems(pool)
      BY <2>1 DEF Elems
    <3> QED
      BY <1>3, <2>1, <2>2, <3>1, <3>2
  <2>5. /\ b \in 1..created' /\ created' \in Nat /\ 0..created \subseteq 0..created'
        /\ 1..created' \subseteq 1..created \cup {b}
    BY <1>1, <2>1
  <2> HIDE DEF b
  <2> QED
    BY <2>1, <2>2, <2>3, <2>4, <2>5 DEF line
<1> QED
  BY <1>4, <1>5

\* getObject(), and the line copied into the buffer.
LEMMA GetObjectKeeps ==
  ASSUME LogInv, ThreadTypeOK, NEW w \in Workers, GetObject(w)
  PROVE  LogInv'
<1>1. /\ os[w] = "running" /\ doing[w] = "idle" /\ logged[w] < Lines[w]
      /\ doing' = [doing EXCEPT ![w] = "push"]
      /\ UNCHANGED <<threadVars, queue_, logged, written, sink>>
  BY DEF GetObject, Free, Go, Workers
<1>2. PICK b \in 1..created' :
           /\ b \notin Elems(queue_) /\ b \notin InHand
           /\ held' = [held EXCEPT ![w] = b]
           /\ created' \in Nat /\ 0..created \subseteq 0..created'
           /\ 1..created' \subseteq 1..created \cup {b}
           /\ content' \in Seq(Line \cup {NoLine}) /\ Len(content') = created'
           /\ content'[b] = <<w, logged[w] + 1>>
           /\ \A a \in 1..created : a # b => content'[a] = content[a]
           /\ reused_object_list_' \in Seq(1..created') /\ Once(reused_object_list_')
           /\ Elems(reused_object_list_)' = Elems(reused_object_list_) \ {b}
  BY ObjectTaken
<1>3. /\ w \in Threads /\ w # log_thread_ /\ log_thread_ \in Threads
      /\ doing \in [Threads -> {"idle", "push", "write", "return", "ending", "ended"}]
      /\ held \in [Threads -> 0..created] /\ created \in Nat
      /\ b \in Nat \ {nullptr} /\ held[w] = nullptr
  BY <1>1, <1>2, LogThreadAssumption DEF LogInv, LogTypes, HandsFit, Workers, nullptr
<1>4. /\ held'[w] = b /\ \A t \in Threads : t # w => held'[t] = held[t]
      /\ doing'[w] = "push" /\ \A t \in Threads : t # w => doing'[t] = doing[t]
      /\ \A t \in Threads : held[t] # nullptr => held[t] \in 1..created /\ held[t] # b
  BY <1>1, <1>2, <1>3 DEF InHand, nullptr
<1>5. LogTypes'
  <2>1. queue_ \in Seq(0..created')
    BY <1>2, SeqMonotonic DEF LogInv, LogTypes
  <2>2. held' \in [Threads -> 0..created']
    <3>1. b \in 0..created' /\ 0..created \subseteq 0..created'
      BY <1>2
    <3>2. held' = [held EXCEPT ![w] = b] /\ held \in [Threads -> 0..created]
      BY <1>2, <1>3
    <3> QED
      BY <3>1, <3>2
  <2>3. doing' \in [Threads -> {"idle", "push", "write", "return", "ending", "ended"}]
    BY <1>1, <1>3
  <2> QED
    BY <1>1, <1>2, <2>1, <2>2, <2>3 DEF LogInv, LogTypes
<1>6. Shared'
  <2>1. /\ InHand' = InHand \cup {b}
        /\ \A u, v \in Threads : held'[u] = held'[v] /\ held'[u] # nullptr => u = v
    BY <1>2, <1>3, HandTakes DEF LogInv
  <2>2. Elems(queue_)' = Elems(queue_)
    BY <1>1 DEF Elems
  <2>3. Once(queue_)'
    BY <1>1 DEF LogInv, Shared, Once
  <2> QED
    BY <1>2, <2>1, <2>2, <2>3 DEF LogInv, Shared, Once
<1>7. HandsFit'
  <2>1. \A v \in Workers :
        /\ doing'[v] \in {"idle", "push"}
        /\ doing'[v] = "push" <=> held'[v] # nullptr
        /\ doing'[v] = "push" => content'[held'[v]] = <<v, logged'[v] + 1>>
        /\ doing'[v] = "push" => os'[v] = "running" /\ logged'[v] < Lines[v]
        /\ os'[v] = "ended" => logged'[v] = Lines[v]
        /\ os'[v] = "none" => ~started_'[v]
    <3> SUFFICES ASSUME NEW v \in Workers
                 PROVE  /\ doing'[v] \in {"idle", "push"}
                        /\ doing'[v] = "push" <=> held'[v] # nullptr
                        /\ doing'[v] = "push" => content'[held'[v]] = <<v, logged'[v] + 1>>
                        /\ doing'[v] = "push" => os'[v] = "running" /\ logged'[v] < Lines[v]
                        /\ os'[v] = "ended" => logged'[v] = Lines[v]
                        /\ os'[v] = "none" => ~started_'[v]
      OBVIOUS
    <3>1. os' = os /\ started_' = started_ /\ logged' = logged /\ v \in Threads
      BY <1>1 DEF threadVars, memberVars, kernelVars, Workers
    <3>2. CASE v = w
      BY <1>1, <1>2, <1>3, <1>4, <3>1, <3>2 DEF LogInv, HandsFit
    <3>3. CASE v # w
      <4>1. /\ doing'[v] = doing[v] /\ held'[v] = held[v]
            /\ held[v] # nullptr => content'[held[v]] = content[held[v]]
        BY <1>2, <1>4, <3>1, <3>3
      <4> QED
        BY <3>1, <4>1 DEF LogInv, HandsFit
    <3> QED
      BY <3>2, <3>3
  <2>2. /\ doing'[log_thread_] = doing[log_thread_] /\ held'[log_thread_] = held[log_thread_]
        /\ doing[log_thread_] = "return" => content'[held[log_thread_]] = NoLine
    BY <1>2, <1>3, <1>4 DEF LogInv, HandsFit
  <2>3. \A a \in Elems(reused_object_list_)' : content'[a] = NoLine
    <3>1. \A a \in Elems(reused_object_list_) : a \in 1..created
      BY LenProperties, ElementOfSeq DEF LogInv, LogTypes, Elems
    <3> QED
      BY <1>2, <3>1 DEF LogInv, HandsFit
  <2> QED
    BY <2>1, <2>2, <2>3 DEF LogInv, HandsFit
<1>8. EndFits'
  BY <1>1, <1>3, <1>4 DEF LogInv, EndFits, Elems, threadVars, kernelVars
<1>9. JoinFits'
  BY <1>1 DEF LogInv, JoinFits, threadVars, memberVars, kernelVars
<1>10. InOrder(Stream, logged)'
  <2>1. doing[log_thread_] = "write" => b # held[log_thread_]
    BY <1>3, <1>4 DEF LogInv, HandsFit
  <2> QED
    BY <1>1, <1>2, <1>3, <1>4, <2>1, StreamSpared DEF LogInv
<1> QED
  BY <1>5, <1>6, <1>7, <1>8, <1>9, <1>10 DEF LogInv

\* Append to the second part of a sequence is Append to the whole.
LEMMA ConcatAppend ==
  ASSUME NEW S, NEW s \in Seq(S), NEW t \in Seq(S), NEW e \in S
  PROVE  s \o Append(t, e) = Append(s \o t, e)
<1>1. Append(t, e) = t \o <<e>> /\ <<e>> \in Seq(S)
  BY AppendIsConcat
<1>2. s \o t \in Seq(S) /\ Append(s \o t, e) = (s \o t) \o <<e>>
  BY ConcatProperties, AppendIsConcat
<1> QED
  BY <1>1, <1>2, ConcatAssociative

\* The pushed buffer adds its line to the end of the stream.
LEMMA StreamGrows ==
  ASSUME LogTypes, Shared, EndFits, NEW h \in 1..created,
         nullptr \notin Elems(queue_), queue_' = Append(queue_, h),
         content[h] \in Line,
         UNCHANGED <<content, written>>,
         doing'[log_thread_] = doing[log_thread_], held'[log_thread_] = held[log_thread_],
         doing[log_thread_] = "write" => held[log_thread_] \in 1..created
  PROVE  Stream' = Append(Stream, content[h])
<1> DEFINE S == Line \cup {NoLine}
<1>1. /\ Buffers = queue_ /\ queue_ \in Seq(1..created) /\ Lined(queue_) \in Seq(S)
      /\ \A b \in 1..created : content[b] \in S
  BY StreamTypes DEF Buffers
<1>2. /\ queue_' \in Seq(1..created) /\ Len(queue_') = Len(queue_) + 1
      /\ \A i \in 1..Len(queue_) : queue_'[i] = queue_[i]
      /\ queue_'[Len(queue_) + 1] = h
      /\ DOMAIN queue_ = 1..Len(queue_) /\ DOMAIN queue_' = 1..Len(queue_')
      /\ Len(queue_) \in Nat
  <2>1. Append(queue_, h) \in Seq(1..created)
    BY <1>1, AppendProperties
  <2> QED
    BY <1>1, <2>1, AppendProperties, LenProperties
<1>3. Buffers' = queue_'
  <2>1. \A i \in DOMAIN queue_' : queue_'[i] # nullptr
    <3>1. \A i \in DOMAIN queue_' : queue_'[i] \in 1..created
      BY <1>2, ElementOfSeq
    <3> QED
      BY <3>1 DEF nullptr, LogTypes
  <2>2. nullptr \notin Elems(queue_)'
    BY <2>1 DEF Elems
  <2> QED
    BY <2>2 DEF Buffers
<1>4. Lined(queue_)' = Append(Lined(queue_), content[h])
  <2> DEFINE l == Lined(queue_)
             l2 == Lined(queue_)'
  <2>1. l \in Seq(S) /\ DOMAIN l = 1..Len(queue_) /\ Len(l) = Len(queue_)
        /\ \A i \in 1..Len(queue_) : l[i] = content[queue_[i]]
    BY <1>1, <1>2, LenProperties DEF Lined
  <2>2. l2 \in Seq(S) /\ Len(l2) = Len(queue_) + 1
        /\ \A i \in 1..Len(queue_) + 1 : l2[i] = content[queue_'[i]]
    <3>1. l2 = [i \in 1..Len(queue_) + 1 |-> content[queue_'[i]]]
      BY <1>2 DEF Lined
    <3>2. \A i \in 1..Len(queue_) + 1 : content[queue_'[i]] \in S
      BY <1>1, <1>2, ElementOfSeq
    <3>3. l2 \in [1..Len(queue_) + 1 -> S]
      BY <3>1, <3>2
    <3>4. l2 \in Seq(S)
      BY <1>2, <3>3, SeqDef
    <3> QED
      BY <1>2, <3>1, <3>4, LenProperties
  <2>3. content[h] \in S
    BY <1>1
  <2> HIDE DEF l, l2, S
  <2>4. l2 = Append(l, content[h])
    <3>1. /\ Append(l, content[h]) \in Seq(S) /\ Len(Append(l, content[h])) = Len(l) + 1
          /\ \A i \in 1..Len(l) : Append(l, content[h])[i] = l[i]
          /\ Append(l, content[h])[Len(l) + 1] = content[h]
      BY <2>1, <2>3, AppendProperties
    <3>2. \A i \in 1..Len(l2) : l2[i] = Append(l, content[h])[i]
      BY <1>2, <2>1, <2>2, <3>1
    <3> QED
      BY <2>1, <2>2, <3>1, <3>2, SeqEqual
  <2> QED
    BY <2>4 DEF l, l2
<1>5. Taken' = Taken /\ Taken \in Seq(S)
  <2>1. CASE doing[log_thread_] = "write"
    BY <1>1, <2>1 DEF Taken
  <2>2. CASE doing[log_thread_] # "write"
    BY <2>2, EmptySeq DEF Taken
  <2> QED
    BY <2>1, <2>2
<1>6. written \o Taken \in Seq(S)
  <2>1. written \in Seq(S)
    BY SeqMonotonic DEF LogTypes
  <2> QED
    BY <1>5, <2>1, ConcatProperties
<1>7. Stream' = (written \o Taken) \o Append(Lined(queue_), content[h])
  BY <1>3, <1>4, <1>5 DEF Stream
<1>8. Stream = (written \o Taken) \o Lined(queue_)
  BY <1>1 DEF Stream
<1>9. content[h] \in S
  OBVIOUS
<1> HIDE DEF S
<1> QED
  BY <1>1, <1>6, <1>7, <1>8, <1>9, ConcatAppend

\* queue_.push: the line is logged, the buffer is no longer the worker's.
LEMMA PushKeeps ==
  ASSUME LogInv, ThreadTypeOK, NEW w \in Workers, Push(w)
  PROVE  LogInv'
<1> DEFINE h == held[w]
<1>1. /\ doing[w] = "push" /\ queue_' = Append(queue_, h)
      /\ logged' = [logged EXCEPT ![w] = @ + 1]
      /\ held' = [held EXCEPT ![w] = nullptr] /\ doing' = [doing EXCEPT ![w] = "idle"]
      /\ UNCHANGED <<threadVars, reused_object_list_, created, content, written, sink>>
  BY DEF Push, Hold, Go
<1>2. /\ w \in Threads /\ w # log_thread_ /\ log_thread_ \in Threads
      /\ doing \in [Threads -> {"idle", "push", "write", "return", "ending", "ended"}]
      /\ held \in [Threads -> 0..created] /\ created \in Nat
      /\ logged \in [Workers -> Nat]
  BY LogThreadAssumption DEF LogInv, LogTypes, Workers
<1>3. /\ h # nullptr /\ os[w] = "running" /\ content[h] = <<w, logged[w] + 1>>
      /\ logged[w] < Lines[w]
  BY <1>1 DEF LogInv, HandsFit
<1>4. h \in 1..created /\ h \in 0..created
  BY <1>2, <1>3 DEF nullptr
<1>5. nullptr \notin Elems(queue_) /\ sink \in {"none", "open"}
      /\ doing[log_thread_] \notin {"ending", "ended"}
  BY <1>3 DEF LogInv, EndFits
<1>6. /\ held'[w] = nullptr /\ \A t \in Threads : t # w => held'[t] = held[t]
      /\ doing'[w] = "idle" /\ \A t \in Threads : t # w => doing'[t] = doing[t]
      /\ logged'[w] = logged[w] + 1 /\ \A v \in Workers : v # w => logged'[v] = logged[v]
      /\ os' = os /\ started_' = started_
  BY <1>1, <1>2 DEF threadVars, memberVars, kernelVars
<1>7. /\ InHand' = InHand \ {h} /\ h \in InHand
      /\ \A u, v \in Threads : held'[u] = held'[v] /\ held'[u] # nullptr => u = v
  BY <1>1, <1>2, <1>3, HandGives DEF LogInv
<1>8. /\ queue_' \in Seq(0..created) /\ Once(queue_')
      /\ Elems(queue_)' = Elems(queue_) \cup {h}
  <2>1. queue_ \in Seq(0..created) /\ Once(queue_) /\ h \notin Elems(queue_)
    BY <1>7 DEF LogInv, LogTypes, Shared
  <2> DEFINE a == Append(queue_, h)
  <2>2. Once(a) /\ Elems(a) = Elems(queue_) \cup {h}
    BY <1>4, <2>1, OnceAppend
  <2>3. a \in Seq(0..created)
    BY <1>4, <2>1, AppendProperties
  <2>4. queue_' = a
    BY <1>1
  <2> HIDE DEF a
  <2> QED
    BY <2>2, <2>3, <2>4 DEF Elems
<1>9. LogTypes'
  <2>1. held' \in [Threads -> 0..created] /\ logged' \in [Workers -> Nat]
    BY <1>1, <1>2 DEF nullptr
  <2>2. doing' \in [Threads -> {"idle", "push", "write", "return", "ending", "ended"}]
    BY <1>1, <1>2
  <2> QED
    BY <1>1, <1>8, <2>1, <2>2 DEF LogInv, LogTypes
<1>10. Shared'
  <2>1. Elems(reused_object_list_)' = Elems(reused_object_list_)
    BY <1>1 DEF Elems
  <2> QED
    BY <1>1, <1>7, <1>8, <2>1 DEF LogInv, Shared, Once
<1>11. HandsFit'
  <2>1. \A v \in Workers :
        /\ doing'[v] \in {"idle", "push"}
        /\ doing'[v] = "push" <=> held'[v] # nullptr
        /\ doing'[v] = "push" => content[held'[v]] = <<v, logged'[v] + 1>>
        /\ doing'[v] = "push" => os[v] = "running" /\ logged'[v] < Lines[v]
        /\ os[v] = "ended" => logged'[v] = Lines[v]
        /\ os[v] = "none" => ~started_[v]
    <3> SUFFICES ASSUME NEW v \in Workers
                 PROVE  /\ doing'[v] \in {"idle", "push"}
                        /\ doing'[v] = "push" <=> held'[v] # nullptr
                        /\ doing'[v] = "push" => content[held'[v]] = <<v, logged'[v] + 1>>
                        /\ doing'[v] = "push" => os[v] = "running" /\ logged'[v] < Lines[v]
                        /\ os[v] = "ended" => logged'[v] = Lines[v]
                        /\ os[v] = "none" => ~started_[v]
      OBVIOUS
    <3>1. CASE v = w
      BY <1>3, <1>6, <3>1
    <3>2. CASE v # w
      <4>1. doing'[v] = doing[v] /\ held'[v] = held[v] /\ logged'[v] = logged[v]
        BY <1>6, <3>2 DEF Workers
      <4> QED
        BY <4>1 DEF LogInv, HandsFit
    <3> QED
      BY <3>1, <3>2
  <2>2. doing'[log_thread_] = doing[log_thread_] /\ held'[log_thread_] = held[log_thread_]
    BY <1>2, <1>6
  <2> QED
    BY <1>1, <1>6, <2>1, <2>2 DEF LogInv, HandsFit, Elems
<1>12. EndFits'
  <2>1. nullptr \notin Elems(queue_)'
    BY <1>3, <1>5, <1>8
  <2> QED
    BY <1>1, <1>2, <1>5, <1>6, <2>1 DEF LogInv, EndFits
<1>13. JoinFits'
  BY <1>1 DEF LogInv, JoinFits, threadVars, memberVars, kernelVars
<1>14. InOrder(Stream, logged)'
  <2> DEFINE s2 == Append(Stream, <<w, logged[w] + 1>>)
  <2>1. Stream' = s2
    <3>1. doing[log_thread_] = "write" => held[log_thread_] \in 1..created
      BY <1>2 DEF LogInv, HandsFit, nullptr
    <3>2. content[h] \in Line
      BY <1>2, <1>3 DEF Line
    <3>3. doing'[log_thread_] = doing[log_thread_] /\ held'[log_thread_] = held[log_thread_]
      BY <1>2, <1>6
    <3> HIDE DEF h
    <3>4. Stream' = Append(Stream, content[h])
      BY <1>1, <1>4, <1>5, <3>1, <3>2, <3>3, StreamGrows DEF LogInv
    <3> QED
      BY <1>3, <3>4
  <2>2. InOrder(s2, [logged EXCEPT ![w] = @ + 1])
    BY <1>2, InOrderGrows DEF LogInv
  <2> HIDE DEF s2
  <2>3. InOrder(Stream', logged')
    BY <1>1, <2>1, <2>2
  <2> QED
    BY <2>3 DEF InOrder
<1> QED
  BY <1>9, <1>10, <1>11, <1>12, <1>13, <1>14 DEF LogInv

-----------------------------------------------------------------------------
(* logThreadFunc() *)

\* Taking the first element leaves the last one where it is.
LEMMA FrontOfTail ==
  ASSUME NEW S, NEW s \in Seq(S), s # <<>>, Head(s) # Last(s)
  PROVE  /\ Tail(s) # <<>> /\ Last(Tail(s)) = Last(s) /\ Front(s) # <<>>
         /\ Front(s) \in Seq(S) /\ Head(Front(s)) = Head(s) /\ Tail(Front(s)) = Front(Tail(s))
<1> DEFINE t == Tail(s)
           f == Front(s)
           n == Len(s)
<1>1. /\ n \in Nat \ {0} /\ Head(s) = s[1] /\ Last(s) = s[n] /\ Len(<<>>) = 0
      /\ t \in Seq(S) /\ Len(t) = n - 1 /\ \A i \in 1..n - 1 : t[i] = s[i + 1]
  BY HeadTailProperties, LenProperties, EmptySeq DEF Last
<1>2. n > 1
  BY <1>1
<1>3. f \in Seq(S) /\ Len(f) = n - 1 /\ \A i \in 1..n - 1 : f[i] = s[i]
  BY FrontProperties
<1> SUFFICES /\ t # <<>> /\ Last(t) = Last(s) /\ f # <<>>
             /\ f \in Seq(S) /\ Head(f) = Head(s) /\ Tail(f) = Front(t)
  OBVIOUS
<1> HIDE DEF t, f, n
<1>4. t # <<>> /\ f # <<>>
  BY <1>1, <1>2, <1>3
<1>5. Last(t) = Last(s)
  BY <1>1, <1>2 DEF Last
<1>6. Head(f) = Head(s)
  BY <1>1, <1>2, <1>3, <1>4, HeadTailProperties
<1>7. /\ Tail(f) \in Seq(S) /\ Len(Tail(f)) = n - 2
      /\ \A i \in 1..n - 2 : Tail(f)[i] = s[i + 1]
  <2>1. /\ Tail(f) \in Seq(S) /\ Len(Tail(f)) = Len(f) - 1
        /\ \A i \in 1..Len(Tail(f)) : Tail(f)[i] = f[i + 1]
    BY <1>3, <1>4, HeadTailProperties
  <2> QED
    BY <1>1, <1>2, <1>3, <2>1
<1>8. /\ Front(t) \in Seq(S) /\ Len(Front(t)) = n - 2
      /\ \A i \in 1..n - 2 : Front(t)[i] = s[i + 1]
  <2>1. /\ Front(t) \in Seq(S) /\ Len(Front(t)) = Len(t) - 1
        /\ \A i \in 1..Len(t) - 1 : Front(t)[i] = t[i]
    BY <1>1, <1>4, FrontProperties
  <2> QED
    BY <1>1, <1>2, <2>1
<1>9. Tail(f) = Front(t)
  <2> DEFINE a == Tail(f)
             b == Front(t)
  <2>1. a \in Seq(S) /\ b \in Seq(S) /\ Len(a) = Len(b) /\ \A i \in 1..Len(a) : a[i] = b[i]
    BY <1>7, <1>8
  <2> HIDE DEF a, b
  <2>2. a = b
    BY <2>1, SeqEqual
  <2> QED
    BY <2>2 DEF a, b
<1> QED
  BY <1>3, <1>4, <1>5, <1>6, <1>9

\* A sequence is its first element and the rest.
LEMMA HeadThenTail ==
  ASSUME NEW S, NEW s \in Seq(S), s # <<>>
  PROVE  s = <<Head(s)>> \o Tail(s)
<1>1. /\ Len(s) \in Nat \ {0} /\ Head(s) = s[1] /\ Head(s) \in S
      /\ Tail(s) \in Seq(S) /\ Len(Tail(s)) = Len(s) - 1
      /\ \A i \in 1..Len(s) - 1 : Tail(s)[i] = s[i + 1]
  BY HeadTailProperties, EmptySeq
<1> DEFINE h == <<Head(s)>>
           t == Tail(s)
<1>2. h \in Seq(S) /\ Len(h) = 1 /\ h[1] = s[1]
  BY <1>1
<1>3. t \in Seq(S) /\ Len(t) = Len(s) - 1 /\ \A i \in 1..Len(s) - 1 : t[i] = s[i + 1]
  BY <1>1
<1> HIDE DEF h, t
<1>4. h \o t \in Seq(S) /\ Len(h \o t) = Len(h) + Len(t)
      /\ \A i \in 1..Len(h) + Len(t) :
           (h \o t)[i] = IF i <= Len(h) THEN h[i] ELSE t[i - Len(h)]
  <2>1. h \in Seq(S) /\ t \in Seq(S)
    BY <1>2, <1>3
  <2> QED
    BY <2>1, ConcatProperties
<1>5. ASSUME NEW i \in 1..Len(s) PROVE s[i] = (h \o t)[i]
  <2>1. CASE i = 1
    BY <1>1, <1>2, <1>3, <1>4, <2>1
  <2>2. CASE i # 1
    <3>1. i - 1 \in 1..Len(s) - 1 /\ i - 1 + 1 = i
      BY <1>1, <2>2
    <3>2. t[i - 1] = s[i]
      BY <1>3, <3>1
    <3> QED
      BY <1>1, <1>2, <1>3, <1>4, <2>2, <3>2
  <2> QED
    BY <2>1, <2>2
<1>6. s = h \o t
  <2> DEFINE c == h \o t
  <2>1. c \in Seq(S) /\ Len(c) = Len(s) /\ \A i \in 1..Len(s) : s[i] = c[i]
    BY <1>1, <1>2, <1>3, <1>4, <1>5
  <2> HIDE DEF c
  <2>2. s = c
    BY <2>1, SeqEqual
  <2> QED
    BY <2>2 DEF c
<1> QED
  BY <1>6 DEF h, t

\* The lines in all but the first buffer.
LEMMA LinedTail ==
  ASSUME LogTypes, NEW q \in Seq(1..created), q # <<>>
  PROVE  /\ Lined(q) \in Seq(Line \cup {NoLine}) /\ Lined(q) # <<>>
         /\ Head(Lined(q)) = content[Head(q)] /\ Tail(Lined(q)) = Lined(Tail(q))
<1> DEFINE S == Line \cup {NoLine}
           l == Lined(q)
           t == Tail(q)
           n == Len(q)
<1>1. /\ n \in Nat \ {0} /\ DOMAIN q = 1..n /\ Head(q) = q[1]
      /\ t \in Seq(1..created) /\ Len(t) = n - 1 /\ DOMAIN t = 1..n - 1
      /\ \A i \in 1..n - 1 : t[i] = q[i + 1]
  BY HeadTailProperties, LenProperties, EmptySeq
<1>2. \A i \in 1..n : content[q[i]] \in S
  <2>1. DOMAIN content = 1..created /\ \A b \in 1..created : content[b] \in S
    BY LenProperties, ElementOfSeq DEF LogTypes
  <2> QED
    BY <2>1, ElementOfSeq
<1>3. l \in [1..n -> S] /\ \A i \in 1..n : l[i] = content[q[i]]
  BY <1>1, <1>2 DEF Lined
<1>4. l \in Seq(S) /\ Len(l) = n
  BY <1>1, <1>3, SeqDef
<1>5. l # <<>> /\ Head(l) = content[q[1]]
  <2>1. Len(<<>>) = 0
    BY EmptySeq
  <2> HIDE DEF l
  <2>2. l # <<>>
    BY <1>1, <1>4, <2>1
  <2> QED
    BY <1>1, <1>3, <1>4, <2>2, HeadTailProperties
<1>6. /\ Tail(l) \in Seq(S) /\ Len(Tail(l)) = n - 1
      /\ \A i \in 1..n - 1 : Tail(l)[i] = content[t[i]]
  <2>1. /\ Tail(l) \in Seq(S) /\ Len(Tail(l)) = Len(l) - 1
        /\ \A i \in 1..Len(Tail(l)) : Tail(l)[i] = l[i + 1]
    <3> HIDE DEF l, S
    <3> QED
      BY <1>4, <1>5, HeadTailProperties
  <2>2. \A i \in 1..n - 1 : l[i + 1] = content[q[i + 1]]
    BY <1>1, <1>3
  <2> HIDE DEF l, t
  <2> QED
    BY <1>1, <1>4, <2>1, <2>2
<1>7. Tail(l) = Lined(t)
  <2>1. Lined(t) = [i \in 1..n - 1 |-> content[t[i]]]
    BY <1>1 DEF Lined
  <2> DEFINE a == Tail(l)
  <2>2. a \in Seq(S) /\ Len(a) = n - 1 /\ \A i \in 1..n - 1 : a[i] = content[t[i]]
    BY <1>6
  <2> HIDE DEF a, t, n, S
  <2>3. a \in [1..n - 1 -> S]
    BY <2>2, LenProperties
  <2>4. a = Lined(t)
    BY <2>1, <2>2, <2>3
  <2> QED
    BY <2>4 DEF a
<1> QED
  BY <1>1, <1>4, <1>5, <1>7

\* The logging thread takes the first of the queued lines.
LEMMA StreamPops ==
  ASSUME LogTypes, Shared, EndFits, NEW h, h = Head(queue_), h # nullptr,
         queue_ # <<>>, queue_' = Tail(queue_),
         doing[log_thread_] = "idle", doing'[log_thread_] = "write", held'[log_thread_] = h,
         UNCHANGED <<content, written>>
  PROVE  /\ Stream' = Stream
         /\ nullptr \in Elems(queue_) => queue_' # <<>> /\ Last(queue_') = Last(queue_)
<1> DEFINE S == Line \cup {NoLine}
<1>1. /\ Buffers \in Seq(1..created) /\ Lined(Buffers) \in Seq(S)
      /\ \A b \in 1..created : content[b] \in S
  BY StreamTypes
<1>2. queue_ \in Seq(0..created) /\ Once(queue_)
  BY DEF LogTypes, Shared
<1>3. Elems(queue_)' = Elems(queue_) \ {h}
  <2>1. Elems(Tail(queue_)) = Elems(queue_) \ {h}
    BY <1>2, OnceTail
  <2> QED
    BY <2>1 DEF Elems
<1>4. /\ Buffers # <<>> /\ Head(Buffers) = h /\ Buffers' = Tail(Buffers)
      /\ nullptr \in Elems(queue_) => queue_' # <<>> /\ Last(queue_') = Last(queue_)
  <2>1. CASE nullptr \in Elems(queue_)
    <3>1. Head(queue_) # Last(queue_)
      BY <2>1 DEF EndFits
    <3>2. /\ Tail(queue_) # <<>> /\ Last(Tail(queue_)) = Last(queue_)
          /\ Front(queue_) # <<>> /\ Head(Front(queue_)) = Head(queue_)
          /\ Tail(Front(queue_)) = Front(Tail(queue_))
      BY <1>2, <3>1, FrontOfTail
    <3>3. Buffers = Front(queue_) /\ Buffers' = Front(Tail(queue_))
      BY <1>3, <2>1 DEF Buffers
    <3> QED
      BY <3>2, <3>3
  <2>2. CASE nullptr \notin Elems(queue_)
    BY <1>3, <2>2 DEF Buffers
  <2> QED
    BY <2>1, <2>2
<1> DEFINE l == Lined(Buffers)
           t == Lined(Tail(Buffers))
           c == content[h]
<1>5. l = <<c>> \o t /\ t \in Seq(S) /\ l \in Seq(S)
  <2>1. /\ l \in Seq(S) /\ l # <<>> /\ Head(l) = c /\ Tail(l) = t
    BY <1>1, <1>4, LinedTail
  <2> HIDE DEF l, t, c, S
  <2> QED
    BY <2>1, HeadThenTail, HeadTailProperties
<1>6. Lined(Buffers)' = t
  <2>1. Lined(Buffers)' = [i \in DOMAIN Tail(Buffers) |-> content[Tail(Buffers)[i]]]
    BY <1>4 DEF Lined
  <2> QED
    BY <2>1 DEF Lined
<1>7. written \in Seq(S) /\ <<c>> \in Seq(S)
  <2>1. Head(Buffers) \in 1..created
    BY <1>1, <1>4, HeadTailProperties
  <2> QED
    BY <1>1, <1>4, <2>1, SeqMonotonic DEF LogTypes
<1>8. Taken = <<>> /\ Taken' = <<c>>
  BY DEF Taken
<1>9. Stream = (written \o <<>>) \o l /\ Stream' = (written \o <<c>>) \o t
  BY <1>6, <1>8 DEF Stream
<1> HIDE DEF l, t, c, S
<1>10. written \o <<>> = written
  BY <1>7, ConcatEmptySeq
<1>11. (written \o <<c>>) \o t = written \o (<<c>> \o t)
  BY <1>5, <1>7, ConcatAssociative
<1> QED
  BY <1>4, <1>5, <1>9, <1>10, <1>11

\* A sequence without elements.
LEMMA NoElems ==
  ASSUME NEW S, NEW s \in Seq(S), Len(s) = 0 \/ Elems(s) = {}
  PROVE  s = <<>>
<1>1. s # <<>> => Len(s) \in Nat \ {0}
  BY EmptySeq
<1>2. DOMAIN s = 1..Len(s)
  BY LenProperties
<1>3. s # <<>> => s[1] \in Elems(s)
  BY <1>1, <1>2 DEF Elems
<1> QED
  BY <1>1, <1>3

\* Nothing is queued behind the null.
LEMMA NullIsLast ==
  ASSUME LogTypes, Shared, EndFits, queue_ # <<>>, Head(queue_) = nullptr
  PROVE  Tail(queue_) = <<>> /\ sink \notin {"none", "open"}
<1>1. /\ Len(queue_) \in Nat \ {0} /\ Head(queue_) = queue_[1] /\ Last(queue_) = queue_[Len(queue_)]
      /\ Tail(queue_) \in Seq(0..created) /\ Len(Tail(queue_)) = Len(queue_) - 1
      /\ DOMAIN queue_ = 1..Len(queue_)
  BY HeadTailProperties, LenProperties, EmptySeq DEF LogTypes, Last
<1>2. nullptr \in Elems(queue_)
  BY <1>1 DEF Elems
<1>3. Last(queue_) = nullptr /\ sink \notin {"none", "open"}
  BY <1>2 DEF EndFits
<1>4. Len(queue_) = 1
  <2>1. 1 \in DOMAIN queue_ /\ Len(queue_) \in DOMAIN queue_ /\ queue_[1] = queue_[Len(queue_)]
    BY <1>1, <1>3
  <2> QED
    BY <2>1 DEF Shared, Once
<1>5. Tail(queue_) = <<>>
  <2>1. Len(Tail(queue_)) = 0
    BY <1>1, <1>4
  <2> QED
    BY <1>1, <2>1, NoElems
<1> QED
  BY <1>3, <1>5

\* queue_.pop, of a buffer or of the null.
LEMMA PopKeeps ==
  ASSUME LogInv, ThreadTypeOK, Pop
  PROVE  LogInv'
<1> DEFINE L == log_thread_
           h == Head(queue_)
           to == IF h = nullptr THEN "ending" ELSE "write"
<1>1. /\ os[L] = "running" /\ doing[L] = "idle" /\ queue_ # <<>> /\ queue_' = Tail(queue_)
      /\ held' = [held EXCEPT ![L] = h] /\ doing' = [doing EXCEPT ![L] = to]
      /\ UNCHANGED <<threadVars, reused_object_list_, created, content, logged, written, sink>>
  BY DEF Pop, Hold, Go
<1>2. /\ L \in Threads /\ L \notin Workers /\ Workers \subseteq Threads /\ created \in Nat
      /\ doing \in [Threads -> {"idle", "push", "write", "return", "ending", "ended"}]
      /\ held \in [Threads -> 0..created] /\ queue_ \in Seq(0..created) /\ Once(queue_)
      /\ held[L] = nullptr
  BY <1>1, LogThreadAssumption DEF LogInv, LogTypes, Shared, HandsFit, Workers
<1>3. h \in Elems(queue_) /\ h \in 0..created /\ queue_' \in Seq(0..created)
  BY <1>1, <1>2, OnceTail, HeadTailProperties
<1>4. Once(queue_)' /\ Elems(queue_)' = Elems(queue_) \ {h}
  <2>1. Once(Tail(queue_)) /\ Elems(Tail(queue_)) = Elems(queue_) \ {h}
    BY <1>1, <1>2, OnceTail
  <2> QED
    BY <1>1, <2>1 DEF Once, Elems
<1>5. /\ held'[L] = h /\ \A t \in Threads : t # L => held'[t] = held[t]
      /\ doing'[L] = to /\ \A t \in Threads : t # L => doing'[t] = doing[t]
      /\ os' = os /\ started_' = started_
  BY <1>1, <1>2 DEF threadVars, memberVars, kernelVars
<1>6. LogTypes'
  <2>1. held' \in [Threads -> 0..created]
    BY <1>1, <1>2, <1>3
  <2>2. doing' \in [Threads -> {"idle", "push", "write", "return", "ending", "ended"}]
    BY <1>1, <1>2
  <2> QED
    BY <1>1, <1>3, <2>1, <2>2 DEF LogInv, LogTypes
<1>7. /\ InHand' = InHand \cup ({h} \ {nullptr})
      /\ \A u, v \in Threads : held'[u] = held'[v] /\ held'[u] # nullptr => u = v
  <2>1. CASE h = nullptr
    <3>1. held' = held
      BY <1>1, <1>2, <2>1
    <3> QED
      BY <2>1, <3>1 DEF InHand, LogInv, Shared
  <2>2. CASE h # nullptr
    <3>1. h \in Nat \ {nullptr} /\ h \notin InHand
      BY <1>2, <1>3, <2>2 DEF LogInv, Shared
    <3> HIDE DEF h
    <3>2. /\ InHand' = InHand \cup {h}
          /\ \A u, v \in Threads : held'[u] = held'[v] /\ held'[u] # nullptr => u = v
      BY <1>1, <1>2, <3>1, HandTakes DEF LogInv
    <3> QED
      BY <2>2, <3>2
  <2> QED
    BY <2>1, <2>2
<1>8. Shared'
  <2>1. /\ Elems(reused_object_list_)' = Elems(reused_object_list_)
        /\ Once(reused_object_list_)'
    BY <1>1 DEF LogInv, Shared, Once, Elems
  <2>2. nullptr \notin 1..created
    BY DEF nullptr
  <2> HIDE DEF h
  <2> QED
    BY <1>1, <1>3, <1>4, <1>7, <2>1, <2>2 DEF LogInv, Shared
<1>9. HandsFit'
  <2>1. \A v \in Workers : doing'[v] = doing[v] /\ held'[v] = held[v]
    BY <1>2, <1>5
  <2>2. /\ doing'[L] \notin {"push", "return"} /\ doing'[L] = "write" <=> held'[L] # nullptr
    BY <1>5
  <2> QED
    BY <1>1, <1>5, <2>1, <2>2 DEF LogInv, HandsFit, Elems
<1>10. EndFits'
  <2>1. CASE h = nullptr
    <3>1. /\ queue_' = <<>> /\ sink \notin {"none", "open"}
      BY <1>1, <2>1, NullIsLast DEF LogInv
    <3>2. nullptr \notin Elems(queue_)' /\ nullptr \in Elems(queue_)
      BY <1>3, <1>4, <2>1
    <3> QED
      BY <1>1, <1>5, <2>1, <3>1, <3>2 DEF LogInv, EndFits
  <2>2. CASE h # nullptr
    <3>1. nullptr \in Elems(queue_)' <=> nullptr \in Elems(queue_)
      BY <1>4, <2>2
    <3>2. nullptr \in Elems(queue_) => Last(queue_') = Last(queue_)
      BY <1>1, <1>5, <2>2, StreamPops DEF LogInv
    <3> QED
      BY <1>1, <1>5, <2>2, <3>1, <3>2 DEF LogInv, EndFits
  <2> QED
    BY <2>1, <2>2
<1>11. JoinFits'
  BY <1>1 DEF LogInv, JoinFits, threadVars, memberVars, kernelVars
<1>12. InOrder(Stream, logged)'
  <2>1. CASE h = nullptr
    <3>1. queue_' = <<>> /\ nullptr \in Elems(queue_) /\ nullptr \notin Elems(queue_)'
      BY <1>1, <1>3, <1>4, <2>1, NullIsLast DEF LogInv
    <3>2. Buffers' = <<>>
      BY <3>1 DEF Buffers
    <3>3. Buffers = <<>>
      <4>1. Front(queue_) \in Seq(0..created) /\ Elems(Front(queue_)) = {}
        <5>1. Last(queue_) = nullptr /\ Elems(Tail(queue_)) = {}
          BY <1>1, <3>1 DEF LogInv, EndFits, Elems
        <5>2. Elems(queue_) = {nullptr}
          BY <1>1, <1>2, <1>3, <2>1, <5>1, OnceTail
        <5> QED
          BY <1>1, <1>2, <5>1, <5>2, OnceFront
      <4>2. Front(queue_) = <<>>
        BY <4>1, NoElems
      <4> QED
        BY <3>1, <4>2 DEF Buffers
    <3>4. Lined(Buffers)' = Lined(Buffers)
      BY <3>2, <3>3 DEF Lined
    <3>5. Taken' = Taken
      BY <1>1, <1>5, <2>1 DEF Taken
    <3> QED
      BY <1>1, <3>4, <3>5, StreamStays DEF LogInv, Stream
  <2>2. CASE h # nullptr
    <3>1. Stream' = Stream
      BY <1>1, <1>5, <2>2, StreamPops DEF LogInv
    <3> QED
      BY <1>1, <3>1, StreamStays DEF LogInv
  <2> QED
    BY <2>1, <2>2
<1> QED
  BY <1>6, <1>8, <1>9, <1>10, <1>11, <1>12 DEF LogInv

\* Buffers that stay where they are.
LEMMA SharedStays ==
  ASSUME Shared, UNCHANGED <<created, reused_object_list_, queue_, held>>
  PROVE  Shared'
<1>1. /\ Elems(reused_object_list_)' = Elems(reused_object_list_)
      /\ Elems(queue_)' = Elems(queue_) /\ InHand' = InHand
  BY DEF Elems, InHand
<1>2. Once(reused_object_list_)' /\ Once(queue_)'
  BY DEF Shared, Once
<1> QED
  BY <1>1, <1>2 DEF Shared

\* The front part of a sequence of some set is one too.
LEMMA ConcatFront ==
  ASSUME NEW S, NEW T, NEW s \in Seq(S), NEW t \in Seq(S), s \o t \in Seq(T)
  PROVE  s \in Seq(T)
<1> DEFINE c == s \o t
<1>1. /\ Len(c) = Len(s) + Len(t) /\ Len(s) \in Nat /\ Len(t) \in Nat
      /\ \A i \in 1..Len(s) + Len(t) : c[i] = IF i <= Len(s) THEN s[i] ELSE t[i - Len(s)]
      /\ s \in [1..Len(s) -> S]
  BY ConcatProperties, LenProperties
<1>2. \A i \in 1..Len(c) : c[i] \in T
  BY ElementOfSeq
<1> HIDE DEF c
<1>3. \A i \in 1..Len(s) : s[i] \in T
  BY <1>1, <1>2
<1>4. s \in [1..Len(s) -> T]
  BY <1>1, <1>3
<1> QED
  BY <1>1, <1>4, SeqDef

\* The adapted sink is given the line, and the buffer is read empty.
LEMMA LineWritten ==
  ASSUME LogInv, ThreadTypeOK, Write
  PROVE  LogInv'
<1> DEFINE L == log_thread_
           h == held[L]
           c == content[h]
           S == Line \cup {NoLine}
<1>1. /\ doing[L] = "write" /\ written' = Append(written, c)
      /\ content' = [content EXCEPT ![h] = NoLine] /\ doing' = [doing EXCEPT ![L] = "return"]
      /\ UNCHANGED <<threadVars, reused_object_list_, created, queue_, held, logged, sink>>
  BY DEF Write, Go
<1>2. /\ L \in Threads /\ L \notin Workers /\ Workers \subseteq Threads /\ created \in Nat
      /\ doing \in [Threads -> {"idle", "push", "write", "return", "ending", "ended"}]
      /\ held \in [Threads -> 0..created] /\ queue_ \in Seq(0..created)
      /\ content \in Seq(S) /\ Len(content) = created /\ written \in Seq(Line)
      /\ reused_object_list_ \in Seq(1..created)
  BY LogThreadAssumption DEF LogInv, LogTypes, Workers
<1>3. h # nullptr /\ h \in 1..created /\ h \in InHand
  BY <1>1, <1>2 DEF LogInv, HandsFit, InHand, nullptr
<1>4. h \notin Elems(queue_) /\ h \notin Elems(reused_object_list_)
      /\ \A t \in Threads : t # L => held[t] # h
  BY <1>2, <1>3 DEF LogInv, Shared
<1>5. /\ content' \in Seq(S) /\ Len(content') = created
      /\ content'[h] = NoLine /\ \A b \in 1..created : b # h => content'[b] = content[b]
  <2>1. NoLine \in S /\ h \in 1..Len(content)
    BY <1>2, <1>3
  <2> HIDE DEF h, S
  <2>2. /\ [content EXCEPT ![h] = NoLine] \in Seq(S)
        /\ Len([content EXCEPT ![h] = NoLine]) = Len(content)
        /\ \A j \in 1..Len(content) :
             [content EXCEPT ![h] = NoLine][j] = IF j = h THEN NoLine ELSE content[j]
    BY <1>2, <2>1, ExceptSeq
  <2> QED
    BY <1>1, <1>2, <2>1, <2>2
<1>6. doing'[L] = "return" /\ \A t \in Threads : t # L => doing'[t] = doing[t]
  BY <1>1, <1>2
<1>7. /\ Lined(Buffers) \in Seq(S) /\ Buffers \in Seq(1..created)
      /\ Elems(Buffers) = Elems(queue_) \ {nullptr} /\ c \in S /\ written \in Seq(S)
      /\ Taken = <<c>>
  BY <1>1, <1>2, <1>3, StreamTypes, SeqMonotonic DEF LogInv, Taken
<1>8. written \o <<c>> = written' /\ written' \in Seq(Line) /\ written' \in Seq(S)
  <2> HIDE DEF c, S
  <2>1. written \o <<c>> \in Seq(S) /\ written \o <<c>> = Append(written, c)
    <3>1. <<c>> \in Seq(S)
      BY <1>7
    <3> QED
      BY <1>7, <3>1, ConcatProperties, AppendIsConcat
  <2>2. (written \o <<c>>) \o Lined(Buffers) \in Seq(Line)
    BY <1>7 DEF LogInv, InOrder, Stream
  <2>3. written \o <<c>> \in Seq(Line)
    BY <1>7, <2>1, <2>2, ConcatFront
  <2> QED
    BY <1>1, <2>1, <2>3
<1>9. LogTypes'
  <2>1. doing' \in [Threads -> {"idle", "push", "write", "return", "ending", "ended"}]
    BY <1>1, <1>2
  <2> QED
    BY <1>1, <1>5, <1>8, <2>1 DEF LogInv, LogTypes
<1>10. Shared'
  BY <1>1, SharedStays DEF LogInv
<1>11. HandsFit'
  <2>1. ASSUME NEW w \in Workers, doing[w] = "push" PROVE content'[held[w]] = content[held[w]]
    <3>1. held[w] # h /\ held[w] \in 1..created
      BY <1>2, <1>4, <2>1 DEF LogInv, HandsFit, nullptr
    <3> QED
      BY <1>5, <3>1
  <2>2. \A b \in Elems(reused_object_list_) : content'[b] = NoLine
    <3>1. \A b \in Elems(reused_object_list_) : b \in 1..created /\ b # h
      BY <1>2, <1>4, LenProperties, ElementOfSeq DEF Elems
    <3> QED
      BY <1>5, <3>1 DEF LogInv, HandsFit
  <2>3. /\ os' = os /\ started_' = started_ /\ \A w \in Workers : doing'[w] = doing[w]
        /\ Elems(reused_object_list_)' = Elems(reused_object_list_)
    BY <1>1, <1>2, <1>6 DEF threadVars, memberVars, kernelVars, Elems
  <2>4. /\ doing'[L] \notin {"push", "write"} /\ doing'[L] = "return" /\ held'[L] # nullptr
        /\ content'[held'[L]] = NoLine
    BY <1>1, <1>3, <1>5, <1>6
  <2> QED
    BY <1>1, <2>1, <2>2, <2>3, <2>4 DEF LogInv, HandsFit
<1>12. EndFits'
  BY <1>1, <1>6 DEF LogInv, EndFits, Elems, threadVars, kernelVars
<1>13. JoinFits'
  BY <1>1 DEF LogInv, JoinFits, threadVars, memberVars, kernelVars
<1>14. InOrder(Stream, logged)'
  <2>1. Buffers' = Buffers
    BY <1>1 DEF Buffers, Elems
  <2>2. Lined(Buffers)' = Lined(Buffers)
    <3>1. \A i \in DOMAIN Buffers : Buffers[i] \in Elems(queue_) /\ Buffers[i] \in 1..created
      <4>1. \A i \in DOMAIN Buffers : Buffers[i] \in Elems(Buffers)
        BY DEF Elems
      <4>2. Buffers \in Seq(1..created)
        BY <1>7
      <4>3. \A i \in DOMAIN Buffers : Buffers[i] \in 1..created
        BY <4>2, LenProperties, ElementOfSeq
      <4> QED
        BY <1>7, <4>1, <4>3
    <3>2. \A i \in DOMAIN Buffers : content'[Buffers[i]] = content[Buffers[i]]
      BY <1>4, <1>5, <3>1
    <3> QED
      BY <2>1, <3>2 DEF Lined
  <2>3. Taken' = <<>>
    BY <1>6 DEF Taken
  <2>4. Stream = written' \o Lined(Buffers) /\ Stream' = (written' \o <<>>) \o Lined(Buffers)
    BY <1>7, <1>8, <2>1, <2>2, <2>3 DEF Stream
  <2>5. written' \o <<>> = written'
    BY <1>8, ConcatEmptySeq
  <2>6. Stream' = Stream
    BY <2>4, <2>5
  <2> QED
    BY <1>1, <2>6, StreamStays DEF LogInv
<1> QED
  BY <1>9, <1>10, <1>11, <1>12, <1>13, <1>14 DEF LogInv

\* returnObject() takes an empty buffer.
LEMMA ObjectReturned ==
  ASSUME LogInv, ThreadTypeOK, ReturnObject
  PROVE  LogInv'
<1> DEFINE L == log_thread_
           h == held[L]
<1>1. /\ doing[L] = "return" /\ reused_object_list_' = Append(reused_object_list_, h)
      /\ held' = [held EXCEPT ![L] = nullptr] /\ doing' = [doing EXCEPT ![L] = "idle"]
      /\ UNCHANGED <<threadVars, created, content, queue_, logged, written, sink>>
  BY DEF ReturnObject, Hold, Go
<1>2. /\ L \in Threads /\ L \notin Workers /\ Workers \subseteq Threads /\ created \in Nat
      /\ doing \in [Threads -> {"idle", "push", "write", "return", "ending", "ended"}]
      /\ held \in [Threads -> 0..created] /\ reused_object_list_ \in Seq(1..created)
      /\ Once(reused_object_list_)
  BY LogThreadAssumption DEF LogInv, LogTypes, Shared, Workers
<1>3. h # nullptr /\ h \in 1..created /\ content[h] = NoLine
  BY <1>1, <1>2 DEF LogInv, HandsFit, nullptr
<1>4. /\ InHand' = InHand \ {h} /\ h \in InHand
      /\ \A u, v \in Threads : held'[u] = held'[v] /\ held'[u] # nullptr => u = v
  BY <1>1, <1>2, <1>3, HandGives DEF LogInv
<1>5. h \notin Elems(reused_object_list_)
  BY <1>4 DEF LogInv, Shared
<1>6. /\ reused_object_list_' \in Seq(1..created) /\ Once(reused_object_list_)'
      /\ Elems(reused_object_list_)' = Elems(reused_object_list_) \cup {h}
  <2> DEFINE a == Append(reused_object_list_, h)
  <2>1. Once(a) /\ Elems(a) = Elems(reused_object_list_) \cup {h}
    BY <1>2, <1>3, <1>5, OnceAppend
  <2>2. a \in Seq(1..created)
    BY <1>2, <1>3, AppendProperties
  <2>3. reused_object_list_' = a
    BY <1>1
  <2> HIDE DEF a
  <2> QED
    BY <2>1, <2>2, <2>3 DEF Elems, Once
<1>7. /\ held'[L] = nullptr /\ \A t \in Threads : t # L => held'[t] = held[t]
      /\ doing'[L] = "idle" /\ \A t \in Threads : t # L => doing'[t] = doing[t]
      /\ os' = os /\ started_' = started_
  BY <1>1, <1>2 DEF threadVars, memberVars, kernelVars
<1>8. LogTypes'
  <2>1. doing' \in [Threads -> {"idle", "push", "write", "return", "ending", "ended"}]
    BY <1>1, <1>2
  <2>2. held' \in [Threads -> 0..created]
    BY <1>1, <1>2 DEF nullptr
  <2> QED
    BY <1>1, <1>6, <2>1, <2>2 DEF LogInv, LogTypes
<1>9. Shared'
  <2>1. Elems(queue_)' = Elems(queue_) /\ Once(queue_)'
    BY <1>1 DEF LogInv, Shared, Once, Elems
  <2> QED
    BY <1>1, <1>4, <1>6, <2>1 DEF LogInv, Shared
<1>10. HandsFit'
  <2>1. \A w \in Workers : doing'[w] = doing[w] /\ held'[w] = held[w]
    BY <1>2, <1>7
  <2>2. \A b \in Elems(reused_object_list_)' : content[b] = NoLine
    BY <1>3, <1>6 DEF LogInv, HandsFit
  <2> QED
    BY <1>1, <1>7, <2>1, <2>2 DEF LogInv, HandsFit
<1>11. EndFits'
  BY <1>1, <1>7 DEF LogInv, EndFits, Elems
<1>12. JoinFits'
  BY <1>1 DEF LogInv, JoinFits, threadVars, memberVars, kernelVars
<1>13. InOrder(Stream, logged)'
  <2>1. Taken' = Taken
    BY <1>1, <1>7 DEF Taken
  <2>2. Buffers' = Buffers
    BY <1>1 DEF Buffers, Elems
  <2>3. Lined(Buffers)' = Lined(Buffers)
    BY <1>1, <2>2 DEF Lined
  <2> QED
    BY <1>1, <2>1, <2>3, StreamStays DEF LogInv, Stream
<1> QED
  BY <1>8, <1>9, <1>10, <1>11, <1>12, <1>13 DEF LogInv

\* logThreadFunc() returns.
LEMMA LogThreadEndsKeeps ==
  ASSUME LogInv, ThreadTypeOK, logThreadEnds
  PROVE  LogInv'
<1> DEFINE L == log_thread_
<1>1. /\ doing[L] = "ending" /\ os' = [os EXCEPT ![L] = "ended"]
      /\ doing' = [doing EXCEPT ![L] = "ended"]
      /\ UNCHANGED <<bufferVars, held, logged, written, sink>>
      /\ UNCHANGED <<started_, join_started_, call>>
  BY DEF logThreadEnds, Finish, Go, memberVars
<1>2. /\ L \in Threads /\ L \notin Workers /\ Workers \subseteq Threads
      /\ doing \in [Threads -> {"idle", "push", "write", "return", "ending", "ended"}]
  BY LogThreadAssumption DEF LogInv, LogTypes, Workers
<1>3. /\ doing'[L] = "ended" /\ \A t \in Threads : t # L => doing'[t] = doing[t]
      /\ os'[L] = "ended" /\ \A t \in Threads : t # L => os'[t] = os[t]
  BY <1>1, <1>2 DEF ThreadTypeOK
<1>4. LogTypes'
  <2>1. doing' \in [Threads -> {"idle", "push", "write", "return", "ending", "ended"}]
    BY <1>1, <1>2
  <2> QED
    BY <1>1, <2>1 DEF LogInv, LogTypes, bufferVars
<1>5. Shared'
  BY <1>1, SharedStays DEF LogInv, bufferVars
<1>6. HandsFit'
  <2>1. \A w \in Workers : doing'[w] = doing[w] /\ os'[w] = os[w]
    BY <1>2, <1>3
  <2> QED
    BY <1>1, <1>3, <2>1 DEF LogInv, HandsFit, Elems, bufferVars
<1>7. EndFits'
  <2>1. \A w \in Workers : os'[w] = os[w]
    BY <1>2, <1>3
  <2> QED
    BY <1>1, <1>3, <2>1 DEF LogInv, EndFits, Elems, bufferVars
<1>8. JoinFits'
  BY <1>1, <1>3 DEF LogInv, JoinFits
<1>9. InOrder(Stream, logged)'
  <2>1. Taken' = Taken
    BY <1>1, <1>3 DEF Taken
  <2>2. Buffers' = Buffers
    BY <1>1 DEF Buffers, Elems, bufferVars
  <2>3. Lined(Buffers)' = Lined(Buffers)
    BY <1>1, <2>2 DEF Lined, bufferVars
  <2> QED
    BY <1>1, <2>1, <2>3, StreamStays DEF LogInv, Stream
<1> QED
  BY <1>4, <1>5, <1>6, <1>7, <1>8, <1>9 DEF LogInv

-----------------------------------------------------------------------------
(* The invariant holds *)

\* Before construction there are no buffers and no lines.
LEMMA SinkInitKeeps == SinkInit => LogInv
<1> SUFFICES ASSUME SinkInit PROVE LogInv
  OBVIOUS
<1>1. /\ reused_object_list_ = <<>> /\ created = 0 /\ content = <<>> /\ queue_ = <<>>
      /\ doing = [t \in Threads |-> "idle"] /\ held = [t \in Threads |-> nullptr]
      /\ logged = [w \in Workers |-> 0] /\ written = <<>> /\ sink = "none"
      /\ started_ = [t \in Threads |-> FALSE] /\ join_started_ = [t \in Threads |-> FALSE]
      /\ os = [t \in Threads |-> "none"]
      /\ log_thread_ \in Threads /\ Workers \subseteq Threads
  BY LogThreadAssumption DEF SinkInit, ThreadInit, Workers
<1>2. \A S : <<>> \in Seq(S)
  BY EmptySeq
<1>3. Len(<<>>) = 0 /\ DOMAIN <<>> = {}
  BY EmptySeq
<1>4. Elems(reused_object_list_) = {} /\ Elems(queue_) = {} /\ InHand = {}
  BY <1>1, <1>3 DEF Elems, InHand
<1>5. LogTypes
  BY <1>1, <1>2, <1>3 DEF LogTypes, nullptr
<1>6. Shared
  BY <1>1, <1>3, <1>4 DEF Shared, Once
<1>7. HandsFit
  BY <1>1, <1>4 DEF HandsFit
<1>8. EndFits
  BY <1>1, <1>4 DEF EndFits
<1>9. JoinFits
  BY <1>1 DEF JoinFits
<1>10. InOrder(Stream, logged)
  <2>1. Taken = <<>> /\ Buffers = <<>>
    BY <1>1, <1>4 DEF Taken, Buffers
  <2>2. Lined(Buffers) = <<>>
    BY <1>3, <2>1 DEF Lined
  <2>3. Stream = <<>>
    <3>1. <<>> \in Seq({}) /\ <<>> \o <<>> = <<>>
      BY <1>2, ConcatEmptySeq
    <3> QED
      BY <1>1, <2>1, <2>2, <3>1 DEF Stream
  <2> QED
    BY <1>1, <1>2, <1>3, <2>3 DEF InOrder
<1> QED
  BY <1>5, <1>6, <1>7, <1>8, <1>9, <1>10 DEF LogInv

\* What the code of log_async_sink.cc maintains, with ObjectPool, ConcurrentQueue and
\* Thread, for any workers, lines and size of the queue.
THEOREM SinkInvariant == SinkSpec => [](LogInv /\ ThreadTypeOK)
<1>1. LogInv /\ ThreadTypeOK /\ [SinkNext]_sinkVars => LogInv'
  <2> SUFFICES ASSUME LogInv, ThreadTypeOK, [SinkNext]_sinkVars PROVE LogInv'
    OBVIOUS
  <2>1. CASE Construct
    BY <2>1, ConstructKeeps
  <2>2. CASE \E w \in Workers : log(w) \/ workerEnds(w) \/ startWorker(w)
    BY <2>2, GetObjectKeeps, PushKeeps, WorkerEndsKeeps, StartWorkerKeeps DEF log
  <2>3. CASE logThreadFunc
    BY <2>3, PopKeeps, LineWritten, ObjectReturned, LogThreadEndsKeeps DEF logThreadFunc
  <2>4. CASE Destructor
    BY <2>4, PushNullKeeps, JoinLogThreadKeeps, DeleteMembersKeeps DEF Destructor
  <2>5. CASE \E c \in Workers \cup {Main}, w \in Workers : joinWorker(c, w)
    BY <2>5, CallOnWorkerKeeps DEF Workers, Callers
  <2>6. CASE \E c \in Workers \cup {Main} : joinStep(c) \/ wakeup(c)
    BY <2>6, JoinStepKeeps DEF Workers, Callers
  <2>7. CASE \E w \in Workers : detachWorker(w) \/ destroyWorker(w)
    BY <2>7, CallOnWorkerKeeps DEF Callers
  <2>8. CASE UNCHANGED sinkVars
    <3>1. UNCHANGED logVars /\ UNCHANGED <<started_, os, join_started_, call>>
      BY <2>8 DEF sinkVars, threadVars, memberVars, kernelVars
    <3>2. JoinFits'
      BY <3>1 DEF LogInv, JoinFits, logVars
    <3>3. HandsFit' /\ EndFits'
      BY <3>1, SinkRests DEF LogInv, HandsFit, EndFits
    <3> QED
      BY <3>1, <3>2, <3>3, SinkRests DEF LogInv
  <2> QED
    BY <2>1, <2>2, <2>3, <2>4, <2>5, <2>6, <2>7, <2>8 DEF SinkNext
<1>2. SinkSpec => []ThreadTypeOK
  BY SinkUsesThreads, TypeCorrect, PTL
<1> QED
  BY SinkInitKeeps, <1>1, <1>2, PTL DEF SinkSpec

-----------------------------------------------------------------------------
(* What it means for the sink *)

\* The stream begins with what was written.
LEMMA StreamStarts ==
  ASSUME LogInv
  PROVE  /\ Len(written) \in Nat /\ DOMAIN written = 1..Len(written)
         /\ Len(Stream) \in Nat /\ DOMAIN Stream = 1..Len(Stream)
         /\ Len(written) <= Len(Stream)
         /\ \A i \in 1..Len(Stream) : Stream[i] \in Line
         /\ \A i \in 1..Len(written) : written[i] = Stream[i]
<1> DEFINE S == Line \cup {NoLine}
           rest == Taken \o Lined(Buffers)
<1>1. written \in Seq(S) /\ Lined(Buffers) \in Seq(S) /\ Taken \in Seq(S)
  <2>1. written \in Seq(S) /\ Lined(Buffers) \in Seq(S)
    BY SeqMonotonic, StreamTypes DEF LogInv, LogTypes
  <2>2. CASE doing[log_thread_] = "write"
    <3>1. held[log_thread_] \in 1..created
      BY <2>2, LogThreadAssumption DEF LogInv, LogTypes, HandsFit, nullptr
    <3>2. content[held[log_thread_]] \in S
      BY <3>1, StreamTypes DEF LogInv
    <3> QED
      BY <2>1, <2>2, <3>2 DEF Taken
  <2>3. CASE doing[log_thread_] # "write"
    BY <2>1, <2>3, EmptySeq DEF Taken
  <2> QED
    BY <2>2, <2>3
<1>2. Stream = written \o rest /\ rest \in Seq(S)
  <2> HIDE DEF S
  <2> QED
    BY <1>1, ConcatAssociative, ConcatProperties DEF Stream
<1> HIDE DEF rest, S
<1>3. /\ Len(written \o rest) = Len(written) + Len(rest)
      /\ \A i \in 1..Len(written) + Len(rest) : (written \o rest)[i] =
           IF i <= Len(written) THEN written[i] ELSE rest[i - Len(written)]
  BY <1>1, <1>2, ConcatProperties
<1>4. /\ Len(written) \in Nat /\ DOMAIN written = 1..Len(written) /\ Len(rest) \in Nat
  BY <1>1, <1>2, LenProperties
<1>5. /\ Stream \in Seq(Line)
  BY DEF LogInv, InOrder
<1>6. Len(Stream) \in Nat /\ DOMAIN Stream = 1..Len(Stream)
      /\ \A i \in 1..Len(Stream) : Stream[i] \in Line
  BY <1>5, LenProperties, ElementOfSeq
<1> QED
  BY <1>2, <1>3, <1>4, <1>6

\* The lines of each worker reach the adapted sink whole, once, in its order and without
\* a gap, whatever buffers of the pool they travelled in (log_async_sink.cc:48-87).
THEOREM LinesAreInOrder == SinkSpec => []LinesInOrder
<1>1. LogInv => LinesInOrder
  <2> SUFFICES ASSUME LogInv PROVE LinesInOrder
    OBVIOUS
  <2>1. /\ Len(written) \in Nat /\ DOMAIN written = 1..Len(written)
        /\ Len(Stream) \in Nat /\ DOMAIN Stream = 1..Len(Stream)
        /\ Len(written) <= Len(Stream)
        /\ \A i \in 1..Len(Stream) : Stream[i] \in Line
        /\ \A i \in 1..Len(written) : written[i] = Stream[i]
    BY StreamStarts
  <2>2. /\ \A i \in 1..Len(Stream) : Stream[i][2] <= logged[Stream[i][1]]
        /\ \A i, j \in 1..Len(Stream) :
             i < j /\ Stream[i][1] = Stream[j][1] => Stream[i][2] < Stream[j][2]
        /\ \A w \in Workers : \A n \in 1..logged[w] :
             \E i \in 1..Len(Stream) : Stream[i] = <<w, n>>
    BY <2>1 DEF LogInv, InOrder
  <2>3. \A i \in 1..Len(Stream) : /\ Stream[i][1] \in Workers /\ Stream[i][2] \in Nat \ {0}
                                  /\ Stream[i] = <<Stream[i][1], Stream[i][2]>>
    BY <2>1 DEF Line
  <2>4. \A w \in Workers : logged[w] \in Nat
    BY DEF LogInv, LogTypes
  <2> DEFINE s == Stream
             k == Len(Stream)
             m == Len(written)
  <2>5. /\ m \in Nat /\ k \in Nat /\ m <= k /\ \A i \in 1..m : i \in 1..k /\ written[i] = s[i]
    BY <2>1
  <2>6. ASSUME NEW i \in 1..m
        PROVE  \E w \in Workers : \E n \in 1..logged[w] : written[i] = <<w, n>>
    <3>1. /\ s[i][1] \in Workers /\ s[i][2] \in 1..logged[s[i][1]]
          /\ written[i] = <<s[i][1], s[i][2]>>
      BY <2>2, <2>3, <2>4, <2>5
    <3> QED
      BY <3>1
  <2>7. ASSUME NEW i \in 1..m, NEW j \in 1..m, i < j, written[i][1] = written[j][1]
        PROVE  written[i][2] < written[j][2]
    BY <2>2, <2>5, <2>7
  <2>8. ASSUME NEW j \in 1..m, NEW n \in 1..written[j][2] - 1
        PROVE  \E i \in 1..j - 1 : written[i] = <<written[j][1], n>>
    <3> DEFINE w == s[j][1]
    <3>1. /\ j \in 1..k /\ written[j] = s[j] /\ w \in Workers /\ s[j][2] \in Nat
          /\ s[j][2] <= logged[w]
      BY <2>2, <2>3, <2>5
    <3>2. n \in 1..logged[w] /\ n < s[j][2]
      BY <2>4, <3>1
    <3>3. PICK i \in 1..k : s[i] = <<w, n>>
      BY <2>2, <3>1, <3>2
    <3>4. i < j
      <4>1. s[i][1] = s[j][1] /\ s[i][2] = n
        BY <3>3
      <4>2. ~(j < i)
        <5>1. j < i => s[j][2] < s[i][2]
          BY <2>2, <3>1, <4>1
        <5> QED
          BY <3>1, <3>2, <4>1, <5>1
      <4>3. j # i
        BY <3>1, <3>2, <4>1
      <4> QED
        BY <4>2, <4>3, <2>5, <3>1
    <3>5. i \in 1..j - 1 /\ i \in 1..m
      BY <2>5, <3>4
    <3> QED
      BY <2>5, <3>1, <3>3, <3>5
  <2> QED
    BY <2>1, <2>6, <2>7, <2>8 DEF LinesInOrder
<1> QED
  BY <1>1, SinkInvariant, PTL

\* The pool, the queue and the threads never hold a buffer twice and never lose one
\* (object_pool.h, log_async_sink.cc:48-87).
THEOREM BuffersHaveOneOwner == SinkSpec => []OneOwner
<1>1. LogInv => OneOwner
  <2> SUFFICES ASSUME LogInv, NEW b \in 1..created
               PROVE  \E o \in Owners : \A p \in Owners : OwnedBy(p) = b <=> p = o
    BY DEF OneOwner
  <2>1. b # nullptr
    BY DEF LogInv, LogTypes, nullptr
  <2>2. /\ \A i \in DOMAIN reused_object_list_ : OwnedBy(<<"pool", i>>) = reused_object_list_[i]
        /\ \A i \in DOMAIN queue_ : OwnedBy(<<"queue", i>>) = queue_[i]
        /\ \A t \in Threads : OwnedBy(<<"thread", t>>) = held[t]
    BY DEF OwnedBy
  <2>3. ASSUME NEW p \in Owners
        PROVE  \/ \E i \in DOMAIN reused_object_list_ : p = <<"pool", i>>
               \/ \E i \in DOMAIN queue_ : p = <<"queue", i>>
               \/ \E t \in Threads : p = <<"thread", t>>
    BY DEF Owners
  <2>4. CASE b \in Elems(reused_object_list_)
    <3>1. PICK i \in DOMAIN reused_object_list_ : reused_object_list_[i] = b
      BY <2>4 DEF Elems
    <3>2. b \notin Elems(queue_) /\ b \notin InHand
      BY <2>4 DEF LogInv, Shared
    <3>3. <<"pool", i>> \in Owners
      BY DEF Owners
    <3>4. ASSUME NEW p \in Owners PROVE OwnedBy(p) = b <=> p = <<"pool", i>>
      BY <2>1, <2>2, <2>3, <3>1, <3>2 DEF LogInv, Shared, Once, Elems, InHand
    <3> QED
      BY <3>3, <3>4
  <2>5. CASE b \in Elems(queue_)
    <3>1. PICK i \in DOMAIN queue_ : queue_[i] = b
      BY <2>5 DEF Elems
    <3>2. b \notin Elems(reused_object_list_) /\ b \notin InHand
      BY <2>5 DEF LogInv, Shared
    <3>3. <<"queue", i>> \in Owners
      BY DEF Owners
    <3>4. ASSUME NEW p \in Owners PROVE OwnedBy(p) = b <=> p = <<"queue", i>>
      BY <2>1, <2>2, <2>3, <3>1, <3>2 DEF LogInv, Shared, Once, Elems, InHand
    <3> QED
      BY <3>3, <3>4
  <2>6. CASE b \in InHand
    <3>1. PICK t \in Threads : held[t] = b
      BY <2>6 DEF InHand
    <3>2. b \notin Elems(reused_object_list_) /\ b \notin Elems(queue_)
      BY <2>6 DEF LogInv, Shared
    <3>3. <<"thread", t>> \in Owners
      BY DEF Owners
    <3>4. ASSUME NEW p \in Owners PROVE OwnedBy(p) = b <=> p = <<"thread", t>>
      BY <2>1, <2>2, <2>3, <3>1, <3>2 DEF LogInv, Shared, Elems
    <3> QED
      BY <3>3, <3>4
  <2> QED
    BY <2>4, <2>5, <2>6 DEF LogInv, Shared
<1> QED
  BY <1>1, SinkInvariant, PTL

\* When ~LogAsyncSink deletes the members, the logging thread has ended, every line is
\* written and every buffer is back in the pool (log_async_sink.cc:40-46).
THEOREM AllWrittenAtTheEnd == SinkSpec => []NothingLeftBehind
<1>1. LogInv /\ ThreadTypeOK => NothingLeftBehind
  <2> SUFFICES ASSUME LogInv, ThreadTypeOK, sink = "deleted"
               PROVE  /\ os[log_thread_] = "ended"
                      /\ \A w \in Workers : started_[w] =>
                           \A n \in 1..Lines[w] : \E i \in DOMAIN written : written[i] = <<w, n>>
                      /\ queue_ = <<>>
                      /\ \A b \in 1..created :
                           \E i \in DOMAIN reused_object_list_ : reused_object_list_[i] = b
    BY DEF NothingLeftBehind
  <2>1. os[log_thread_] = "ended" /\ doing[log_thread_] = "ended" /\ queue_ = <<>>
    BY DEF LogInv, JoinFits, EndFits
  <2>2. Elems(queue_) = {} /\ nullptr \notin Elems(queue_)
    <3>1. DOMAIN <<>> = {}
      BY EmptySeq
    <3> QED
      BY <2>1, <3>1 DEF Elems
  <2>3. Stream = written
    <3>1. Taken = <<>> /\ Buffers = <<>>
      BY <2>1, <2>2 DEF Taken, Buffers
    <3>2. Lined(Buffers) = <<>>
      <4>1. DOMAIN <<>> = {}
        BY EmptySeq
      <4> QED
        BY <3>1, <4>1 DEF Lined
    <3>3. written \o <<>> = written
      BY ConcatEmptySeq DEF LogInv, LogTypes
    <3> QED
      BY <3>1, <3>2, <3>3 DEF Stream
  <2>4. ASSUME NEW w \in Workers, started_[w], NEW n \in 1..Lines[w]
        PROVE  \E i \in DOMAIN written : written[i] = <<w, n>>
    <3>1. os[w] = "ended"
      BY <2>4 DEF LogInv, EndFits, HandsFit, ThreadTypeOK, Workers
    <3>2. logged[w] = Lines[w]
      BY <3>1 DEF LogInv, HandsFit
    <3> QED
      BY <2>3, <2>4, <3>2 DEF LogInv, InOrder
  <2>5. ASSUME NEW b \in 1..created
        PROVE  \E i \in DOMAIN reused_object_list_ : reused_object_list_[i] = b
    <3>1. \A w \in Workers : held[w] = nullptr
      BY DEF LogInv, EndFits, HandsFit
    <3>2. held[log_thread_] = nullptr
      BY <2>1 DEF LogInv, HandsFit
    <3>3. InHand = {}
      BY <3>1, <3>2 DEF InHand, Workers
    <3>4. b \in Elems(reused_object_list_)
      BY <2>2, <3>3 DEF LogInv, Shared
    <3> QED
      BY <3>4 DEF Elems
  <2> QED
    BY <2>1, <2>4, <2>5
<1> QED
  BY <1>1, SinkInvariant, PTL
=============================================================================
