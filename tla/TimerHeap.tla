----------------------------- MODULE TimerHeap -----------------------------
(***************************************************************************)
(* timer_heap.cc: the timers of an IOService, in a map by id and in a      *)
(* binary min-heap by deadline.  Each Timer records its own position in    *)
(* the heap, so that removeTimer() can erase it from the middle.           *)
(*                                                                         *)
(* A Timestamp is a number of ticks, TicksPerMs of them to a millisecond:  *)
(* the heap orders by tick, expiry and the epoll timeout go by             *)
(* millisecond.  Every reading of the clock (CLOCK_REALTIME, which may be  *)
(* set back) is an arbitrary value.  The heap is a sequence: slot 0 of     *)
(* timer_min_heap_ is a dummy, so indices agree.                           *)
(***************************************************************************)
EXTENDS Integers, Sequences, FiniteSets

CONSTANTS
    MaxId,          \* INT64_MAX: the value at which timer ids start again at 1
    IntMod,         \* 2^32: the int returned by Timer::getTimeout wraps at it
    TicksPerMs,     \* ticks in a millisecond
    Ticks,          \* clock readings
    Requests,       \* what clients ask for: [timeout (ms), call_times]
    CallBound       \* client calls from the callbacks of one pass

ASSUME TimerAssumption ==
    /\ MaxId \in Nat \ {0}
    /\ IntMod \in Nat \ {0}
    /\ TicksPerMs \in Nat \ {0}
    /\ Ticks \subseteq Nat
    /\ Requests \subseteq [timeout : Int, call_times : Int]
    /\ CallBound \in Nat

VARIABLES
    last_id,        \* TimerIdAllocator::value_
    timers,         \* timers_: id -> Timer
    heap,           \* timer_min_heap_[1..]: ids
    phase,          \* "idle": outside checkTimeout; "check": at the top of its
                    \* loop; "callback": in a timer callback
    check_now,      \* checkTimeout's argument
    calls           \* client calls made by the callbacks of this pass

timerVars == <<last_id, timers, heap, phase, check_now, calls>>

-----------------------------------------------------------------------------
(* Timestamps *)

Ms(ticks) == ticks \div TicksPerMs

millisecondLessExact(a, b) == a < b     \* (mutant)

\* Timestamp::millisecondLess
millisecondLess(a, b) == Ms(a) < Ms(b)

getTimeoutSeconds(timeout) == timeout \div 1000     \* (mutant)

\* Timer::getTimeout returns an int64_t as an int.
getTimeout(timeout) ==
    LET low == timeout % IntMod
    IN  IF low >= IntMod \div 2 THEN low - IntMod ELSE low

-----------------------------------------------------------------------------
(* The heap.  H is a record [timers, heap]: the operators return the new one. *)

At(H, i) == H.timers[H.heap[i]]

\* Exchange slots i and j and the heap positions their timers record.
SwapSlots(H, i, j) ==
    [timers |-> [H.timers EXCEPT ![H.heap[i]].heap_pos = j,
                                 ![H.heap[j]].heap_pos = i],
     heap |-> [H.heap EXCEPT ![i] = H.heap[j], ![j] = H.heap[i]]]

\* The two shifts are loops over s = [H, cur]; a round that leaves the loop
\* changes nothing.
shiftUpRound(s) ==
    LET parent == s.cur \div 2
    IN  IF parent = 0 \/ At(s.H, s.cur).timestamp >= At(s.H, parent).timestamp
        THEN s
        ELSE [H |-> SwapSlots(s.H, s.cur, parent), cur |-> parent]

OneMoreUp(states) == {shiftUpRound(s) : s \in states}

\* The state after n rounds, as a set of one element.  Each round but the last
\* makes cur smaller.
shiftUpRounds(H, cur) ==
    LET after[n \in 0..cur] ==
            IF n = 0 THEN {[H |-> H, cur |-> cur]}
            ELSE OneMoreUp(after[n - 1])
    IN  after

minHeapShiftUp(H, cur) == (CHOOSE s \in shiftUpRounds(H, cur)[cur] : TRUE).H

\* The child minHeapShiftDown compares with: the earlier of the two.
EarlierChild(H, cur) ==
    LET left == cur * 2
    IN  IF /\ left + 1 <= Len(H.heap)
           /\ At(H, left + 1).timestamp < At(H, left).timestamp
        THEN left + 1 ELSE left

shiftDownRound(s) ==
    LET child == EarlierChild(s.H, s.cur)
    IN  IF \/ s.cur * 2 > Len(s.H.heap)
           \/ At(s.H, child).timestamp >= At(s.H, s.cur).timestamp
        THEN s
        ELSE [H |-> SwapSlots(s.H, s.cur, child), cur |-> child]

OneMoreDown(states) == {shiftDownRound(s) : s \in states}

\* Each round but the last makes cur larger.
shiftDownRounds(H, cur) ==
    LET after[n \in 0..Len(H.heap)] ==
            IF n = 0 THEN {[H |-> H, cur |-> cur]}
            ELSE OneMoreDown(after[n - 1])
    IN  after

minHeapShiftDown(H, cur) ==
    (CHOOSE s \in shiftDownRounds(H, cur)[Len(H.heap)] : TRUE).H

minHeapInsert(H, id) ==
    LET cur == Len(H.heap) + 1
    IN  minHeapShiftUp([timers |-> [H.timers EXCEPT ![id].heap_pos = cur],
                        heap |-> Append(H.heap, id)], cur)

\* The last timer takes the erased one's slot; when the erased timer is the
\* last, it keeps the position it had, and its caller deletes or inserts it.
Replaced(H, id) ==
    LET cur == H.timers[id].heap_pos
        last == H.heap[Len(H.heap)]
    IN  [timers |-> [H.timers EXCEPT ![id].heap_pos = -1, ![last].heap_pos = cur],
         heap |-> SubSeq([H.heap EXCEPT ![cur] = last], 1, Len(H.heap) - 1)]

\* (mutant) the timer that takes the slot is never moved up
minHeapEraseDownOnly(H, id) ==
    LET cur == H.timers[id].heap_pos
        moved == Replaced(H, id)
    IN  IF cur < 0 THEN H
        ELSE IF cur > Len(moved.heap) THEN moved
        ELSE minHeapShiftDown(moved, cur)

minHeapErase(H, id) ==
    LET cur == H.timers[id].heap_pos
        moved == Replaced(H, id)
        parent == cur \div 2
    IN  IF cur < 0 THEN H
        ELSE IF cur > Len(moved.heap) THEN moved
        ELSE IF parent > 0 /\ At(moved, cur).timestamp < At(moved, parent).timestamp
        THEN minHeapShiftUp(moved, cur)
        ELSE minHeapShiftDown(moved, cur)

Delete(H, id) == [H EXCEPT !.timers = [i \in DOMAIN @ \ {id} |-> @[i]]]

Current == [timers |-> timers, heap |-> heap]

Become(H) == timers' = H.timers /\ heap' = H.heap

-----------------------------------------------------------------------------
(* Operations *)

TimerInit ==
    /\ last_id = 0
    /\ timers = [i \in {} |-> 0]
    /\ heap = <<>>
    /\ phase = "idle"
    /\ check_now = 0
    /\ calls = 0

\* (mutant) the difference is taken before it is rounded
getNextTimeoutTruncated(now) ==
    IF heap = <<>> THEN -1
    ELSE LET top == timers[heap[1]].timestamp
         IN  IF top < now THEN 0 ELSE Ms(top - now)

\* IOService::loop sleeps this long; -1 is for ever.
getNextTimeoutMillisecond(now) ==
    IF heap = <<>> THEN -1
    ELSE LET top == timers[heap[1]].timestamp
         IN  IF top < now THEN 0 ELSE Ms(top) - Ms(now)

\* Client code runs outside checkTimeout or inside a timer callback.
ClientCall ==
    \/ phase = "idle" /\ UNCHANGED calls
    \/ phase = "callback" /\ calls < CallBound /\ calls' = calls + 1

getId == IF last_id = MaxId THEN 1 ELSE last_id + 1

\* IOService::startTimer and TimerHeap::addTimer.
addTimer(req, now) ==
    /\ ClientCall
    /\ last_id' = getId
    /\ IF getId \in DOMAIN timers
       THEN UNCHANGED <<timers, heap>>
       ELSE LET ms == IF req.timeout < 0 THEN 0 ELSE req.timeout
                timer == [timestamp |-> now + ms * TicksPerMs,
                          timeout |-> ms,
                          call_times |-> req.call_times,
                          heap_pos |-> -1]
                added == [i \in DOMAIN timers \cup {getId} |->
                            IF i = getId THEN timer ELSE timers[i]]
            IN  Become(minHeapInsert([timers |-> added, heap |-> heap], getId))
    /\ UNCHANGED <<phase, check_now>>

\* IOService::stopTimer and TimerHeap::removeTimer.
removeTimer(id) ==
    /\ ClientCall
    /\ IF id \in DOMAIN timers
       THEN Become(Delete(minHeapErase(Current, id), id))
       ELSE UNCHANGED <<timers, heap>>
    /\ UNCHANGED <<last_id, phase, check_now>>

\* IOService::loop calls checkTimeout after the event callbacks.
checkTimeoutBegin(now) ==
    /\ phase = "idle"
    /\ phase' = "check"
    /\ check_now' = now
    /\ UNCHANGED <<last_id, timers, heap, calls>>

\* One round of checkTimeout's loop: the top timer is due; it is deleted, or
\* moved to its next deadline, before its callback is called.
checkTimeoutFire ==
    /\ phase = "check"
    /\ heap # <<>>
    /\ ~millisecondLess(check_now, timers[heap[1]].timestamp)
    /\ LET id == heap[1]
           erased == minHeapErase(Current, id)
           again == [erased EXCEPT
                       !.timers[id].call_times = IF @ > 0 THEN @ - 1 ELSE @,
                       !.timers[id].timestamp =
                           @ + getTimeout(timers[id].timeout) * TicksPerMs]
       IN  IF timers[id].call_times = 1
           THEN Become(Delete(erased, id))
           ELSE Become(minHeapInsert(again, id))
    /\ phase' = "callback"
    /\ UNCHANGED <<last_id, check_now, calls>>

callbackReturns ==
    /\ phase = "callback"
    /\ phase' = "check"
    /\ UNCHANGED <<last_id, timers, heap, check_now, calls>>

checkTimeoutReturn ==
    /\ phase = "check"
    /\ heap # <<>> => millisecondLess(check_now, timers[heap[1]].timestamp)
    /\ phase' = "idle"
    /\ calls' = 0
    /\ UNCHANGED <<last_id, timers, heap, check_now>>

CheckTimeout == checkTimeoutFire \/ callbackReturns \/ checkTimeoutReturn

TimerNext ==
    \/ \E req \in Requests, now \in Ticks : addTimer(req, now)
    \/ \E id \in 1..MaxId : removeTimer(id)
    \/ \E now \in Ticks : checkTimeoutBegin(now)
    \/ CheckTimeout

TimerSpec == TimerInit /\ [][TimerNext]_timerVars

\* A pass runs on one thread and callbacks return.
TimerFairSpec == TimerSpec /\ WF_timerVars(CheckTimeout)

-----------------------------------------------------------------------------
(* Properties *)

\* Every variable keeps its type.
TimerTypeOK ==
    /\ last_id \in 0..MaxId
    /\ DOMAIN timers \subseteq 1..MaxId
    /\ \A i \in DOMAIN timers :
        timers[i] \in [timestamp : Int, timeout : Nat, call_times : Int,
                       heap_pos : Int]
    /\ heap \in Seq(1..MaxId)
    /\ phase \in {"idle", "check", "callback"}
    /\ check_now \in Ticks \cup {0}
    /\ calls \in 0..CallBound

\* The map and the heap hold the same timers, each once, and every Timer's
\* heap_pos_ is its slot: removeTimer() erases the timer it was asked to.
HeapMatchesMap ==
    /\ {heap[i] : i \in DOMAIN heap} = DOMAIN timers
    /\ Len(heap) = Cardinality(DOMAIN timers)
    /\ \A i \in DOMAIN heap : timers[heap[i]].heap_pos = i

\* No timer comes before its parent.
HeapOrdered ==
    \A i \in 2..Len(heap) :
        timers[heap[i \div 2]].timestamp <= timers[heap[i]].timestamp

\* The map and the heap hold the same timers, each once, where the timers say that
\* they are, and insertions, erasures from the middle and re-insertions keep the
\* heap ordered.
HeapIsSound == HeapMatchesMap /\ HeapOrdered

\* The epoll timeout is exact for every clock reading: it is the least number of
\* milliseconds after which some timer is due, so the loop neither oversleeps
\* nor spins, and it is -1 exactly when there is no timer.
NextTimeoutExact ==
    \A now \in Ticks :
        LET wait == getNextTimeoutMillisecond(now)
            DueAfter(k) == \E i \in DOMAIN timers :
                Ms(timers[i].timestamp) <= Ms(now + k * TicksPerMs)
        IN  IF timers = [i \in {} |-> 0] THEN wait = -1
            ELSE wait >= 0 /\ DueAfter(wait) /\ (wait > 0 => ~DueAfter(wait - 1))

active ==
    [i \in DOMAIN timers |->
        [deadline |-> timers[i].timestamp,
         timeout |-> timers[i].timeout,
         call_times |-> timers[i].call_times]]

Service == INSTANCE TimerService
           WITH Ids <- 1..MaxId, pass_now <- check_now

\* The heap implements TimerService: a pass fires due timers in deadline order,
\* each the number of times asked for and at the deadline plus a multiple of its
\* timeout, whatever its callbacks start and stop, and ends with none due.
ImplementsTimerService == Service!Spec

\* checkTimeout returns: its loop cannot run for ever, so timers never starve the
\* I/O events (repeating timers with a period of at least one millisecond).
PassEnds == phase = "check" ~> phase = "idle"
=============================================================================
