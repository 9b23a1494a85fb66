----------------------------- MODULE IOService -----------------------------
(***************************************************************************)
(* io_service.cc and io_device.cc: the event loop.  One iteration waits in *)
(* epoll_wait, calls the callbacks of the devices the kernel reported,     *)
(* fires due timers, and forgets which devices were removed meanwhile.     *)
(*                                                                         *)
(* epoll_wait copies IODevice pointers out of the kernel; a callback may   *)
(* delete any device, and a new one may be allocated at the same address,  *)
(* while events for the old one are still in the batch.                    *)
(* removed_io_devices_ is what keeps the loop from calling through them.   *)
(*                                                                         *)
(* A device is attached exactly while it is in the domain of dev.  The     *)
(* actions of the loop are composed with the handlers of TcpService there; *)
(* here the callbacks' code is any sequence of calls on IODevices.         *)
(***************************************************************************)
EXTENDS Integers, Sequences, FiniteSets

CONSTANTS
    Ptrs,           \* addresses at which an IODevice can be allocated
    Callbacks,      \* callbacks that can be set
    None,           \* an empty Function
    EventsInit      \* initial size of events_

ASSUME IOAssumption ==
    /\ EventsInit \in Nat \ {0}
    /\ None \notin Callbacks
    /\ IsFiniteSet(Ptrs)

VARIABLES
    dev,            \* attached devices: address -> [id, cb]
    removed,        \* removed_io_devices_: addresses
    events,         \* what is left of the batch: <<[ptr, id, bits], ...>>
    call,           \* the callback being run: [ptr, id, bit, cb], or NoCall
    loop,           \* where loop() is: "stopped", "poll", "dispatch", "call"
                    \* (in an event callback), "timers" or "timercall"
    quit,           \* quit_
    event_count,    \* events in the last batch
    events_size     \* events_.size()

ioVars == <<dev, removed, events, call, loop, quit, event_count, events_size>>

Bits == {"in", "out", "err"}
NoCall == [ptr |-> None, id |-> 0, bit |-> "in", cb |-> None]
NoCallbacks == [b \in Bits |-> None]

-----------------------------------------------------------------------------
(* IODevice and the epoll set, as functions of dev *)

\* The events addIODevice and updateIODevice register; the kernel reports
\* errors and hang-ups unasked.
Interest(p) == {b \in {"in", "out"} : dev[p].cb[b] # None} \cup {"err"}

WithDevice(d, p, id, cb) ==
    [q \in DOMAIN d \cup {p} |-> IF q = p THEN [id |-> id, cb |-> cb] ELSE d[q]]

WithoutDevice(d, p) == [q \in DOMAIN d \ {p} |-> d[q]]

-----------------------------------------------------------------------------
(* IOService::loop *)

IOInit ==
    /\ dev = [p \in {} |-> 0]
    /\ removed = {}
    /\ events = <<>>
    /\ call = NoCall
    /\ loop = "stopped"
    /\ quit = FALSE
    /\ event_count = 0
    /\ events_size = EventsInit

LoopStart ==
    /\ loop = "stopped"
    /\ loop' = "poll"
    /\ quit' = FALSE
    /\ UNCHANGED <<dev, removed, events, call, event_count, events_size>>

\* The batches epoll_wait can return when ready[p] is what the kernel has to
\* report for device p: every such device, in any order, up to events_.size().
Batches(ready) ==
    LET ps == {p \in DOMAIN dev : ready[p] \cap Interest(p) # {}}
        n == IF Cardinality(ps) > events_size THEN events_size ELSE Cardinality(ps)
    IN  {[i \in 1..n |-> [ptr |-> f[i], id |-> dev[f[i]].id,
                          bits |-> ready[f[i]] \cap Interest(f[i])]] :
            f \in {g \in [1..n -> ps] :
                    \A i, j \in 1..n : g[i] = g[j] => i = j}}

\* epoll_wait returns events, or none because a timer is due.
Wait(ready) ==
    /\ loop = "poll"
    /\ ~quit
    /\ events' \in Batches(ready)
    /\ event_count' = Len(events')
    /\ loop' = "dispatch"
    /\ UNCHANGED <<dev, removed, call, quit, events_size>>

\* epoll_wait fails: the loop goes on only after EINTR, which changes nothing.
WaitFails ==
    /\ loop = "poll"
    /\ ~quit
    /\ loop' = "stopped"
    /\ UNCHANGED <<dev, removed, events, call, quit, event_count, events_size>>

\* quit_ is read at the top of the loop only.
LoopQuits ==
    /\ loop = "poll"
    /\ quit
    /\ loop' = "stopped"
    /\ UNCHANGED <<dev, removed, events, call, quit, event_count, events_size>>

\* The order in which loop() tests the bits of an event.
NextBit(bits) ==
    IF "out" \in bits THEN "out" ELSE IF "in" \in bits THEN "in" ELSE "err"

CurrentBit == NextBit(events[1].bits)

\* The callback loop() finds through the event's pointer: an empty one when
\* nothing is attached there.
CallbackAt(p, b) == IF p \in DOMAIN dev THEN dev[p].cb[b] ELSE None

checkIODeviceExistAlways(p) == TRUE     \* (mutant)
checkIODeviceExist(p) == p \notin removed

\* checkIODeviceExist fails: the rest of the event is skipped.
SkipRemoved ==
    /\ loop = "dispatch"
    /\ events # <<>>
    /\ events[1].bits # {}
    /\ ~checkIODeviceExist(events[1].ptr)
    /\ events' = Tail(events)
    /\ UNCHANGED <<dev, removed, call, loop, quit, event_count, events_size>>

\* One of the three callback calls of the loop body.  Only the error callback
\* is tested for being empty.
Dispatch ==
    /\ loop = "dispatch"
    /\ events # <<>>
    /\ events[1].bits # {}
    /\ checkIODeviceExist(events[1].ptr)
    /\ events' = [events EXCEPT ![1].bits = @ \ {CurrentBit}]
    /\ LET p == events[1].ptr
       IN  IF CurrentBit = "err" /\ p \in DOMAIN dev /\ dev[p].cb["err"] = None
           THEN UNCHANGED <<call, loop>>
           ELSE /\ call' = [ptr |-> p, id |-> events[1].id, bit |-> CurrentBit,
                            cb |-> CallbackAt(p, CurrentBit)]
                /\ loop' = "call"
    /\ UNCHANGED <<dev, removed, quit, event_count, events_size>>

NextEvent ==
    /\ loop = "dispatch"
    /\ events # <<>>
    /\ events[1].bits = {}
    /\ events' = Tail(events)
    /\ UNCHANGED <<dev, removed, call, loop, quit, event_count, events_size>>

EventsDone ==
    /\ loop = "dispatch"
    /\ events = <<>>
    /\ loop' = "timers"
    /\ UNCHANGED <<dev, removed, events, call, quit, event_count, events_size>>

\* After checkTimeout: removed_io_devices_.clear() and the growth of events_.
EndIteration ==
    /\ loop = "timers"
    /\ loop' = "poll"
    /\ removed' = {}
    /\ events_size' = IF event_count >= events_size
                      THEN events_size * 2 ELSE events_size
    /\ event_count' = 0
    /\ UNCHANGED <<dev, events, call, quit>>

\* The steps of loop() that do not depend on what the kernel has to report.
LoopStep ==
    \/ LoopQuits
    \/ SkipRemoved
    \/ Dispatch
    \/ NextEvent
    \/ EventsDone

-----------------------------------------------------------------------------
(* Client code: before loop(), and in event and timer callbacks. *)

CONSTANT IdBound    \* devices created in a behaviour

VARIABLE next_id

vars == <<ioVars, next_id>>

Init == IOInit /\ next_id = 1

InClientCode == loop \in {"stopped", "call", "timercall"}

\* new IODevice and attachIOService; the address may be one freed before.
NewDevice(p, cb) ==
    /\ InClientCode
    /\ next_id <= IdBound
    /\ p \notin DOMAIN dev
    /\ dev' = WithDevice(dev, p, next_id, cb)
    /\ next_id' = next_id + 1
    /\ UNCHANGED <<removed, events, call, loop, quit, event_count, events_size>>

\* ~IODevice or detachIOService.  EPOLL_CTL_DEL may fail (its descriptor may be
\* closed already); the address is remembered in any case.
DeleteDevice(p) ==
    /\ InClientCode
    /\ p \in DOMAIN dev
    /\ dev' = WithoutDevice(dev, p)
    /\ removed' = removed \cup {p}
    /\ UNCHANGED <<events, call, loop, quit, event_count, events_size, next_id>>

\* setReadCallback or setWriteCallback.
SetCallback(p, b, c) ==
    /\ InClientCode
    /\ p \in DOMAIN dev
    /\ dev' = [dev EXCEPT ![p].cb[b] = c]
    /\ UNCHANGED <<removed, events, call, loop, quit, event_count, events_size,
                   next_id>>

Quit ==
    /\ InClientCode
    /\ quit' = TRUE
    /\ UNCHANGED <<dev, removed, events, call, loop, event_count, events_size,
                   next_id>>

CallbackReturns ==
    /\ loop \in {"call", "timercall"}
    /\ loop' = IF loop = "call" THEN "dispatch" ELSE "timers"
    /\ call' = NoCall
    /\ UNCHANGED <<dev, removed, events, quit, event_count, events_size, next_id>>

\* TimerHeap::checkTimeout calls a timer callback.
TimerFires ==
    /\ loop = "timers"
    /\ loop' = "timercall"
    /\ UNCHANGED <<dev, removed, events, call, quit, event_count, events_size,
                   next_id>>

\* What the kernel reports is anything a device can be interested in.
AnyWait == \E r \in [Ptrs -> SUBSET Bits] : Wait(r)

Next ==
    \/ /\ LoopStart \/ AnyWait \/ WaitFails \/ LoopStep \/ EndIteration
       /\ UNCHANGED next_id
    \/ \E p \in Ptrs :
        \/ \E cb \in [Bits -> Callbacks \cup {None}] : NewDevice(p, cb)
        \/ DeleteDevice(p)
        \/ \E b \in Bits, c \in Callbacks \cup {None} : SetCallback(p, b, c)
    \/ Quit
    \/ CallbackReturns
    \/ TimerFires

Spec == Init /\ [][Next]_vars

-----------------------------------------------------------------------------
(* Properties *)

\* The members of the event loop keep their types.
IOTypeOK ==
    /\ DOMAIN dev \subseteq Ptrs
    /\ \A p \in DOMAIN dev :
        /\ dev[p].id \in Nat \ {0}
        /\ dev[p].cb \in [Bits -> Callbacks \cup {None}]
    /\ removed \subseteq Ptrs
    /\ \A i \in DOMAIN events :
        /\ events[i].ptr \in Ptrs
        /\ events[i].id \in Nat \ {0}
        /\ events[i].bits \subseteq Bits
    /\ loop \in {"stopped", "poll", "dispatch", "call", "timers", "timercall"}
    /\ quit \in BOOLEAN
    /\ event_count \in Nat
    /\ events_size \in Nat \ {0}

\* Each event still to be handled is either for the device that is at its
\* address, or for an address that is remembered as removed.
EventsFresh ==
    \A i \in DOMAIN events :
        LET e == events[i]
        IN  e.ptr \notin removed => e.ptr \in DOMAIN dev /\ dev[e.ptr].id = e.id

\* The batch is handled before the addresses are forgotten.
HandledBeforeForgotten == loop \notin {"dispatch", "call"} => events = <<>>

\* The inductive invariant behind the two properties.
IOInv ==
    /\ IOTypeOK
    /\ events \in Seq([ptr : Ptrs, id : Nat \ {0}, bits : SUBSET Bits])
    /\ next_id \in Nat \ {0}
    /\ HandledBeforeForgotten
    /\ EventsFresh

\* The callbacks of one batch never see each other's deletions: a callback is
\* called only on a device that is attached and is the one epoll_wait reported,
\* not on freed memory and not on a device created at the same address since.
NoStaleDispatch ==
    [][loop = "dispatch" /\ loop' = "call" =>
        /\ call'.ptr \in DOMAIN dev
        /\ dev[call'.ptr].id = call'.id]_vars
=============================================================================
