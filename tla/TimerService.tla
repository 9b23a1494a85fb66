---------------------------- MODULE TimerService ----------------------------
(***************************************************************************)
(* What IOService's timers promise: active timers with deadlines, and      *)
(* passes that fire due timers, earliest deadline first, until none is     *)
(* due.  A timer fires call_times times (any number when negative) and may *)
(* be started and stopped from the callback of another, or of itself.      *)
(* Clock readings are arbitrary; a deadline is due when its millisecond    *)
(* has come.                                                               *)
(***************************************************************************)
EXTENDS Integers

CONSTANTS
    Ids,            \* timer ids
    Ticks,          \* clock readings
    TicksPerMs,     \* resolution of a clock reading within a millisecond
    Requests        \* what a client may ask for: [timeout, call_times]

VARIABLES
    active,         \* function of the active ids: [deadline, timeout, call_times]
    phase,          \* "idle", "check" or "callback" (client code runs)
    pass_now        \* the clock reading of the current pass

vars == <<active, phase, pass_now>>

Due(now, deadline) == now \div TicksPerMs >= deadline \div TicksPerMs

Init ==
    /\ active = [i \in {} |-> 0]
    /\ phase = "idle"
    /\ pass_now = 0

Start(i, req, now) ==
    /\ phase # "check"
    /\ i \notin DOMAIN active
    /\ active' = [j \in DOMAIN active \cup {i} |->
                    IF j = i
                    THEN [deadline |-> now + req.timeout * TicksPerMs,
                          timeout |-> req.timeout,
                          call_times |-> req.call_times]
                    ELSE active[j]]
    /\ UNCHANGED <<phase, pass_now>>

Stop(i) ==
    /\ phase # "check"
    /\ i \in DOMAIN active
    /\ active' = [j \in DOMAIN active \ {i} |-> active[j]]
    /\ UNCHANGED <<phase, pass_now>>

BeginPass(now) ==
    /\ phase = "idle"
    /\ phase' = "check"
    /\ pass_now' = now
    /\ UNCHANGED active

Fire(i) ==
    /\ phase = "check"
    /\ i \in DOMAIN active
    /\ Due(pass_now, active[i].deadline)
    /\ \A j \in DOMAIN active : active[i].deadline <= active[j].deadline
    /\ active' =
        IF active[i].call_times = 1
        THEN [j \in DOMAIN active \ {i} |-> active[j]]
        ELSE [active EXCEPT
                ![i].deadline = @ + active[i].timeout * TicksPerMs,
                ![i].call_times = IF @ > 0 THEN @ - 1 ELSE @]
    /\ phase' = "callback"
    /\ UNCHANGED pass_now

CallbackReturns ==
    /\ phase = "callback"
    /\ phase' = "check"
    /\ UNCHANGED <<active, pass_now>>

EndPass ==
    /\ phase = "check"
    /\ \A i \in DOMAIN active : ~Due(pass_now, active[i].deadline)
    /\ phase' = "idle"
    /\ UNCHANGED <<active, pass_now>>

Next ==
    \/ \E i \in Ids :
        \/ \E req \in Requests, now \in Ticks : Start(i, req, now)
        \/ Stop(i)
        \/ Fire(i)
    \/ \E now \in Ticks : BeginPass(now)
    \/ CallbackReturns
    \/ EndPass

Spec == Init /\ [][Next]_vars
=============================================================================
