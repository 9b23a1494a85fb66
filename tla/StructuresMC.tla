---------------------------- MODULE StructuresMC ----------------------------
(***************************************************************************)
(* The data structures, one at a time: subject says which one a behaviour  *)
(* is about, and the others stay as they were made.  The timers come       *)
(* twice, as few that repeat and fire at different times, and as many that *)
(* fire once.                                                              *)
(***************************************************************************)
EXTENDS DynamicBuffer, RankSet, TimerHeap

VARIABLE subject    \* "buffer", "set", "few timers" or "many timers"

bufferVars == <<buffer, read_index, write_index, out>>

\* One-shot timers (one due at once), a timer that repeats for ever, and one
\* that fires twice.
MixedRequests ==
    {[timeout |-> 0, call_times |-> 1],
     [timeout |-> 2, call_times |-> 1],
     [timeout |-> 1, call_times |-> -1],
     [timeout |-> 1, call_times |-> 2]}

\* One-shot timers with two deadlines: six of them at once make a heap in which
\* erasing a slot can move a timer up as well as down.
OneShotRequests == {req \in MixedRequests : req.call_times = 1}

FewTimers == INSTANCE TimerHeap WITH MaxId <- 3
ManyTimers == INSTANCE TimerHeap
              WITH Ticks <- {1}, CallBound <- 0, Requests <- OneShotRequests

StructuresInit ==
    /\ subject \in {"buffer", "set", "few timers", "many timers"}
    /\ Init
    /\ SetInit
    /\ TimerInit

StructuresNext ==
    /\ UNCHANGED subject
    /\ \/ /\ subject = "buffer" /\ Next
          /\ UNCHANGED <<setVars, timerVars>>
       \/ /\ subject = "set" /\ SetNext
          /\ UNCHANGED <<bufferVars, timerVars>>
       \/ /\ subject = "few timers" /\ FewTimers!TimerNext
          /\ UNCHANGED <<bufferVars, setVars>>
       \/ /\ subject = "many timers" /\ ManyTimers!TimerNext
          /\ last_id' >= last_id /\ phase' = "idle"    \* six ids, no pass
          /\ UNCHANGED <<bufferVars, setVars>>

\* A pass runs on one thread and callbacks return.
StructuresSpec ==
    /\ StructuresInit
    /\ [][StructuresNext]_<<subject, bufferVars, setVars, timerVars>>
    /\ WF_timerVars(CheckTimeout /\ UNCHANGED <<subject, bufferVars, setVars>>)
=============================================================================
