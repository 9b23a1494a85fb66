-------------------------- MODULE IOServiceProofs --------------------------
(***************************************************************************)
(* Proofs about IOService for any addresses, any callbacks and any number  *)
(* of devices in turn.                                                     *)
(***************************************************************************)
EXTENDS IOService, SequenceTheorems, FiniteSetTheorems, TLAPS

Event == [ptr : Ptrs, id : Nat \ {0}, bits : SUBSET Bits]

\* What the type invariant says of the batch follows from its being a sequence
\* of events.
LEMMA EventFields ==
  ASSUME NEW s \in Seq(Event), NEW i \in DOMAIN s
  PROVE  s[i].ptr \in Ptrs /\ s[i].id \in Nat \ {0} /\ s[i].bits \subseteq Bits
<1>1. i \in 1..Len(s)
  BY LenProperties
<1>2. s[i] \in Event
  BY <1>1
<1> QED
  BY <1>2 DEF Event

\* epoll_wait reports attached devices only, each with the identity it has then.
LEMMA BatchIsFresh ==
  ASSUME IOTypeOK, NEW ready \in [Ptrs -> SUBSET Bits], NEW b \in Batches(ready)
  PROVE  /\ b \in Seq(Event)
         /\ \A i \in DOMAIN b : b[i].ptr \in DOMAIN dev /\ dev[b[i].ptr].id = b[i].id
<1> DEFINE ps == {p \in DOMAIN dev : ready[p] \cap Interest(p) # {}}
           n == IF Cardinality(ps) > events_size THEN events_size ELSE Cardinality(ps)
<1>1. n \in Nat
  <2>1. ps \subseteq Ptrs /\ IsFiniteSet(ps)
    BY IOAssumption, FS_Subset DEF IOTypeOK
  <2> QED
    BY <2>1, FS_CardinalityType DEF IOTypeOK
<1>2. PICK f \in [1..n -> ps] :
        b = [i \in 1..n |-> [ptr |-> f[i], id |-> dev[f[i]].id,
                             bits |-> ready[f[i]] \cap Interest(f[i])]]
  BY DEF Batches
<1> HIDE DEF n
<1>3. \A i \in 1..n : f[i] \in DOMAIN dev /\ f[i] \in Ptrs
  BY <1>2 DEF IOTypeOK
<1>4. \A i \in 1..n : b[i] \in Event
  BY <1>2, <1>3 DEF IOTypeOK, Event
<1>5. b \in [1..n -> Event]
  BY <1>2, <1>4
<1> QED
  BY <1>1, <1>2, <1>3, <1>5

\* Dropping the first event of the batch keeps the others as they are.
LEMMA RestOfBatch ==
  ASSUME NEW s \in Seq(Event), s # <<>>
  PROVE  /\ Tail(s) \in Seq(Event)
         /\ \A i \in DOMAIN Tail(s) : i + 1 \in DOMAIN s /\ Tail(s)[i] = s[i + 1]
<1>1. Tail(s) \in Seq(Event) /\ Len(Tail(s)) = Len(s) - 1
  BY HeadTailProperties
<1>2. \A i \in 1..Len(Tail(s)) : Tail(s)[i] = s[i + 1]
  BY <1>1, HeadTailProperties
<1> QED
  BY <1>1, <1>2, LenProperties

\* One step of the loop or of a callback keeps the invariant.
LEMMA InvStep == IOInv /\ [Next]_vars => IOInv'
<1> SUFFICES ASSUME IOInv, [Next]_vars PROVE IOInv'
  OBVIOUS
<1> USE IOAssumption
<1> USE DEF IOInv, Event
<1>1. CASE UNCHANGED vars
  BY <1>1 DEF vars, ioVars, IOTypeOK, HandledBeforeForgotten, EventsFresh
<1>2. CASE LoopStart /\ UNCHANGED next_id
  BY <1>2 DEF LoopStart, IOTypeOK, HandledBeforeForgotten, EventsFresh
<1>3. CASE AnyWait /\ UNCHANGED next_id
  <2>1. PICK r \in [Ptrs -> SUBSET Bits] : Wait(r)
    BY <1>3 DEF AnyWait
  <2>2. /\ events' \in Seq(Event)
        /\ \A i \in DOMAIN events' :
             events'[i].ptr \in DOMAIN dev /\ dev[events'[i].ptr].id = events'[i].id
    BY <2>1, BatchIsFresh DEF Wait
  <2>3. IOTypeOK'
    BY <2>1, <2>2, EventFields, LenProperties DEF Wait, IOTypeOK
  <2> QED
    BY <1>3, <2>1, <2>2, <2>3 DEF Wait, HandledBeforeForgotten, EventsFresh
<1>4. CASE (WaitFails \/ LoopQuits \/ EventsDone) /\ UNCHANGED next_id
  BY <1>4 DEF WaitFails, LoopQuits, EventsDone, IOTypeOK, HandledBeforeForgotten,
              EventsFresh
<1>5. CASE (SkipRemoved \/ NextEvent) /\ UNCHANGED next_id
  <2>1. /\ events # <<>> /\ events' = Tail(events)
        /\ loop = "dispatch"
        /\ UNCHANGED <<dev, removed, call, loop, quit, event_count, events_size, next_id>>
    BY <1>5 DEF SkipRemoved, NextEvent
  <2>2. /\ events' \in Seq(Event)
        /\ \A i \in DOMAIN events' : i + 1 \in DOMAIN events /\ events'[i] = events[i + 1]
    BY <2>1, RestOfBatch
  <2>3. IOTypeOK'
    BY <2>1, <2>2, EventFields DEF IOTypeOK
  <2>4. EventsFresh'
    BY <2>1, <2>2 DEF EventsFresh
  <2> QED
    BY <2>1, <2>2, <2>3, <2>4 DEF HandledBeforeForgotten
<1>6. CASE Dispatch /\ UNCHANGED next_id
  <2>1. /\ events # <<>> /\ loop = "dispatch"
        /\ events' = [events EXCEPT ![1].bits = @ \ {CurrentBit}]
        /\ loop' \in {"dispatch", "call"}
        /\ UNCHANGED <<dev, removed, quit, event_count, events_size, next_id>>
    BY <1>6 DEF Dispatch
  <2>2. Len(events) \in Nat /\ Len(events) # 0 /\ DOMAIN events = 1..Len(events)
    BY <2>1, LenProperties, EmptySeq
  <2>3. /\ events' \in [1..Len(events) -> Event]
        /\ \A i \in DOMAIN events :
             events'[i].ptr = events[i].ptr /\ events'[i].id = events[i].id
    <3>1. \A i \in DOMAIN events : events[i] \in Event
      BY ElementOfSeq, <2>2
    <3> QED
      BY <2>1, <2>2, <3>1
  <2>4. events' \in Seq(Event) /\ DOMAIN events' = DOMAIN events
    BY <2>2, <2>3
  <2>5. IOTypeOK'
    BY <2>1, <2>4, EventFields DEF IOTypeOK
  <2>6. EventsFresh'
    BY <2>1, <2>3, <2>4 DEF EventsFresh
  <2> QED
    BY <2>1, <2>4, <2>5, <2>6 DEF HandledBeforeForgotten
<1>7. CASE EndIteration /\ UNCHANGED next_id
  BY <1>7 DEF EndIteration, IOTypeOK, HandledBeforeForgotten, EventsFresh
<1>8. ASSUME NEW p \in Ptrs, NEW cb \in [Bits -> Callbacks \cup {None}],
             NewDevice(p, cb)
      PROVE  IOInv'
  <2>1. IOTypeOK' /\ next_id' \in Nat \ {0}
    BY <1>8 DEF NewDevice, WithDevice, IOTypeOK
  <2>2. EventsFresh'
    BY <1>8 DEF NewDevice, WithDevice, EventsFresh
  <2> QED
    BY <1>8, <2>1, <2>2 DEF NewDevice, HandledBeforeForgotten
<1>9. ASSUME NEW p \in Ptrs, DeleteDevice(p) PROVE IOInv'
  <2>1. IOTypeOK'
    BY <1>9 DEF DeleteDevice, WithoutDevice, IOTypeOK
  <2>2. EventsFresh'
    BY <1>9 DEF DeleteDevice, WithoutDevice, EventsFresh
  <2> QED
    BY <1>9, <2>1, <2>2 DEF DeleteDevice, HandledBeforeForgotten
<1>10. ASSUME NEW p \in Ptrs, NEW b \in Bits, NEW c \in Callbacks \cup {None},
              SetCallback(p, b, c)
       PROVE  IOInv'
  <2>1. /\ DOMAIN dev' = DOMAIN dev
        /\ \A q \in DOMAIN dev : /\ dev'[q].id = dev[q].id
                                 /\ dev'[q].cb \in [Bits -> Callbacks \cup {None}]
    BY <1>10 DEF SetCallback, IOTypeOK
  <2>2. IOTypeOK'
    BY <1>10, <2>1 DEF SetCallback, IOTypeOK
  <2>3. EventsFresh'
    BY <1>10, <2>1 DEF SetCallback, EventsFresh
  <2> QED
    BY <1>10, <2>2, <2>3 DEF SetCallback, HandledBeforeForgotten
<1>11. CASE Quit \/ CallbackReturns \/ TimerFires
  BY <1>11 DEF Quit, CallbackReturns, TimerFires, IOTypeOK, HandledBeforeForgotten,
               EventsFresh
<1> QED
  BY <1>1, <1>2, <1>3, <1>4, <1>5, <1>6, <1>7, <1>8, <1>9, <1>10, <1>11
  DEF Next, LoopStep

\* The loop starts with no devices, no batch and nothing removed.
LEMMA InitInv == Init => IOInv
<1> SUFFICES ASSUME Init PROVE IOInv
  OBVIOUS
<1>1. DOMAIN dev = {} /\ removed = {} /\ events = <<>> /\ DOMAIN events = {}
  BY DEF Init, IOInit
<1>2. events \in Seq(Event)
  BY <1>1, EmptySeq
<1>3. IOTypeOK
  BY <1>1, IOAssumption DEF Init, IOInit, IOTypeOK
<1>4. HandledBeforeForgotten /\ EventsFresh
  BY <1>1 DEF HandledBeforeForgotten, EventsFresh
<1>5. next_id \in Nat \ {0}
  BY DEF Init
<1> QED
  BY <1>2, <1>3, <1>4, <1>5 DEF IOInv, Event

\* The invariant holds throughout.
LEMMA Invariance == Spec => []IOInv
BY InitInv, InvStep, PTL DEF Spec

\* The members of the event loop keep their types.
THEOREM TypeCorrect == Spec => []IOTypeOK
<1>1. IOInv => IOTypeOK
  BY DEF IOInv
<1> QED
  BY <1>1, Invariance, PTL

\* Whatever callbacks delete and create in the middle of a batch, each event that
\* is left is for the device at its address or for an address that the loop
\* remembers as removed: removed_io_devices_ is complete until it is cleared.
THEOREM BatchStaysFresh == Spec => []EventsFresh
<1>1. IOInv => EventsFresh
  BY DEF IOInv
<1> QED
  BY <1>1, Invariance, PTL

\* A call of a callback is one on the attached device the event is for.
SafeCall ==
    loop = "dispatch" /\ loop' = "call" =>
        /\ call'.ptr \in DOMAIN dev
        /\ dev[call'.ptr].id = call'.id

\* loop() never calls a callback through a stale pointer, nor that of a device
\* that was created at the same address after epoll_wait returned.
THEOREM DispatchIsSafe == Spec => NoStaleDispatch
<1>1. IOInv /\ [Next]_vars => [SafeCall]_vars
  <2> SUFFICES ASSUME IOInv, Next, loop = "dispatch", loop' = "call" PROVE SafeCall
    BY DEF SafeCall
  <2>1. Dispatch
    BY DEF Next, LoopStart, AnyWait, Wait, WaitFails, LoopStep, LoopQuits, SkipRemoved,
           NextEvent, EventsDone, EndIteration, InClientCode, NewDevice, DeleteDevice,
           SetCallback, Quit, CallbackReturns, TimerFires
  <2>2. 1 \in DOMAIN events
    BY <2>1, EmptySeq, LenProperties DEF Dispatch, IOInv
  <2>3. /\ events[1].ptr \notin removed /\ dev' = dev
        /\ call'.ptr = events[1].ptr /\ call'.id = events[1].id
    BY <2>1 DEF Dispatch, checkIODeviceExist
  <2> QED
    BY <2>2, <2>3 DEF IOInv, EventsFresh, SafeCall
<1>2. [][SafeCall]_vars <=> NoStaleDispatch
  BY DEF SafeCall, NoStaleDispatch
<1>3. Spec => [][SafeCall]_vars
  BY <1>1, Invariance, PTL DEF Spec
<1> QED
  BY <1>2, <1>3, PTL
=============================================================================
