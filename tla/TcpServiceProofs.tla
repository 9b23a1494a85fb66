-------------------------- MODULE TcpServiceProofs --------------------------
(***************************************************************************)
(* Proofs about TcpService for any number of sockets and any limits: the   *)
(* invariant of its control, and the properties that follow from it.       *)
(***************************************************************************)
EXTENDS TcpServiceData

-----------------------------------------------------------------------------
(* Where the loop and the handlers are *)

V(id) == View(Core, id)

InCall == loop = "call" /\ pc = "loop"
InAccept == pc = "accept" \/ (pc = "client" /\ then = "accept")

\* The loop, the handlers and the client take turns.
TurnsFit ==
    /\ loop \in {"stopped", "poll", "dispatch", "call", "timers"}
    /\ loop = "stopped" <=> pc = "client" /\ then = "start"
    /\ loop \in {"poll", "dispatch"} => pc = "loop"
    /\ pc \in {"accept", "read"} => loop = "call"
    /\ pc = "client" /\ then \in {"accept", "peerClose"} => loop = "call"
    /\ pc \in {"loop", "accept", "read", "client"}
    /\ then \in {"return", "accept", "peerClose", "start"}
    /\ data \in BOOLEAN /\ ticked \in BOOLEAN /\ budget \in 0..CallBound
    /\ quit = FALSE /\ event_count \in Nat /\ events_size \in Nat \ {0}
    /\ next_id \in 1..IdBound + 1
    /\ \A id \in DOMAIN sockets : id < next_id
    /\ hid \in 0..next_id - 1 /\ cb.id \in 0..next_id - 1
    /\ pc = "client" /\ cb.kind \in {"error", "peerClose"} => then = "return"
    /\ pc = "client" /\ then = "peerClose" => cb.id = hid /\ cb.kind = "recv"
    /\ Casting => pc = "client" /\ budget < CallBound
    /\ casting.left \subseteq DOMAIN conns /\ casting.size \in Nat

Event == [ptr : Ptrs, id : Nat \ {0}, bits : SUBSET IO!Bits]

\* An event that is left is for the socket at its address, unless that address is
\* remembered, and its bits are for callbacks that are set.
EventFits(e) ==
    e.ptr \notin removed =>
        /\ e.id \in DOMAIN sockets /\ sockets[e.id] = e.ptr
        /\ \A b \in e.bits \cap {"in", "out"} : V(e.id).cb[b] # None
        /\ V(e.id).conn.status = "CONNECTING" /\ "err" \in e.bits =>
            "out" \in e.bits \/ (InCall /\ call.id = e.id)

EventsFit ==
    /\ events \in Seq(Event)
    /\ loop \notin {"dispatch", "call"} => events = <<>>
    /\ \A i \in DOMAIN events : EventFits(events[i])
    /\ \A i, j \in DOMAIN events : events[i].id = events[j].id => i = j

\* The bit b of socket id has been dispatched in this batch.
Taken(id, b) == \A i \in DOMAIN events : events[i].id = id => b \notin events[i].bits

\* The callback that runs is the one set for a bit of an open socket.
CallFits ==
    /\ loop = "call" => call.cb # None
    /\ InCall =>
        /\ call.id \in DOMAIN sockets /\ sockets[call.id] = call.ptr
        /\ call.bit \in IO!Bits /\ call.cb = V(call.id).cb[call.bit]
        /\ Taken(call.id, call.bit)
        /\ call.bit = "err" => V(call.id).conn.status # "CONNECTING"

\* The peer will send no more, or has sent as much as fits.
PeerDone(v) ==
    \/ v.net.inq = 0 /\ (v.net.fin \/ v.net.rst)
    \/ MaxRead > 0 /\ (v.net.recvd > MaxRead \/ (v.net.recvd = MaxRead /\ v.net.inq = 0))

\* What a handler that is split still works on.
HandlerFits ==
    /\ InAccept /\ hid \in DOMAIN sockets =>
        /\ V(hid).conn.status = "LISTENING"
        /\ V(hid).cb["in"] = "onListenSocketRead"
        /\ Taken(hid, "in")
    /\ pc = "read" =>
        hid \in DOMAIN conns /\ V(hid).cb["in"] = "onSocketRead"
    /\ pc = "client" /\ then = "peerClose" /\ hid \in DOMAIN conns =>
        V(hid).cb["in"] = "onSocketRead" /\ PeerDone(V(hid))
    /\ pc = "client" /\ cb.kind = "peerClose" /\ cb.id \in DOMAIN conns =>
        PeerDone(V(cb.id))
    /\ pc = "client" /\ budget = CallBound /\ cb.kind \in {"new", "recv", "peerClose", "error"}
        => cb.id \in DOMAIN conns

ErrorRuns(id) == pc = "client" /\ cb = [kind |-> "error", id |-> id]

\* With a client that closes what has failed, a failure is reported once and what
\* was received is handed over at once.
ClosingFits ==
    MustClose => \A id \in DOMAIN conns :
        /\ V(id).conn.status = "PENDING_ERROR" =>
            V(id).timer = "onSendMessageError" \/ ErrorRuns(id)
        /\ V(id).conn.fresh > 0 => (pc = "read" /\ hid = id /\ data) \/ ErrorRuns(id)

TcpInv ==
    /\ CoreInv(Core)
    /\ TurnsFit /\ EventsFit /\ CallFits /\ HandlerFits /\ ClosingFits

-----------------------------------------------------------------------------
(* The data, from one step to the next *)

\* Core is a record of the eight members.
LEMMA CoreIsShaped == Shape(Core)
BY DEF Core, Shape

\* Become sets the members to those of the record.
LEMMA BecomeIs ==
  ASSUME NEW S, Shape(S), Become(S)
  PROVE  Core' = S
BY DEF Core, Become, Shape

\* A step that leaves the members alone leaves the record alone.
LEMMA CoreStays ==
  ASSUME UNCHANGED coreVars
  PROVE  Core' = Core
BY DEF coreVars, Core

\* No socket but cid loses a callback, and that one only cbit; no socket is lost
\* without its address being remembered; and connecting starts anew on none.
Evolves(S, T, cid, cbit) ==
    /\ CoreInv(T)
    /\ S.removed \subseteq T.removed
    /\ \A id \in Ids(S) :
        \/ id \notin Ids(T) /\ S.sockets[id] \in T.removed
        \/ /\ id \in Ids(T) /\ T.sockets[id] = S.sockets[id]
           /\ View(T, id).conn.status = "CONNECTING" => View(S, id).conn.status = "CONNECTING"
           /\ \A b \in {"in", "out"} :
                View(S, id).cb[b] # None /\ ~(id = cid /\ b = cbit) => View(T, id).cb[b] # None

\* The rest of the batch fits what a handler or the client makes of the sockets.
LEMMA EventsStay ==
  ASSUME EventsFit, NEW cid, NEW cbit, Evolves(Core, Core', cid, cbit), Taken(cid, cbit),
         events' = events, loop' \notin {"dispatch", "call"} => events = <<>>,
         InCall => \/ call.id \notin Ids(Core')
                   \/ View(Core', call.id).conn.status # "CONNECTING"
                   \/ InCall' /\ call' = call
  PROVE  EventsFit'
<1>1. ASSUME NEW i \in DOMAIN events PROVE EventFits(events[i])'
  <2> DEFINE e == events[i]
  <2>1. EventFits(e)
    BY DEF EventsFit
  <2>2. SUFFICES ASSUME e.ptr \notin removed'
                 PROVE  /\ e.id \in DOMAIN sockets' /\ sockets'[e.id] = e.ptr
                        /\ \A b \in e.bits \cap {"in", "out"} : View(Core', e.id).cb[b] # None
                        /\ View(Core', e.id).conn.status = "CONNECTING" /\ "err" \in e.bits =>
                              "out" \in e.bits \/ (InCall' /\ call'.id = e.id)
    BY DEF EventFits, V
  <2>3. e.ptr \notin removed /\ Core.removed = removed /\ Core'.removed = removed'
    BY <2>2 DEF Core, Evolves
  <2>4. e.id \in Ids(Core) /\ Core.sockets[e.id] = e.ptr
    BY <2>1, <2>3 DEF EventFits, Ids, Core
  <2>5. /\ e.id \in Ids(Core') /\ Core'.sockets[e.id] = e.ptr
        /\ View(Core', e.id).conn.status = "CONNECTING" => View(Core, e.id).conn.status = "CONNECTING"
        /\ \A b \in {"in", "out"} :
             View(Core, e.id).cb[b] # None /\ ~(e.id = cid /\ b = cbit)
               => View(Core', e.id).cb[b] # None
    BY <2>2, <2>3, <2>4 DEF Evolves
  <2>6. \A b \in e.bits \cap {"in", "out"} :
          View(Core, e.id).cb[b] # None /\ ~(e.id = cid /\ b = cbit)
    BY <2>1, <2>3 DEF EventFits, V, Taken
  <2>7. View(Core', e.id).conn.status = "CONNECTING" /\ "err" \in e.bits =>
          "out" \in e.bits \/ (InCall' /\ call'.id = e.id)
    BY <2>1, <2>3, <2>5 DEF EventFits, V
  <2>8. e.id \in DOMAIN sockets' /\ sockets'[e.id] = e.ptr
    BY <2>5 DEF Ids, Core
  <2> QED
    BY <2>5, <2>6, <2>7, <2>8
<1>2. events' \in Seq(Event)
  BY DEF EventsFit
<1> QED
  BY <1>1, <1>2 DEF EventsFit

\* Doing nothing is something the client may do.
LEMMA KeptByClient ==
  ASSUME NEW v
  PROVE  ClientKeeps(v, v)
BY DEF ClientKeeps

\* What a call of the client makes of the sockets.
ClientStep(S, T) ==
    /\ CoreInv(T)
    /\ S.removed \subseteq T.removed
    /\ \A id \in Ids(S) :
        \/ id \notin Ids(T) /\ S.sockets[id] \in T.removed
        \/ /\ id \in Ids(T) /\ ClientKeeps(View(S, id), View(T, id))
           /\ id \in DOMAIN S.conns <=> id \in DOMAIN T.conns
    /\ \A id \in Ids(T) \ Ids(S) :
        /\ id = next_id /\ next_id < next_id'
        /\ View(T, id).conn.status # "PENDING_ERROR" /\ View(T, id).conn.fresh = 0

\* A call of the client clears no callback.
LEMMA ClientStepEvolves ==
  ASSUME NEW S, NEW T, ClientStep(S, T)
  PROVE  Evolves(S, T, 0, "in")
<1> SUFFICES ASSUME NEW id \in Ids(S), id \in Ids(T), ClientKeeps(View(S, id), View(T, id))
             PROVE  /\ T.sockets[id] = S.sockets[id]
                    /\ View(T, id).conn.status = "CONNECTING"
                         => View(S, id).conn.status = "CONNECTING"
                    /\ \A b \in {"in", "out"} :
                         View(S, id).cb[b] # None => View(T, id).cb[b] # None
  BY DEF ClientStep, Evolves
<1>1. View(T, id).ptr = T.sockets[id] /\ View(S, id).ptr = S.sockets[id]
  BY DEF View
<1> QED
  BY <1>1 DEF ClientKeeps

\* Ids already given out are below the next id.
LEMMA InRange ==
  ASSUME NEW a \in Nat, NEW m \in Nat, m < a
  PROVE  m \in 0..a - 1
OBVIOUS

\* They stay so when the next id grows.
LEMMA RangeGrows ==
  ASSUME NEW a \in Nat, NEW b \in Nat, a <= b, NEW m \in 0..a - 1
  PROVE  m \in 0..b - 1
OBVIOUS

\* The client stays in control.
ClientControl ==
    /\ pc = "client"
    /\ UNCHANGED <<loop, call, loopVars, pc, cb, then, hid, data>>
    /\ budget' \in 0..CallBound /\ budget' < CallBound
    /\ next_id' \in 1..IdBound + 1 /\ next_id <= next_id'
    /\ casting'.left \subseteq DOMAIN conns' /\ casting'.size \in Nat

\* No call of the client makes a peer that is done go on.
LEMMA PeerStaysDone ==
  ASSUME NEW v, NEW w, ClientKeeps(v, w), PeerDone(v)
  PROVE  PeerDone(w)
BY DEF ClientKeeps, PeerDone

\* A step of the client that keeps control keeps the invariant.
LEMMA ClientStepKeeps ==
  ASSUME TcpInv, ClientControl, ClientStep(Core, Core')
  PROVE  TcpInv'
<1> USE DEF ClientControl
<1>1. CoreInv(Core')
  BY DEF ClientStep
<1>2. EventsFit'
  <2>1. Evolves(Core, Core', 0, "in")
    BY ClientStepEvolves
  <2>2. Taken(0, "in")
    <3>1. \A i \in DOMAIN events : events[i].id # 0
      <4> SUFFICES ASSUME NEW i \in DOMAIN events PROVE events[i].id # 0
        OBVIOUS
      <4>1. events \in Seq(Event)
        BY DEF TcpInv, EventsFit
      <4>2. events[i] \in Event
        BY <4>1, ElementOfSeq, LenProperties
      <4> QED
        BY <4>2 DEF Event
    <3> QED
      BY <3>1 DEF Taken
  <2>3. EventsFit /\ ~InCall /\ (loop \notin {"dispatch", "call"} => events = <<>>)
    BY DEF TcpInv, EventsFit, InCall
  <2>4. events' = events /\ loop' = loop
    BY DEF loopVars
  <2> QED
    BY <2>1, <2>2, <2>3, <2>4, EventsStay
<1>3. \A id \in Ids(Core) \cap Ids(Core') : ClientKeeps(View(Core, id), View(Core', id))
  BY DEF ClientStep
<1>4. /\ Ids(Core) = DOMAIN sockets /\ Ids(Core') = DOMAIN sockets'
      /\ Core.conns = conns /\ Core'.conns = conns' /\ Core.sockets = sockets
  BY DEF Ids, Core
<1>5. /\ DOMAIN conns \subseteq DOMAIN sockets /\ DOMAIN conns' \subseteq DOMAIN sockets'
      /\ 0 \notin DOMAIN sockets'
  BY <1>1, <1>4 DEF TcpInv, CoreInv, Struct, SocketMaps
<1>6. TurnsFit'
  <2>1. \A id \in DOMAIN sockets' : id < next_id'
    <3>1. \A id \in DOMAIN sockets : id \in Nat /\ id < next_id
      BY <1>4 DEF TcpInv, TurnsFit, CoreInv, Struct, SocketMaps
    <3>2. \A id \in DOMAIN sockets : id < next_id'
      BY <3>1, TcpAssumption DEF TcpInv, TurnsFit
    <3> QED
      BY <1>4, <3>2 DEF ClientStep
  <2>2. hid \in 0..next_id' - 1 /\ cb.id \in 0..next_id' - 1
    <3> SUFFICES ASSUME NEW m, m \in 0..next_id - 1 PROVE m \in 0..next_id' - 1
      BY DEF TcpInv, TurnsFit
    <3>1. next_id \in Nat /\ next_id' \in Nat /\ next_id <= next_id'
      BY TcpAssumption DEF TcpInv, TurnsFit
    <3> QED
      BY <3>1, RangeGrows
  <2>3. TurnsFit
    BY DEF TcpInv
  <2> QED
    BY <2>1, <2>2, <2>3 DEF TurnsFit, Casting, loopVars
<1>7. CallFits'
  BY DEF TcpInv, CallFits, InCall
<1>8. \A id \in DOMAIN sockets' : id \in 0..next_id - 1 => id \in DOMAIN sockets
  <2> SUFFICES ASSUME NEW id \in DOMAIN sockets', id \in 0..next_id - 1
               PROVE  id \in DOMAIN sockets
    OBVIOUS
  <2>1. id # next_id
    BY TcpAssumption DEF TcpInv, TurnsFit
  <2> QED
    BY <1>4, <2>1 DEF ClientStep
<1>9. \A id \in DOMAIN conns' : id \in DOMAIN sockets => id \in DOMAIN conns
  BY <1>4, <1>5 DEF ClientStep
<1>10. HandlerFits'
  <2>1. ASSUME hid \in DOMAIN sockets', InAccept
        PROVE  /\ View(Core', hid).conn.status = "LISTENING"
               /\ View(Core', hid).cb["in"] = "onListenSocketRead" /\ Taken(hid, "in")
    <3>1. hid \in DOMAIN sockets
      BY <1>8, <2>1 DEF TcpInv, TurnsFit
    <3>2. ClientKeeps(View(Core, hid), View(Core', hid))
      BY <1>3, <1>4, <2>1, <3>1
    <3> QED
      BY <2>1, <3>1, <3>2 DEF TcpInv, HandlerFits, ClientKeeps, V
  <2>2. ASSUME then = "peerClose", hid \in DOMAIN conns'
        PROVE  View(Core', hid).cb["in"] = "onSocketRead" /\ PeerDone(View(Core', hid))
    <3>1. hid \in DOMAIN sockets /\ hid \in DOMAIN conns
      BY <1>5, <1>8, <1>9, <2>2 DEF TcpInv, TurnsFit
    <3>2. ClientKeeps(View(Core, hid), View(Core', hid))
      BY <1>3, <1>4, <1>5, <2>2, <3>1
    <3>3. View(Core, hid).cb["in"] = "onSocketRead" /\ PeerDone(View(Core, hid))
      BY <2>2, <3>1 DEF TcpInv, HandlerFits, V
    <3> QED
      BY <3>2, <3>3, PeerStaysDone DEF ClientKeeps
  <2>3. ASSUME cb.kind = "peerClose", cb.id \in DOMAIN conns'
        PROVE  PeerDone(View(Core', cb.id))
    <3>1. cb.id \in DOMAIN sockets /\ cb.id \in DOMAIN conns
      BY <1>5, <1>8, <1>9, <2>3 DEF TcpInv, TurnsFit
    <3>2. ClientKeeps(View(Core, cb.id), View(Core', cb.id))
      BY <1>3, <1>4, <1>5, <2>3, <3>1
    <3>3. PeerDone(View(Core, cb.id))
      BY <2>3, <3>1 DEF TcpInv, HandlerFits, V
    <3> QED
      BY <3>2, <3>3, PeerStaysDone
  <2> QED
    BY <2>1, <2>2, <2>3 DEF HandlerFits, InAccept, Taken, V, loopVars
<1>11. ClosingFits'
  <2> SUFFICES ASSUME MustClose, NEW id \in DOMAIN conns'
               PROVE  /\ View(Core', id).conn.status = "PENDING_ERROR" =>
                           View(Core', id).timer = "onSendMessageError" \/ ErrorRuns(id)
                      /\ View(Core', id).conn.fresh > 0 => ErrorRuns(id)
    BY DEF ClosingFits, ErrorRuns, V
  <2>1. CASE id \notin DOMAIN sockets
    <3>1. View(Core', id).conn.status # "PENDING_ERROR" /\ View(Core', id).conn.fresh = 0
      BY <1>4, <1>5, <2>1 DEF ClientStep
    <3> QED
      BY <3>1
  <2>2. CASE id \in DOMAIN sockets
    <3>1. ClientKeeps(View(Core, id), View(Core', id)) /\ id \in DOMAIN conns
      BY <1>3, <1>4, <1>5, <1>9, <2>2
    <3>2. /\ View(Core, id).conn.status = "PENDING_ERROR" =>
               View(Core, id).timer = "onSendMessageError" \/ ErrorRuns(id)
          /\ View(Core, id).conn.fresh > 0 => ErrorRuns(id)
      BY <3>1 DEF TcpInv, ClosingFits, V
    <3> QED
      BY <3>1, <3>2 DEF ClientKeeps
  <2> QED
    BY <2>1, <2>2
<1> QED
  BY <1>1, <1>2, <1>6, <1>7, <1>10, <1>11 DEF TcpInv

-----------------------------------------------------------------------------
(* The client's calls *)

\* Changing nothing is a step the client may make.
LEMMA NothingIsClientStep ==
  ASSUME NEW S, CoreInv(S)
  PROVE  ClientStep(S, S)
BY KeptByClient DEF ClientStep

\* A change of one socket that the client may make.
LEMMA ChangeIsClientStep ==
  ASSUME NEW S, CoreInv(S), NEW T, NEW id \in Ids(S), NEW w,
         Changed(S, T, id, w), Good(w), ClientKeeps(View(S, id), w)
  PROVE  ClientStep(S, T)
<1>1. w.conn.status = "LISTENING" <=> View(S, id).conn.status = "LISTENING"
  BY DEF ClientKeeps
<1>2. CoreInv(T)
  BY <1>1, ChangeKeeps
<1>3. \A j \in Ids(S) : ClientKeeps(View(S, j), View(T, j))
  BY KeptByClient DEF Changed
<1> QED
  BY <1>2, <1>3 DEF ClientStep, Changed

\* Closing a socket.
LEMMA CloseIsClientStep ==
  ASSUME NEW S, CoreInv(S), NEW T, NEW id \in Ids(S), Closed(S, T, id)
  PROVE  ClientStep(S, T)
<1>1. CoreInv(T)
  BY CloseKeeps
<1>2. \A j \in Ids(T) : ClientKeeps(View(S, j), View(T, j))
  BY KeptByClient DEF Closed
<1> QED
  BY <1>1, <1>2 DEF ClientStep, Closed

\* Opening a socket.
LEMMA OpenIsClientStep ==
  ASSUME NEW S, CoreInv(S), NEW T, next_id \notin Ids(S), NEW w,
         Opened(S, T, next_id, w), Good(w), w.conn.status = "LISTENING" => w.conn = NoConn,
         w.conn.status # "PENDING_ERROR", w.conn.fresh = 0, next_id < next_id'
  PROVE  ClientStep(S, T)
<1>1. CoreInv(T)
  BY OpenKeeps
<1>2. \A j \in Ids(S) : ClientKeeps(View(S, j), View(T, j))
  BY KeptByClient DEF Opened
<1>3. DOMAIN S.conns \subseteq Ids(S)
  BY DEF CoreInv, Struct, SocketMaps
<1> QED
  BY <1>1, <1>2, <1>3 DEF ClientStep, Opened

\* sendMessage and sendMessageThenClose.
LEMMA SendIsClientStep ==
  ASSUME NEW S, CoreInv(S), NEW id, NEW size \in Nat, NEW sccb \in {None, "close"}
  PROVE  ClientStep(S, sendMessage(S, id, size, sccb))
<1> DEFINE T == sendMessage(S, id, size, sccb)
<1>1. T = S \/ (id \in DOMAIN S.conns /\ SendResult(S, T, id, sccb))
  BY SendKeeps
<1> SUFFICES ClientStep(S, T)
  OBVIOUS
<1> HIDE DEF T
<1>2. CASE T = S
  BY <1>2, NothingIsClientStep
<1>3. CASE id \in DOMAIN S.conns /\ SendResult(S, T, id, sccb)
  <2>1. id \in Ids(S)
    BY <1>3, ConnView
  <2> QED
    BY <1>3, <2>1, ChangeIsClientStep, CloseIsClientStep DEF SendResult
<1> QED
  BY <1>1, <1>2, <1>3

\* closeSocket, on an open or a closed id.
LEMMA CloseSocketIsClientStep ==
  ASSUME NEW S, CoreInv(S), NEW id
  PROVE  ClientStep(S, closeSocket(S, id))
<1>1. Struct(S)
  BY DEF CoreInv
<1>2. CASE id \in Ids(S)
  BY <1>1, <1>2, CloseCloses, CloseIsClientStep
<1>3. CASE id \notin Ids(S)
  BY <1>1, <1>3, CloseUnknown, NothingIsClientStep
<1> QED
  BY <1>2, <1>3

\* What becomes of the data in a call of the client.
LEMMA BecomeClientStep ==
  ASSUME NEW T, ClientStep(Core, T), Become(T)
  PROVE  Core' = T /\ ClientStep(Core, Core')
<1>1. Shape(T)
  BY DEF ClientStep, CoreInv, Struct
<1> QED
  BY <1>1, BecomeIs

\* A call of the client leaves control with it.
LEMMA CallIsControl ==
  ASSUME TcpInv, NEW kind, Calls(kind), next_id' \in {next_id, next_id + 1},
         next_id' # next_id => next_id <= IdBound, casting'.left \subseteq DOMAIN conns',
         casting'.size \in Nat
  PROVE  ClientControl
<1>1. next_id' \in 1..IdBound + 1 /\ next_id <= next_id'
  BY TcpAssumption DEF TcpInv, TurnsFit
<1>2. budget' \in 0..CallBound /\ budget' < CallBound
  BY TcpAssumption DEF TcpInv, TurnsFit, Calls
<1> QED
  BY <1>1, <1>2 DEF ClientControl, Calls

\* The calls of the client, one by one.
LEMMA ClientSendsKeeps ==
  ASSUME TcpInv, NEW id, NEW size \in SendSizes,
         ClientSends(id, size) \/ ClientSendsLast(id, size)
  PROVE  TcpInv'
<1>1. PICK sccb \in {None, "close"} : Become(sendMessage(Core, id, size, sccb))
  BY DEF ClientSends, ClientSendsLast
<1>2. PICK kind : Calls(kind) /\ UNCHANGED <<casting, next_id>>
  BY DEF ClientSends, ClientSendsLast, ClientCall
<1>3. ClientStep(Core, sendMessage(Core, id, size, sccb))
  BY TcpAssumption, SendIsClientStep DEF TcpInv
<1>4. ClientStep(Core, Core')
  BY <1>1, <1>3, BecomeClientStep
<1>5. casting'.left \subseteq DOMAIN conns' /\ casting'.size \in Nat
  BY <1>2 DEF TcpInv, TurnsFit, Calls, Casting
<1>6. ClientControl
  BY <1>2, <1>5, CallIsControl
<1> QED
  BY <1>4, <1>6, ClientStepKeeps

\* closeSocket
LEMMA ClientClosesKeeps ==
  ASSUME TcpInv, NEW id, ClientCloses(id)
  PROVE  TcpInv'
<1>1. Calls("close") /\ UNCHANGED <<casting, next_id>>
  BY DEF ClientCloses, ClientCall
<1>2. ClientStep(Core, Core')
  BY CloseSocketIsClientStep, BecomeClientStep DEF TcpInv, ClientCloses
<1>3. casting'.left \subseteq DOMAIN conns' /\ casting'.size \in Nat
  BY <1>1 DEF TcpInv, TurnsFit, Calls, Casting
<1>4. ClientControl
  BY <1>1, <1>3, CallIsControl
<1> QED
  BY <1>2, <1>4, ClientStepKeeps

\* Taking what is in the read buffer.
LEMMA ClientReadsKeeps ==
  ASSUME TcpInv, ClientReads
  PROVE  TcpInv'
<1>1. Calls("read") /\ UNCHANGED <<casting, next_id>> /\ cb.id \in DOMAIN conns
  BY DEF ClientReads, ClientCall
<1>2. ClientStep(Core, Core')
  <2> DEFINE T == [Core EXCEPT !.conns[cb.id].rbuf = 0]
  <2>1. CoreInv(Core) /\ Core.conns = conns
    BY DEF TcpInv, Core
  <2>2. cb.id \in Ids(Core) /\ \E w : Changed(Core, T, cb.id, w) /\ Good(w)
                                      /\ ClientKeeps(View(Core, cb.id), w)
    BY <1>1, <2>1, TakeKeeps, ConnView
  <2>3. Become(T)
    BY DEF ClientReads
  <2> HIDE DEF T
  <2>4. ClientStep(Core, T)
    BY <2>1, <2>2, ChangeIsClientStep
  <2> QED
    BY <2>3, <2>4, BecomeClientStep
<1>3. casting'.left \subseteq DOMAIN conns' /\ casting'.size \in Nat
  BY <1>1 DEF TcpInv, TurnsFit, Calls, Casting
<1>4. ClientControl
  BY <1>1, <1>3, CallIsControl
<1> QED
  BY <1>2, <1>4, ClientStepKeeps

\* A socket gets the next id.
LEMMA NextIdIsNew ==
  ASSUME TcpInv, NEW p, Allocate(p), p \in Ptrs
  PROVE  /\ next_id \in Nat \ {0} /\ next_id \notin Ids(Core)
         /\ p \notin DOMAIN Core.dev /\ next_id < next_id'
         /\ next_id' = next_id + 1 /\ next_id <= IdBound
BY TcpAssumption DEF TcpInv, TurnsFit, Allocate, Ids, Core

\* listen, connect and asyncConnect
LEMMA ClientOpensKeeps ==
  ASSUME TcpInv, NEW p \in Ptrs,
         \/ ClientListens(p)
         \/ ClientConnects(p)
         \/ \E timeout \in BOOLEAN : ClientConnectsAsync(p, timeout)
  PROVE  TcpInv'
<1>1. PICK kind : Calls(kind) /\ UNCHANGED casting
  BY DEF ClientListens, ClientConnects, ClientConnectsAsync, ClientCall
<1>2. Allocate(p)
  BY DEF ClientListens, ClientConnects, ClientConnectsAsync
<1>3. /\ next_id \in Nat \ {0} /\ next_id \notin Ids(Core)
      /\ p \notin DOMAIN Core.dev /\ next_id < next_id'
      /\ next_id' = next_id + 1 /\ next_id <= IdBound
  BY <1>2, NextIdIsNew
<1>4. CoreInv(Core)
  BY DEF TcpInv
<1>5. ClientStep(Core, Core')
  <2>1. CASE ClientListens(p)
    <3> DEFINE T == NewSocket(Core, p, Socket("onListenSocketRead", None), NewNet("listen"))
    <3>1. Become(T)
      BY <2>1 DEF ClientListens
    <3>2. \E w : Opened(Core, T, next_id, w) /\ Good(w) /\ w.conn = NoConn
      BY <1>3, <1>4, ListenKeeps
    <3> HIDE DEF T
    <3>3. NoConn.status = "LISTENING" /\ NoConn.fresh = 0
      BY DEF NoConn
    <3>4. ClientStep(Core, T)
      BY <1>3, <1>4, <3>2, <3>3, OpenIsClientStep
    <3> QED
      BY <3>1, <3>4, BecomeClientStep
  <2>2. CASE ClientConnects(p)
    <3>1. Become(buildConnectedSocket(Core, p))
      BY <2>2 DEF ClientConnects
    <3>2. \E w : /\ Opened(Core, buildConnectedSocket(Core, p), next_id, w)
                 /\ Good(w) /\ w.conn.status = "CONNECTED" /\ w.conn.fresh = 0
                 /\ w.conn # NoConn
      BY <1>3, <1>4, ConnectKeeps
    <3>3. ClientStep(Core, buildConnectedSocket(Core, p))
      BY <1>3, <1>4, <3>2, OpenIsClientStep
    <3> QED
      BY <3>1, <3>3, BecomeClientStep
  <2>3. CASE \E timeout \in BOOLEAN : ClientConnectsAsync(p, timeout)
    <3>1. PICK timeout \in BOOLEAN : ClientConnectsAsync(p, timeout)
      BY <2>3
    <3> DEFINE R == NewConnection(Core, p, Socket(None, "onAsyncConnectSocketWrite"),
                                  NewNet("pending"), "CONNECTING")
               T == IF timeout THEN addSocketTimer(R, next_id, "onAsyncConnectTimeout")
                    ELSE R
    <3>2. Become(T)
      BY <3>1 DEF ClientConnectsAsync
    <3>3. \E w : /\ Opened(Core, T, next_id, w)
                 /\ Good(w) /\ w.conn.status = "CONNECTING" /\ w.conn.fresh = 0
                 /\ w.conn # NoConn
      BY <1>3, <1>4, ConnectAsyncKeeps
    <3> HIDE DEF T
    <3>4. ClientStep(Core, T)
      BY <1>3, <1>4, <3>3, OpenIsClientStep
    <3> QED
      BY <3>2, <3>4, BecomeClientStep
  <2> QED
    BY <2>1, <2>2, <2>3
<1>6. casting'.left \subseteq DOMAIN conns' /\ casting'.size \in Nat
  BY <1>1 DEF TcpInv, TurnsFit, Calls, Casting
<1>7. ClientControl
  BY <1>1, <1>3, <1>6, CallIsControl
<1> QED
  BY <1>5, <1>7, ClientStepKeeps

\* broadcastMessage starts.
LEMMA ClientBroadcastsKeeps ==
  ASSUME TcpInv, NEW size \in SendSizes, ClientBroadcasts(size)
  PROVE  TcpInv'
<1>1. Calls("broadcast") /\ UNCHANGED <<coreVars, next_id>>
  BY DEF ClientBroadcasts
<1>2. ClientStep(Core, Core')
  BY <1>1, CoreStays, NothingIsClientStep DEF TcpInv
<1>3. casting'.left \subseteq DOMAIN conns' /\ casting'.size \in Nat
  BY <1>1, TcpAssumption DEF ClientBroadcasts, Cast, NoCast, coreVars
<1>4. ClientControl
  BY <1>1, <1>3, CallIsControl
<1> QED
  BY <1>2, <1>4, ClientStepKeeps

\* broadcastMessage sends to one connection.
LEMMA BroadcastToKeeps ==
  ASSUME TcpInv, NEW id \in casting.left, BroadcastTo(id)
  PROVE  TcpInv'
<1> DEFINE T == sendMessage(Core, id, casting.size, None)
<1>1. CoreInv(Core) /\ casting.size \in Nat /\ casting.left \subseteq DOMAIN conns
  BY DEF TcpInv, TurnsFit
<1>2. ClientStep(Core, T)
  BY <1>1, SendIsClientStep
<1>3. T = Core \/ SendResult(Core, T, id, None)
  BY <1>1, SendKeeps
<1>4. Become(T)
  BY DEF BroadcastTo
<1> HIDE DEF T
<1>5. Core' = T /\ ClientStep(Core, Core')
  BY <1>2, <1>4, BecomeClientStep
<1>6. DOMAIN conns' = DOMAIN conns
  <2>1. DOMAIN T.conns = DOMAIN Core.conns
    BY <1>3, LoopAssumption DEF SendResult, Changed
  <2>2. Core.conns = conns /\ Core'.conns = conns'
    BY DEF Core
  <2> QED
    BY <1>5, <2>1, <2>2
<1>7. /\ UNCHANGED <<next_id, loop, call, loopVars, pc, cb, then, hid, data, budget>>
      /\ casting' = Cast(casting.left \ {id}, casting.size)
  BY DEF BroadcastTo
<1>8. casting'.left \subseteq DOMAIN conns' /\ casting'.size \in Nat
  <2>1. casting'.left \subseteq casting.left /\ casting'.size \in Nat
    BY <1>1, <1>7 DEF Cast, NoCast
  <2> QED
    BY <1>1, <1>6, <2>1
<1>9. ClientControl
  <2>1. pc = "client" /\ budget \in 0..CallBound /\ budget < CallBound
    BY DEF TcpInv, TurnsFit, Casting
  <2>2. next_id \in 1..IdBound + 1 /\ next_id \in Nat
    BY TcpAssumption DEF TcpInv, TurnsFit
  <2>3. next_id <= next_id'
    BY <1>7, <2>2
  <2> QED
    BY <1>7, <1>8, <2>1, <2>2, <2>3 DEF ClientControl
<1> QED
  BY <1>5, <1>9, ClientStepKeeps

\* Every call of the client.
LEMMA ClientCallsKeep ==
  ASSUME TcpInv, ClientCalls
  PROVE  TcpInv'
BY ClientSendsKeeps, ClientClosesKeeps, ClientReadsKeeps, ClientOpensKeeps,
   ClientBroadcastsKeeps DEF ClientCalls

-----------------------------------------------------------------------------
(* How a step of a handler ends *)

\* No event is for socket 0.
LEMMA NothingTaken ==
  ASSUME EventsFit
  PROVE  Taken(0, "in")
<1> SUFFICES ASSUME NEW i \in DOMAIN events PROVE events[i].id # 0
  BY DEF Taken
<1>1. events \in Seq(Event)
  BY DEF EventsFit
<1>2. events[i] \in Event
  BY <1>1, ElementOfSeq, LenProperties
<1> QED
  BY <1>2 DEF Event

\* No socket but id has a failure to report or bytes to hand over.
Settled(S, id) ==
    MustClose => \A j \in DOMAIN S.conns \ {id} :
        /\ View(S, j).conn.status = "PENDING_ERROR" => View(S, j).timer = "onSendMessageError"
        /\ ~(View(S, j).conn.fresh > 0)

\* The current state is settled, but for what the running callback is about.
LEMMA SettledNow ==
  ASSUME TcpInv
  PROVE  /\ Settled(Core, IF pc = "client" /\ cb.kind = "error" THEN cb.id
                          ELSE IF pc = "read" THEN hid ELSE 0)
         /\ pc = "read" /\ ~data => Settled(Core, 0)
<1> SUFFICES ASSUME MustClose, NEW j \in DOMAIN conns
             PROVE  \/ pc = "client" /\ cb.kind = "error" /\ j = cb.id
                    \/ pc = "read" /\ j = hid /\ data
                    \/ /\ V(j).conn.status = "PENDING_ERROR" => V(j).timer = "onSendMessageError"
                       /\ ~(V(j).conn.fresh > 0)
  <2>1. Core.conns = conns
    BY DEF Core
  <2> QED
    BY <2>1 DEF Settled, V
<1>1. /\ V(j).conn.status = "PENDING_ERROR" => V(j).timer = "onSendMessageError" \/ ErrorRuns(j)
      /\ V(j).conn.fresh > 0 => (pc = "read" /\ hid = j /\ data) \/ ErrorRuns(j)
  BY DEF TcpInv, ClosingFits
<1>2. ErrorRuns(j) => pc = "client" /\ cb.kind = "error" /\ cb.id = j
  BY DEF ErrorRuns
<1> QED
  BY <1>1, <1>2

\* The handler is done.
LEMMA ReturnKeeps ==
  ASSUME TcpInv, Return, Step, ~Casting, loop \in {"call", "timers"},
         NEW cid, NEW cbit, Evolves(Core, Core', cid, cbit), Taken(cid, cbit),
         InCall => \/ call.id \notin Ids(Core')
                   \/ View(Core', call.id).conn.status # "CONNECTING",
         Ids(Core') \subseteq Ids(Core), Settled(Core', 0)
  PROVE  TcpInv'
<1>1. /\ pc' = "loop" /\ cb' = NoClient /\ then' = "return" /\ hid' = 0 /\ data' = FALSE
      /\ budget' = 0 /\ loop' \in {"dispatch", "timers"}
      /\ loop' = IF loop = "call" THEN "dispatch" ELSE loop
      /\ UNCHANGED <<next_id, events, quit, event_count, events_size, ticked, casting>>
  BY DEF Return, Step, loopVars
<1>2. EventsFit'
  <2>1. EventsFit /\ (loop' \notin {"dispatch", "call"} => events = <<>>)
    BY <1>1 DEF TcpInv, EventsFit
  <2> QED
    BY <1>1, <2>1, EventsStay
<1>3. TurnsFit'
  <2>1. TurnsFit /\ Ids(Core') = DOMAIN sockets' /\ Ids(Core) = DOMAIN sockets
    BY DEF TcpInv, Ids, Core
  <2>2. 0 \in 0..next_id - 1 /\ 0 \in 0..CallBound
    BY TcpAssumption DEF TcpInv, TurnsFit
  <2> QED
    BY <1>1, <2>1, <2>2 DEF TurnsFit, Casting, NoClient
<1>4. CallFits' /\ HandlerFits'
  BY <1>1 DEF CallFits, HandlerFits, InCall, InAccept
<1>5. ClosingFits'
  <2>1. 0 \notin DOMAIN conns' /\ Core'.conns = conns'
    BY DEF Evolves, CoreInv, Struct, SocketMaps, Core
  <2> QED
    BY <2>1 DEF ClosingFits, Settled, V
<1> QED
  BY <1>2, <1>3, <1>4, <1>5 DEF TcpInv, Evolves

\* The handler calls the client.
LEMMA EnterKeeps ==
  ASSUME TcpInv, ~Casting, loop \in {"call", "timers"},
         NEW kind \in {"new", "recv", "peerClose", "error", "tick"}, NEW id,
         NEW nextStep \in {"return", "accept", "peerClose"},
         EnterClient(kind, id, nextStep),
         UNCHANGED <<hid, casting, events, quit, event_count, events_size>>,
         ticked' \in BOOLEAN, data' \in BOOLEAN,
         next_id' \in 1..IdBound + 1, next_id <= next_id',
         \A j \in DOMAIN sockets' : j < next_id',
         NEW cid, NEW cbit, Evolves(Core, Core', cid, cbit), Taken(cid, cbit),
         InCall => \/ call.id \notin Ids(Core')
                   \/ View(Core', call.id).conn.status # "CONNECTING",
         IF kind = "tick" THEN id = 0 ELSE id \in DOMAIN conns',
         kind \in {"error", "peerClose"} => nextStep = "return",
         nextStep = "accept" =>
            /\ loop = "call"
            /\ hid \in DOMAIN sockets' => /\ View(Core', hid).conn.status = "LISTENING"
                                          /\ View(Core', hid).cb["in"] = "onListenSocketRead"
                                          /\ Taken(hid, "in"),
         nextStep = "peerClose" =>
            /\ loop = "call" /\ id = hid /\ kind = "recv"
            /\ View(Core', id).cb["in"] = "onSocketRead" /\ PeerDone(View(Core', id)),
         kind = "peerClose" => PeerDone(View(Core', id)),
         Settled(Core', IF kind = "error" THEN id ELSE 0)
  PROVE  TcpInv'
<1>1. /\ pc' = "client" /\ cb' = [kind |-> kind, id |-> id] /\ then' = nextStep
      /\ budget' = CallBound /\ loop' = loop /\ call' = call
      /\ cb'.kind = kind /\ cb'.id = id
  BY DEF EnterClient
<1>2. EventsFit'
  <2>1. EventsFit /\ (loop \notin {"dispatch", "call"} => events = <<>>)
    BY DEF TcpInv, EventsFit
  <2> QED
    BY <1>1, <2>1, EventsStay
<1>3. /\ DOMAIN conns' \subseteq DOMAIN sockets' /\ 0 \notin DOMAIN sockets'
      /\ DOMAIN sockets' \subseteq Nat /\ Core'.conns = conns'
  BY DEF Evolves, CoreInv, Struct, SocketMaps, Core, Ids
<1>4. TurnsFit'
  <2>1. TurnsFit
    BY DEF TcpInv
  <2>2. hid \in 0..next_id' - 1
    BY <2>1, TcpAssumption, RangeGrows DEF TurnsFit
  <2>3. id \in 0..next_id' - 1
    <3>1. CASE kind = "tick"
      <4>1. id = 0 /\ next_id' \in Nat /\ 0 < next_id'
        BY <3>1, TcpAssumption
      <4> QED
        BY <4>1, InRange
    <3>2. CASE kind # "tick"
      <4>1. id \in Nat /\ id < next_id' /\ next_id' \in Nat
        BY <1>3, <3>2, TcpAssumption
      <4> QED
        BY <4>1, InRange
    <3> QED
      BY <3>1, <3>2
  <2>4. CallBound \in 0..CallBound
    BY TcpAssumption
  <2> QED
    BY <1>1, <2>1, <2>2, <2>3, <2>4 DEF TurnsFit, Casting
<1>5. CallFits'
  BY <1>1 DEF TcpInv, CallFits, InCall
<1>6. HandlerFits'
  BY <1>1 DEF HandlerFits, InAccept, Taken, V
<1>7. ClosingFits'
  <2> SUFFICES ASSUME MustClose, NEW j \in DOMAIN conns'
               PROVE  /\ View(Core', j).conn.status = "PENDING_ERROR" =>
                           View(Core', j).timer = "onSendMessageError" \/ ErrorRuns(j)'
                      /\ View(Core', j).conn.fresh > 0 => ErrorRuns(j)'
    BY DEF ClosingFits, V
  <2>1. CASE kind = "error" /\ j = id
    BY <1>1, <2>1 DEF ErrorRuns
  <2>2. CASE ~(kind = "error" /\ j = id)
    BY <1>3, <2>2 DEF Settled
  <2> QED
    BY <2>1, <2>2
<1> QED
  BY <1>2, <1>4, <1>5, <1>6, <1>7 DEF TcpInv, Evolves

\* The handler goes on in its loop.
LEMMA LoopKeeps ==
  ASSUME TcpInv, ~Casting, loop = "call", Step, UNCHANGED <<loop, call>>,
         pc' \in {"accept", "read"}, then' = "return" \/ then' = then,
         hid' = hid \/ hid' \in Ids(Core), cb' = cb \/ cb' = NoClient,
         data' \in BOOLEAN, budget' \in 0..CallBound,
         NEW cid, NEW cbit, Evolves(Core, Core', cid, cbit), Taken(cid, cbit),
         InCall => \/ call.id \notin Ids(Core')
                   \/ View(Core', call.id).conn.status # "CONNECTING",
         Ids(Core') \subseteq Ids(Core),
         pc' = "accept" /\ hid' \in DOMAIN sockets' =>
            /\ View(Core', hid').conn.status = "LISTENING"
            /\ View(Core', hid').cb["in"] = "onListenSocketRead"
            /\ Taken(hid', "in"),
         pc' = "read" => /\ hid' \in DOMAIN conns'
                         /\ View(Core', hid').cb["in"] = "onSocketRead",
         Settled(Core', IF pc' = "read" /\ data' THEN hid' ELSE 0),
         pc' = "read" /\ View(Core', hid').conn.status = "PENDING_ERROR" =>
            (MustClose => View(Core', hid').timer = "onSendMessageError")
  PROVE  TcpInv'
<1>1. UNCHANGED <<next_id, events, quit, event_count, events_size, ticked, casting>>
  BY DEF Step, loopVars
<1>2. EventsFit'
  <2>1. EventsFit /\ (loop' \notin {"dispatch", "call"} => events = <<>>)
    BY DEF TcpInv, EventsFit
  <2> QED
    BY <1>1, <2>1, EventsStay
<1>3. /\ 0 \notin DOMAIN conns' /\ Core'.conns = conns'
      /\ Ids(Core') = DOMAIN sockets' /\ Ids(Core) = DOMAIN sockets
  BY DEF Evolves, CoreInv, Struct, SocketMaps, Core, Ids
<1>4. TurnsFit'
  <2>1. TurnsFit
    BY DEF TcpInv
  <2>2. next_id \in Nat /\ 0 < next_id
    BY <2>1, TcpAssumption DEF TurnsFit
  <2>3. \A id \in Ids(Core) : id \in 0..next_id - 1
    <3> SUFFICES ASSUME NEW id \in Ids(Core) PROVE id \in 0..next_id - 1
      OBVIOUS
    <3>1. id \in Nat /\ id < next_id
      BY <1>3, <2>1 DEF TurnsFit, TcpInv, CoreInv, Struct, SocketMaps
    <3> QED
      BY <2>2, <3>1, InRange
  <2>4. 0 \in 0..next_id - 1
    BY <2>2, InRange
  <2>5. hid' \in 0..next_id - 1 /\ cb'.id \in 0..next_id - 1
    BY <2>1, <2>3, <2>4 DEF TurnsFit, NoClient
  <2>6. then' \in {"return", "accept", "peerClose", "start"} /\ pc' # "client" /\ pc' # "loop"
    BY <2>1 DEF TurnsFit
  <2> QED
    BY <1>1, <1>3, <2>1, <2>5, <2>6 DEF TurnsFit, Casting
<1>5. CallFits'
  BY DEF TcpInv, CallFits, InCall
<1>6. HandlerFits'
  BY <1>1 DEF HandlerFits, InAccept, Taken, V
<1>7. ClosingFits'
  <2> SUFFICES ASSUME MustClose, NEW j \in DOMAIN conns'
               PROVE  /\ View(Core', j).conn.status = "PENDING_ERROR" =>
                           View(Core', j).timer = "onSendMessageError"
                      /\ View(Core', j).conn.fresh > 0 => pc' = "read" /\ hid' = j /\ data'
    BY DEF ClosingFits, V
  <2>1. CASE pc' = "read" /\ data' /\ j = hid'
    BY <2>1
  <2>2. CASE ~(pc' = "read" /\ data' /\ j = hid')
    BY <1>3, <2>2 DEF Settled
  <2> QED
    BY <2>1, <2>2
<1> QED
  BY <1>2, <1>4, <1>5, <1>6, <1>7 DEF TcpInv, Evolves

\* Doing nothing is an evolution whatever was dispatched.
LEMMA NothingEvolves ==
  ASSUME NEW S, CoreInv(S), NEW cid, NEW cbit
  PROVE  Evolves(S, S, cid, cbit)
BY DEF Evolves

\* A change of the socket that a handler is for.
LEMMA ChangeEvolves ==
  ASSUME NEW S, CoreInv(S), NEW T, NEW id \in Ids(S), NEW w, Changed(S, T, id, w), Good(w),
         w.ptr = View(S, id).ptr,
         w.conn.status = "LISTENING" <=> View(S, id).conn.status = "LISTENING",
         w.conn.status = "CONNECTING" => View(S, id).conn.status = "CONNECTING",
         NEW cbit,
         \A b \in {"in", "out"} : View(S, id).cb[b] # None /\ b # cbit => w.cb[b] # None
  PROVE  Evolves(S, T, id, cbit)
<1>1. CoreInv(T)
  BY ChangeKeeps
<1>2. \A j \in Ids(S) : View(T, j).ptr = T.sockets[j] /\ View(S, j).ptr = S.sockets[j]
  BY DEF View
<1>3. \A j \in Ids(S) : j # id => View(T, j) = View(S, j)
  BY DEF Changed
<1> QED
  BY <1>1, <1>2, <1>3 DEF Evolves, Changed

\* Closing a socket is an evolution.
LEMMA CloseEvolves ==
  ASSUME NEW S, CoreInv(S), NEW T, NEW id \in Ids(S), Closed(S, T, id), NEW cid, NEW cbit
  PROVE  Evolves(S, T, cid, cbit)
<1>1. CoreInv(T)
  BY CloseKeeps
<1>2. \A j \in Ids(T) : View(T, j).ptr = T.sockets[j] /\ View(S, j).ptr = S.sockets[j]
  BY DEF View
<1> QED
  BY <1>1, <1>2 DEF Evolves, Closed

\* Sockets whose views do not change are as settled as before.
LEMMA SettledStays ==
  ASSUME NEW S, NEW T, NEW id, NEW x, Settled(S, x), DOMAIN T.conns \subseteq DOMAIN S.conns,
         \A j \in DOMAIN T.conns \ {id} : View(T, j) = View(S, j),
         x = id \/ x \notin DOMAIN T.conns
  PROVE  Settled(T, id)
BY DEF Settled

-----------------------------------------------------------------------------
(* The handlers of events *)

\* A socket has a connection exactly when it does not listen.
LEMMA ConnIsNotListening ==
  ASSUME NEW S, CoreInv(S), NEW id \in Ids(S)
  PROVE  id \in DOMAIN S.conns <=> View(S, id).conn.status # "LISTENING"
BY DEF CoreInv, View, NoConn

\* A handler runs for the socket that its event was for.
LEMMA HandlerRuns ==
  ASSUME TcpInv, NEW h, Handler(h)
  PROVE  /\ InCall /\ Self = call.id /\ call.id \in Ids(Core) /\ CoreInv(Core)
         /\ V(call.id).cb[call.bit] = h /\ Good(V(call.id)) /\ Taken(call.id, call.bit)
         /\ call.bit \in {"in", "out", "err"}
         /\ call.bit = "err" => V(call.id).conn.status # "CONNECTING"
         /\ ~Casting /\ Settled(Core, 0)
<1>1. InCall /\ h = call.cb
  BY DEF Handler, InCall
<1>2. /\ call.id \in DOMAIN sockets /\ sockets[call.id] = call.ptr
      /\ call.bit \in IO!Bits /\ call.cb = V(call.id).cb[call.bit]
      /\ Taken(call.id, call.bit)
      /\ call.bit = "err" => V(call.id).conn.status # "CONNECTING"
  BY <1>1 DEF TcpInv, CallFits
<1>3. CoreInv(Core) /\ call.id \in Ids(Core)
  BY <1>2 DEF TcpInv, Ids, Core
<1>4. Core.dev = dev /\ Core.sockets = sockets
  BY DEF Core
<1>5. dev[call.ptr].id = call.id
  BY <1>2, <1>3, <1>4 DEF CoreInv, Struct, SocketMaps
<1>6. Good(V(call.id))
  BY <1>3 DEF CoreInv, V
<1>7. ~Casting /\ Settled(Core, 0)
  BY <1>1, SettledNow DEF TcpInv, TurnsFit, InCall
<1> QED
  BY <1>1, <1>2, <1>3, <1>5, <1>6, <1>7 DEF Self, IO!Bits

\* What handlers run on, and for which events.
LEMMA HandlerFor ==
  ASSUME TcpInv, NEW h \in Handlers, Handler(h)
  PROVE  LET v == V(call.id)
         IN  /\ h = "onListenSocketRead" =>
                  call.bit = "in" /\ v.conn.status = "LISTENING"
             /\ h = "onAsyncConnectSocketWrite" =>
                  call.bit = "out" /\ call.id \in DOMAIN Core.conns
             /\ h = "onSocketRead" =>
                  /\ call.bit = "in" /\ call.id \in DOMAIN Core.conns
                  /\ v.conn.status # "CONNECTING"
             /\ h = "onSocketWrite" =>
                  /\ call.bit = "out" /\ call.id \in DOMAIN Core.conns
                  /\ v.conn.status # "CONNECTING"
             /\ h = "onSocketError" =>
                  call.bit = "err" /\ v.conn.status # "CONNECTING"
<1> DEFINE v == V(call.id)
<1>1. /\ call.id \in Ids(Core) /\ CoreInv(Core) /\ v.cb[call.bit] = h /\ CallbacksFit(v)
      /\ call.bit \in {"in", "out", "err"}
      /\ call.bit = "err" => v.conn.status # "CONNECTING"
  BY HandlerRuns DEF Good
<1>2. call.id \in DOMAIN Core.conns <=> v.conn.status # "LISTENING"
  BY <1>1, ConnIsNotListening DEF V
<1> HIDE DEF v
<1>3. None \notin Handlers
  BY LoopAssumption
<1> QED
  BY <1>1, <1>2, <1>3 DEF CallbacksFit, Handlers, v

\* A change of one socket that is taken over by the members.
LEMMA BecomeChanged ==
  ASSUME NEW T, NEW id, NEW w, Changed(Core, T, id, w), Become(T)
  PROVE  /\ Core' = T /\ Changed(Core, Core', id, w)
         /\ DOMAIN conns' = DOMAIN conns /\ DOMAIN sockets' = DOMAIN sockets
         /\ Ids(Core') = Ids(Core)
<1>1. Core' = T
  BY BecomeIs DEF Changed, Struct
<1>2. Changed(Core, Core', id, w)
  BY <1>1
<1>3. /\ Core.conns = conns /\ Core'.conns = conns'
      /\ Ids(Core) = DOMAIN sockets /\ Ids(Core') = DOMAIN sockets'
  BY DEF Core, Ids
<1> QED
  BY <1>1, <1>2, <1>3 DEF Changed

\* Without new sockets the ids stay in range.
LEMMA NoNewIds ==
  ASSUME TcpInv, UNCHANGED next_id, DOMAIN sockets' \subseteq DOMAIN sockets
  PROVE  /\ next_id' \in 1..IdBound + 1 /\ next_id <= next_id'
         /\ \A j \in DOMAIN sockets' : j < next_id'
<1>1. next_id \in 1..IdBound + 1 /\ next_id \in Nat /\ \A j \in DOMAIN sockets : j < next_id
  BY TcpAssumption DEF TcpInv, TurnsFit
<1> QED
  BY <1>1

\* An error is reported to the client.
LEMMA ReportKeeps ==
  ASSUME TcpInv, ~Casting, loop \in {"call", "timers"}, Step,
         NEW S, NEW id \in DOMAIN Core.conns, ReportError(S, id),
         NEW w, Changed(Core, SetError(S, id), id, w), Good(w),
         w.ptr = V(id).ptr, w.cb = V(id).cb, w.conn.status = "PENDING_ERROR",
         NEW x \in {0, id}, Settled(Core, x), InCall => call.id = id
  PROVE  TcpInv'
<1>1. CoreInv(Core) /\ id \in Ids(Core)
  BY ConnView DEF TcpInv
<1>2. /\ Changed(Core, Core', id, w) /\ DOMAIN conns' = DOMAIN conns
      /\ DOMAIN sockets' = DOMAIN sockets /\ Core.conns = conns /\ Core'.conns = conns'
  BY BecomeChanged DEF ReportError, Core
<1>3. Evolves(Core, Core', id, "none")
  <2>1. V(id).conn.status # "LISTENING"
    BY <1>1, ConnIsNotListening DEF V
  <2> QED
    BY <1>1, <1>2, <2>1, ChangeEvolves DEF V
<1>4. Evolves(Core, Core', 0, "in") /\ Taken(0, "in")
  <2>1. 0 \notin Ids(Core)
    BY <1>1 DEF CoreInv, Struct, SocketMaps
  <2>2. \A j \in Ids(Core) \ {id} : View(Core', j) = View(Core, j)
    BY <1>2 DEF Changed
  <2>3. View(Core', id).cb = View(Core, id).cb
    BY <1>2 DEF Changed, V
  <2> QED
    BY <1>3, <2>1, <2>2, <2>3, NothingTaken DEF Evolves, TcpInv
<1>5. View(Core', id) = w
  BY <1>2 DEF Changed
<1>6. 0 \notin DOMAIN Core'.conns
  BY <1>4 DEF Evolves, CoreInv, Struct, SocketMaps
<1>7. Settled(Core', id)
  <2>1. /\ DOMAIN Core'.conns \subseteq DOMAIN Core.conns
        /\ \A j \in DOMAIN Core'.conns \ {id} : View(Core', j) = View(Core, j)
    BY <1>1, <1>2 DEF Changed, CoreInv, Struct, SocketMaps
  <2> QED
    BY <1>6, <2>1, SettledStays
<1>8. /\ next_id' \in 1..IdBound + 1 /\ next_id <= next_id'
      /\ \A j \in DOMAIN sockets' : j < next_id'
  BY <1>2, NoNewIds DEF Step
<1>9. /\ UNCHANGED <<hid, casting, events, quit, event_count, events_size>>
      /\ ticked' \in BOOLEAN /\ data' \in BOOLEAN /\ EnterClient("error", id, "return")
  BY DEF TcpInv, TurnsFit, ReportError, Step, loopVars
<1>10. id \in DOMAIN conns'
  BY <1>2
<1>11. InCall => View(Core', call.id).conn.status # "CONNECTING"
  BY <1>5
<1> QED
  BY <1>4, <1>7, <1>8, <1>9, <1>10, <1>11, EnterKeeps

\* onSocketError keeps the invariant.
LEMMA onSocketErrorKeeps ==
  ASSUME TcpInv, onSocketError
  PROVE  TcpInv'
<1> DEFINE id == call.id
<1>1. Handler("onSocketError") /\ "onSocketError" \in Handlers
  BY DEF onSocketError, Handlers
<1>2. /\ InCall /\ Self = id /\ id \in Ids(Core) /\ CoreInv(Core)
      /\ Good(V(id)) /\ ~Casting /\ Settled(Core, 0)
      /\ V(id).conn.status # "CONNECTING"
  BY <1>1, HandlerRuns, HandlerFor
<1>3. loop = "call" /\ Core.conns = conns /\ Core.net = net
  BY <1>2 DEF InCall, Core
<1>4. CASE id \in DOMAIN conns
  <2> DEFINE S == [Core EXCEPT !.net[id].soerr = FALSE]
  <2>1. ReportError(S, id) /\ Step
    BY <1>2, <1>4 DEF onSocketError
  <2>2. V(id).timer # "onAsyncConnectTimeout"
    BY <1>2 DEF Good, TimerFits
  <2>3. \E w : Changed(Core, SetError(S, id), id, w) /\ Good(w) /\ Failed(V(id), w)
    BY <1>2, <1>3, <1>4, <2>2, ErrorKeeps DEF V
  <2> HIDE DEF S
  <2> QED
    BY <1>2, <1>3, <1>4, <2>1, <2>3, ReportKeeps DEF Failed
<1>5. CASE id \notin DOMAIN conns
  <2>1. Return /\ UNCHANGED coreVars /\ Step
    BY <1>2, <1>5 DEF onSocketError
  <2>2. Core' = Core
    BY <2>1, CoreStays
  <2>3. Evolves(Core, Core', 0, "in") /\ Taken(0, "in")
    BY <1>2, <2>2, NothingEvolves, NothingTaken DEF TcpInv
  <2> QED
    BY <1>2, <1>3, <2>1, <2>2, <2>3, ReturnKeeps DEF V
<1> QED
  BY <1>4, <1>5

\* "none" is no bit.
LEMMA NoBitTaken ==
  ASSUME EventsFit, NEW id
  PROVE  Taken(id, "none")
<1> SUFFICES ASSUME NEW i \in DOMAIN events PROVE "none" \notin events[i].bits
  BY DEF Taken
<1>1. events \in Seq(Event)
  BY DEF EventsFit
<1>2. events[i] \in Event
  BY <1>1, ElementOfSeq, LenProperties
<1> QED
  BY <1>2 DEF Event, IO!Bits

\* A handler changes its connection and calls the client.
LEMMA EnterChangedKeeps ==
  ASSUME TcpInv, ~Casting, loop \in {"call", "timers"}, Step,
         NEW kind \in {"new", "recv", "peerClose", "error"}, NEW id \in DOMAIN Core.conns,
         NEW nextStep \in {"return", "peerClose"}, EnterClient(kind, id, nextStep),
         UNCHANGED <<hid, data>>, NEW T, Become(T), NEW w, Changed(Core, T, id, w), Good(w),
         w.ptr = V(id).ptr, w.conn.status \notin {"LISTENING", "CONNECTING"},
         NEW cbit, Taken(id, cbit),
         \A b \in {"in", "out"} : V(id).cb[b] # None /\ b # cbit => w.cb[b] # None,
         InCall => call.id = id,
         kind \in {"error", "peerClose"} => nextStep = "return",
         nextStep = "peerClose" =>
            /\ loop = "call" /\ id = hid /\ kind = "recv"
            /\ w.cb["in"] = "onSocketRead" /\ PeerDone(w),
         kind = "peerClose" => PeerDone(w),
         Settled(Core', IF kind = "error" THEN id ELSE 0)
  PROVE  TcpInv'
<1>1. CoreInv(Core) /\ id \in Ids(Core)
  BY ConnView DEF TcpInv
<1>2. /\ Changed(Core, Core', id, w) /\ DOMAIN conns' = DOMAIN conns
      /\ DOMAIN sockets' = DOMAIN sockets /\ Core.conns = conns
  BY BecomeChanged DEF Core
<1>3. Evolves(Core, Core', id, cbit)
  <2>1. V(id).conn.status # "LISTENING"
    BY <1>1, ConnIsNotListening DEF V
  <2> QED
    BY <1>1, <1>2, <2>1, ChangeEvolves DEF V
<1>4. View(Core', id) = w
  BY <1>2 DEF Changed
<1>5. /\ next_id' \in 1..IdBound + 1 /\ next_id <= next_id'
      /\ \A j \in DOMAIN sockets' : j < next_id'
  BY <1>2, NoNewIds DEF Step
<1>6. /\ UNCHANGED <<hid, casting, events, quit, event_count, events_size>>
      /\ ticked' \in BOOLEAN /\ data' \in BOOLEAN
  BY DEF TcpInv, TurnsFit, Step, loopVars
<1>7. id \in DOMAIN conns' /\ nextStep # "accept" /\ kind # "tick"
  BY <1>2
<1>8. InCall => View(Core', call.id).conn.status # "CONNECTING"
  BY <1>4
<1> QED
  BY <1>3, <1>4, <1>5, <1>6, <1>7, <1>8, EnterKeeps

\* What a handler leaves settled when it changes one connection.
LEMMA SettledAfter ==
  ASSUME NEW S, NEW T, NEW id, NEW w, Changed(S, T, id, w), NEW x \in {0, id}, Settled(S, x),
         CoreInv(S),
         MustClose => /\ w.conn.status = "PENDING_ERROR" => w.timer = "onSendMessageError"
                      /\ ~(w.conn.fresh > 0)
  PROVE  Settled(T, 0)
<1>1. 0 \notin DOMAIN S.conns /\ DOMAIN T.conns = DOMAIN S.conns /\ View(T, id) = w
      /\ DOMAIN S.conns \subseteq Ids(S)
      /\ \A j \in Ids(S) \ {id} : View(T, j) = View(S, j)
  BY DEF CoreInv, Struct, SocketMaps, Changed
<1> QED
  BY <1>1 DEF Settled

\* onAsyncConnectSocketWrite keeps it: connected, or refused.
LEMMA onAsyncConnectSocketWriteKeeps ==
  ASSUME TcpInv, onAsyncConnectSocketWrite
  PROVE  TcpInv'
<1> DEFINE id == call.id
           S == EndConnecting(Core, id)
<1>1. Handler("onAsyncConnectSocketWrite") /\ "onAsyncConnectSocketWrite" \in Handlers /\ Step
  BY DEF onAsyncConnectSocketWrite, Handlers
<1>2. /\ InCall /\ Self = id /\ id \in Ids(Core) /\ CoreInv(Core)
      /\ Good(V(id)) /\ ~Casting /\ Settled(Core, 0) /\ Taken(id, call.bit)
      /\ V(id).cb[call.bit] = "onAsyncConnectSocketWrite"
      /\ call.bit = "out" /\ id \in DOMAIN Core.conns
  BY <1>1, HandlerRuns, HandlerFor
<1>3. loop = "call" /\ Core.conns = conns /\ Core.net = net
  BY <1>2 DEF InCall, Core
<1>4. V(id).cb["in"] = None
  BY <1>2, LoopAssumption DEF Good, CallbacksFit, Handlers
<1>5. CASE net[id].soerr
  <2>1. ReportError(S, id)
    BY <1>2, <1>5 DEF onAsyncConnectSocketWrite
  <2>2. PICK v : /\ Changed(Core, S, id, v) /\ Good(v)
                 /\ v.ptr = V(id).ptr /\ v.cb = V(id).cb
                 /\ v.conn = V(id).conn /\ v.timer = None
    BY <1>2, EndConnectingKeeps DEF V
  <2> HIDE DEF S
  <2>3. CoreInv(S) /\ View(S, id) = v /\ id \in DOMAIN S.conns
    BY <1>2, <2>2, ChangeKeeps DEF Changed, V
  <2>4. v.timer # "onAsyncConnectTimeout"
    BY <2>2, LoopAssumption DEF TimerHandlers
  <2>5. PICK w : Changed(S, SetError(S, id), id, w) /\ Good(w) /\ Failed(v, w)
    BY <2>3, <2>4, SetErrorKeeps
  <2>6. Changed(Core, SetError(S, id), id, w)
    BY <2>2, <2>5, ChangesCompose
  <2> QED
    BY <1>1, <1>2, <1>3, <2>1, <2>2, <2>5, <2>6, ReportKeeps DEF Failed
<1>6. CASE ~net[id].soerr
  <2> DEFINE R == SetCallback(SetCallback(S, id, "in", "onSocketRead"), id, "out", None)
             T == [R EXCEPT !.conns[id].status = "CONNECTED"]
  <2>1. Become(T) /\ EnterClient("new", id, "return") /\ UNCHANGED <<hid, data>>
    BY <1>2, <1>6 DEF onAsyncConnectSocketWrite
  <2>2. PICK w : /\ Changed(Core, T, id, w)
                 /\ Good(w) /\ w.ptr = V(id).ptr
                 /\ w.cb["in"] = "onSocketRead" /\ w.cb["out"] = None
                 /\ w.conn.status = "CONNECTED" /\ w.conn.fresh = V(id).conn.fresh
    BY <1>2, ConnectedKeeps DEF V
  <2> HIDE DEF T
  <2>3. Core' = T
    BY <2>1, <2>2, BecomeChanged
  <2>4. MustClose => ~(V(id).conn.fresh > 0)
    <3>1. id # 0
      BY <1>2 DEF CoreInv, Struct, SocketMaps
    <3> QED
      BY <1>2, <3>1 DEF Settled, V
  <2>5. Settled(Core', 0)
    BY <1>2, <2>2, <2>3, <2>4, SettledAfter
  <2>6. \A b \in {"in", "out"} : V(id).cb[b] # None /\ b # "out" => w.cb[b] # None
    BY <1>4
  <2> QED
    BY <1>1, <1>2, <1>3, <2>1, <2>2, <2>5, <2>6, EnterChangedKeeps
<1> QED
  BY <1>5, <1>6

\* onSocketRead enters its loop.
LEMMA onSocketReadKeeps ==
  ASSUME TcpInv, onSocketRead
  PROVE  TcpInv'
<1> DEFINE id == call.id
<1>1. Handler("onSocketRead") /\ "onSocketRead" \in Handlers /\ Step
  BY DEF onSocketRead, Handlers
<1>2. /\ InCall /\ Self = id /\ id \in Ids(Core) /\ CoreInv(Core)
      /\ ~Casting /\ Settled(Core, 0) /\ V(id).cb[call.bit] = "onSocketRead"
      /\ call.bit = "in" /\ id \in DOMAIN Core.conns /\ V(id).conn.status # "CONNECTING"
  BY <1>1, HandlerRuns, HandlerFor
<1>3. /\ pc' = "read" /\ hid' = id /\ data' = FALSE
      /\ UNCHANGED <<coreVars, loop, call, cb, then, budget>>
  BY <1>2 DEF onSocketRead
<1>4. Core' = Core /\ Core.conns = conns
  BY <1>3, CoreStays DEF Core
<1>5. Evolves(Core, Core', 0, "in") /\ Taken(0, "in")
  BY <1>2, <1>4, NothingEvolves, NothingTaken DEF TcpInv
<1>6. id \in DOMAIN conns' /\ View(Core', id).cb["in"] = "onSocketRead"
  BY <1>2, <1>3, <1>4 DEF V, coreVars
<1>7. Settled(Core', 0)
  BY <1>2, <1>4
<1>8. loop = "call" /\ budget' \in 0..CallBound
  BY <1>2, <1>3 DEF InCall, TcpInv, TurnsFit
<1>9. View(Core', id).conn.status = "PENDING_ERROR" =>
        (MustClose => View(Core', id).timer = "onSendMessageError")
  <2>1. id # 0
    BY <1>2 DEF CoreInv, Struct, SocketMaps
  <2> QED
    BY <1>2, <1>4, <2>1 DEF Settled
<1>10. View(Core', call.id).conn.status # "CONNECTING"
  BY <1>2, <1>4 DEF V
<1> QED
  BY <1>1, <1>2, <1>3, <1>4, <1>5, <1>6, <1>7, <1>8, <1>9, <1>10, LoopKeeps

\* The connection that onSocketRead works on.
LEMMA Reading ==
  ASSUME TcpInv, pc = "read"
  PROVE  /\ CoreInv(Core) /\ hid \in Ids(Core) /\ hid \in DOMAIN Core.conns /\ Good(V(hid))
         /\ V(hid).cb["in"] = "onSocketRead" /\ V(hid).conn.status \notin {"LISTENING", "CONNECTING"}
         /\ V(hid).conn = conns[hid] /\ V(hid).net = net[hid]
         /\ Core.conns = conns /\ Core.net = net
         /\ net[hid] \in Net /\ conns[hid] \in Conn
         /\ loop = "call" /\ ~InCall /\ ~Casting /\ Settled(Core, hid)
         /\ ~data => Settled(Core, 0)
<1>1. hid \in DOMAIN Core.conns /\ V(hid).cb["in"] = "onSocketRead" /\ CoreInv(Core)
  BY DEF TcpInv, HandlerFits, Core
<1>2. /\ hid \in Ids(Core) /\ Good(V(hid))
      /\ V(hid).conn = Core.conns[hid] /\ V(hid).net = Core.net[hid]
      /\ Core.net[hid] \in Net /\ Core.conns[hid] \in Conn
  BY <1>1, ConnView DEF V
<1>3. V(hid).conn.status \notin {"LISTENING", "CONNECTING"}
  BY <1>1, <1>2, ConnIsNotListening, LoopAssumption DEF V, Good, CallbacksFit, Handlers
<1>4. loop = "call" /\ ~InCall /\ ~Casting
  BY DEF TcpInv, TurnsFit, InCall
<1>5. Settled(Core, hid) /\ (~data => Settled(Core, 0))
  BY SettledNow
<1>6. Core.conns = conns /\ Core.net = net
  BY DEF Core
<1> QED
  BY <1>1, <1>2, <1>3, <1>4, <1>5, <1>6

\* A turn of the loop that reads.
LEMMA ReadSomeKeeps ==
  ASSUME TcpInv, ReadSome
  PROVE  TcpInv'
<1> DEFINE T == [Core EXCEPT !.conns[hid].rbuf = @ + net[hid].inq,
                             !.conns[hid].fresh = @ + net[hid].inq,
                             !.net[hid].inq = 0]
<1>1. /\ pc = "read" /\ ~ReadOverflows /\ net[hid].inq > 0 /\ data' = TRUE /\ Become(T)
      /\ UNCHANGED <<loop, call, pc, cb, then, hid, budget>> /\ Step
  BY DEF ReadSome
<1>2. /\ CoreInv(Core) /\ hid \in Ids(Core) /\ hid \in DOMAIN Core.conns
      /\ V(hid).cb["in"] = "onSocketRead" /\ V(hid).conn.status \notin {"LISTENING", "CONNECTING"}
      /\ Core.conns = conns /\ Core.net = net /\ net[hid] \in Net /\ conns[hid] \in Conn
      /\ loop = "call" /\ ~InCall /\ ~Casting /\ Settled(Core, hid)
  BY <1>1, Reading
<1>3. MaxRead > 0 => net[hid].inq + conns[hid].rbuf <= MaxRead
  <2>1. net[hid].inq \in Nat /\ conns[hid].rbuf \in Nat /\ MaxRead \in Nat
    BY <1>2, TcpAssumption DEF Net, Conn
  <2>2. Greatest(1, net[hid].inq) = net[hid].inq
    BY <1>1, <2>1 DEF Greatest
  <2> QED
    BY <1>1, <2>1, <2>2 DEF ReadOverflows
<1>4. Core.net[hid].inq > 0
      /\ (MaxRead > 0 => Core.net[hid].inq + Core.conns[hid].rbuf <= MaxRead)
  BY <1>1, <1>2, <1>3
<1>5. PICK w : /\ Changed(Core, T, hid, w) /\ Good(w)
               /\ w.ptr = V(hid).ptr /\ w.cb = V(hid).cb
               /\ w.conn.status = V(hid).conn.status
               /\ w.timer = V(hid).timer
  <2> DEFINE U == [Core EXCEPT !.conns[hid].rbuf = @ + Core.net[hid].inq,
                               !.conns[hid].fresh = @ + Core.net[hid].inq,
                               !.net[hid].inq = 0]
  <2>1. \E w : /\ Changed(Core, U, hid, w) /\ Good(w)
               /\ w.ptr = V(hid).ptr /\ w.cb = V(hid).cb
               /\ w.conn.status = V(hid).conn.status
               /\ w.timer = V(hid).timer
    <3>1. CoreInv(Core) /\ hid \in DOMAIN Core.conns
      BY <1>2
    <3> QED
      BY <1>4, <3>1, ReadKeeps DEF V
  <2>2. T = U
    BY <1>2
  <2> HIDE DEF T, U
  <2> QED
    BY <2>1, <2>2
<1> HIDE DEF T
<1>6. /\ Core' = T /\ Changed(Core, Core', hid, w) /\ DOMAIN conns' = DOMAIN conns
      /\ DOMAIN sockets' = DOMAIN sockets /\ Ids(Core') = Ids(Core) /\ View(Core', hid) = w
  BY <1>1, <1>5, BecomeChanged DEF Changed
<1>7. Evolves(Core, Core', hid, "none") /\ Taken(hid, "none")
  BY <1>2, <1>5, <1>6, ChangeEvolves, NoBitTaken DEF V, TcpInv
<1>8. Settled(Core', hid)
  <2>1. /\ DOMAIN Core'.conns = DOMAIN Core.conns
        /\ \A j \in DOMAIN Core'.conns \ {hid} : View(Core', j) = View(Core, j)
    BY <1>2, <1>6 DEF Changed, CoreInv, Struct, SocketMaps
  <2> QED
    BY <1>2, <2>1 DEF Settled
<1>9. hid' \in DOMAIN conns' /\ View(Core', hid').cb["in"] = "onSocketRead"
  BY <1>1, <1>2, <1>5, <1>6
<1>10. View(Core', hid').conn.status = "PENDING_ERROR" =>
         (MustClose => View(Core', hid').timer = "onSendMessageError")
  <2>1. V(hid).conn.status = "PENDING_ERROR" =>
          (MustClose => V(hid).timer = "onSendMessageError")
    BY <1>1, <1>2 DEF TcpInv, ClosingFits, ErrorRuns
  <2> QED
    BY <1>1, <1>5, <1>6, <2>1
<1>11. budget' \in 0..CallBound
  BY <1>1 DEF TcpInv, TurnsFit
<1> QED
  BY <1>1, <1>2, <1>6, <1>7, <1>8, <1>9, <1>10, <1>11, LoopKeeps

\* A turn whose recv() fails.
LEMMA ReadFailsKeeps ==
  ASSUME TcpInv, ReadFails
  PROVE  TcpInv'
<1> DEFINE S == [Core EXCEPT !.net[hid].soerr = FALSE]
<1>1. pc = "read" /\ ReportError(S, hid) /\ Step
  BY DEF ReadFails
<1>2. /\ CoreInv(Core) /\ hid \in DOMAIN Core.conns /\ Good(V(hid))
      /\ V(hid).conn.status # "CONNECTING"
      /\ loop = "call" /\ ~InCall /\ ~Casting /\ Settled(Core, hid)
  BY <1>1, Reading
<1>3. V(hid).timer # "onAsyncConnectTimeout"
  BY <1>2 DEF Good, TimerFits
<1>4. \E w : Changed(Core, SetError(S, hid), hid, w) /\ Good(w) /\ Failed(V(hid), w)
  BY <1>2, <1>3, ErrorKeeps DEF V
<1> HIDE DEF S
<1> QED
  BY <1>1, <1>2, <1>4, ReportKeeps DEF Failed

\* The loop of onSocketRead is left for good once the peer is done.
LEMMA ReadClosedIsDone ==
  ASSUME TcpInv, pc = "read", ReadClosed
  PROVE  PeerDone(V(hid))
<1> DEFINE i == net[hid].inq  r == conns[hid].rbuf  a == net[hid].recvd
<1>1. /\ Good(V(hid)) /\ V(hid).conn = conns[hid] /\ V(hid).net = net[hid]
      /\ net[hid] \in Net /\ conns[hid] \in Conn
  BY Reading
<1>2. i \in Nat /\ r \in Nat /\ a \in Nat /\ MaxRead \in Nat
  BY <1>1, TcpAssumption DEF Net, Conn
<1>3. (MaxRead > 0 => r <= MaxRead) /\ i + r <= a
  BY <1>1 DEF Good, LimitsKept
<1>4. \/ MaxRead > 0 /\ Greatest(1, i) + r > MaxRead
      \/ i = 0 /\ (net[hid].fin \/ net[hid].rst)
  BY DEF ReadClosed, ReadOverflows
<1> SUFFICES \/ i = 0 /\ (net[hid].fin \/ net[hid].rst)
             \/ MaxRead > 0 /\ (a > MaxRead \/ (a = MaxRead /\ i = 0))
  BY <1>1 DEF PeerDone
<1> HIDE DEF i, r, a
<1>5. CASE MaxRead > 0 /\ Greatest(1, i) + r > MaxRead
  <2>1. CASE i = 0
    <3>1. Greatest(1, i) = 1
      BY <2>1 DEF Greatest
    <3> QED
      BY <1>2, <1>3, <1>5, <2>1, <3>1
  <2>2. CASE i # 0
    <3>1. Greatest(1, i) = i
      BY <1>2, <2>2 DEF Greatest
    <3> QED
      BY <1>2, <1>3, <1>5, <3>1
  <2> QED
    BY <2>1, <2>2
<1> QED
  BY <1>4, <1>5

\* The client is told that the peer has closed.
LEMMA TellPeerClosedKeeps ==
  ASSUME TcpInv, ~Casting, loop \in {"call", "timers"}, Step, ~InCall,
         NEW id \in DOMAIN Core.conns, PeerClosed(Core, id),
         V(id).cb["in"] = "onSocketRead", PeerDone(V(id)), Settled(Core, 0)
  PROVE  TcpInv'
<1> DEFINE T == [Core EXCEPT !.conns[id].status = "PEER_CLOSED"]
<1>1. CoreInv(Core) /\ id \in Ids(Core)
  BY ConnView DEF TcpInv
<1>2. V(id).cb["in"] # None
  BY LoopAssumption DEF Handlers
<1>3. PICK w : /\ Changed(Core, T, id, w) /\ Good(w)
               /\ w.ptr = V(id).ptr /\ w.cb = V(id).cb
               /\ w.conn.status = "PEER_CLOSED"
               /\ w.conn.fresh = V(id).conn.fresh
               /\ w.timer = V(id).timer /\ w.net = V(id).net
  BY <1>1, <1>2, PeerClosedKeeps DEF V
<1>4. Become(T) /\ EnterClient("peerClose", id, "return") /\ UNCHANGED <<hid, data>>
  BY DEF PeerClosed
<1> HIDE DEF T
<1>5. Core' = T
  BY <1>3, <1>4, BecomeChanged
<1>6. MustClose => ~(V(id).conn.fresh > 0)
  <2>1. id # 0
    BY <1>1 DEF CoreInv, Struct, SocketMaps
  <2> QED
    BY <2>1 DEF Settled, V
<1>7. Settled(Core', 0)
  BY <1>1, <1>3, <1>5, <1>6, SettledAfter
<1>8. PeerDone(w)
  BY <1>3 DEF PeerDone
<1>9. Taken(id, "none")
  BY NoBitTaken DEF TcpInv
<1> QED
  BY <1>3, <1>4, <1>7, <1>8, <1>9, EnterChangedKeeps

\* The end of the loop, with and without data, with and without a peer close.
LEMMA ReadEndsKeeps ==
  ASSUME TcpInv, ReadEnds
  PROVE  TcpInv'
<1>1. pc = "read" /\ Step
  BY DEF ReadEnds
<1>2. /\ CoreInv(Core) /\ hid \in Ids(Core) /\ hid \in DOMAIN Core.conns
      /\ V(hid).cb["in"] = "onSocketRead" /\ V(hid).conn.status \notin {"LISTENING", "CONNECTING"}
      /\ loop = "call" /\ ~InCall /\ ~Casting /\ Settled(Core, hid)
      /\ ~data => Settled(Core, 0)
  BY <1>1, Reading
<1>3. CASE data /\ Become([Core EXCEPT !.conns[hid].fresh = 0])
           /\ EnterClient("recv", hid, IF ReadClosed THEN "peerClose" ELSE "return")
           /\ UNCHANGED <<hid, data>>
  <2> DEFINE T == [Core EXCEPT !.conns[hid].fresh = 0]
             nextStep == IF ReadClosed THEN "peerClose" ELSE "return"
  <2>1. PICK w : /\ Changed(Core, T, hid, w) /\ Good(w)
                 /\ w.ptr = V(hid).ptr /\ w.cb = V(hid).cb
                 /\ w.conn.status = V(hid).conn.status /\ w.conn.fresh = 0
                 /\ w.timer = V(hid).timer /\ w.net = V(hid).net
    BY <1>2, HandOverKeeps DEF V
  <2>2. Become(T) /\ EnterClient("recv", hid, nextStep) /\ UNCHANGED <<hid, data>>
    BY <1>3
  <2>3. nextStep \in {"return", "peerClose"} /\ (nextStep = "peerClose" => ReadClosed)
    OBVIOUS
  <2> HIDE DEF T, nextStep
  <2>4. Core' = T
    BY <2>1, <2>2, BecomeChanged
  <2>5. V(hid).conn.status = "PENDING_ERROR" => (MustClose => V(hid).timer = "onSendMessageError")
    BY <1>1, <1>2 DEF TcpInv, ClosingFits, ErrorRuns, Core
  <2>6. Settled(Core', 0)
    BY <1>2, <2>1, <2>4, <2>5, SettledAfter
  <2>7. nextStep = "peerClose" => PeerDone(w)
    BY <1>1, <2>1, <2>3, ReadClosedIsDone DEF PeerDone
  <2>8. Taken(hid, "none")
    BY NoBitTaken DEF TcpInv
  <2> QED
    BY <1>1, <1>2, <2>1, <2>2, <2>3, <2>6, <2>7, <2>8, EnterChangedKeeps
<1>4. CASE ~data /\ ReadClosed /\ PeerClosed(Core, hid)
  BY <1>1, <1>2, <1>4, ReadClosedIsDone, TellPeerClosedKeeps
<1>5. CASE ~data /\ ~ReadClosed /\ Return /\ UNCHANGED coreVars
  <2>1. Core' = Core
    BY <1>5, CoreStays
  <2>2. Evolves(Core, Core', 0, "in") /\ Taken(0, "in")
    BY <1>2, <2>1, NothingEvolves, NothingTaken DEF TcpInv
  <2> QED
    BY <1>1, <1>2, <1>5, <2>1, <2>2, ReturnKeeps
<1> QED
  BY <1>3, <1>4, <1>5 DEF ReadEnds

\* onSocketWrite: a reset, a part sent, all sent, and the close that was asked for.
LEMMA onSocketWriteKeeps ==
  ASSUME TcpInv, onSocketWrite
  PROVE  TcpInv'
<1> DEFINE id == call.id
           n == KernelSend(net[id], conns[id].wbuf)
           left == SubSeq(conns[id].wbuf, Len(n.wire) - Len(net[id].wire) + 1,
                          Len(conns[id].wbuf))
           T == [Core EXCEPT !.net[id] = n, !.conns[id].wbuf = left]
           U == IF left = <<>> THEN SentAll(T, id) ELSE T
           S == [Core EXCEPT !.net[id].soerr = FALSE]
<1>1. Handler("onSocketWrite") /\ "onSocketWrite" \in Handlers /\ Step
  BY DEF onSocketWrite, Handlers
<1>2. /\ InCall /\ Self = id /\ id \in Ids(Core) /\ CoreInv(Core) /\ Good(V(id))
      /\ ~Casting /\ Settled(Core, 0) /\ V(id).cb[call.bit] = "onSocketWrite"
      /\ call.bit = "out" /\ id \in DOMAIN Core.conns /\ V(id).conn.status # "CONNECTING"
      /\ Taken(id, call.bit)
  BY <1>1, HandlerRuns, HandlerFor
<1>3. loop = "call" /\ Core.conns = conns /\ Core.net = net
  BY <1>2 DEF InCall, Core
<1>4. \/ ReportError(S, id)
      \/ Become(U) /\ Return
  BY <1>2 DEF onSocketWrite
<1>5. CASE ReportError(S, id)
  <2>1. V(id).timer # "onAsyncConnectTimeout"
    BY <1>2 DEF Good, TimerFits
  <2>2. \E w : Changed(Core, SetError(S, id), id, w) /\ Good(w) /\ Failed(V(id), w)
    BY <1>2, <2>1, ErrorKeeps DEF V
  <2> HIDE DEF S
  <2> QED
    BY <1>1, <1>2, <1>3, <1>5, <2>2, ReportKeeps DEF Failed
<1>6. CASE Become(U) /\ Return
  <2>1. \/ \E w : /\ Changed(Core, U, id, w) /\ Good(w)
                  /\ w.ptr = V(id).ptr /\ w.cb["in"] = V(id).cb["in"]
                  /\ w.conn.status = V(id).conn.status
                  /\ w.conn.fresh = V(id).conn.fresh
                  /\ w.timer = V(id).timer
        \/ Closed(Core, U, id)
    BY <1>2, <1>3, WriteKeeps DEF V
  <2> HIDE DEF U
  <2>2. CASE Closed(Core, U, id)
    <3>1. Core' = U
      BY <1>6, <2>2, BecomeIs DEF Closed, Struct
    <3>2. Evolves(Core, Core', id, "out")
      BY <1>2, <2>2, <3>1, CloseEvolves
    <3>3. call.id \notin Ids(Core') /\ Ids(Core') \subseteq Ids(Core)
      BY <2>2, <3>1 DEF Closed
    <3>4. Settled(Core', 0)
      <4>1. DOMAIN U.conns \subseteq DOMAIN Core.conns /\ \A j \in DOMAIN U.conns : View(U, j) = View(Core, j)
        BY <2>2 DEF Closed, Struct, SocketMaps
      <4> QED
        BY <1>2, <3>1, <4>1 DEF Settled
    <3> QED
      BY <1>1, <1>2, <1>3, <1>6, <3>2, <3>3, <3>4, ReturnKeeps
  <2>3. ASSUME NEW w, Changed(Core, U, id, w), Good(w),
               w.ptr = V(id).ptr, w.cb["in"] = V(id).cb["in"],
               w.conn.status = V(id).conn.status,
               w.conn.fresh = V(id).conn.fresh, w.timer = V(id).timer
        PROVE  TcpInv'
    <3>1. Core' = U /\ Changed(Core, Core', id, w) /\ Ids(Core') = Ids(Core)
      BY <1>6, <2>3, BecomeChanged
    <3>2. Evolves(Core, Core', id, "out")
      BY <1>2, <2>3, <3>1, ChangeEvolves DEF V
    <3>3. View(Core', call.id).conn.status # "CONNECTING"
      BY <1>2, <2>3, <3>1 DEF Changed
    <3>4. Settled(Core', 0)
      <4>1. id # 0
        BY <1>2 DEF CoreInv, Struct, SocketMaps
      <4>2. MustClose => /\ w.conn.status = "PENDING_ERROR" => w.timer = "onSendMessageError"
                         /\ ~(w.conn.fresh > 0)
        BY <1>2, <2>3, <4>1 DEF Settled, V
      <4> QED
        BY <1>2, <3>1, <4>2, SettledAfter
    <3> QED
      BY <1>1, <1>2, <1>3, <1>6, <3>1, <3>2, <3>3, <3>4, ReturnKeeps
  <2> QED
    BY <2>1, <2>2, <2>3
<1> QED
  BY <1>4, <1>5, <1>6

-----------------------------------------------------------------------------
(* Accepting *)

\* The listening socket whose connections are accepted.
LEMMA AcceptingOn ==
  ASSUME TcpInv, Accepting
  PROVE  /\ CoreInv(Core) /\ hid \in Ids(Core) /\ Good(V(hid))
         /\ V(hid).conn.status = "LISTENING" /\ V(hid).cb["in"] = "onListenSocketRead"
         /\ Taken(hid, "in") /\ pc = "accept" /\ loop = "call" /\ ~InCall /\ ~Casting
         /\ Settled(Core, 0) /\ Core.net = net /\ Core.sockets = sockets
<1>1. pc = "accept" /\ hid \in DOMAIN sockets /\ InAccept
  BY DEF Accepting, InAccept
<1>2. hid \in Ids(Core) /\ Core.net = net /\ Core.sockets = sockets /\ CoreInv(Core)
  BY <1>1 DEF Core, Ids, TcpInv
<1>3. Good(V(hid))
  BY <1>2 DEF CoreInv, V
<1>4. /\ V(hid).conn.status = "LISTENING" /\ V(hid).cb["in"] = "onListenSocketRead"
      /\ Taken(hid, "in")
  BY <1>1 DEF TcpInv, HandlerFits
<1>5. loop = "call" /\ ~InCall /\ ~Casting
  BY <1>1 DEF TcpInv, TurnsFit, InCall
<1>6. Settled(Core, 0)
  BY <1>1, SettledNow
<1> QED
  BY <1>1, <1>2, <1>3, <1>4, <1>5, <1>6

\* A listening socket changes and the others stay: as settled, and as many, as before.
LEMMA ListenerChanged ==
  ASSUME CoreInv(Core), NEW id \in Ids(Core), V(id).conn.status = "LISTENING",
         Settled(Core, 0), NEW T, NEW w, Changed(Core, T, id, w), Good(w), Become(T),
         w.ptr = V(id).ptr, w.conn = V(id).conn, NEW cbit,
         \A b \in {"in", "out"} : V(id).cb[b] # None /\ b # cbit => w.cb[b] # None
  PROVE  /\ Evolves(Core, Core', id, cbit) /\ Settled(Core', 0)
         /\ Ids(Core') = Ids(Core) /\ View(Core', id) = w
<1>1. Core' = T /\ Changed(Core, Core', id, w) /\ Ids(Core') = Ids(Core)
  BY BecomeChanged
<1>2. Evolves(Core, Core', id, cbit)
  BY <1>1, ChangeEvolves DEF V
<1>3. id \notin DOMAIN Core.conns
  BY ConnIsNotListening DEF V
<1>4. Settled(Core', 0)
  <2>1. /\ DOMAIN Core'.conns = DOMAIN Core.conns
        /\ \A j \in DOMAIN Core'.conns : View(Core', j) = View(Core, j)
    BY <1>1, <1>3 DEF Changed, CoreInv, Struct, SocketMaps
  <2> QED
    BY <2>1 DEF Settled
<1> QED
  BY <1>1, <1>2, <1>4 DEF Changed

\* onListenSocketRead enters its loop.
LEMMA onListenSocketReadKeeps ==
  ASSUME TcpInv, onListenSocketRead
  PROVE  TcpInv'
<1> DEFINE id == call.id
<1>1. Handler("onListenSocketRead") /\ "onListenSocketRead" \in Handlers /\ Step
  BY DEF onListenSocketRead, Handlers
<1>2. /\ InCall /\ Self = id /\ id \in Ids(Core) /\ CoreInv(Core)
      /\ ~Casting /\ Settled(Core, 0) /\ V(id).cb[call.bit] = "onListenSocketRead"
      /\ call.bit = "in" /\ V(id).conn.status = "LISTENING" /\ Taken(id, call.bit)
  BY <1>1, HandlerRuns, HandlerFor
<1>3. /\ pc' = "accept" /\ hid' = id
      /\ UNCHANGED <<coreVars, loop, call, cb, then, data, budget>>
  BY <1>2 DEF onListenSocketRead
<1>4. Core' = Core
  BY <1>3, CoreStays
<1>5. Evolves(Core, Core', 0, "in") /\ Taken(0, "in")
  BY <1>2, <1>4, NothingEvolves, NothingTaken DEF TcpInv
<1>6. /\ View(Core', hid').conn.status = "LISTENING"
      /\ View(Core', hid').cb["in"] = "onListenSocketRead" /\ Taken(hid', "in")
  BY <1>2, <1>3, <1>4 DEF V
<1>7. loop = "call" /\ budget' \in 0..CallBound /\ data' \in BOOLEAN
  BY <1>2, <1>3 DEF InCall, TcpInv, TurnsFit
<1>8. View(Core', call.id).conn.status # "CONNECTING"
  BY <1>3, <1>6
<1> QED
  BY <1>1, <1>2, <1>3, <1>4, <1>5, <1>6, <1>7, <1>8, LoopKeeps

\* One connection less waits on the listening socket.
LEMMA BacklogChanges ==
  ASSUME TcpInv, Accepting, net[hid].backlog > 0
  PROVE  LET T == [Core EXCEPT !.net[hid].backlog = @ - 1]
         IN  \E w : /\ Changed(Core, T, hid, w) /\ Good(w)
                    /\ w.ptr = V(hid).ptr /\ w.cb = V(hid).cb
                    /\ w.conn = V(hid).conn /\ w.timer = V(hid).timer
<1>1. CoreInv(Core) /\ hid \in Ids(Core) /\ Core.net = net /\ Good(V(hid)) /\ Shape(Core)
  BY AcceptingOn, CoreIsShaped
<1>2. net[hid] \in Net /\ V(hid).net = net[hid] /\ hid \in DOMAIN net
  BY <1>1 DEF Good, ViewType, View, V, CoreInv, Struct, SocketMaps
<1> DEFINE k == net[hid].backlog - 1
           n == [net[hid] EXCEPT !.backlog = k]
           T == [Core EXCEPT !.net[hid].backlog = @ - 1]
<1>3. k \in Nat
  BY <1>2 DEF Net
<1>4. T = [Core EXCEPT !.net = [@ EXCEPT ![hid] = n]]
  BY <1>1, <1>2 DEF Shape
<1> HIDE DEF k
<1>5. /\ n \in Net /\ n.wire = net[hid].wire /\ n.accepted = net[hid].accepted
      /\ n.inq = net[hid].inq /\ n.recvd = net[hid].recvd
  BY <1>2, <1>3 DEF Net
<1> HIDE DEF n, T
<1>6. n.inq + Core.net[hid].recvd <= n.recvd + Core.net[hid].inq
  <2>1. n.inq \in Nat /\ n.recvd \in Nat
    BY <1>5 DEF Net
  <2> QED
    BY <1>1, <1>5, <2>1
<1> DEFINE w == [View(Core, hid) EXCEPT !.net = n]
           R == [Core EXCEPT !.net = [@ EXCEPT ![hid] = n]]
<1>7. /\ Changed(Core, R, hid, w) /\ Good(w)
      /\ w.ptr = View(Core, hid).ptr /\ w.cb = View(Core, hid).cb
      /\ w.conn = View(Core, hid).conn /\ w.timer = View(Core, hid).timer
  BY <1>1, <1>5, <1>6, NetKeeps
<1>8. T = R
  BY <1>4
<1> HIDE DEF w, R
<1> QED
  BY <1>7, <1>8 DEF V, T

\* A connection is gone before accept().
LEMMA AcceptAbortedKeeps ==
  ASSUME TcpInv, AcceptAborted
  PROVE  TcpInv'
<1> DEFINE T == [Core EXCEPT !.net[hid].backlog = @ - 1]
<1>1. /\ Accepting /\ net[hid].backlog > 0 /\ Become(T)
      /\ UNCHANGED <<loop, call, pc, cb, then, hid, data, budget>> /\ Step
  BY DEF AcceptAborted
<1>2. /\ CoreInv(Core) /\ hid \in Ids(Core)
      /\ V(hid).conn.status = "LISTENING" /\ V(hid).cb["in"] = "onListenSocketRead"
      /\ Taken(hid, "in") /\ pc = "accept" /\ loop = "call" /\ ~InCall /\ ~Casting
      /\ Settled(Core, 0)
  BY <1>1, AcceptingOn
<1>3. PICK w : /\ Changed(Core, T, hid, w) /\ Good(w)
               /\ w.ptr = V(hid).ptr /\ w.cb = V(hid).cb
               /\ w.conn = V(hid).conn /\ w.timer = V(hid).timer
  BY <1>1, BacklogChanges
<1> HIDE DEF T
<1>4. /\ Evolves(Core, Core', hid, "in") /\ Settled(Core', 0)
      /\ Ids(Core') = Ids(Core) /\ View(Core', hid) = w
  BY <1>1, <1>2, <1>3, ListenerChanged
<1>5. /\ View(Core', hid').conn.status = "LISTENING"
      /\ View(Core', hid').cb["in"] = "onListenSocketRead" /\ Taken(hid', "in")
  BY <1>1, <1>2, <1>3, <1>4
<1>6. budget' \in 0..CallBound /\ data' \in BOOLEAN
  BY <1>1 DEF TcpInv, TurnsFit
<1>7. pc' = "accept" /\ then' = then /\ cb' = cb /\ hid' = hid /\ UNCHANGED <<loop, call>>
  BY <1>1, <1>2
<1> QED
  BY <1>1, <1>2, <1>4, <1>5, <1>6, <1>7, LoopKeeps

\* onListenSocketRead is done.
LEMMA AcceptStopsKeeps ==
  ASSUME TcpInv, AcceptEnds \/ AcceptUnattached \/ AcceptNoFd
  PROVE  TcpInv'
<1>1. Accepting /\ Return /\ Step
  BY DEF AcceptEnds, AcceptUnattached, AcceptNoFd
<1>2. /\ CoreInv(Core) /\ hid \in Ids(Core)
      /\ V(hid).conn.status = "LISTENING" /\ V(hid).cb["in"] = "onListenSocketRead"
      /\ Taken(hid, "in") /\ pc = "accept" /\ loop = "call" /\ ~InCall /\ ~Casting
      /\ Settled(Core, 0)
  BY <1>1, AcceptingOn
<1>3. \/ UNCHANGED coreVars
      \/ net[hid].backlog > 0 /\ Become([Core EXCEPT !.net[hid].backlog = @ - 1])
      \/ Become(PauseAccept(Core, hid))
  BY DEF AcceptEnds, AcceptUnattached, AcceptNoFd
<1>4. Evolves(Core, Core', hid, "in") /\ Settled(Core', 0) /\ Ids(Core') = Ids(Core)
  <2>1. CASE UNCHANGED coreVars
    BY <1>2, <2>1, CoreStays, NothingEvolves
  <2>2. CASE net[hid].backlog > 0 /\ Become([Core EXCEPT !.net[hid].backlog = @ - 1])
    <3> DEFINE T == [Core EXCEPT !.net[hid].backlog = @ - 1]
    <3>1. PICK w : /\ Changed(Core, T, hid, w) /\ Good(w)
                   /\ w.ptr = V(hid).ptr /\ w.cb = V(hid).cb
                   /\ w.conn = V(hid).conn /\ w.timer = V(hid).timer
      BY <1>1, <2>2, BacklogChanges
    <3>2. Become(T)
      BY <2>2
    <3> HIDE DEF T
    <3> QED
      BY <1>2, <3>1, <3>2, ListenerChanged
  <2>3. CASE Become(PauseAccept(Core, hid))
    <3>1. PICK w : /\ Changed(Core, PauseAccept(Core, hid), hid, w) /\ Good(w)
                   /\ w.ptr = V(hid).ptr /\ w.cb["out"] = V(hid).cb["out"]
                   /\ w.conn = V(hid).conn
      BY <1>2, PauseKeeps DEF V
    <3> QED
      BY <1>2, <2>3, <3>1, ListenerChanged
  <2> QED
    BY <1>3, <2>1, <2>2, <2>3
<1> QED
  BY <1>1, <1>2, <1>4, ReturnKeeps

\* A connection is accepted and the client told of it.
LEMMA AcceptOneKeeps ==
  ASSUME TcpInv, NEW p \in Ptrs, AcceptOne(p)
  PROVE  TcpInv'
<1> DEFINE S == [Core EXCEPT !.net[hid].backlog = @ - 1]
           T == buildConnectedSocket(S, p)
<1>1. /\ Accepting /\ net[hid].backlog > 0 /\ Allocate(p) /\ Become(T)
      /\ EnterClient("new", next_id, "accept")
      /\ UNCHANGED <<loopVars, casting, hid, data>>
  BY DEF AcceptOne
<1>2. /\ CoreInv(Core) /\ hid \in Ids(Core)
      /\ V(hid).conn.status = "LISTENING" /\ V(hid).cb["in"] = "onListenSocketRead"
      /\ Taken(hid, "in") /\ pc = "accept" /\ loop = "call" /\ ~InCall /\ ~Casting
      /\ Settled(Core, 0)
  BY <1>1, AcceptingOn
<1>3. /\ next_id \in Nat \ {0} /\ next_id \notin Ids(Core)
      /\ p \notin DOMAIN Core.dev /\ next_id < next_id'
      /\ next_id' = next_id + 1 /\ next_id <= IdBound
  BY <1>1, NextIdIsNew
<1>4. PICK v : /\ Changed(Core, S, hid, v) /\ Good(v)
               /\ v.ptr = V(hid).ptr /\ v.cb = V(hid).cb
               /\ v.conn = V(hid).conn /\ v.timer = V(hid).timer
  BY <1>1, BacklogChanges
<1>5. S.dev = Core.dev /\ p \notin DOMAIN S.dev
  BY <1>3 DEF Core
<1> HIDE DEF S
<1>6. CoreInv(S) /\ Ids(S) = Ids(Core) /\ DOMAIN S.conns = DOMAIN Core.conns /\ View(S, hid) = v
  BY <1>2, <1>4, ChangeKeeps DEF Changed, V
<1>7. PICK w : /\ Opened(S, T, next_id, w)
               /\ Good(w) /\ w.conn.status = "CONNECTED" /\ w.conn.fresh = 0
               /\ w.conn # NoConn
  BY <1>3, <1>5, <1>6, ConnectKeeps
<1> HIDE DEF T
<1>8. Core' = T
  BY <1>1, <1>7, BecomeIs DEF Opened, Struct
<1>9. CoreInv(T)
  BY <1>3, <1>6, <1>7, OpenKeeps
<1>10. /\ \A j \in Ids(Core) : View(T, j).cb = V(j).cb /\ View(T, j).conn = V(j).conn
                               /\ View(T, j).ptr = V(j).ptr /\ View(T, j).timer = V(j).timer
       /\ Ids(T) = Ids(Core) \cup {next_id} /\ View(T, next_id) = w
       /\ DOMAIN T.conns = DOMAIN Core.conns \cup {next_id}
       /\ T.removed = Core.removed
  <2>1. \A j \in Ids(Core) \ {hid} : View(T, j) = V(j)
    BY <1>4, <1>6, <1>7 DEF Opened, Changed, V
  <2>2. View(T, hid) = v
    BY <1>2, <1>6, <1>7 DEF Opened
  <2> QED
    BY <1>4, <1>6, <1>7, <2>1, <2>2 DEF Opened, Changed
<1>11. Evolves(Core, Core', 0, "in") /\ Taken(0, "in")
  <2>1. \A j \in Ids(Core) : T.sockets[j] = Core.sockets[j]
    BY <1>10 DEF View, V
  <2> QED
    BY <1>8, <1>9, <1>10, <2>1, NothingTaken DEF Evolves, V, TcpInv
<1>12. Settled(Core', 0)
  <2>1. next_id \notin DOMAIN Core.conns /\ DOMAIN Core.conns \subseteq Ids(Core)
    BY <1>2, <1>3 DEF CoreInv, Struct, SocketMaps
  <2> QED
    BY <1>2, <1>7, <1>8, <1>10, <2>1 DEF Settled, V
<1>13. Ids(Core') = DOMAIN sockets' /\ Ids(Core) = DOMAIN sockets /\ Core'.conns = conns'
  BY DEF Core, Ids
<1>14. /\ next_id' \in 1..IdBound + 1 /\ next_id <= next_id'
       /\ \A j \in DOMAIN sockets' : j < next_id'
  <2>1. next_id' \in 1..IdBound + 1 /\ next_id <= next_id'
    BY <1>3, TcpAssumption
  <2>2. \A j \in Ids(Core) : j \in Nat /\ j < next_id
    BY <1>13, <1>2 DEF TcpInv, TurnsFit, CoreInv, Struct, SocketMaps
  <2>3. \A j \in Ids(Core) : j < next_id'
    BY <1>3, <2>2
  <2> QED
    BY <1>3, <1>8, <1>10, <1>13, <2>1, <2>3
<1>15. /\ View(Core', hid).conn.status = "LISTENING"
       /\ View(Core', hid).cb["in"] = "onListenSocketRead"
  BY <1>2, <1>8, <1>10
<1>16. next_id \in DOMAIN conns'
  BY <1>8, <1>10, <1>13
<1>17. /\ UNCHANGED <<hid, casting, events, quit, event_count, events_size>>
       /\ ticked' \in BOOLEAN /\ data' \in BOOLEAN
  BY <1>1 DEF TcpInv, TurnsFit, loopVars
<1> QED
  BY <1>1, <1>2, <1>11, <1>12, <1>14, <1>15, <1>16, <1>17, EnterKeeps

-----------------------------------------------------------------------------
(* The client's code returns *)

\* What the client leaves behind when its callback returns.
LEMMA AfterClientSettles ==
  ASSUME TcpInv, pc = "client", Become(AfterClient)
  PROVE  /\ Evolves(Core, Core', 0, "in") /\ Ids(Core') \subseteq Ids(Core)
         /\ Settled(Core', 0)
<1>1. CoreInv(Core) /\ Struct(Core)
  BY DEF TcpInv, CoreInv
<1>2. Settled(Core, IF cb.kind = "error" THEN cb.id ELSE 0)
  BY SettledNow
<1>3. 0 \notin Ids(Core) /\ DOMAIN Core.conns \subseteq Ids(Core)
  BY <1>1 DEF Struct, SocketMaps
<1>4. CASE MustClose /\ cb.kind \in {"error", "peerClose"} /\ cb.id \in Ids(Core)
  <2> DEFINE T == closeSocket(Core, cb.id)
  <2>1. Closed(Core, T, cb.id)
    BY <1>1, <1>4, CloseCloses
  <2>2. Become(T)
    BY <1>4 DEF AfterClient
  <2> HIDE DEF T
  <2>3. Core' = T
    BY <2>1, <2>2, BecomeIs DEF Closed, Struct
  <2>4. Evolves(Core, Core', 0, "in")
    BY <1>1, <1>4, <2>1, <2>3, CloseEvolves
  <2>5. Settled(T, 0)
    <3>1. \A j \in DOMAIN T.conns : /\ j \in DOMAIN Core.conns \ {cb.id, 0}
                                    /\ View(T, j) = View(Core, j)
      BY <1>3, <2>1 DEF Closed, Struct, SocketMaps
    <3> QED
      BY <1>2, <3>1 DEF Settled
  <2> QED
    BY <2>1, <2>3, <2>4, <2>5 DEF Closed
<1>5. CASE ~(MustClose /\ cb.kind \in {"error", "peerClose"} /\ cb.id \in Ids(Core))
  <2>1. AfterClient = Core
    BY <1>1, <1>5, CloseUnknown DEF AfterClient
  <2>2. Core' = Core
    BY <2>1, CoreIsShaped, BecomeIs
  <2>3. Settled(Core, 0)
    BY <1>2, <1>3, <1>5 DEF Settled
  <2> QED
    BY <1>1, <2>2, <2>3, NothingEvolves
<1> QED
  BY <1>4, <1>5

\* The return of a client callback, to each of the handlers that call one.
LEMMA ClientReturnsKeeps ==
  ASSUME TcpInv, ClientReturns
  PROVE  TcpInv'
<1>1. pc = "client" /\ ~Casting /\ Step /\ ~InCall
  BY DEF ClientReturns, InCall
<1>2. CoreInv(Core)
  BY DEF TcpInv
<1>3. then # "start" => loop \in {"call", "timers"}
  BY <1>1 DEF TcpInv, TurnsFit
<1>4. Taken(0, "in") /\ Evolves(Core, Core, 0, "in")
  BY <1>2, NothingTaken, NothingEvolves DEF TcpInv
<1>5. then \in {"accept", "peerClose"} => cb.kind # "error" /\ loop = "call"
  BY <1>1 DEF TcpInv, TurnsFit
<1>6. then \in {"accept", "peerClose"} => Settled(Core, 0)
  BY <1>1, <1>5, SettledNow
<1>7. CASE then = "return" /\ Return /\ Become(AfterClient)
  <2>1. /\ Evolves(Core, Core', 0, "in") /\ Ids(Core') \subseteq Ids(Core)
        /\ Settled(Core', 0)
    BY <1>1, <1>7, AfterClientSettles
  <2> QED
    BY <1>1, <1>3, <1>4, <1>7, <2>1, ReturnKeeps
<1>8. CASE /\ then = "accept" /\ pc' = "accept" /\ cb' = NoClient /\ then' = "return"
           /\ budget' = 0 /\ UNCHANGED <<coreVars, loop, call, hid, data>>
  <2>1. Core' = Core /\ DOMAIN sockets' = DOMAIN sockets
    BY <1>8, CoreStays DEF coreVars
  <2>2. Evolves(Core, Core', 0, "in") /\ Settled(Core', 0) /\ Ids(Core') \subseteq Ids(Core)
    BY <1>4, <1>6, <1>8, <2>1
  <2>3. hid' \in DOMAIN sockets' =>
          /\ View(Core', hid').conn.status = "LISTENING"
          /\ View(Core', hid').cb["in"] = "onListenSocketRead" /\ Taken(hid', "in")
    BY <1>1, <1>8, <2>1 DEF TcpInv, HandlerFits, InAccept, V
  <2>4. budget' \in 0..CallBound /\ data' \in BOOLEAN /\ UNCHANGED <<loop, call>>
    BY <1>8, TcpAssumption DEF TcpInv, TurnsFit
  <2>5. loop = "call" /\ hid' = hid
    BY <1>5, <1>8
  <2> QED
    BY <1>1, <1>4, <1>8, <2>2, <2>3, <2>4, <2>5, LoopKeeps
<1>9. CASE then = "peerClose" /\ StillOpen(hid) /\ PeerClosed(Core, hid)
  <2>1. hid \in DOMAIN Core.conns
    BY <1>9 DEF StillOpen, Core
  <2>2. V(hid).cb["in"] = "onSocketRead" /\ PeerDone(V(hid))
    BY <1>1, <1>9 DEF TcpInv, HandlerFits, StillOpen
  <2> QED
    BY <1>1, <1>3, <1>6, <1>9, <2>1, <2>2, TellPeerClosedKeeps
<1>10. CASE then = "peerClose" /\ Return /\ UNCHANGED coreVars
  <2>1. Core' = Core
    BY <1>10, CoreStays
  <2>2. Evolves(Core, Core', 0, "in") /\ Settled(Core', 0) /\ Ids(Core') \subseteq Ids(Core)
    BY <1>4, <1>6, <1>10, <2>1
  <2> QED
    BY <1>1, <1>3, <1>4, <1>10, <2>2, ReturnKeeps
<1> QED
  BY <1>7, <1>8, <1>9, <1>10 DEF ClientReturns

\* main() enters the loop.
LEMMA MainReturnsKeeps ==
  ASSUME TcpInv, MainReturns
  PROVE  TcpInv'
<1>1. /\ pc = "client" /\ ~Casting /\ then = "start" /\ loop = "stopped"
      /\ loop' = "poll" /\ quit' = FALSE /\ pc' = "loop" /\ cb' = NoClient
      /\ then' = "return" /\ budget' = 0 /\ UNCHANGED coreVars
      /\ UNCHANGED <<events, call, event_count, events_size, next_id, hid, data, casting,
                     ticked>>
  BY DEF MainReturns, IO!LoopStart, coreVars
<1>2. Core' = Core /\ DOMAIN sockets' = DOMAIN sockets /\ DOMAIN conns' = DOMAIN conns
  BY <1>1, CoreStays DEF coreVars
<1>3. TurnsFit'
  <2>1. TurnsFit
    BY DEF TcpInv
  <2>2. next_id \in Nat /\ 0 < next_id
    BY <2>1, TcpAssumption DEF TurnsFit
  <2>3. 0 \in 0..next_id - 1 /\ 0 \in 0..CallBound
    BY <2>2, InRange, TcpAssumption
  <2>4. \A id \in DOMAIN sockets' : id < next_id'
    BY <1>1, <1>2, <2>1 DEF TurnsFit
  <2> QED
    BY <1>1, <1>2, <2>1, <2>3, <2>4 DEF TurnsFit, Casting, NoClient
<1>4. EventsFit'
  <2>1. events = <<>> /\ events \in Seq(Event)
    BY <1>1 DEF TcpInv, EventsFit
  <2> QED
    BY <1>1, <2>1 DEF EventsFit
<1>5. CallFits' /\ HandlerFits'
  BY <1>1 DEF CallFits, HandlerFits, InCall, InAccept
<1>6. ClosingFits'
  <2>1. then # "return" /\ pc # "read"
    BY <1>1
  <2>2. ~(\E id : ErrorRuns(id))
    BY <2>1 DEF ErrorRuns, TcpInv, TurnsFit
  <2> QED
    BY <1>2, <2>1, <2>2 DEF TcpInv, ClosingFits, V
<1> QED
  BY <1>2, <1>3, <1>4, <1>5, <1>6 DEF TcpInv

-----------------------------------------------------------------------------
(* The kernel and the peers *)

\* What a peer changes of the view of a socket.
LEMMA PeerChanges ==
  ASSUME CoreInv(Core), NEW id \in DOMAIN net, Peer(id)
  PROVE  \E n \in Net :
            /\ Change(id, n)
            /\ n.wire = net[id].wire /\ n.accepted = net[id].accepted
            /\ n.inq + net[id].recvd <= n.recvd + net[id].inq
            /\ PeerDone(V(id)) => PeerDone([V(id) EXCEPT !.net = n])
<1> DEFINE m == net[id]
<1>1. m \in Net /\ V(id).net = m /\ id \in Ids(Core)
  BY DEF CoreInv, Struct, SocketMaps, Good, ViewType, View, V, Core
<1>2. m.inq \in Nat /\ m.recvd \in Nat /\ m.backlog \in Nat /\ MaxRead \in Nat /\ RoomBound \in Nat
  BY <1>1, TcpAssumption DEF Net
<1>3. \A n : [V(id) EXCEPT !.net = n].net = n
  BY DEF V, View
<1> SUFFICES \E n \in Net :
               /\ Change(id, n)
               /\ n.wire = m.wire /\ n.accepted = m.accepted
               /\ n.inq + m.recvd <= n.recvd + m.inq
               /\ PeerDone(V(id)) =>
                    \/ n.inq = 0 /\ (n.fin \/ n.rst)
                    \/ MaxRead > 0 /\ (n.recvd > MaxRead \/ (n.recvd = MaxRead /\ n.inq = 0))
  BY <1>3 DEF PeerDone
<1>4. PeerDone(V(id)) <=>
        \/ m.inq = 0 /\ (m.fin \/ m.rst)
        \/ MaxRead > 0 /\ (m.recvd > MaxRead \/ (m.recvd = MaxRead /\ m.inq = 0))
  BY <1>1 DEF PeerDone
<1>5. CASE PeerConnects(id)
  <2> DEFINE k == m.backlog + 1  n == [m EXCEPT !.backlog = k]
  <2>1. k \in Nat /\ Change(id, n)
    BY <1>2, <1>5 DEF PeerConnects
  <2> HIDE DEF k
  <2>2. /\ n \in Net /\ n.wire = m.wire /\ n.accepted = m.accepted /\ n.inq = m.inq
        /\ n.recvd = m.recvd /\ n.fin = m.fin /\ n.rst = m.rst
    BY <1>1, <2>1 DEF Net
  <2> HIDE DEF n, m
  <2> QED
    BY <1>2, <1>4, <2>1, <2>2
<1>6. CASE PeerAnswers(id)
  <2>1. PICK l \in {"up", "refused"} : Change(id, [m EXCEPT !.link = l, !.soerr = (l = "refused")])
    BY <1>6 DEF PeerAnswers
  <2> DEFINE n == [m EXCEPT !.link = l, !.soerr = (l = "refused")]
  <2>2. /\ n \in Net /\ n.wire = m.wire /\ n.accepted = m.accepted /\ n.inq = m.inq
        /\ n.recvd = m.recvd /\ n.fin = m.fin /\ n.rst = m.rst
    BY <1>1 DEF Net
  <2>3. Change(id, n)
    BY <2>1
  <2> HIDE DEF n, m
  <2> QED
    BY <1>2, <1>4, <2>2, <2>3
<1>7. CASE PeerSends(id)
  <2> DEFINE k == m.inq + 1  r == m.recvd + 1  n == [m EXCEPT !.inq = k, !.recvd = r]
  <2>1. k \in Nat /\ r \in Nat /\ Change(id, n) /\ ~m.fin /\ ~m.rst
    BY <1>2, <1>7 DEF PeerSends
  <2>2. k + m.recvd <= r + m.inq /\ r > m.recvd
    BY <1>2
  <2> HIDE DEF k, r
  <2>3. /\ n \in Net /\ n.wire = m.wire /\ n.accepted = m.accepted /\ n.inq = k
        /\ n.recvd = r /\ n.fin = m.fin /\ n.rst = m.rst
    BY <1>1, <2>1 DEF Net
  <2> HIDE DEF n, m
  <2>4. PeerDone(V(id)) => MaxRead > 0 /\ r > MaxRead
    BY <1>2, <1>4, <2>1, <2>2
  <2> QED
    BY <2>1, <2>2, <2>3, <2>4
<1>8. CASE PeerCloses(id)
  <2> DEFINE n == [m EXCEPT !.fin = TRUE]
  <2>1. Change(id, n)
    BY <1>8 DEF PeerCloses
  <2>2. /\ n \in Net /\ n.wire = m.wire /\ n.accepted = m.accepted /\ n.inq = m.inq
        /\ n.recvd = m.recvd /\ n.fin
    BY <1>1 DEF Net
  <2> HIDE DEF n, m
  <2> QED
    BY <1>2, <1>4, <2>1, <2>2
<1>9. CASE PeerResets(id)
  <2> DEFINE n == [m EXCEPT !.rst = TRUE, !.soerr = TRUE]
  <2>1. Change(id, n)
    BY <1>9 DEF PeerResets
  <2>2. /\ n \in Net /\ n.wire = m.wire /\ n.accepted = m.accepted /\ n.inq = m.inq
        /\ n.recvd = m.recvd /\ n.rst
    BY <1>1 DEF Net
  <2> HIDE DEF n, m
  <2> QED
    BY <1>2, <1>4, <2>1, <2>2
<1>10. CASE RoomOpens(id)
  <2> DEFINE n == [m EXCEPT !.room = RoomBound]
  <2>1. Change(id, n)
    BY <1>10 DEF RoomOpens
  <2>2. /\ n \in Net /\ n.wire = m.wire /\ n.accepted = m.accepted /\ n.inq = m.inq
        /\ n.recvd = m.recvd /\ n.fin = m.fin /\ n.rst = m.rst
    BY <1>1, <1>2 DEF Net
  <2> HIDE DEF n, m
  <2> QED
    BY <1>2, <1>4, <2>1, <2>2
<1> QED
  BY <1>5, <1>6, <1>7, <1>8, <1>9, <1>10 DEF Peer

\* What a peer does changes no member of the service.
LEMMA PeerKeeps ==
  ASSUME TcpInv, NEW id \in DOMAIN net, Peer(id)
  PROVE  TcpInv'
<1>1. CoreInv(Core) /\ Shape(Core) /\ id \in Ids(Core) /\ Core.net = net
  BY CoreIsShaped DEF TcpInv, CoreInv, Struct, SocketMaps, Core
<1>2. PICK n \in Net :
        /\ Change(id, n)
        /\ n.wire = net[id].wire /\ n.accepted = net[id].accepted
        /\ n.inq + net[id].recvd <= n.recvd + net[id].inq
        /\ PeerDone(V(id)) => PeerDone([V(id) EXCEPT !.net = n])
  BY <1>1, PeerChanges
<1> DEFINE w == [V(id) EXCEPT !.net = n]
           T == [Core EXCEPT !.net = [@ EXCEPT ![id] = n]]
<1>3. /\ Changed(Core, T, id, w) /\ Good(w) /\ w.ptr = V(id).ptr /\ w.cb = V(id).cb
      /\ w.conn = V(id).conn /\ w.timer = V(id).timer
  BY <1>1, <1>2, NetKeeps DEF V
<1>4. Become(T)
  BY <1>1, <1>2 DEF Change, Become, Core, IO!ioVars, ioVars
<1>5. PeerDone(V(id)) => PeerDone(w)
  BY <1>2
<1> HIDE DEF T, w
<1>6. /\ Core' = T /\ Changed(Core, Core', id, w)
      /\ DOMAIN conns' = DOMAIN conns /\ DOMAIN sockets' = DOMAIN sockets
  BY <1>3, <1>4, BecomeChanged
<1>7. UNCHANGED <<dev, removed, events, call, loop, quit, event_count, events_size, next_id,
                  sockets, conns, timers, sock_timer, timer_sock,
                  pc, cb, then, hid, data, budget, casting, ticked>>
  BY <1>2 DEF Change, ioVars, ctlVars
<1>8. Evolves(Core, Core', id, "none") /\ Taken(id, "none")
  BY <1>1, <1>3, <1>6, ChangeEvolves, NoBitTaken DEF V, TcpInv
<1>9. \A j \in Ids(Core) : LET v == View(Core', j)
                           IN  /\ v.cb = V(j).cb /\ v.conn = V(j).conn /\ v.timer = V(j).timer
                               /\ PeerDone(V(j)) => PeerDone(v)
  BY <1>3, <1>5, <1>6 DEF Changed, V
<1>10. Ids(Core) = DOMAIN sockets /\ DOMAIN conns \subseteq DOMAIN sockets
  BY <1>1 DEF Ids, Core, CoreInv, Struct, SocketMaps
<1>11. EventsFit'
  <2>1. EventsFit /\ (loop' \notin {"dispatch", "call"} => events = <<>>) /\ events' = events
    BY <1>7 DEF TcpInv, EventsFit
  <2>2. InCall => InCall' /\ call' = call
    BY <1>7 DEF InCall
  <2> QED
    BY <1>8, <2>1, <2>2, EventsStay
<1>12. TurnsFit'
  BY <1>7 DEF TcpInv, TurnsFit, Casting
<1>13. CallFits'
  <2>1. CallFits /\ InCall' = InCall
    BY <1>7 DEF TcpInv, InCall
  <2>2. InCall => /\ call.id \in Ids(Core)
                  /\ View(Core', call.id).cb = V(call.id).cb
                  /\ View(Core', call.id).conn = V(call.id).conn
    BY <1>9, <1>10, <2>1 DEF CallFits
  <2> QED
    BY <1>7, <2>1, <2>2 DEF CallFits, Taken, V
<1>14. HandlerFits'
  <2>1. HandlerFits /\ InAccept' = InAccept
    BY <1>7 DEF TcpInv, InAccept
  <2>2. hid \in DOMAIN sockets => hid \in Ids(Core)
    BY <1>10
  <2>3. cb.id \in DOMAIN conns => cb.id \in Ids(Core)
    BY <1>10
  <2> QED
    BY <1>7, <1>9, <1>10, <2>1, <2>2, <2>3 DEF HandlerFits, Taken, V
<1>15. ClosingFits'
  BY <1>7, <1>9, <1>10 DEF TcpInv, ClosingFits, ErrorRuns, V
<1> QED
  BY <1>8, <1>11, <1>12, <1>13, <1>14, <1>15 DEF TcpInv, Evolves

-----------------------------------------------------------------------------
(* Timers *)

\* A step of the loop itself.
LEMMA AtLoopKeeps ==
  ASSUME TcpInv, pc = "loop",
         UNCHANGED <<pc, cb, then, hid, data, budget, casting, next_id>>,
         quit' = FALSE, event_count' \in Nat, events_size' \in Nat \ {0}, ticked' \in BOOLEAN,
         loop' \in {"poll", "dispatch", "call", "timers"},
         CoreInv(Core'), Ids(Core') \subseteq Ids(Core), Settled(Core', 0),
         EventsFit', CallFits'
  PROVE  TcpInv'
<1>1. TurnsFit /\ Ids(Core') = DOMAIN sockets' /\ Ids(Core) = DOMAIN sockets
  BY DEF TcpInv, Ids, Core
<1>2. ~Casting
  BY <1>1 DEF TurnsFit
<1>3. TurnsFit'
  BY <1>1, <1>2 DEF TurnsFit, Casting
<1>4. HandlerFits'
  BY DEF HandlerFits, InAccept
<1>5. ClosingFits'
  <2>1. 0 \notin DOMAIN conns' /\ Core'.conns = conns'
    BY DEF CoreInv, Struct, SocketMaps, Core
  <2> QED
    BY <2>1 DEF ClosingFits, Settled, V
<1> QED
  BY <1>3, <1>4, <1>5 DEF TcpInv

\* A timer that fires is removed like one that is stopped.
LEMMA FiringRemoves ==
  ASSUME CoreInv(Core), NEW t, t \in DOMAIN timers \cap DOMAIN timer_sock
  PROVE  LET id == timer_sock[t]
             S == [Core EXCEPT !.timers = Drop(@, t),
                               !.timer_sock = Drop(@, t),
                               !.sock_timer = Drop(@, id)]
         IN  S = removeSocketTimer(Core, id) /\ id \in Ids(Core) /\ V(id).timer = timers[t]
<1> DEFINE id == timer_sock[t]
           S == [Core EXCEPT !.timers = Drop(@, t),
                             !.timer_sock = Drop(@, t),
                             !.sock_timer = Drop(@, id)]
<1>1. /\ Core.timers = timers /\ Core.timer_sock = timer_sock /\ Core.sock_timer = sock_timer
      /\ Shape(Core) /\ TimerMaps(Core)
  BY CoreIsShaped DEF Core, CoreInv, Struct
<1>2. id \in Ids(Core) /\ id \in DOMAIN sock_timer /\ sock_timer[id] = t
  BY <1>1 DEF TimerMaps
<1>3. removeSocketTimer(Core, id) =
        [Core EXCEPT !.sock_timer = Drop(@, id), !.timer_sock = Drop(@, t),
                     !.timers = Drop(@, t)]
  BY <1>1, <1>2 DEF removeSocketTimer
<1>4. S = removeSocketTimer(Core, id)
  BY <1>1, <1>3 DEF Shape
<1>5. V(id).timer = timers[t]
  BY <1>1, <1>2 DEF V, View
<1> QED
  BY <1>2, <1>4, <1>5

\* A timer of the service is called.
LEMMA FireTimerKeeps ==
  ASSUME TcpInv, NEW t \in TimerIds, FireTimer(t)
  PROVE  TcpInv'
<1> DEFINE id == timer_sock[t]
           S == removeSocketTimer(Core, id)
<1>1. /\ loop = "timers" /\ pc = "loop" /\ Step
      /\ t \in DOMAIN timers \cap DOMAIN timer_sock
  BY DEF FireTimer
<1>2. CoreInv(Core) /\ ~InCall /\ ~Casting
  BY <1>1 DEF TcpInv, TurnsFit, InCall
<1>3. S = [Core EXCEPT !.timers = Drop(@, t),
                       !.timer_sock = Drop(@, t),
                       !.sock_timer = Drop(@, id)]
      /\ id \in Ids(Core) /\ V(id).timer = timers[t]
  BY <1>1, <1>2, FiringRemoves
<1>4. \/ /\ V(id).timer = "onListenSocketResumeRead"
         /\ Become(SetCallback(S, id, "in", "onListenSocketRead"))
         /\ UNCHANGED <<loop, call, pc, cb, then, hid, data, budget>>
      \/ /\ V(id).timer = "onAsyncConnectTimeout"
         /\ ReportError(S, id)
      \/ /\ V(id).timer = "onSendMessageError"
         /\ Become(S)
         /\ EnterClient("error", id, "return")
         /\ UNCHANGED <<hid, data>>
  BY <1>3 DEF FireTimer
<1> HIDE DEF S
<1>5. Good(V(id)) /\ (id \in DOMAIN Core.conns <=> V(id).conn.status # "LISTENING")
  BY <1>2, <1>3, ConnIsNotListening DEF CoreInv, V
<1>6. Settled(Core, 0) /\ Taken(id, "in")
  <2>1. events = <<>>
    BY <1>1 DEF TcpInv, EventsFit
  <2>2. Taken(id, "in")
    BY <2>1 DEF Taken
  <2> QED
    BY <1>1, <2>2, SettledNow
<1>7. CASE /\ V(id).timer = "onListenSocketResumeRead"
           /\ Become(SetCallback(S, id, "in", "onListenSocketRead"))
           /\ UNCHANGED <<loop, call, pc, cb, then, hid, data, budget>>
  <2> DEFINE T == SetCallback(S, id, "in", "onListenSocketRead")
  <2>1. PICK w : /\ Changed(Core, T, id, w) /\ Good(w)
                 /\ w.ptr = V(id).ptr /\ w.cb["in"] # None
                 /\ w.cb["out"] = V(id).cb["out"] /\ w.conn = V(id).conn
    BY <1>2, <1>3, <1>7, ResumeKeeps DEF V, S
  <2>2. V(id).conn.status = "LISTENING"
    BY <1>5, <1>7 DEF Good, TimerFits
  <2>3. Become(T)
    BY <1>7
  <2> HIDE DEF T
  <2>4. /\ Evolves(Core, Core', id, "in") /\ Settled(Core', 0) /\ Ids(Core') = Ids(Core)
    BY <1>2, <1>3, <1>6, <2>1, <2>2, <2>3, ListenerChanged
  <2>5. UNCHANGED <<events, quit, event_count, events_size, next_id, casting, ticked>>
    BY <1>1 DEF Step, loopVars
  <2>6. EventsFit' /\ CallFits'
    <3>1. events = <<>> /\ events \in Seq(Event)
      BY <1>1 DEF TcpInv, EventsFit
    <3> QED
      BY <1>1, <1>7, <2>5, <3>1 DEF EventsFit, CallFits, InCall
  <2>7. /\ quit' = FALSE /\ event_count' \in Nat /\ events_size' \in Nat \ {0}
        /\ ticked' \in BOOLEAN /\ loop' \in {"poll", "dispatch", "call", "timers"}
    BY <1>1, <1>7, <2>5 DEF TcpInv, TurnsFit
  <2> QED
    BY <1>1, <1>7, <2>4, <2>5, <2>6, <2>7, AtLoopKeeps DEF Evolves
<1>8. CASE V(id).timer = "onAsyncConnectTimeout" /\ ReportError(S, id)
  <2>1. id \in DOMAIN Core.conns
    BY <1>5, <1>8 DEF Good, TimerFits
  <2> DEFINE v == [View(Core, id) EXCEPT !.timer = None]
  <2>2. /\ Changed(Core, S, id, v) /\ Good(v)
        /\ v.ptr = V(id).ptr /\ v.cb = V(id).cb
        /\ v.conn = V(id).conn /\ v.timer = None
    BY <1>2, <2>1, StopTimerKeeps DEF V, S
  <2> HIDE DEF v
  <2>3. CoreInv(S) /\ View(S, id) = v /\ id \in DOMAIN S.conns
    BY <1>2, <1>3, <2>1, <2>2, ChangeKeeps DEF Changed, V
  <2>4. v.timer # "onAsyncConnectTimeout"
    BY <2>2, LoopAssumption DEF TimerHandlers
  <2>5. PICK w : Changed(S, SetError(S, id), id, w) /\ Good(w) /\ Failed(v, w)
    BY <2>3, <2>4, SetErrorKeeps
  <2>6. Changed(Core, SetError(S, id), id, w)
    BY <2>2, <2>5, ChangesCompose
  <2> QED
    BY <1>1, <1>2, <1>6, <1>8, <2>1, <2>2, <2>5, <2>6, ReportKeeps DEF Failed
<1>9. CASE /\ V(id).timer = "onSendMessageError" /\ Become(S)
           /\ EnterClient("error", id, "return") /\ UNCHANGED <<hid, data>>
  <2>1. id \in DOMAIN Core.conns /\ V(id).conn.status \in {"PENDING_ERROR", "PEER_CLOSED"}
    BY <1>5, <1>9 DEF Good, TimerFits
  <2> DEFINE w == [View(Core, id) EXCEPT !.timer = None]
  <2>2. /\ Changed(Core, S, id, w) /\ Good(w)
        /\ w.ptr = V(id).ptr /\ w.cb = V(id).cb
        /\ w.conn = V(id).conn /\ w.timer = None
    BY <1>2, <2>1, StopTimerKeeps DEF V, S
  <2> HIDE DEF w
  <2>3. Core' = S
    BY <1>9, <2>2, BecomeChanged
  <2>4. Settled(S, id)
    <3>1. /\ DOMAIN S.conns = DOMAIN Core.conns /\ 0 \notin DOMAIN Core.conns
          /\ \A j \in DOMAIN S.conns \ {id} : View(S, j) = View(Core, j)
      BY <1>2, <2>2 DEF Changed, CoreInv, Struct, SocketMaps
    <3> QED
      BY <1>6, <3>1 DEF Settled
  <2> QED
    BY <1>1, <1>2, <1>6, <1>9, <2>1, <2>2, <2>3, <2>4, EnterChangedKeeps
<1> QED
  BY <1>4, <1>7, <1>8, <1>9

\* A timer of the client is called.
LEMMA UserTimerKeeps ==
  ASSUME TcpInv, UserTimer
  PROVE  TcpInv'
<1>1. /\ loop = "timers" /\ pc = "loop" /\ ticked' = TRUE /\ EnterClient("tick", 0, "return")
      /\ UNCHANGED <<coreVars, events, quit, event_count, events_size, next_id, hid, data,
                     casting>>
  BY DEF UserTimer
<1>2. CoreInv(Core) /\ ~InCall /\ ~Casting /\ data' \in BOOLEAN
  BY <1>1 DEF TcpInv, TurnsFit, InCall
<1>3. Core' = Core
  BY <1>1, CoreStays
<1>4. Evolves(Core, Core', 0, "in") /\ Taken(0, "in")
  BY <1>2, <1>3, NothingEvolves, NothingTaken DEF TcpInv
<1>5. Settled(Core', 0)
  BY <1>1, <1>3, SettledNow
<1>6. /\ next_id' \in 1..IdBound + 1 /\ next_id <= next_id'
      /\ \A j \in DOMAIN sockets' : j < next_id'
  BY <1>1, NoNewIds DEF coreVars
<1> QED
  BY <1>1, <1>2, <1>4, <1>5, <1>6, EnterKeeps

-----------------------------------------------------------------------------
(* The loop *)

\* IOService's Cardinality is that of FiniteSets.
LEMMA SameCardinality ==
  ASSUME NEW s
  PROVE  IO!Cardinality(s) = Cardinality(s)
BY DEF IO!Cardinality, Cardinality

\* What epoll_wait reports of an attached device.
LEMMA BatchFits ==
  ASSUME TcpInv, NEW b \in IO!Batches([p \in DOMAIN dev |-> Ready(net[dev[p].id])])
  PROVE  /\ b \in Seq(Event)
         /\ \A i \in DOMAIN b :
              /\ b[i].id \in DOMAIN sockets /\ sockets[b[i].id] = b[i].ptr
              /\ \A c \in b[i].bits \cap {"in", "out"} : V(b[i].id).cb[c] # None
              /\ V(b[i].id).conn.status = "CONNECTING" /\ "err" \in b[i].bits =>
                    "out" \in b[i].bits
         /\ \A i, j \in DOMAIN b : b[i].id = b[j].id => i = j
<1> DEFINE ready == [p \in DOMAIN dev |-> Ready(net[dev[p].id])]
           ps == {p \in DOMAIN dev : ready[p] \cap IO!Interest(p) # {}}
           n == IF IO!Cardinality(ps) > events_size THEN events_size
                ELSE IO!Cardinality(ps)
<1>1. /\ CoreInv(Core) /\ SocketMaps(Core) /\ events_size \in Nat
      /\ Core.dev = dev /\ Core.sockets = sockets /\ Ids(Core) = DOMAIN sockets
  BY DEF TcpInv, TurnsFit, CoreInv, Struct, Core, Ids
<1>2. \A p \in DOMAIN dev :
        /\ dev[p].id \in DOMAIN sockets /\ sockets[dev[p].id] = p
        /\ dev[p].id \in Nat \ {0} /\ p \in Ptrs
  BY <1>1 DEF SocketMaps, Device
<1>3. n \in Nat
  <2>1. ps \subseteq Ptrs /\ IsFiniteSet(ps)
    BY <1>2, LoopAssumption, FS_Subset
  <2> HIDE DEF ps
  <2>2. IO!Cardinality(ps) \in Nat
    BY <2>1, FS_CardinalityType, SameCardinality
  <2> QED
    BY <1>1, <2>2
<1>4. PICK f \in [1..n -> ps] :
        /\ b = [i \in 1..n |-> [ptr |-> f[i], id |-> dev[f[i]].id,
                                bits |-> ready[f[i]] \cap IO!Interest(f[i])]]
        /\ \A i, j \in 1..n : f[i] = f[j] => i = j
  BY DEF IO!Batches
<1>5. \A p \in ps : /\ p \in DOMAIN dev
                    /\ ready[p] = Ready(net[dev[p].id])
  OBVIOUS
<1> HIDE DEF n, ps, ready
<1>6. \A i \in 1..n : /\ b[i].ptr = f[i] /\ b[i].id = dev[f[i]].id /\ f[i] \in DOMAIN dev
                      /\ b[i].bits = Ready(net[dev[f[i]].id]) \cap IO!Interest(f[i])
                      /\ b[i] \in Event
  <2> SUFFICES ASSUME NEW i \in 1..n
               PROVE  /\ b[i].ptr = f[i] /\ b[i].id = dev[f[i]].id /\ f[i] \in DOMAIN dev
                      /\ b[i].bits = Ready(net[dev[f[i]].id]) \cap IO!Interest(f[i])
                      /\ b[i] \in Event
    OBVIOUS
  <2>1. f[i] \in DOMAIN dev /\ ready[f[i]] = Ready(net[dev[f[i]].id])
    BY <1>4, <1>5
  <2>2. b[i] = [ptr |-> f[i], id |-> dev[f[i]].id,
                bits |-> Ready(net[dev[f[i]].id]) \cap IO!Interest(f[i])]
    BY <1>4, <2>1
  <2>3. Ready(net[dev[f[i]].id]) \cap IO!Interest(f[i]) \in SUBSET IO!Bits
    BY DEF Ready, IO!Bits
  <2>4. f[i] \in Ptrs /\ dev[f[i]].id \in Nat \ {0}
    BY <1>2, <2>1
  <2> QED
    BY <2>1, <2>2, <2>3, <2>4 DEF Event
<1>7. b \in Seq(Event) /\ DOMAIN b = 1..n
  <2>1. b \in [1..n -> Event]
    BY <1>4, <1>6
  <2> QED
    BY <1>3, <2>1
<1>8. ASSUME NEW i \in DOMAIN b
      PROVE  /\ b[i].id \in DOMAIN sockets /\ sockets[b[i].id] = b[i].ptr
             /\ \A c \in b[i].bits \cap {"in", "out"} : V(b[i].id).cb[c] # None
             /\ V(b[i].id).conn.status = "CONNECTING" /\ "err" \in b[i].bits =>
                   "out" \in b[i].bits
  <2> DEFINE id == b[i].id  p == b[i].ptr
  <2>1. p \in DOMAIN dev /\ id = dev[p].id /\ b[i].bits = Ready(net[id]) \cap IO!Interest(p)
    BY <1>6, <1>7
  <2>2. id \in DOMAIN sockets /\ sockets[id] = p
    BY <1>2, <2>1
  <2>3. V(id).cb = dev[p].cb /\ Good(V(id))
    BY <1>1, <2>2 DEF V, View, CoreInv
  <2> HIDE DEF id, p
  <2>4. \A c \in b[i].bits \cap {"in", "out"} : V(id).cb[c] # None
    BY <2>1, <2>3 DEF IO!Interest
  <2>5. V(id).conn.status = "CONNECTING" => V(id).cb["out"] # None
    BY <2>3, LoopAssumption DEF Good, CallbacksFit, Handlers
  <2>6. "err" \in b[i].bits => "out" \in Ready(net[id])
    BY <2>1 DEF Ready
  <2>7. V(id).conn.status = "CONNECTING" /\ "err" \in b[i].bits => "out" \in b[i].bits
    BY <2>1, <2>3, <2>5, <2>6 DEF IO!Interest
  <2> QED
    BY <2>2, <2>4, <2>7 DEF id, p
<1>9. ASSUME NEW i \in DOMAIN b, NEW j \in DOMAIN b, b[i].id = b[j].id PROVE i = j
  <2>1. f[i] = f[j]
    BY <1>6, <1>7, <1>8, <1>9
  <2> QED
    BY <1>4, <1>7, <2>1
<1> QED
  BY <1>7, <1>8, <1>9

\* A step of the loop that leaves the service's data as it is.
LEMMA LoopOnlyKeeps ==
  ASSUME TcpInv, pc = "loop", UNCHANGED <<serviceVars, dev, removed, quit, events_size, ticked>>,
         event_count' \in Nat, loop' \in {"poll", "dispatch", "call", "timers"},
         EventsFit', CallFits'
  PROVE  TcpInv'
<1>1. UNCHANGED <<pc, cb, then, hid, data, budget, casting, next_id>>
  BY DEF serviceVars
<1>2. Core' = Core
  BY DEF Core, serviceVars
<1>3. CoreInv(Core') /\ Settled(Core', 0)
  BY <1>2, SettledNow DEF TcpInv
<1>4. quit' = FALSE /\ events_size' \in Nat \ {0} /\ ticked' \in BOOLEAN
  BY DEF TcpInv, TurnsFit
<1> QED
  BY <1>1, <1>2, <1>3, <1>4, AtLoopKeeps

\* epoll_wait returns a batch.
LEMMA WaitKeeps ==
  ASSUME TcpInv, pc = "loop", UNCHANGED <<serviceVars, ticked>>,
         IO!Wait([p \in DOMAIN dev |-> Ready(net[dev[p].id])])
  PROVE  TcpInv'
<1>1. /\ events' \in IO!Batches([p \in DOMAIN dev |-> Ready(net[dev[p].id])])
      /\ event_count' = Len(events') /\ loop' = "dispatch"
      /\ UNCHANGED <<dev, removed, call, quit, events_size>>
  BY DEF IO!Wait
<1>2. /\ events' \in Seq(Event)
      /\ \A i \in DOMAIN events' :
           LET e == events'[i]
           IN  /\ e.id \in DOMAIN sockets /\ sockets[e.id] = e.ptr
               /\ \A c \in e.bits \cap {"in", "out"} : V(e.id).cb[c] # None
               /\ V(e.id).conn.status = "CONNECTING" /\ "err" \in e.bits => "out" \in e.bits
      /\ \A i, j \in DOMAIN events' : events'[i].id = events'[j].id => i = j
  BY <1>1, BatchFits
<1>3. Core' = Core /\ sockets' = sockets
  BY <1>1 DEF Core, serviceVars
<1>4. EventsFit'
  <2>1. \A i \in DOMAIN events' : EventFits(events[i])'
    BY <1>2, <1>3 DEF EventFits, V
  <2> QED
    BY <1>1, <1>2, <2>1 DEF EventsFit
<1>5. CallFits'
  BY <1>1 DEF CallFits, InCall
<1>6. event_count' \in Nat
  BY <1>1, <1>2, LenProperties
<1> QED
  BY <1>1, <1>4, <1>5, <1>6, LoopOnlyKeeps

\* Dropping the first event of the batch keeps the others as they are.
LEMMA RestFits ==
  ASSUME TcpInv, pc = "loop", UNCHANGED <<serviceVars, ticked>>,
         IO!SkipRemoved \/ IO!NextEvent
  PROVE  TcpInv'
<1>1. /\ loop = "dispatch" /\ events # <<>> /\ events' = Tail(events)
      /\ UNCHANGED <<dev, removed, call, loop, quit, event_count, events_size>>
  BY DEF IO!SkipRemoved, IO!NextEvent
<1>2. EventsFit /\ events \in Seq(Event)
  BY DEF TcpInv, EventsFit
<1>3. /\ events' \in Seq(Event)
      /\ \A i \in DOMAIN events' : i + 1 \in DOMAIN events /\ events'[i] = events[i + 1]
  <2>1. Tail(events) \in Seq(Event) /\ Len(Tail(events)) = Len(events) - 1
    BY <1>1, <1>2, HeadTailProperties
  <2>2. \A i \in 1..Len(Tail(events)) : Tail(events)[i] = events[i + 1]
    BY <1>1, <1>2, <2>1, HeadTailProperties
  <2> QED
    BY <1>1, <1>2, <2>1, <2>2, LenProperties
<1>4. Core' = Core /\ sockets' = sockets
  BY <1>1 DEF Core, serviceVars
<1>5. EventsFit'
  <2>1. \A i \in DOMAIN events' : EventFits(events[i])'
    <3> SUFFICES ASSUME NEW i \in DOMAIN events' PROVE EventFits(events[i])'
      OBVIOUS
    <3>1. EventFits(events[i + 1]) /\ events'[i] = events[i + 1]
      BY <1>2, <1>3 DEF EventsFit
    <3> QED
      BY <1>1, <1>4, <3>1 DEF EventFits, V, InCall
  <2>2. \A i, j \in DOMAIN events' : events'[i].id = events'[j].id => i = j
    <3> SUFFICES ASSUME NEW i \in DOMAIN events', NEW j \in DOMAIN events',
                        events'[i].id = events'[j].id
                 PROVE  i = j
      OBVIOUS
    <3>1. i + 1 = j + 1
      BY <1>2, <1>3 DEF EventsFit
    <3>2. i \in Nat /\ j \in Nat
      BY <1>3, LenProperties
    <3> QED
      BY <3>1, <3>2
  <2> QED
    BY <1>1, <1>3, <2>1, <2>2 DEF EventsFit
<1>6. CallFits'
  BY <1>1 DEF CallFits, InCall
<1>7. event_count' \in Nat
  BY <1>1 DEF TcpInv, TurnsFit
<1> QED
  BY <1>1, <1>5, <1>6, <1>7, LoopOnlyKeeps

\* The loop calls a callback.
LEMMA DispatchKeeps ==
  ASSUME TcpInv, pc = "loop", UNCHANGED <<serviceVars, ticked>>, IO!Dispatch
  PROVE  TcpInv'
<1> DEFINE e == events[1]
           bit == IO!CurrentBit
           id == e.id
<1>1. /\ loop = "dispatch" /\ events # <<>> /\ e.bits # {} /\ e.ptr \notin removed
      /\ events' = [events EXCEPT ![1].bits = @ \ {bit}]
      /\ UNCHANGED <<dev, removed, quit, event_count, events_size>>
      /\ IF bit = "err" /\ e.ptr \in DOMAIN dev /\ dev[e.ptr].cb["err"] = None
         THEN UNCHANGED <<call, loop>>
         ELSE /\ call' = [ptr |-> e.ptr, id |-> id, bit |-> bit,
                          cb |-> IO!CallbackAt(e.ptr, bit)]
              /\ loop' = "call"
  BY DEF IO!Dispatch, IO!checkIODeviceExist
<1>2. EventsFit /\ events \in Seq(Event) /\ CoreInv(Core)
  BY DEF TcpInv, EventsFit
<1>3. DOMAIN events = 1..Len(events) /\ Len(events) \in Nat /\ 1 \in DOMAIN events
  BY <1>1, <1>2, LenProperties, EmptySeq
<1>4. e \in Event /\ EventFits(e)
  BY <1>2, <1>3, ElementOfSeq DEF EventsFit
<1>5. /\ id \in DOMAIN sockets /\ sockets[id] = e.ptr
      /\ \A b \in e.bits \cap {"in", "out"} : V(id).cb[b] # None
      /\ V(id).conn.status = "CONNECTING" /\ "err" \in e.bits => "out" \in e.bits
  BY <1>1, <1>4 DEF EventFits, InCall
<1>6. /\ bit \in e.bits /\ bit \in {"in", "out", "err"}
      /\ bit = "err" => "out" \notin e.bits
  <2>1. e.bits \subseteq {"in", "out", "err"}
    BY <1>4 DEF Event, IO!Bits
  <2> QED
    BY <1>1, <2>1 DEF IO!CurrentBit, IO!NextBit
<1>7. e.ptr \in DOMAIN dev /\ V(id).cb = dev[e.ptr].cb /\ Good(V(id))
  BY <1>2, <1>5 DEF V, View, Core, CoreInv, Struct, SocketMaps, Ids
<1>8. V(id).cb[bit] # None
  BY <1>5, <1>6, <1>7, LoopAssumption DEF Good, CallbacksFit, Handlers
<1>9. /\ call' = [ptr |-> e.ptr, id |-> id, bit |-> bit, cb |-> dev[e.ptr].cb[bit]]
      /\ loop' = "call"
  BY <1>1, <1>7, <1>8 DEF IO!CallbackAt
<1>10. Core' = Core /\ sockets' = sockets /\ pc' = "loop"
  BY <1>1 DEF Core, serviceVars
<1>11. /\ events' \in Seq(Event) /\ DOMAIN events' = DOMAIN events
       /\ events'[1] = [e EXCEPT !.bits = @ \ {bit}]
       /\ \A i \in DOMAIN events \ {1} : events'[i] = events[i]
  <2>1. \A i \in DOMAIN events : events[i] \in Event
    BY <1>2, <1>3, ElementOfSeq
  <2>2. [e EXCEPT !.bits = @ \ {bit}] \in Event
    BY <1>4 DEF Event
  <2>3. /\ DOMAIN events' = DOMAIN events
        /\ events'[1] = [e EXCEPT !.bits = @ \ {bit}]
        /\ \A i \in DOMAIN events \ {1} : events'[i] = events[i]
    BY <1>1, <1>3
  <2>4. events' \in [1..Len(events) -> Event]
    <3>1. events' = [i \in 1..Len(events) |-> events'[i]]
      BY <1>1, <1>3
    <3>2. \A i \in 1..Len(events) : events'[i] \in Event
      BY <1>3, <2>1, <2>2, <2>3
    <3> QED
      BY <3>1, <3>2
  <2> QED
    BY <1>3, <2>3, <2>4
<1> HIDE DEF e, bit, id
<1>12. /\ events'[1].ptr = e.ptr /\ events'[1].id = id /\ events'[1].bits = e.bits \ {bit}
  BY <1>4, <1>11 DEF Event, id
<1>13. \A i \in DOMAIN events : events'[i].id = events[i].id
  BY <1>11, <1>12 DEF id, e
<1>14. EventsFit'
  <2>1. \A i \in DOMAIN events' : EventFits(events[i])'
    <3> SUFFICES ASSUME NEW i \in DOMAIN events' PROVE EventFits(events[i])'
      OBVIOUS
    <3>1. CASE i = 1
      <4>1. InCall' /\ call'.id = id
        BY <1>9, <1>10 DEF InCall
      <4> QED
        BY <1>5, <1>10, <1>12, <3>1, <4>1 DEF EventFits, V
    <3>2. CASE i # 1
      <4>1. EventFits(events[i]) /\ events'[i] = events[i]
        BY <1>2, <1>11, <3>2 DEF EventsFit
      <4>2. ~InCall /\ removed' = removed
        BY <1>1 DEF InCall
      <4> QED
        BY <1>10, <4>1, <4>2 DEF EventFits, V
    <3> QED
      BY <3>1, <3>2
  <2>2. \A i, j \in DOMAIN events' : events'[i].id = events'[j].id => i = j
    BY <1>2, <1>11, <1>13 DEF EventsFit
  <2> QED
    BY <1>9, <1>11, <2>1, <2>2 DEF EventsFit
<1>15. CallFits'
  <2>1. Taken(call.id, call.bit)'
    <3> SUFFICES ASSUME NEW i \in DOMAIN events', events'[i].id = id
                 PROVE  bit \notin events'[i].bits
      BY <1>9 DEF Taken
    <3>1. i = 1
      BY <1>2, <1>3, <1>11, <1>13 DEF EventsFit, id, e
    <3> QED
      BY <1>12, <3>1
  <2>2. call'.bit \in IO!Bits /\ call'.cb = View(Core', call'.id).cb[call'.bit] /\ call'.cb # None
    BY <1>6, <1>7, <1>8, <1>9, <1>10 DEF IO!Bits, V
  <2>3. call'.id \in DOMAIN sockets' /\ sockets'[call'.id] = call'.ptr
    BY <1>5, <1>9, <1>10
  <2>4. call'.bit = "err" => View(Core', call'.id).conn.status # "CONNECTING"
    BY <1>5, <1>6, <1>9, <1>10 DEF V
  <2> QED
    BY <2>1, <2>2, <2>3, <2>4 DEF CallFits, V
<1>16. event_count' \in Nat
  BY <1>1 DEF TcpInv, TurnsFit
<1> QED
  BY <1>1, <1>9, <1>14, <1>15, <1>16, LoopOnlyKeeps

\* Every step of the loop within a pass.
LEMMA LoopStepKeeps ==
  ASSUME TcpInv, LoopStep
  PROVE  TcpInv'
<1>1. pc = "loop" /\ UNCHANGED <<serviceVars, ticked>>
  BY DEF LoopStep
<1>2. CASE IO!EventsDone
  <2>1. /\ events = <<>> /\ loop' = "timers"
        /\ UNCHANGED <<dev, removed, events, call, quit, event_count, events_size>>
    BY <1>2 DEF IO!EventsDone
  <2>2. EventsFit'
    BY <2>1 DEF TcpInv, EventsFit
  <2>3. CallFits'
    BY <2>1 DEF CallFits, InCall
  <2>4. event_count' \in Nat
    BY <2>1 DEF TcpInv, TurnsFit
  <2> QED
    BY <1>1, <2>1, <2>2, <2>3, <2>4, LoopOnlyKeeps
<1> QED
  BY <1>1, <1>2, WaitKeeps, RestFits, DispatchKeeps DEF LoopStep

\* Doubling the buffer of events keeps its size positive.
LEMMA Doubled ==
  ASSUME NEW n \in Nat \ {0}
  PROVE  n * 2 \in Nat \ {0}
OBVIOUS

\* The end of a pass: the removed addresses are forgotten.
LEMMA EndPassKeeps ==
  ASSUME TcpInv, EndPass
  PROVE  TcpInv'
<1>1. /\ pc = "loop" /\ loop = "timers" /\ loop' = "poll" /\ removed' = {}
      /\ events_size' = (IF event_count >= events_size THEN events_size * 2 ELSE events_size)
      /\ event_count' = 0 /\ UNCHANGED <<dev, events, call, quit>>
      /\ ticked' = FALSE /\ UNCHANGED serviceVars
  BY DEF EndPass, IO!EndIteration
<1>2. /\ Core'.removed = {} /\ Core'.dev = Core.dev /\ Core'.sockets = Core.sockets
      /\ Core'.conns = Core.conns /\ Core'.timers = Core.timers /\ Core'.net = Core.net
      /\ Core'.sock_timer = Core.sock_timer /\ Core'.timer_sock = Core.timer_sock
      /\ Shape(Core')
  BY <1>1 DEF Core, Shape, serviceVars
<1>3. Ids(Core') = Ids(Core) /\ \A id : View(Core', id) = View(Core, id)
  BY <1>2 DEF Ids, View
<1>4. CoreInv(Core')
  <2>1. Struct(Core')
    BY <1>2, <1>3 DEF TcpInv, CoreInv, Struct, SocketMaps, TimerMaps
  <2> QED
    BY <1>2, <1>3, <2>1 DEF TcpInv, CoreInv
<1>5. Settled(Core', 0)
  <2>1. Settled(Core, 0)
    BY <1>1, SettledNow
  <2> QED
    BY <1>2, <1>3, <2>1 DEF Settled
<1>6. EventsFit' /\ CallFits'
  <2>1. events = <<>> /\ events \in Seq(Event)
    BY <1>1 DEF TcpInv, EventsFit
  <2> QED
    BY <1>1, <2>1 DEF EventsFit, CallFits, InCall
<1>7. /\ quit' = FALSE /\ event_count' \in Nat /\ events_size' \in Nat \ {0}
      /\ ticked' \in BOOLEAN
  <2>1. quit = FALSE /\ events_size \in Nat \ {0}
    BY DEF TcpInv, TurnsFit
  <2>2. events_size' = events_size \/ events_size' = events_size * 2
    BY <1>1
  <2>3. events_size' \in Nat \ {0}
    BY <2>1, <2>2, Doubled
  <2>4. event_count' \in Nat
    BY <1>1
  <2> QED
    BY <1>1, <2>1, <2>3, <2>4
<1>8. UNCHANGED <<pc, cb, then, hid, data, budget, casting, next_id>>
  BY <1>1 DEF serviceVars
<1> QED
  BY <1>1, <1>3, <1>4, <1>5, <1>6, <1>7, <1>8, AtLoopKeeps

\* The invariant holds before main() does anything.
LEMMA InitInv == Init => TcpInv
<1> SUFFICES ASSUME Init PROVE TcpInv
  OBVIOUS
<1>1. /\ dev = [p \in {} |-> 0] /\ removed = {} /\ events = <<>> /\ loop = "stopped"
      /\ quit = FALSE /\ event_count = 0 /\ events_size = EventsInit
      /\ next_id = 1
      /\ sockets = EmptyMap /\ conns = EmptyMap /\ net = EmptyMap
      /\ timers = EmptyMap /\ sock_timer = EmptyMap /\ timer_sock = EmptyMap
      /\ pc = "client" /\ cb = [kind |-> "main", id |-> 0] /\ then = "start"
      /\ hid = 0 /\ data = FALSE /\ budget = CallBound /\ casting = NoCast /\ ticked = FALSE
  BY DEF Init, IO!IOInit
<1>2. /\ DOMAIN sockets = {} /\ DOMAIN conns = {} /\ DOMAIN net = {} /\ DOMAIN timers = {}
      /\ DOMAIN sock_timer = {} /\ DOMAIN timer_sock = {} /\ DOMAIN dev = {}
  BY <1>1 DEF EmptyMap
<1>3. CoreInv(Core)
  <2>1. Shape(Core) /\ SocketMaps(Core) /\ TimerMaps(Core)
    BY <1>1, <1>2, CoreIsShaped DEF SocketMaps, TimerMaps, Ids, Core
  <2>2. Ids(Core) = {} /\ DOMAIN Core.conns = {}
    BY <1>2 DEF Ids, Core
  <2> QED
    BY <2>1, <2>2 DEF CoreInv, Struct
<1>4. TurnsFit
  <2>1. 0 \in 0..next_id - 1 /\ next_id \in 1..IdBound + 1 /\ CallBound \in 0..CallBound
    BY <1>1, TcpAssumption
  <2> QED
    BY <1>1, <1>2, <2>1, LoopAssumption DEF TurnsFit, Casting, NoCast
<1>5. EventsFit
  BY <1>1 DEF EventsFit
<1>6. CallFits /\ HandlerFits /\ ClosingFits
  BY <1>1, <1>2 DEF CallFits, HandlerFits, ClosingFits, InCall, InAccept
<1> QED
  BY <1>3, <1>4, <1>5, <1>6 DEF TcpInv

\* A stuttering step keeps the invariant.
LEMMA StutterKeeps ==
  ASSUME TcpInv, UNCHANGED vars
  PROVE  TcpInv'
<1>1. UNCHANGED <<dev, removed, events, call, loop, quit, event_count, events_size, next_id,
                  sockets, conns, timers, sock_timer, timer_sock, net,
                  pc, cb, then, hid, data, budget, casting, ticked>>
  BY DEF vars, ioVars, ctlVars
<1>2. Core' = Core
  BY <1>1 DEF Core
<1> QED
  BY <1>1, <1>2 DEF TcpInv, TurnsFit, EventsFit, EventFits, CallFits, HandlerFits, ClosingFits,
                    InCall, InAccept, Taken, ErrorRuns, Casting, V

\* Every step keeps the invariant.
LEMMA InvStep == TcpInv /\ [Next]_vars => TcpInv'
<1> SUFFICES ASSUME TcpInv, [Next]_vars PROVE TcpInv'
  OBVIOUS
<1>1. CASE Service
  <2>1. CASE EventHandler
    BY <2>1, onListenSocketReadKeeps, AcceptOneKeeps, AcceptAbortedKeeps, AcceptStopsKeeps,
       onAsyncConnectSocketWriteKeeps, onSocketReadKeeps, ReadSomeKeeps, ReadFailsKeeps,
       ReadEndsKeeps, onSocketWriteKeeps, onSocketErrorKeeps DEF EventHandler
  <2> QED
    BY <1>1, <2>1, LoopStepKeeps, EndPassKeeps, BroadcastToKeeps, MainReturnsKeeps,
       ClientReturnsKeeps DEF Service
<1>2. CASE \E t \in TimerIds : FireTimer(t)
  BY <1>2, FireTimerKeeps
<1>3. CASE UserTimer
  BY <1>3, UserTimerKeeps
<1>4. CASE ClientCalls
  BY <1>4, ClientCallsKeep
<1>5. CASE \E id \in DOMAIN net : Peer(id)
  BY <1>5, PeerKeeps
<1>6. CASE UNCHANGED vars
  BY <1>6, StutterKeeps
<1> QED
  BY <1>1, <1>2, <1>3, <1>4, <1>5, <1>6 DEF Next

\* The inductive invariant of the service and its loop.
THEOREM Invariant == Spec => []TcpInv
BY InitInv, InvStep, PTL DEF Spec

-----------------------------------------------------------------------------
(* What follows from the invariant *)

\* The views of the sockets are good, and a connection is the one its view shows.
LEMMA ViewsAreGood ==
  ASSUME TcpInv
  PROVE  /\ Ids(Core) = DOMAIN sockets /\ DOMAIN net = DOMAIN sockets
         /\ \A id \in DOMAIN sockets : Good(V(id)) /\ V(id).net = net[id]
                                       /\ V(id).cb = dev[sockets[id]].cb
         /\ \A id \in DOMAIN conns :
              id \in DOMAIN sockets /\ V(id).conn = conns[id] /\ conns[id].status # "LISTENING"
         /\ \A id \in DOMAIN sockets \ DOMAIN conns : V(id).conn = NoConn
         /\ \A id \in DOMAIN sock_timer : V(id).timer = timers[sock_timer[id]]
BY DEF TcpInv, CoreInv, Struct, SocketMaps, Ids, Core, V, View

\* The fields of a connection have their types.
LEMMA ConnTypes ==
  ASSUME TcpInv, NEW id \in DOMAIN conns
  PROVE  /\ conns[id] \in Conn /\ conns[id].status \in Statuses
         /\ net[id] \in Net
<1>1. Good(V(id)) /\ V(id).conn = conns[id] /\ V(id).net = net[id]
      /\ conns[id].status # "LISTENING"
  BY ViewsAreGood
<1> QED
  BY <1>1 DEF Good, ViewType, Conn

\* The types.
LEMMA TypesFollow == TcpInv => TypeOK
<1> SUFFICES ASSUME TcpInv PROVE TypeOK
  OBVIOUS
<1>1. IO!IOTypeOK
  <2>1. DOMAIN dev \subseteq Ptrs /\ (\A p \in DOMAIN dev : dev[p] \in Device) /\ removed \subseteq Ptrs
    BY DEF TcpInv, CoreInv, Struct, SocketMaps, Core, Ids
  <2>2. \A i \in DOMAIN events : events[i] \in Event
    <3>1. events \in Seq(Event)
      BY DEF TcpInv, EventsFit
    <3> QED
      BY <3>1, ElementOfSeq, LenProperties
  <2>3. /\ loop \in {"stopped", "poll", "dispatch", "call", "timers"} /\ quit = FALSE
        /\ event_count \in Nat /\ events_size \in Nat \ {0}
    BY DEF TcpInv, TurnsFit
  <2>4. \A i \in DOMAIN events : /\ events[i].ptr \in Ptrs /\ events[i].id \in Nat \ {0}
                                 /\ events[i].bits \subseteq IO!Bits
    BY <2>2 DEF Event
  <2>5. \A p \in DOMAIN dev : /\ dev[p].id \in Nat \ {0}
                              /\ dev[p].cb \in [IO!Bits -> Handlers \cup {None}]
    BY <2>1 DEF Device, CallbackSet
  <2> QED
    BY <2>1, <2>3, <2>4, <2>5 DEF IO!IOTypeOK
<1>2. next_id \in 1..IdBound + 1 /\ DOMAIN sockets \subseteq 1..next_id - 1
  <2>1. next_id \in 1..IdBound + 1 /\ \A id \in DOMAIN sockets : id < next_id
    BY DEF TcpInv, TurnsFit
  <2>2. \A id \in DOMAIN sockets : id \in Nat \ {0}
    BY DEF TcpInv, CoreInv, Struct, SocketMaps, Core, Ids
  <2>3. next_id \in Nat
    BY <2>1, TcpAssumption
  <2> QED
    BY <2>1, <2>2, <2>3
<1>3. /\ DOMAIN net = DOMAIN sockets /\ DOMAIN conns \subseteq DOMAIN sockets
      /\ DOMAIN dev = {sockets[id] : id \in DOMAIN sockets}
      /\ \A id \in DOMAIN sockets : dev[sockets[id]].id = id
      /\ DOMAIN timers \subseteq TimerIds
  <2>1. /\ \A id \in DOMAIN sockets : sockets[id] \in DOMAIN dev /\ dev[sockets[id]].id = id
        /\ \A p \in DOMAIN dev : dev[p].id \in DOMAIN sockets /\ sockets[dev[p].id] = p
        /\ DOMAIN net = DOMAIN sockets /\ DOMAIN conns \subseteq DOMAIN sockets
    BY DEF TcpInv, CoreInv, Struct, SocketMaps, Core, Ids
  <2>2. DOMAIN timers \subseteq TimerIds
    BY DEF TcpInv, CoreInv, Struct, TimerMaps, Core
  <2> QED
    BY <2>1, <2>2
<1>4. \A id \in DOMAIN conns :
        /\ conns[id].status \in {"CONNECTING", "CONNECTED", "PENDING_ERROR", "PEER_CLOSED"}
        /\ conns[id].rbuf \in Nat /\ conns[id].fresh \in Nat
        /\ conns[id].wbuf \in Seq(Nat)
        /\ conns[id].sccb \in {None, "close"}
  BY ConnTypes DEF Conn, Statuses
<1>5. /\ pc \in {"loop", "accept", "read", "client"}
      /\ then \in {"return", "accept", "peerClose", "start"}
      /\ data \in BOOLEAN /\ ticked \in BOOLEAN /\ budget \in 0..CallBound
      /\ casting.left \subseteq DOMAIN conns
  BY DEF TcpInv, TurnsFit
<1> QED
  BY <1>1, <1>2, <1>3, <1>4, <1>5 DEF TypeOK

\* Each timer is set for one socket, and for what that socket is doing.
LEMMA TimersFollow == TcpInv => TimerMapsAgree /\ TimerIsCurrent
<1> SUFFICES ASSUME TcpInv PROVE TimerMapsAgree /\ TimerIsCurrent
  OBVIOUS
<1>1. /\ DOMAIN timer_sock = DOMAIN timers
      /\ \A t \in DOMAIN timers :
          /\ timers[t] \in TimerHandlers
          /\ timer_sock[t] \in DOMAIN sockets /\ timer_sock[t] \in DOMAIN sock_timer
          /\ sock_timer[timer_sock[t]] = t
      /\ \A id \in DOMAIN sock_timer :
          sock_timer[id] \in DOMAIN timers /\ timer_sock[sock_timer[id]] = id
  BY DEF TcpInv, CoreInv, Struct, TimerMaps, Core, Ids
<1>2. TimerMapsAgree
  BY <1>1 DEF TimerMapsAgree
<1>3. ASSUME NEW t \in DOMAIN timers
      PROVE  LET id == timer_sock[t]
             IN  /\ timers[t] = "onAsyncConnectTimeout" =>
                      id \in DOMAIN conns /\ conns[id].status = "CONNECTING"
                 /\ timers[t] = "onListenSocketResumeRead" => dev[sockets[id]].cb["in"] = None
                 /\ timers[t] = "onSendMessageError" =>
                      conns[id].status \in {"PENDING_ERROR", "PEER_CLOSED"}
  <2> DEFINE id == timer_sock[t]
  <2>1. id \in DOMAIN sockets /\ V(id).timer = timers[t] /\ TimerFits(V(id))
    BY <1>1, ViewsAreGood DEF Good
  <2>2. V(id).conn = IF id \in DOMAIN conns THEN conns[id] ELSE NoConn
    BY <2>1, ViewsAreGood
  <2>3. V(id).cb = dev[sockets[id]].cb
    BY <2>1, ViewsAreGood
  <2>4. NoConn.status = "LISTENING"
    BY DEF NoConn
  <2> HIDE DEF id
  <2> QED
    BY <2>1, <2>2, <2>3, <2>4 DEF TimerFits, id
<1> QED
  BY <1>1, <1>2, <1>3 DEF TimerIsCurrent, TimerHandlers

\* What is buffered, what it waits for and how much it may be.
LEMMA BuffersFollow == TcpInv => WriteInterest /\ SendStreamFifo /\ WriteLimit /\ ReadLimit
<1> SUFFICES ASSUME TcpInv, NEW id \in DOMAIN conns
             PROVE  /\ (conns[id].wbuf # <<>>) <=> (dev[sockets[id]].cb["out"] = "onSocketWrite")
                    /\ net[id].wire \o conns[id].wbuf = [i \in 1..net[id].accepted |-> i]
                    /\ MaxWrite > 0 => Len(conns[id].wbuf) <= MaxWrite
                    /\ MaxRead > 0 => conns[id].rbuf <= MaxRead
  BY DEF WriteInterest, SendStreamFifo, WriteLimit, ReadLimit
<1>1. /\ CallbacksFit(V(id)) /\ StreamFits(V(id)) /\ LimitsKept(V(id))
      /\ V(id).conn = conns[id] /\ V(id).net = net[id] /\ V(id).cb = dev[sockets[id]].cb
  BY ViewsAreGood DEF Good
<1>2. net[id].wire \o conns[id].wbuf = Bytes(0, net[id].accepted)
  <2> DEFINE a == Len(net[id].wire)
             b == Len(conns[id].wbuf)
  <2>1. a \in Nat /\ b \in Nat
    BY ConnTypes, LenProperties DEF Conn, Net
  <2>2. a + b = net[id].accepted /\ net[id].wire = Bytes(0, a) /\ conns[id].wbuf = Bytes(a, b)
    BY <1>1 DEF StreamFits
  <2> HIDE DEF a, b
  <2>3. Bytes(0, a) \o Bytes(0 + a, b) = Bytes(0, a + b)
    BY <2>1, BytesJoin
  <2>4. 0 + a = a
    BY <2>1
  <2> QED
    BY <2>2, <2>3, <2>4
<1>3. Bytes(0, net[id].accepted) = [i \in 1..net[id].accepted |-> i]
  BY ConnTypes DEF Bytes, Net
<1>4. (conns[id].wbuf # <<>>) <=> (dev[sockets[id]].cb["out"] = "onSocketWrite")
  BY <1>1 DEF CallbacksFit
<1>5. /\ MaxWrite > 0 => Len(conns[id].wbuf) <= MaxWrite
      /\ MaxRead > 0 => conns[id].rbuf <= MaxRead
  BY <1>1 DEF LimitsKept
<1> QED
  BY <1>2, <1>3, <1>4, <1>5

\* What the client is told, and what it was given before.
LEMMA ReportsFollow == TcpInv => NoNullCall /\ CallbackIsLive /\ PeerCloseHasCause
<1> SUFFICES ASSUME TcpInv PROVE NoNullCall /\ CallbackIsLive /\ PeerCloseHasCause
  OBVIOUS
<1>1. NoNullCall
  BY DEF TcpInv, CallFits, NoNullCall
<1>2. CallbackIsLive
  BY DEF TcpInv, HandlerFits, CallbackIsLive
<1>3. ASSUME pc = "client", cb.kind = "peerClose", cb.id \in DOMAIN conns
      PROVE  \/ net[cb.id].fin \/ net[cb.id].rst
             \/ MaxRead > 0 /\ net[cb.id].recvd >= MaxRead
  <2>1. PeerDone(V(cb.id))
    BY <1>3 DEF TcpInv, HandlerFits
  <2>2. V(cb.id).net = net[cb.id] /\ net[cb.id].recvd \in Nat /\ MaxRead \in Nat
    BY <1>3, ViewsAreGood, ConnTypes, TcpAssumption DEF Net
  <2> QED
    BY <2>1, <2>2 DEF PeerDone
<1> QED
  BY <1>1, <1>2, <1>3 DEF PeerCloseHasCause

\* A client that closes what has failed was given all the peer sent that fits, and
\* is told of every failure.
LEMMA ClosingFollows ==
  ASSUME MustClose
  PROVE  TcpInv => DataBeforeClose /\ ErrorWillBeReported
<1> SUFFICES ASSUME TcpInv PROVE DataBeforeClose /\ ErrorWillBeReported
  OBVIOUS
<1>1. ASSUME pc = "client", cb.kind = "peerClose", cb.id \in DOMAIN conns
      PROVE  /\ conns[cb.id].fresh = 0
             /\ net[cb.id].inq > 0 => MaxRead > 0 /\ net[cb.id].recvd > MaxRead
  <2>1. ~(V(cb.id).conn.fresh > 0)
    BY <1>1 DEF TcpInv, ClosingFits, ErrorRuns
  <2>2. V(cb.id).conn = conns[cb.id] /\ V(cb.id).net = net[cb.id]
    BY <1>1, ViewsAreGood
  <2>3. /\ conns[cb.id].fresh \in Nat /\ net[cb.id].inq \in Nat /\ net[cb.id].recvd \in Nat
        /\ MaxRead \in Nat
    BY <1>1, ConnTypes, TcpAssumption DEF Conn, Net
  <2>4. PeerDone(V(cb.id))
    BY <1>1 DEF TcpInv, HandlerFits
  <2>5. conns[cb.id].fresh = 0
    BY <2>1, <2>2, <2>3
  <2>6. net[cb.id].inq > 0 => MaxRead > 0 /\ net[cb.id].recvd > MaxRead
    BY <2>2, <2>3, <2>4 DEF PeerDone
  <2> QED
    BY <2>5, <2>6
<1>2. ASSUME NEW id \in DOMAIN conns, conns[id].status = "PENDING_ERROR"
      PROVE  \/ id \in DOMAIN sock_timer /\ timers[sock_timer[id]] = "onSendMessageError"
             \/ pc = "client" /\ cb = [kind |-> "error", id |-> id]
  <2>1. V(id).timer = "onSendMessageError" \/ ErrorRuns(id)
    BY <1>2, ViewsAreGood DEF TcpInv, ClosingFits
  <2>2. V(id).timer = IF id \in DOMAIN sock_timer THEN timers[sock_timer[id]] ELSE None
    BY DEF V, View, Core
  <2> QED
    BY <2>1, <2>2, LoopAssumption DEF ErrorRuns, TimerHandlers
<1>3. DataBeforeClose
  BY <1>1 DEF DataBeforeClose
<1>4. ErrorWillBeReported
  BY <1>2 DEF ErrorWillBeReported
<1> QED
  BY <1>3, <1>4

\* The members of the service and of its connections keep their types, and every
\* socket has its own address.
THEOREM TypeCorrect == Spec => []TypeOK
BY Invariant, TypesFollow, PTL

\* The two timer maps and the active timers agree, and each timer is about what its
\* socket is doing, through every order of connecting, failing, pausing, expiring and
\* closing.
THEOREM TimersAgree == Spec => [](TimerMapsAgree /\ TimerIsCurrent)
BY Invariant, TimersFollow, PTL

\* With a client that closes a socket in its error and peer close callbacks, no failed
\* send is left without a report either.
THEOREM TimersStayInStep ==
  ASSUME MustClose
  PROVE  Spec => []TimersInStep
<1>1. TcpInv => TimersInStep
  BY TypesFollow, TimersFollow, ClosingFollows DEF TimersInStep
<1> QED
  BY <1>1, Invariant, PTL

\* The device waits for EPOLLOUT to write exactly while bytes are buffered.
THEOREM WritesWhileBuffered == Spec => []WriteInterest
<1>1. TcpInv => WriteInterest
  BY BuffersFollow
<1> QED
  BY <1>1, Invariant, PTL

\* The kernel gets the bytes of sendMessage's messages in the order of the calls, none
\* twice and none left out, over any number of messages, partial sends and connections.
THEOREM SentInOrder == Spec => []SendStreamFifo
<1>1. TcpInv => SendStreamFifo
  BY BuffersFollow
<1> QED
  BY <1>1, Invariant, PTL

\* setSendBufferMaxSize bounds what is buffered on every path of sendMessage, whatever
\* the limit.
THEOREM WriteLimitHolds == Spec => []WriteLimit
<1>1. TcpInv => WriteLimit
  BY BuffersFollow
<1> QED
  BY <1>1, Invariant, PTL

\* setRecvBufferMaxSize bounds what onSocketRead buffers, whatever the limit.
THEOREM ReadLimitHolds == Spec => []ReadLimit
<1>1. TcpInv => ReadLimit
  BY BuffersFollow
<1> QED
  BY <1>1, Invariant, PTL

\* No callback clears one that an event of the same batch is going to call.
THEOREM CalledIsSet == Spec => []NoNullCall
<1>1. TcpInv => NoNullCall
  BY ReportsFollow
<1> QED
  BY <1>1, Invariant, PTL

\* A callback of the client starts on a connection that is open.
THEOREM CalledBackWhileOpen == Spec => []CallbackIsLive
<1>1. TcpInv => CallbackIsLive
  BY ReportsFollow
<1> QED
  BY <1>1, Invariant, PTL

\* The peer close callback has a cause: the peer is gone, or the buffer is full.
THEOREM ClosedForCause == Spec => []PeerCloseHasCause
<1>1. TcpInv => PeerCloseHasCause
  BY ReportsFollow
<1> QED
  BY <1>1, Invariant, PTL

\* A client that closes what has failed has been given, before its peer close
\* callback, everything the peer sent that fits the buffer.
THEOREM DataComesFirst ==
  ASSUME MustClose
  PROVE  Spec => []DataBeforeClose
<1>1. TcpInv => DataBeforeClose
  BY ClosingFollows
<1> QED
  BY <1>1, Invariant, PTL

-----------------------------------------------------------------------------
(* The listening socket while connections are accepted *)

\* With a client that does not close the listening socket in the callback for a
\* connection it accepted, the socket outlives the loop of onListenSocketRead.
ListenerHeld == InAccept => hid \in DOMAIN sockets

\* Sending closes connections only, and no connection is a listening socket.
LEMMA SendSparesListener ==
  ASSUME TcpInv, ListenerHeld, InAccept, NEW id, NEW size \in Nat,
         NEW sccb \in {None, "close"}, Become(sendMessage(Core, id, size, sccb))
  PROVE  hid \in DOMAIN sockets'
<1> DEFINE T == sendMessage(Core, id, size, sccb)
<1>1. hid \in DOMAIN sockets /\ V(hid).conn.status = "LISTENING"
  BY DEF ListenerHeld, TcpInv, HandlerFits
<1>2. hid \notin DOMAIN conns
  BY <1>1, ViewsAreGood
<1>3. T = Core \/ (id \in DOMAIN Core.conns /\ SendResult(Core, T, id, sccb))
  BY SendKeeps DEF TcpInv
<1>4. Become(T)
  OBVIOUS
<1> HIDE DEF T
<1>5. T.sockets = sockets' /\ Core.conns = conns /\ Core.sockets = sockets
  BY <1>4 DEF Become, Core
<1>6. hid \in Ids(T)
  BY <1>1, <1>2, <1>3, <1>5 DEF SendResult, Changed, Closed, Ids
<1> QED
  BY <1>5, <1>6 DEF Ids

\* No call of such a client takes it away.
LEMMA ClientSparesListener ==
  ASSUME "closeListener" \notin ClientOps, TcpInv, ListenerHeld, ClientCalls, InAccept
  PROVE  hid \in DOMAIN sockets'
<1>1. pc = "client" /\ then = "accept" /\ hid \in DOMAIN sockets
  <2>1. pc = "client"
    BY DEF ClientCalls, ClientSends, ClientSendsLast, ClientCloses, ClientBroadcasts,
           ClientListens, ClientConnects, ClientConnectsAsync, ClientReads, ClientCall, Calls
  <2> QED
    BY <2>1 DEF InAccept, ListenerHeld
<1>2. ASSUME NEW id, NEW n \in SendSizes, ClientSends(id, n) \/ ClientSendsLast(id, n)
      PROVE  hid \in DOMAIN sockets'
  BY <1>2, SendSparesListener, TcpAssumption DEF ClientSends, ClientSendsLast
<1>3. ASSUME NEW id, ClientCloses(id)
      PROVE  hid \in DOMAIN sockets'
  <2>1. id # hid /\ Become(closeSocket(Core, id))
    BY <1>1, <1>3 DEF ClientCloses
  <2>2. closeSocket(Core, id).sockets = sockets'
    BY <2>1 DEF Become
  <2>3. Closed(Core, closeSocket(Core, id), id) \/ closeSocket(Core, id) = Core
    BY CloseCloses, CloseUnknown DEF TcpInv, CoreInv
  <2>4. Ids(Core) = DOMAIN sockets
    BY DEF Core, Ids
  <2> QED
    BY <1>1, <2>1, <2>2, <2>3, <2>4 DEF Closed, Ids
<1>4. ASSUME NEW n \in SendSizes, ClientBroadcasts(n)
      PROVE  hid \in DOMAIN sockets'
  BY <1>1, <1>4 DEF ClientBroadcasts, coreVars
<1>5. ASSUME NEW p \in Ptrs, \/ ClientListens(p) \/ ClientConnects(p)
                             \/ \E timeout \in BOOLEAN : ClientConnectsAsync(p, timeout)
      PROVE  hid \in DOMAIN sockets'
  <2>1. /\ next_id \in Nat \ {0} /\ next_id \notin Ids(Core) /\ p \notin DOMAIN Core.dev
        /\ CoreInv(Core)
    BY <1>5, NextIdIsNew DEF ClientListens, ClientConnects, ClientConnectsAsync, TcpInv
  <2>2. \E T, w : Opened(Core, T, next_id, w) /\ Become(T)
    <3>1. CASE ClientListens(p)
      BY <2>1, <3>1, ListenKeeps DEF ClientListens
    <3>2. CASE ClientConnects(p)
      BY <2>1, <3>2, ConnectKeeps DEF ClientConnects
    <3>3. ASSUME NEW timeout \in BOOLEAN, ClientConnectsAsync(p, timeout)
          PROVE  \E T, w : Opened(Core, T, next_id, w) /\ Become(T)
      BY <2>1, <3>3, ConnectAsyncKeeps DEF ClientConnectsAsync
    <3> QED
      BY <1>5, <3>1, <3>2, <3>3
  <2>3. PICK T, w : Opened(Core, T, next_id, w) /\ Become(T)
    BY <2>2
  <2>4. T.sockets = sockets' /\ Core.sockets = sockets
    BY <2>3 DEF Become, Core
  <2> QED
    BY <1>1, <2>3, <2>4 DEF Opened, Ids
<1>6. ASSUME ClientReads
      PROVE  hid \in DOMAIN sockets'
  <2>1. sockets' = sockets
    BY <1>6 DEF ClientReads, Become, Core
  <2> QED
    BY <1>1, <2>1
<1> QED
  BY <1>2, <1>3, <1>4, <1>5, <1>6 DEF ClientCalls

\* No handler takes it away either.
LEMMA HandlersSpareListener ==
  ASSUME TcpInv, ListenerHeld, EventHandler
  PROVE  ListenerHeld'
<1>1. CASE onListenSocketRead
  <2>1. Handler("onListenSocketRead") /\ "onListenSocketRead" \in Handlers
    BY <1>1 DEF onListenSocketRead, Handlers
  <2>2. Self \in Ids(Core)
    BY <2>1, HandlerRuns, HandlerFor
  <2>3. hid' = Self /\ sockets' = sockets
    BY <1>1 DEF onListenSocketRead, coreVars
  <2> QED
    BY <2>2, <2>3 DEF ListenerHeld, Ids, Core
<1>2. ASSUME NEW p \in Ptrs, AcceptOne(p)
      PROVE  ListenerHeld'
  <2> DEFINE S == [Core EXCEPT !.net[hid].backlog = @ - 1]
             c == Socket("onSocketRead", None)
             U == NewSocket(S, p, c, NewNet("up"))
             T == NewConnection(S, p, c, NewNet("up"), "CONNECTED")
  <2>1. hid \in DOMAIN sockets /\ hid' = hid
    BY <1>2 DEF AcceptOne, Accepting
  <2>2. sockets' = T.sockets
    BY <1>2 DEF AcceptOne, Become, buildConnectedSocket
  <2>3. S.sockets = sockets
    BY DEF Core
  <2>4. U.sockets = Put(S.sockets, next_id, p)
    <3>1. S = [dev |-> S.dev, removed |-> S.removed, sockets |-> S.sockets,
               conns |-> S.conns, timers |-> S.timers, sock_timer |-> S.sock_timer,
               timer_sock |-> S.timer_sock, net |-> S.net]
      BY DEF Core
    <3> HIDE DEF S
    <3> QED
      BY <3>1 DEF NewSocket
  <2>5. T.sockets = U.sockets
    BY DEF NewConnection, NewSocket
  <2> HIDE DEF S, U, T
  <2> QED
    BY <2>1, <2>2, <2>3, <2>4, <2>5 DEF ListenerHeld, Put
<1>3. CASE AcceptAborted
  <2>1. hid \in DOMAIN sockets /\ hid' = hid
    BY <1>3 DEF AcceptAborted, Accepting
  <2>2. sockets' = sockets
    BY <1>3 DEF AcceptAborted, Become, Core
  <2> QED
    BY <2>1, <2>2 DEF ListenerHeld
<1>4. CASE AcceptEnds \/ AcceptUnattached \/ AcceptNoFd
  BY <1>4 DEF AcceptEnds, AcceptUnattached, AcceptNoFd, Return, ListenerHeld, InAccept
<1>5. CASE onAsyncConnectSocketWrite \/ onSocketWrite \/ onSocketError
  BY <1>5 DEF onAsyncConnectSocketWrite, onSocketWrite, onSocketError, ReportError,
              EnterClient, Return, ListenerHeld, InAccept
<1>6. CASE onSocketRead \/ ReadSome \/ ReadFails \/ ReadEnds
  BY <1>6 DEF onSocketRead, ReadSome, ReadFails, ReadEnds, ReportError, PeerClosed,
              EnterClient, Return, ListenerHeld, InAccept
<1> QED
  BY <1>1, <1>2, <1>3, <1>4, <1>5, <1>6 DEF EventHandler

\* Every step keeps the listening socket that is in use.
LEMMA ListenerStep ==
  ASSUME "closeListener" \notin ClientOps
  PROVE  TcpInv /\ ListenerHeld /\ [Next]_vars => ListenerHeld'
<1> SUFFICES ASSUME TcpInv, ListenerHeld, [Next]_vars PROVE ListenerHeld'
  OBVIOUS
<1>1. CASE Service
  <2>1. CASE LoopStep \/ EndPass
    BY <2>1 DEF LoopStep, EndPass, serviceVars, ListenerHeld, InAccept
  <2>2. CASE EventHandler
    BY <2>2, HandlersSpareListener
  <2>3. ASSUME NEW id \in casting.left, BroadcastTo(id)
        PROVE  ListenerHeld'
    <3>1. casting.size \in Nat /\ UNCHANGED <<pc, then, hid>>
      BY <2>3 DEF TcpInv, TurnsFit, BroadcastTo
    <3>2. InAccept => hid \in DOMAIN sockets'
      BY <2>3, <3>1, SendSparesListener DEF BroadcastTo
    <3> QED
      BY <3>1, <3>2 DEF ListenerHeld, InAccept
  <2>4. CASE MainReturns
    BY <2>4 DEF MainReturns, ListenerHeld, InAccept
  <2>5. CASE ClientReturns
    BY <2>5 DEF ClientReturns, Return, PeerClosed, EnterClient, coreVars, ListenerHeld, InAccept
  <2> QED
    BY <1>1, <2>1, <2>2, <2>3, <2>4, <2>5 DEF Service
<1>2. CASE \E t \in TimerIds : FireTimer(t)
  BY <1>2 DEF FireTimer, ReportError, EnterClient, ListenerHeld, InAccept
<1>3. CASE UserTimer
  BY <1>3 DEF UserTimer, EnterClient, ListenerHeld, InAccept
<1>4. CASE ClientCalls
  <2>1. UNCHANGED <<pc, then, hid>>
    BY <1>4 DEF ClientCalls, ClientSends, ClientSendsLast, ClientCloses, ClientBroadcasts,
                ClientListens, ClientConnects, ClientConnectsAsync, ClientReads,
                ClientCall, Calls
  <2> QED
    BY <1>4, <2>1, ClientSparesListener DEF ListenerHeld, InAccept
<1>5. CASE \E id \in DOMAIN net : Peer(id)
  <2>1. UNCHANGED <<pc, then, hid, sockets>>
    BY <1>5 DEF Peer, PeerConnects, PeerAnswers, PeerSends, PeerCloses, PeerResets,
                RoomOpens, Change, ctlVars
  <2> QED
    BY <2>1 DEF ListenerHeld, InAccept
<1>6. CASE UNCHANGED vars
  BY <1>6 DEF vars, ctlVars, ListenerHeld, InAccept
<1> QED
  BY <1>1, <1>2, <1>3, <1>4, <1>5, <1>6 DEF Next

\* onListenSocketRead uses listen_socket only while it exists, unless the client closes
\* that socket in the callback for a connection accepted on it.
THEOREM ListenerStaysOpen ==
  ASSUME "closeListener" \notin ClientOps
  PROVE  Spec => []ListenerInUseIsOpen
<1>1. Init => ListenerHeld
  BY DEF Init, ListenerHeld, InAccept
<1>2. TcpInv /\ ListenerHeld /\ [Next]_vars => ListenerHeld'
  BY ListenerStep
<1>3. ListenerHeld => ListenerInUseIsOpen
  BY DEF ListenerHeld, InAccept, ListenerInUseIsOpen
<1> QED
  BY <1>1, <1>2, <1>3, Invariant, PTL DEF Spec
=============================================================================
