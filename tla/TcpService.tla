----------------------------- MODULE TcpService -----------------------------
(***************************************************************************)
(* tcp_service.cc on the event loop of io_service.cc: sockets and          *)
(* connections by id, their callbacks on the loop, the socket timers, and  *)
(* the client's code, which runs in the service's callbacks and calls back *)
(* into it.  Everything happens on the loop's thread; the kernel and the   *)
(* peers act between any two steps.                                        *)
(*                                                                         *)
(* A handler that calls the client in the middle is split there: pc says   *)
(* which code runs, and "then" what is left of the handler when the client *)
(* returns.  Bytes sent are numbered per connection; bytes received are    *)
(* counted.  Timers are one-shot and fire in some later pass of            *)
(* checkTimeout, as TimerService allows.                                   *)
(***************************************************************************)
EXTENDS Integers, Sequences, FiniteSets

CONSTANTS
    Ptrs,           \* addresses at which a TcpSocket can be allocated
    None,           \* an empty Function
    EventsInit,     \* initial size of the loop's events_
    IdBound,        \* sockets created in a behaviour
    TimerIds,       \* ids of timers
    MaxRead,        \* conn_read_buffer_max_size_, 0 for no limit
    MaxWrite,       \* conn_write_buffer_max_size_, 0 for no limit
    AcceptPause,    \* accept_pause_time_when_exceed_open_file_limit_ > 0
    ClientOps,      \* what the client's code may do
    SendSizes,      \* sizes of the client's messages
    MustClose,      \* the client closes a socket in its error and peer close
                    \* callbacks, as every program under test/ does
    CallBound,      \* calls the client makes in one callback
    SendBound,      \* bytes sent on one connection
    RecvBound,      \* bytes a peer sends on one connection
    RoomBound,      \* bytes of room in a kernel send buffer
    PeerBound,      \* peers that have not been accepted
    PeerOps         \* what peers may do: "connect", "send", "close", "reset"

ASSUME TcpAssumption ==
    /\ IdBound \in Nat /\ CallBound \in Nat
    /\ MaxRead \in Nat /\ MaxWrite \in Nat
    /\ SendBound \in Nat /\ RecvBound \in Nat /\ RoomBound \in Nat /\ PeerBound \in Nat
    /\ SendSizes \subseteq Nat \ {0}
    /\ AcceptPause \in BOOLEAN /\ MustClose \in BOOLEAN

\* There are more timer ids than sockets: a socket has one timer at most.
ASSUME TimerIdAssumption ==
    /\ TimerIds # {}
    /\ \A f \in [Ptrs -> TimerIds] : \E t \in TimerIds : \A p \in Ptrs : f[p] # t

VARIABLES
    dev, removed, events, call, loop, quit, event_count, events_size,
    next_id,        \* SocketIdAllocator: the next socket id
    sockets,        \* sockets_: id -> address
    conns,          \* connections_: id -> [status, rbuf, fresh, wbuf, sccb]
    timers,         \* the service's active timers in the IOService: id -> handler
    sock_timer,     \* socket_to_timer_map_
    timer_sock,     \* timer_to_socket_map_
    net,            \* the kernel's and the peer's side of each open socket
    pc,             \* "loop", "accept" or "read" (in the loop of that handler),
                    \* or "client" (in the client's code)
    cb,             \* the client callback that runs: [kind, id]
    then,           \* what follows it: "return", "accept", "peerClose", "start"
    hid,            \* the socket id of the handler that is split
    data,           \* onSocketRead's data_arrive
    budget,         \* calls left to the client in this callback
    casting,        \* what broadcastMessage has still to send: [left, size]
    ticked          \* a timer of the client has fired in this pass

ioVars == <<dev, removed, events, call, loop, quit, event_count, events_size>>
coreVars == <<dev, removed, sockets, conns, timers, sock_timer, timer_sock, net>>
loopVars == <<events, quit, event_count, events_size, ticked>>
ctlVars == <<pc, cb, then, hid, data, budget, casting, ticked>>
vars == <<ioVars, next_id, sockets, conns, timers, sock_timer, timer_sock, net,
          ctlVars>>

Handlers == {"onListenSocketRead", "onAsyncConnectSocketWrite", "onSocketRead",
             "onSocketWrite", "onSocketError"}
TimerHandlers == {"onListenSocketResumeRead", "onAsyncConnectTimeout", "onSendMessageError"}

ASSUME LoopAssumption ==
    /\ EventsInit \in Nat \ {0}
    /\ IsFiniteSet(Ptrs)
    /\ None \notin Handlers \cup TimerHandlers \cup {"close"}

IO == INSTANCE IOService WITH Callbacks <- Handlers

EmptyMap == [x \in {} |-> 0]
Put(f, k, v) == [x \in DOMAIN f \cup {k} |-> IF x = k THEN v ELSE f[x]]
Drop(f, k) == [x \in DOMAIN f \ {k} |-> f[x]]
Least(m, n) == IF m < n THEN m ELSE n
Greatest(m, n) == IF m > n THEN m ELSE n

-----------------------------------------------------------------------------
(* The service's data, as one record S that its operations transform *)

Core == [dev |-> dev, removed |-> removed, sockets |-> sockets, conns |-> conns,
         timers |-> timers, sock_timer |-> sock_timer, timer_sock |-> timer_sock,
         net |-> net]

Become(S) ==
    /\ dev' = S.dev
    /\ removed' = S.removed
    /\ sockets' = S.sockets
    /\ conns' = S.conns
    /\ timers' = S.timers
    /\ sock_timer' = S.sock_timer
    /\ timer_sock' = S.timer_sock
    /\ net' = S.net

SetCallback(S, id, bit, c) == [S EXCEPT !.dev[S.sockets[id]].cb[bit] = c]

SetError(S, id) == [S EXCEPT !.conns[id].status = "PENDING_ERROR"]

\* Timer ids are never used again while anything remembers them.
FreshTimer(S) ==
    CHOOSE t \in TimerIds :
        /\ t \notin DOMAIN S.timers \cup DOMAIN S.timer_sock
        /\ \A id \in DOMAIN S.sock_timer : S.sock_timer[id] # t

\* (mutant) a timer is noted that was never started
addSocketTimerNotStarted(S, id, handler) ==
    LET t == FreshTimer(S)
    IN  [S EXCEPT !.sock_timer = Put(@, id, t), !.timer_sock = Put(@, t, id)]

addSocketTimer(S, id, handler) ==
    LET t == FreshTimer(S)
    IN  [S EXCEPT !.timers = Put(@, t, handler),
                  !.sock_timer = Put(@, id, t),
                  !.timer_sock = Put(@, t, id)]

removeSocketTimer(S, id) ==
    IF id \notin DOMAIN S.sock_timer THEN S
    ELSE [S EXCEPT !.sock_timer = Drop(@, id),
                   !.timer_sock = Drop(@, S.sock_timer[id]),
                   !.timers = Drop(@, S.sock_timer[id])]

\* (mutants) closeSocket leaves the timer, the connection, or does not tell the
\* loop that the device is gone.
closeSocketKeepsTimer(S, id) ==
    IF id \notin DOMAIN S.sockets THEN S
    ELSE [S EXCEPT !.conns = Drop(@, id), !.sockets = Drop(@, id), !.net = Drop(@, id),
                   !.dev = Drop(@, S.sockets[id]), !.removed = @ \cup {S.sockets[id]}]

closeSocketNotDetached(S, id) ==
    LET T == removeSocketTimer(S, id)
    IN  IF id \notin DOMAIN S.sockets THEN T
        ELSE [T EXCEPT !.conns = Drop(@, id), !.sockets = Drop(@, id), !.net = Drop(@, id),
                       !.dev = Drop(@, S.sockets[id])]

\* closeSocket; ~TcpSocket detaches the device and closes the descriptor.
closeSocket(S, id) ==
    LET T == removeSocketTimer(S, id)
    IN  IF id \notin DOMAIN S.sockets THEN T
        ELSE [T EXCEPT !.conns = Drop(@, id),
                       !.sockets = Drop(@, id),
                       !.dev = Drop(@, S.sockets[id]),
                       !.removed = @ \cup {S.sockets[id]},
                       !.net = Drop(@, id)]

-----------------------------------------------------------------------------
(* The kernel's side of a socket *)

NewNet(link) ==
    [link |-> link,         \* "listen", "pending", "up" or "refused"
     backlog |-> 0,         \* connections to accept
     inq |-> 0,             \* bytes received and not read
     recvd |-> 0,           \* bytes received in all
     fin |-> FALSE,         \* the peer has closed its side
     rst |-> FALSE,         \* the connection was reset
     soerr |-> FALSE,       \* SO_ERROR is set
     room |-> RoomBound,    \* room in the send buffer
     wire |-> <<>>,         \* the bytes taken from the service
     accepted |-> 0]        \* bytes of messages sendMessage has taken charge of

\* What epoll has to report of a socket.
Ready(n) ==
    (IF \/ n.link = "listen" /\ n.backlog > 0
        \/ n.link = "up" /\ (n.inq > 0 \/ n.fin \/ n.rst)
     THEN {"in"} ELSE {})
    \cup
    (IF \/ n.link = "refused"
        \/ n.link = "up" /\ (n.room > 0 \/ n.rst)
     THEN {"out"} ELSE {})
    \cup
    (IF \/ n.link = "refused"
        \/ n.link = "up" /\ n.rst
     THEN {"err"} ELSE {})

\* send() of bytes on an established socket that was not reset.
KernelSend(n, bytes) ==
    LET k == Least(n.room, Len(bytes))
    IN  [n EXCEPT !.room = @ - k, !.wire = @ \o SubSeq(bytes, 1, k)]

Change(id, n) ==
    /\ net' = [net EXCEPT ![id] = n]
    /\ UNCHANGED <<ioVars, next_id, sockets, conns, timers, sock_timer, timer_sock,
                   ctlVars>>

PeerConnects(id) ==
    /\ net[id].link = "listen"
    /\ net[id].backlog < PeerBound
    /\ Change(id, [net[id] EXCEPT !.backlog = @ + 1])

PeerAnswers(id) ==
    /\ net[id].link = "pending"
    /\ \E l \in {"up", "refused"} :
        Change(id, [net[id] EXCEPT !.link = l, !.soerr = (l = "refused")])

PeerSends(id) ==
    /\ net[id].link = "up"
    /\ ~net[id].fin /\ ~net[id].rst
    /\ net[id].recvd < RecvBound
    /\ Change(id, [net[id] EXCEPT !.inq = @ + 1, !.recvd = @ + 1])

PeerCloses(id) ==
    /\ net[id].link = "up"
    /\ ~net[id].fin /\ ~net[id].rst
    /\ Change(id, [net[id] EXCEPT !.fin = TRUE])

PeerResets(id) ==
    /\ net[id].link = "up"
    /\ ~net[id].rst
    /\ Change(id, [net[id] EXCEPT !.rst = TRUE, !.soerr = TRUE])

\* The peer acknowledges what it was sent.
RoomOpens(id) ==
    /\ net[id].link = "up"
    /\ ~net[id].rst
    /\ net[id].room = 0
    /\ Change(id, [net[id] EXCEPT !.room = RoomBound])

Peer(id) ==
    \/ "connect" \in PeerOps /\ PeerConnects(id)
    \/ PeerAnswers(id)
    \/ "send" \in PeerOps /\ PeerSends(id)
    \/ "close" \in PeerOps /\ PeerCloses(id)
    \/ "reset" \in PeerOps /\ PeerResets(id)
    \/ RoomOpens(id)

-----------------------------------------------------------------------------
(* Sending *)

\* sendMessage(connection, ...): what is left of a message once the kernel has
\* taken what it can goes to the write buffer; a failure is reported later, by
\* a timer, and never from inside this call.  sccb is what to do when all is
\* sent: None, or "close" for sendMessageThenClose.
FailLaterUnreported(S, id) == SetError(S, id)   \* (mutant)

FailLater(S, id) == addSocketTimer(SetError(S, id), id, "onSendMessageError")

\* (mutant) what is already buffered is forgotten
OverflowsIgnoringBuffered(S, id, size) == MaxWrite > 0 /\ size > MaxWrite

Overflows(S, id, size) == MaxWrite > 0 /\ size + Len(S.conns[id].wbuf) > MaxWrite

\* (mutant) the buffer is written from its start
BufferOverwritten(S, id, bytes, sccb) ==
    [S EXCEPT !.conns[id].wbuf = bytes, !.conns[id].sccb = sccb]

Buffer(S, id, bytes, sccb) ==
    [S EXCEPT !.conns[id].wbuf = @ \o bytes, !.conns[id].sccb = sccb]

\* The write buffer is empty: send() at once and buffer the rest.
SendDirectly(S, id, bytes, sccb) ==
    LET n == S.net[id]
        sent == KernelSend(n, bytes)
        taken == Len(sent.wire) - Len(n.wire)
        rest == SubSeq(bytes, taken + 1, Len(bytes))
        T(m) == [S EXCEPT !.net[id] = [sent EXCEPT !.accepted = @ + m]]
    IN  IF n.rst THEN FailLater([S EXCEPT !.net[id].soerr = FALSE], id)
        ELSE IF rest = <<>>
        THEN IF sccb = "close" THEN closeSocket(T(taken), id) ELSE T(taken)
        ELSE IF Overflows(S, id, Len(rest)) THEN FailLater(T(taken), id)
        ELSE SetCallback(Buffer(T(Len(bytes)), id, rest, sccb), id, "out", "onSocketWrite")

sendMessage(S, id, size, sccb) ==
    LET bytes == [i \in 1..size |-> S.net[id].accepted + i]
    IN  IF id \notin DOMAIN S.conns \/ S.conns[id].status # "CONNECTED" THEN S
        ELSE IF S.conns[id].wbuf = <<>> THEN SendDirectly(S, id, bytes, sccb)
        ELSE IF Overflows(S, id, size) THEN FailLater(S, id)
        ELSE Buffer([S EXCEPT !.net[id].accepted = @ + size], id, bytes, sccb)

-----------------------------------------------------------------------------
(* The client's code and the returns of handlers *)

\* A callback of the client starts; what follows it is nextStep.
EnterClient(kind, id, nextStep) ==
    /\ pc' = "client"
    /\ cb' = [kind |-> kind, id |-> id]
    /\ then' = nextStep
    /\ budget' = CallBound
    /\ UNCHANGED <<loop, call>>

\* Handlers leave alone what only the loop and allocation change.
Step == UNCHANGED <<next_id, loopVars, casting>>

NoClient == [kind |-> "none", id |-> 0]

\* The callback of the loop, or of a timer, returns.
Return ==
    /\ pc' = "loop"
    /\ cb' = NoClient
    /\ then' = "return"
    /\ hid' = 0
    /\ data' = FALSE
    /\ budget' = 0
    /\ loop' = IF loop = "call" THEN "dispatch" ELSE loop
    /\ call' = IO!NoCall

\* broadcastMessage has not returned.
Casting == casting.left # {}
NoCast == [left |-> {}, size |-> 0]
Cast(ids, size) == IF ids = {} THEN NoCast ELSE [left |-> ids, size |-> size]

\* A client call into the service, which leaves control with the client.
Calls(kind) ==
    /\ kind \in ClientOps
    /\ pc = "client"
    /\ ~Casting
    /\ budget > 0
    /\ budget' = budget - 1
    /\ UNCHANGED <<loop, call, loopVars, pc, cb, then, hid, data>>

ClientCall(kind) == Calls(kind) /\ UNCHANGED casting

ClientSends(id, size) ==
    /\ ClientCall("send")
    /\ id \in DOMAIN conns => net[id].accepted + size <= SendBound
    /\ Become(sendMessage(Core, id, size, None))
    /\ UNCHANGED next_id

\* sendMessageThenClose
ClientSendsLast(id, size) ==
    /\ ClientCall("sendThenClose")
    /\ id \in DOMAIN conns => net[id].accepted + size <= SendBound
    /\ Become(sendMessage(Core, id, size, "close"))
    /\ UNCHANGED next_id

\* broadcastMessage: its loop visits the connections in some order, and no call
\* it makes adds or removes one.
ClientBroadcasts(size) ==
    /\ Calls("broadcast")
    /\ \A id \in DOMAIN conns : net[id].accepted + size <= SendBound
    /\ casting' = Cast(DOMAIN conns, size)
    /\ UNCHANGED <<coreVars, next_id>>

BroadcastTo(id) ==
    /\ Become(sendMessage(Core, id, casting.size, None))
    /\ casting' = Cast(casting.left \ {id}, casting.size)
    /\ UNCHANGED <<next_id, loop, call, loopVars, pc, cb, then, hid, data, budget>>

\* closeSocket on any id the client ever got, open or closed; a listening
\* socket is closed in the callback for a connection it accepted only when
\* ClientOps says so.
ClientCloses(id) ==
    /\ ClientCall("close")
    /\ then = "accept" /\ id = hid => "closeListener" \in ClientOps
    /\ Become(closeSocket(Core, id))
    /\ UNCHANGED next_id

\* A TcpSocket allocated at p gets the next id and the callbacks c.
NewSocket(S, p, c, n) ==
    [S EXCEPT !.dev = IO!WithDevice(@, p, next_id, c),
              !.sockets = Put(@, next_id, p),
              !.net = Put(@, next_id, n)]

NewConnection(S, p, c, n, status) ==
    LET T == NewSocket(S, p, c, n)
    IN  [T EXCEPT !.conns = Put(@, next_id,
            [status |-> status, rbuf |-> 0, fresh |-> 0, wbuf |-> <<>>, sccb |-> None])]

Socket(inCb, outCb) ==
    [IO!NoCallbacks EXCEPT !["in"] = inCb, !["out"] = outCb, !["err"] = "onSocketError"]

\* socket_id_allocator_.getId and an address not in use.
Allocate(p) ==
    /\ next_id <= IdBound
    /\ p \notin DOMAIN dev
    /\ next_id' = next_id + 1

buildConnectedSocket(S, p) ==
    NewConnection(S, p, Socket("onSocketRead", None), NewNet("up"), "CONNECTED")

\* listen and shareListen: buildListenSocket
ClientListens(p) ==
    /\ ClientCall("listen")
    /\ Allocate(p)
    /\ Become(NewSocket(Core, p, Socket("onListenSocketRead", None), NewNet("listen")))

\* connect, and asyncConnect that completes at once
ClientConnects(p) ==
    /\ ClientCall("connect")
    /\ Allocate(p)
    /\ Become(buildConnectedSocket(Core, p))

\* asyncConnect in progress: buildAsyncConnectSocket
ClientConnectsAsync(p, timeout) ==
    /\ ClientCall("asyncConnect")
    /\ Allocate(p)
    /\ LET S == NewConnection(Core, p, Socket(None, "onAsyncConnectSocketWrite"),
                              NewNet("pending"), "CONNECTING")
       IN  Become(IF timeout
                  THEN addSocketTimer(S, next_id, "onAsyncConnectTimeout") ELSE S)

\* The client takes what it wants of the read buffer in its receive callback.
ClientReads ==
    /\ ClientCall("read")
    /\ cb.kind = "recv"
    /\ cb.id \in DOMAIN conns
    /\ Become([Core EXCEPT !.conns[cb.id].rbuf = 0])
    /\ UNCHANGED next_id

\* onSocketRead's end, when the peer has closed.
PeerClosed(S, id) ==
    /\ Become([S EXCEPT !.conns[id].status = "PEER_CLOSED"])
    /\ EnterClient("peerClose", id, "return")
    /\ UNCHANGED <<hid, data>>

\* "check recv message callback closed socket or not"
StillOpenUnchecked(id) == TRUE  \* (mutant)
StillOpen(id) == id \in DOMAIN conns

\* What the client has left to do when its callback returns.
AfterClient ==
    IF MustClose /\ cb.kind \in {"error", "peerClose"}
    THEN closeSocket(Core, cb.id) ELSE Core

\* main() calls loop() once it is set up.
MainReturns ==
    /\ pc = "client"
    /\ ~Casting
    /\ then = "start"
    /\ IO!LoopStart
    /\ pc' = "loop"
    /\ cb' = NoClient
    /\ then' = "return"
    /\ budget' = 0
    /\ UNCHANGED <<next_id, sockets, conns, timers, sock_timer, timer_sock, net,
                   hid, data, casting, ticked>>

\* A callback of the client returns to the handler that called it.
ClientReturns ==
    /\ pc = "client"
    /\ ~Casting
    /\ \/ /\ then = "return"
          /\ Return
          /\ Become(AfterClient)
       \/ /\ then = "accept"
          /\ pc' = "accept"
          /\ cb' = NoClient
          /\ then' = "return"
          /\ budget' = 0
          /\ UNCHANGED <<coreVars, loop, call, hid, data>>
       \/ /\ then = "peerClose"
          /\ StillOpen(hid)
          /\ PeerClosed(Core, hid)
       \/ /\ then = "peerClose"
          /\ ~StillOpen(hid)
          /\ Return
          /\ UNCHANGED coreVars
    /\ Step

ClientCalls ==
    \/ \E id \in 1..next_id - 1 :
        \/ \E n \in SendSizes : ClientSends(id, n) \/ ClientSendsLast(id, n)
        \/ ClientCloses(id)
    \/ \E n \in SendSizes : ClientBroadcasts(n)
    \/ \E p \in Ptrs :
        \/ ClientListens(p)
        \/ ClientConnects(p)
        \/ \E timeout \in BOOLEAN : ClientConnectsAsync(p, timeout)
    \/ ClientReads

-----------------------------------------------------------------------------
(* Event callbacks.  The loop has called call.cb on the socket at call.ptr. *)

Handler(h) == loop = "call" /\ pc = "loop" /\ call.cb = h

\* static_cast<TcpSocket *>(io_device)->getId()
Self == dev[call.ptr].id

\* A handler, or a step of one, reports an error to the client and is done.
ReportError(S, id) ==
    /\ Become(SetError(S, id))
    /\ EnterClient("error", id, "return")
    /\ UNCHANGED <<hid, data>>

onListenSocketRead ==
    /\ Handler("onListenSocketRead")
    /\ pc' = "accept"
    /\ hid' = Self
    /\ UNCHANGED <<coreVars, loop, call, cb, then, data, budget>>
    /\ Step

\* The loop of onListenSocketRead is at accept() on listen_socket.
Accepting == pc = "accept" /\ hid \in DOMAIN sockets

AcceptOne(p) ==
    /\ Accepting
    /\ net[hid].backlog > 0
    /\ Allocate(p)
    /\ Become(buildConnectedSocket([Core EXCEPT !.net[hid].backlog = @ - 1], p))
    /\ EnterClient("new", next_id, "accept")
    /\ UNCHANGED <<loopVars, casting, hid, data>>

\* ECONNABORTED
AcceptAborted ==
    /\ Accepting
    /\ "abort" \in PeerOps
    /\ net[hid].backlog > 0
    /\ Become([Core EXCEPT !.net[hid].backlog = @ - 1])
    /\ UNCHANGED <<loop, call, pc, cb, then, hid, data, budget>>
    /\ Step

\* EAGAIN
AcceptEnds ==
    /\ Accepting
    /\ net[hid].backlog = 0
    /\ Return
    /\ UNCHANGED coreVars
    /\ Step

\* buildConnectedSocket fails: the socket cannot be attached to the loop.
AcceptUnattached ==
    /\ Accepting
    /\ "nofd" \in PeerOps \/ next_id > IdBound
    /\ net[hid].backlog > 0
    /\ Become([Core EXCEPT !.net[hid].backlog = @ - 1])
    /\ Return
    /\ Step

\* Not reading for a while prevents a busy loop.
PauseAcceptForGood(S, id) == SetCallback(S, id, "in", None)     \* (mutant)
PauseAccept(S, id) ==
    addSocketTimer(SetCallback(S, id, "in", None), id, "onListenSocketResumeRead")

\* EMFILE or ENFILE, or an error that is only logged
AcceptNoFd ==
    /\ Accepting
    /\ "nofd" \in PeerOps
    /\ net[hid].backlog > 0
    /\ \/ /\ AcceptPause
          /\ Become(PauseAccept(Core, hid))
       \/ UNCHANGED coreVars
    /\ Return
    /\ Step

\* The timeout timer is removed, and getSocketError clears SO_ERROR.
EndConnecting(S, id) == [removeSocketTimer(S, id) EXCEPT !.net[id].soerr = FALSE]

onAsyncConnectSocketWrite ==
    /\ Handler("onAsyncConnectSocketWrite")
    /\ LET id == Self
           S == EndConnecting(Core, id)
       IN  IF net[id].soerr
           THEN ReportError(S, id)
           ELSE LET T == SetCallback(SetCallback(S, id, "in", "onSocketRead"),
                                     id, "out", None)
                IN  /\ Become([T EXCEPT !.conns[id].status = "CONNECTED"])
                    /\ EnterClient("new", id, "return")
                    /\ UNCHANGED <<hid, data>>
    /\ Step

onSocketRead ==
    /\ Handler("onSocketRead")
    /\ pc' = "read"
    /\ hid' = Self
    /\ data' = FALSE
    /\ UNCHANGED <<coreVars, loop, call, cb, then, budget>>
    /\ Step

\* One turn of its loop.  FIONREAD and recv() are one step: what arrives between
\* them is read by the next turn.
ReadOverflowsIgnoringBuffered == MaxRead > 0 /\ net[hid].inq > MaxRead     \* (mutant)

ReadOverflows ==
    MaxRead > 0 /\ Greatest(1, net[hid].inq) + conns[hid].rbuf > MaxRead

ReadSome ==
    /\ pc = "read"
    /\ ~ReadOverflows
    /\ net[hid].inq > 0
    /\ data' = TRUE
    /\ Become([Core EXCEPT !.conns[hid].rbuf = @ + net[hid].inq,
                           !.conns[hid].fresh = @ + net[hid].inq,
                           !.net[hid].inq = 0])
    /\ UNCHANGED <<loop, call, pc, cb, then, hid, budget>>
    /\ Step

ReadFails ==
    /\ pc = "read"
    /\ ~ReadOverflows
    /\ net[hid].inq = 0
    /\ net[hid].soerr
    /\ ReportError([Core EXCEPT !.net[hid].soerr = FALSE], hid)
    /\ Step

\* peer_close: an overflow, or recv() returned 0
\* (mutants) EAGAIN is taken for the end; EPOLLRDHUP is taken for the end though
\* there is more to read.
ReadClosedByAgain == ReadOverflows \/ net[hid].inq = 0
ReadClosedEarly == ReadOverflows \/ net[hid].fin \/ net[hid].rst

ReadClosed ==
    \/ ReadOverflows
    \/ net[hid].inq = 0 /\ (net[hid].fin \/ net[hid].rst)

\* The loop is left, by EAGAIN unless ReadClosed.
ReadEnds ==
    /\ pc = "read"
    /\ \/ ReadClosed /\ (ReadOverflows \/ ~net[hid].soerr)
       \/ net[hid].inq = 0 /\ ~net[hid].soerr
    /\ \/ /\ data
          /\ Become([Core EXCEPT !.conns[hid].fresh = 0])
          /\ EnterClient("recv", hid, IF ReadClosed THEN "peerClose" ELSE "return")
          /\ UNCHANGED <<hid, data>>
       \/ /\ ~data
          /\ ReadClosed
          /\ PeerClosed(Core, hid)
       \/ /\ ~data
          /\ ~ReadClosed
          /\ Return
          /\ UNCHANGED coreVars
    /\ Step

\* The write buffer is empty: the send-complete callback is taken and called.
SentAllStillWaiting(S, id) ==   \* (mutant)
    IF S.conns[id].sccb = "close" THEN closeSocket(S, id) ELSE S

SentAll(S, id) ==
    IF S.conns[id].sccb = "close" THEN closeSocket(S, id)
    ELSE SetCallback(S, id, "out", None)

onSocketWrite ==
    /\ Handler("onSocketWrite")
    /\ LET id == Self
           n == KernelSend(net[id], conns[id].wbuf)
           left == SubSeq(conns[id].wbuf, Len(n.wire) - Len(net[id].wire) + 1,
                          Len(conns[id].wbuf))
           S == [Core EXCEPT !.net[id] = n, !.conns[id].wbuf = left]
       IN  IF net[id].rst
           THEN ReportError([Core EXCEPT !.net[id].soerr = FALSE], id)
           ELSE Become(IF left = <<>> THEN SentAll(S, id) ELSE S) /\ Return
    /\ Step

onSocketError ==
    /\ Handler("onSocketError")
    /\ IF Self \in DOMAIN conns
       THEN ReportError([Core EXCEPT !.net[Self].soerr = FALSE], Self)
       ELSE Return /\ UNCHANGED coreVars
    /\ Step

EventHandler ==
    \/ onListenSocketRead
    \/ \E p \in Ptrs : AcceptOne(p)
    \/ AcceptAborted \/ AcceptEnds \/ AcceptUnattached \/ AcceptNoFd
    \/ onAsyncConnectSocketWrite
    \/ onSocketRead \/ ReadSome \/ ReadFails \/ ReadEnds
    \/ onSocketWrite
    \/ onSocketError

-----------------------------------------------------------------------------
(* Timers *)

\* checkTimeout calls a timer of the service, which is removed first.
FireTimer(t) ==
    /\ loop = "timers"
    /\ pc = "loop"
    /\ t \in DOMAIN timers \cap DOMAIN timer_sock
    /\ LET id == timer_sock[t]
           S == [Core EXCEPT !.timers = Drop(@, t),
                             !.timer_sock = Drop(@, t),
                             !.sock_timer = Drop(@, id)]
       IN  \/ /\ timers[t] = "onListenSocketResumeRead"
              /\ Become(SetCallback(S, id, "in", "onListenSocketRead"))
              /\ UNCHANGED <<loop, call, pc, cb, then, hid, data, budget>>
           \/ /\ timers[t] = "onAsyncConnectTimeout"
              /\ ReportError(S, id)
           \/ /\ timers[t] = "onSendMessageError"
              /\ Become(S)
              /\ EnterClient("error", id, "return")
              /\ UNCHANGED <<hid, data>>
    /\ Step

\* A timer of the client itself.
UserTimer ==
    /\ loop = "timers"
    /\ pc = "loop"
    /\ "tick" \in ClientOps
    /\ ~ticked
    /\ ticked' = TRUE
    /\ EnterClient("tick", 0, "return")
    /\ UNCHANGED <<coreVars, events, quit, event_count, events_size, next_id, hid, data,
                   casting>>

-----------------------------------------------------------------------------
(* The loop *)

serviceVars == <<next_id, sockets, conns, timers, sock_timer, timer_sock, net,
                 pc, cb, then, hid, data, budget, casting>>

LoopStep ==
    /\ pc = "loop"
    /\ \/ IO!Wait([p \in DOMAIN dev |-> Ready(net[dev[p].id])])
       \/ IO!SkipRemoved
       \/ IO!Dispatch
       \/ IO!NextEvent
       \/ IO!EventsDone
    /\ UNCHANGED <<serviceVars, ticked>>

EndPass ==
    /\ pc = "loop"
    /\ IO!EndIteration
    /\ ticked' = FALSE
    /\ UNCHANGED serviceVars

Service ==
    \/ LoopStep
    \/ EndPass
    \/ EventHandler
    \/ \E id \in casting.left : BroadcastTo(id)
    \/ MainReturns
    \/ ClientReturns

Init ==
    /\ IO!IOInit
    /\ next_id = 1
    /\ sockets = EmptyMap /\ conns = EmptyMap /\ net = EmptyMap
    /\ timers = EmptyMap /\ sock_timer = EmptyMap /\ timer_sock = EmptyMap
    /\ pc = "client"
    /\ cb = [kind |-> "main", id |-> 0]
    /\ then = "start"
    /\ hid = 0
    /\ data = FALSE
    /\ budget = CallBound
    /\ casting = NoCast
    /\ ticked = FALSE

Next ==
    \/ Service
    \/ \E t \in TimerIds : FireTimer(t)
    \/ UserTimer
    \/ ClientCalls
    \/ \E id \in DOMAIN net : Peer(id)

Spec == Init /\ [][Next]_vars

\* The thread runs, and a timer of the service is called in some pass of the
\* loop: its time comes, and checkTimeout calls every timer whose time has come.
\* Nothing is assumed of peers, nor of the order of epoll_wait's events.
FairSpec ==
    /\ Spec
    /\ WF_vars(Service)
    /\ \A t \in TimerIds : SF_vars(FireTimer(t))

-----------------------------------------------------------------------------
(* Properties *)

\* The members of TcpService::Impl and of its connections keep their types; each
\* socket has its own address and carries its own id.
TypeOK ==
    /\ IO!IOTypeOK
    /\ next_id \in 1..IdBound + 1
    /\ DOMAIN sockets \subseteq 1..next_id - 1
    /\ DOMAIN net = DOMAIN sockets
    /\ DOMAIN conns \subseteq DOMAIN sockets
    /\ DOMAIN dev = {sockets[id] : id \in DOMAIN sockets}
    /\ \A id \in DOMAIN sockets : dev[sockets[id]].id = id
    /\ \A id \in DOMAIN conns :
        /\ conns[id].status \in {"CONNECTING", "CONNECTED", "PENDING_ERROR", "PEER_CLOSED"}
        /\ conns[id].rbuf \in Nat /\ conns[id].fresh \in Nat
        /\ conns[id].wbuf \in Seq(Nat)
        /\ conns[id].sccb \in {None, "close"}
    /\ DOMAIN timers \subseteq TimerIds
    /\ pc \in {"loop", "accept", "read", "client"}
    /\ then \in {"return", "accept", "peerClose", "start"}
    /\ data \in BOOLEAN /\ ticked \in BOOLEAN /\ budget \in 0..CallBound
    /\ casting.left \subseteq DOMAIN conns

\* The two timer maps are each other's inverse, and hold exactly the timers that
\* are active, each for a socket that is open: no path through connecting,
\* failing, pausing and closing leaks a timer or leaves one for a closed socket.
TimerMapsAgree ==
    /\ DOMAIN timer_sock = DOMAIN timers
    /\ DOMAIN sock_timer = {timer_sock[t] : t \in DOMAIN timers}
    /\ \A t \in DOMAIN timers :
        /\ timer_sock[t] \in DOMAIN sockets
        /\ sock_timer[timer_sock[t]] = t

\* A socket's timer is about what the socket is doing: the connect timeout never
\* hits a connection that was established or has failed, accepting is resumed
\* only where it was paused, and an error is reported only where one is pending.
TimerIsCurrent ==
    \A t \in DOMAIN timers :
        LET id == timer_sock[t]
        IN  CASE timers[t] = "onAsyncConnectTimeout" ->
                    id \in DOMAIN conns /\ conns[id].status = "CONNECTING"
              [] timers[t] = "onListenSocketResumeRead" ->
                    dev[sockets[id]].cb["in"] = None
              [] timers[t] = "onSendMessageError" ->
                    conns[id].status \in {"PENDING_ERROR", "PEER_CLOSED"}

\* The loop never calls an empty read or write callback, though a callback may
\* clear callbacks while events of the same batch are still to be handled.
NoNullCall == loop = "call" => call.cb # None

\* The client is called only about connections that are open at that time.
CallbackIsLive ==
    pc = "client" /\ budget = CallBound /\ cb.kind \in {"new", "recv", "peerClose", "error"}
        => cb.id \in DOMAIN conns

\* The device waits for EPOLLOUT to write exactly while there is something to
\* write: no forgotten bytes, and no loop that spins on a writable socket.
WriteInterest ==
    \A id \in DOMAIN conns :
        (conns[id].wbuf # <<>>) <=> (dev[sockets[id]].cb["out"] = "onSocketWrite")

\* The kernel gets the bytes of the messages in the order of the calls, none
\* twice and none left out, whether they went directly or through the buffer.
SendStreamFifo ==
    \A id \in DOMAIN conns :
        net[id].wire \o conns[id].wbuf = [i \in 1..net[id].accepted |-> i]

\* setSendBufferMaxSize bounds what is buffered on every path of sendMessage.
WriteLimit ==
    MaxWrite > 0 => \A id \in DOMAIN conns : Len(conns[id].wbuf) <= MaxWrite

\* A connection on which sending failed is never left without a report: its
\* timer is set or its error callback runs.
ErrorWillBeReported ==
    \A id \in DOMAIN conns :
        conns[id].status = "PENDING_ERROR" =>
            \/ id \in DOMAIN sock_timer /\ timers[sock_timer[id]] = "onSendMessageError"
            \/ pc = "client" /\ cb = [kind |-> "error", id |-> id]

\* The members of the service stay consistent with each other: each socket has its
\* own address, and the two maps and the timers keep in step with the sockets,
\* through every order of connecting, failing, pausing, expiring and closing.
TimersInStep == TypeOK /\ TimerMapsAgree /\ TimerIsCurrent /\ ErrorWillBeReported

\* onListenSocketRead uses listen_socket only while that socket exists.
ListenerInUseIsOpen == pc = "accept" => hid \in DOMAIN sockets

\* Before the client learns that the peer has closed it was given all that recv
\* returned, and nothing is left in the kernel; unless the peer has sent, over the
\* whole connection, more than the receive buffer holds, for then the read may have
\* stopped at the limit.
DataBeforeClose ==
    pc = "client" /\ cb.kind = "peerClose" /\ cb.id \in DOMAIN conns =>
        /\ conns[cb.id].fresh = 0
        /\ net[cb.id].inq > 0 => MaxRead > 0 /\ net[cb.id].recvd > MaxRead

\* The client is told that a peer has closed only if it has, or if it has sent
\* more than fits into the receive buffer.
PeerCloseIsReal ==
    pc = "client" /\ cb.kind = "peerClose" /\ cb.id \in DOMAIN conns =>
        \/ net[cb.id].fin \/ net[cb.id].rst
        \/ MaxRead > 0 /\ net[cb.id].recvd > MaxRead

\* The weaker promise the code keeps: the peer has closed, or it has sent, over
\* the whole connection, as much as the receive buffer holds.  In particular EAGAIN and a short read never end in
\* the peer close callback.
PeerCloseHasCause ==
    pc = "client" /\ cb.kind = "peerClose" /\ cb.id \in DOMAIN conns =>
        \/ net[cb.id].fin \/ net[cb.id].rst
        \/ MaxRead > 0 /\ net[cb.id].recvd >= MaxRead

\* setRecvBufferMaxSize bounds what is buffered.
ReadLimit ==
    MaxRead > 0 => \A id \in DOMAIN conns : conns[id].rbuf <= MaxRead

\* What sendMessageThenClose asked for is still to happen as long as the
\* connection exists and its bytes are not all sent.
PendingCloseKept ==
    [][\A id \in DOMAIN conns \cap DOMAIN conns' :
        conns[id].sccb = "close" => conns'[id].sccb = "close"]_vars

\* A failed send is reported, or the connection is closed.
FailureReported ==
    \A id \in 1..IdBound :
        (id \in DOMAIN conns /\ conns[id].status = "PENDING_ERROR")
            ~> (id \notin DOMAIN conns \/ (pc = "client" /\ cb = [kind |-> "error", id |-> id]))

\* An asynchronous connect with a timeout succeeds or fails.
ConnectResolves ==
    \A id \in 1..IdBound :
        (id \in DOMAIN conns /\ conns[id].status = "CONNECTING" /\ id \in DOMAIN sock_timer)
            ~> (id \notin DOMAIN conns \/ conns[id].status # "CONNECTING")

\* Accepting on a paused listener goes on.
ListenerResumes ==
    \A id \in 1..IdBound :
        (id \in DOMAIN sockets \ DOMAIN conns /\ dev[sockets[id]].cb["in"] = None)
            ~> (id \notin DOMAIN sockets \/ dev[sockets[id]].cb["in"] # None)
=============================================================================
