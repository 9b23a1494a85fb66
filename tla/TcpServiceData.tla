--------------------------- MODULE TcpServiceData ---------------------------
(***************************************************************************)
(* What the operations of TcpService do to the service's data, for any     *)
(* number of sockets and any limits.                                       *)
(*                                                                         *)
(* The data is one record S, as in TcpService.  What its maps say of one   *)
(* socket is put together in View(S, id); Struct says that the maps fit    *)
(* each other, Good what the fields of a view have to do with each other.  *)
(* Every operation changes the view of one socket, and keeps or drops the  *)
(* others as they are.                                                     *)
(***************************************************************************)
EXTENDS TcpService, SequenceTheorems, FiniteSetTheorems, TLAPS

Ids(S) == DOMAIN S.sockets

Statuses == {"CONNECTING", "CONNECTED", "PENDING_ERROR", "PEER_CLOSED"}

\* The view of a listening socket has this in place of a connection.
NoConn == [status |-> "LISTENING", rbuf |-> 0, fresh |-> 0, wbuf |-> <<>>, sccb |-> None]

Conn == [status : Statuses \cup {"LISTENING"}, rbuf : Nat, fresh : Nat, wbuf : Seq(Nat),
         sccb : {None, "close"}]

Net == [link : {"listen", "pending", "up", "refused"}, backlog : Nat, inq : Nat,
        recvd : Nat, fin : BOOLEAN, rst : BOOLEAN, soerr : BOOLEAN, room : Nat,
        wire : Seq(Nat), accepted : Nat]

CallbackSet == [IO!Bits -> Handlers \cup {None}]

Device == [id : Nat \ {0}, cb : CallbackSet]

View(S, id) ==
    [ptr |-> S.sockets[id],
     cb |-> S.dev[S.sockets[id]].cb,
     conn |-> IF id \in DOMAIN S.conns THEN S.conns[id] ELSE NoConn,
     net |-> S.net[id],
     timer |-> IF id \in DOMAIN S.sock_timer THEN S.timers[S.sock_timer[id]] ELSE None]

Shape(S) ==
    S = [dev |-> S.dev, removed |-> S.removed, sockets |-> S.sockets, conns |-> S.conns,
         timers |-> S.timers, sock_timer |-> S.sock_timer, timer_sock |-> S.timer_sock,
         net |-> S.net]

\* The maps fit each other.
SocketMaps(S) ==
    /\ \A id \in Ids(S) : id \in Nat \ {0} /\ S.sockets[id] \in Ptrs
    /\ \A id \in Ids(S) : S.sockets[id] \in DOMAIN S.dev /\ S.dev[S.sockets[id]].id = id
    /\ \A p \in DOMAIN S.dev :
        /\ S.dev[p] \in Device
        /\ S.dev[p].id \in Ids(S) /\ S.sockets[S.dev[p].id] = p
    /\ DOMAIN S.net = Ids(S)
    /\ DOMAIN S.conns \subseteq Ids(S)
    /\ S.removed \subseteq Ptrs

TimerMaps(S) ==
    /\ DOMAIN S.timers \subseteq TimerIds
    /\ DOMAIN S.timer_sock = DOMAIN S.timers
    /\ \A t \in DOMAIN S.timers :
        /\ S.timers[t] \in TimerHandlers
        /\ S.timer_sock[t] \in Ids(S) \cap DOMAIN S.sock_timer
        /\ S.sock_timer[S.timer_sock[t]] = t
    /\ \A id \in DOMAIN S.sock_timer :
        /\ S.sock_timer[id] \in DOMAIN S.timers
        /\ S.timer_sock[S.sock_timer[id]] = id

Struct(S) == Shape(S) /\ SocketMaps(S) /\ TimerMaps(S)

\* m + 1, ..., m + n: the bytes of a connection by number.
Bytes(m, n) == [i \in 1..n |-> m + i]

ViewType(v) ==
    /\ v.cb \in CallbackSet
    /\ v.conn \in Conn
    /\ v.net \in Net
    /\ v.timer \in TimerHandlers \cup {None}

\* A socket has the callbacks of what it is doing.
CallbacksFit(v) ==
    /\ v.cb["err"] = "onSocketError"
    /\ v.conn.status = "LISTENING" =>
        /\ v.cb["in"] \in {None, "onListenSocketRead"}
        /\ v.cb["out"] = None
    /\ v.conn.status # "LISTENING" =>
        /\ v.cb["in"] \in {None, "onSocketRead"}
        /\ v.cb["out"] \in {None, "onAsyncConnectSocketWrite", "onSocketWrite"}
    /\ v.conn.status = "CONNECTING" => v.cb["out"] = "onAsyncConnectSocketWrite"
    /\ v.cb["out"] = "onAsyncConnectSocketWrite" =>
        /\ v.conn.status \in {"CONNECTING", "PENDING_ERROR"}
        /\ v.cb["in"] = None
    /\ v.cb["out"] = "onSocketWrite" <=> v.conn.wbuf # <<>>

\* So has its timer.
TimerFits(v) ==
    /\ v.timer = "onAsyncConnectTimeout" => v.conn.status = "CONNECTING"
    /\ v.timer = "onSendMessageError" =>
        v.conn.status \in {"PENDING_ERROR", "PEER_CLOSED"}
    /\ v.timer = "onListenSocketResumeRead" <=>
        v.conn.status = "LISTENING" /\ v.cb["in"] = None

\* The bytes accepted are those on the wire, then those in the buffer.
StreamFits(v) ==
    /\ Len(v.net.wire) + Len(v.conn.wbuf) = v.net.accepted
    /\ v.net.wire = Bytes(0, Len(v.net.wire))
    /\ v.conn.wbuf = Bytes(Len(v.net.wire), Len(v.conn.wbuf))

\* No buffer is over its limit, and what is buffered was received.
LimitsKept(v) ==
    /\ MaxWrite > 0 => Len(v.conn.wbuf) <= MaxWrite
    /\ MaxRead > 0 => v.conn.rbuf <= MaxRead
    /\ v.net.inq + v.conn.rbuf <= v.net.recvd

Good(v) == ViewType(v) /\ CallbacksFit(v) /\ TimerFits(v) /\ StreamFits(v) /\ LimitsKept(v)

\* A connection is in conns exactly when its view shows one.
CoreInv(S) ==
    /\ Struct(S)
    /\ \A id \in Ids(S) : Good(View(S, id))
    /\ \A id \in DOMAIN S.conns : S.conns[id].status # "LISTENING"

-----------------------------------------------------------------------------
(* What an operation on a socket does *)

\* S becomes T: the view of socket id is v, everything else as it was.
Changed(S, T, id, v) ==
    /\ Struct(T)
    /\ Ids(T) = Ids(S) /\ T.removed = S.removed /\ DOMAIN T.conns = DOMAIN S.conns
    /\ View(T, id) = v
    /\ \A j \in Ids(S) \ {id} : View(T, j) = View(S, j)

\* S becomes T: socket id is closed, and its address remembered.
Closed(S, T, id) ==
    /\ Struct(T)
    /\ Ids(T) = Ids(S) \ {id} /\ T.removed = S.removed \cup {S.sockets[id]}
    /\ DOMAIN T.conns = DOMAIN S.conns \ {id}
    /\ \A j \in Ids(T) : View(T, j) = View(S, j)

\* S becomes T: socket id is opened, with the view v.
Opened(S, T, id, v) ==
    /\ Struct(T)
    /\ Ids(T) = Ids(S) \cup {id} /\ T.removed = S.removed
    /\ DOMAIN T.conns = DOMAIN S.conns \cup (IF v.conn = NoConn THEN {} ELSE {id})
    /\ View(T, id) = v
    /\ \A j \in Ids(S) : View(T, j) = View(S, j)

\* Setting a callback changes the view of one socket in that callback only.
LEMMA SetCallbackChanges ==
  ASSUME NEW S, Struct(S), NEW id \in Ids(S),
         NEW b \in IO!Bits, NEW c \in Handlers \cup {None}
  PROVE  Changed(S, SetCallback(S, id, b, c), id,
                 [View(S, id) EXCEPT !.cb = [@ EXCEPT ![b] = c]])
<1> DEFINE T == SetCallback(S, id, b, c)
           p == S.sockets[id]
<1>1. /\ Shape(T)
      /\ T.dev = [S.dev EXCEPT ![p] = [S.dev[p] EXCEPT !.cb = [S.dev[p].cb EXCEPT ![b] = c]]]
      /\ T.removed = S.removed /\ T.sockets = S.sockets /\ T.conns = S.conns
      /\ T.timers = S.timers /\ T.sock_timer = S.sock_timer
      /\ T.timer_sock = S.timer_sock /\ T.net = S.net
  BY DEF Struct, Shape, SetCallback
<1>2. p \in DOMAIN S.dev /\ S.dev[p] \in Device
  BY DEF Struct, SocketMaps
<1>3. /\ DOMAIN T.dev = DOMAIN S.dev
      /\ T.dev[p].id = S.dev[p].id /\ T.dev[p].cb = [S.dev[p].cb EXCEPT ![b] = c]
      /\ T.dev[p] \in Device
      /\ \A q \in DOMAIN S.dev \ {p} : T.dev[q] = S.dev[q]
  BY <1>1, <1>2 DEF Device, CallbackSet
<1> HIDE DEF T
<1>4. Struct(T)
  <2>1. /\ DOMAIN T.dev = DOMAIN S.dev
        /\ \A q \in DOMAIN S.dev : T.dev[q].id = S.dev[q].id /\ T.dev[q] \in Device
    BY <1>2, <1>3 DEF Struct, SocketMaps
  <2>2. SocketMaps(T)
    BY <1>1, <2>1 DEF Struct, SocketMaps, Ids
  <2>3. TimerMaps(T)
    BY <1>1 DEF Struct, TimerMaps, Ids
  <2> QED
    BY <1>1, <2>2, <2>3 DEF Struct
<1>5. View(T, id) = [View(S, id) EXCEPT !.cb = [@ EXCEPT ![b] = c]]
  BY <1>1, <1>2, <1>3 DEF View
<1>6. \A j \in Ids(S) \ {id} : View(T, j) = View(S, j)
  <2> SUFFICES ASSUME NEW j \in Ids(S) \ {id} PROVE View(T, j) = View(S, j)
    OBVIOUS
  <2>1. S.sockets[j] # p /\ S.sockets[j] \in DOMAIN S.dev
    BY DEF Struct, SocketMaps
  <2> QED
    BY <1>1, <1>3, <2>1 DEF View
<1> QED
  BY <1>1, <1>4, <1>5, <1>6 DEF Changed, Ids, T

\* Changing a connection changes the view of one socket only.
LEMMA ConnChanges ==
  ASSUME NEW S, Struct(S), NEW id \in DOMAIN S.conns, NEW c
  PROVE  Changed(S, [S EXCEPT !.conns = [@ EXCEPT ![id] = c]], id,
                 [View(S, id) EXCEPT !.conn = c])
<1> DEFINE T == [S EXCEPT !.conns = [@ EXCEPT ![id] = c]]
<1>1. /\ Shape(T)
      /\ T.conns = [S.conns EXCEPT ![id] = c]
      /\ T.removed = S.removed /\ T.sockets = S.sockets /\ T.dev = S.dev
      /\ T.timers = S.timers /\ T.sock_timer = S.sock_timer
      /\ T.timer_sock = S.timer_sock /\ T.net = S.net
  BY DEF Struct, Shape
<1> HIDE DEF T
<1>2. Struct(T)
  BY <1>1 DEF Struct, SocketMaps, TimerMaps, Ids
<1> QED
  BY <1>1, <1>2 DEF Changed, Ids, View, T

\* So does changing the kernel's side of a socket.
LEMMA NetChanges ==
  ASSUME NEW S, Struct(S), NEW id \in Ids(S), NEW n
  PROVE  Changed(S, [S EXCEPT !.net = [@ EXCEPT ![id] = n]], id,
                 [View(S, id) EXCEPT !.net = n])
<1> DEFINE T == [S EXCEPT !.net = [@ EXCEPT ![id] = n]]
<1>1. /\ Shape(T)
      /\ T.net = [S.net EXCEPT ![id] = n]
      /\ T.removed = S.removed /\ T.sockets = S.sockets /\ T.dev = S.dev
      /\ T.timers = S.timers /\ T.sock_timer = S.sock_timer
      /\ T.timer_sock = S.timer_sock /\ T.conns = S.conns
  BY DEF Struct, Shape
<1> HIDE DEF T
<1>2. Struct(T)
  BY <1>1 DEF Struct, SocketMaps, TimerMaps, Ids
<1>3. id \in DOMAIN S.net
  BY DEF Struct, SocketMaps
<1> QED
  BY <1>1, <1>2, <1>3 DEF Changed, Ids, View, T

\* Two changes of one socket are one change of it.
LEMMA ChangesCompose ==
  ASSUME NEW S, NEW T, NEW U, NEW id, NEW v, NEW w,
         Changed(S, T, id, v), Changed(T, U, id, w)
  PROVE  Changed(S, U, id, w)
BY DEF Changed

-----------------------------------------------------------------------------
(* Timers *)

\* Each timer in use belongs to a socket, and sockets to addresses, of which there
\* are fewer than timer ids.
LEMMA FreshTimerIsFresh ==
  ASSUME NEW S, Struct(S)
  PROVE  /\ FreshTimer(S) \in TimerIds
         /\ FreshTimer(S) \notin DOMAIN S.timers
         /\ \A id \in DOMAIN S.sock_timer : S.sock_timer[id] # FreshTimer(S)
<1> DEFINE f == [p \in Ptrs |->
                   IF p \in DOMAIN S.dev /\ S.dev[p].id \in DOMAIN S.sock_timer
                   THEN S.sock_timer[S.dev[p].id] ELSE CHOOSE t \in TimerIds : TRUE]
<1>1. \A id \in DOMAIN S.sock_timer : S.sock_timer[id] \in TimerIds
  BY DEF Struct, TimerMaps
<1>2. f \in [Ptrs -> TimerIds]
  BY <1>1, TimerIdAssumption
<1>3. PICK t \in TimerIds : \A p \in Ptrs : f[p] # t
  BY <1>2, TimerIdAssumption
<1>4. \A id \in DOMAIN S.sock_timer : S.sock_timer[id] # t
  <2> SUFFICES ASSUME NEW id \in DOMAIN S.sock_timer PROVE S.sock_timer[id] # t
    OBVIOUS
  <2>1. id \in Ids(S)
    BY DEF Struct, TimerMaps
  <2>2. /\ S.sockets[id] \in Ptrs /\ S.sockets[id] \in DOMAIN S.dev
        /\ S.dev[S.sockets[id]].id = id
    BY <2>1 DEF Struct, SocketMaps
  <2>3. f[S.sockets[id]] = S.sock_timer[id]
    BY <2>2
  <2> QED
    BY <1>3, <2>2, <2>3
<1>5. t \notin DOMAIN S.timers \cup DOMAIN S.timer_sock
  BY <1>4 DEF Struct, TimerMaps
<1> QED
  BY <1>4, <1>5 DEF FreshTimer

\* addSocketTimer on a socket without a timer sets the timer of its view only.
LEMMA AddTimerChanges ==
  ASSUME NEW S, Struct(S), NEW id \in Ids(S), View(S, id).timer = None,
         NEW h \in TimerHandlers
  PROVE  Changed(S, addSocketTimer(S, id, h), id, [View(S, id) EXCEPT !.timer = h])
<1> DEFINE T == addSocketTimer(S, id, h)
           t == FreshTimer(S)
<1>1. /\ Shape(T)
      /\ T.timers = Put(S.timers, t, h) /\ T.sock_timer = Put(S.sock_timer, id, t)
      /\ T.timer_sock = Put(S.timer_sock, t, id)
      /\ T.removed = S.removed /\ T.sockets = S.sockets /\ T.dev = S.dev
      /\ T.conns = S.conns /\ T.net = S.net
  <2>1. T = [S EXCEPT !.timers = Put(@, t, h), !.sock_timer = Put(@, id, t),
                      !.timer_sock = Put(@, t, id)]
    BY DEF addSocketTimer
  <2> HIDE DEF T, t
  <2> QED
    BY <2>1 DEF Struct, Shape
<1>2. id \notin DOMAIN S.sock_timer
  BY LoopAssumption DEF View, Struct, TimerMaps
<1>3. /\ t \in TimerIds /\ t \notin DOMAIN S.timers
      /\ \A j \in DOMAIN S.sock_timer : S.sock_timer[j] # t
  BY FreshTimerIsFresh
<1> HIDE DEF T, t
<1>4. /\ DOMAIN T.timers = DOMAIN S.timers \cup {t} /\ T.timers[t] = h
      /\ \A u \in DOMAIN S.timers : T.timers[u] = S.timers[u]
      /\ DOMAIN T.sock_timer = DOMAIN S.sock_timer \cup {id} /\ T.sock_timer[id] = t
      /\ \A j \in DOMAIN S.sock_timer : T.sock_timer[j] = S.sock_timer[j]
      /\ DOMAIN T.timer_sock = DOMAIN S.timers \cup {t} /\ T.timer_sock[t] = id
      /\ \A u \in DOMAIN S.timers : T.timer_sock[u] = S.timer_sock[u]
  BY <1>1, <1>2, <1>3 DEF Put, Struct, TimerMaps
<1>5. TimerMaps(S) /\ SocketMaps(S)
  BY DEF Struct
<1>6. Struct(T)
  <2>1. TimerMaps(T)
    BY <1>1, <1>3, <1>4, <1>5 DEF TimerMaps, Ids
  <2>2. SocketMaps(T)
    BY <1>1, <1>5 DEF SocketMaps, Ids
  <2> QED
    BY <1>1, <2>1, <2>2 DEF Struct
<1>7. View(T, id) = [View(S, id) EXCEPT !.timer = h]
  BY <1>1, <1>4 DEF View
<1>8. \A j \in Ids(S) \ {id} : View(T, j) = View(S, j)
  <2> SUFFICES ASSUME NEW j \in Ids(S) \ {id} PROVE View(T, j) = View(S, j)
    OBVIOUS
  <2>1. j \in DOMAIN T.sock_timer <=> j \in DOMAIN S.sock_timer
    BY <1>4
  <2>2. j \in DOMAIN S.sock_timer => T.timers[T.sock_timer[j]] = S.timers[S.sock_timer[j]]
    BY <1>4, <1>5 DEF TimerMaps
  <2> QED
    BY <1>1, <2>1, <2>2 DEF View
<1> QED
  BY <1>1, <1>6, <1>7, <1>8 DEF Changed, Ids, T

\* removeSocketTimer leaves the view without a timer, whether it had one or not.
LEMMA RemoveTimerChanges ==
  ASSUME NEW S, Struct(S), NEW id \in Ids(S)
  PROVE  Changed(S, removeSocketTimer(S, id), id, [View(S, id) EXCEPT !.timer = None])
<1> DEFINE T == removeSocketTimer(S, id)
           t == S.sock_timer[id]
<1>1. CASE id \notin DOMAIN S.sock_timer
  <2>1. T = S /\ [View(S, id) EXCEPT !.timer = None] = View(S, id)
    BY <1>1 DEF removeSocketTimer, View
  <2> QED
    BY <2>1 DEF Changed
<1>2. CASE id \in DOMAIN S.sock_timer
  <2>1. /\ Shape(T)
        /\ T.timers = Drop(S.timers, t) /\ T.sock_timer = Drop(S.sock_timer, id)
        /\ T.timer_sock = Drop(S.timer_sock, t)
        /\ T.removed = S.removed /\ T.sockets = S.sockets /\ T.dev = S.dev
        /\ T.conns = S.conns /\ T.net = S.net
    BY <1>2 DEF Struct, Shape, removeSocketTimer
  <2>2. TimerMaps(S) /\ SocketMaps(S)
    BY DEF Struct
  <2>3. t \in DOMAIN S.timers /\ S.timer_sock[t] = id
    BY <1>2, <2>2 DEF TimerMaps
  <2> HIDE DEF T, t
  <2>4. /\ DOMAIN T.timers = DOMAIN S.timers \ {t}
        /\ DOMAIN T.timer_sock = DOMAIN S.timers \ {t}
        /\ \A u \in DOMAIN S.timers \ {t} :
             T.timers[u] = S.timers[u] /\ T.timer_sock[u] = S.timer_sock[u]
        /\ DOMAIN T.sock_timer = DOMAIN S.sock_timer \ {id}
        /\ \A j \in DOMAIN S.sock_timer \ {id} :
             T.sock_timer[j] = S.sock_timer[j] /\ S.sock_timer[j] # t
    BY <1>2, <2>1, <2>2, <2>3 DEF Drop, TimerMaps
  <2>5. Struct(T)
    <3>1. TimerMaps(T)
      BY <1>2, <2>1, <2>2, <2>3, <2>4 DEF TimerMaps, Ids, t
    <3>2. SocketMaps(T)
      BY <2>1, <2>2 DEF SocketMaps, Ids
    <3> QED
      BY <2>1, <3>1, <3>2 DEF Struct
  <2>6. View(T, id) = [View(S, id) EXCEPT !.timer = None]
    BY <2>1, <2>4 DEF View
  <2>7. \A j \in Ids(S) \ {id} : View(T, j) = View(S, j)
    <3> SUFFICES ASSUME NEW j \in Ids(S) \ {id} PROVE View(T, j) = View(S, j)
      OBVIOUS
    <3>1. j \in DOMAIN T.sock_timer <=> j \in DOMAIN S.sock_timer
      BY <2>4
    <3>2. j \in DOMAIN S.sock_timer => T.timers[T.sock_timer[j]] = S.timers[S.sock_timer[j]]
      BY <2>2, <2>4 DEF TimerMaps
    <3> QED
      BY <2>1, <3>1, <3>2 DEF View
  <2> QED
    BY <2>1, <2>5, <2>6, <2>7 DEF Changed, Ids, T
<1> QED
  BY <1>1, <1>2

-----------------------------------------------------------------------------
(* Closing and opening *)

\* closeSocket takes the socket, its connection, its timer and its device away and
\* remembers its address.
LEMMA CloseCloses ==
  ASSUME NEW S, Struct(S), NEW id \in Ids(S)
  PROVE  Closed(S, closeSocket(S, id), id)
<1> DEFINE R == removeSocketTimer(S, id)
           T == closeSocket(S, id)
           p == S.sockets[id]
<1>1. Changed(S, R, id, [View(S, id) EXCEPT !.timer = None])
  BY RemoveTimerChanges
<1>2. id \notin DOMAIN R.sock_timer /\ R.sockets = S.sockets /\ R.conns = S.conns
  BY DEF removeSocketTimer, Drop, Struct, Shape
<1> HIDE DEF R
<1>3. /\ Shape(T)
      /\ T.conns = Drop(R.conns, id) /\ T.sockets = Drop(R.sockets, id)
      /\ T.dev = Drop(R.dev, p) /\ T.net = Drop(R.net, id)
      /\ T.removed = R.removed \cup {p}
      /\ T.timers = R.timers /\ T.sock_timer = R.sock_timer /\ T.timer_sock = R.timer_sock
  <2>1. T = [R EXCEPT !.conns = Drop(@, id), !.sockets = Drop(@, id), !.dev = Drop(@, p),
                      !.removed = @ \cup {p}, !.net = Drop(@, id)]
    BY DEF closeSocket, R, Ids
  <2>2. Shape(R)
    BY <1>1 DEF Changed, Struct
  <2> HIDE DEF T, p
  <2> QED
    BY <2>1, <2>2 DEF Shape
<1> HIDE DEF T
<1>4. Struct(R) /\ id \in Ids(R) /\ Ids(R) = Ids(S) /\ R.removed = S.removed
  BY <1>1 DEF Changed
<1>5. SocketMaps(R) /\ TimerMaps(R)
  BY <1>4 DEF Struct
<1>6. /\ p \in DOMAIN R.dev /\ p \in Ptrs
      /\ \A j \in Ids(R) \ {id} : R.sockets[j] # p /\ R.sockets[j] \in DOMAIN R.dev
  BY <1>2, <1>4, <1>5 DEF SocketMaps
<1>7. /\ Ids(T) = Ids(R) \ {id}
      /\ \A j \in Ids(R) \ {id} : T.sockets[j] = R.sockets[j] /\ T.net[j] = R.net[j]
      /\ DOMAIN T.dev = DOMAIN R.dev \ {p}
      /\ \A q \in DOMAIN R.dev \ {p} : T.dev[q] = R.dev[q]
      /\ DOMAIN T.net = Ids(R) \ {id}
      /\ DOMAIN T.conns = DOMAIN R.conns \ {id}
      /\ \A j \in DOMAIN R.conns \ {id} : T.conns[j] = R.conns[j]
  BY <1>3, <1>5 DEF Drop, Ids, SocketMaps
<1>8. Struct(T)
  <2>1. SocketMaps(T)
    BY <1>2, <1>3, <1>5, <1>6, <1>7 DEF SocketMaps
  <2>2. TimerMaps(T)
    BY <1>2, <1>3, <1>5, <1>7 DEF TimerMaps
  <2> QED
    BY <1>3, <2>1, <2>2 DEF Struct
<1>9. \A j \in Ids(T) : View(T, j) = View(S, j)
  <2> SUFFICES ASSUME NEW j \in Ids(T) PROVE View(T, j) = View(S, j)
    OBVIOUS
  <2>1. j \in Ids(S) \ {id} /\ View(R, j) = View(S, j)
    BY <1>1, <1>4, <1>7 DEF Changed
  <2>2. View(T, j) = View(R, j)
    BY <1>3, <1>4, <1>6, <1>7, <2>1 DEF View
  <2> QED
    BY <2>1, <2>2
<1> QED
  BY <1>2, <1>3, <1>4, <1>7, <1>8, <1>9 DEF Closed, T

\* closeSocket on an id that is not open does nothing.
LEMMA CloseUnknown ==
  ASSUME NEW S, Struct(S), NEW id, id \notin Ids(S)
  PROVE  closeSocket(S, id) = S
<1>1. id \notin DOMAIN S.sock_timer
  BY DEF Struct, TimerMaps
<1> QED
  BY <1>1 DEF closeSocket, removeSocketTimer, Ids

\* A new socket at a free address is a new view, without a connection or a timer.
LEMMA NewSocketOpens ==
  ASSUME NEW S, Struct(S), next_id \in Nat \ {0}, next_id \notin Ids(S),
         NEW p \in Ptrs, p \notin DOMAIN S.dev, NEW c \in CallbackSet, NEW n
  PROVE  Opened(S, NewSocket(S, p, c, n), next_id,
                [ptr |-> p, cb |-> c, conn |-> NoConn, net |-> n, timer |-> None])
<1> DEFINE T == NewSocket(S, p, c, n)
           id == next_id
<1>1. /\ Shape(T)
      /\ T.dev = IO!WithDevice(S.dev, p, id, c)
      /\ T.sockets = Put(S.sockets, id, p) /\ T.net = Put(S.net, id, n)
      /\ T.removed = S.removed /\ T.conns = S.conns
      /\ T.timers = S.timers /\ T.sock_timer = S.sock_timer /\ T.timer_sock = S.timer_sock
  <2>1. T = [S EXCEPT !.dev = IO!WithDevice(@, p, id, c), !.sockets = Put(@, id, p),
                      !.net = Put(@, id, n)]
    BY DEF NewSocket
  <2> HIDE DEF T, id
  <2> QED
    BY <2>1 DEF Struct, Shape
<1> HIDE DEF T, id
<1>2. SocketMaps(S) /\ TimerMaps(S) /\ id \notin DOMAIN S.sockets /\ id \in Nat \ {0}
  BY DEF Struct, Ids, id
<1>3. /\ DOMAIN T.dev = DOMAIN S.dev \cup {p}
      /\ T.dev[p].id = id /\ T.dev[p].cb = c /\ T.dev[p] \in Device
      /\ \A q \in DOMAIN S.dev : T.dev[q] = S.dev[q]
  BY <1>1, <1>2 DEF IO!WithDevice, Device
<1>4. /\ Ids(T) = Ids(S) \cup {id} /\ T.sockets[id] = p
      /\ \A j \in Ids(S) : T.sockets[j] = S.sockets[j] /\ T.net[j] = S.net[j]
      /\ DOMAIN T.net = Ids(T) /\ T.net[id] = n
  BY <1>1, <1>2 DEF Put, Ids, SocketMaps
<1>5. Struct(T)
  <2>1. SocketMaps(T)
    BY <1>1, <1>2, <1>3, <1>4 DEF SocketMaps
  <2>2. TimerMaps(T)
    BY <1>1, <1>2, <1>4 DEF TimerMaps
  <2> QED
    BY <1>1, <2>1, <2>2 DEF Struct
<1>6. View(T, id) = [ptr |-> p, cb |-> c, conn |-> NoConn, net |-> n, timer |-> None]
  <2>1. id \notin DOMAIN S.conns /\ id \notin DOMAIN S.sock_timer
    BY <1>2 DEF SocketMaps, TimerMaps, Ids
  <2> QED
    BY <1>1, <1>3, <1>4, <2>1 DEF View
<1>7. \A j \in Ids(S) : View(T, j) = View(S, j)
  <2> SUFFICES ASSUME NEW j \in Ids(S) PROVE View(T, j) = View(S, j)
    OBVIOUS
  <2>1. S.sockets[j] \in DOMAIN S.dev
    BY <1>2 DEF SocketMaps
  <2> QED
    BY <1>1, <1>3, <1>4, <2>1 DEF View
<1> QED
  BY <1>1, <1>4, <1>5, <1>6, <1>7 DEF Opened, T, id

\* A new connection is a new view, with a connection and without a timer.
LEMMA NewConnectionOpens ==
  ASSUME NEW S, Struct(S), next_id \in Nat \ {0}, next_id \notin Ids(S),
         NEW p \in Ptrs, p \notin DOMAIN S.dev, NEW c \in CallbackSet, NEW n,
         NEW status \in Statuses
  PROVE  Opened(S, NewConnection(S, p, c, n, status), next_id,
                [ptr |-> p, cb |-> c, conn |-> [NoConn EXCEPT !.status = status],
                 net |-> n, timer |-> None])
<1> DEFINE R == NewSocket(S, p, c, n)
           T == NewConnection(S, p, c, n, status)
           id == next_id
           k == [NoConn EXCEPT !.status = status]
           v == [ptr |-> p, cb |-> c, conn |-> NoConn, net |-> n, timer |-> None]
<1>1. Opened(S, R, id, v)
  BY NewSocketOpens
<1>2. T = [R EXCEPT !.conns = Put(@, id, k)]
  BY DEF NewConnection, NoConn
<1> HIDE DEF R, T, id
<1>3. /\ Struct(R) /\ Ids(R) = Ids(S) \cup {id} /\ id \notin Ids(S)
      /\ R.removed = S.removed /\ DOMAIN R.conns = DOMAIN S.conns
  BY <1>1 DEF Opened, id
<1>4. /\ Shape(T)
      /\ T.conns = Put(R.conns, id, k)
      /\ T.removed = R.removed /\ T.sockets = R.sockets /\ T.dev = R.dev
      /\ T.timers = R.timers /\ T.sock_timer = R.sock_timer
      /\ T.timer_sock = R.timer_sock /\ T.net = R.net
  <2> HIDE DEF k
  <2> QED
    BY <1>2, <1>3 DEF Struct, Shape
<1>5. /\ DOMAIN T.conns = DOMAIN R.conns \cup {id} /\ T.conns[id] = k
      /\ \A j \in DOMAIN R.conns : j # id => T.conns[j] = R.conns[j]
  BY <1>4 DEF Put
<1>6. Struct(T)
  <2>1. SocketMaps(R) /\ TimerMaps(R)
    BY <1>3 DEF Struct
  <2>2. DOMAIN T.conns \subseteq Ids(T)
    BY <1>3, <1>4, <1>5, <2>1 DEF SocketMaps, Ids
  <2>3. SocketMaps(T)
    BY <1>4, <2>1, <2>2 DEF SocketMaps, Ids
  <2>4. TimerMaps(T)
    BY <1>4, <2>1 DEF TimerMaps, Ids
  <2> QED
    BY <1>4, <2>3, <2>4 DEF Struct
<1>7. View(T, id) = [ptr |-> p, cb |-> c, conn |-> k, net |-> n, timer |-> None]
  <2>1. View(T, id) = [View(R, id) EXCEPT !.conn = k]
    BY <1>4, <1>5 DEF View
  <2>2. View(R, id) = v
    BY <1>1 DEF Opened
  <2> QED
    BY <2>1, <2>2
<1>8. \A j \in Ids(S) : View(T, j) = View(S, j)
  <2> SUFFICES ASSUME NEW j \in Ids(S) PROVE View(T, j) = View(S, j)
    OBVIOUS
  <2>1. j # id /\ View(R, j) = View(S, j)
    BY <1>1, <1>3 DEF Opened
  <2>2. View(T, j) = View(R, j)
    BY <1>4, <1>5, <2>1 DEF View
  <2> QED
    BY <2>1, <2>2
<1>9. k # NoConn
  BY DEF NoConn, Statuses
<1> QED
  BY <1>3, <1>4, <1>5, <1>6, <1>7, <1>8, <1>9 DEF Opened, T, Ids, id

-----------------------------------------------------------------------------
(* Sending *)

\* The length and the elements of a run of bytes.
LEMMA BytesProperties ==
  ASSUME NEW m \in Nat, NEW n \in Nat
  PROVE  /\ Bytes(m, n) \in Seq(Nat) /\ Len(Bytes(m, n)) = n
         /\ Bytes(m, n) = <<>> <=> n = 0
         /\ \A k \in 0..n :
              /\ SubSeq(Bytes(m, n), 1, k) = Bytes(m, k)
              /\ SubSeq(Bytes(m, n), k + 1, n) = Bytes(m + k, n - k)
<1>1. Bytes(m, n) \in [1..n -> Nat]
  BY DEF Bytes
<1>2. Bytes(m, n) \in Seq(Nat) /\ Len(Bytes(m, n)) = n
  BY <1>1
<1>3. Bytes(m, n) = <<>> <=> n = 0
  BY <1>2, EmptySeq
<1>4. ASSUME NEW k \in 0..n
      PROVE  /\ SubSeq(Bytes(m, n), 1, k) = Bytes(m, k)
             /\ SubSeq(Bytes(m, n), k + 1, n) = Bytes(m + k, n - k)
  <2>1. \A i \in 1..n : Bytes(m, n)[i] = m + i /\ Bytes(m, n)[i] \in Nat
    BY DEF Bytes
  <2>2. /\ Bytes(m, k) \in Seq(Nat) /\ Len(Bytes(m, k)) = k
        /\ \A i \in 1..k : Bytes(m, k)[i] = m + i
    <3>1. Bytes(m, k) \in [1..k -> Nat]
      BY DEF Bytes
    <3> QED
      BY <3>1 DEF Bytes
  <2>3. /\ Bytes(m + k, n - k) \in Seq(Nat) /\ Len(Bytes(m + k, n - k)) = n - k
        /\ \A i \in 1..n - k : Bytes(m + k, n - k)[i] = m + k + i
    <3>1. n - k \in Nat /\ Bytes(m + k, n - k) \in [1..n - k -> Nat]
      BY DEF Bytes
    <3> QED
      BY <3>1 DEF Bytes
  <2>4. /\ SubSeq(Bytes(m, n), 1, k) \in Seq(Nat) /\ Len(SubSeq(Bytes(m, n), 1, k)) = k
        /\ \A i \in 1..k : SubSeq(Bytes(m, n), 1, k)[i] = m + i
    <3>1. \A i \in 1..k : Bytes(m, n)[i] \in Nat
      BY <2>1
    <3>2. /\ SubSeq(Bytes(m, n), 1, k) \in Seq(Nat)
          /\ Len(SubSeq(Bytes(m, n), 1, k)) = IF 1 <= k THEN k - 1 + 1 ELSE 0
          /\ \A i \in 1..k - 1 + 1 : SubSeq(Bytes(m, n), 1, k)[i] = Bytes(m, n)[1 + i - 1]
      BY <3>1, SubSeqProperties
    <3> HIDE DEF Bytes
    <3> QED
      BY <2>1, <3>2
  <2>5. /\ SubSeq(Bytes(m, n), k + 1, n) \in Seq(Nat)
        /\ Len(SubSeq(Bytes(m, n), k + 1, n)) = n - k
        /\ \A i \in 1..n - k : SubSeq(Bytes(m, n), k + 1, n)[i] = m + k + i
    <3>1. \A i \in k + 1..n : Bytes(m, n)[i] \in Nat
      BY <2>1
    <3>2. /\ SubSeq(Bytes(m, n), k + 1, n) \in Seq(Nat)
          /\ Len(SubSeq(Bytes(m, n), k + 1, n)) = IF k + 1 <= n THEN n - (k + 1) + 1 ELSE 0
          /\ \A i \in 1..n - (k + 1) + 1 :
               SubSeq(Bytes(m, n), k + 1, n)[i] = Bytes(m, n)[k + 1 + i - 1]
      BY <3>1, SubSeqProperties
    <3> QED
      BY <2>1, <3>2
  <2>6. SubSeq(Bytes(m, n), 1, k) = Bytes(m, k)
    BY <2>2, <2>4, SeqEqual
  <2>7. SubSeq(Bytes(m, n), k + 1, n) = Bytes(m + k, n - k)
    BY <2>3, <2>5, SeqEqual
  <2> QED
    BY <2>6, <2>7
<1> QED
  BY <1>2, <1>3, <1>4

\* Consecutive runs of bytes make one run.
LEMMA BytesJoin ==
  ASSUME NEW m \in Nat, NEW a \in Nat, NEW b \in Nat
  PROVE  Bytes(m, a) \o Bytes(m + a, b) = Bytes(m, a + b)
<1> DEFINE s == Bytes(m, a)
           t == Bytes(m + a, b)
           u == Bytes(m, a + b)
<1>1. /\ s \in Seq(Nat) /\ Len(s) = a
      /\ t \in Seq(Nat) /\ Len(t) = b
      /\ u \in Seq(Nat) /\ Len(u) = a + b
  <2>1. m + a \in Nat /\ a + b \in Nat
    OBVIOUS
  <2> QED
    BY <2>1, BytesProperties
<1>2. /\ \A i \in 1..a : s[i] = m + i
      /\ \A i \in 1..b : t[i] = m + a + i
      /\ \A i \in 1..a + b : u[i] = m + i
  BY DEF Bytes
<1> HIDE DEF s, t, u
<1>3. /\ s \o t \in Seq(Nat) /\ Len(s \o t) = a + b
      /\ \A i \in 1..a + b : (s \o t)[i] = IF i <= a THEN s[i] ELSE t[i - a]
  <2>1. /\ s \o t \in Seq(Nat) /\ Len(s \o t) = Len(s) + Len(t)
        /\ \A i \in 1..Len(s) + Len(t) :
             (s \o t)[i] = IF i <= Len(s) THEN s[i] ELSE t[i - Len(s)]
    BY <1>1, ConcatProperties
  <2> QED
    BY <1>1, <2>1
<1>4. ASSUME NEW i \in 1..a + b
      PROVE  (s \o t)[i] = u[i]
  <2>1. CASE i <= a
    <3>1. i \in 1..a
      BY <2>1
    <3> QED
      BY <1>2, <1>3, <2>1, <3>1
  <2>2. CASE ~(i <= a)
    <3>1. i - a \in 1..b /\ m + a + (i - a) = m + i
      BY <2>2
    <3>2. t[i - a] = m + i
      BY <1>2, <3>1
    <3> QED
      BY <1>2, <1>3, <2>2, <3>2
  <2> QED
    BY <2>1, <2>2
<1>5. s \o t = u
  BY <1>1, <1>3, <1>4, SeqEqual
<1> QED
  BY <1>5 DEF s, t, u

\* The kernel takes the next bytes of the stream, as many as it has room for.
LEMMA KernelSendTakes ==
  ASSUME NEW n \in Net, n.wire = Bytes(0, Len(n.wire)), NEW size \in Nat
  PROVE  LET sent == KernelSend(n, Bytes(Len(n.wire), size))
             k == Least(n.room, size)
         IN  /\ sent \in Net /\ k \in 0..size
             /\ sent.wire = Bytes(0, Len(n.wire) + k)
             /\ Len(sent.wire) = Len(n.wire) + k
             /\ sent = [n EXCEPT !.room = sent.room, !.wire = sent.wire]
<1> DEFINE w == Len(n.wire)
           k == Least(n.room, size)
           sent == KernelSend(n, Bytes(w, size))
<1>1. w \in Nat /\ n.room \in Nat /\ n.wire \in Seq(Nat)
  BY LenProperties DEF Net
<1>2. k \in 0..size /\ k \in 0..n.room
  BY <1>1 DEF Least
<1>3. Len(Bytes(w, size)) = size /\ SubSeq(Bytes(w, size), 1, k) = Bytes(w, k)
  BY <1>1, <1>2, BytesProperties
<1>4. sent = [n EXCEPT !.room = n.room - k, !.wire = n.wire \o Bytes(w, k)]
  BY <1>3 DEF KernelSend
<1>5. n.wire \o Bytes(w, k) = Bytes(0, w + k)
  <2>1. k \in Nat /\ 0 + w = w
    BY <1>1, <1>2
  <2>2. Bytes(0, w) \o Bytes(0 + w, k) = Bytes(0, w + k)
    BY <1>1, <2>1, BytesJoin
  <2> QED
    BY <2>1, <2>2
<1>6. Bytes(0, w + k) \in Seq(Nat) /\ Len(Bytes(0, w + k)) = w + k
  <2>1. w + k \in Nat
    BY <1>1, <1>2
  <2> QED
    BY <2>1, BytesProperties
<1>7. n.room - k \in Nat
  BY <1>1, <1>2
<1> HIDE DEF w, k, sent
<1>8. sent = [n EXCEPT !.room = n.room - k, !.wire = Bytes(0, w + k)]
  BY <1>4, <1>5
<1>9. sent \in Net /\ sent.wire = Bytes(0, w + k) /\ sent.room = n.room - k
  BY <1>6, <1>7, <1>8 DEF Net
<1>10. sent = [n EXCEPT !.room = sent.room, !.wire = sent.wire]
  BY <1>8, <1>9
<1> QED
  BY <1>2, <1>6, <1>9, <1>10 DEF w, k, sent

\* A change of one view keeps the invariant if the new view is good.
LEMMA ChangeKeeps ==
  ASSUME NEW S, CoreInv(S), NEW T, NEW id \in Ids(S), NEW v, Changed(S, T, id, v), Good(v),
         v.conn.status = "LISTENING" <=> View(S, id).conn.status = "LISTENING"
  PROVE  CoreInv(T)
<1>1. \A j \in Ids(T) : Good(View(T, j))
  BY DEF Changed, CoreInv
<1>2. ASSUME NEW j \in DOMAIN T.conns PROVE T.conns[j].status # "LISTENING"
  <2>1. j \in DOMAIN S.conns /\ j \in Ids(S)
    BY <1>2 DEF Changed, CoreInv, Struct, SocketMaps
  <2>2. View(S, j).conn = S.conns[j] /\ View(T, j).conn = T.conns[j]
    BY <1>2, <2>1 DEF View
  <2>3. S.conns[j].status # "LISTENING"
    BY <2>1 DEF CoreInv
  <2> QED
    BY <2>1, <2>2, <2>3 DEF Changed
<1> QED
  BY <1>1, <1>2 DEF Changed, CoreInv

\* Closing a socket keeps the invariant of the data.
LEMMA CloseKeeps ==
  ASSUME NEW S, CoreInv(S), NEW T, NEW id \in Ids(S), Closed(S, T, id)
  PROVE  CoreInv(T)
<1>1. \A j \in Ids(T) : Good(View(T, j))
  BY DEF Closed, CoreInv
<1>2. ASSUME NEW j \in DOMAIN T.conns PROVE T.conns[j].status # "LISTENING"
  <2>1. j \in DOMAIN S.conns /\ j \in Ids(T)
    BY <1>2 DEF Closed, CoreInv, Struct, SocketMaps
  <2>2. View(S, j).conn = S.conns[j] /\ View(T, j).conn = T.conns[j]
    BY <1>2, <2>1 DEF View
  <2> QED
    BY <2>1, <2>2 DEF Closed, CoreInv
<1> QED
  BY <1>1, <1>2 DEF Closed, CoreInv

\* Opening a socket whose view is good keeps it.
LEMMA OpenKeeps ==
  ASSUME NEW S, CoreInv(S), NEW T, NEW id, id \notin Ids(S), NEW v, Opened(S, T, id, v), Good(v),
         v.conn.status = "LISTENING" => v.conn = NoConn
  PROVE  CoreInv(T)
<1>1. \A j \in Ids(T) : Good(View(T, j))
  BY DEF Opened, CoreInv
<1>2. ASSUME NEW j \in DOMAIN T.conns PROVE T.conns[j].status # "LISTENING"
  <2>1. View(T, j).conn = T.conns[j]
    BY <1>2 DEF View
  <2>2. CASE j = id
    <3>1. id \notin DOMAIN S.conns
      BY DEF CoreInv, Struct, SocketMaps
    <3> QED
      BY <1>2, <2>1, <2>2, <3>1 DEF Opened
  <2>3. CASE j # id
    <3>1. j \in DOMAIN S.conns /\ j \in Ids(S)
      BY <1>2, <2>3 DEF Opened, CoreInv, Struct, SocketMaps
    <3>2. View(S, j).conn = S.conns[j]
      BY <3>1 DEF View
    <3> QED
      BY <2>1, <3>1, <3>2 DEF Opened, CoreInv
  <2> QED
    BY <2>2, <2>3
<1> QED
  BY <1>1, <1>2 DEF Opened, CoreInv

\* The view of a connection, and what its fields are.
LEMMA ConnView ==
  ASSUME NEW S, CoreInv(S), NEW id \in DOMAIN S.conns
  PROVE  /\ id \in Ids(S) /\ Good(View(S, id))
         /\ View(S, id).conn = S.conns[id] /\ View(S, id).net = S.net[id]
         /\ View(S, id).cb = S.dev[S.sockets[id]].cb
         /\ S.conns[id] \in Conn /\ S.conns[id].status \in Statuses
         /\ S.net[id] \in Net /\ id \in DOMAIN S.net
<1>1. id \in Ids(S) /\ DOMAIN S.net = Ids(S)
  BY DEF CoreInv, Struct, SocketMaps
<1>2. /\ View(S, id).conn = S.conns[id] /\ View(S, id).net = S.net[id]
      /\ View(S, id).cb = S.dev[S.sockets[id]].cb
  BY DEF View
<1>3. Good(View(S, id)) /\ S.conns[id].status # "LISTENING"
  BY <1>1 DEF CoreInv
<1>4. S.conns[id] \in Conn /\ S.net[id] \in Net
  BY <1>2, <1>3 DEF Good, ViewType
<1> QED
  BY <1>1, <1>2, <1>3, <1>4 DEF Conn

\* What an operation changes, as a change of one entry of one map.
LEMMA UpdatesOfOneEntry ==
  ASSUME NEW S, Struct(S), NEW id \in DOMAIN S.conns
  PROVE  /\ SetError(S, id) =
              [S EXCEPT !.conns = [@ EXCEPT ![id] =
                  [S.conns[id] EXCEPT !.status = "PENDING_ERROR"]]]
         /\ [S EXCEPT !.net[id].soerr = FALSE] =
              [S EXCEPT !.net = [@ EXCEPT ![id] = [S.net[id] EXCEPT !.soerr = FALSE]]]
<1>1. Shape(S) /\ id \in DOMAIN S.net
  BY DEF Struct, SocketMaps
<1> QED
  BY <1>1 DEF SetError, Shape

\* Sending fails on an established connection: its status and its timer say so.
LEMMA FailLaterKeeps ==
  ASSUME NEW S, CoreInv(S), NEW id \in DOMAIN S.conns, S.conns[id].status = "CONNECTED"
  PROVE  LET v == View(S, id)
             w == [v EXCEPT !.conn = [@ EXCEPT !.status = "PENDING_ERROR"],
                            !.timer = "onSendMessageError"]
         IN  Changed(S, FailLater(S, id), id, w) /\ Good(w)
<1> DEFINE v == View(S, id)
           c == [S.conns[id] EXCEPT !.status = "PENDING_ERROR"]
           u == [v EXCEPT !.conn = c]
           w == [u EXCEPT !.timer = "onSendMessageError"]
<1>1. Struct(S) /\ id \in Ids(S) /\ Good(v) /\ v.conn = S.conns[id]
  BY ConnView DEF CoreInv
<1>2. Changed(S, SetError(S, id), id, u)
  <2>1. SetError(S, id) = [S EXCEPT !.conns = [@ EXCEPT ![id] = c]]
    BY <1>1, UpdatesOfOneEntry
  <2> HIDE DEF c
  <2>2. Changed(S, [S EXCEPT !.conns = [@ EXCEPT ![id] = c]], id, u)
    BY <1>1, ConnChanges
  <2> QED
    BY <2>1, <2>2
<1>3. v.timer = None
  BY <1>1 DEF Good, TimerFits, ViewType, TimerHandlers
<1>4. View(SetError(S, id), id).timer = None /\ Struct(SetError(S, id)) /\ id \in Ids(SetError(S, id))
  BY <1>1, <1>2, <1>3 DEF Changed, View
<1>5. View(SetError(S, id), id) = u
  BY <1>2 DEF Changed
<1>6. Changed(SetError(S, id), FailLater(S, id), id, w)
  BY <1>4, <1>5, AddTimerChanges DEF FailLater, TimerHandlers
<1>7. Changed(S, FailLater(S, id), id, w)
  BY <1>2, <1>6, ChangesCompose
<1>8. /\ w.ptr = v.ptr /\ w.cb = v.cb /\ w.net = v.net /\ w.timer = "onSendMessageError"
      /\ w.conn.status = "PENDING_ERROR" /\ w.conn.rbuf = v.conn.rbuf
      /\ w.conn.fresh = v.conn.fresh /\ w.conn.wbuf = v.conn.wbuf
      /\ w.conn.sccb = v.conn.sccb /\ w.conn \in Conn
      /\ w = [v EXCEPT !.conn = [@ EXCEPT !.status = "PENDING_ERROR"],
                       !.timer = "onSendMessageError"]
  BY <1>1, ConnView DEF View, Conn, Statuses
<1> HIDE DEF u, w, v
<1>9. Good(w)
  BY <1>1, <1>8 DEF Good, ViewType, CallbacksFit, TimerFits, StreamFits, LimitsKept,
                    TimerHandlers
<1> QED
  BY <1>7, <1>8, <1>9 DEF v

\* What a call of the client can change of a socket that it does not close.
ClientKeeps(v, w) ==
    /\ w.ptr = v.ptr
    /\ w.cb["in"] = v.cb["in"]
    /\ v.cb["out"] # None => w.cb["out"] = v.cb["out"]
    /\ w.conn.fresh = v.conn.fresh
    /\ \/ w.conn.status = v.conn.status /\ w.timer = v.timer
       \/ /\ v.conn.status = "CONNECTED" /\ w.conn.status = "PENDING_ERROR"
          /\ w.timer = "onSendMessageError"
    /\ w.net.inq = v.net.inq /\ w.net.recvd = v.net.recvd
    /\ w.net.fin = v.net.fin /\ w.net.rst = v.net.rst

\* The kernel has taken what it has room for of a message of size bytes, and m
\* bytes of it are accounted for.
AfterSend(S, id, size, m) ==
    [S EXCEPT !.net[id] =
        [KernelSend(S.net[id], Bytes(S.net[id].accepted, size)) EXCEPT !.accepted = @ + m]]

\* What send() took goes from the message to the wire.
LEMMA AfterSendChanges ==
  ASSUME NEW S, CoreInv(S), NEW id \in DOMAIN S.conns, S.conns[id].wbuf = <<>>,
         NEW size \in Nat, NEW m \in Nat
  PROVE  LET v == View(S, id)
             k == Least(v.net.room, size)
         IN  \E n \in Net :
               /\ Changed(S, AfterSend(S, id, size, m), id, [v EXCEPT !.net = n])
               /\ n.accepted = v.net.accepted + m
               /\ n.wire = Bytes(0, v.net.accepted + k)
               /\ Len(n.wire) = v.net.accepted + k
               /\ k \in 0..size
               /\ v.net.accepted = Len(v.net.wire)
               /\ n.inq = v.net.inq /\ n.recvd = v.net.recvd
               /\ n.fin = v.net.fin /\ n.rst = v.net.rst
<1> DEFINE v == View(S, id)
           o == S.net[id]
           a == o.accepted
           sent == KernelSend(o, Bytes(a, size))
           k == Least(o.room, size)
           n == [sent EXCEPT !.accepted = @ + m]
<1>1. /\ Good(v) /\ v.net = o /\ v.conn.wbuf = <<>> /\ o \in Net
      /\ id \in Ids(S) /\ Struct(S) /\ Shape(S)
  BY ConnView DEF CoreInv, Struct
<1>2. a = Len(o.wire) /\ o.wire = Bytes(0, a) /\ a \in Nat /\ o.wire \in Seq(Nat)
  <2>1. Len(o.wire) + Len(<<>>) = a /\ o.wire = Bytes(0, Len(o.wire))
    BY <1>1 DEF Good, StreamFits
  <2>2. o.wire \in Seq(Nat) /\ a \in Nat
    BY <1>1 DEF Net
  <2> QED
    BY <2>1, <2>2
<1>3. /\ sent \in Net /\ k \in 0..size /\ sent.wire = Bytes(0, a + k)
      /\ Len(sent.wire) = a + k
      /\ sent = [o EXCEPT !.room = sent.room, !.wire = sent.wire]
  BY <1>1, <1>2, KernelSendTakes
<1>4. AfterSend(S, id, size, m) = [S EXCEPT !.net = [@ EXCEPT ![id] = n]]
  BY <1>1 DEF AfterSend, Shape
<1> HIDE DEF sent, k
<1>5. /\ n \in Net /\ n.accepted = a + m /\ n.wire = Bytes(0, a + k) /\ Len(n.wire) = a + k
      /\ n.inq = o.inq /\ n.recvd = o.recvd /\ n.fin = o.fin /\ n.rst = o.rst
  <2>1. sent.accepted = a /\ sent.inq = o.inq /\ sent.recvd = o.recvd
        /\ sent.fin = o.fin /\ sent.rst = o.rst
    BY <1>1, <1>3 DEF Net
  <2>2. n.accepted = a + m /\ n.wire = sent.wire /\ n.inq = sent.inq /\ n.recvd = sent.recvd
        /\ n.fin = sent.fin /\ n.rst = sent.rst
    BY <1>3, <2>1 DEF Net
  <2>3. n \in Net
    <3>1. a + m \in Nat
      BY <1>2
    <3>2. sent.accepted + m = a + m
      BY <2>1
    <3>3. n = [sent EXCEPT !.accepted = a + m]
      BY <3>2
    <3> HIDE DEF n, a
    <3> QED
      BY <1>3, <3>1, <3>3 DEF Net
  <2> QED
    BY <1>3, <2>1, <2>2, <2>3
<1> HIDE DEF n
<1>6. Changed(S, AfterSend(S, id, size, m), id, [v EXCEPT !.net = n])
  BY <1>1, <1>4, NetChanges
<1> QED
  BY <1>1, <1>2, <1>3, <1>5, <1>6 DEF v, k

\* A view whose net is one that AfterSend leaves is good when all that was accepted
\* is on the wire.
LEMMA SentViewGood ==
  ASSUME NEW S, NEW id, NEW v, v = View(S, id), Good(v), v.conn.wbuf = <<>>,
         NEW n \in Net, NEW k \in Nat,
         n.accepted = v.net.accepted + k, n.wire = Bytes(0, v.net.accepted + k),
         Len(n.wire) = v.net.accepted + k, n.inq = v.net.inq, n.recvd = v.net.recvd
  PROVE  Good([v EXCEPT !.net = n])
<1> DEFINE w == [v EXCEPT !.net = n]
<1>1. v.net \in Net /\ v.net.accepted \in Nat
  BY DEF Good, ViewType, Net
<1>2. /\ w.cb = v.cb /\ w.conn = v.conn /\ w.timer = v.timer
      /\ w.net = n
  BY DEF View
<1> HIDE DEF w
<1>3. ViewType(w) /\ CallbacksFit(w) /\ TimerFits(w) /\ LimitsKept(w)
  BY <1>2 DEF Good, ViewType, CallbacksFit, TimerFits, LimitsKept
<1>4. StreamFits(w)
  <2>1. v.conn.wbuf = Bytes(Len(n.wire), 0) /\ Len(v.conn.wbuf) = 0
    <3>1. Len(n.wire) \in Nat /\ 0 \in Nat
      BY <1>1
    <3>2. Bytes(Len(n.wire), 0) = <<>>
      BY <3>1, BytesProperties
    <3> QED
      BY <3>2
  <2>2. Len(w.net.wire) + Len(w.conn.wbuf) = w.net.accepted
    <3>1. v.net.accepted + k \in Nat
      BY <1>1
    <3>2. /\ Len(w.net.wire) = v.net.accepted + k /\ Len(w.conn.wbuf) = 0
          /\ w.net.accepted = v.net.accepted + k
      BY <1>2, <2>1
    <3> QED
      BY <3>1, <3>2
  <2>3. w.net.wire = Bytes(0, Len(w.net.wire))
    BY <1>1, <1>2
  <2>4. w.conn.wbuf = Bytes(Len(w.net.wire), Len(w.conn.wbuf))
    BY <1>2, <2>1
  <2> QED
    BY <2>2, <2>3, <2>4 DEF StreamFits
<1> QED
  BY <1>3, <1>4 DEF Good, w

\* SendDirectly by the number k of bytes that the kernel takes.
LEMMA SendDirectlyByRoom ==
  ASSUME NEW S, CoreInv(S), NEW id \in DOMAIN S.conns, S.conns[id].wbuf = <<>>,
         ~S.net[id].rst, NEW size \in Nat, NEW sccb
  PROVE  LET a == S.net[id].accepted
             k == Least(S.net[id].room, size)
         IN  SendDirectly(S, id, Bytes(a, size), sccb) =
               IF size - k = 0
               THEN IF sccb = "close" THEN closeSocket(AfterSend(S, id, size, k), id)
                                      ELSE AfterSend(S, id, size, k)
               ELSE IF Overflows(S, id, size - k)
                    THEN FailLater(AfterSend(S, id, size, k), id)
               ELSE SetCallback(Buffer(AfterSend(S, id, size, size), id,
                                       Bytes(a + k, size - k), sccb),
                                id, "out", "onSocketWrite")
<1> DEFINE o == S.net[id]
           a == o.accepted
           bytes == Bytes(a, size)
           sent == KernelSend(o, bytes)
           k == Least(o.room, size)
           taken == Len(sent.wire) - Len(o.wire)
           rest == SubSeq(bytes, taken + 1, Len(bytes))
<1>1. o \in Net /\ Good(View(S, id)) /\ View(S, id).net = o /\ View(S, id).conn.wbuf = <<>>
  BY ConnView
<1>2. a = Len(o.wire) /\ o.wire = Bytes(0, a) /\ a \in Nat
  <2>1. Len(o.wire) + Len(<<>>) = a /\ o.wire = Bytes(0, Len(o.wire))
    BY <1>1 DEF Good, StreamFits
  <2>2. o.wire \in Seq(Nat) /\ a \in Nat
    BY <1>1 DEF Net
  <2> QED
    BY <2>1, <2>2
<1>3. k \in 0..size /\ Len(sent.wire) = a + k
  <2>1. /\ Least(o.room, size) \in 0..size
        /\ Len(KernelSend(o, Bytes(Len(o.wire), size)).wire) = Len(o.wire) + Least(o.room, size)
    BY <1>1, <1>2, KernelSendTakes
  <2> QED
    BY <1>2, <2>1
<1> HIDE DEF sent, k
<1>4. taken = k /\ Len(bytes) = size /\ size - k \in Nat /\ a + k \in Nat
  <2>1. Len(bytes) = size
    BY <1>2, BytesProperties
  <2>2. k \in Nat /\ size - k \in Nat /\ a + k \in Nat
    BY <1>2, <1>3
  <2>3. (a + k) - a = k
    BY <1>2, <2>2
  <2>4. taken = (a + k) - a
    BY <1>2, <1>3
  <2> QED
    BY <2>1, <2>2, <2>3, <2>4
<1>5. rest = Bytes(a + k, size - k)
  <2>1. SubSeq(Bytes(a, size), k + 1, size) = Bytes(a + k, size - k)
    BY <1>2, <1>3, BytesProperties
  <2> QED
    BY <1>4, <2>1
<1>6. Len(rest) = size - k /\ (rest = <<>> <=> size - k = 0)
  <2>1. /\ Len(Bytes(a + k, size - k)) = size - k
        /\ Bytes(a + k, size - k) = <<>> <=> size - k = 0
    BY <1>4, BytesProperties
  <2> QED
    BY <1>5, <2>1
<1>7. SendDirectly(S, id, bytes, sccb) =
        IF rest = <<>>
        THEN IF sccb = "close" THEN closeSocket(AfterSend(S, id, size, taken), id)
                               ELSE AfterSend(S, id, size, taken)
        ELSE IF Overflows(S, id, Len(rest)) THEN FailLater(AfterSend(S, id, size, taken), id)
        ELSE SetCallback(Buffer(AfterSend(S, id, size, Len(bytes)), id, rest, sccb),
                         id, "out", "onSocketWrite")
  BY DEF SendDirectly, AfterSend, sent
<1> HIDE DEF rest, taken
<1>8. SendDirectly(S, id, bytes, sccb) =
        IF size - k = 0
        THEN IF sccb = "close" THEN closeSocket(AfterSend(S, id, size, k), id)
                               ELSE AfterSend(S, id, size, k)
        ELSE IF Overflows(S, id, size - k) THEN FailLater(AfterSend(S, id, size, k), id)
        ELSE SetCallback(Buffer(AfterSend(S, id, size, size), id, Bytes(a + k, size - k), sccb),
                         id, "out", "onSocketWrite")
  BY <1>4, <1>5, <1>6, <1>7
<1> QED
  BY <1>8 DEF k

\* What a message that is sent can do to S.
SendResult(S, T, id, sccb) ==
    \/ \E w : Changed(S, T, id, w) /\ Good(w) /\ ClientKeeps(View(S, id), w)
    \/ sccb = "close" /\ Closed(S, T, id)

\* A connection whose send failed has a pending error and the timer that reports it.
LEMMA FailLaterResult ==
  ASSUME NEW S, CoreInv(S), NEW id \in DOMAIN S.conns, S.conns[id].status = "CONNECTED",
         NEW R, NEW n, Changed(S, R, id, [View(S, id) EXCEPT !.net = n]),
         Good([View(S, id) EXCEPT !.net = n]),
         LET m == View(S, id).net
         IN  n.inq = m.inq /\ n.recvd = m.recvd /\ n.fin = m.fin /\ n.rst = m.rst,
         NEW sccb
  PROVE  SendResult(S, FailLater(R, id), id, sccb)
<1> DEFINE v == View(S, id)
           u == [v EXCEPT !.net = n]
           w == [View(R, id) EXCEPT !.conn = [@ EXCEPT !.status = "PENDING_ERROR"],
                                    !.timer = "onSendMessageError"]
<1>1. id \in Ids(S) /\ v.conn = S.conns[id] /\ v.conn \in Conn
  BY ConnView
<1>2. View(R, id) = u /\ u.conn = v.conn /\ u.net = n /\ u.ptr = v.ptr /\ u.cb = v.cb
  BY DEF Changed, View
<1>3. CoreInv(R) /\ id \in DOMAIN R.conns
  BY <1>1, <1>2, ChangeKeeps DEF Changed
<1>4. R.conns[id].status = "CONNECTED"
  <2>1. View(R, id).conn = R.conns[id]
    BY <1>3 DEF View
  <2> QED
    BY <1>1, <1>2, <2>1
<1>5. Changed(R, FailLater(R, id), id, w) /\ Good(w)
  BY <1>3, <1>4, FailLaterKeeps
<1>6. Changed(S, FailLater(R, id), id, w)
  BY <1>5, ChangesCompose
<1>7. ClientKeeps(v, w)
  <2>1. /\ w.ptr = v.ptr /\ w.cb = v.cb /\ w.net = n /\ w.timer = "onSendMessageError"
        /\ w.conn = [v.conn EXCEPT !.status = "PENDING_ERROR"]
    BY <1>2 DEF View
  <2>2. w.conn.status = "PENDING_ERROR" /\ w.conn.fresh = v.conn.fresh
    BY <1>1, <2>1 DEF Conn
  <2> HIDE DEF w, v
  <2> QED
    BY <1>1, <2>1, <2>2 DEF ClientKeeps, v
<1> QED
  BY <1>5, <1>6, <1>7 DEF SendResult

\* The message did not fit into the kernel's buffer; what is left is buffered.
LEMMA BufferRestKeeps ==
  ASSUME NEW S, CoreInv(S), NEW id \in DOMAIN S.conns, S.conns[id].status = "CONNECTED",
         S.conns[id].wbuf = <<>>, NEW size \in Nat, NEW sccb \in {None, "close"},
         LET k == Least(S.net[id].room, size)
         IN  size - k # 0 /\ ~Overflows(S, id, size - k)
  PROVE  LET a == S.net[id].accepted
             k == Least(S.net[id].room, size)
             T == SetCallback(Buffer(AfterSend(S, id, size, size), id,
                                     Bytes(a + k, size - k), sccb),
                              id, "out", "onSocketWrite")
         IN  SendResult(S, T, id, sccb)
<1> DEFINE v == View(S, id)
           a == S.net[id].accepted
           k == Least(S.net[id].room, size)
           rest == Bytes(a + k, size - k)
           P == AfterSend(S, id, size, size)
           Q == Buffer(P, id, rest, sccb)
           T == SetCallback(Q, id, "out", "onSocketWrite")
<1>1. /\ id \in Ids(S) /\ v.conn = S.conns[id] /\ v.net = S.net[id] /\ Good(v)
      /\ v.conn \in Conn /\ v.conn.wbuf = <<>> /\ v.conn.status = "CONNECTED"
      /\ v.net \in Net /\ a \in Nat
  BY ConnView DEF Net
<1>2. PICK n \in Net :
        /\ Changed(S, P, id, [v EXCEPT !.net = n])
        /\ n.accepted = a + size
        /\ n.wire = Bytes(0, a + k) /\ Len(n.wire) = a + k
        /\ k \in 0..size
        /\ n.inq = v.net.inq /\ n.recvd = v.net.recvd
        /\ n.fin = v.net.fin /\ n.rst = v.net.rst
  <2>1. \E n \in Net :
          /\ Changed(S, AfterSend(S, id, size, size), id, [v EXCEPT !.net = n])
          /\ n.accepted = v.net.accepted + size
          /\ n.wire = Bytes(0, v.net.accepted + Least(v.net.room, size))
          /\ Len(n.wire) = v.net.accepted + Least(v.net.room, size)
          /\ Least(v.net.room, size) \in 0..size
          /\ n.inq = v.net.inq /\ n.recvd = v.net.recvd
          /\ n.fin = v.net.fin /\ n.rst = v.net.rst
    BY AfterSendChanges
  <2> HIDE DEF v
  <2> QED
    BY <1>1, <2>1
<1>3. k \in Nat /\ a + k \in Nat /\ size - k \in Nat /\ size - k # 0
  BY <1>1, <1>2
<1>4. rest \in Seq(Nat) /\ Len(rest) = size - k /\ rest # <<>>
  <2>1. /\ Bytes(a + k, size - k) \in Seq(Nat) /\ Len(Bytes(a + k, size - k)) = size - k
        /\ Bytes(a + k, size - k) = <<>> <=> size - k = 0
    BY <1>3, BytesProperties
  <2> QED
    BY <1>3, <2>1
<1> HIDE DEF rest, k, P
<1> DEFINE c == [v.conn EXCEPT !.wbuf = rest, !.sccb = sccb]
           u == [[v EXCEPT !.net = n] EXCEPT !.conn = c]
           w == [u EXCEPT !.cb = [@ EXCEPT !["out"] = "onSocketWrite"]]
<1>5. Changed(S, Q, id, u)
  <2>1. Struct(P) /\ id \in DOMAIN P.conns /\ View(P, id) = [v EXCEPT !.net = n]
    BY <1>2 DEF Changed
  <2>2. P.conns[id] = v.conn
    BY <2>1 DEF View
  <2>3. <<>> \o rest = rest
    BY <1>4, ConcatEmptySeq
  <2>4. [P.conns[id] EXCEPT !.wbuf = @ \o rest, !.sccb = sccb] = c
    BY <1>1, <2>2, <2>3
  <2>5. Q = [P EXCEPT !.conns = [@ EXCEPT ![id] = c]]
    <3>1. Buffer(P, id, rest, sccb) =
            [P EXCEPT !.conns = [@ EXCEPT ![id] =
                [P.conns[id] EXCEPT !.wbuf = @ \o rest, !.sccb = sccb]]]
      BY <2>1 DEF Struct, Shape, Buffer
    <3> HIDE DEF c
    <3> QED
      BY <2>4, <3>1
  <2> HIDE DEF c, v, Q
  <2>6. Changed(P, Q, id, u)
    BY <2>1, <2>5, ConnChanges
  <2> QED
    BY <1>2, <2>6, ChangesCompose
<1>6. Changed(S, T, id, w)
  <2>1. Struct(Q) /\ id \in Ids(Q) /\ View(Q, id) = u
    BY <1>1, <1>5 DEF Changed
  <2>2. "out" \in IO!Bits /\ "onSocketWrite" \in Handlers \cup {None}
    BY DEF IO!Bits, Handlers
  <2> HIDE DEF u, Q
  <2>3. Changed(Q, T, id, w)
    BY <2>1, <2>2, SetCallbackChanges
  <2> QED
    BY <1>5, <2>3, ChangesCompose
<1>7. /\ w.ptr = v.ptr /\ w.cb = [v.cb EXCEPT !["out"] = "onSocketWrite"]
      /\ w.conn = c /\ w.net = n /\ w.timer = v.timer
  BY DEF View
<1>8. /\ c.status = "CONNECTED" /\ c.rbuf = v.conn.rbuf /\ c.fresh = v.conn.fresh
      /\ c.wbuf = rest /\ c.sccb = sccb /\ c \in Conn
  <2> HIDE DEF v
  <2> QED
    BY <1>1, <1>4 DEF Conn
<1>9. /\ w.cb["in"] = v.cb["in"] /\ w.cb["err"] = v.cb["err"]
      /\ w.cb["out"] = "onSocketWrite" /\ w.cb \in CallbackSet
      /\ v.cb["out"] = None
  <2>1. v.cb \in CallbackSet
    BY <1>1 DEF Good, ViewType
  <2>2. v.cb["out"] = None
    BY <1>1 DEF Good, CallbacksFit
  <2> HIDE DEF w, v
  <2> QED
    BY <1>7, <2>1, <2>2 DEF CallbackSet, IO!Bits, Handlers
<1> HIDE DEF w, c, v
<1>10. Good(w)
  <2>1. ViewType(w)
    BY <1>1, <1>7, <1>8, <1>9 DEF Good, ViewType
  <2>2. CallbacksFit(w)
    BY <1>1, <1>4, <1>7, <1>8, <1>9, LoopAssumption DEF Good, CallbacksFit, Handlers
  <2>3. TimerFits(w)
    BY <1>1, <1>7, <1>8, <1>9 DEF Good, TimerFits
  <2>4. StreamFits(w)
    <3>1. w.net.wire = Bytes(0, a + k) /\ Len(w.net.wire) = a + k
      BY <1>2, <1>7
    <3>2. w.conn.wbuf = rest /\ Len(w.conn.wbuf) = size - k
      BY <1>4, <1>7, <1>8
    <3>3. (a + k) + (size - k) = a + size
      BY <1>1, <1>3
    <3>4. w.net.accepted = a + size
      BY <1>2, <1>7
    <3>5. Len(w.net.wire) + Len(w.conn.wbuf) = w.net.accepted
      BY <3>1, <3>2, <3>3, <3>4
    <3>6. rest = Bytes(a + k, size - k)
      BY DEF rest, k
    <3> QED
      BY <3>1, <3>2, <3>5, <3>6 DEF StreamFits
  <2>5. LimitsKept(w)
    <3>1. MaxWrite > 0 => size - k <= MaxWrite
      <4>1. Len(S.conns[id].wbuf) = 0
        BY <1>1
      <4>2. ~(MaxWrite > 0 /\ (size - k) + 0 > MaxWrite)
        BY <1>1, <4>1 DEF Overflows, k
      <4> QED
        BY <1>3, <4>2, TcpAssumption
    <3>2. MaxRead > 0 => w.conn.rbuf <= MaxRead
      BY <1>1, <1>7, <1>8 DEF Good, LimitsKept
    <3>3. w.net.inq + w.conn.rbuf <= w.net.recvd
      BY <1>1, <1>2, <1>7, <1>8 DEF Good, LimitsKept
    <3> QED
      BY <1>4, <1>7, <1>8, <3>1, <3>2, <3>3 DEF LimitsKept
  <2> QED
    BY <2>1, <2>2, <2>3, <2>4, <2>5 DEF Good
<1>11. ClientKeeps(v, w)
  BY <1>1, <1>2, <1>7, <1>8, <1>9 DEF ClientKeeps
<1> QED
  BY <1>6, <1>10, <1>11 DEF SendResult, v, k, rest, P

\* sendMessage with an empty write buffer, on each of its paths.
LEMMA SendDirectlyKeeps ==
  ASSUME NEW S, CoreInv(S), NEW id \in DOMAIN S.conns, S.conns[id].status = "CONNECTED",
         S.conns[id].wbuf = <<>>, NEW size \in Nat, NEW sccb \in {None, "close"}
  PROVE  SendResult(S, SendDirectly(S, id, Bytes(S.net[id].accepted, size), sccb), id, sccb)
<1> DEFINE v == View(S, id)
           a == S.net[id].accepted
           k == Least(S.net[id].room, size)
           T == SendDirectly(S, id, Bytes(a, size), sccb)
           P == AfterSend(S, id, size, k)
<1>1. /\ id \in Ids(S) /\ v.conn = S.conns[id] /\ v.net = S.net[id] /\ Good(v)
      /\ v.conn.wbuf = <<>> /\ v.net \in Net /\ a \in Nat /\ Struct(S)
  BY ConnView DEF Net, CoreInv
<1>2. CASE S.net[id].rst
  <2> DEFINE n == [S.net[id] EXCEPT !.soerr = FALSE]
             R == [S EXCEPT !.net[id].soerr = FALSE]
             u == [v EXCEPT !.net = n]
  <2>1. T = FailLater(R, id)
    BY <1>2 DEF SendDirectly
  <2>2. R = [S EXCEPT !.net = [@ EXCEPT ![id] = n]]
    BY <1>1, UpdatesOfOneEntry
  <2>3. /\ n \in Net /\ n.wire = v.net.wire /\ n.accepted = v.net.accepted
        /\ n.inq = v.net.inq /\ n.recvd = v.net.recvd
        /\ n.fin = v.net.fin /\ n.rst = v.net.rst
    <3> HIDE DEF v
    <3> QED
      BY <1>1 DEF Net
  <2>4. u.cb = v.cb /\ u.conn = v.conn /\ u.net = n /\ u.timer = v.timer
    BY DEF View
  <2> HIDE DEF n, R
  <2>5. Changed(S, R, id, u)
    BY <1>1, <2>2, NetChanges
  <2> HIDE DEF u, v
  <2>6. Good(u)
    BY <1>1, <2>3, <2>4 DEF Good, ViewType, CallbacksFit, TimerFits, StreamFits, LimitsKept
  <2> QED
    BY <2>1, <2>3, <2>5, <2>6, FailLaterResult DEF u, v
<1>3. CASE ~S.net[id].rst
  <2>1. T = IF size - k = 0
            THEN IF sccb = "close" THEN closeSocket(P, id) ELSE P
            ELSE IF Overflows(S, id, size - k) THEN FailLater(P, id)
            ELSE SetCallback(Buffer(AfterSend(S, id, size, size), id,
                                    Bytes(a + k, size - k), sccb),
                             id, "out", "onSocketWrite")
    BY <1>3, SendDirectlyByRoom
  <2>2. k \in 0..size
    <3>1. S.net[id].room \in Nat
      BY <1>1 DEF Net
    <3> QED
      BY <3>1 DEF Least
  <2>3. PICK n \in Net :
          /\ Changed(S, P, id, [v EXCEPT !.net = n])
          /\ n.accepted = v.net.accepted + k
          /\ n.wire = Bytes(0, v.net.accepted + k) /\ Len(n.wire) = v.net.accepted + k
          /\ n.inq = v.net.inq /\ n.recvd = v.net.recvd
          /\ n.fin = v.net.fin /\ n.rst = v.net.rst
    <3>1. k \in Nat
      BY <2>2
    <3>2. ASSUME NEW m \in Nat
          PROVE  \E n \in Net :
            /\ Changed(S, AfterSend(S, id, size, m), id, [v EXCEPT !.net = n])
            /\ n.accepted = v.net.accepted + m
            /\ n.wire = Bytes(0, v.net.accepted + Least(v.net.room, size))
            /\ Len(n.wire) = v.net.accepted + Least(v.net.room, size)
            /\ n.inq = v.net.inq /\ n.recvd = v.net.recvd
            /\ n.fin = v.net.fin /\ n.rst = v.net.rst
      BY AfterSendChanges
    <3> HIDE DEF v
    <3> QED
      BY <1>1, <3>1, <3>2
  <2> DEFINE u == [v EXCEPT !.net = n]
  <2>4. Good(u)
    <3>1. k \in Nat
      BY <2>2
    <3> HIDE DEF k
    <3> QED
      BY <1>1, <2>3, <3>1, SentViewGood
  <2>5. u.ptr = v.ptr /\ u.cb = v.cb /\ u.conn = v.conn /\ u.net = n /\ u.timer = v.timer
    BY DEF View
  <2> HIDE DEF k, P
  <2>6. CASE size - k = 0 /\ sccb = "close"
    <3>1. Struct(P) /\ id \in Ids(P)
      BY <1>1, <2>3 DEF Changed
    <3>2. Closed(P, closeSocket(P, id), id)
      BY <3>1, CloseCloses
    <3>3. P.sockets[id] = S.sockets[id]
      <4>1. View(P, id).ptr = View(S, id).ptr
        BY <2>3, <2>5 DEF Changed
      <4> QED
        BY <4>1 DEF View
    <3>4. Closed(S, closeSocket(P, id), id)
      BY <2>3, <3>2, <3>3 DEF Changed, Closed
    <3> QED
      BY <2>1, <2>6, <3>4 DEF SendResult
  <2>7. CASE size - k = 0 /\ sccb # "close"
    <3>1. T = P
      BY <2>1, <2>7
    <3> HIDE DEF T, u, v
    <3>2. ClientKeeps(v, u)
      BY <2>3, <2>5 DEF ClientKeeps
    <3>3. Changed(S, P, id, u)
      BY <2>3 DEF u
    <3>4. SendResult(S, P, id, sccb)
      BY <2>4, <3>2, <3>3 DEF SendResult, v
    <3> QED
      BY <3>1, <3>4 DEF T
  <2>8. CASE size - k # 0 /\ Overflows(S, id, size - k)
    <3>1. T = FailLater(P, id)
      BY <2>1, <2>8
    <3>2. SendResult(S, FailLater(P, id), id, sccb)
      BY <2>3, <2>4, FailLaterResult
    <3> QED
      BY <3>1, <3>2
  <2>9. CASE size - k # 0 /\ ~Overflows(S, id, size - k)
    BY <2>1, <2>9, BufferRestKeeps DEF k
  <2> QED
    BY <2>6, <2>7, <2>8, <2>9
<1> QED
  BY <1>2, <1>3

\* sendMessage with bytes in the write buffer: it overflows or grows.
LEMMA BufferMoreKeeps ==
  ASSUME NEW S, CoreInv(S), NEW id \in DOMAIN S.conns, S.conns[id].status = "CONNECTED",
         S.conns[id].wbuf # <<>>, NEW size \in Nat, NEW sccb \in {None, "close"},
         ~Overflows(S, id, size)
  PROVE  SendResult(S, Buffer([S EXCEPT !.net[id].accepted = @ + size], id,
                              Bytes(S.net[id].accepted, size), sccb), id, sccb)
<1> DEFINE v == View(S, id)
           a == S.net[id].accepted
           n == [v.net EXCEPT !.accepted = a + size]
           c == [v.conn EXCEPT !.wbuf = @ \o Bytes(a, size), !.sccb = sccb]
           P == [S EXCEPT !.net[id].accepted = @ + size]
           Q == Buffer(P, id, Bytes(a, size), sccb)
           u == [v EXCEPT !.net = n]
           w == [u EXCEPT !.conn = c]
<1>1. /\ id \in Ids(S) /\ v.conn = S.conns[id] /\ v.net = S.net[id] /\ Good(v)
      /\ v.conn \in Conn /\ v.conn.wbuf \in Seq(Nat)
      /\ v.net \in Net /\ a \in Nat /\ Struct(S) /\ Shape(S)
  BY ConnView DEF Net, Conn, CoreInv, Struct
<1> DEFINE m == Len(v.net.wire)
           l == Len(v.conn.wbuf)
<1>2. /\ m \in Nat /\ l \in Nat /\ m + l = a
      /\ v.net.wire = Bytes(0, m) /\ v.conn.wbuf = Bytes(m, l)
  <2>1. v.net.wire \in Seq(Nat)
    BY <1>1 DEF Net
  <2>2. m \in Nat /\ l \in Nat
    BY <1>1, <2>1
  <2> QED
    BY <1>1, <2>2 DEF Good, StreamFits
<1>3. /\ v.conn.wbuf \o Bytes(a, size) = Bytes(m, l + size)
      /\ Bytes(m, l + size) \in Seq(Nat) /\ Len(Bytes(m, l + size)) = l + size
      /\ Bytes(m, l + size) # <<>>
  <2>1. Bytes(m, l) \o Bytes(m + l, size) = Bytes(m, l + size)
    BY <1>2, BytesJoin
  <2>2. l # 0
    BY <1>1
  <2> HIDE DEF m, l
  <2>3. l + size \in Nat /\ l + size # 0
    BY <1>2, <2>2
  <2>4. /\ Bytes(m, l + size) \in Seq(Nat) /\ Len(Bytes(m, l + size)) = l + size
        /\ Bytes(m, l + size) = <<>> <=> l + size = 0
    <3>1. m \in Nat /\ l + size \in Nat
      BY <1>2, <2>3
    <3> QED
      BY <3>1, BytesProperties
  <2> QED
    BY <1>2, <2>1, <2>3, <2>4
<1>4. Changed(S, P, id, u)
  <2>1. P = [S EXCEPT !.net = [@ EXCEPT ![id] = n]]
    BY <1>1 DEF Shape
  <2> HIDE DEF n
  <2> QED
    BY <1>1, <2>1, NetChanges
<1>5. Changed(S, Q, id, w)
  <2>1. Struct(P) /\ id \in DOMAIN P.conns /\ View(P, id) = u
    BY <1>4 DEF Changed
  <2>2. P.conns[id] = v.conn
    <3>1. View(P, id).conn = P.conns[id]
      BY <2>1 DEF View
    <3>2. u.conn = v.conn
      BY DEF View
    <3> QED
      BY <2>1, <3>1, <3>2
  <2> HIDE DEF P, v, u
  <2>3. Q = [P EXCEPT !.conns = [@ EXCEPT ![id] = c]]
    BY <2>1, <2>2 DEF Struct, Shape, Buffer
  <2> HIDE DEF c, Q
  <2>4. Changed(P, Q, id, w)
    BY <2>1, <2>3, ConnChanges
  <2> QED
    BY <1>4, <2>4, ChangesCompose
<1>6. /\ w.ptr = v.ptr /\ w.cb = v.cb
      /\ w.conn = c /\ w.net = n /\ w.timer = v.timer
  BY DEF View
<1> HIDE DEF v
<1>7. /\ c.status = v.conn.status /\ c.rbuf = v.conn.rbuf /\ c.fresh = v.conn.fresh
      /\ c.wbuf = Bytes(m, l + size) /\ c.sccb = sccb /\ c \in Conn
  <2>1. c = [v.conn EXCEPT !.wbuf = Bytes(m, l + size), !.sccb = sccb]
    BY <1>3
  <2> HIDE DEF c, m, l
  <2> QED
    BY <1>1, <1>3, <2>1 DEF Conn
<1>8. /\ n.wire = v.net.wire /\ n.accepted = a + size /\ n.inq = v.net.inq
      /\ n.recvd = v.net.recvd /\ n.fin = v.net.fin /\ n.rst = v.net.rst /\ n \in Net
  <2>1. a + size \in Nat
    BY <1>1
  <2> HIDE DEF a
  <2> QED
    BY <1>1, <2>1 DEF Net
<1> HIDE DEF w, c, n
<1>9. ViewType(w) /\ CallbacksFit(w) /\ TimerFits(w)
  <2>1. c.wbuf # <<>> /\ v.conn.wbuf # <<>>
    BY <1>1, <1>3, <1>7
  <2> HIDE DEF a, m, l
  <2> QED
    BY <1>1, <1>6, <1>7, <1>8, <2>1 DEF Good, ViewType, CallbacksFit, TimerFits
<1>10. StreamFits(w)
  <2>1. Len(w.net.wire) = m /\ Len(w.conn.wbuf) = l + size /\ w.net.accepted = a + size
    BY <1>3, <1>6, <1>7, <1>8
  <2>2. m + (l + size) = a + size
    <3> HIDE DEF m, l, a
    <3> QED
      BY <1>2
  <2>3. w.net.wire = Bytes(0, m) /\ w.conn.wbuf = Bytes(m, l + size)
    BY <1>2, <1>6, <1>7, <1>8
  <2> HIDE DEF a, m, l
  <2> QED
    BY <2>1, <2>2, <2>3 DEF StreamFits
<1>11. LimitsKept(w)
  <2>1. MaxWrite > 0 => l + size <= MaxWrite
    <3>1. ~(MaxWrite > 0 /\ size + l > MaxWrite)
      BY <1>1 DEF Overflows
    <3> QED
      BY <1>2, <3>1, TcpAssumption
  <2>2. Len(w.conn.wbuf) = l + size
    BY <1>3, <1>6, <1>7
  <2> HIDE DEF l, m, a
  <2> QED
    BY <1>1, <1>6, <1>7, <1>8, <2>1, <2>2 DEF Good, LimitsKept
<1>12. ClientKeeps(v, w)
  BY <1>1, <1>6, <1>7, <1>8 DEF ClientKeeps
<1> QED
  BY <1>5, <1>9, <1>10, <1>11, <1>12 DEF SendResult, Good, v, n, c, w

\* A message that is sent does nothing, or changes or closes its connection.
LEMMA SendKeeps ==
  ASSUME NEW S, CoreInv(S), NEW id, NEW size \in Nat, NEW sccb \in {None, "close"}
  PROVE  LET T == sendMessage(S, id, size, sccb)
         IN  T = S \/ (id \in DOMAIN S.conns /\ SendResult(S, T, id, sccb))
<1> DEFINE T == sendMessage(S, id, size, sccb)
           a == S.net[id].accepted
<1>1. CASE id \notin DOMAIN S.conns \/ S.conns[id].status # "CONNECTED"
  BY <1>1 DEF sendMessage
<1>2. CASE id \in DOMAIN S.conns /\ S.conns[id].status = "CONNECTED"
  <2>1. T = IF S.conns[id].wbuf = <<>> THEN SendDirectly(S, id, Bytes(a, size), sccb)
            ELSE IF Overflows(S, id, size) THEN FailLater(S, id)
            ELSE Buffer([S EXCEPT !.net[id].accepted = @ + size], id, Bytes(a, size), sccb)
    BY <1>2 DEF sendMessage, Bytes
  <2>2. CASE S.conns[id].wbuf = <<>>
    BY <1>2, <2>1, <2>2, SendDirectlyKeeps
  <2>3. CASE S.conns[id].wbuf # <<>> /\ Overflows(S, id, size)
    <3>1. T = FailLater(S, id)
      BY <2>1, <2>3
    <3> DEFINE v == View(S, id)
               w == [v EXCEPT !.conn = [@ EXCEPT !.status = "PENDING_ERROR"],
                              !.timer = "onSendMessageError"]
    <3>2. Changed(S, FailLater(S, id), id, w) /\ Good(w)
      BY <1>2, FailLaterKeeps
    <3>3. ClientKeeps(v, w)
      <4>1. v.conn \in Conn /\ v.conn.status = "CONNECTED"
        BY <1>2, ConnView
      <4>2. /\ w.ptr = v.ptr /\ w.cb = v.cb /\ w.net = v.net
            /\ w.timer = "onSendMessageError"
            /\ w.conn = [v.conn EXCEPT !.status = "PENDING_ERROR"]
        BY DEF View
      <4>3. w.conn.status = "PENDING_ERROR" /\ w.conn.fresh = v.conn.fresh
        BY <4>1, <4>2 DEF Conn
      <4> HIDE DEF w, v
      <4> QED
        BY <4>1, <4>2, <4>3 DEF ClientKeeps
    <3> QED
      BY <1>2, <3>1, <3>2, <3>3 DEF SendResult
  <2>4. CASE S.conns[id].wbuf # <<>> /\ ~Overflows(S, id, size)
    BY <1>2, <2>1, <2>4, BufferMoreKeeps
  <2> QED
    BY <2>2, <2>3, <2>4
<1> QED
  BY <1>1, <1>2

-----------------------------------------------------------------------------
(* The kernel, and the handlers *)

\* What the kernel and the peers do to a socket leaves its stream alone.
LEMMA NetKeeps ==
  ASSUME NEW S, CoreInv(S), NEW id \in Ids(S), NEW n \in Net,
         n.wire = S.net[id].wire, n.accepted = S.net[id].accepted,
         n.inq + S.net[id].recvd <= n.recvd + S.net[id].inq
  PROVE  LET w == [View(S, id) EXCEPT !.net = n]
         IN  /\ Changed(S, [S EXCEPT !.net = [@ EXCEPT ![id] = n]], id, w) /\ Good(w)
             /\ w.ptr = View(S, id).ptr /\ w.cb = View(S, id).cb
             /\ w.conn = View(S, id).conn /\ w.timer = View(S, id).timer /\ w.net = n
<1> DEFINE v == View(S, id)
           w == [v EXCEPT !.net = n]
<1>1. Good(v) /\ v.net = S.net[id] /\ Struct(S)
  BY DEF CoreInv, View
<1>2. /\ w.ptr = v.ptr /\ w.cb = v.cb /\ w.conn = v.conn /\ w.timer = v.timer
      /\ w.net = n
  BY DEF View
<1>3. Changed(S, [S EXCEPT !.net = [@ EXCEPT ![id] = n]], id, w)
  BY <1>1, NetChanges
<1> HIDE DEF v, w
<1>4. n.inq + v.conn.rbuf <= n.recvd
  <2>1. /\ v.net.inq \in Nat /\ v.net.recvd \in Nat /\ n.inq \in Nat /\ n.recvd \in Nat
        /\ v.conn.rbuf \in Nat /\ v.net.inq + v.conn.rbuf <= v.net.recvd
        /\ n.inq + v.net.recvd <= n.recvd + v.net.inq
    BY <1>1 DEF Good, ViewType, Net, Conn, LimitsKept
  <2> QED
    BY <2>1
<1>5. Good(w)
  BY <1>1, <1>2, <1>4
  DEF Good, ViewType, CallbacksFit, TimerFits, StreamFits, LimitsKept
<1> QED
  BY <1>2, <1>3, <1>5 DEF v, w

\* The fields that errors, reading and closing change.
LEMMA ConnKeeps ==
  ASSUME NEW S, CoreInv(S), NEW id \in DOMAIN S.conns, NEW c \in Conn,
         c.wbuf = S.conns[id].wbuf, c.rbuf <= S.conns[id].rbuf,
         \/ c.status = S.conns[id].status
         \/ c.status = "PENDING_ERROR" /\ View(S, id).timer # "onAsyncConnectTimeout"
         \/ c.status = "PEER_CLOSED" /\ View(S, id).cb["in"] # None
  PROVE  LET w == [View(S, id) EXCEPT !.conn = c]
         IN  /\ Changed(S, [S EXCEPT !.conns = [@ EXCEPT ![id] = c]], id, w) /\ Good(w)
             /\ w.ptr = View(S, id).ptr /\ w.cb = View(S, id).cb
             /\ w.conn = c /\ w.timer = View(S, id).timer /\ w.net = View(S, id).net
<1> DEFINE v == View(S, id)
           w == [v EXCEPT !.conn = c]
<1>1. Good(v) /\ v.conn = S.conns[id] /\ v.conn.status \in Statuses /\ Struct(S)
  BY ConnView DEF CoreInv
<1>2. /\ w.ptr = v.ptr /\ w.cb = v.cb /\ w.conn = c /\ w.timer = v.timer
      /\ w.net = v.net
  BY DEF View
<1>3. Changed(S, [S EXCEPT !.conns = [@ EXCEPT ![id] = c]], id, w)
  BY <1>1, ConnChanges
<1> HIDE DEF v, w
<1>4. LimitsKept(w)
  <2>1. /\ v.net.inq \in Nat /\ v.net.recvd \in Nat /\ c.rbuf \in Nat
        /\ v.conn.rbuf \in Nat /\ v.net.inq + v.conn.rbuf <= v.net.recvd
        /\ c.rbuf <= v.conn.rbuf
        /\ MaxRead > 0 => v.conn.rbuf <= MaxRead
    BY <1>1 DEF Good, ViewType, Net, Conn, LimitsKept
  <2>2. v.net.inq + c.rbuf <= v.net.recvd
    BY <2>1
  <2>3. MaxRead > 0 => c.rbuf <= MaxRead
    BY <2>1, TcpAssumption
  <2> QED
    BY <1>1, <1>2, <2>2, <2>3 DEF Good, LimitsKept
<1>5. ViewType(w) /\ StreamFits(w)
  BY <1>1, <1>2 DEF Good, ViewType, StreamFits
<1>6. CallbacksFit(w) /\ TimerFits(w)
  <2>1. CASE c.status = v.conn.status
    BY <1>1, <1>2, <2>1 DEF Good, CallbacksFit, TimerFits
  <2>2. CASE c.status = "PENDING_ERROR" /\ v.timer # "onAsyncConnectTimeout"
    BY <1>1, <1>2, <2>2 DEF Good, CallbacksFit, TimerFits, Statuses
  <2>3. CASE c.status = "PEER_CLOSED" /\ v.cb["in"] # None
    BY <1>1, <1>2, <2>3 DEF Good, CallbacksFit, TimerFits, Statuses
  <2> QED
    BY <1>1, <2>1, <2>2, <2>3 DEF v
<1> QED
  BY <1>2, <1>3, <1>4, <1>5, <1>6 DEF Good, v, w

\* A handler that reports an error.
Failed(v, w) ==
    /\ w.ptr = v.ptr /\ w.cb = v.cb /\ w.timer = v.timer
    /\ w.conn.status = "PENDING_ERROR" /\ w.conn.fresh = v.conn.fresh

\* A pending error fits any connection but one that waits for its connect timeout.
LEMMA SetErrorKeeps ==
  ASSUME NEW S, CoreInv(S), NEW id \in DOMAIN S.conns,
         View(S, id).timer # "onAsyncConnectTimeout"
  PROVE  \E w : Changed(S, SetError(S, id), id, w) /\ Good(w) /\ Failed(View(S, id), w)
<1> DEFINE c == [S.conns[id] EXCEPT !.status = "PENDING_ERROR"]
           v == View(S, id)
           w == [v EXCEPT !.conn = c]
<1>1. /\ Struct(S) /\ S.conns[id] \in Conn /\ v.conn = S.conns[id]
      /\ SetError(S, id) = [S EXCEPT !.conns = [@ EXCEPT ![id] = c]]
  BY ConnView, UpdatesOfOneEntry DEF CoreInv
<1>2. /\ c \in Conn /\ c.wbuf = S.conns[id].wbuf /\ c.rbuf = S.conns[id].rbuf
      /\ c.fresh = S.conns[id].fresh /\ c.status = "PENDING_ERROR"
      /\ c.rbuf \in Nat
  BY <1>1 DEF Conn, Statuses
<1>3. c.rbuf <= S.conns[id].rbuf
  BY <1>2
<1> HIDE DEF c
<1>4. /\ Changed(S, [S EXCEPT !.conns = [@ EXCEPT ![id] = c]], id, w) /\ Good(w)
      /\ w.ptr = v.ptr /\ w.cb = v.cb /\ w.conn = c /\ w.timer = v.timer
  BY <1>2, <1>3, ConnKeeps
<1> HIDE DEF w
<1> QED
  BY <1>1, <1>2, <1>4 DEF Failed

\* Reading SO_ERROR changes nothing the invariant speaks of.
LEMMA ClearErrorKeeps ==
  ASSUME NEW S, CoreInv(S), NEW id \in DOMAIN S.conns
  PROVE  LET T == [S EXCEPT !.net[id].soerr = FALSE]
         IN  \E w : /\ Changed(S, T, id, w) /\ Good(w)
                    /\ w.ptr = View(S, id).ptr /\ w.cb = View(S, id).cb
                    /\ w.conn = View(S, id).conn /\ w.timer = View(S, id).timer
<1> DEFINE n == [S.net[id] EXCEPT !.soerr = FALSE]
           T == [S EXCEPT !.net[id].soerr = FALSE]
<1>1. /\ Struct(S) /\ S.net[id] \in Net /\ id \in Ids(S)
      /\ T = [S EXCEPT !.net = [@ EXCEPT ![id] = n]]
  BY ConnView, UpdatesOfOneEntry DEF CoreInv
<1>2. /\ n \in Net /\ n.wire = S.net[id].wire /\ n.accepted = S.net[id].accepted
      /\ n.inq = S.net[id].inq /\ n.recvd = S.net[id].recvd /\ n.inq \in Nat /\ n.recvd \in Nat
  BY <1>1 DEF Net
<1>3. n.inq + S.net[id].recvd <= n.recvd + S.net[id].inq
  BY <1>2
<1> HIDE DEF n, T
<1> DEFINE w == [View(S, id) EXCEPT !.net = n]
<1>4. /\ Changed(S, [S EXCEPT !.net = [@ EXCEPT ![id] = n]], id, w) /\ Good(w)
      /\ w.ptr = View(S, id).ptr /\ w.cb = View(S, id).cb
      /\ w.conn = View(S, id).conn /\ w.timer = View(S, id).timer
  BY <1>1, <1>2, <1>3, NetKeeps
<1> HIDE DEF w
<1> QED
  BY <1>1, <1>4 DEF T

\* An operation on a socket, after one that left what view v of it shows.
LEMMA ErrorKeeps ==
  ASSUME NEW S, CoreInv(S), NEW id \in DOMAIN S.conns,
         View(S, id).timer # "onAsyncConnectTimeout"
  PROVE  LET T == SetError([S EXCEPT !.net[id].soerr = FALSE], id)
         IN  \E w : Changed(S, T, id, w) /\ Good(w) /\ Failed(View(S, id), w)
<1> DEFINE R == [S EXCEPT !.net[id].soerr = FALSE]
           v == View(S, id)
<1>1. PICK u : /\ Changed(S, R, id, u) /\ Good(u)
               /\ u.ptr = v.ptr /\ u.cb = v.cb /\ u.conn = v.conn /\ u.timer = v.timer
  BY ClearErrorKeeps
<1>2. id \in Ids(S)
  BY ConnView
<1> HIDE DEF R
<1>3. CoreInv(R) /\ id \in DOMAIN R.conns /\ View(R, id) = u
  BY <1>1, <1>2, ChangeKeeps DEF Changed
<1>4. PICK w : Changed(R, SetError(R, id), id, w) /\ Good(w) /\ Failed(u, w)
  BY <1>1, <1>3, SetErrorKeeps
<1>5. Changed(S, SetError(R, id), id, w)
  BY <1>1, <1>4, ChangesCompose
<1>6. Failed(v, w)
  BY <1>1, <1>4 DEF Failed
<1> QED
  BY <1>4, <1>5, <1>6 DEF R

\* A connection that is not being established can lose its timer, and so can one
\* that is.
LEMMA StopTimerKeeps ==
  ASSUME NEW S, CoreInv(S), NEW id \in DOMAIN S.conns
  PROVE  LET w == [View(S, id) EXCEPT !.timer = None]
         IN  /\ Changed(S, removeSocketTimer(S, id), id, w) /\ Good(w)
             /\ w.ptr = View(S, id).ptr /\ w.cb = View(S, id).cb
             /\ w.conn = View(S, id).conn /\ w.net = View(S, id).net /\ w.timer = None
<1> DEFINE v == View(S, id)
           w == [v EXCEPT !.timer = None]
<1>1. Good(v) /\ v.conn.status \in Statuses /\ Struct(S) /\ id \in Ids(S)
  BY ConnView DEF CoreInv
<1>2. /\ w.ptr = v.ptr /\ w.cb = v.cb /\ w.conn = v.conn /\ w.timer = None
      /\ w.net = v.net
  BY DEF View
<1>3. Changed(S, removeSocketTimer(S, id), id, w)
  BY <1>1, RemoveTimerChanges
<1> HIDE DEF v, w
<1>4. ViewType(w) /\ CallbacksFit(w) /\ StreamFits(w) /\ LimitsKept(w)
  BY <1>1, <1>2 DEF Good, ViewType, CallbacksFit, StreamFits, LimitsKept
<1>5. TimerFits(w)
  BY <1>1, <1>2, LoopAssumption DEF TimerFits, Statuses, TimerHandlers
<1> QED
  BY <1>2, <1>3, <1>4, <1>5 DEF Good, v, w

\* Removing the connect timeout and reading SO_ERROR.
LEMMA EndConnectingKeeps ==
  ASSUME NEW S, CoreInv(S), NEW id \in DOMAIN S.conns
  PROVE  \E w : /\ Changed(S, EndConnecting(S, id), id, w) /\ Good(w)
                /\ w.ptr = View(S, id).ptr /\ w.cb = View(S, id).cb
                /\ w.conn = View(S, id).conn /\ w.timer = None
<1> DEFINE R == removeSocketTimer(S, id)
           v == View(S, id)
           u == [v EXCEPT !.timer = None]
<1>1. /\ Changed(S, R, id, u) /\ Good(u)
      /\ u.ptr = v.ptr /\ u.cb = v.cb /\ u.conn = v.conn /\ u.timer = None
  BY StopTimerKeeps
<1>2. id \in Ids(S)
  BY ConnView
<1> HIDE DEF R, u
<1>3. CoreInv(R) /\ id \in DOMAIN R.conns /\ View(R, id) = u
  BY <1>1, <1>2, ChangeKeeps DEF Changed
<1>4. PICK w : /\ Changed(R, [R EXCEPT !.net[id].soerr = FALSE], id, w) /\ Good(w)
               /\ w.ptr = View(R, id).ptr /\ w.cb = View(R, id).cb
               /\ w.conn = View(R, id).conn /\ w.timer = View(R, id).timer
  BY <1>3, ClearErrorKeeps
<1>5. Changed(S, [R EXCEPT !.net[id].soerr = FALSE], id, w)
  BY <1>1, <1>4, ChangesCompose
<1> QED
  BY <1>1, <1>3, <1>4, <1>5 DEF R, EndConnecting

\* An asynchronous connect has succeeded.
LEMMA ConnectedKeeps ==
  ASSUME NEW S, CoreInv(S), NEW id \in DOMAIN S.conns,
         View(S, id).cb["out"] = "onAsyncConnectSocketWrite"
  PROVE  LET R == EndConnecting(S, id)
             T == SetCallback(SetCallback(R, id, "in", "onSocketRead"), id, "out", None)
         IN  \E w : /\ Changed(S, [T EXCEPT !.conns[id].status = "CONNECTED"], id, w)
                    /\ Good(w) /\ w.ptr = View(S, id).ptr
                    /\ w.cb["in"] = "onSocketRead" /\ w.cb["out"] = None
                    /\ w.conn.status = "CONNECTED" /\ w.conn.fresh = View(S, id).conn.fresh
<1> DEFINE v == View(S, id)
           R == EndConnecting(S, id)
           Q == SetCallback(R, id, "in", "onSocketRead")
           T == SetCallback(Q, id, "out", None)
           U == [T EXCEPT !.conns[id].status = "CONNECTED"]
<1>1. PICK u : /\ Changed(S, R, id, u) /\ Good(u)
               /\ u.ptr = v.ptr /\ u.cb = v.cb /\ u.conn = v.conn /\ u.timer = None
  BY EndConnectingKeeps
<1>2. id \in Ids(S) /\ v.conn \in Conn
  BY ConnView
<1> HIDE DEF R
<1>3. Struct(R) /\ id \in Ids(R) /\ id \in DOMAIN R.conns /\ View(R, id) = u
  BY <1>1, <1>2 DEF Changed
<1> DEFINE q == [u EXCEPT !.cb = [@ EXCEPT !["in"] = "onSocketRead"]]
           t == [q EXCEPT !.cb = [@ EXCEPT !["out"] = None]]
           c == [u.conn EXCEPT !.status = "CONNECTED"]
           w == [t EXCEPT !.conn = c]
<1>4. "in" \in IO!Bits /\ "out" \in IO!Bits /\ "onSocketRead" \in Handlers
  BY DEF IO!Bits, Handlers
<1>5. Changed(R, Q, id, q)
  <2> HIDE DEF Q
  <2> QED
    BY <1>3, <1>4, SetCallbackChanges DEF Q
<1>6. Struct(Q) /\ id \in Ids(Q) /\ View(Q, id) = q /\ id \in DOMAIN Q.conns
  BY <1>3, <1>5 DEF Changed
<1>7. Changed(Q, T, id, t)
  <2> HIDE DEF Q, q
  <2> QED
    BY <1>4, <1>6, SetCallbackChanges
<1>8. Struct(T) /\ View(T, id) = t /\ id \in DOMAIN T.conns
  BY <1>6, <1>7 DEF Changed
<1>9. /\ w.ptr = u.ptr /\ w.timer = u.timer /\ w.net = u.net /\ w.conn = c
      /\ w.cb = [[u.cb EXCEPT !["in"] = "onSocketRead"] EXCEPT !["out"] = None]
      /\ t.conn = u.conn
  <2>1. u = [ptr |-> u.ptr, cb |-> u.cb, conn |-> u.conn, net |-> u.net, timer |-> u.timer]
    BY <1>3 DEF View
  <2> QED
    BY <2>1
<1>10. T.conns[id] = u.conn
  BY <1>8, <1>9 DEF View
<1> HIDE DEF T, t, Q, q
<1>11. U = [T EXCEPT !.conns = [@ EXCEPT ![id] = c]]
  BY <1>8, <1>10 DEF Struct, Shape
<1>12. /\ c.status = "CONNECTED" /\ c.fresh = u.conn.fresh /\ c.rbuf = u.conn.rbuf
       /\ c.wbuf = u.conn.wbuf /\ c \in Conn
  BY <1>1, <1>2 DEF Conn, Statuses
<1> HIDE DEF U, c
<1>13. Changed(T, U, id, w)
  BY <1>8, <1>11, ConnChanges
<1>14. Changed(S, U, id, w)
  BY <1>1, <1>5, <1>7, <1>13, ChangesCompose
<1>15. /\ w.cb \in CallbackSet /\ w.cb["in"] = "onSocketRead" /\ w.cb["out"] = None
       /\ w.cb["err"] = u.cb["err"]
  <2>1. u.cb \in CallbackSet
    BY <1>1 DEF Good, ViewType
  <2> HIDE DEF w
  <2> QED
    BY <1>9, <2>1 DEF CallbackSet, IO!Bits, Handlers
<1> HIDE DEF w
<1>16. Good(w)
  <2>1. u.conn.wbuf = <<>>
    BY <1>1, LoopAssumption DEF Good, CallbacksFit
  <2>2. ViewType(w) /\ StreamFits(w) /\ LimitsKept(w)
    BY <1>1, <1>9, <1>12, <1>15 DEF Good, ViewType, StreamFits, LimitsKept
  <2>3. CallbacksFit(w) /\ TimerFits(w)
    BY <1>1, <1>9, <1>12, <1>15, <2>1, LoopAssumption
    DEF Good, CallbacksFit, TimerFits, Handlers, TimerHandlers
  <2> QED
    BY <2>2, <2>3 DEF Good
<1> QED
  BY <1>1, <1>9, <1>12, <1>14, <1>15, <1>16 DEF U, T, Q, R

\* The status of a connection that reads may become PEER_CLOSED.
LEMMA PeerClosedKeeps ==
  ASSUME NEW S, CoreInv(S), NEW id \in DOMAIN S.conns, View(S, id).cb["in"] # None
  PROVE  LET T == [S EXCEPT !.conns[id].status = "PEER_CLOSED"]
         IN  \E w : /\ Changed(S, T, id, w) /\ Good(w)
                    /\ w.ptr = View(S, id).ptr /\ w.cb = View(S, id).cb
                    /\ w.conn.status = "PEER_CLOSED"
                    /\ w.conn.fresh = View(S, id).conn.fresh
                    /\ w.timer = View(S, id).timer /\ w.net = View(S, id).net
<1> DEFINE T == [S EXCEPT !.conns[id].status = "PEER_CLOSED"]
           v == View(S, id)
           c == [v.conn EXCEPT !.status = "PEER_CLOSED"]
           w == [v EXCEPT !.conn = c]
<1>1. /\ Struct(S) /\ v.conn \in Conn /\ v.conn = S.conns[id]
      /\ T = [S EXCEPT !.conns = [@ EXCEPT ![id] = c]]
  <2>1. Struct(S) /\ v.conn \in Conn /\ v.conn = S.conns[id]
    BY ConnView DEF CoreInv
  <2> QED
    BY <2>1 DEF Struct, Shape
<1>2. /\ c \in Conn /\ c.wbuf = S.conns[id].wbuf /\ c.rbuf = S.conns[id].rbuf
      /\ c.fresh = v.conn.fresh /\ c.status = "PEER_CLOSED" /\ c.rbuf \in Nat
  <2> HIDE DEF v
  <2> QED
    BY <1>1 DEF Conn, Statuses
<1>3. c.rbuf <= S.conns[id].rbuf
  BY <1>2
<1> HIDE DEF c, T
<1>4. /\ Changed(S, [S EXCEPT !.conns = [@ EXCEPT ![id] = c]], id, w) /\ Good(w)
      /\ w.ptr = v.ptr /\ w.cb = v.cb /\ w.conn = c /\ w.timer = v.timer /\ w.net = v.net
  BY <1>2, <1>3, ConnKeeps
<1> HIDE DEF w
<1> QED
  BY <1>1, <1>2, <1>4 DEF T

\* What was received is handed over.
LEMMA HandOverKeeps ==
  ASSUME NEW S, CoreInv(S), NEW id \in DOMAIN S.conns
  PROVE  LET T == [S EXCEPT !.conns[id].fresh = 0]
         IN  \E w : /\ Changed(S, T, id, w) /\ Good(w)
                    /\ w.ptr = View(S, id).ptr /\ w.cb = View(S, id).cb
                    /\ w.conn.status = View(S, id).conn.status /\ w.conn.fresh = 0
                    /\ w.timer = View(S, id).timer /\ w.net = View(S, id).net
<1> DEFINE T == [S EXCEPT !.conns[id].fresh = 0]
           v == View(S, id)
           c == [v.conn EXCEPT !.fresh = 0]
           w == [v EXCEPT !.conn = c]
<1>1. Struct(S) /\ v.conn \in Conn /\ v.conn = S.conns[id]
  BY ConnView DEF CoreInv
<1>2. T = [S EXCEPT !.conns = [@ EXCEPT ![id] = c]]
  BY <1>1 DEF Struct, Shape
<1>3. /\ c \in Conn /\ c.wbuf = S.conns[id].wbuf /\ c.rbuf = S.conns[id].rbuf
      /\ c.fresh = 0 /\ c.status = v.conn.status /\ c.rbuf \in Nat
  <2> HIDE DEF v
  <2> QED
    BY <1>1 DEF Conn
<1>4. c.rbuf <= S.conns[id].rbuf
  BY <1>3
<1> HIDE DEF c, T
<1>5. /\ Changed(S, [S EXCEPT !.conns = [@ EXCEPT ![id] = c]], id, w) /\ Good(w)
      /\ w.ptr = v.ptr /\ w.cb = v.cb /\ w.conn = c /\ w.timer = v.timer /\ w.net = v.net
  BY <1>1, <1>3, <1>4, ConnKeeps
<1> HIDE DEF w
<1> QED
  BY <1>2, <1>3, <1>5 DEF T

\* The client takes what is in the read buffer.
LEMMA TakeKeeps ==
  ASSUME NEW S, CoreInv(S), NEW id \in DOMAIN S.conns
  PROVE  LET T == [S EXCEPT !.conns[id].rbuf = 0]
         IN  \E w : Changed(S, T, id, w) /\ Good(w) /\ ClientKeeps(View(S, id), w)
<1> DEFINE T == [S EXCEPT !.conns[id].rbuf = 0]
           v == View(S, id)
           c == [v.conn EXCEPT !.rbuf = 0]
           w == [v EXCEPT !.conn = c]
<1>1. Struct(S) /\ v.conn \in Conn /\ v.conn = S.conns[id]
  BY ConnView DEF CoreInv
<1>2. T = [S EXCEPT !.conns = [@ EXCEPT ![id] = c]]
  BY <1>1 DEF Struct, Shape
<1>3. /\ c \in Conn /\ c.wbuf = S.conns[id].wbuf /\ c.rbuf = 0
      /\ c.fresh = v.conn.fresh /\ c.status = v.conn.status /\ S.conns[id].rbuf \in Nat
  <2> HIDE DEF v
  <2> QED
    BY <1>1 DEF Conn
<1>4. c.rbuf <= S.conns[id].rbuf
  BY <1>3
<1> HIDE DEF c, T
<1>5. /\ Changed(S, [S EXCEPT !.conns = [@ EXCEPT ![id] = c]], id, w) /\ Good(w)
      /\ w.ptr = v.ptr /\ w.cb = v.cb /\ w.conn = c /\ w.timer = v.timer /\ w.net = v.net
  BY <1>1, <1>3, <1>4, ConnKeeps
<1> HIDE DEF w, v
<1>6. ClientKeeps(v, w)
  BY <1>3, <1>5 DEF ClientKeeps
<1> QED
  BY <1>2, <1>5, <1>6 DEF T, v

\* One turn of the loop of onSocketRead reads what has arrived.
LEMMA ReadKeeps ==
  ASSUME NEW S, CoreInv(S), NEW id \in DOMAIN S.conns, S.net[id].inq > 0,
         MaxRead > 0 => S.net[id].inq + S.conns[id].rbuf <= MaxRead
  PROVE  LET T == [S EXCEPT !.conns[id].rbuf = @ + S.net[id].inq,
                            !.conns[id].fresh = @ + S.net[id].inq,
                            !.net[id].inq = 0]
         IN  \E w : /\ Changed(S, T, id, w) /\ Good(w)
                    /\ w.ptr = View(S, id).ptr /\ w.cb = View(S, id).cb
                    /\ w.conn.status = View(S, id).conn.status
                    /\ w.timer = View(S, id).timer
<1> DEFINE v == View(S, id)
           q == S.net[id].inq
           T == [S EXCEPT !.conns[id].rbuf = @ + q, !.conns[id].fresh = @ + q,
                          !.net[id].inq = 0]
           n == [v.net EXCEPT !.inq = 0]
           c == [v.conn EXCEPT !.rbuf = @ + q, !.fresh = @ + q]
           R == [S EXCEPT !.net = [@ EXCEPT ![id] = n]]
           u == [v EXCEPT !.net = n]
           w == [u EXCEPT !.conn = c]
<1>1. /\ Struct(S) /\ Shape(S) /\ v.conn \in Conn /\ v.conn = S.conns[id] /\ Good(v)
      /\ v.net \in Net /\ v.net = S.net[id] /\ id \in Ids(S) /\ id \in DOMAIN S.net
  BY ConnView DEF CoreInv, Struct
<1>2. T = [R EXCEPT !.conns = [@ EXCEPT ![id] = c]]
  BY <1>1 DEF Shape
<1>3. q \in Nat /\ v.conn.rbuf + q \in Nat /\ v.conn.fresh + q \in Nat
  BY <1>1 DEF Net, Conn
<1>4. /\ c \in Conn /\ c.wbuf = v.conn.wbuf /\ c.rbuf = v.conn.rbuf + q
      /\ c.status = v.conn.status /\ c.sccb = v.conn.sccb
  <2> HIDE DEF v, q
  <2> QED
    BY <1>1, <1>3 DEF Conn
<1>5. /\ n \in Net /\ n.inq = 0 /\ n.wire = v.net.wire /\ n.accepted = v.net.accepted
      /\ n.recvd = v.net.recvd
  <2> HIDE DEF v
  <2> QED
    BY <1>1 DEF Net
<1>6. /\ w.ptr = v.ptr /\ w.cb = v.cb /\ w.conn = c /\ w.timer = v.timer /\ w.net = n
  BY DEF View
<1> HIDE DEF n
<1>7. Changed(S, R, id, u)
  BY <1>1, NetChanges
<1>8. Struct(R) /\ id \in DOMAIN R.conns /\ View(R, id) = u
  BY <1>7 DEF Changed
<1> HIDE DEF R, c, T
<1>9. Changed(R, T, id, w)
  <2> HIDE DEF u
  <2> QED
    BY <1>2, <1>8, ConnChanges
<1>10. Changed(S, T, id, w)
  BY <1>7, <1>9, ChangesCompose
<1> HIDE DEF w, v, u
<1>11. LimitsKept(w)
  <2>1. /\ v.net.recvd \in Nat /\ v.conn.rbuf \in Nat /\ q \in Nat
        /\ q + v.conn.rbuf <= v.net.recvd
        /\ MaxRead > 0 => q + v.conn.rbuf <= MaxRead
    BY <1>1, <1>3 DEF Good, LimitsKept, Net, Conn
  <2> HIDE DEF q
  <2>2. 0 + (v.conn.rbuf + q) <= v.net.recvd
    BY <2>1
  <2>3. MaxRead > 0 => v.conn.rbuf + q <= MaxRead
    BY <2>1, TcpAssumption
  <2> QED
    BY <1>1, <1>4, <1>5, <1>6, <2>2, <2>3 DEF Good, LimitsKept
<1>12. Good(w)
  BY <1>1, <1>4, <1>5, <1>6, <1>11
  DEF Good, ViewType, CallbacksFit, TimerFits, StreamFits
<1> QED
  BY <1>4, <1>6, <1>10, <1>12 DEF T, v

\* The kernel takes what it has room for of the write buffer.
LEMMA DrainKeeps ==
  ASSUME NEW S, CoreInv(S), NEW id \in DOMAIN S.conns,
         View(S, id).cb["out"] = "onSocketWrite"
  PROVE  LET n == KernelSend(S.net[id], S.conns[id].wbuf)
             left == SubSeq(S.conns[id].wbuf, Len(n.wire) - Len(S.net[id].wire) + 1,
                            Len(S.conns[id].wbuf))
             T == [S EXCEPT !.net[id] = n, !.conns[id].wbuf = left]
         IN  \E w : /\ Changed(S, T, id, w)
                    /\ ViewType(w) /\ StreamFits(w) /\ LimitsKept(w) /\ TimerFits(w)
                    /\ w.ptr = View(S, id).ptr /\ w.cb = View(S, id).cb
                    /\ w.conn.status = View(S, id).conn.status /\ w.conn.wbuf = left
                    /\ w.conn.fresh = View(S, id).conn.fresh
                    /\ w.timer = View(S, id).timer
<1> DEFINE v == View(S, id)
           o == S.net[id]
           b == S.conns[id].wbuf
           n == KernelSend(o, b)
           left == SubSeq(b, Len(n.wire) - Len(o.wire) + 1, Len(b))
           T == [S EXCEPT !.net[id] = n, !.conns[id].wbuf = left]
           c == [v.conn EXCEPT !.wbuf = left]
           R == [S EXCEPT !.net = [@ EXCEPT ![id] = n]]
           u == [v EXCEPT !.net = n]
           w == [u EXCEPT !.conn = c]
           m == Len(o.wire)
           l == Len(b)
           k == Least(o.room, l)
<1>1. /\ Struct(S) /\ Shape(S) /\ v.conn \in Conn /\ v.conn = S.conns[id] /\ Good(v)
      /\ o \in Net /\ v.net = o /\ id \in Ids(S) /\ id \in DOMAIN S.net
  BY ConnView DEF CoreInv, Struct
<1>2. /\ m \in Nat /\ l \in Nat /\ o.wire = Bytes(0, m) /\ b = Bytes(m, l)
      /\ m + l = o.accepted
  <2>1. o.wire \in Seq(Nat) /\ b \in Seq(Nat)
    BY <1>1 DEF Net, Conn
  <2>2. m \in Nat /\ l \in Nat
    BY <2>1
  <2> QED
    BY <1>1, <2>2 DEF Good, StreamFits
<1>3. /\ n \in Net /\ k \in 0..l /\ n.wire = Bytes(0, m + k) /\ Len(n.wire) = m + k
      /\ n = [o EXCEPT !.room = n.room, !.wire = n.wire]
  <2>1. /\ KernelSend(o, Bytes(m, l)) \in Net /\ k \in 0..l
        /\ KernelSend(o, Bytes(m, l)).wire = Bytes(0, m + k)
        /\ Len(KernelSend(o, Bytes(m, l)).wire) = m + k
        /\ KernelSend(o, Bytes(m, l)) =
             [o EXCEPT !.room = KernelSend(o, Bytes(m, l)).room,
                       !.wire = KernelSend(o, Bytes(m, l)).wire]
    BY <1>1, <1>2, KernelSendTakes
  <2> HIDE DEF m, l, k
  <2> QED
    BY <1>2, <2>1
<1>4. left = Bytes(m + k, l - k) /\ Len(left) = l - k /\ left \in Seq(Nat)
  <2> HIDE DEF n, m, l, k
  <2>1. k \in Nat /\ m + k \in Nat /\ l - k \in Nat
    BY <1>2, <1>3
  <2>2. Len(n.wire) - Len(o.wire) = k
    <3>1. (m + k) - m = k
      BY <1>2, <2>1
    <3> QED
      BY <1>3, <3>1 DEF m
  <2>3. left = SubSeq(Bytes(m, l), k + 1, l)
    BY <1>2, <2>2 DEF l
  <2>4. SubSeq(Bytes(m, l), k + 1, l) = Bytes(m + k, l - k)
    BY <1>2, <1>3, BytesProperties
  <2>5. Bytes(m + k, l - k) \in Seq(Nat) /\ Len(Bytes(m + k, l - k)) = l - k
    BY <2>1, BytesProperties
  <2> HIDE DEF left
  <2> QED
    BY <2>3, <2>4, <2>5
<1> HIDE DEF left, k
<1>5. /\ n.inq = o.inq /\ n.recvd = o.recvd /\ n.accepted = o.accepted
  <2> HIDE DEF n, o
  <2> QED
    BY <1>1, <1>3 DEF Net
<1> HIDE DEF n
<1>6. T = [R EXCEPT !.conns = [@ EXCEPT ![id] = c]]
  BY <1>1 DEF Shape
<1>7. /\ c \in Conn /\ c.wbuf = left /\ c.rbuf = v.conn.rbuf
      /\ c.status = v.conn.status /\ c.fresh = v.conn.fresh
  <2> HIDE DEF v
  <2> QED
    BY <1>1, <1>4 DEF Conn
<1>8. w.ptr = v.ptr /\ w.cb = v.cb /\ w.conn = c /\ w.timer = v.timer /\ w.net = n
  BY DEF View
<1>9. Changed(S, R, id, u)
  BY <1>1, NetChanges
<1>10. Struct(R) /\ id \in DOMAIN R.conns /\ View(R, id) = u
  BY <1>9 DEF Changed
<1> HIDE DEF R, c, T
<1>11. Changed(S, T, id, w)
  <2>1. Changed(R, T, id, w)
    <3> HIDE DEF u
    <3> QED
      BY <1>6, <1>10, ConnChanges
  <2> QED
    BY <1>9, <2>1, ChangesCompose
<1> HIDE DEF w, v, u
<1>12. StreamFits(w)
  <2> HIDE DEF m, l, o
  <2>1. (m + k) + (l - k) = m + l
    BY <1>2, <1>3
  <2>2. /\ Len(w.net.wire) = m + k /\ Len(w.conn.wbuf) = l - k
        /\ w.net.accepted = m + l
        /\ w.net.wire = Bytes(0, m + k) /\ w.conn.wbuf = Bytes(m + k, l - k)
    BY <1>2, <1>3, <1>4, <1>5, <1>7, <1>8
  <2> QED
    BY <2>1, <2>2 DEF StreamFits
<1>13. LimitsKept(w)
  <2>1. MaxWrite > 0 => l <= MaxWrite
    BY <1>1 DEF Good, LimitsKept
  <2> HIDE DEF m, l
  <2>2. MaxWrite > 0 => l - k <= MaxWrite
    BY <1>2, <1>3, <2>1, TcpAssumption
  <2> QED
    BY <1>1, <1>4, <1>5, <1>7, <1>8, <2>2 DEF Good, LimitsKept
<1>14. ViewType(w) /\ TimerFits(w)
  BY <1>1, <1>3, <1>7, <1>8 DEF Good, ViewType, TimerFits
<1> QED
  BY <1>7, <1>8, <1>11, <1>12, <1>13, <1>14 DEF T, left, n, v

\* onSocketWrite, after what it sends.
LEMMA WriteKeeps ==
  ASSUME NEW S, CoreInv(S), NEW id \in DOMAIN S.conns,
         View(S, id).cb["out"] = "onSocketWrite"
  PROVE  LET n == KernelSend(S.net[id], S.conns[id].wbuf)
             left == SubSeq(S.conns[id].wbuf, Len(n.wire) - Len(S.net[id].wire) + 1,
                            Len(S.conns[id].wbuf))
             T == [S EXCEPT !.net[id] = n, !.conns[id].wbuf = left]
             U == IF left = <<>> THEN SentAll(T, id) ELSE T
         IN  \/ \E w : /\ Changed(S, U, id, w) /\ Good(w)
                       /\ w.ptr = View(S, id).ptr /\ w.cb["in"] = View(S, id).cb["in"]
                       /\ w.conn.status = View(S, id).conn.status
                       /\ w.conn.fresh = View(S, id).conn.fresh
                       /\ w.timer = View(S, id).timer
             \/ Closed(S, U, id)
<1> DEFINE v == View(S, id)
           n == KernelSend(S.net[id], S.conns[id].wbuf)
           left == SubSeq(S.conns[id].wbuf, Len(n.wire) - Len(S.net[id].wire) + 1,
                          Len(S.conns[id].wbuf))
           T == [S EXCEPT !.net[id] = n, !.conns[id].wbuf = left]
           U == IF left = <<>> THEN SentAll(T, id) ELSE T
<1>1. PICK u : /\ Changed(S, T, id, u)
               /\ ViewType(u) /\ StreamFits(u) /\ LimitsKept(u) /\ TimerFits(u)
               /\ u.ptr = v.ptr /\ u.cb = v.cb
               /\ u.conn.status = v.conn.status /\ u.conn.wbuf = left
               /\ u.conn.fresh = v.conn.fresh /\ u.timer = v.timer
  BY DrainKeeps
<1>2. id \in Ids(S) /\ Good(v) /\ v.conn.status # "LISTENING"
  BY ConnView DEF Statuses
<1> HIDE DEF n, left, T
<1>3. Struct(T) /\ id \in Ids(T) /\ View(T, id) = u
  BY <1>1, <1>2 DEF Changed
<1> HIDE DEF v
<1>4. /\ v.conn.status # "CONNECTING" /\ v.cb["err"] = "onSocketError"
      /\ v.cb["in"] \in {None, "onSocketRead"}
      /\ v.cb["out"] = "onSocketWrite" /\ v.cb \in CallbackSet
  BY <1>2 DEF Good, CallbacksFit, ViewType, v
<1>5. CASE left # <<>>
  <2>1. CallbacksFit(u)
    BY <1>1, <1>2, <1>4, <1>5 DEF CallbacksFit
  <2>2. U = T
    BY <1>5
  <2> HIDE DEF U
  <2> QED
    BY <1>1, <2>1, <2>2 DEF Good, U, T, left, n, v
<1>6. CASE left = <<>> /\ T.conns[id].sccb = "close"
  <2>1. U = closeSocket(T, id)
    BY <1>6 DEF SentAll
  <2>2. Closed(T, closeSocket(T, id), id)
    BY <1>3, CloseCloses
  <2>3. T.sockets[id] = S.sockets[id]
    <3>1. View(T, id).ptr = View(S, id).ptr
      BY <1>1, <1>3 DEF v
    <3> QED
      BY <3>1 DEF View
  <2> HIDE DEF U
  <2>4. Closed(S, U, id)
    BY <1>1, <2>1, <2>2, <2>3 DEF Changed, Closed
  <2> QED
    BY <2>4 DEF U, T, left, n
<1>7. CASE left = <<>> /\ T.conns[id].sccb # "close"
  <2> DEFINE w == [u EXCEPT !.cb = [@ EXCEPT !["out"] = None]]
  <2>1. U = SetCallback(T, id, "out", None)
    BY <1>7 DEF SentAll
  <2>2. "out" \in IO!Bits
    BY DEF IO!Bits
  <2>3. Changed(T, SetCallback(T, id, "out", None), id, w)
    BY <1>3, <2>2, SetCallbackChanges
  <2>4. /\ w.ptr = u.ptr /\ w.timer = u.timer /\ w.net = u.net /\ w.conn = u.conn
        /\ w.cb = [u.cb EXCEPT !["out"] = None]
    <3>1. u = [ptr |-> u.ptr, cb |-> u.cb, conn |-> u.conn, net |-> u.net, timer |-> u.timer]
      BY <1>3 DEF View
    <3> QED
      BY <3>1
  <2>5. /\ w.cb \in CallbackSet /\ w.cb["in"] = v.cb["in"] /\ w.cb["out"] = None
        /\ w.cb["err"] = v.cb["err"]
    <3> HIDE DEF w
    <3> QED
      BY <1>1, <1>4, <2>4 DEF CallbackSet, IO!Bits
  <2> HIDE DEF U, w
  <2>6. Changed(S, U, id, w)
    BY <1>1, <2>1, <2>3, ChangesCompose
  <2>7. Good(w)
    <3>1. ViewType(w) /\ StreamFits(w) /\ LimitsKept(w)
      BY <1>1, <2>4, <2>5 DEF ViewType, StreamFits, LimitsKept
    <3>2. CallbacksFit(w)
      BY <1>1, <1>2, <1>4, <1>7, <2>4, <2>5, LoopAssumption DEF CallbacksFit, Handlers
    <3>3. TimerFits(w)
      BY <1>1, <1>2, <2>4, <2>5 DEF TimerFits
    <3> QED
      BY <3>1, <3>2, <3>3 DEF Good
  <2> QED
    BY <1>1, <2>4, <2>5, <2>6, <2>7 DEF U, T, left, n, v
<1> QED
  BY <1>5, <1>6, <1>7

\* Accepting is paused.
LEMMA PauseKeeps ==
  ASSUME NEW S, CoreInv(S), NEW id \in Ids(S), View(S, id).conn.status = "LISTENING",
         View(S, id).cb["in"] = "onListenSocketRead"
  PROVE  \E w : /\ Changed(S, PauseAccept(S, id), id, w) /\ Good(w)
                /\ w.ptr = View(S, id).ptr /\ w.cb["out"] = View(S, id).cb["out"]
                /\ w.conn = View(S, id).conn
<1> DEFINE v == View(S, id)
           R == SetCallback(S, id, "in", None)
           u == [v EXCEPT !.cb = [@ EXCEPT !["in"] = None]]
           w == [u EXCEPT !.timer = "onListenSocketResumeRead"]
           T == addSocketTimer(R, id, "onListenSocketResumeRead")
<1>1. Good(v) /\ Struct(S) /\ "in" \in IO!Bits
  BY DEF CoreInv, IO!Bits
<1>2. Changed(S, R, id, u)
  BY <1>1, SetCallbackChanges
<1>3. /\ Struct(R) /\ id \in Ids(R) /\ View(R, id) = u
  BY <1>2 DEF Changed
<1>4. /\ u.ptr = v.ptr /\ u.conn = v.conn /\ u.net = v.net /\ u.timer = v.timer
      /\ u.cb = [v.cb EXCEPT !["in"] = None]
      /\ w.ptr = v.ptr /\ w.conn = v.conn /\ w.net = v.net
      /\ w.timer = "onListenSocketResumeRead" /\ w.cb = u.cb
  BY DEF View
<1> HIDE DEF R, u, v
<1>5. v.timer = None
  BY <1>1, LoopAssumption DEF Good, TimerFits, ViewType, TimerHandlers, Handlers, v
<1>6. Changed(R, T, id, w)
  BY <1>3, <1>4, <1>5, AddTimerChanges DEF TimerHandlers
<1>7. Changed(S, T, id, w)
  BY <1>2, <1>6, ChangesCompose
<1> HIDE DEF w, T
<1>8. /\ w.cb \in CallbackSet /\ w.cb["in"] = None /\ w.cb["out"] = v.cb["out"]
      /\ w.cb["err"] = v.cb["err"]
  BY <1>1, <1>4 DEF Good, ViewType, CallbackSet, IO!Bits
<1>9. Good(w)
  BY <1>1, <1>4, <1>8, LoopAssumption
  DEF Good, ViewType, CallbacksFit, TimerFits, StreamFits, LimitsKept, TimerHandlers,
      Handlers, v
<1> QED
  BY <1>4, <1>7, <1>8, <1>9 DEF T, R, PauseAccept, v

\* The timer that resumes accepting.
LEMMA ResumeKeeps ==
  ASSUME NEW S, CoreInv(S), NEW id \in Ids(S),
         View(S, id).timer = "onListenSocketResumeRead"
  PROVE  LET R == removeSocketTimer(S, id)
         IN  \E w : /\ Changed(S, SetCallback(R, id, "in", "onListenSocketRead"), id, w)
                    /\ Good(w)
                    /\ w.ptr = View(S, id).ptr /\ w.cb["in"] # None
                    /\ w.cb["out"] = View(S, id).cb["out"] /\ w.conn = View(S, id).conn
<1> DEFINE v == View(S, id)
           R == removeSocketTimer(S, id)
           u == [v EXCEPT !.timer = None]
           T == SetCallback(R, id, "in", "onListenSocketRead")
           w == [u EXCEPT !.cb = [@ EXCEPT !["in"] = "onListenSocketRead"]]
<1>1. Good(v) /\ Struct(S) /\ "in" \in IO!Bits /\ "onListenSocketRead" \in Handlers
  BY DEF CoreInv, IO!Bits, Handlers
<1>2. Changed(S, R, id, u)
  BY <1>1, RemoveTimerChanges
<1>3. /\ Struct(R) /\ id \in Ids(R) /\ View(R, id) = u
  BY <1>2 DEF Changed
<1>4. /\ w.ptr = v.ptr /\ w.conn = v.conn /\ w.net = v.net /\ w.timer = None
      /\ w.cb = [v.cb EXCEPT !["in"] = "onListenSocketRead"]
  BY DEF View
<1> HIDE DEF R, u
<1>5. Changed(R, T, id, w)
  BY <1>1, <1>3, SetCallbackChanges
<1>6. Changed(S, T, id, w)
  BY <1>2, <1>5, ChangesCompose
<1> HIDE DEF w, T, v
<1>7. /\ w.cb \in CallbackSet /\ w.cb["in"] = "onListenSocketRead"
      /\ w.cb["out"] = v.cb["out"] /\ w.cb["err"] = v.cb["err"]
  BY <1>1, <1>4 DEF Good, ViewType, CallbackSet, IO!Bits
<1>8. v.conn.status = "LISTENING"
  BY <1>1 DEF Good, TimerFits, v
<1>9. Good(w)
  BY <1>1, <1>4, <1>7, <1>8, LoopAssumption
  DEF Good, ViewType, CallbacksFit, TimerFits, StreamFits, LimitsKept, TimerHandlers, Handlers
<1> QED
  BY <1>1, <1>4, <1>6, <1>7, <1>9, LoopAssumption DEF T, R, v

-----------------------------------------------------------------------------
(* New sockets are good. *)

\* The kernel's side of a new socket has its type, and nothing was sent yet.
LEMMA NewNetIsNet ==
  ASSUME NEW link \in {"listen", "pending", "up", "refused"}
  PROVE  /\ NewNet(link) \in Net /\ NewNet(link).wire = <<>> /\ NewNet(link).accepted = 0
         /\ NewNet(link).inq = 0 /\ NewNet(link).recvd = 0
BY TcpAssumption DEF NewNet, Net

\* A new connection has its type.
LEMMA FreshConnIsConn ==
  ASSUME NEW status \in Statuses \cup {"LISTENING"}
  PROVE  [NoConn EXCEPT !.status = status] \in Conn
<1>1. NoConn \in Conn
  <2> DEFINE e == <<>>
  <2>1. e \in Seq(Nat)
    BY EmptySeq
  <2> HIDE DEF e
  <2>2. [status |-> "LISTENING", rbuf |-> 0, fresh |-> 0, wbuf |-> e, sccb |-> None] \in Conn
    BY <2>1 DEF Conn
  <2> QED
    BY <2>2 DEF NoConn, e
<1> QED
  BY <1>1 DEF Conn

\* The callbacks of a new socket.
LEMMA SocketCallbacks ==
  ASSUME NEW i \in Handlers \cup {None}, NEW o \in Handlers \cup {None}
  PROVE  /\ Socket(i, o) \in CallbackSet
         /\ Socket(i, o)["in"] = i /\ Socket(i, o)["out"] = o
         /\ Socket(i, o)["err"] = "onSocketError"
BY DEF Socket, IO!NoCallbacks, IO!Bits, CallbackSet, Handlers

\* A view with nothing sent and nothing received.
LEMMA FreshViewGood ==
  ASSUME NEW v, v.cb \in CallbackSet, v.timer \in TimerHandlers \cup {None},
         NEW link \in {"listen", "pending", "up", "refused"}, v.net = NewNet(link),
         NEW status \in Statuses \cup {"LISTENING"},
         v.conn = [NoConn EXCEPT !.status = status],
         CallbacksFit(v), TimerFits(v)
  PROVE  Good(v)
<1>1. /\ v.conn \in Conn /\ v.conn.rbuf = 0 /\ v.conn.fresh = 0 /\ v.conn.wbuf = <<>>
      /\ Len(v.conn.wbuf) = 0
  <2>1. <<>> \in Seq(Nat) /\ Len(<<>>) = 0
    BY EmptySeq
  <2> QED
    BY <2>1, FreshConnIsConn DEF NoConn
<1>2. /\ v.net \in Net /\ v.net.wire = <<>> /\ v.net.accepted = 0 /\ v.net.inq = 0
      /\ v.net.recvd = 0 /\ Len(v.net.wire) = 0
  BY NewNetIsNet, EmptySeq
<1>3. Bytes(0, 0) = <<>>
  BY BytesProperties
<1>4. StreamFits(v) /\ LimitsKept(v)
  BY <1>1, <1>2, <1>3, TcpAssumption DEF StreamFits, LimitsKept
<1> QED
  BY <1>1, <1>2, <1>4 DEF Good, ViewType

\* listen opens a socket whose view is good.
LEMMA ListenKeeps ==
  ASSUME NEW S, CoreInv(S), next_id \in Nat \ {0}, next_id \notin Ids(S),
         NEW p \in Ptrs, p \notin DOMAIN S.dev
  PROVE  \E w : /\ Opened(S, NewSocket(S, p, Socket("onListenSocketRead", None),
                                       NewNet("listen")), next_id, w)
                /\ Good(w) /\ w.conn = NoConn
<1> DEFINE c == Socket("onListenSocketRead", None)
           w == [ptr |-> p, cb |-> c, conn |-> NoConn, net |-> NewNet("listen"), timer |-> None]
<1>1. /\ c \in CallbackSet /\ c["in"] = "onListenSocketRead" /\ c["out"] = None
      /\ c["err"] = "onSocketError"
  <2>1. "onListenSocketRead" \in Handlers \cup {None} /\ None \in Handlers \cup {None}
    BY DEF Handlers
  <2> QED
    BY <2>1, SocketCallbacks
<1> HIDE DEF c
<1>2. Opened(S, NewSocket(S, p, c, NewNet("listen")), next_id, w)
  BY <1>1, NewSocketOpens DEF CoreInv
<1>3. /\ w.cb = c /\ w.timer = None /\ w.net = NewNet("listen") /\ w.conn = NoConn
      /\ w.conn = [NoConn EXCEPT !.status = "LISTENING"] /\ w.conn.status = "LISTENING"
      /\ w.conn.wbuf = <<>>
  BY DEF NoConn
<1> HIDE DEF w
<1>4. CallbacksFit(w) /\ TimerFits(w)
  BY <1>1, <1>3, LoopAssumption DEF CallbacksFit, TimerFits, Handlers, TimerHandlers
<1>5. Good(w)
  BY <1>1, <1>3, <1>4, FreshViewGood
<1> QED
  BY <1>2, <1>3, <1>5 DEF c

\* So do connect and accept.
LEMMA ConnectKeeps ==
  ASSUME NEW S, CoreInv(S), next_id \in Nat \ {0}, next_id \notin Ids(S),
         NEW p \in Ptrs, p \notin DOMAIN S.dev
  PROVE  \E w : /\ Opened(S, buildConnectedSocket(S, p), next_id, w)
                /\ Good(w) /\ w.conn.status = "CONNECTED" /\ w.conn.fresh = 0
                /\ w.conn # NoConn
<1> DEFINE c == Socket("onSocketRead", None)
           k == [NoConn EXCEPT !.status = "CONNECTED"]
           w == [ptr |-> p, cb |-> c, conn |-> k, net |-> NewNet("up"), timer |-> None]
<1>1. /\ c \in CallbackSet /\ c["in"] = "onSocketRead" /\ c["out"] = None
      /\ c["err"] = "onSocketError"
  <2>1. "onSocketRead" \in Handlers \cup {None} /\ None \in Handlers \cup {None}
    BY DEF Handlers
  <2> QED
    BY <2>1, SocketCallbacks
<1> HIDE DEF c
<1>2. Opened(S, NewConnection(S, p, c, NewNet("up"), "CONNECTED"), next_id, w)
  BY <1>1, NewConnectionOpens DEF CoreInv, Statuses
<1>3. /\ w.cb = c /\ w.timer = None /\ w.net = NewNet("up") /\ w.conn = k
      /\ w.conn.status = "CONNECTED" /\ w.conn.fresh = 0 /\ w.conn # NoConn
      /\ w.conn.wbuf = <<>>
  BY DEF NoConn
<1> HIDE DEF w
<1>4. CallbacksFit(w) /\ TimerFits(w)
  BY <1>1, <1>3, LoopAssumption DEF CallbacksFit, TimerFits, Handlers, TimerHandlers
<1>5. Good(w)
  BY <1>1, <1>3, <1>4, FreshViewGood DEF Statuses
<1> QED
  BY <1>2, <1>3, <1>5 DEF c, buildConnectedSocket

\* So does asyncConnect, with and without a timeout.
LEMMA ConnectAsyncKeeps ==
  ASSUME NEW S, CoreInv(S), next_id \in Nat \ {0}, next_id \notin Ids(S),
         NEW p \in Ptrs, p \notin DOMAIN S.dev, NEW timeout \in BOOLEAN
  PROVE  LET R == NewConnection(S, p, Socket(None, "onAsyncConnectSocketWrite"),
                                NewNet("pending"), "CONNECTING")
             T == IF timeout THEN addSocketTimer(R, next_id, "onAsyncConnectTimeout") ELSE R
         IN  \E w : /\ Opened(S, T, next_id, w)
                    /\ Good(w) /\ w.conn.status = "CONNECTING" /\ w.conn.fresh = 0
                    /\ w.conn # NoConn
<1> DEFINE c == Socket(None, "onAsyncConnectSocketWrite")
           k == [NoConn EXCEPT !.status = "CONNECTING"]
           u == [ptr |-> p, cb |-> c, conn |-> k, net |-> NewNet("pending"), timer |-> None]
           w == [u EXCEPT !.timer = "onAsyncConnectTimeout"]
           R == NewConnection(S, p, c, NewNet("pending"), "CONNECTING")
           T == addSocketTimer(R, next_id, "onAsyncConnectTimeout")
<1>1. /\ c \in CallbackSet /\ c["in"] = None /\ c["out"] = "onAsyncConnectSocketWrite"
      /\ c["err"] = "onSocketError"
  <2>1. None \in Handlers \cup {None} /\ "onAsyncConnectSocketWrite" \in Handlers \cup {None}
    BY DEF Handlers
  <2> QED
    BY <2>1, SocketCallbacks
<1> HIDE DEF c
<1>2. Opened(S, R, next_id, u)
  BY <1>1, NewConnectionOpens DEF CoreInv, Statuses
<1>3. /\ u.cb = c /\ u.timer = None /\ u.net = NewNet("pending") /\ u.conn = k
      /\ u.conn.status = "CONNECTING" /\ u.conn.fresh = 0 /\ u.conn # NoConn
      /\ u.conn.wbuf = <<>>
      /\ w.cb = c /\ w.timer = "onAsyncConnectTimeout" /\ w.net = u.net /\ w.conn = k
  BY DEF NoConn
<1> HIDE DEF R, u
<1>4. Struct(R) /\ next_id \in Ids(R) /\ View(R, next_id) = u
  BY <1>2 DEF Opened
<1>5. Changed(R, T, next_id, w)
  BY <1>3, <1>4, AddTimerChanges DEF TimerHandlers
<1> HIDE DEF T, w
<1>6. Opened(S, T, next_id, w)
  BY <1>2, <1>3, <1>5 DEF Opened, Changed
<1>7. Good(u) /\ Good(w)
  <2>1. CallbacksFit(u) /\ TimerFits(u) /\ CallbacksFit(w) /\ TimerFits(w)
    BY <1>1, <1>3, LoopAssumption DEF CallbacksFit, TimerFits, Handlers, TimerHandlers
  <2>2. Good(u)
    BY <1>1, <1>3, <2>1, FreshViewGood DEF Statuses
  <2>3. Good(w)
    <3>1. "onAsyncConnectTimeout" \in TimerHandlers \cup {None}
      BY DEF TimerHandlers
    <3>2. w.net = NewNet("pending")
      BY <1>3
    <3> QED
      BY <1>1, <1>3, <2>1, <3>1, <3>2, FreshViewGood DEF Statuses
  <2> QED
    BY <2>2, <2>3
<1>8. CASE timeout
  BY <1>3, <1>6, <1>7, <1>8 DEF T, R, c
<1>9. CASE ~timeout
  BY <1>2, <1>3, <1>7, <1>9 DEF R, c
<1> QED
  BY <1>8, <1>9
=============================================================================
