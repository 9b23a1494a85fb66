------------------------- MODULE WebSocketProtocol -------------------------
(***************************************************************************)
(* web_socket_protocol.cc over http_protocol.cc: two ends of a connection, *)
(* each a WebSocketProtocol in a program that answers its return codes as  *)
(* ws_echo_server.cc does.  What an end writes reaches the other in order, *)
(* cut anywhere.  An end of status "HTTP" has no WebSocketProtocol but an  *)
(* HttpProtocol alone, as in http_server.cc.                               *)
(*                                                                         *)
(* The sizes of frames are scaled: Len7Max stands for 125, Len16Max for    *)
(* 65535 and Size64 for the 8 bytes of a long length.                      *)
(***************************************************************************)
EXTENDS HttpProtocol, Bitwise

CONSTANTS
    Len7Max, Len16Max, Size64,
    MaskKeys,       \* what four calls of nextInt(256) return
    Payloads,       \* what programs send
    CallBound,      \* how often the program at an end sends
    Scenarios       \* how a connection may be found: [ws, app, wire, heard, said,
                    \* calls, bad]

ASSUME ScaleAssumption ==
    /\ Len7Max \in 0..125
    /\ Len16Max \in (Len7Max + 1)..65535
    /\ Size64 \in 3..8
    /\ \A k \in MaskKeys : Len(k) = 4

Ends == {"client", "server"}
Peer(e) == IF e = "client" THEN "server" ELSE "client"

VARIABLES
    ws,         \* per end, the members
    buffer,     \* the readable bytes of its connection
    wire,       \* the bytes on their way to it
    app,        \* its program: "new", "waiting" for bytes, "receiving" (calling recvMessage
                \* until it waits), "ready" to retrieve, "closed"
    heard,      \* what recvMessage has told it
    said,       \* what it has told the other end
    calls,      \* how often it has sent
    bad         \* the ends that are sent something they must refuse

vars == <<ws, buffer, wire, app, heard, said, calls, bad>>

\* The members after the constructor and the setters.
NewProtocol(headers, message_max, http_limits) ==
    [status |-> "DETACHED", is_client |-> FALSE, close_frame_sent |-> FALSE,
     last_op_code |-> -1, message |-> <<>>, control_message |-> <<>>,
     handshake_headers |-> headers, message_size_max |-> message_max,
     http |-> NewHttp(http_limits), output_cb |-> TRUE]

-----------------------------------------------------------------------------
(* Frames *)

\* Big-endian, as writeInt16 and writeInt64 write and peekInt16 and peekInt64 read.
BigEndian(n, size) == [i \in 1..size |-> (n \div 256 ^ (size - i)) % 256]
Number(bytes) ==
    LET value[i \in 0..Len(bytes)] == IF i = 0 THEN 0 ELSE value[i - 1] * 256 + bytes[i]
    IN  value[Len(bytes)]

Masked(bytes, key) == [i \in 1..Len(bytes) |-> bytes[i] ^^ key[((i - 1) % 4) + 1]]

\* How sendMessage writes a length, in the shortest form.
lengthForm(size) ==
    IF size <= Len7Max THEN [code |-> size, more |-> <<>>]
    ELSE IF size <= Len16Max THEN [code |-> Len7Max + 1, more |-> BigEndian(size, 2)]
    ELSE [code |-> Len7Max + 2, more |-> BigEndian(size, Size64)]

\* A whole frame (FIN = 1) as an end writes it: a client masks it.
writeFrame(w, opcode, payload, key) ==
    LET form == lengthForm(Len(payload))
    IN  <<128 + opcode, form.code + IF w.is_client THEN 128 ELSE 0>> \o form.more
            \o IF w.is_client THEN key \o Masked(payload, key) ELSE payload

ZeroKey == <<0, 0, 0, 0>>

\* All sends are for a connected end that has not sent a close frame: others are
\* dropped without a word.
maySendAlways(w) == w.status = "CONNECTED"      \* (mutant)
maySend(w) == w.status = "CONNECTED" /\ ~w.close_frame_sent

\* What a handler or a call leaves and writes. tells: what recvMessage tells.
Left(ret, w, b, out, tells) ==
    [ret |-> ret, w |-> w, b |-> b, tells |-> tells,
     out |-> IF w.output_cb THEN out ELSE <<>>]
Refuse(w, b, out) == Left(-1, [w EXCEPT !.status = "PENDING_ERROR"], b, out, <<>>)

\* What a frame says of itself; its length once it is all there.
Frame(b) ==
    LET code == b[2] % 128
        more == CASE code = Len7Max + 1 -> 2 [] code = Len7Max + 2 -> Size64 [] OTHER -> 0
        mask == b[2] >= 128
    IN  [fin |-> b[1] >= 128, rsv |-> (b[1] \div 16) % 8, opcode |-> b[1] % 16,
         is_control |-> b[1] % 16 >= 8, mask |-> mask, code |-> code, more |-> more,
         length |-> IF more = 0 \/ Len(b) < 2 + more THEN code
                    ELSE Number(SubSeq(b, 3, 2 + more)),
         head |-> 2 + more + IF mask THEN 4 ELSE 0]

\* The errors that two bytes show.
badStart(f) == f.rsv # 0 \/ (f.is_control /\ (~f.fin \/ f.code > Len7Max))

\* The errors that show with the length: not in its shortest form, its sign bit
\* set, the message too large, a mask where there must be none or the reverse.
badLength(w, b, f) ==
    \/ f.more = 2 /\ f.length <= Len7Max
    \/ f.more = Size64 /\ (f.length <= Len16Max \/ b[3] >= 128)
    \/ ~f.is_control /\ Len(w.message) + f.length > w.message_size_max
    \/ f.mask = w.is_client

payloadOf(b, f) ==
    LET data == SubSeq(b, f.head + 1, f.head + f.length)
    IN  IF f.mask THEN Masked(data, SubSeq(b, f.head - 3, f.head)) ELSE data

\* A frame with FIN: a continuation frame ends its message.
endOfFrames(w, f) == IF f.opcode = 0 THEN [w EXCEPT !.last_op_code = -1] ELSE w

ClosedBy(w) ==
    [w EXCEPT !.status = "CLOSED", !.close_frame_sent = TRUE,
              !.control_message = <<>>, !.message = <<>>]

\* (mutant) no answer to a close frame
closeReplyNone(w) == <<>>

\* sendCloseFrame in readFrame: nothing, if this end was the first to close.
closeReply(w) == IF maySend(w) THEN writeFrame(w, 8, <<>>, ZeroKey) ELSE <<>>

\* (mutant) the payload of the ping is cleared first
sendPongFrameCleared(w, key) == IF maySend(w) THEN writeFrame(w, 10, <<>>, key) ELSE <<>>

sendPongFrame(w, key) ==
    IF maySend(w) THEN writeFrame(w, 10, w.control_message, key) ELSE <<>>

\* "process frame", for a whole frame; w holds its payload, op is the opcode of
\* its message.
actOn(w, b, op, key) ==
    CASE op \in {1, 2} -> Left(1, [w EXCEPT !.status = "FINISHED"], b, <<>>, <<>>)
      [] op = 8 -> Left(1, ClosedBy(w), b, closeReply(w), <<[kind |-> "close"]>>)
      [] op = 9 -> Left(2, [w EXCEPT !.control_message = <<>>], b, sendPongFrame(w, key),
                        <<[kind |-> "ping", payload |-> w.control_message]>>)
      [] op = 10 -> Left(2, [w EXCEPT !.control_message = <<>>], b, <<>>,
                         <<[kind |-> "pong", payload |-> w.control_message]>>)
      [] OTHER -> Refuse(w, b, <<>>)

\* readFrame once the frame is there: its payload is taken, then it must fit the
\* message it belongs to.
takeFrame(w, b, f, key) ==
    LET rest == Drop(b, f.head + f.length)
        taken == IF f.is_control
                 THEN [w EXCEPT !.control_message = @ \o payloadOf(b, f)]
                 ELSE [w EXCEPT !.message = @ \o payloadOf(b, f)]
        out_of_order == ~f.is_control /\ ((f.opcode # 0) <=> (w.last_op_code # -1))
    IN  IF out_of_order THEN Refuse(taken, rest, <<>>)
        ELSE IF ~f.fin
        THEN Left(1, IF f.opcode = 0 THEN taken ELSE [taken EXCEPT !.last_op_code = f.opcode],
                  rest, <<>>, <<>>)
        ELSE actOn(endOfFrames(taken, f), rest,
                   IF f.opcode = 0 THEN w.last_op_code ELSE f.opcode, key)

readFrame(w, b, key) ==
    LET f == Frame(b)
    IN  IF Len(b) < 2 THEN Left(0, w, b, <<>>, <<>>)
        ELSE IF badStart(f) \/ (Len(b) >= 2 + f.more /\ badLength(w, b, f))
        THEN Refuse(w, b, <<>>)
        ELSE IF Len(b) < 2 + f.more \/ Len(b) < f.head + f.length
        THEN Left(0, w, b, <<>>, <<>>)
        ELSE takeFrame(w, b, f, key)

-----------------------------------------------------------------------------
(* The handshake *)

\* setHandshakeHeader replaces what the class sets itself.
withHandshake(m, headers) ==
    [m EXCEPT !.headers = [k \in Range(Keys) |->
        IF headers[k] # None THEN headers[k]
        ELSE IF k = "upgrade" THEN Upgrade ELSE None]]

handshakeRequest(w) == writeMessage(withHandshake(NewMessage(RequestLine), w.handshake_headers))
handshakeResponse(w) ==
    writeMessage(withHandshake(NewMessage(SwitchingLine), w.handshake_headers))
ErrorResponse == <<ResponseLine>> \o Crlf \o Crlf

Connected(w) == [w EXCEPT !.status = "CONNECTED", !.http = reset(@)]
Established == <<[kind |-> "open"]>>

\* One round of http_protocol_.recvMessage, and at its end the checks of the
\* message: of one type, and with the headers of the handshake.
readHandshake(w, b, lines, accept, refusal) ==
    LET r == httpHandler(w.http, b)
        w1 == [w EXCEPT !.http = r.h]
        finished == r.ret = 1 /\ r.h.status = "FINISHED"
        retrieved == finished /\ canRetrieve(r.h, lines)
    IN  IF r.ret = 0 THEN Left(0, w1, r.b, <<>>, <<>>)
        ELSE IF r.ret = 1 /\ ~finished THEN Left(1, w1, r.b, <<>>, <<>>)
        ELSE IF retrieved /\ r.h.message.headers["upgrade"] = Upgrade
        THEN Left(2, Connected(w1), r.b, accept, Established)
        ELSE Refuse([w1 EXCEPT !.http = IF retrieved THEN reset(@) ELSE @], r.b, refusal)

readHandshakeRequest(w, b) ==
    readHandshake(w, b, {RequestLine}, handshakeResponse(w), ErrorResponse)
readHandshakeResponse(w, b) == readHandshake(w, b, {SwitchingLine}, <<>>, <<>>)

\* HttpProtocol::recvMessage for an end of its own.
readHttp(w, b) ==
    LET r == httpHandler(w.http, b)
    IN  Left(r.ret, [w EXCEPT !.http = r.h], r.b, <<>>, <<>>)

-----------------------------------------------------------------------------
(* The steps *)

\* s_status_handler_: the null handlers answer ERROR and change nothing.
handler(w, b, key) ==
    CASE w.status = "HTTP" -> readHttp(w, b)
      [] w.status = "WAITING_HANDSHAKE_REQUEST" -> readHandshakeRequest(w, b)
      [] w.status = "WAITING_HANDSHAKE_RESPONSE" -> readHandshakeResponse(w, b)
      [] w.status = "CONNECTED" -> readFrame(w, b, key)
      [] OTHER -> Left(-1, w, b, <<>>, <<>>)

IsReady(w) == w.status = "FINISHED" \/ (w.status = "HTTP" /\ w.http.status = "FINISHED")

\* One round of the loop of recvMessage, and what the program does when it
\* returns: closes the connection on ERROR and PEER_CLOSED, calls again on other
\* events.
Receive(e) ==
    /\ app[e] = "receiving"
    /\ \E key \in MaskKeys :
        LET r == handler(ws[e], buffer[e], key)
        IN  /\ ws' = [ws EXCEPT ![e] = r.w]
            /\ buffer' = [buffer EXCEPT ![e] = r.b]
            /\ wire' = [wire EXCEPT ![Peer(e)] = @ \o r.out]
            /\ heard' = [heard EXCEPT ![e] = @ \o r.tells]
            /\ app' = [app EXCEPT ![e] =
                CASE r.ret = 0 -> "waiting"
                  [] r.ret = -1 \/ r.w.status = "CLOSED" -> "closed"
                  [] r.ret = 1 /\ IsReady(r.w) -> "ready"
                  [] OTHER -> "receiving"]
            /\ said' = [said EXCEPT ![e] = @ \o
                IF r.w.output_cb /\ r.w.close_frame_sent /\ ~ws[e].close_frame_sent
                THEN <<[kind |-> "close"]>> ELSE <<>>]
    /\ UNCHANGED <<calls, bad>>

\* The connection's bytes arrive, some or all, and the program is called.
Arrive(e) ==
    /\ app[e] = "waiting"
    /\ \E n \in 1..Len(wire[e]) :
        /\ buffer' = [buffer EXCEPT ![e] = @ \o SubSeq(wire[e], 1, n)]
        /\ wire' = [wire EXCEPT ![e] = Drop(@, n)]
    /\ app' = [app EXCEPT ![e] = "receiving"]
    /\ UNCHANGED <<ws, heard, said, calls, bad>>

\* The kind of message a program at this end takes.
Awaited(e) == IF e = "server" THEN {RequestLine} ELSE ResponseLines

\* The program retrieves its message: of a WebSocket, or of HTTP, where a message
\* of the other type is refused and the program closes.
Retrieve(e) ==
    /\ app[e] = "ready"
    /\ LET w == ws[e]
       IN  IF w.status = "FINISHED"
           THEN /\ heard' = [heard EXCEPT ![e] =
                        Append(@, [kind |-> "message", payload |-> w.message])]
                /\ ws' = [ws EXCEPT ![e].status = "CONNECTED", ![e].message = <<>>]
                /\ app' = [app EXCEPT ![e] = "receiving"]
           ELSE IF canRetrieve(w.http, Awaited(e))
           THEN /\ heard' = [heard EXCEPT ![e] =
                        Append(@, [kind |-> "http", payload |-> w.http.message])]
                /\ ws' = [ws EXCEPT ![e].http = reset(@)]
                /\ app' = [app EXCEPT ![e] = "receiving"]
           ELSE /\ app' = [app EXCEPT ![e] = "closed"]
                /\ UNCHANGED <<heard, ws>>
    /\ UNCHANGED <<buffer, wire, said, calls, bad>>

\* An end writes: nothing without a callback for it.
Writes(e, out) ==
    wire' = [wire EXCEPT ![Peer(e)] = @ \o IF ws[e].output_cb THEN out ELSE <<>>]

\* The program starts its end of a new connection.
Starts(e) ==
    /\ app[e] = "new"
    /\ ws[e].status = "DETACHED"
    /\ app' = [app EXCEPT ![e] = "waiting"]

startAsClient(e) ==
    /\ Starts(e)
    /\ ws' = [ws EXCEPT ![e].status = "WAITING_HANDSHAKE_RESPONSE", ![e].is_client = TRUE]
    /\ Writes(e, handshakeRequest(ws[e]))
    /\ UNCHANGED <<buffer, heard, said, calls, bad>>

startAsServer(e) ==
    /\ Starts(e)
    /\ ws' = [ws EXCEPT ![e].status = "WAITING_HANDSHAKE_REQUEST", ![e].is_client = FALSE]
    /\ UNCHANGED <<buffer, wire, heard, said, calls, bad>>

\* A program sends once the connection is established, from a callback or
\* between two.
Calls(e) ==
    /\ app[e] # "closed"
    /\ [kind |-> "open"] \in Range(heard[e])
    /\ calls[e] < CallBound
    /\ calls' = [calls EXCEPT ![e] = @ + 1]
    /\ UNCHANGED <<buffer, app, heard, bad>>

\* A frame is written and counts as said, or the call is dropped.
Sends(e, opcode, payload, key, what) ==
    IF maySend(ws[e])
    THEN /\ Writes(e, writeFrame(ws[e], opcode, payload, key))
         /\ said' = [said EXCEPT ![e] = Append(@, what)]
    ELSE UNCHANGED <<wire, said>>

sendMessage(e) ==
    /\ Calls(e)
    /\ \E p \in Payloads, key \in MaskKeys :
        Sends(e, 2, p, key, [kind |-> "message", payload |-> p])
    /\ UNCHANGED ws

sendPingFrame(e) ==
    /\ Calls(e)
    /\ Sends(e, 9, <<>>, ZeroKey, [kind |-> "ping", payload |-> <<>>])
    /\ UNCHANGED ws

sendCloseFrame(e) ==
    /\ Calls(e)
    /\ Sends(e, 8, <<>>, ZeroKey, [kind |-> "close"])
    /\ ws' = [ws EXCEPT ![e].close_frame_sent = @ \/ maySend(ws[e])]

Init ==
    /\ \E s \in Scenarios :
        /\ ws = s.ws
        /\ app = s.app
        /\ wire = s.wire
        /\ heard = s.heard
        /\ said = s.said
        /\ calls = s.calls
        /\ bad = s.bad
    /\ buffer = [e \in Ends |-> <<>>]

ReceiveStep(e) == Arrive(e) \/ Receive(e) \/ Retrieve(e)

Next ==
    \/ startAsClient("client")
    \/ startAsServer("server")
    \/ \E e \in Ends :
        \/ ReceiveStep(e)
        \/ sendMessage(e) \/ sendPingFrame(e) \/ sendCloseFrame(e)

Spec == Init /\ [][Next]_vars

-----------------------------------------------------------------------------
(* Properties *)

Of(kinds, events) == SelectSeq(events, LAMBDA x : x.kind \in kinds)

\* Nothing on its way to e, and nothing it has still to do.
Settled(e) == wire[e] = <<>> /\ app[e] \in {"waiting", "closed"}

\* recvMessage tells an end the messages, pings and the close it was sent, whole,
\* in order and once, however the bytes are cut; in the end all of them; and it
\* answers ERROR just if something came that it must refuse: malformed, too large
\* or out of order.  No HTTP message that comes has headers but no size:
\* HandshakeAccepted is about those.
ReadAsSaid ==
    \A e \in Ends :
        LET told == Of({"message", "ping", "close", "http"}, heard[e])
        IN  /\ IsPrefix(told, said[Peer(e)])
            /\ Settled(e) => /\ told = said[Peer(e)]
                             /\ (e \in bad) <=> (app[e] = "closed" /\ ws[e].status # "CLOSED")

\* The pongs an end hears carry the payloads of the pings it has sent, in their
\* order, and as long as neither has closed, none is missing.
PongsMirrorPings ==
    \A e \in Ends :
        LET pings == [i \in DOMAIN Of({"ping"}, heard[e]) |-> Of({"ping"}, heard[e])[i].payload]
            pongs == [i \in DOMAIN Of({"pong"}, heard[Peer(e)]) |->
                        Of({"pong"}, heard[Peer(e)])[i].payload]
        IN  ws[e].output_cb =>
                /\ IsPrefix(pongs, pings)
                /\ (Settled(Peer(e)) /\ \A x \in Ends : ~ws[x].close_frame_sent) => pongs = pings

\* An end that has been told of the close is sent nothing any more: the close frame
\* is the last thing its peer has written.
NothingAfterClose ==
    \A e \in Ends : ws[e].status = "CLOSED" => wire[e] = <<>> /\ buffer[e] = <<>>

\* Once an end has sent a close frame and nothing is on its way any more, both ends
\* know that the connection is closed, also when both have closed at once.
CloseCompletes ==
    \A e \in Ends :
        /\ \A x \in Ends : Settled(x)
        /\ ws[e].close_frame_sent /\ ws[Peer(e)].output_cb
        => \A x \in Ends : ws[x].status = "CLOSED"

\* An end accepts the handshake of the other: what startAsClient sends, a server
\* accepts, and what it answers, the client.
HandshakeAccepted == \A e \in Ends : ws[e].status # "PENDING_ERROR"
=============================================================================
