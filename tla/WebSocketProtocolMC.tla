------------------------- MODULE WebSocketProtocolMC -------------------------
(***************************************************************************)
(* Connections of two ends of the library, and of one end with a peer that *)
(* is anything: the peer's bytes are on their way, and an end that only    *)
(* listens stands for it and is told what the first one answers.           *)
(***************************************************************************)
EXTENDS WebSocketProtocol

Roomy == [start_line |-> 8, header |-> 16, body |-> 60]
Tight == [start_line |-> 4, header |-> 7, body |-> 7]
MessageMax == 5

NoCalls == [e \in Ends |-> CallBound]
Silence == [e \in Ends |-> <<>>]

-----------------------------------------------------------------------------
(* Two ends of the library, from the handshake on *)

WithLength == [NoHeaders EXCEPT !["length"] = ContentLength(0)]

Talk(headers) ==
    [ws |-> [e \in Ends |-> NewProtocol(headers, MessageMax, Roomy)],
     app |-> [e \in Ends |-> "new"], wire |-> Silence, heard |-> Silence, said |-> Silence,
     calls |-> [e \in Ends |-> 0], bad |-> {}]

-----------------------------------------------------------------------------
(* Frames of any peer of e: what they mean, or that e must refuse them *)

PeerFrame(e, start, length, payload) ==
    IF e = "server" THEN <<start, length + 128>> \o <<9, 3, 5, 6>> \o Masked(payload, <<9, 3, 5, 6>>)
    ELSE <<start, length>> \o payload
Whole(e, opcode, payload) == PeerFrame(e, 128 + opcode, Len(payload), payload)
Part(e, opcode, payload) == PeerFrame(e, opcode, Len(payload), payload)

Means(bytes, events) == [bytes |-> bytes, events |-> events, bad |-> FALSE]
Message(p) == [kind |-> "message", payload |-> p]
Ping(p) == [kind |-> "ping", payload |-> p]

GoodFrames(e) ==
    {Means(Whole(e, 1, <<7>>), <<Message(<<7>>)>>),
     Means(Part(e, 2, <<7>>) \o Whole(e, 0, <<8>>), <<Message(<<7, 8>>)>>),
     Means(Part(e, 1, <<7>>) \o Whole(e, 9, <<4, 5>>) \o Part(e, 0, <<>>) \o Whole(e, 0, <<8>>),
           <<Ping(<<4, 5>>), Message(<<7, 8>>)>>),
     Means(Whole(e, 9, <<6>>), <<Ping(<<6>>)>>),
     Means(Whole(e, 8, <<1>>), <<[kind |-> "close"]>>)}

BadFrames(e) ==
    {Whole(e, 16 + 2, <<>>),                                \* a reserved bit
     Whole(e, 3, <<>>), Whole(e, 11, <<>>),                 \* unknown opcodes
     Part(e, 9, <<>>),                                      \* a ping in parts
     PeerFrame(e, 128 + 9, Len7Max + 1, <<0, 3, 1, 1, 1>>), \* a long ping
     Whole(e, 0, <<7>>),                                    \* a part of no message
     Part(e, 1, <<7>>) \o Whole(e, 1, <<7>>),               \* a message in a message
     Part(e, 1, <<7, 7>>) \o Part(e, 0, <<7, 7>>) \o Whole(e, 0, <<7, 7>>)}  \* too large
    \cup IF e = "server"
         THEN {<<128 + 1, 1, 7>>,                           \* without a mask
               <<128 + 1, 128 + Len7Max + 1, 0, 2>>,        \* not the shortest form
               <<128 + 1, 128 + Len7Max + 2, 0, 0, 3>>}
         ELSE {<<128 + 1, 128 + 1>>,
               <<128 + 1, Len7Max + 1, 0, 2>>,
               <<128 + 1, Len7Max + 2, 0, 0, 3>>,
               <<128 + 1, Len7Max + 2, 128, 0, 4>>}         \* the sign bit

Refused(bytes) == [bytes |-> bytes, events |-> <<>>, bad |-> TRUE]

\* Two things one after the other; nothing follows a close or what is refused.
Then(first, second) ==
    [bytes |-> first.bytes \o second.bytes, events |-> first.events \o second.events,
     bad |-> second.bad]
Closes(s) == s.events # <<>> /\ Last(s.events).kind = "close"

FrameScripts(e) ==
    LET last == GoodFrames(e) \cup {Refused(b) : b \in BadFrames(e)}
    IN  last \cup {Then(s, t) : s \in {g \in GoodFrames(e) : ~Closes(g)}, t \in last}

Open == [kind |-> "open"]
Listen(e, s) ==
    [ws |-> [x \in Ends |->
        [NewProtocol(NoHeaders, MessageMax, Roomy) EXCEPT
            !.status = "CONNECTED", !.is_client = (x = "client"), !.output_cb = (x = e)]],
     app |-> [x \in Ends |-> "waiting"], wire |-> [Silence EXCEPT ![e] = s.bytes],
     heard |-> [x \in Ends |-> <<Open>>], said |-> [Silence EXCEPT ![Peer(e)] = s.events],
     calls |-> NoCalls, bad |-> IF s.bad THEN {e} ELSE {}]

-----------------------------------------------------------------------------
(* HTTP messages of any peer of e *)

Line(e) == IF e = "server" THEN RequestLine ELSE ResponseLine
\* A header block of one-piece lines, and an empty line.
Block(fields) == FlattenSeq([i \in DOMAIN fields |-> fieldLine(fields[i])]) \o Crlf
Chunk(data) == <<ChunkSize(Len(data))>> \o Crlf \o data \o Crlf
LastChunk == <<ChunkSize(0)>> \o Crlf
Http(e, length, other, body) ==
    [kind |-> "http", payload |->
        [line |-> Line(e), body |-> body,
         headers |-> [NoHeaders EXCEPT !["length"] = length, !["other"] = other]]]

\* What writeMessage writes of a message.
Written(m) == Means(writeMessage(m.payload), <<m>>)

GoodMessages(e) ==
    LET Start == <<Line(e)>> \o Crlf
    IN  {Written(Http(e, None, None, <<>>)),
         Written(Http(e, ContentLength(2), Other, Crlf)),
         Means(<<Line(e), Text>> \o Crlf \o Block(<<ContentLength(1), ContentLength(0)>>),
               <<Http(e, ContentLength(0), None, <<>>)>>),
         Means(Start \o Block(<<Chunked>>) \o Chunk(<<7, CR>>) \o Chunk(<<LF>>) \o LastChunk
                   \o Crlf,
               <<Http(e, ContentLength(3), None, <<7, CR, LF>>)>>),
         Means(Start \o Block(<<Chunked>>) \o Chunk(<<8>>) \o LastChunk \o Block(<<Other>>),
               <<Http(e, ContentLength(1), Other, <<8>>)>>)}

\* Messages with headers and no size are neither good nor bad here: writeMessage
\* writes them, as http_client.cc does, and readBody refuses them.
BadMessages(e) ==
    LET Start == <<Line(e)>> \o Crlf
    IN  {<<Text>> \o Crlf,                                    \* no start line
         <<IF e = "server" THEN ResponseLine ELSE RequestLine>> \o Crlf \o Crlf,
         Start \o Block(<<Text>>),                            \* no colon
         Start \o Block(<<ContentLength(-1)>>),
         Start \o Block(<<Chunked>>) \o <<7>> \o Crlf,        \* no chunk size
         Start \o Block(<<Chunked>>) \o <<ChunkSize(1)>> \o Crlf \o <<7, 7, 7>>}

HttpScripts(e) ==
    LET last == GoodMessages(e) \cup {Refused(b) : b \in BadMessages(e)}
    IN  {Then(s, t) : s \in GoodMessages(e), t \in last} \cup {Refused(b) : b \in BadMessages(e)}

\* At the limits, and beyond each.
LimitScripts(e) ==
    LET Start == <<Line(e)>> \o Crlf
    IN  {Means(<<Line(e), Text>> \o Crlf \o Block(<<ContentLength(0)>>),
               <<Http(e, ContentLength(0), None, <<>>)>>),
         Means(Start \o Block(<<ContentLength(7)>>) \o [i \in 1..7 |-> i],
               <<Http(e, ContentLength(7), None, [i \in 1..7 |-> i])>>),
         Refused(<<Line(e), Text, Text>> \o Crlf \o Block(<<ContentLength(0)>>)),
         Refused(Start \o <<Other, Text, Text, Text>> \o Crlf \o Crlf),
         Refused(Start \o Block(<<ContentLength(8)>>)),
         Refused(Start \o Block(<<Chunked>>) \o <<ChunkSize(8)>> \o Crlf),
         Refused(Start \o Block(<<Chunked>>) \o FlattenSeq([i \in 1..4 |-> Chunk(<<7, 7>>)]))}

Serve(e, s, limits) ==
    [ws |-> [x \in Ends |->
        [NewProtocol(NoHeaders, MessageMax, limits) EXCEPT !.status = "HTTP"]],
     app |-> [x \in Ends |-> "waiting"], wire |-> [Silence EXCEPT ![e] = s.bytes],
     heard |-> Silence, said |-> [Silence EXCEPT ![Peer(e)] = s.events],
     calls |-> NoCalls, bad |-> IF s.bad THEN {e} ELSE {}]

-----------------------------------------------------------------------------
AllScenarios ==
    {Talk(WithLength)}
    \cup UNION {{Listen(e, s) : s \in FrameScripts(e)} : e \in Ends}
    \cup UNION {{Serve(e, s, Roomy) : s \in HttpScripts(e)} : e \in Ends}
    \cup UNION {{Serve(e, s, Tight) : s \in LimitScripts(e)} : e \in Ends}

PlainHandshake == {Talk(NoHeaders)}

Keys4 == {<<1, 2, 3, 4>>}
\* Payloads of each form of length, at its limits.
Payloads3 == {[i \in 1..n |-> 4 + i] : n \in {Len7Max, Len16Max, Len16Max + 1}}
=============================================================================
