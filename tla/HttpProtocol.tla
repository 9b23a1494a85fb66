---------------------------- MODULE HttpProtocol ----------------------------
(***************************************************************************)
(* http_protocol.cc: the incremental parser of HTTP messages.              *)
(*                                                                         *)
(* The stream is a sequence of numbers: below 256 the bytes of bodies,     *)
(* above it the pieces of text a header is made of, each as long as a      *)
(* byte.  A start line or a header line is one piece that says which, and  *)
(* then any number of Text.  A handler takes the members of the protocol,  *)
(* h, and what is readable, b, and is one round of the loop of             *)
(* recvMessage: ret is what it returns, h and b what it leaves.            *)
(***************************************************************************)
EXTENDS Integers, Sequences, SequencesExt, FiniteSetsExt

None == -1

CR == 256
LF == 257
Crlf == <<CR, LF>>
Text == 258
RequestLine == 260
SwitchingLine == 261        \* "HTTP/1.1 101 ..."
ResponseLine == 262         \* any other status
Upgrade == 270              \* the handshake headers of a WebSocket, all valid
Chunked == 271              \* Transfer-Encoding: chunked
Other == 272                \* any other header
ContentLength(n) == 300 + n
ChunkSize(n) == 400 + n

Sizes == 0..99
ContentLengths == {ContentLength(n) : n \in Sizes \cup {-1}}
ChunkSizes == {ChunkSize(n) : n \in Sizes}

ResponseLines == {SwitchingLine, ResponseLine}
StartLines == {RequestLine} \cup ResponseLines

\* The keys of HttpMessage::headers_, in the order of the map.
Keys == <<"length", "other", "coding", "upgrade">>
Key(field) ==
    CASE field \in ContentLengths -> "length"
      [] field = Chunked -> "coding"
      [] field = Upgrade -> "upgrade"
      [] field = Other -> "other"
Fields == ContentLengths \cup {Chunked, Upgrade, Other}

NoHeaders == [k \in Range(Keys) |-> None]
NewMessage(line) == [line |-> line, headers |-> NoHeaders, body |-> <<>>]
NoMessage == NewMessage(None)

\* The members after the constructor and the setters, which refuse limits below
\* 2, 4 and 1.
NewHttp(limits) ==
    [status |-> "READING_START_LINE", message |-> NoMessage, chunk_buffer |-> <<>>,
     limits |-> limits]

\* (mutant) the chunks of the last message stay
resetKeepsChunks(h) == [h EXCEPT !.status = "READING_START_LINE", !.message = NoMessage]

reset(h) == NewHttp(h.limits)

-----------------------------------------------------------------------------
Result(ret, h, b) == [ret |-> ret, h |-> h, b |-> b]
Wait(h, b) == Result(0, h, b)
Fail(h, b) == Result(-1, [h EXCEPT !.status = "PENDING_ERROR"], b)
Done(h, status, b) == Result(1, [h EXCEPT !.status = status], b)

Occurs(pattern, b) ==
    {i \in 1..(Len(b) - Len(pattern) + 1) : SubSeq(b, i, i + Len(pattern) - 1) = pattern}

\* string_util::find: how many elements come before the pattern, or None.
find(b, pattern) ==
    IF Occurs(pattern, b) = {} THEN None ELSE Min(Occurs(pattern, b)) - 1

Drop(b, n) == SubSeq(b, n + 1, Len(b))

readStartLine(h, b) ==
    LET length == find(b, Crlf)
        max == h.limits.start_line
    IN  IF length = None
        THEN IF Len(b) > max THEN Fail(h, b) ELSE Wait(h, b)
        ELSE IF length > max - 2 \/ b[1] \notin StartLines
        THEN Fail(h, b)
        ELSE Done([h EXCEPT !.message = NewMessage(b[1])], "READING_HEADER",
                  Drop(b, length + 2))

\* Where the lines of a header block begin.
LineStarts(block) == {1} \cup {i + 2 : i \in Occurs(Crlf, block)}

\* setHeader, line by line: the last value of a key stays.
withHeaders(headers, block) ==
    [k \in Range(Keys) |->
        LET of_key == {i \in LineStarts(block) : Key(block[i]) = k}
        IN  IF of_key = {} THEN headers[k] ELSE block[Max(of_key)]]

\* The headers, and those that follow a chunked body.
readHeader(h, b) ==
    LET length == find(b, Crlf \o Crlf)
        max == h.limits.header
        block == SubSeq(b, 1, length)
    IN  IF Len(b) < 2 THEN Wait(h, b)
        ELSE IF SubSeq(b, 1, 2) = Crlf
        THEN Done(h, "FINISHED", Drop(b, 2))
        ELSE IF length = None
        THEN IF Len(b) > max THEN Fail(h, b) ELSE Wait(h, b)
        ELSE IF length > max - 4 \/ \E i \in LineStarts(block) : block[i] \notin Fields
        THEN Fail(h, b)
        ELSE Done([h EXCEPT !.message.headers = withHeaders(@, block)],
                  IF h.status = "READING_TRAILER_HEADER" THEN "FINISHED" ELSE "READING_BODY",
                  Drop(b, length + 4))

\* With a Content-Length.
readSizedBody(h, b) ==
    LET size == h.message.headers["length"] - ContentLength(0)
    IN  IF size < 0 \/ size > h.limits.body THEN Fail(h, b)
        ELSE IF Len(b) < size THEN Wait(h, b)
        ELSE Done([h EXCEPT !.message.body = SubSeq(b, 1, size)], "FINISHED", Drop(b, size))

\* The last chunk is taken: the message becomes one with a Content-Length.
endChunks(h, b) ==
    LET body == h.chunk_buffer
    IN  Done([h EXCEPT !.message.body = body,
                       !.message.headers["length"] = ContentLength(Len(body)),
                       !.message.headers["coding"] = None],
             "READING_TRAILER_HEADER", b)

\* Tested when readBody is called; a chunk taken makes the sum smaller, so that
\* to test it again in each round changes nothing.
ChunksOverflow(h, b) == Len(h.chunk_buffer) + Len(b) > h.limits.body

\* One round of the loop over the chunks.
readChunk(h, b) ==
    LET line == find(b, Crlf)
        size == b[1] - ChunkSize(0)
        data == line + 2
        total == IF size = 0 THEN data ELSE data + size + 2
    IN  IF ChunksOverflow(h, b) THEN Fail(h, b)
        ELSE IF line = None THEN Wait(h, b)
        ELSE IF b[1] \notin ChunkSizes \/ size > h.limits.body THEN Fail(h, b)
        ELSE IF Len(b) < total THEN Wait(h, b)
        ELSE IF size = 0 THEN endChunks(h, Drop(b, total))
        ELSE IF SubSeq(b, data + size + 1, total) # Crlf THEN Fail(h, b)
        ELSE Done([h EXCEPT !.chunk_buffer = @ \o SubSeq(b, data + 1, data + size)],
                  "READING_BODY", Drop(b, total))

readBody(h, b) ==
    IF h.message.headers["length"] # None THEN readSizedBody(h, b)
    ELSE IF h.message.headers["coding"] = Chunked THEN readChunk(h, b)
    ELSE Fail(h, b)

\* s_status_handler_, and what recvMessage makes of an error.
httpHandler(h, b) ==
    CASE h.status = "READING_START_LINE" -> readStartLine(h, b)
      [] h.status \in {"READING_HEADER", "READING_TRAILER_HEADER"} -> readHeader(h, b)
      [] h.status = "READING_BODY" -> readBody(h, b)
      [] h.status \in {"FINISHED", "PENDING_ERROR"} -> Result(-1, h, b)

\* retrieveRequest and retrieveResponse succeed on a finished message of their
\* type, and reset the parser.
canRetrieve(h, lines) == h.status = "FINISHED" /\ h.message.line \in lines

-----------------------------------------------------------------------------
(* writeMessage *)

fieldLine(field) == IF field = None THEN <<>> ELSE <<field>> \o Crlf

writeMessage(m) ==
    <<m.line>> \o Crlf
        \o FlattenSeq([i \in DOMAIN Keys |-> fieldLine(m.headers[Keys[i]])])
        \o Crlf \o m.body
=============================================================================
