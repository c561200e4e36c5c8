----------------------------- MODULE Responses -----------------------------
(* How an answer is framed: the calls that SynchronousResponse,              *)
(* StreamingResponse and the application's own responses make on a           *)
(* ResponseWriter, and the bytes that Connection makes of them, as far as    *)
(* the other side needs them to find the end of the body.                    *)
(* What is sent is a sequence of [is, n]: a "line" of the header,            *)
(* "length" n for Content-Length: n, "blank" for the line that ends the      *)
(* header, "size" n for a chunk size and its CRLF, "crlf", and "byte" n for  *)
(* the nth byte of the body.                                                 *)
(* Names ..._<what is wrong> are slips that the checks must notice; no action *)
(* uses them.                                                                *)
EXTENDS Naturals, Sequences

CONSTANTS
    PayloadSizes,   \* sizes of the payloads of the application
    StreamBuffer,   \* getBufferSize()
    MaxPayload      \* bound: bytes of the body

ASSUME PayloadAssumption == PayloadSizes \subseteq Nat /\ MaxPayload \in Nat
ASSUME BufferAssumption == StreamBuffer \in Nat /\ StreamBuffer > 0

VARIABLES
    kind,           \* "none", "sync", "stream" or "own": who answers
    writer,         \* what the Connection knows of the answer
    \* history
    given,          \* bytes of the body the response had to send
    lost            \* the stream failed: its last bytes are gone

rsvars == <<kind, writer, given, lost>>

NewWriter == [state |-> "AWAITING_RESPONSE_BEGIN", chunked |-> FALSE, chunk |-> 0,
              sent |-> 0, wire |-> <<>>, open |-> TRUE]

ResponsesInit == kind = "none" /\ writer = NewWriter /\ given = 0 /\ lost = FALSE

Item(is, n) == [is |-> is, n |-> n]
PutItems(w, items) == [w EXCEPT !.wire = @ \o items]

(* begin(), header(), payload(), writeChunkHeader() and finish().            *)
BeginResponse(w, chunked) ==
    IF w.state # "AWAITING_RESPONSE_BEGIN" THEN w
    ELSE [PutItems(w, <<Item("line", 0)>>) EXCEPT !.state = "SENDING_RESPONSE_HEADERS",
                                                  !.chunked = chunked]

AddHeader(w, item) == IF w.state # "SENDING_RESPONSE_HEADERS" THEN w ELSE PutItems(w, <<item>>)

ChunkHeader(w, size) ==
    LET separator == IF w.chunk > 0 THEN <<Item("crlf", 0)>> ELSE <<>>
    IN  [PutItems(w, separator \o <<Item("size", size)>>) EXCEPT !.chunk = @ + 1]

EndHeaders(w) ==
    IF w.state = "SENDING_RESPONSE_HEADERS" THEN PutItems(w, <<Item("blank", 0)>>) ELSE w

Sending(w) == w.state \in {"SENDING_RESPONSE_HEADERS", "SENDING_RESPONSE_BODY"}

WritePayload_evenEmpty(w, size) ==
    LET body == [EndHeaders(w) EXCEPT !.state = "SENDING_RESPONSE_BODY"]
        framed == IF w.chunked THEN ChunkHeader(body, size) ELSE body
    IN  IF ~Sending(w) THEN w
        ELSE [PutItems(framed, [i \in 1..size |-> Item("byte", w.sent + i)]) EXCEPT !.sent = @ + size]

WritePayload(w, size) ==
    LET body == [EndHeaders(w) EXCEPT !.state = "SENDING_RESPONSE_BODY"]
        framed == IF size > 0 /\ w.chunked THEN ChunkHeader(body, size) ELSE body
    IN  IF ~Sending(w) THEN w
        ELSE [PutItems(framed, [i \in 1..size |-> Item("byte", w.sent + i)]) EXCEPT !.sent = @ + size]

FinishResponse(w, keepOpen) ==
    LET body == EndHeaders(w)
        ended == IF w.chunked THEN PutItems(ChunkHeader(body, 0), <<Item("crlf", 0)>>) ELSE body
    IN  IF ~Sending(w) THEN w
        ELSE [ended EXCEPT !.state = "READING_HEADERS", !.open = keepOpen]

-----------------------------------------------------------------------------
(* SynchronousResponse::handle() of a response that is not an error: one     *)
(* answers with sendError(), which closes the connection.                    *)
Synchronous(size, keepAlive) ==
    LET header == AddHeader(BeginResponse(writer, FALSE), Item("length", size))
        more == AddHeader(header, Item("line", 0))
    IN  /\ kind = "none" /\ kind' = "sync"
        /\ writer' = FinishResponse(WritePayload(more, size), keepAlive)
        /\ given' = size /\ UNCHANGED lost

(* StreamingResponse::handle() of a stream of size bytes, of which the first *)
(* good can be read: read() fills the buffer, or ends with what there is and *)
(* eof, or with an error.                                                    *)
Streaming(size, good, chunked, keepAlive) ==
    LET full == good \div StreamBuffer
        header == AddHeader(BeginResponse(writer, chunked), Item("line", 0))
        whole[k \in 0..full] ==
            IF k = 0 THEN header ELSE WritePayload(whole[k - 1], StreamBuffer)
        last == IF good = size THEN WritePayload(whole[full], size % StreamBuffer) ELSE whole[full]
    IN  /\ kind = "none" /\ kind' = "stream" /\ good <= size
        /\ writer' = FinishResponse(last, keepAlive)
        /\ given' = size /\ lost' = (good < size)

(* The application's own response: its calls in any order, and a payload     *)
(* that comes too early or too late is refused.                              *)
OwnBegins(chunked) ==
    /\ kind \in {"none", "own"} /\ kind' = "own"
    /\ writer' = BeginResponse(writer, chunked) /\ UNCHANGED <<given, lost>>

OwnPayload(size) ==
    /\ kind = "own" /\ given + size <= MaxPayload
    /\ writer' = WritePayload(writer, size)
    /\ given' = given + IF Sending(writer) THEN size ELSE 0
    /\ UNCHANGED <<kind, lost>>

OwnFinishes(keepOpen) ==
    /\ kind = "own"
    /\ writer' = FinishResponse(writer, keepOpen) /\ UNCHANGED <<kind, given, lost>>

ResponsesNext ==
    \/ \E size \in PayloadSizes, keep \in BOOLEAN : Synchronous(size, keep)
    \/ \E size \in PayloadSizes, good \in 0..MaxPayload, chunked, keep \in BOOLEAN :
          Streaming(size, good, chunked, keep)
    \/ \E chunked \in BOOLEAN : OwnBegins(chunked)
    \/ \E size \in PayloadSizes : OwnPayload(size)
    \/ \E keep \in BOOLEAN : OwnFinishes(keep)

ResponsesSpec == ResponsesInit /\ [][ResponsesNext]_rsvars

-----------------------------------------------------------------------------
(* A client that reads the answer: where in it it is, bytes of the chunk     *)
(* still to come, bytes of the body found, and the length that the header    *)
(* gave, if any.                                                             *)
NewReader == [at |-> "header", left |-> 0, found |-> 0, lengths |-> {}]

ReadItem(r, item, chunked) ==
    LET byte == item = Item("byte", r.found + 1)
        goesTo(at) == [r EXCEPT !.at = at]
    IN  CASE r.at = "header" /\ item.is = "line" -> r
          [] r.at = "header" /\ item.is = "length" -> [r EXCEPT !.lengths = @ \cup {item.n}]
          [] r.at = "header" /\ item.is = "blank" -> goesTo(IF chunked THEN "size" ELSE "body")
          [] r.at = "body" /\ byte -> [r EXCEPT !.found = @ + 1]
          [] r.at = "size" /\ item.is = "size" ->
                [goesTo(IF item.n = 0 THEN "last" ELSE "chunk") EXCEPT !.left = item.n]
          [] r.at = "chunk" /\ r.left > 0 /\ byte -> [r EXCEPT !.found = @ + 1, !.left = @ - 1]
          [] r.at = "chunk" /\ r.left = 0 /\ item.is = "crlf" -> goesTo("size")
          [] r.at = "last" /\ item.is = "crlf" -> goesTo("end")
          [] OTHER -> goesTo("lost")

Read(items, chunked) ==
    LET upTo[k \in 0..Len(items)] ==
            IF k = 0 THEN NewReader ELSE ReadItem(upTo[k - 1], items[k], chunked)
    IN  upTo[Len(items)]

(* A client that keeps the connection finds the end of the body when         *)
(* finish() was called and not before, and every byte up to there: chunked,  *)
(* whatever the sizes of the payloads (an empty one would end it), or of the *)
(* length that the header says.                                              *)
BodyEndsWhereItSays ==
    LET read == Read(writer.wire, writer.chunked)
        finished == writer.state = "READING_HEADERS"
    IN  /\ read.at # "lost" /\ (lost \/ read.found = given)
        /\ writer.chunked => (read.at = "end" <=> finished)
        /\ finished /\ ~writer.chunked => read.at = "body" /\ read.lengths \subseteq {read.found}
=============================================================================
