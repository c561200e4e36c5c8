---------------------------- MODULE Connection ----------------------------
(* One Connection (Connection.cpp) as the protocol machine it is: requests   *)
(* parsed from _inBuf, page responses that the application writes during the *)
(* callback or later, the WebSocket handshakes and frames, errors that close *)
(* once sent, and deletion.  The seasocks thread alone runs all of it; what  *)
(* interleaves is the client, the application's calls inside callbacks and   *)
(* from tasks, and the epoll events.  Module OutBuffer has the output side   *)
(* byte by byte; here it is only empty, queued (nothing will flush it) or    *)
(* waiting for EPOLLOUT.                                                     *)
(* Names ..._<what is wrong> are slips that the checks must notice; no action *)
(* uses them.                                                                *)
EXTENDS Naturals, Sequences

CONSTANTS
    Kinds,          \* the kinds of request this client makes
    FrameKinds,     \* the kinds of WebSocket frame it sends
    MaxRequests,    \* bound: requests over the life of the connection
    MaxFrames       \* bound: frames

RequestKinds == {"get", "post", "embedded", "head", "stats", "bad",
                 "upgrade", "hixie", "badVersion", "noEndpoint"}
UpgradeKinds == {"upgrade", "hixie", "badVersion", "noEndpoint"}

ASSUME KindsAssumption == Kinds \subseteq RequestKinds
ASSUME FrameKindsAssumption == FrameKinds \subseteq {"text", "ping", "close", "fragment"}
ASSUME BoundsAssumption ==
    MaxRequests \in Nat /\ MaxFrames \in Nat

Requests == 1..MaxRequests
Nobody == 0         \* no _response

VARIABLES
    \* the client
    asked,          \* the kinds of the requests it has sent
    frames,         \* number of frames it has sent
    patient,        \* it has waited for every answer before it asked again
    hungUp,         \* it has closed its sending side, or said Close
    wire,           \* what it sent and the server has not read
    \* the connection
    inBuf,          \* _inBuf, as requests, bodies, keys, frames and what is left
                    \* of them once they have been read in place
    decoded,        \* how much of _inBuf the current pass has decoded
    state,          \* _state
    request,        \* the kind of *_request
    resp,           \* _response, as the number of its request
    wsHandler,      \* _webSocketHandler is set
    out,            \* _outBuf
    closeOnEmpty,   \* _closeOnEmpty
    shutdown,       \* _shutdown
    open,           \* not deleted
    attached,       \* _writer still points at this connection
    \* the seasocks thread
    pc,             \* where it is with this connection
    again,          \* the head it is about is still in front of _inBuf, to be
                    \* erased when it returns; then handleNewData() is called again
    \* the application
    app,            \* how far it is with each response
    \* history
    replies,        \* the replies accepted by write(), in order
    delivered,      \* the frames passed to onData()
    kept,           \* how many of delivered are of frames erased since
    threwAt,        \* the positions in delivered of the calls that threw
    threw,          \* the requests in which a callback threw before they were answered
    connects, disconnects   \* calls of onConnect() and onDisconnect()

client == <<asked, frames, patient, hungUp, wire>>
machine == <<state, request, resp, wsHandler, attached, open>>
output == <<out, closeOnEmpty, shutdown>>
frameHistory == <<delivered, kept, threwAt>>
history == <<frameHistory, threw, connects, disconnects>>
vars == <<client, inBuf, decoded, machine, output, pc, again, app, replies, history>>

Init ==
    /\ asked = <<>> /\ frames = 0 /\ patient = TRUE /\ hungUp = FALSE /\ wire = <<>>
    /\ inBuf = <<>> /\ decoded = 0
    /\ state = "READING_HEADERS" /\ request = "none" /\ resp = Nobody
    /\ wsHandler = FALSE /\ attached = TRUE /\ open = TRUE
    /\ out = "empty" /\ closeOnEmpty = FALSE /\ shutdown = FALSE
    /\ pc = "idle" /\ again = FALSE
    /\ app = [i \in Requests |-> "none"]
    /\ replies = <<>> /\ delivered = <<>> /\ connects = 0 /\ disconnects = 0
    /\ kept = 0 /\ threwAt = {} /\ threw = {}

Responding ==
    {"AWAITING_RESPONSE_BEGIN", "SENDING_RESPONSE_HEADERS", "SENDING_RESPONSE_BODY"}
WebSocketStates == {"HANDLING_HIXIE_WEBSOCKET", "HANDLING_HYBI_WEBSOCKET"}

-----------------------------------------------------------------------------
(* Output: each operator is the set of what may become of the buffer and of  *)
(* the connection; ok is what the C++ function returns.                      *)

Accepts_untilClosed == ~shutdown

(* write() does nothing on a connection that is closed or about to be.       *)
Accepts == ~shutdown /\ ~closeOnEmpty

Now == [out |-> out, closeOnEmpty |-> closeOnEmpty, shutdown |-> shutdown, ok |-> TRUE]
Broken == [Now EXCEPT !.shutdown = TRUE, !.ok = FALSE]
Drained == [Now EXCEPT !.out = "empty", !.shutdown = @ \/ closeOnEmpty]
Waiting == [Now EXCEPT !.out = "waiting"]

(* flush(); what a connection that is shut down still buffers is not kept.   *)
Flushed == IF shutdown THEN {Now, [Now EXCEPT !.ok = FALSE]}
           ELSE IF out = "empty" THEN {Now}
           ELSE {Drained, Waiting, Broken}

(* write() and bufferLine() without a flush                                  *)
Queued == IF ~Accepts THEN {[Now EXCEPT !.ok = FALSE]}
          ELSE {[Now EXCEPT !.out = IF @ = "empty" THEN "queued" ELSE @], Broken}

(* Lines and a last write() that flushes: sendData(), send(), payload().     *)
Sent == IF ~Accepts THEN {[Now EXCEPT !.ok = FALSE]} ELSE {Drained, Waiting, Broken}


(* Lines and a flush(): the 101 reply, the end of a response.                *)
SentLines == IF Accepts THEN {Drained, Waiting, Broken} ELSE Flushed

(* closeWhenEmpty(), when everything before it went to o.                    *)
ClosedWhenEmpty(o) ==
    IF o.out = "empty" THEN [o EXCEPT !.shutdown = TRUE] ELSE [o EXCEPT !.closeOnEmpty = TRUE]

(* sendError(): the lines, flush() and, unless it failed, closeWhenEmpty().  *)
SendError == {IF o.ok THEN ClosedWhenEmpty(o) ELSE o : o \in SentLines}

(* sendStaticData(): a file is lines, flush() and write()s; no write() at    *)
(* all when it is empty, and a read of it that fails half way returns FALSE. *)
SendFile == SentLines \cup {[o EXCEPT !.ok = FALSE] : o \in SentLines}

Apply(o) == out' = o.out /\ closeOnEmpty' = o.closeOnEmpty /\ shutdown' = o.shutdown

(* The status line of a reply to request i gets into the stream, or not.     *)
Reply(i, what) ==
    replies' = IF Accepts THEN Append(replies, [id |-> i, is |-> what]) ELSE replies

-----------------------------------------------------------------------------
(* The client.  It knows a request is answered when the last byte of the     *)
(* reply is out.                                                             *)
Answered(i) ==
    /\ \E r \in 1..Len(replies) : replies[r].id = i /\ replies[r].is # "half"
    /\ app[i] \notin {"asked", "begun"}
    /\ out = "empty"

Upgraded == \E r \in 1..Len(replies) : replies[r].is = "101"

AllAnswered == \A i \in 1..Len(asked) : Answered(i)
MaySend == \A i \in 1..Len(asked) : Answered(i) \/ asked[i] \notin UpgradeKinds

Parts(kind, i) ==
    CASE kind = "post"  -> <<[is |-> "post", id |-> i], [is |-> "body", id |-> i]>>
      [] kind = "hixie" -> <<[is |-> "hixie", id |-> i], [is |-> "key3", id |-> i]>>
      [] OTHER          -> <<[is |-> kind, id |-> i]>>

ClientRequests(kind) ==
    /\ open /\ ~hungUp /\ Len(asked) < MaxRequests /\ ~Upgraded /\ MaySend
    /\ asked' = Append(asked, kind) /\ patient' = (patient /\ AllAnswered)
    /\ wire' = wire \o Parts(kind, Len(asked) + 1)
    /\ UNCHANGED <<frames, hungUp, inBuf, decoded, machine, output, pc, again, app, replies, history>>

ClientSendsFrame(kind) ==
    /\ open /\ ~hungUp /\ frames < MaxFrames /\ Upgraded /\ out = "empty"
    /\ frames' = frames + 1
    /\ wire' = Append(wire, [is |-> kind, id |-> frames + 1])
    /\ hungUp' = (kind = "close")
    /\ UNCHANGED <<asked, patient, inBuf, decoded, machine, output, pc, again, app, replies, history>>

ClientHangsUp ==
    /\ ~hungUp /\ hungUp' = TRUE
    /\ UNCHANGED <<asked, frames, patient, wire, inBuf, decoded, machine, output, pc, again, app, replies, history>>

-----------------------------------------------------------------------------
(* Reading                                                                   *)

MayRead_always == open

(* handleDataReadyForRead() returns at once on a closed connection.          *)
MayRead == open /\ ~shutdown

(* EPOLLIN with data: some of what was sent is read, and parsed.             *)
DataReadyForRead ==
    /\ pc = "idle" /\ MayRead /\ wire # <<>>
    /\ \E n \in 1..Len(wire) :
          /\ inBuf' = inBuf \o SubSeq(wire, 1, n)
          /\ wire' = SubSeq(wire, n + 1, Len(wire))
    /\ pc' = "parse"
    /\ UNCHANGED <<asked, frames, patient, hungUp, decoded, machine, output, again, app, replies, history>>

(* EPOLLIN at the end of the stream: read() returns 0.                       *)
EndOfStream ==
    /\ pc = "idle" /\ MayRead /\ wire = <<>> /\ hungUp
    /\ shutdown' = TRUE
    /\ UNCHANGED <<client, inBuf, decoded, machine, out, closeOnEmpty, pc, again, app, replies, history>>

(* EPOLLOUT                                                                  *)
DataReadyForWrite ==
    /\ pc = "idle" /\ open /\ ~shutdown /\ out = "waiting"
    /\ \E o \in Flushed : Apply(o)
    /\ UNCHANGED <<client, inBuf, decoded, machine, pc, again, app, replies, history>>

(* What follows a handler that answered without a callback: rest is what it  *)
(* leaves of _inBuf; on FALSE its caller closes and stops.                   *)
AnswerNow(i, what, outcomes, rest, more) ==
    /\ Reply(i, what)
    /\ \E o \in outcomes :
          /\ out' = o.out /\ closeOnEmpty' = o.closeOnEmpty
          /\ shutdown' = (o.shutdown \/ ~o.ok)
          /\ inBuf' = IF o.ok \/ ~more THEN rest ELSE inBuf
          /\ pc' = IF o.ok /\ more THEN "parse" ELSE "idle"

(* send404(): it looks at the URI of *_request.                              *)
Send404(uri) == IF uri \in {"embedded", "head", "stats"} THEN Sent ELSE SendError
Word404(uri) == IF uri \in {"embedded", "head", "stats"} THEN "ok" ELSE "error"

(* A head is parsed in place: extractLine() and shift() leave zeros in it.   *)
(* If an exception keeps it from being erased, nothing will find it again,   *)
(* but the next head will be taken to begin with what is left of it.         *)
Spent(token) == [token EXCEPT !.is = "spent"]
SpentHead == [inBuf EXCEPT ![1] = Spent(@)]

(* handlePageRequest(): some page handler throws, or returns a response, or  *)
(* none of them wants the request.                                           *)
PageHandlerThrows(i, rest, more) ==
    /\ AnswerNow(i, "error", SendError, rest, more)
    /\ state' = "READING_HEADERS"
    /\ UNCHANGED <<resp, app, again, connects, threw>>

(* sendResponse(): _response->handle() is called at once, while a head that  *)
(* has just been parsed is still in _inBuf (more).                           *)
HandlerResponds(i, rest, more) ==
    /\ state' = "AWAITING_RESPONSE_BEGIN"
    /\ resp' = i /\ app' = [app EXCEPT ![i] = "asked"]
    /\ inBuf' = (IF more THEN inBuf ELSE rest) /\ pc' = "handle" /\ again' = more
    /\ UNCHANGED <<output, replies, connects, threw>>

(* The handler's chooseProtocol() may throw, with the 101 half written.      *)
ChooseThrows(i) ==
    /\ Reply(i, "half") /\ \E o \in Queued : Apply(o)
    /\ threw' = threw \cup {i} /\ pc' = "idle"
    /\ UNCHANGED <<state, resp, again, app, connects>>

(* handleHybiHandshake(): state and _inBuf only change after onConnect().    *)
Handshake(i) ==
    /\ Reply(i, "101") /\ \E o \in SentLines : Apply(o)
    /\ connects' = connects + 1
    /\ pc' = "onConnect" /\ again' = TRUE
    /\ state' = "READING_HEADERS"
    /\ UNCHANGED <<inBuf, resp, app, threw>>

Unhandled(i, kind, rest, more) ==
    \/ /\ kind = "upgrade"
       /\ Handshake(i) \/ (ChooseThrows(i) /\ inBuf' = SpentHead)
    \/ /\ kind = "hixie"
       /\ state' = "READING_WEBSOCKET_KEY3"
       /\ inBuf' = rest /\ pc' = IF more THEN "parse" ELSE "idle"
       /\ UNCHANGED <<output, resp, app, again, replies, connects, threw>>
    \/ /\ kind \notin {"upgrade", "hixie"}
       /\ \/ /\ kind = "badVersion" /\ AnswerNow(i, "error", SendError, rest, more)
          \/ /\ kind # "badVersion" /\ AnswerNow(i, Word404(kind), Send404(kind), rest, more)
          \/ /\ kind \in {"get", "post"} /\ AnswerNow(i, "ok", SendFile, rest, more)
          \/ /\ kind \in {"get", "post"} /\ AnswerNow(i, "error", SendError, rest, more)
       /\ state' = "READING_HEADERS"
       /\ UNCHANGED <<resp, app, again, connects, threw>>

HandlePageRequest(i, kind, rest, more) ==
    \/ PageHandlerThrows(i, rest, more)
    \/ HandlerResponds(i, rest, more)
    \/ Unhandled(i, kind, rest, more)

-----------------------------------------------------------------------------
(* handleNewData(), one case of its switch at a time                         *)

ParsesHeads_always == state \notin WebSocketStates
ParsesHeads == state = "READING_HEADERS"

(* handleHeaders() with a whole head in _inBuf: processHeaders().  Whatever  *)
(* lies before the head is taken for the start of it.                        *)
HandleHeaders ==
    /\ pc = "parse" /\ ParsesHeads
    /\ \E n \in 1..Len(inBuf) :
          /\ inBuf[n].is \in RequestKinds
          /\ \A m \in 1..n - 1 : inBuf[m].is \notin RequestKinds
          /\ LET i    == inBuf[n].id
                 kind == IF n = 1 THEN inBuf[n].is ELSE "bad"
                 rest == SubSeq(inBuf, n + 1, Len(inBuf))
             IN  \/ /\ kind = "bad"
                    /\ AnswerNow(i, "error", SendError, rest, TRUE)
                    /\ UNCHANGED <<state, request, resp, wsHandler, again, app, connects, threw>>
                 \/ /\ kind = "noEndpoint"
                    /\ AnswerNow(i, Word404(request), Send404(request), rest, TRUE)
                    /\ wsHandler' = FALSE
                    /\ UNCHANGED <<state, request, resp, again, app, connects, threw>>
                 \/ /\ kind \in {"embedded", "head"}
                    /\ request' = kind
                    /\ AnswerNow(i, "ok", IF kind = "head" THEN Queued ELSE Sent, rest, TRUE)
                    /\ UNCHANGED <<state, resp, wsHandler, again, app, connects, threw>>
                 \/ /\ kind = "post"
                    /\ request' = kind /\ state' = "BUFFERING_POST_DATA" /\ inBuf' = rest
                    /\ UNCHANGED <<output, pc, resp, wsHandler, again, app, replies, connects, threw>>
                 \/ /\ kind \in {"get", "stats", "upgrade", "hixie", "badVersion"}
                    /\ request' = kind
                    /\ wsHandler' = (wsHandler \/ kind \in UpgradeKinds)
                    /\ HandlePageRequest(i, kind, rest, TRUE)
    /\ UNCHANGED <<client, decoded, attached, open, frameHistory, disconnects>>

(* handleBufferingPostData()                                                 *)
HandleBufferingPostData ==
    /\ pc = "parse" /\ state = "BUFFERING_POST_DATA"
    /\ inBuf # <<>> /\ Head(inBuf).is = "body"
    /\ HandlePageRequest(Head(inBuf).id, "post", Tail(inBuf), FALSE)
    /\ UNCHANGED <<client, decoded, request, wsHandler, attached, open, frameHistory, disconnects>>

(* handleWebSocketKey3(): here both change before onConnect().               *)
HandleWebSocketKey3 ==
    /\ pc = "parse" /\ state = "READING_WEBSOCKET_KEY3"
    /\ inBuf # <<>> /\ Head(inBuf).is = "key3"
    /\ \/ /\ Reply(Head(inBuf).id, "101") /\ \E o \in Sent : Apply(o)
          /\ state' = "HANDLING_HIXIE_WEBSOCKET" /\ inBuf' = Tail(inBuf)
          /\ connects' = connects + 1 /\ pc' = "onConnect" /\ again' = FALSE
          /\ UNCHANGED <<resp, app, threw>>
       \/ ChooseThrows(Head(inBuf).id) /\ UNCHANGED inBuf
    /\ UNCHANGED <<client, decoded, request, wsHandler, attached, open, frameHistory, disconnects>>

(* The loops of handleHybiWebSocket() and handleHixieWebSocket().            *)
Decoding == pc = "parse" /\ state \in WebSocketStates
Next1 == inBuf[decoded + 1]
Speaks == IF state = "HANDLING_HYBI_WEBSOCKET" THEN {"text", "ping"} ELSE {"text"}

Hears(id, n) ==
    /\ delivered' = Append(delivered, id)
    /\ decoded' = n /\ pc' = "onData"
    /\ UNCHANGED <<client, machine, output, again, app, replies, connects, disconnects,
                   kept, threwAt, threw>>

(* A Hixie message is ended in place, by a zero over its 0xff.               *)
Cut(token) == [token EXCEPT !.is = "cut"]

HandleText ==
    /\ Decoding /\ decoded < Len(inBuf) /\ Next1.is = "text"
    /\ Hears(Next1.id, decoded + 1)
    /\ inBuf' = IF state = "HANDLING_HIXIE_WEBSOCKET"
                THEN [inBuf EXCEPT ![decoded + 1] = Cut(@)] ELSE inBuf

(* Hixie messages that were not erased, since onData() threw, have lost      *)
(* their 0xff: they and all up to the next one, that of frame m, are taken   *)
(* for one message, whose text ends with the first.  A frame that is not     *)
(* text may have that byte or not.                                           *)
HandleCut ==
    /\ Decoding /\ decoded < Len(inBuf) /\ Next1.is = "cut"
    /\ \E m \in decoded + 1..Len(inBuf) :
          /\ inBuf[m].is \in FrameKinds
          /\ \A k \in decoded + 1..m - 1 : inBuf[k].is # "text"
          /\ Hears(Next1.id, m)
          /\ inBuf' = [inBuf EXCEPT ![m] = Cut(@)]

(* Without a 0xff behind them they wait for one.                             *)
CutWait ==
    /\ Decoding /\ decoded < Len(inBuf) /\ Next1.is = "cut"
    /\ \A m \in decoded + 1..Len(inBuf) : inBuf[m].is # "text"
    /\ decoded' = 0 /\ pc' = "idle"
    /\ inBuf' = SubSeq(inBuf, decoded + 1, Len(inBuf))
    /\ UNCHANGED <<client, machine, output, again, app, replies, history>>

HandlePing ==
    /\ Decoding /\ decoded < Len(inBuf) /\ Next1.is = "ping" /\ "ping" \in Speaks
    /\ \E o \in Sent : Apply(o)
    /\ decoded' = decoded + 1
    /\ UNCHANGED <<client, inBuf, machine, pc, again, app, replies, history>>

(* A Close frame, or one that is not supported: the rest stays in _inBuf.    *)
HandleCloseOrError ==
    /\ Decoding /\ decoded < Len(inBuf) /\ Next1.is \notin Speaks \cup {"cut"}
    /\ shutdown' = TRUE /\ decoded' = 0 /\ pc' = "idle"
    /\ UNCHANGED <<client, inBuf, machine, out, closeOnEmpty, again, app, replies, history>>

NoMessage ==
    /\ Decoding /\ decoded = Len(inBuf)
    /\ inBuf' = <<>> /\ decoded' = 0 /\ pc' = "idle"
    /\ kept' = Len(delivered)
    /\ UNCHANGED <<client, machine, output, again, app, replies, delivered, threwAt,
                   threw, connects, disconnects>>

(* Nothing to do until there is more, or until the response is finished.     *)
WaitForMore ==
    /\ pc = "parse"
    /\ \/ state \in Responding
       \/ state = "READING_HEADERS" /\ \A n \in 1..Len(inBuf) : inBuf[n].is \notin RequestKinds
       \/ state \in {"BUFFERING_POST_DATA", "READING_WEBSOCKET_KEY3"} /\ inBuf = <<>>
    /\ pc' = "idle"
    /\ UNCHANGED <<client, inBuf, decoded, machine, output, again, app, replies, history>>

(* The application's callback returns ...                                    *)
EraseHead == inBuf' = IF again THEN Tail(inBuf) ELSE inBuf

HandleReturns ==
    /\ pc = "handle"
    /\ pc' = (IF again THEN "parse" ELSE "idle") /\ EraseHead
    /\ UNCHANGED <<client, decoded, machine, output, again, app, replies, history>>

ConnectReturns ==
    /\ pc = "onConnect"
    /\ state' = IF state = "HANDLING_HIXIE_WEBSOCKET" THEN state ELSE "HANDLING_HYBI_WEBSOCKET"
    /\ pc' = (IF again THEN "parse" ELSE "idle") /\ EraseHead
    /\ UNCHANGED <<client, decoded, request, resp, wsHandler, attached, open,
                   output, again, app, replies, history>>

DataReturns ==
    /\ pc = "onData" /\ pc' = "parse"
    /\ UNCHANGED <<client, inBuf, decoded, machine, output, again, app, replies, history>>

(* ... or throws.  Nothing in Connection or Server catches that: the pass    *)
(* over _inBuf is left with nothing erased and, for HyBi, the state as it    *)
(* was before onConnect().                                                   *)
HandleThrows ==
    /\ pc = "handle" /\ pc' = "idle"
    /\ inBuf' = IF again THEN SpentHead ELSE inBuf
    /\ threw' = threw \cup ({resp} \ {Nobody})
    /\ UNCHANGED <<client, decoded, machine, output, again, app, replies, frameHistory,
                   connects, disconnects>>

ConnectThrows ==
    /\ pc = "onConnect" /\ pc' = "idle"
    /\ inBuf' = IF again THEN SpentHead ELSE inBuf
    /\ UNCHANGED <<client, decoded, machine, output, again, app, replies, history>>

DataThrows ==
    /\ pc = "onData" /\ pc' = "idle" /\ decoded' = 0
    /\ threwAt' = threwAt \cup {Len(delivered)}
    /\ UNCHANGED <<client, inBuf, machine, output, again, app, replies, delivered, kept,
                   threw, connects, disconnects>>

-----------------------------------------------------------------------------
(* The application, in a callback or in a task run between events.  It keeps *)
(* to ResponseWriter.h: begin, payload, finish once, or error alone.         *)
AppRuns == pc \in {"idle", "handle", "onConnect", "onData"} /\ open

Begin(i) ==
    /\ AppRuns /\ app[i] = "asked"
    /\ app' = [app EXCEPT ![i] = "begun"]
    /\ IF state = "AWAITING_RESPONSE_BEGIN"
       THEN /\ state' = "SENDING_RESPONSE_HEADERS"
            /\ Reply(i, "ok") /\ \E o \in Queued : Apply(o)
       ELSE UNCHANGED <<state, replies, output>>
    /\ UNCHANGED <<client, inBuf, decoded, request, resp, wsHandler, attached, open, pc, again, history>>

Payload(i, flushIt) ==
    /\ AppRuns /\ app[i] = "begun"
    /\ IF state \in {"SENDING_RESPONSE_HEADERS", "SENDING_RESPONSE_BODY"}
       THEN /\ state' = "SENDING_RESPONSE_BODY"
            /\ \E o \in IF flushIt THEN Sent ELSE Queued : Apply(o)
       ELSE UNCHANGED <<state, output>>
    /\ UNCHANGED <<client, inBuf, decoded, request, resp, wsHandler, attached, open,
                   pc, again, app, replies, history>>

(* finish(): nobody looks at what is already in _inBuf.                      *)
Finish(i, keep) ==
    /\ AppRuns /\ app[i] = "begun"
    /\ app' = [app EXCEPT ![i] = "done"]
    /\ IF state \in {"SENDING_RESPONSE_HEADERS", "SENDING_RESPONSE_BODY"}
       THEN /\ state' = "READING_HEADERS" /\ resp' = Nobody
            /\ \E o \in SentLines : Apply(IF keep THEN o ELSE ClosedWhenEmpty(o))
       ELSE UNCHANGED <<state, resp, output>>
    /\ UNCHANGED <<client, inBuf, decoded, request, wsHandler, attached, open,
                   pc, again, replies, history>>

(* error(): the state and _response stay as they are.                        *)
Error(i, notFound) ==
    /\ AppRuns /\ app[i] = "asked"
    /\ app' = [app EXCEPT ![i] = "done"]
    /\ IF state = "AWAITING_RESPONSE_BEGIN"
       THEN LET uri == IF notFound THEN request ELSE "none"
            IN  Reply(i, Word404(uri)) /\ \E o \in Send404(uri) : Apply(o)
       ELSE UNCHANGED <<replies, output>>
    /\ UNCHANGED <<client, inBuf, decoded, machine, pc, again, history>>

(* WebSocket::send() and WebSocket::close() by a handler that is connected.  *)
SocketSend ==
    /\ AppRuns /\ connects = 1 /\ ~shutdown
    /\ \E o \in Sent : Apply(o)
    /\ UNCHANGED <<client, inBuf, decoded, machine, pc, again, app, replies, history>>

SocketClose ==
    /\ AppRuns /\ connects = 1 /\ ~shutdown
    /\ shutdown' = TRUE
    /\ UNCHANGED <<client, inBuf, decoded, machine, out, closeOnEmpty, pc, again, app, replies, history>>

-----------------------------------------------------------------------------
Destroy_forgetsHixie ==
    /\ pc = "idle" /\ open /\ open' = FALSE
    /\ attached' = (attached /\ resp = Nobody)
    /\ app' = IF resp = Nobody THEN app ELSE [app EXCEPT ![resp] = "cancelled"]
    /\ disconnects' = disconnects + IF wsHandler /\ state = "HANDLING_HYBI_WEBSOCKET" THEN 1 ELSE 0
    /\ resp' = Nobody /\ wsHandler' = FALSE
    /\ UNCHANGED <<client, inBuf, decoded, state, request, output, pc, again, replies, frameHistory, threw, connects>>

(* The server deletes the connection, on EPOLLHUP or EPOLLERR or because it  *)
(* goes itself: finalise().                                                  *)
Destroy ==
    /\ pc = "idle" /\ open /\ open' = FALSE
    /\ attached' = (attached /\ resp = Nobody)
    /\ app' = IF resp = Nobody THEN app ELSE [app EXCEPT ![resp] = "cancelled"]
    /\ disconnects' = disconnects + IF wsHandler THEN 1 ELSE 0
    /\ resp' = Nobody /\ wsHandler' = FALSE
    /\ UNCHANGED <<client, inBuf, decoded, state, request, output, pc, again, replies, frameHistory, threw, connects>>

Client ==
    \/ \E kind \in Kinds : ClientRequests(kind)
    \/ \E kind \in FrameKinds : ClientSendsFrame(kind)
    \/ ClientHangsUp

Parse ==
    \/ HandleHeaders \/ HandleBufferingPostData \/ HandleWebSocketKey3
    \/ HandleText \/ HandleCut \/ CutWait
    \/ HandlePing \/ HandleCloseOrError \/ NoMessage
    \/ WaitForMore \/ HandleReturns \/ ConnectReturns \/ DataReturns
    \/ HandleThrows \/ ConnectThrows \/ DataThrows

Respond(i) ==
    \/ Begin(i)
    \/ \E keep \in BOOLEAN : Finish(i, keep)
    \/ \E notFound \in BOOLEAN : Error(i, notFound)

Next ==
    \/ Client
    \/ DataReadyForRead \/ EndOfStream \/ DataReadyForWrite
    \/ Parse
    \/ \E i \in Requests : Respond(i) \/ \E flushIt \in BOOLEAN : Payload(i, flushIt)
    \/ SocketSend \/ SocketClose
    \/ Destroy

Spec == Init /\ [][Next]_vars

(* The event loop runs, the peer reads what it is sent, and the application  *)
(* answers the responses it has returned, but perhaps not one whose handle() *)
(* has thrown.  Nothing makes the client send.                               *)
Fairness ==
    /\ WF_vars(DataReadyForRead) /\ WF_vars(EndOfStream) /\ WF_vars(Parse)
    /\ WF_vars(DataReadyForWrite /\ out' # "waiting")
    /\ WF_vars(shutdown /\ Destroy)
    /\ \A i \in Requests : WF_vars(i \notin threw /\ Respond(i))

FairSpec == Spec /\ Fairness

-----------------------------------------------------------------------------
Tokens == [is : RequestKinds \cup {"body", "key3", "spent", "cut"} \cup FrameKinds, id : Nat]

(* Types, and a finished connection owns nothing.                            *)
TypeOK ==
    /\ asked \in Seq(Kinds) /\ frames \in Nat /\ patient \in BOOLEAN /\ hungUp \in BOOLEAN
    /\ wire \in Seq(Tokens) /\ inBuf \in Seq(Tokens) /\ decoded \in 0..Len(inBuf)
    /\ state \in Responding \cup WebSocketStates \cup
          {"READING_HEADERS", "READING_WEBSOCKET_KEY3", "BUFFERING_POST_DATA"}
    /\ request \in RequestKinds \cup {"none"}
    /\ resp \in Requests \cup {Nobody} /\ wsHandler \in BOOLEAN
    /\ out \in {"empty", "queued", "waiting"}
    /\ closeOnEmpty \in BOOLEAN /\ shutdown \in BOOLEAN
    /\ open \in BOOLEAN /\ attached \in BOOLEAN /\ again \in BOOLEAN
    /\ pc \in {"idle", "parse", "handle", "onConnect", "onData"}
    /\ app \in [Requests -> {"none", "asked", "begun", "done", "cancelled"}]
    /\ replies \in Seq([id : Requests, is : {"ok", "error", "101", "half"}])
    /\ delivered \in Seq(Nat) /\ kept \in Nat /\ threwAt \subseteq Nat
    /\ threw \subseteq Requests /\ connects \in Nat /\ disconnects \in Nat
    /\ ~open => resp = Nobody /\ ~wsHandler /\ pc = "idle"

(* assert(_response.get() == nullptr) in sendResponse() holds because        *)
(* _response is set exactly while the state says that one is being sent.     *)
ResponseMatchesState == open => (resp # Nobody <=> state \in Responding)

(* A response that keeps to ResponseWriter.h never has a call dropped for    *)
(* the state of the connection, whatever the client pipelines meanwhile: the *)
(* connection is at its request and at its stage, until it is cancelled.     *)
WriterInStep == \A i \in Requests :
    /\ app[i] = "asked" => open /\ resp = i /\ state = "AWAITING_RESPONSE_BEGIN"
    /\ app[i] = "begun" => open /\ resp = i /\ state \in Responding \ {"AWAITING_RESPONSE_BEGIN"}

(* _state, _response and the calls of the application go together at every   *)
(* moment, from the head of a request to finish(), error or close.           *)
ResponsesInStep == TypeOK /\ ResponseMatchesState /\ WriterInStep

(* Each request gets at most one reply, in the order they were sent, and     *)
(* none follows a reply that says the connection closes, or the 101; so it   *)
(* is when callbacks throw, although the heads of their requests then stay   *)
(* in _inBuf.                                                                *)
RepliesInOrder ==
    \A r \in 1..Len(replies) - 1 :
        replies[r].id < replies[r + 1].id /\ replies[r].is = "ok"

(* Text frames reach onData() in order and once, after onConnect().  A call  *)
(* that throws makes the connection forget how far it was: the frames still  *)
(* in _inBuf come once more, from the first of them, and no frame comes      *)
(* again once the input it was in has been erased.                           *)
FramesOnce ==
    /\ \A d \in 1..Len(delivered) - 1 : delivered[d] < delivered[d + 1] \/ d \in threwAt
    /\ \A d \in 1..kept : \A e \in kept + 1..Len(delivered) : delivered[d] < delivered[e]
    /\ delivered # <<>> => connects = 1

(* A handler that has been connected is told once that it no longer is, and  *)
(* hears nothing after.                                                      *)
SocketLife ==
    /\ connects <= 1
    /\ connects = 1 => disconnects = IF open THEN 0 ELSE 1
    /\ disconnects <= 1

(* isActive(): "Check whether this writer is still active; i.e. the          *)
(* underlying connection is still open."                                     *)
WriterKnowsConnection ==
    (\E i \in Requests : app[i] # "none") /\ ~open => ~attached

(* A client that waits for each answer gets one, or sees the connection go,  *)
(* unless a callback throws in the middle of it.                             *)
AnsweredInTheEnd ==
    \A i \in Requests : Len(asked) = i ~> (Answered(i) \/ ~open \/ ~patient \/ i \in threw)

=============================================================================
