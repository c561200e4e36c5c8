-------------------------- MODULE ConnectionProofs --------------------------
(* Proofs about Connection for any number of requests and frames.            *)
EXTENDS Connection, TLAPS, SequenceTheorems

-----------------------------------------------------------------------------
(* Output.                                                                   *)

OutStates == {"empty", "queued", "waiting"}
Outcome == [out : OutStates, closeOnEmpty : BOOLEAN, shutdown : BOOLEAN, ok : BOOLEAN]

OutputOK == out \in OutStates /\ closeOnEmpty \in BOOLEAN /\ shutdown \in BOOLEAN

(* No output opens a connection again, or takes back closeWhenEmpty().       *)
Later(o) == o \in Outcome /\ (shutdown => o.shutdown) /\ (closeOnEmpty => o.closeOnEmpty)

OutputStep ==
    /\ OutputOK' /\ (shutdown => shutdown') /\ (closeOnEmpty => closeOnEmpty')

(* What the output functions may do.                                         *)
LEMMA OutcomesAreLater ==
    ASSUME OutputOK
    PROVE  /\ \A o \in Flushed : Later(o)
           /\ \A o \in Queued : Later(o)
           /\ \A o \in Sent : Later(o)
           /\ \A o \in SentLines : Later(o)
           /\ \A o \in SentLines : Later(ClosedWhenEmpty(o))
           /\ \A o \in SendError : Later(o)
           /\ \A o \in SendFile : Later(o)
           /\ \A uri : \A o \in Send404(uri) : Later(o)
  <1>1. Now \in Outcome /\ Later(Now)
    BY DEF OutputOK, Now, Outcome, Later
  <1>2. /\ Now.out = out /\ Now.closeOnEmpty = closeOnEmpty /\ Now.shutdown = shutdown
        /\ Now.ok = TRUE
    BY DEF Now
  <1>3. Later([Now EXCEPT !.ok = FALSE])
    BY <1>1, <1>2 DEF Outcome, Later
  <1>4. Later(Broken) /\ Later(Drained) /\ Later(Waiting)
    BY <1>1, <1>2 DEF Outcome, Later, Broken, Drained, Waiting, OutputOK, OutStates
  <1>5. Later([Now EXCEPT !.out = IF @ = "empty" THEN "queued" ELSE @])
    BY <1>1, <1>2 DEF Outcome, Later, OutStates
  <1>6. \A o \in Flushed \cup Queued \cup Sent \cup SentLines : Later(o)
    BY <1>1, <1>3, <1>4, <1>5, Zenon DEF Flushed, Queued, Sent, SentLines
  <1>7. \A o : Later(o) => Later(ClosedWhenEmpty(o))
    BY DEF Outcome, Later, ClosedWhenEmpty
  <1>8. \A o : Later(o) => Later([o EXCEPT !.ok = FALSE])
    BY DEF Outcome, Later
  <1>9. \A o \in SendError : Later(o)
    BY <1>6, <1>7, Zenon DEF SendError
  <1>10. \A o \in SendFile : Later(o)
    BY <1>6, <1>8, Zenon DEF SendFile
  <1>11. \A uri : \A o \in Send404(uri) : Later(o)
    BY <1>6, <1>9, Zenon DEF Send404
  <1> QED BY <1>6, <1>7, <1>9, <1>10, <1>11, Zenon

(* An output function that is applied does no more than that.                *)
LEMMA ApplyStep ==
    ASSUME NEW o, Later(o), Apply(o)
    PROVE  OutputStep
  BY DEF Later, Apply, Outcome, OutputStep, OutputOK

(* After sendError() write() accepts nothing more, whether the lines went    *)
(* out, wait or could not be sent.                                           *)
LEMMA ErrorIsLast ==
    ASSUME OutputOK, Accepts, NEW o \in SendError
    PROVE  o.shutdown \/ o.closeOnEmpty
  <1>1. PICK p \in {Drained, Waiting, Broken} : o = IF p.ok THEN ClosedWhenEmpty(p) ELSE p
    BY DEF SendError, SentLines
  <1>2. /\ Now \in Outcome /\ Broken \in Outcome /\ Drained \in Outcome /\ Waiting \in Outcome
        /\ Broken.shutdown /\ ~Broken.ok /\ Drained.ok /\ Waiting.ok
    BY DEF OutputOK, Now, Broken, Drained, Waiting, Outcome, OutStates
  <1>3. \A q \in Outcome : ClosedWhenEmpty(q).shutdown \/ ClosedWhenEmpty(q).closeOnEmpty
    BY DEF ClosedWhenEmpty, Outcome
  <1> QED BY <1>1, <1>2, <1>3

-----------------------------------------------------------------------------
(* The invariant.                                                            *)

(* What the client has sent and the handlers have not taken, in order.       *)
Stream == inBuf \o wire

IsFrame(t) == t.is \in FrameKinds \cup {"cut"}
IsPart(t) == t.is \in {"body", "key3"}

(* A head that is being handled is still the front of _inBuf.                *)
Front == IF pc \in {"handle", "onConnect"} /\ again THEN 1 ELSE 0

(* A closed connection is not read any more, once it is idle.                *)
Live == ~(shutdown /\ pc = "idle")

(* A connection becomes a WebSocket once, in between two requests, and then  *)
(* has a handler until it is deleted.                                        *)
SocketInStep ==
    /\ decoded # 0 => pc \in {"parse", "onData"} /\ state \in WebSocketStates
    /\ pc = "onData" => state \in WebSocketStates
    /\ Front = 1 => inBuf # <<>> /\ inBuf[1].is \in RequestKinds
    /\ pc = "handle" => state \in Responding \cup {"READING_HEADERS"}
    /\ connects \in {0, 1}
    /\ pc = "onConnect" =>
          connects = 1 /\ state \in {"READING_HEADERS", "HANDLING_HIXIE_WEBSOCKET"}
    /\ connects = 1 => state \in WebSocketStates \cup {"READING_HEADERS"}
    /\ state \in WebSocketStates => connects = 1
    /\ connects = 1 => IF open THEN wsHandler ELSE disconnects = 1
    /\ state = "READING_WEBSOCKET_KEY3" /\ open => wsHandler
    /\ open => disconnects = 0
    /\ disconnects \in {0, 1}

Machine == TypeOK /\ ResponseMatchesState /\ WriterInStep /\ SocketInStep

(* What is in the stream, replied to and delivered was sent by the client.   *)
GivenOut(t) ==
    IF IsFrame(t) THEN t.id \in 1..frames
    ELSE /\ t.id \in 1..Len(asked)
         /\ t.is \in RequestKinds => asked[t.id] = t.is
         /\ t.is = "body" => asked[t.id] = "post"
         /\ t.is = "key3" => asked[t.id] = "hixie"

Numbered ==
    /\ Len(asked) <= MaxRequests /\ resp <= Len(asked)
    /\ \A j \in 1..Len(Stream) : GivenOut(Stream[j])
    /\ \A r \in 1..Len(replies) : replies[r].id <= Len(asked)
    /\ \A d \in 1..Len(delivered) : delivered[d] <= frames

(* Frames come in the order of their numbers, and so do requests, each with  *)
(* its body or key behind it.                                                *)
Follows(a, b) ==
    /\ IsFrame(a) /\ IsFrame(b) => a.id < b.id
    /\ ~IsFrame(a) /\ ~IsFrame(b) =>
          a.id <= b.id /\ (a.id = b.id => IsPart(b) /\ ~IsPart(a))

InOrder == \A j, k \in 1..Len(Stream) : j < k => Follows(Stream[j], Stream[k])

RepliedBefore(i) == \A r \in 1..Len(replies) : replies[r].id < i

(* The client sends no more requests: it has been told of its WebSocket, or  *)
(* waits to hear of it.                                                      *)
NoMore ==
    \/ Upgraded
    \/ \E i \in 1..Len(asked) :
          /\ asked[i] \in UpgradeKinds
          /\ \A r \in 1..Len(replies) : replies[r].id = i => replies[r].is = "half"

(* After half a 101 neither side does anything more.                         *)
Stuck == /\ pc = "idle" /\ wire = <<>> /\ connects = 0
         /\ state \notin Responding /\ NoMore

(* While the connection is read, whatever may still be replied to comes      *)
(* after all that has been, and there is none once it is a WebSocket.        *)
Unreplied == Live =>
    /\ \A j \in 1..Len(Stream) : j > Front /\ Stream[j].is \in RequestKinds =>
          RepliedBefore(Stream[j].id) /\ resp < Stream[j].id /\ connects = 0
    /\ \A i \in Requests : app[i] = "asked" => RepliedBefore(i)
    /\ /\ state \in {"BUFFERING_POST_DATA", "READING_WEBSOCKET_KEY3"} /\ ~Stuck
       /\ Len(Stream) > 0 /\ ~IsFrame(Stream[1])
       => RepliedBefore(Stream[1].id)

(* An error, a 101 and half a 101 are the last of the replies.               *)
LastReply == \A r \in 1..Len(replies) :
    /\ replies[r].is = "error" => ~Accepts
    /\ replies[r].is = "101" => connects = 1
    /\ replies[r].is = "half" => Stuck

(* A client that has asked for a WebSocket waits for the answer, and sends   *)
(* frames only when it has one.                                              *)
ClientWaits ==
    /\ \A i \in 1..Len(asked) - 1 : asked[i] \in UpgradeKinds =>
          \E r \in 1..Len(replies) : replies[r].id = i /\ replies[r].is # "half"
    /\ connects = 1 => NoMore
    /\ frames > 0 => connects = 1

(* Frames come after those that were delivered before they were read and     *)
(* after those that were erased, and what is left to decode in this pass     *)
(* comes after the last, unless that threw.                                  *)
Undelivered ==
    /\ kept <= Len(delivered)
    /\ \A j \in 1..Len(Stream) : IsFrame(Stream[j]) =>
          /\ j > Len(inBuf) => \A d \in 1..Len(delivered) : delivered[d] < Stream[j].id
          /\ \A d \in 1..kept : delivered[d] < Stream[j].id
          /\ Live /\ delivered # <<>> /\ Len(delivered) \notin threwAt /\ decoded < j
               => delivered[Len(delivered)] < Stream[j].id

Ordered == /\ Numbered /\ InOrder /\ RepliesInOrder /\ Unreplied /\ LastReply
           /\ ClientWaits /\ FramesOnce /\ Undelivered

IInv == Machine /\ Ordered

-----------------------------------------------------------------------------
(* What the handlers come to, when they take the n-th part of _inBuf.        *)

Words == {"ok", "error", "101", "half"}
Replies == Seq([id : Requests, is : Words])

(* A reply to i joins the others, if write() accepts it; only an "ok" is not *)
(* the last.                                                                 *)
AddsReply(i) ==
    \/ replies' = replies
    \/ /\ Accepts
       /\ \E w \in Words :
             /\ replies' = Append(replies, [id |-> i, is |-> w])
             /\ w = "error" => ~Accepts'
             /\ w = "101" => connects' = 1
             /\ w = "half" => Stuck'

Rest(n) == SubSeq(inBuf, n + 1, Len(inBuf))

(* The request is answered at once, and taken out of _inBuf unless that      *)
(* closes the connection ...                                                 *)
Answers(n) ==
    /\ AddsReply(inBuf[n].id) /\ OutputStep
    /\ inBuf' = Rest(n) \/ (inBuf' = inBuf /\ shutdown' /\ pc' = "idle")
    /\ pc' \in {"parse", "idle"} /\ state' = "READING_HEADERS"
    /\ UNCHANGED <<resp, app, again, connects, threw>>

(* ... or given to the application ...                                       *)
Asks(n) ==
    /\ state' = "AWAITING_RESPONSE_BEGIN" /\ resp' = inBuf[n].id
    /\ app' = [app EXCEPT ![inBuf[n].id] = "asked"]
    /\ \/ inBuf' = Rest(n) /\ again' = FALSE
       \/ inBuf' = inBuf /\ again' = TRUE /\ n = 1 /\ inBuf[n].is \in RequestKinds
    /\ pc' = "handle"
    /\ UNCHANGED <<output, replies, connects, threw>>

(* ... or it makes a WebSocket of the connection ...                         *)
Connects(n) ==
    /\ \/ replies' = replies
       \/ Accepts /\ replies' = Append(replies, [id |-> inBuf[n].id, is |-> "101"])
    /\ OutputStep /\ connects' = connects + 1 /\ wsHandler' = TRUE /\ pc' = "onConnect"
    /\ \/ /\ inBuf[n].is = "upgrade" /\ n = 1 /\ inBuf' = inBuf /\ again' = TRUE
          /\ state' = "READING_HEADERS"
       \/ /\ inBuf[n].is = "key3" /\ inBuf' = Rest(n) /\ again' = FALSE
          /\ state' = "HANDLING_HIXIE_WEBSOCKET"
    /\ UNCHANGED <<resp, app, threw>>

(* ... or stops half way to it ...                                           *)
Halves(n) ==
    /\ \/ replies' = replies
       \/ Accepts /\ replies' = Append(replies, [id |-> inBuf[n].id, is |-> "half"])
    /\ OutputStep /\ n = 1 /\ pc' = "idle"
    /\ \/ inBuf[n].is = "upgrade" /\ inBuf' = SpentHead
       \/ inBuf[n].is = "key3" /\ inBuf' = inBuf
    /\ state = "READING_WEBSOCKET_KEY3" => wsHandler'
    /\ threw' = threw \cup {inBuf[n].id}
    /\ UNCHANGED <<state, resp, app, again, connects>>

(* ... or there is more of it to come.                                       *)
Defers(n) ==
    /\ state' \in {"BUFFERING_POST_DATA", "READING_WEBSOCKET_KEY3"}
    /\ state' = "READING_WEBSOCKET_KEY3" => wsHandler'
    /\ inBuf' = Rest(n) /\ pc' \in {"parse", "idle"}
    /\ UNCHANGED <<output, resp, app, again, replies, connects, threw>>

Handles(n) == Answers(n) \/ Asks(n) \/ Connects(n) \/ Halves(n) \/ Defers(n)

(* The part of _inBuf that each state waits for.                             *)
Awaited(t, n) ==
    \/ state = "READING_HEADERS" /\ t.is \in RequestKinds
    \/ state = "BUFFERING_POST_DATA" /\ n = 1 /\ t.is = "body"
    \/ state = "READING_WEBSOCKET_KEY3" /\ n = 1 /\ t.is = "key3"

Takes(n) ==
    /\ pc = "parse" /\ Awaited(inBuf[n], n) /\ Handles(n)
    /\ request' \in RequestKinds \cup {"none"} /\ wsHandler' \in BOOLEAN
    /\ UNCHANGED <<client, decoded, attached, open, frameHistory, disconnects>>

(* What a synchronous answer comes to.                                       *)
LEMMA AnswerNowAnswers ==
    ASSUME OutputOK, NEW n, NEW what \in {"ok", "error"}, NEW outcomes,
           NEW more \in BOOLEAN, AnswerNow(inBuf[n].id, what, outcomes, Rest(n), more),
           \A o \in outcomes : Later(o),
           what = "error" => outcomes = SendError,
           state' = "READING_HEADERS", UNCHANGED <<resp, app, again, connects, threw>>
    PROVE  Answers(n)
  <1> DEFINE i    == inBuf[n].id
             rest == Rest(n)
  <1> HIDE DEF rest
  <1>0. AnswerNow(i, what, outcomes, rest, more)
    BY DEF rest
  <1>1. PICK o \in outcomes :
          /\ out' = o.out /\ closeOnEmpty' = o.closeOnEmpty
          /\ shutdown' = (o.shutdown \/ ~o.ok)
          /\ inBuf' = IF o.ok \/ ~more THEN rest ELSE inBuf
          /\ pc' = IF o.ok /\ more THEN "parse" ELSE "idle"
    BY <1>0 DEF AnswerNow
  <1>2. Later(o)
    BY <1>1
  <1>3. OutputStep
    BY <1>1, <1>2 DEF Later, Outcome, OutputStep, OutputOK
  <1>4. inBuf' = rest \/ (inBuf' = inBuf /\ shutdown' /\ pc' = "idle")
    BY <1>1, <1>2 DEF Later, Outcome
  <1>5. pc' \in {"parse", "idle"}
    BY <1>1
  <1>6. AddsReply(i)
    <2>1. CASE ~Accepts
      BY <1>0, <2>1 DEF AnswerNow, Reply, AddsReply
    <2>2. CASE Accepts
      <3>1. replies' = Append(replies, [id |-> i, is |-> what])
        BY <1>0, <2>2 DEF AnswerNow, Reply
      <3>2. what = "error" => ~Accepts'
        BY <1>1, <2>2, ErrorIsLast DEF Accepts
      <3> HIDE DEF i
      <3> QED BY <2>2, <3>1, <3>2 DEF AddsReply, Words
    <2> QED BY <2>1, <2>2
  <1> QED BY <1>3, <1>4, <1>5, <1>6 DEF Answers, rest

(* handlePageRequest() and what it calls.                                    *)
LEMMA HandlePageRequestTakes ==
    ASSUME OutputOK, NEW n, NEW kind \in RequestKinds, NEW more \in BOOLEAN,
           more => n = 1 /\ inBuf[n].is = kind, kind = "upgrade" => more,
           kind \in UpgradeKinds => wsHandler' = TRUE,
           HandlePageRequest(inBuf[n].id, kind, Rest(n), more)
    PROVE  Handles(n)
  <1> DEFINE i    == inBuf[n].id
             rest == Rest(n)
  <1>1. CASE PageHandlerThrows(i, rest, more)
    <2>1. /\ AnswerNow(i, "error", SendError, rest, more) /\ state' = "READING_HEADERS"
          /\ UNCHANGED <<resp, app, again, connects, threw>>
      BY <1>1 DEF PageHandlerThrows
    <2>2. Answers(n)
      BY <2>1, OutcomesAreLater, AnswerNowAnswers
    <2> QED BY <2>2 DEF Handles
  <1>2. CASE HandlerResponds(i, rest, more)
    <2>1. Asks(n)
      BY <1>2 DEF HandlerResponds, Asks
    <2> QED BY <2>1 DEF Handles
  <1>3. CASE kind = "upgrade" /\ Handshake(i)
    <2>1. OutputStep
      <3>1. PICK o \in SentLines : Apply(o)
        BY <1>3 DEF Handshake
      <3> QED BY <3>1, OutcomesAreLater, ApplyStep
    <2>2. Connects(n)
      BY <1>3, <2>1 DEF Handshake, Reply, Connects, UpgradeKinds
    <2> QED BY <2>2 DEF Handles
  <1>4. CASE kind = "upgrade" /\ ChooseThrows(i) /\ inBuf' = SpentHead
    <2>1. OutputStep
      <3>1. PICK o \in Queued : Apply(o)
        BY <1>4 DEF ChooseThrows
      <3> QED BY <3>1, OutcomesAreLater, ApplyStep
    <2>2. Halves(n)
      BY <1>4, <2>1 DEF ChooseThrows, Reply, Halves, UpgradeKinds
    <2> QED BY <2>2 DEF Handles
  <1>5. CASE /\ kind = "hixie"
             /\ state' = "READING_WEBSOCKET_KEY3"
             /\ inBuf' = rest /\ pc' = IF more THEN "parse" ELSE "idle"
             /\ UNCHANGED <<output, resp, app, again, replies, connects, threw>>
    <2>1. Defers(n)
      BY <1>5 DEF Defers, UpgradeKinds
    <2> QED BY <2>1 DEF Handles
  <1>6. ASSUME /\ \/ AnswerNow(i, "error", SendError, rest, more)
                  \/ AnswerNow(i, Word404(kind), Send404(kind), rest, more)
                  \/ AnswerNow(i, "ok", SendFile, rest, more)
               /\ state' = "READING_HEADERS"
               /\ UNCHANGED <<resp, app, again, connects, threw>>
        PROVE  Handles(n)
    <2>1. CASE AnswerNow(i, "error", SendError, rest, more)
      BY <1>6, <2>1, OutcomesAreLater, AnswerNowAnswers DEF Handles
    <2>2. CASE AnswerNow(i, Word404(kind), Send404(kind), rest, more)
      <3>1. /\ Word404(kind) \in {"ok", "error"}
            /\ Word404(kind) = "error" => Send404(kind) = SendError
        BY DEF Word404, Send404
      <3>2. \A o \in Send404(kind) : Later(o)
        BY OutcomesAreLater
      <3> QED BY <1>6, <2>2, <3>1, <3>2, AnswerNowAnswers DEF Handles
    <2>3. CASE AnswerNow(i, "ok", SendFile, rest, more)
      BY <1>6, <2>3, OutcomesAreLater, AnswerNowAnswers DEF Handles
    <2> QED BY <1>6, <2>1, <2>2, <2>3
  <1>7. CASE Unhandled(i, kind, rest, more)
    BY <1>3, <1>4, <1>5, <1>6, <1>7 DEF Unhandled
  <1> QED BY <1>1, <1>2, <1>7 DEF HandlePageRequest

(* handleHeaders() takes the first head of _inBuf.                           *)
LEMMA HandleHeadersTakes ==
    ASSUME TypeOK, HandleHeaders
    PROVE  \E n \in 1..Len(inBuf) : Takes(n)
  <1>1. PICK n \in 1..Len(inBuf) :
          /\ inBuf[n].is \in RequestKinds
          /\ LET i    == inBuf[n].id
                 kind == IF n = 1 THEN inBuf[n].is ELSE "bad"
                 rest == SubSeq(inBuf, n + 1, Len(inBuf))
             IN  \/ /\ kind = "bad"
                    /\ AnswerNow(i, "error", SendError, rest, TRUE)
                    /\ UNCHANGED <<state, request, resp, wsHandler, again, app, connects, threw>>
                 \/ /\ kind = "noEndpoint"
                    /\ AnswerNow(i, Word404(request), Send404(request), rest, TRUE)
                    /\ wsHandler' = FALSE
                    /\ UNCHANGED <<state, request, resp, again, app, connects, threw>>
                 \/ /\ kind \in {"embedded", "head"}
                    /\ request' = kind
                    /\ AnswerNow(i, "ok", IF kind = "head" THEN Queued ELSE Sent, rest, TRUE)
                    /\ UNCHANGED <<state, resp, wsHandler, again, app, connects, threw>>
                 \/ /\ kind = "post"
                    /\ request' = kind /\ state' = "BUFFERING_POST_DATA" /\ inBuf' = rest
                    /\ UNCHANGED <<output, pc, resp, wsHandler, again, app, replies, connects, threw>>
                 \/ /\ kind \in {"get", "stats", "upgrade", "hixie", "badVersion"}
                    /\ request' = kind
                    /\ wsHandler' = (wsHandler \/ kind \in UpgradeKinds)
                    /\ HandlePageRequest(i, kind, rest, TRUE)
    BY Zenon DEF HandleHeaders
  <1> DEFINE i    == inBuf[n].id
             kind == IF n = 1 THEN inBuf[n].is ELSE "bad"
             rest == SubSeq(inBuf, n + 1, Len(inBuf))
  <1>2. /\ OutputOK /\ pc = "parse" /\ state = "READING_HEADERS"
        /\ wsHandler \in BOOLEAN /\ request \in RequestKinds \cup {"none"}
        /\ UNCHANGED <<client, decoded, attached, open, frameHistory, disconnects>>
    BY DEF HandleHeaders, ParsesHeads, TypeOK, OutputOK, OutStates
  <1>3. Awaited(inBuf[n], n)
    BY <1>1, <1>2 DEF Awaited
  <1>4. SUFFICES Handles(n) /\ request' \in RequestKinds \cup {"none"} /\ wsHandler' \in BOOLEAN
    <2> HIDE DEF kind
    <2> QED BY <1>2, <1>3, Zenon DEF Takes
  <1>10. i = inBuf[n].id /\ rest = Rest(n) /\ (kind # "bad" => n = 1 /\ inBuf[n].is = kind)
    BY DEF Rest
  <1> HIDE DEF i, kind, rest
  <1>5. CASE /\ kind = "bad"
             /\ AnswerNow(i, "error", SendError, rest, TRUE)
             /\ UNCHANGED <<state, request, resp, wsHandler, again, app, connects, threw>>
    <2>1. Answers(n)
      BY <1>2, <1>5, <1>10, OutcomesAreLater, AnswerNowAnswers
    <2> QED BY <1>2, <1>5, <2>1 DEF Handles
  <1>6. CASE /\ kind = "noEndpoint"
             /\ AnswerNow(i, Word404(request), Send404(request), rest, TRUE)
             /\ wsHandler' = FALSE
             /\ UNCHANGED <<state, request, resp, again, app, connects, threw>>
    <2>1. /\ Word404(request) \in {"ok", "error"}
          /\ Word404(request) = "error" => Send404(request) = SendError
      BY DEF Word404, Send404
    <2>2. \A o \in Send404(request) : Later(o)
      BY <1>2, OutcomesAreLater
    <2>3. Answers(n)
      BY <1>2, <1>6, <1>10, <2>1, <2>2, AnswerNowAnswers
    <2> QED BY <1>2, <1>6, <2>3 DEF Handles
  <1>7. CASE /\ kind \in {"embedded", "head"}
             /\ request' = kind
             /\ AnswerNow(i, "ok", IF kind = "head" THEN Queued ELSE Sent, rest, TRUE)
             /\ UNCHANGED <<state, resp, wsHandler, again, app, connects, threw>>
    <2>1. \A o \in IF kind = "head" THEN Queued ELSE Sent : Later(o)
      BY <1>2, OutcomesAreLater
    <2>2. Answers(n)
      BY <1>2, <1>7, <1>10, <2>1, AnswerNowAnswers
    <2> QED BY <1>2, <1>7, <2>2 DEF RequestKinds, Handles
  <1>8. CASE /\ kind = "post"
             /\ request' = kind /\ state' = "BUFFERING_POST_DATA" /\ inBuf' = rest
             /\ UNCHANGED <<output, pc, resp, wsHandler, again, app, replies, connects, threw>>
    <2>1. Defers(n)
      BY <1>2, <1>8, <1>10 DEF Defers
    <2> QED BY <1>2, <1>8, <2>1 DEF RequestKinds, Handles
  <1>9. CASE /\ kind \in {"get", "stats", "upgrade", "hixie", "badVersion"}
             /\ request' = kind
             /\ wsHandler' = (wsHandler \/ kind \in UpgradeKinds)
             /\ HandlePageRequest(i, kind, rest, TRUE)
    <2>1. kind \in RequestKinds /\ (kind \in UpgradeKinds => wsHandler' = TRUE) /\ kind # "bad"
      BY <1>9 DEF RequestKinds
    <2>2. Handles(n)
      BY <1>2, <1>9, <1>10, <2>1, HandlePageRequestTakes
    <2> QED BY <1>2, <1>9, <2>1, <2>2
  <1> QED BY <1>1, <1>5, <1>6, <1>7, <1>8, <1>9, Zenon DEF i, kind, rest

(* A body or a key is taken from the front of _inBuf.                        *)
LEMMA BodyOrKeyTakes ==
    ASSUME TypeOK, HandleBufferingPostData \/ HandleWebSocketKey3,
           state = "READING_WEBSOCKET_KEY3" => wsHandler
    PROVE  1 \in 1..Len(inBuf) /\ Takes(1)
  <1>1. /\ OutputOK /\ pc = "parse" /\ inBuf # <<>> /\ inBuf \in Seq(Tokens)
        /\ wsHandler' = wsHandler /\ wsHandler \in BOOLEAN
        /\ request' \in RequestKinds \cup {"none"}
        /\ UNCHANGED <<client, decoded, attached, open, frameHistory, disconnects>>
    BY DEF HandleBufferingPostData, HandleWebSocketKey3, TypeOK, OutputOK, OutStates
  <1>2. /\ 1 \in 1..Len(inBuf) /\ Head(inBuf) = inBuf[1]
        /\ Tail(inBuf) = Rest(1)
    BY <1>1 DEF Rest
  <1>3. Awaited(inBuf[1], 1)
    BY <1>2 DEF HandleBufferingPostData, HandleWebSocketKey3, Awaited
  <1>4. SUFFICES Handles(1)
    BY <1>1, <1>2, <1>3, Zenon DEF Takes
  <1>5. CASE HandleBufferingPostData
    <2>1. HandlePageRequest(inBuf[1].id, "post", Rest(1), FALSE)
      BY <1>2, <1>5, Zenon DEF HandleBufferingPostData
    <2>2. "post" \in RequestKinds /\ "post" \notin UpgradeKinds
      BY DEF RequestKinds, UpgradeKinds
    <2> QED BY <1>1, <2>1, <2>2, HandlePageRequestTakes
  <1>6. CASE HandleWebSocketKey3
    <2> DEFINE i == inBuf[1].id
    <2>1. /\ inBuf[1].is = "key3" /\ wsHandler
          /\ \/ /\ Reply(i, "101") /\ \E o \in Sent : Apply(o)
                /\ state' = "HANDLING_HIXIE_WEBSOCKET" /\ inBuf' = Rest(1)
                /\ connects' = connects + 1 /\ pc' = "onConnect" /\ again' = FALSE
                /\ UNCHANGED <<resp, app, threw>>
             \/ ChooseThrows(i) /\ UNCHANGED inBuf
      BY <1>2, <1>6 DEF HandleWebSocketKey3
    <2> HIDE DEF i
    <2>2. OutputStep
      <3>1. \E o \in Sent \cup Queued : Apply(o)
        BY <2>1 DEF ChooseThrows
      <3> QED BY <1>1, <3>1, OutcomesAreLater, ApplyStep
    <2>3. Connects(1) \/ Halves(1)
      BY <1>1, <2>1, <2>2 DEF Connects, Halves, ChooseThrows, Reply, i
    <2> QED BY <2>3 DEF Handles
  <1> QED BY <1>5, <1>6

-----------------------------------------------------------------------------
(* The stream.                                                               *)

(* _inBuf is the front of the stream.                                        *)
LEMMA StreamType ==
    ASSUME TypeOK
    PROVE  /\ Stream \in Seq(Tokens) /\ Len(Stream) = Len(inBuf) + Len(wire)
           /\ Len(Stream) \in Nat /\ Len(inBuf) \in Nat
           /\ \A j \in 1..Len(inBuf) : j \in 1..Len(Stream) /\ Stream[j] = inBuf[j]
  <1>1. inBuf \in Seq(Tokens) /\ wire \in Seq(Tokens)
    BY DEF TypeOK
  <1>2. /\ Stream \in Seq(Tokens) /\ Len(Stream) = Len(inBuf) + Len(wire)
        /\ \A j \in 1..Len(inBuf) + Len(wire) :
              Stream[j] = IF j <= Len(inBuf) THEN inBuf[j] ELSE wire[j - Len(inBuf)]
    BY <1>1, ConcatProperties DEF Stream
  <1> QED BY <1>1, <1>2

(* What is handled in place keeps its number.                                *)
Worn(a, b) ==
    /\ b.id = a.id
    /\ \/ b.is = a.is
       \/ b.is = "spent" /\ ~IsFrame(a) /\ ~IsPart(a)
       \/ b.is = "cut" /\ IsFrame(a)

(* The stream without its first n parts.                                     *)
Shrinks(n) ==
    /\ Len(Stream') = Len(Stream) - n
    /\ \A j \in 1..Len(Stream') : j + n \in 1..Len(Stream) /\ Worn(Stream[j + n], Stream'[j])

AllGivenOut == \A j \in 1..Len(Stream) : GivenOut(Stream[j])

(* What is in the stream has a number.                                       *)
LEMMA IdsAreNumbers ==
    ASSUME TypeOK, Numbered, NEW j \in 1..Len(Stream)
    PROVE  Stream[j].id \in Nat \ {0}
  <1>1. frames \in Nat /\ Len(asked) \in Nat
    BY DEF TypeOK
  <1>2. GivenOut(Stream[j])
    BY DEF Numbered
  <1> QED BY <1>1, <1>2 DEF GivenOut

(* What is worn is of the same sort, and follows what it followed.           *)
LEMMA WornKeepsOrder ==
    ASSUME NEW t, NEW u, NEW v, NEW w, Worn(t, v), Worn(u, w), Follows(t, u)
    PROVE  Follows(v, w)
  <1>1. {"spent", "body", "key3"} \cap (FrameKinds \cup {"cut"}) = {}
    BY FrameKindsAssumption
  <1>2. ASSUME NEW x, NEW y, Worn(x, y)
        PROVE  y.id = x.id /\ (IsFrame(y) <=> IsFrame(x)) /\ (IsPart(y) <=> IsPart(x))
    <2>1. CASE y.is = x.is
      BY <1>2, <2>1 DEF Worn, IsFrame, IsPart
    <2>2. CASE y.is = "spent" /\ ~IsFrame(x) /\ ~IsPart(x)
      BY <1>1, <1>2, <2>2 DEF Worn, IsFrame, IsPart
    <2>3. CASE y.is = "cut" /\ IsFrame(x)
      <3>1. ~IsPart(x)
        BY <1>1, <2>3 DEF IsFrame, IsPart
      <3> QED BY <1>2, <2>3, <3>1 DEF Worn, IsFrame, IsPart
    <2> QED BY <1>2, <2>1, <2>2, <2>3 DEF Worn
  <1>3. /\ v.id = t.id /\ (IsFrame(v) <=> IsFrame(t)) /\ (IsPart(v) <=> IsPart(t))
        /\ w.id = u.id /\ (IsFrame(w) <=> IsFrame(u)) /\ (IsPart(w) <=> IsPart(u))
    BY <1>2
  <1> QED BY <1>3 DEF Follows

LEMMA StreamKeepsOrder ==
    ASSUME TypeOK, NEW n \in Nat, Shrinks(n), asked' = asked, frames' = frames,
           AllGivenOut, InOrder
    PROVE  AllGivenOut' /\ InOrder'
  <1>1. ASSUME NEW j \in 1..Len(Stream')
        PROVE  GivenOut(Stream[j + n]) /\ Worn(Stream[j + n], Stream'[j]) /\ j + n \in 1..Len(Stream)
    BY <1>1 DEF Shrinks, AllGivenOut
  <1>2. {"spent", "body", "key3"} \cap (FrameKinds \cup {"cut"}) = {}
    BY FrameKindsAssumption
  <1>3. \A x, y : Worn(x, y) => IsFrame(y) = IsFrame(x)
    BY <1>2 DEF Worn, IsFrame, IsPart
  <1>4. AllGivenOut'
    <2>1. \A x, y : Worn(x, y) /\ GivenOut(x) => GivenOut(y)
      BY <1>3 DEF Worn, GivenOut, RequestKinds
    <2>2. \A j \in 1..Len(Stream') : GivenOut(Stream'[j])
      BY <1>1, <2>1
    <2> QED BY <2>2 DEF AllGivenOut, GivenOut, IsFrame
  <1>5. InOrder'
    <2>1. ASSUME NEW j \in 1..Len(Stream'), NEW k \in 1..Len(Stream'), j < k
          PROVE  Follows(Stream'[j], Stream'[k])
      <3>1. j + n \in 1..Len(Stream) /\ k + n \in 1..Len(Stream) /\ j + n < k + n
        BY <1>1, <2>1
      <3>2. Follows(Stream[j + n], Stream[k + n])
        BY <3>1 DEF InOrder
      <3> QED BY <1>1, <3>2, WornKeepsOrder
    <2> QED BY <2>1 DEF InOrder, Follows, IsFrame, IsPart
  <1> QED BY <1>4, <1>5

(* What is taken from _inBuf is taken from the front of the stream.          *)
LEMMA StreamDrops ==
    ASSUME TypeOK, NEW n \in 0..Len(inBuf), wire' = wire, inBuf' = Rest(n)
    PROVE  inBuf' \in Seq(Tokens) /\ Len(inBuf') = Len(inBuf) - n /\ Shrinks(n)
  <1>1. inBuf \in Seq(Tokens) /\ wire \in Seq(Tokens)
    BY DEF TypeOK
  <1>2. /\ inBuf' \in Seq(Tokens) /\ Len(inBuf') = Len(inBuf) - n
        /\ \A j \in 1..Len(inBuf) - n : inBuf'[j] = inBuf[j + n]
    BY <1>1 DEF Rest
  <1>3. /\ Len(Stream) = Len(inBuf) + Len(wire)
        /\ \A j \in 1..Len(inBuf) + Len(wire) :
              Stream[j] = IF j <= Len(inBuf) THEN inBuf[j] ELSE wire[j - Len(inBuf)]
    BY <1>1, ConcatProperties DEF Stream
  <1>4. /\ Len(Stream') = Len(inBuf') + Len(wire)
        /\ \A j \in 1..Len(inBuf') + Len(wire) :
              Stream'[j] = IF j <= Len(inBuf') THEN inBuf'[j] ELSE wire[j - Len(inBuf')]
    <2>1. Stream' = inBuf' \o wire
      BY DEF Stream
    <2> QED BY <1>1, <1>2, <2>1, ConcatProperties
  <1>5. Len(inBuf) \in Nat /\ Len(wire) \in Nat
    BY <1>1
  <1>6. ASSUME NEW j \in 1..Len(Stream') PROVE j + n \in 1..Len(Stream) /\ Stream'[j] = Stream[j + n]
    <2>1. j + n \in 1..Len(inBuf) + Len(wire) /\ j \in 1..Len(inBuf') + Len(wire)
      BY <1>2, <1>3, <1>4, <1>5
    <2>2. CASE j <= Len(inBuf')
      <3>1. Stream'[j] = inBuf[j + n]
        BY <1>2, <1>4, <1>5, <2>1, <2>2
      <3>2. Stream[j + n] = inBuf[j + n]
        BY <1>2, <1>3, <1>5, <2>1, <2>2
      <3> QED BY <1>3, <2>1, <3>1, <3>2, Zenon
    <2>3. CASE j > Len(inBuf')
      BY <1>2, <1>3, <1>4, <1>5, <2>1, <2>3
    <2> QED BY <1>2, <1>3, <1>5, <2>1, <2>2, <2>3
  <1>7. Len(Stream') = Len(Stream) - n
    BY <1>2, <1>3, <1>4, <1>5
  <1> QED BY <1>2, <1>6, <1>7 DEF Shrinks, Worn

(* A part of _inBuf that is handled in place stays where it is.              *)
LEMMA StreamWears ==
    ASSUME TypeOK, NEW m \in 1..Len(inBuf), wire' = wire,
           \/ inBuf' = [inBuf EXCEPT ![m] = Spent(@)] /\ ~IsFrame(inBuf[m]) /\ ~IsPart(inBuf[m])
           \/ inBuf' = [inBuf EXCEPT ![m] = Cut(@)] /\ IsFrame(inBuf[m])
    PROVE  /\ inBuf' \in Seq(Tokens) /\ Len(inBuf') = Len(inBuf) /\ Shrinks(0)
           /\ \A j \in 1..Len(Stream) : j # m => Stream'[j] = Stream[j]
           /\ Stream'[m].is \in {"spent", "cut"}
  <1>1. inBuf \in Seq(Tokens) /\ wire \in Seq(Tokens) /\ inBuf[m] \in Tokens
    BY ElementOfSeq DEF TypeOK
  <1> DEFINE t == inBuf'[m]
  <1>2. PICK w \in {"spent", "cut"} :
           /\ inBuf' = [inBuf EXCEPT ![m] = [@ EXCEPT !.is = w]]
           /\ w = "spent" => ~IsFrame(inBuf[m]) /\ ~IsPart(inBuf[m])
           /\ w = "cut" => IsFrame(inBuf[m])
    BY DEF Spent, Cut
  <1>3. [inBuf[m] EXCEPT !.is = w] = [is |-> w, id |-> inBuf[m].id]
    BY <1>1 DEF Tokens
  <1>4. t = [is |-> w, id |-> inBuf[m].id] /\ t \in Tokens /\ Worn(inBuf[m], t)
    BY <1>1, <1>2, <1>3 DEF Tokens, Worn
  <1>5. inBuf' = [inBuf EXCEPT ![m] = t]
    BY <1>1, <1>2, <1>3, <1>4
  <1> HIDE DEF t
  <1>6. /\ inBuf' \in Seq(Tokens) /\ Len(inBuf') = Len(inBuf)
        /\ \A j \in 1..Len(inBuf) : inBuf'[j] = IF j = m THEN t ELSE inBuf[j]
    BY <1>1, <1>4, <1>5
  <1>7. /\ Len(Stream) = Len(inBuf) + Len(wire)
        /\ \A j \in 1..Len(inBuf) + Len(wire) :
              Stream[j] = IF j <= Len(inBuf) THEN inBuf[j] ELSE wire[j - Len(inBuf)]
    BY <1>1, ConcatProperties DEF Stream
  <1>8. /\ Len(Stream') = Len(inBuf') + Len(wire)
        /\ \A j \in 1..Len(inBuf') + Len(wire) :
              Stream'[j] = IF j <= Len(inBuf') THEN inBuf'[j] ELSE wire[j - Len(inBuf')]
    <2>1. Stream' = inBuf' \o wire
      BY DEF Stream
    <2>2. inBuf' \in Seq(Tokens)
      BY <1>6
    <2> QED BY <1>1, <2>1, <2>2, ConcatProperties
  <1>9. Len(inBuf) \in Nat /\ Len(wire) \in Nat
    BY <1>1
  <1>10. /\ Len(Stream') = Len(Stream)
         /\ \A j \in 1..Len(Stream) : Stream'[j] = IF j = m THEN t ELSE Stream[j]
    BY <1>6, <1>7, <1>8, <1>9
  <1>11. m \in 1..Len(Stream) /\ Stream[m] = inBuf[m]
    BY <1>7, <1>9
  <1>12. Shrinks(0)
    <2>1. ASSUME NEW j \in 1..Len(Stream')
          PROVE  j + 0 \in 1..Len(Stream) /\ Worn(Stream[j + 0], Stream'[j])
      <3>1. j + 0 = j /\ j \in 1..Len(Stream)
        BY <1>10
      <3>2. Worn(Stream[j], Stream'[j])
        <4>1. CASE j = m
          BY <1>4, <1>10, <1>11, <3>1, <4>1
        <4>2. CASE j # m
          BY <1>10, <3>1, <4>2 DEF Worn
        <4> QED BY <4>1, <4>2
      <3> QED BY <3>1, <3>2
    <2> QED BY <1>7, <1>9, <1>10, <2>1 DEF Shrinks
  <1> QED BY <1>4, <1>6, <1>10, <1>11, <1>12

(* Nothing is taken.                                                         *)
LEMMA StreamStays ==
    ASSUME TypeOK, Stream' = Stream
    PROVE  Shrinks(0)
  <1>1. Len(Stream) \in Nat
    BY StreamType
  <1> QED BY <1>1 DEF Shrinks, Worn

(* A read moves the start of what is on its way to the end of _inBuf.        *)
LEMMA StreamIsRead ==
    ASSUME TypeOK, DataReadyForRead
    PROVE  Stream' = Stream /\ inBuf' \in Seq(Tokens) /\ wire' \in Seq(Tokens)
              /\ Len(inBuf') \in Nat /\ Len(inBuf) <= Len(inBuf')
  <1>1. inBuf \in Seq(Tokens) /\ wire \in Seq(Tokens)
    BY DEF TypeOK
  <1>2. PICK n \in 1..Len(wire) : /\ inBuf' = inBuf \o SubSeq(wire, 1, n)
                                  /\ wire' = SubSeq(wire, n + 1, Len(wire))
    BY DEF DataReadyForRead
  <1> DEFINE a == SubSeq(wire, 1, n)
             b == SubSeq(wire, n + 1, Len(wire))
  <1>3. /\ a \in Seq(Tokens) /\ Len(a) = n /\ \A i \in 1..n : a[i] = wire[i]
        /\ b \in Seq(Tokens) /\ Len(b) = Len(wire) - n
        /\ \A i \in 1..Len(wire) - n : b[i] = wire[n + i]
    BY <1>1
  <1> HIDE DEF a, b
  <1>4. a \o b = wire
    <2>1. /\ a \o b \in Seq(Tokens) /\ Len(a \o b) = Len(a) + Len(b)
          /\ \A i \in 1..Len(a) + Len(b) :
                (a \o b)[i] = IF i <= Len(a) THEN a[i] ELSE b[i - Len(a)]
      BY <1>3, ConcatProperties
    <2>2. Len(a) + Len(b) = Len(wire) /\ Len(wire) \in Nat
      BY <1>1, <1>3
    <2>3. ASSUME NEW i \in 1..Len(wire) PROVE (a \o b)[i] = wire[i]
      <3>1. CASE i <= n
        BY <1>3, <2>1, <2>2, <3>1
      <3>2. CASE i > n
        <4>1. i - n \in 1..Len(wire) - n /\ n + (i - n) = i
          BY <2>2, <3>2
        <4>2. (a \o b)[i] = b[i - n]
          BY <1>3, <2>1, <2>2, <3>2
        <4> QED BY <1>3, <4>1, <4>2, Zenon
      <3> QED BY <2>2, <3>1, <3>2
    <2> QED BY <1>1, <2>1, <2>2, <2>3, SeqEqual
  <1>5. (inBuf \o a) \o b = inBuf \o (a \o b)
    <2>1. \A x, y, z \in Seq(Tokens) : (x \o y) \o z = x \o (y \o z)
      BY ConcatAssociative
    <2> QED BY <1>1, <1>3, <2>1, Zenon
  <1>6. /\ inBuf \o a \in Seq(Tokens) /\ Len(inBuf \o a) \in Nat
        /\ Len(inBuf) <= Len(inBuf \o a)
    BY <1>1, <1>3, ConcatProperties
  <1>7. inBuf' = inBuf \o a /\ wire' = b
    BY <1>2, Zenon DEF a, b
  <1> QED BY <1>3, <1>4, <1>5, <1>6, <1>7, Zenon DEF Stream

-----------------------------------------------------------------------------
(* Steps that add nothing to the stream, the replies or what was delivered.  *)

(* They may take the first n parts of _inBuf, or wear one.  Nothing is asked *)
(* or begins to wait for its body or key; no head that was being handled is  *)
(* left to be handled again; and a closed connection that is idle stays so.  *)
Quiet(n) ==
    /\ UNCHANGED <<asked, frames, wire, replies, delivered, connects>>
    /\ n \in 0..Len(inBuf) /\ Shrinks(n) /\ Len(inBuf') = Len(inBuf) - n
    /\ \A j \in 1..Len(Stream') : j > Front' /\ Stream'[j].is \in RequestKinds => j + n > Front
    /\ resp' \in {resp, Nobody}
    /\ \A i \in Requests : app'[i] = "asked" => app[i] = "asked"
    /\ Accepts' => Accepts
    /\ Live' => Live
    /\ pc = "idle" => pc' = "idle"
    /\ state' \in {"BUFFERING_POST_DATA", "READING_WEBSOCKET_KEY3"} =>
          state' = state /\ Stream' = Stream
    /\ state' \in Responding => state \in Responding
    /\ threwAt \subseteq threwAt'
    /\ kept' = kept \/ (kept' = Len(delivered) /\ inBuf' = <<>>)
    /\ decoded' \in Nat
    /\ decoded <= decoded' + n \/ ~Live' \/ Len(delivered) \in threwAt'

(* What the replies say of the client.                                       *)
LEMMA SameReplies ==
    ASSUME UNCHANGED <<asked, replies>>
    PROVE  /\ Upgraded' <=> Upgraded
           /\ NoMore' <=> NoMore
           /\ \A i : RepliedBefore(i)' <=> RepliedBefore(i)
  BY DEF Upgraded, NoMore, RepliedBefore

(* They keep what is said of the order of things.                            *)
LEMMA QuietKeepsOrder ==
    ASSUME Machine, Ordered, NEW n, Quiet(n)
    PROVE  Ordered'
  <1>1. /\ resp \in Nat /\ Len(asked) \in Nat /\ decoded \in Nat /\ Len(inBuf) \in Nat /\ n \in Nat
        /\ Len(delivered) \in Nat /\ kept \in Nat /\ TypeOK /\ Len(Stream) \in Nat
    <2>1. n \in Nat
      BY DEF Quiet
    <2> QED BY <2>1, StreamType, BoundsAssumption DEF Machine, TypeOK, Requests, Nobody
  <1>2. /\ UNCHANGED <<asked, frames, wire, replies, delivered, connects>>
        /\ resp' \in {resp, Nobody} /\ (Accepts' => Accepts) /\ (Live' => Live)
        /\ pc = "idle" => pc' = "idle"
        /\ n \in 0..Len(inBuf) /\ Shrinks(n) /\ Len(inBuf') = Len(inBuf) - n
        /\ threwAt \subseteq threwAt' /\ decoded' \in Nat
    BY DEF Quiet
  <1>3. /\ Upgraded' <=> Upgraded
        /\ NoMore' <=> NoMore
        /\ \A i : RepliedBefore(i)' <=> RepliedBefore(i)
    BY <1>2, SameReplies
  <1>4. AllGivenOut' /\ InOrder'
    BY <1>1, <1>2, StreamKeepsOrder DEF Ordered, Numbered, AllGivenOut
  <1>5. Numbered'
    BY <1>1, <1>2, <1>4 DEF Ordered, Numbered, AllGivenOut, Nobody
  <1>6. Stuck => Stuck'
    BY <1>2, <1>3 DEF Quiet, Stuck
  <1>7. RepliesInOrder' /\ ClientWaits'
    BY <1>2, <1>3, Zenon DEF Ordered, RepliesInOrder, ClientWaits
  <1>8. LastReply'
    BY <1>2, <1>6, Zenon DEF Ordered, LastReply
  <1>9. \A j \in 1..Len(Stream') : j + n \in 1..Len(Stream) /\ Worn(Stream[j + n], Stream'[j])
    BY <1>2 DEF Shrinks
  <1>10. Unreplied'
    <2> SUFFICES ASSUME Live' PROVE Unreplied'
      BY DEF Unreplied
    <2>1. ASSUME NEW j \in 1..Len(Stream'), j > Front', Stream'[j].is \in RequestKinds
          PROVE  RepliedBefore(Stream'[j].id) /\ resp' < Stream'[j].id /\ connects = 0
      <3>1. j + n > Front /\ j + n \in 1..Len(Stream)
        BY <1>9, <2>1 DEF Quiet
      <3>2. Stream[j + n].is \in RequestKinds /\ Stream'[j].id = Stream[j + n].id
        BY <1>9, <2>1 DEF Worn, RequestKinds
      <3>3. /\ RepliedBefore(Stream[j + n].id) /\ resp < Stream[j + n].id /\ connects = 0
            /\ Stream[j + n].id \in Nat \ {0}
        BY <1>1, <1>2, <3>1, <3>2, IdsAreNumbers DEF Ordered, Unreplied
      <3> QED BY <1>1, <1>2, <3>2, <3>3 DEF Nobody
    <2>2. \A i \in Requests : app'[i] = "asked" => RepliedBefore(i)
      BY <1>2 DEF Quiet, Ordered, Unreplied
    <2>3. ASSUME state' \in {"BUFFERING_POST_DATA", "READING_WEBSOCKET_KEY3"}, ~Stuck',
                 Len(Stream') > 0, ~IsFrame(Stream'[1])
          PROVE  RepliedBefore(Stream'[1].id)
      <3>1. state' = state /\ Stream' = Stream
        BY <2>3 DEF Quiet
      <3> QED BY <1>2, <1>6, <2>3, <3>1 DEF Ordered, Unreplied
    <2>4. \A i : (\A r \in 1..Len(replies') : replies'[r].id < i) <=> RepliedBefore(i)
      BY <1>2 DEF RepliedBefore
    <2> QED BY <1>2, <2>1, <2>2, <2>3, <2>4 DEF Unreplied, RepliedBefore, IsFrame
  <1>11. FramesOnce' /\ kept' <= Len(delivered')
    <2>1. \A d \in 1..Len(delivered) - 1 : delivered[d] < delivered[d + 1] \/ d \in threwAt'
      BY <1>2 DEF Ordered, FramesOnce
    <2>2. kept' <= Len(delivered)
      BY <1>1 DEF Quiet, Ordered, Undelivered
    <2>3. \A d \in 1..kept' : \A e \in kept' + 1..Len(delivered) : delivered[d] < delivered[e]
      BY <1>1 DEF Quiet, Ordered, FramesOnce
    <2> QED BY <1>2, <2>1, <2>2, <2>3 DEF Ordered, FramesOnce
  <1>12. Undelivered'
    <2>1. ASSUME NEW j \in 1..Len(Stream'), IsFrame(Stream'[j])
          PROVE  /\ j > Len(inBuf') => \A d \in 1..Len(delivered) : delivered[d] < Stream'[j].id
                 /\ \A d \in 1..kept' : delivered[d] < Stream'[j].id
                 /\ Live' /\ delivered # <<>> /\ Len(delivered) \notin threwAt' /\ decoded' < j
                      => delivered[Len(delivered)] < Stream'[j].id
      <3>1. j + n \in 1..Len(Stream) /\ Stream'[j].id = Stream[j + n].id /\ IsFrame(Stream[j + n])
        <4>1. j + n \in 1..Len(Stream) /\ Worn(Stream[j + n], Stream'[j])
          BY <1>9
        <4>2. "spent" \notin FrameKinds \cup {"cut"}
          BY FrameKindsAssumption
        <4> QED BY <2>1, <4>1, <4>2 DEF Worn, IsFrame
      <3>2. /\ j + n > Len(inBuf) => \A d \in 1..Len(delivered) : delivered[d] < Stream[j + n].id
            /\ \A d \in 1..kept : delivered[d] < Stream[j + n].id
            /\ Live /\ delivered # <<>> /\ Len(delivered) \notin threwAt /\ decoded < j + n
                 => delivered[Len(delivered)] < Stream[j + n].id
        BY <3>1 DEF Ordered, Undelivered
      <3>3. j > Len(inBuf') => j + n > Len(inBuf)
        BY <1>1, <1>2
      <3>4. \A d \in 1..kept' : delivered[d] < Stream'[j].id
        <4>1. CASE kept' = kept
          BY <3>1, <3>2, <4>1
        <4>2. CASE kept' = Len(delivered) /\ inBuf' = <<>>
          <5>1. j > Len(inBuf')
            BY <4>2
          <5> QED BY <3>1, <3>2, <3>3, <4>2, <5>1
        <4> QED BY <4>1, <4>2 DEF Quiet
      <3>5. Live' /\ delivered # <<>> /\ Len(delivered) \notin threwAt' /\ decoded' < j
              => delivered[Len(delivered)] < Stream'[j].id
        <4> SUFFICES ASSUME Live', delivered # <<>>, Len(delivered) \notin threwAt', decoded' < j
                     PROVE  delivered[Len(delivered)] < Stream'[j].id
          OBVIOUS
        <4>1. Live /\ Len(delivered) \notin threwAt /\ decoded <= decoded' + n
          BY <1>2 DEF Quiet
        <4>2. decoded < j + n
          <5>1. decoded \in Nat /\ decoded' \in Nat /\ n \in Nat /\ j \in Nat
            BY <1>1, <1>2
          <5>2. \A a, b, c \in Nat : a <= b + n /\ b < c => a < c + n
            BY <5>1
          <5> QED BY <4>1, <5>1, <5>2, Zenon
        <4> QED BY <3>1, <3>2, <4>1, <4>2
      <3> QED BY <3>1, <3>2, <3>3, <3>4, <3>5
    <2> QED BY <1>2, <1>11, <2>1 DEF Undelivered, IsFrame
  <1> QED BY <1>4, <1>5, <1>7, <1>8, <1>10, <1>11, <1>12 DEF Ordered

(* EPOLLIN at the end, EPOLLOUT, the turns of handleNewData() that find      *)
(* nothing to do, and onData() when it returns.                              *)
LEMMA IdleStep ==
    ASSUME IInv,
           \/ EndOfStream \/ DataReadyForWrite \/ WaitForMore \/ DataReturns
           \/ SocketSend \/ SocketClose \/ UNCHANGED vars
    PROVE  IInv'
  <1> DEFINE Same == UNCHANGED <<client, inBuf, decoded, machine, again, app, replies, history>>
  <1>0. OutputOK /\ Machine /\ Ordered /\ TypeOK
    BY DEF IInv, Machine, TypeOK, OutputOK, OutStates
  <1>1. Same /\ OutputStep
    <2>1. CASE EndOfStream \/ SocketClose
      BY <1>0, <2>1 DEF EndOfStream, SocketClose, OutputStep, OutputOK
    <2>2. CASE DataReadyForWrite
      <3>1. PICK o \in Flushed : Apply(o)
        BY <2>2 DEF DataReadyForWrite
      <3>2. OutputStep
        BY <1>0, <3>1, OutcomesAreLater, ApplyStep
      <3> QED BY <2>2, <3>2 DEF DataReadyForWrite
    <2>3. CASE SocketSend
      <3>1. PICK o \in Sent : Apply(o)
        BY <2>3 DEF SocketSend
      <3>2. OutputStep
        BY <1>0, <3>1, OutcomesAreLater, ApplyStep
      <3> QED BY <2>3, <3>2 DEF SocketSend
    <2>4. CASE WaitForMore \/ DataReturns \/ UNCHANGED vars
      BY <1>0, <2>4 DEF WaitForMore, DataReturns, vars, output, OutputStep, OutputOK
    <2> QED BY <2>1, <2>2, <2>3, <2>4
  <1>2. \/ pc' = pc
        \/ pc = "parse" /\ pc' = "idle" /\ state \notin WebSocketStates
        \/ pc = "onData" /\ pc' = "parse"
    BY DEF EndOfStream, DataReadyForWrite, WaitForMore, DataReturns, SocketSend, SocketClose,
           vars, WebSocketStates, Responding
  <1>3. Front' = Front /\ Stream' = Stream
    BY <1>1, <1>2 DEF Front, Stream, client
  <1>4. Quiet(0)
    <2>1. Len(inBuf) \in Nat /\ decoded \in Nat /\ Len(Stream) \in Nat /\ Shrinks(0)
      BY <1>0, <1>3, StreamType, StreamStays DEF TypeOK
    <2>2. (Accepts' => Accepts) /\ (Live' => Live) /\ (pc = "idle" => pc' = "idle")
      BY <1>1, <1>2 DEF OutputStep, OutputOK, Accepts, Live
    <2>3. \A j \in 1..Len(Stream') : j > Front' => j + 0 > Front
      BY <1>3, <2>1 DEF Front
    <2> QED BY <1>1, <1>3, <2>1, <2>2, <2>3 DEF Quiet, client, machine, history, frameHistory
  <1>5. TypeOK'
    BY <1>0, <1>1, <1>2 DEF TypeOK, client, machine, history, frameHistory, OutputStep,
                            OutputOK, OutStates
  <1>6. ResponseMatchesState' /\ WriterInStep'
    BY <1>0, <1>1 DEF Machine, ResponseMatchesState, WriterInStep, machine
  <1>7. SocketInStep'
    BY <1>0, <1>1, <1>2, <1>3 DEF Machine, SocketInStep, machine, history
  <1> QED BY <1>0, <1>4, <1>5, <1>6, <1>7, QuietKeepsOrder DEF IInv, Machine

(* handle() and onConnect() return or throw.  The head goes, or is left as   *)
(* it is now.                                                                *)
LEMMA CallbackStep ==
    ASSUME IInv, HandleReturns \/ ConnectReturns \/ HandleThrows \/ ConnectThrows
    PROVE  IInv'
  <1>0. Machine /\ Ordered /\ TypeOK
    BY DEF IInv, Machine
  <1>1. /\ pc \in {"handle", "onConnect"} /\ pc' \in {"parse", "idle"}
        /\ UNCHANGED <<client, decoded, request, resp, wsHandler, attached, open, output, again,
                       app, replies, frameHistory, connects, disconnects>>
        /\ threw' = threw \/ (pc = "handle" /\ threw' = threw \cup ({resp} \ {Nobody}))
    BY DEF HandleReturns, ConnectReturns, HandleThrows, ConnectThrows, machine, history
  <1>2. \/ state' = state /\ (pc = "onConnect" => ConnectThrows \/ state' = "HANDLING_HIXIE_WEBSOCKET")
        \/ pc = "onConnect" /\ state' \in WebSocketStates /\ state \notin WebSocketStates
    BY <1>0 DEF HandleReturns, ConnectReturns, HandleThrows, ConnectThrows, machine, Machine,
                SocketInStep, WebSocketStates
  <1>3. /\ inBuf \in Seq(Tokens) /\ Len(inBuf) \in Nat /\ decoded = 0
        /\ Front = (IF again THEN 1 ELSE 0) /\ Front' = 0
        /\ again => inBuf # <<>> /\ inBuf[1].is \in RequestKinds
    BY <1>0, <1>1 DEF TypeOK, Machine, SocketInStep, Front
  <1>4. PICK n \in {0, 1} :
          /\ n \in 0..Len(inBuf) /\ Shrinks(n) /\ Len(inBuf') = Len(inBuf) - n
          /\ inBuf' \in Seq(Tokens)
          /\ n = 1 \/ Front = 0 \/ (Len(Stream') > 0 => Stream'[1].is \notin RequestKinds)
    <2>1. CASE ~again
      <3>1. inBuf' = inBuf
        BY <2>1 DEF HandleReturns, ConnectReturns, HandleThrows, ConnectThrows, EraseHead
      <3>2. Shrinks(0)
        BY <1>0, <1>1, <3>1, StreamStays DEF Stream, client
      <3> QED BY <1>3, <2>1, <3>1, <3>2
    <2>2. CASE again /\ (HandleReturns \/ ConnectReturns)
      <3>1. 1 \in 0..Len(inBuf) /\ inBuf # <<>>
        BY <1>3, <2>2
      <3>2. inBuf' = Rest(1)
        <4>1. Tail(inBuf) = Rest(1)
          BY <1>3, <3>1 DEF Rest
        <4> QED BY <2>2, <4>1 DEF HandleReturns, ConnectReturns, EraseHead
      <3>3. inBuf' \in Seq(Tokens) /\ Len(inBuf') = Len(inBuf) - 1 /\ Shrinks(1)
        BY <1>0, <1>1, <3>1, <3>2, StreamDrops DEF client
      <3> WITNESS 1 \in {0, 1}
      <3> QED BY <3>1, <3>3
    <2>3. CASE again /\ (HandleThrows \/ ConnectThrows)
      <3>1. inBuf' = [inBuf EXCEPT ![1] = Spent(@)] /\ 1 \in 1..Len(inBuf) /\ wire' = wire
        BY <1>1, <1>3, <2>3 DEF HandleThrows, ConnectThrows, SpentHead, client
      <3>2. CASE ~IsFrame(inBuf[1]) /\ ~IsPart(inBuf[1])
        <4>1. /\ inBuf' \in Seq(Tokens) /\ Len(inBuf') = Len(inBuf) /\ Shrinks(0)
              /\ Stream'[1].is \in {"spent", "cut"}
          BY <1>0, <3>1, <3>2, StreamWears
        <4> QED BY <1>3, <4>1 DEF RequestKinds
      <3>3. inBuf[1].is \in RequestKinds
        BY <1>3, <2>3
      <3> QED BY <3>2, <3>3, FrameKindsAssumption DEF IsFrame, IsPart, RequestKinds
    <2> QED BY <2>1, <2>2, <2>3
  <1>5. Quiet(n)
    <2>1. \A j \in 1..Len(Stream') : j > Front' /\ Stream'[j].is \in RequestKinds => j + n > Front
      <3>1. Front \in {0, 1} /\ Front' = 0
        BY <1>3
      <3> QED BY <1>4, <3>1
    <2>2. (Accepts' => Accepts) /\ (Live' => Live) /\ decoded' = 0
      BY <1>1, <1>3 DEF output, Accepts, Live
    <2>3. state' \in {"BUFFERING_POST_DATA", "READING_WEBSOCKET_KEY3"} =>
             state' = state /\ Stream' = Stream
      <3>1. state \notin {"BUFFERING_POST_DATA", "READING_WEBSOCKET_KEY3"}
        BY <1>0, <1>1 DEF Machine, SocketInStep, Responding
      <3> QED BY <1>2, <3>1 DEF WebSocketStates
    <2>4. /\ UNCHANGED <<asked, frames, wire, replies, delivered, connects>>
          /\ resp' = resp /\ app' = app /\ threwAt' = threwAt /\ kept' = kept
          /\ state' \in Responding => state \in Responding
          /\ pc # "idle"
      BY <1>1, <1>2 DEF client, frameHistory, WebSocketStates, Responding
    <2>5. decoded' \in Nat /\ decoded <= decoded' + n
      BY <1>3, <1>4, <2>2
    <2>6. n \in 0..Len(inBuf) /\ Shrinks(n) /\ Len(inBuf') = Len(inBuf) - n
      BY <1>4
    <2> QED BY <2>1, <2>2, <2>3, <2>4, <2>5, <2>6 DEF Quiet
  <1>6. TypeOK'
    <2>1. threw' \subseteq Requests
      BY <1>0, <1>1 DEF TypeOK
    <2>2. /\ state' \in Responding \cup WebSocketStates \cup
                {"READING_HEADERS", "READING_WEBSOCKET_KEY3", "BUFFERING_POST_DATA"}
          /\ decoded' \in 0..Len(inBuf') /\ Len(inBuf') \in Nat
      BY <1>0, <1>1, <1>2, <1>3, <1>4 DEF TypeOK
    <2> QED BY <1>0, <1>1, <1>4, <2>1, <2>2 DEF TypeOK, client, output, frameHistory
  <1>7. ResponseMatchesState' /\ WriterInStep' /\ SocketInStep'
    <2>1. ResponseMatchesState' /\ WriterInStep'
      BY <1>0, <1>1, <1>2 DEF Machine, ResponseMatchesState, WriterInStep, SocketInStep,
                              Responding, WebSocketStates
    <2>2. Len(inBuf') \in Nat
      BY <1>3, <1>4
    <2> QED BY <1>0, <1>1, <1>2, <1>3, <2>1, <2>2 DEF Machine, SocketInStep, WebSocketStates
  <1> QED BY <1>0, <1>5, <1>6, <1>7, QuietKeepsOrder DEF IInv, Machine

(* The deletion of the connection tells the response and the handler.        *)
LEMMA DestroyStep ==
    ASSUME IInv, Destroy
    PROVE  IInv'
  <1>0. Machine /\ Ordered /\ TypeOK
    BY DEF IInv, Machine
  <1>1. /\ pc = "idle" /\ open /\ open' = FALSE /\ resp' = Nobody /\ wsHandler' = FALSE
        /\ disconnects' = disconnects + IF wsHandler THEN 1 ELSE 0
        /\ app' = IF resp = Nobody THEN app ELSE [app EXCEPT ![resp] = "cancelled"]
        /\ attached' = (attached /\ resp = Nobody)
        /\ UNCHANGED <<client, inBuf, decoded, state, request, output, pc, again, replies,
                       frameHistory, threw, connects>>
    BY DEF Destroy
  <1>2. TypeOK'
    <2>1. attached' \in BOOLEAN /\ disconnects' \in Nat
      BY <1>0, <1>1 DEF Machine, TypeOK, SocketInStep
    <2>2. app' \in [Requests -> {"none", "asked", "begun", "done", "cancelled"}]
      BY <1>0, <1>1 DEF TypeOK
    <2>3. resp' \in Requests \cup {Nobody} /\ open' \in BOOLEAN /\ wsHandler' \in BOOLEAN
      BY <1>1
    <2> QED BY <1>0, <1>1, <2>1, <2>2, <2>3 DEF TypeOK, client, output, frameHistory
  <1>3. WriterInStep'
    <2>1. \A i \in Requests : i # Nobody
      BY BoundsAssumption DEF Requests, Nobody
    <2> QED BY <1>0, <1>1, <2>1 DEF Machine, TypeOK, WriterInStep
  <1>4. Front' = Front /\ Stream' = Stream
    BY <1>1 DEF Front, Stream, client
  <1>5. ResponseMatchesState' /\ SocketInStep'
    BY <1>0, <1>1, <1>4 DEF Machine, SocketInStep, ResponseMatchesState
  <1>6. Quiet(0)
    <2>1. Len(inBuf) \in Nat /\ decoded \in Nat /\ Len(Stream) \in Nat /\ Shrinks(0)
      BY <1>0, <1>4, StreamType, StreamStays DEF TypeOK
    <2>2. (Accepts' => Accepts) /\ (Live' => Live) /\ (pc = "idle" => pc' = "idle")
      BY <1>1 DEF output, Accepts, Live
    <2>3. \A j \in 1..Len(Stream') : j > Front' => j + 0 > Front
      BY <1>4, <2>1 DEF Front
    <2>4. \A i \in Requests : app'[i] = "asked" => app[i] = "asked"
      BY <1>0, <1>1 DEF TypeOK
    <2> QED BY <1>1, <1>4, <2>1, <2>2, <2>3, <2>4 DEF Quiet, client, frameHistory
  <1> QED BY <1>0, <1>2, <1>3, <1>5, <1>6, QuietKeepsOrder DEF IInv, Machine

(* A payload, and the end of a response.                                     *)
LEMMA PayloadOrFinishStep ==
    ASSUME IInv, NEW i \in Requests,
           (\E flushIt \in BOOLEAN : Payload(i, flushIt)) \/ \E keep \in BOOLEAN : Finish(i, keep)
    PROVE  IInv'
  <1>0. OutputOK /\ Machine /\ Ordered /\ TypeOK
    BY DEF IInv, Machine, TypeOK, OutputOK, OutStates
  <1>1. /\ open /\ app[i] = "begun" /\ resp = i /\ state \in Responding
        /\ state # "AWAITING_RESPONSE_BEGIN" /\ i # Nobody
        /\ state \in {"SENDING_RESPONSE_HEADERS", "SENDING_RESPONSE_BODY"}
    BY <1>0, BoundsAssumption DEF Payload, Finish, AppRuns, Machine, WriterInStep, Responding,
                                  Requests, Nobody
  <1>2. UNCHANGED <<client, inBuf, decoded, request, wsHandler, attached, open, pc, again,
                    replies, history>>
    BY DEF Payload, Finish
  <1>3. OutputStep
    <2>1. \/ \E o \in Sent \cup Queued \cup SentLines : Apply(o)
          \/ \E o \in SentLines : Apply(ClosedWhenEmpty(o))
      BY <1>1 DEF Payload, Finish
    <2>2. PICK o : Later(o) /\ Apply(o)
      BY <1>0, <2>1, OutcomesAreLater
    <2> QED BY <2>2, ApplyStep
  <1>4. \/ state' = "SENDING_RESPONSE_BODY" /\ resp' = resp /\ app' = app
        \/ /\ state' = "READING_HEADERS" /\ resp' = Nobody
           /\ app' = [app EXCEPT ![i] = "done"]
    BY <1>1 DEF Payload, Finish
  <1>5. TypeOK'
    BY <1>0, <1>1, <1>2, <1>3, <1>4 DEF TypeOK, client, history, frameHistory, OutputStep,
                                        OutputOK, OutStates, Responding
  <1>6. ResponseMatchesState' /\ WriterInStep'
    BY <1>0, <1>1, <1>2, <1>4 DEF Machine, TypeOK, ResponseMatchesState, WriterInStep, Responding
  <1>7. Front' = Front /\ Stream' = Stream
    BY <1>2 DEF Front, Stream, client
  <1>8. SocketInStep'
    BY <1>0, <1>1, <1>2, <1>4, <1>7 DEF Machine, SocketInStep, Responding, WebSocketStates,
                                        client, history
  <1>9. Quiet(0)
    <2>1. Len(inBuf) \in Nat /\ decoded \in Nat /\ Len(Stream) \in Nat /\ Shrinks(0)
      BY <1>0, <1>7, StreamType, StreamStays DEF TypeOK
    <2>2. (Accepts' => Accepts) /\ (Live' => Live)
      BY <1>2, <1>3 DEF OutputStep, OutputOK, Accepts, Live
    <2>3. \A j \in 1..Len(Stream') : j > Front' => j + 0 > Front
      BY <1>7, <2>1 DEF Front
    <2>4. \A k \in Requests : app'[k] = "asked" => app[k] = "asked"
      BY <1>0, <1>4 DEF TypeOK
    <2> QED BY <1>1, <1>2, <1>4, <1>7, <2>1, <2>2, <2>3, <2>4
            DEF Quiet, client, history, frameHistory
  <1> QED BY <1>0, <1>5, <1>6, <1>8, <1>9, QuietKeepsOrder DEF IInv, Machine

(* Frames that are not passed on, and the end of a pass: it takes out of     *)
(* _inBuf what it has decoded, or nothing when onData() throws.              *)
LEMMA PassStep ==
    ASSUME IInv, HandlePing \/ HandleCloseOrError \/ NoMessage \/ CutWait \/ DataThrows
    PROVE  IInv'
  <1>0. OutputOK /\ Machine /\ Ordered /\ TypeOK
    BY DEF IInv, Machine, TypeOK, OutputOK, OutStates
  <1>1. /\ pc \in {"parse", "onData"}
        /\ UNCHANGED <<client, machine, again, app, replies, delivered, threw, connects,
                       disconnects>>
        /\ decoded \in Nat /\ Len(inBuf) \in Nat /\ inBuf \in Seq(Tokens) /\ decoded <= Len(inBuf)
        /\ HandlePing \/ HandleCloseOrError => decoded < Len(inBuf)
    BY <1>0 DEF HandlePing, HandleCloseOrError, NoMessage, CutWait, DataThrows, Decoding, TypeOK,
                history, frameHistory
  <1>2. state \in WebSocketStates
    <2>1. pc = "onData" => state \in WebSocketStates
      BY <1>0 DEF Machine, SocketInStep
    <2> QED BY <2>1 DEF HandlePing, HandleCloseOrError, NoMessage, CutWait, DataThrows, Decoding
  <1>3. OutputStep
    <2>1. CASE HandlePing
      BY <1>0, <2>1, OutcomesAreLater, ApplyStep DEF HandlePing
    <2>2. CASE HandleCloseOrError \/ NoMessage \/ CutWait \/ DataThrows
      BY <1>0, <2>2 DEF HandleCloseOrError, NoMessage, CutWait, DataThrows, OutputStep, OutputOK,
                        output
    <2> QED BY <2>1, <2>2
  <1>4. \/ HandlePing /\ pc' = pc /\ decoded' = decoded + 1
        \/ ~HandlePing /\ pc' = "idle" /\ decoded' = 0
    BY DEF HandlePing, HandleCloseOrError, NoMessage, CutWait, DataThrows, Decoding, Next1, Speaks
  <1>5. PICK n \in {0, decoded} :
          /\ n \in 0..Len(inBuf) /\ Shrinks(n) /\ Len(inBuf') = Len(inBuf) - n
          /\ inBuf' \in Seq(Tokens)
          /\ \/ decoded' = decoded + 1 \/ decoded' + n = decoded
             \/ HandleCloseOrError \/ DataThrows
          /\ n = 0 => inBuf' = inBuf
    <2>1. CASE inBuf' = inBuf /\ ~NoMessage /\ ~CutWait
      <3>1. Shrinks(0)
        BY <1>0, <1>1, <2>1, StreamStays DEF Stream, client
      <3> WITNESS 0 \in {0, decoded}
      <3> QED BY <1>1, <1>4, <2>1, <3>1
    <2>2. CASE NoMessage \/ CutWait
      <3>1. inBuf' = Rest(decoded) /\ decoded \in 0..Len(inBuf)
        <4>1. decoded = Len(inBuf) => Rest(decoded) = <<>>
          BY <1>1 DEF Rest
        <4>2. CASE NoMessage
          BY <1>1, <4>1, <4>2 DEF NoMessage
        <4>3. CASE CutWait
          BY <1>1, <4>3 DEF CutWait, Rest
        <4> QED BY <2>2, <4>2, <4>3
      <3>2. /\ inBuf' \in Seq(Tokens) /\ Len(inBuf') = Len(inBuf) - decoded /\ Shrinks(decoded)
        BY <1>0, <1>1, <3>1, StreamDrops DEF client
      <3>3. decoded' = 0 /\ (decoded = 0 => inBuf' = inBuf)
        BY <1>1, <2>2, <3>1 DEF NoMessage, CutWait, Rest
      <3> WITNESS decoded \in {0, decoded}
      <3> QED BY <1>1, <3>1, <3>2, <3>3
    <2> QED BY <2>1, <2>2 DEF HandlePing, HandleCloseOrError, DataThrows
  <1>6. /\ threwAt \subseteq threwAt' /\ (DataThrows => Len(delivered) \in threwAt')
        /\ kept' = kept \/ (kept' = Len(delivered) /\ inBuf' = <<>>)
        /\ kept' \in Nat /\ threwAt' \subseteq Nat
        /\ HandleCloseOrError => shutdown'
    <2>1. Len(delivered) \in Nat /\ kept \in Nat /\ threwAt \subseteq Nat
      BY <1>0 DEF TypeOK
    <2> QED BY <2>1 DEF HandlePing, HandleCloseOrError, NoMessage, CutWait, DataThrows, history,
                        frameHistory
  <1>7. Front = 0 /\ Front' = 0
    BY <1>1, <1>4 DEF Front
  <1>8. TypeOK'
    <2>1. decoded' \in 0..Len(inBuf')
      BY <1>1, <1>4, <1>5 DEF HandlePing
    <2> QED BY <1>0, <1>1, <1>3, <1>4, <1>5, <1>6, <2>1
            DEF TypeOK, client, machine, OutputStep, OutputOK, OutStates
  <1>9. ResponseMatchesState' /\ WriterInStep'
    BY <1>0, <1>1 DEF Machine, ResponseMatchesState, WriterInStep, machine
  <1>10. SocketInStep'
    BY <1>0, <1>1, <1>2, <1>4, <1>7 DEF Machine, SocketInStep, machine
  <1>11. Quiet(n)
    <2>1. (Accepts' => Accepts) /\ (Live' => Live)
      BY <1>1, <1>3 DEF OutputStep, OutputOK, Accepts, Live
    <2>2. \A j \in 1..Len(Stream') : j > Front' => j + n > Front
      BY <1>1, <1>5, <1>7
    <2>3. decoded <= decoded' + n \/ ~Live' \/ Len(delivered) \in threwAt'
      BY <1>1, <1>4, <1>5, <1>6 DEF Live, HandleCloseOrError
    <2>4. decoded' \in Nat /\ state' = state /\ resp' = resp /\ app' = app /\ pc # "idle"
      BY <1>1, <1>4 DEF machine
    <2>5. state' \notin {"BUFFERING_POST_DATA", "READING_WEBSOCKET_KEY3"}
      BY <1>2, <2>4 DEF WebSocketStates
    <2>6. UNCHANGED <<asked, frames, wire, replies, delivered, connects>>
      BY <1>1 DEF client
    <2> QED BY <1>5, <1>6, <2>1, <2>2, <2>3, <2>4, <2>5, <2>6 DEF Quiet
  <1> QED BY <1>0, <1>8, <1>9, <1>10, <1>11, QuietKeepsOrder DEF IInv, Machine

-----------------------------------------------------------------------------
(* Steps that reply.                                                         *)

RepliedNext(i) == \A r \in 1..Len(replies') : replies'[r].id < i

(* The next reply's number is above all the others.                          *)
LEMMA ReplyType ==
    ASSUME TypeOK
    PROVE  /\ Len(replies) \in Nat /\ replies \in Replies
           /\ \A r \in 1..Len(replies) :
                 replies[r] \in [id : Requests, is : Words] /\ replies[r].id \in Nat
  <1>1. replies \in Replies
    BY DEF TypeOK, Replies, Words
  <1>2. \A r \in 1..Len(replies) : replies[r] \in [id : Requests, is : Words]
    BY <1>1, ElementOfSeq DEF Replies
  <1> QED BY <1>1, <1>2, BoundsAssumption DEF Requests, Replies

(* A reply whose number is above all the others keeps them in order, and is  *)
(* the last if it says so.                                                   *)
LEMMA ReplyKeepsOrder ==
    ASSUME TypeOK, connects = 0, ~Stuck, RepliesInOrder, LastReply,
           NEW i \in Requests, AddsReply(i), Accepts => RepliedBefore(i),
           Accepts' => Accepts
    PROVE  /\ replies' \in Replies /\ RepliesInOrder' /\ LastReply'
           /\ \A k \in Nat : RepliedBefore(k) /\ i < k => RepliedNext(k)
           /\ \A k \in Nat : (\A r \in 1..Len(replies) : replies[r].id <= k) /\ i <= k
                => \A r \in 1..Len(replies') : replies'[r].id <= k
           /\ \A r \in 1..Len(replies) : r \in 1..Len(replies') /\ replies'[r] = replies[r]
  <1>0. /\ \A r \in 1..Len(replies) : replies[r] \in [id : Requests, is : Words]
        /\ Len(replies) \in Nat /\ replies \in Replies
    BY ReplyType
  <1>1. CASE replies' = replies
    <2>1. RepliesInOrder' /\ replies' \in Replies
      BY <1>0, <1>1 DEF RepliesInOrder
    <2>2. LastReply'
      BY <1>1 DEF LastReply
    <2> QED BY <1>1, <2>1, <2>2 DEF RepliedBefore, RepliedNext
  <1>2. CASE replies' # replies
    <2>1. PICK w \in Words :
             /\ Accepts /\ replies' = Append(replies, [id |-> i, is |-> w])
             /\ w = "error" => ~Accepts'
             /\ w = "101" => connects' = 1
             /\ w = "half" => Stuck'
      BY <1>2 DEF AddsReply
    <2>2. /\ Len(replies) \in Nat /\ Len(replies') = Len(replies) + 1
          /\ replies'[Len(replies) + 1] = [id |-> i, is |-> w]
          /\ \A r \in 1..Len(replies) : replies'[r] = replies[r]
          /\ replies' \in Replies
      BY <1>0, <2>1 DEF Replies
    <2>3. \A r \in 1..Len(replies) : replies[r].is = "ok" /\ replies[r].id < i
      BY <1>0, <2>1 DEF LastReply, RepliedBefore, Words
    <2>4. RepliesInOrder'
      <3>1. ASSUME NEW r \in 1..Len(replies') - 1
            PROVE  replies'[r].id < replies'[r + 1].id /\ replies'[r].is = "ok"
        <4>1. r \in 1..Len(replies) /\ replies'[r] = replies[r]
          BY <2>2
        <4>2. CASE r = Len(replies)
          BY <2>2, <2>3, <4>1, <4>2
        <4>3. CASE r # Len(replies)
          <5>1. r \in 1..Len(replies) - 1 /\ r + 1 \in 1..Len(replies)
            BY <2>2, <4>1, <4>3
          <5>2. replies'[r + 1] = replies[r + 1]
            BY <2>2, <5>1
          <5> QED BY <2>3, <4>1, <5>1, <5>2 DEF RepliesInOrder
        <4> QED BY <4>2, <4>3
      <3> QED BY <3>1 DEF RepliesInOrder
    <2>5. LastReply'
      <3>1. ASSUME NEW r \in 1..Len(replies')
            PROVE  /\ replies'[r].is = "error" => ~Accepts'
                   /\ replies'[r].is = "101" => connects' = 1
                   /\ replies'[r].is = "half" => Stuck'
        <4>1. CASE r = Len(replies) + 1
          BY <2>1, <2>2, <4>1
        <4>2. CASE r \in 1..Len(replies)
          BY <2>2, <2>3, <4>2
        <4> QED BY <2>2, <4>1, <4>2
      <3> QED BY <3>1 DEF LastReply
    <2>6. \A r \in 1..Len(replies') : r \in 1..Len(replies) \/ replies'[r].id = i
      BY <2>2
    <2> QED BY <2>2, <2>4, <2>5, <2>6 DEF RepliedBefore, RepliedNext
  <1> QED BY <1>1, <1>2

(* begin() and error() reply to the request that the connection is at.       *)
LEMMA BeginOrErrorStep ==
    ASSUME IInv, NEW i \in Requests, Begin(i) \/ \E notFound \in BOOLEAN : Error(i, notFound)
    PROVE  IInv'
  <1>0. OutputOK /\ Machine /\ Ordered /\ TypeOK
    BY DEF IInv, Machine, TypeOK, OutputOK, OutStates
  <1>1. /\ open /\ app[i] = "asked" /\ resp = i /\ state = "AWAITING_RESPONSE_BEGIN"
        /\ pc # "parse" /\ ~Stuck
    BY <1>0 DEF Begin, Error, AppRuns, Machine, WriterInStep, Stuck, Responding
  <1>2. connects = 0 /\ decoded = 0
    BY <1>0, <1>1 DEF Machine, SocketInStep, WebSocketStates
  <1>3. /\ app' \in {[app EXCEPT ![i] = "begun"], [app EXCEPT ![i] = "done"]}
        /\ app' = [app EXCEPT ![i] = "begun"] => state' = "SENDING_RESPONSE_HEADERS"
        /\ app' = [app EXCEPT ![i] = "done"] => state' = state
        /\ UNCHANGED <<client, inBuf, decoded, request, resp, wsHandler, attached, open, pc,
                       again, history>>
    <2>1. [app EXCEPT ![i] = "begun"] # [app EXCEPT ![i] = "done"]
      BY <1>0 DEF TypeOK
    <2> QED BY <1>1, <2>1 DEF Begin, Error, machine
  <1>4. OutputStep /\ AddsReply(i)
    <2>1. CASE Begin(i)
      <3>1. Reply(i, "ok") /\ \E o \in Queued : Apply(o)
        BY <1>1, <2>1 DEF Begin
      <3> QED BY <1>0, <3>1, OutcomesAreLater, ApplyStep DEF Reply, AddsReply, Words
    <2>2. ASSUME NEW notFound \in BOOLEAN, Error(i, notFound)
          PROVE  OutputStep /\ AddsReply(i)
      <3> DEFINE uri == IF notFound THEN request ELSE "none"
      <3>1. PICK o \in Send404(uri) : Reply(i, Word404(uri)) /\ Apply(o)
        BY <1>1, <2>2 DEF Error
      <3> HIDE DEF uri
      <3>2. OutputStep
        BY <1>0, <3>1, OutcomesAreLater, ApplyStep
      <3>3. Word404(uri) \in {"ok", "error"} /\ (Word404(uri) = "error" => o \in SendError)
        BY <3>1 DEF Word404, Send404
      <3>4. Word404(uri) = "error" /\ Accepts => ~Accepts'
        BY <1>0, <3>1, <3>3, ErrorIsLast DEF Apply, Accepts
      <3> QED BY <3>1, <3>2, <3>3, <3>4 DEF Reply, AddsReply, Words
    <2> QED BY <2>1, <2>2
  <1>5. /\ Accepts' => Accepts
        /\ Live' => Live
        /\ Accepts => Live
        /\ connects' = connects /\ Stream' = Stream /\ Front' = Front
    BY <1>0, <1>3, <1>4 DEF OutputStep, OutputOK, Accepts, Live, history, client, Stream, Front
  <1>6. Accepts => RepliedBefore(i)
    BY <1>0, <1>1, <1>5 DEF Ordered, Unreplied
  <1>7. /\ replies' \in Replies /\ RepliesInOrder' /\ LastReply'
        /\ \A k \in Nat : RepliedBefore(k) /\ i < k => RepliedNext(k)
        /\ \A k \in Nat : (\A r \in 1..Len(replies) : replies[r].id <= k) /\ i <= k
             => \A r \in 1..Len(replies') : replies'[r].id <= k
        /\ \A r \in 1..Len(replies) : r \in 1..Len(replies') /\ replies'[r] = replies[r]
    BY <1>0, <1>1, <1>2, <1>4, <1>5, <1>6, ReplyKeepsOrder DEF Ordered
  <1>8. TypeOK'
    BY <1>0, <1>1, <1>3, <1>4, <1>7 DEF TypeOK, client, history, frameHistory, OutputStep,
                                        OutputOK, OutStates, Responding, Replies, Words
  <1>9. ResponseMatchesState' /\ WriterInStep'
    BY <1>0, <1>1, <1>3 DEF Machine, TypeOK, ResponseMatchesState, WriterInStep, Responding
  <1>10. SocketInStep'
    BY <1>0, <1>1, <1>2, <1>3, <1>5 DEF Machine, SocketInStep, WebSocketStates, history,
                                        Responding
  <1>11. Numbered' /\ InOrder'
    <2>1. i <= Len(asked) /\ Len(asked) \in Nat
      BY <1>0, <1>1 DEF Ordered, Numbered, TypeOK
    <2>2. \A r \in 1..Len(replies') : replies'[r].id <= Len(asked)
      BY <1>0, <1>7, <2>1 DEF Ordered, Numbered
    <2>3. AllGivenOut' /\ InOrder'
      <3>1. Shrinks(0)
        BY <1>0, <1>5, StreamStays
      <3> QED BY <1>0, <1>3, <3>1, StreamKeepsOrder DEF Ordered, Numbered, AllGivenOut, client
    <2> QED BY <1>0, <1>3, <2>2, <2>3 DEF Ordered, Numbered, AllGivenOut, client, history,
                                          frameHistory
  <1>12. Unreplied'
    <2> SUFFICES ASSUME Live' PROVE Unreplied'
      BY DEF Unreplied
    <2>1. \A j \in 1..Len(Stream) : j > Front /\ Stream[j].is \in RequestKinds =>
             RepliedNext(Stream[j].id) /\ resp < Stream[j].id
      <3>1. ASSUME NEW j \in 1..Len(Stream), j > Front, Stream[j].is \in RequestKinds
            PROVE  RepliedNext(Stream[j].id) /\ resp < Stream[j].id
        <4>1. RepliedBefore(Stream[j].id) /\ i < Stream[j].id
          BY <1>0, <1>1, <1>5, <3>1 DEF Ordered, Unreplied
        <4>2. Stream[j].id \in Nat \ {0}
          BY <1>0, IdsAreNumbers DEF Ordered
        <4> QED BY <1>1, <1>7, <4>1, <4>2
      <3> QED BY <3>1
    <2>2. state' \notin {"BUFFERING_POST_DATA", "READING_WEBSOCKET_KEY3"}
      BY <1>1, <1>3
    <2>3. \A k \in Requests : app'[k] # "asked"
      BY <1>0, <1>1, <1>3 DEF Machine, TypeOK, WriterInStep
    <2>4. resp' = resp
      BY <1>3
    <2> QED BY <1>2, <1>5, <2>1, <2>2, <2>3, <2>4 DEF Unreplied, RepliedBefore, RepliedNext
  <1>13. ClientWaits'
    <2>1. \A k \in 1..Len(asked) - 1 : asked[k] \in UpgradeKinds =>
             \E r \in 1..Len(replies') : replies'[r].id = k /\ replies'[r].is # "half"
      BY <1>0, <1>7 DEF Ordered, ClientWaits
    <2> QED BY <1>0, <1>2, <1>3, <1>5, <2>1 DEF Ordered, ClientWaits, client
  <1>14. FramesOnce' /\ Undelivered'
    <2>1. delivered = <<>>
      BY <1>0, <1>2 DEF Ordered, FramesOnce
    <2> QED BY <1>0, <1>2, <1>3, <1>5, <2>1
            DEF Ordered, FramesOnce, Undelivered, history, frameHistory, TypeOK
  <1> QED BY <1>7, <1>8, <1>9, <1>10, <1>11, <1>12, <1>13, <1>14 DEF IInv, Machine, Ordered

(* A request for a WebSocket that is not answered is the last of the stream. *)
LEMMA LastInStream ==
    ASSUME TypeOK, Ordered, connects = 0, NEW n \in 1..Len(Stream),
           Stream[n].is \in {"upgrade", "key3"}, RepliedBefore(Stream[n].id)
    PROVE  /\ Len(Stream) = n
           /\ Stream[n].id \in 1..Len(asked) /\ asked[Stream[n].id] \in UpgradeKinds
           /\ \A r \in 1..Len(replies) : replies[r].id # Stream[n].id
  <1> DEFINE i == Stream[n].id
  <1>1. /\ Len(asked) \in Nat /\ frames \in Nat /\ Len(Stream) \in Nat
        /\ \A r \in 1..Len(replies) : replies[r].id \in Nat
    <2>1. Len(Stream) \in Nat
      BY StreamType
    <2>2. \A r \in 1..Len(replies) : replies[r].id \in Nat
      BY ReplyType
    <2>3. Len(asked) \in Nat /\ frames \in Nat
      BY DEF TypeOK
    <2> QED BY <2>1, <2>2, <2>3
  <1>2. {"upgrade", "body", "key3"} \cap (FrameKinds \cup {"cut"}) = {}
    BY FrameKindsAssumption
  <1>3. \A j \in 1..Len(Stream) : GivenOut(Stream[j])
    BY DEF Ordered, Numbered
  <1>4. ~IsFrame(Stream[n])
    BY <1>2 DEF IsFrame
  <1>5. /\ i \in 1..Len(asked) /\ asked[i] \in {"upgrade", "hixie"}
        /\ Stream[n].is = "upgrade" => asked[i] = "upgrade"
    BY <1>3, <1>4 DEF GivenOut, RequestKinds
  <1>6. \A r \in 1..Len(replies) : replies[r].id # i
    BY <1>1, <1>5 DEF RepliedBefore
  <1>7. i = Len(asked)
    <2>1. ~(i \in 1..Len(asked) - 1)
      BY <1>5, <1>6 DEF Ordered, ClientWaits, UpgradeKinds
    <2> QED BY <1>1, <1>5, <2>1
  <1>8. ASSUME n < Len(Stream) PROVE FALSE
    <2> DEFINE t == Stream[n + 1]
    <2>1. n + 1 \in 1..Len(Stream) /\ GivenOut(t) /\ Follows(Stream[n], t)
      BY <1>1, <1>3, <1>8 DEF Ordered, InOrder
    <2>2. ~(frames > 0)
      BY DEF Ordered, ClientWaits
    <2> HIDE DEF t
    <2>3. ~IsFrame(t)
      BY <1>1, <2>1, <2>2 DEF GivenOut
    <2>4. /\ t.id \in 1..Len(asked) /\ i <= t.id
          /\ i = t.id => IsPart(t) /\ ~IsPart(Stream[n])
          /\ t.is = "body" => asked[t.id] = "post"
          /\ t.is = "key3" => asked[t.id] = "hixie"
      BY <1>4, <2>1, <2>3 DEF Follows, GivenOut
    <2>5. i = t.id
      BY <1>1, <1>7, <2>4
    <2> HIDE DEF i
    <2> QED BY <1>5, <2>4, <2>5 DEF IsPart
  <1>9. Len(Stream) = n
    BY <1>1, <1>8
  <1> QED BY <1>5, <1>6, <1>9 DEF UpgradeKinds

(* Requests, bodies and keys: what is taken is the next in the stream, and   *)
(* the connection is at no other.                                            *)
LEMMA TakesStep ==
    ASSUME IInv, NEW n \in 1..Len(inBuf), Takes(n)
    PROVE  IInv'
  <1> DEFINE i == inBuf[n].id
  <1>0. OutputOK /\ Machine /\ Ordered /\ TypeOK
    BY DEF IInv, Machine, TypeOK, OutputOK, OutStates
  <1>1. /\ pc = "parse" /\ Awaited(inBuf[n], n) /\ Handles(n)
        /\ request' \in RequestKinds \cup {"none"} /\ wsHandler' \in BOOLEAN
        /\ UNCHANGED <<client, decoded, attached, open, frameHistory, disconnects>>
    BY Zenon DEF Takes
  <1>2. /\ open /\ Live /\ Front = 0 /\ ~Stuck
        /\ state \in {"READING_HEADERS", "BUFFERING_POST_DATA", "READING_WEBSOCKET_KEY3"}
        /\ state \notin Responding /\ state \notin WebSocketStates
    BY <1>0, <1>1 DEF TypeOK, Awaited, Responding, WebSocketStates, Live, Front, Stuck
  <1>3. /\ n \in 1..Len(Stream) /\ Stream[n] = inBuf[n] /\ Len(Stream) \in Nat
        /\ Len(inBuf) \in Nat /\ Len(asked) \in Nat /\ n \in Nat /\ n \in 0..Len(inBuf)
        /\ Len(Stream) = Len(inBuf) + Len(wire) /\ Len(wire) \in Nat
    BY <1>0, StreamType DEF TypeOK
  <1>4. ~IsFrame(Stream[n]) /\ Stream[n].is \in RequestKinds \cup {"body", "key3"}
    BY <1>1, <1>3, FrameKindsAssumption DEF Awaited, IsFrame, RequestKinds
  <1>5. i \in Requests /\ i <= Len(asked) /\ i = Stream[n].id /\ i \in Nat \ {0}
    <2>1. GivenOut(Stream[n])
      BY <1>0, <1>3 DEF Ordered, Numbered
    <2> QED BY <1>0, <1>3, <1>4, <2>1, BoundsAssumption DEF Ordered, Numbered, Requests, GivenOut
  <1>6. connects = 0
    <2>1. CASE state = "READING_HEADERS"
      BY <1>0, <1>1, <1>2, <1>3, <2>1 DEF Awaited, Ordered, Unreplied
    <2>2. CASE state # "READING_HEADERS"
      BY <1>0, <1>2, <2>2 DEF Machine, SocketInStep
    <2> QED BY <2>1, <2>2
  <1>7. RepliedBefore(i)
    <2>1. CASE state = "READING_HEADERS"
      BY <1>0, <1>1, <1>2, <1>3, <2>1 DEF Awaited, Ordered, Unreplied
    <2>2. CASE state # "READING_HEADERS"
      BY <1>0, <1>1, <1>2, <1>3, <1>4, <2>2 DEF Awaited, Ordered, Unreplied
    <2> QED BY <2>1, <2>2
  <1>8. /\ decoded = 0 /\ resp = Nobody /\ delivered = <<>>
        /\ \A k \in Requests : app[k] \notin {"asked", "begun"}
    BY <1>0, <1>2, <1>6 DEF Machine, SocketInStep, ResponseMatchesState, WriterInStep, Ordered,
                            FramesOnce
  <1>9. /\ wire' = wire /\ asked' = asked /\ frames' = frames /\ delivered' = delivered
        /\ kept' = kept /\ threwAt' = threwAt /\ decoded' = 0
    BY <1>1, <1>8 DEF client, frameHistory
  <1> HIDE DEF i
  \* whoever becomes a WebSocket, or only half of one, was the last to ask
  <1>10. Connects(n) \/ Halves(n) =>
            /\ Len(Stream) = n /\ i \in 1..Len(asked) /\ asked[i] \in UpgradeKinds
            /\ \A r \in 1..Len(replies) : replies[r].id # i
    <2>1. Connects(n) \/ Halves(n) => Stream[n].is \in {"upgrade", "key3"}
      BY <1>3 DEF Connects, Halves
    <2> QED BY <1>0, <1>3, <1>5, <1>6, <1>7, <2>1, LastInStream
  <1>11. Connects(n) => NoMore'
    <2> SUFFICES ASSUME Connects(n) PROVE NoMore'
      OBVIOUS
    <2>1. CASE replies' = replies
      BY <1>9, <1>10, <2>1 DEF NoMore
    <2>2. CASE replies' = Append(replies, [id |-> i, is |-> "101"])
      <3>1. Len(replies') \in 1..Len(replies') /\ replies'[Len(replies')].is = "101"
        BY <1>0, <2>2, ReplyType DEF Replies
      <3> QED BY <3>1 DEF NoMore, Upgraded
    <2> QED BY <2>1, <2>2 DEF Connects, i
  <1>12. Halves(n) => Stuck' /\ Len(Stream') = 1 /\ Stream'[1].is \notin RequestKinds
    <2> SUFFICES ASSUME Halves(n)
                 PROVE  Stuck' /\ Len(Stream') = 1 /\ Stream'[1].is \notin RequestKinds
      OBVIOUS
    <2>1. NoMore'
      <3>1. CASE replies' = replies
        BY <1>9, <1>10, <3>1 DEF NoMore
      <3>2. CASE replies' = Append(replies, [id |-> i, is |-> "half"])
        <4>1. \A r \in 1..Len(replies') :
                 (r \in 1..Len(replies) /\ replies'[r] = replies[r]) \/ replies'[r].is = "half"
          BY <1>0, <3>2, ReplyType DEF Replies
        <4>2. \A r \in 1..Len(replies') : replies'[r].id = i => replies'[r].is = "half"
          BY <1>10, <4>1
        <4> QED BY <1>9, <1>10, <4>2 DEF NoMore
      <3> QED BY <3>1, <3>2 DEF Halves, i
    <2>2. wire' = <<>>
      <3>1. n = 1 /\ Len(Stream) = 1
        BY <1>10 DEF Halves
      <3>2. Len(wire) = 0
        <4>1. n = 1 => Len(inBuf) >= 1
          BY <1>3
        <4>2. \A a, b \in Nat : a >= 1 /\ 1 = a + b => b = 0
          OBVIOUS
        <4>3. Len(inBuf) \in Nat /\ Len(wire) \in Nat /\ 1 = Len(inBuf) + Len(wire)
          BY <1>3, <3>1, Zenon
        <4> QED BY <3>1, <4>1, <4>2, <4>3
      <3> QED BY <1>0, <1>9, <3>2 DEF TypeOK
    <2>3. Stuck'
      BY <1>2, <1>6, <2>1, <2>2 DEF Halves, Stuck
    <2>4. Len(Stream') = 1 /\ Stream'[1].is \notin RequestKinds
      <3>1. n = 1 /\ Len(Stream) = 1
        BY <1>10 DEF Halves
      <3>2. CASE inBuf[n].is = "upgrade" /\ inBuf' = SpentHead
        <4>1. inBuf' = [inBuf EXCEPT ![n] = Spent(@)] /\ ~IsFrame(inBuf[n]) /\ ~IsPart(inBuf[n])
          BY <1>3, <1>4, <3>1, <3>2 DEF SpentHead, IsPart
        <4>2. Shrinks(0) /\ Stream'[n].is \in {"spent", "cut"}
          BY <1>0, <1>9, <4>1, StreamWears
        <4>3. Len(Stream') = 1
          BY <3>1, <4>2 DEF Shrinks
        <4> QED BY <3>1, <4>2, <4>3 DEF RequestKinds
      <3>3. CASE inBuf[n].is = "key3" /\ inBuf' = inBuf
        BY <1>3, <1>9, <3>1, <3>3 DEF Stream, RequestKinds
      <3> QED BY <3>2, <3>3 DEF Halves
    <2> QED BY <2>3, <2>4
  <1>13. OutputStep /\ AddsReply(i)
    <2>1. CASE Answers(n)
      BY <2>1 DEF Answers, i
    <2>2. CASE Asks(n) \/ Defers(n)
      BY <1>0, <2>2 DEF Asks, Defers, OutputStep, OutputOK, output, AddsReply
    <2>3. CASE Connects(n)
      BY <1>6, <2>3 DEF Connects, AddsReply, Words, i
    <2>4. CASE Halves(n)
      BY <1>12, <2>4 DEF Halves, AddsReply, Words, i
    <2> QED BY <1>1, <2>1, <2>2, <2>3, <2>4 DEF Handles
  <1>14. connects' \in {0, 1} /\ (connects' = 1 => Connects(n)) /\ (Accepts' => Accepts)
    BY <1>1, <1>6, <1>13 DEF Handles, Answers, Asks, Connects, Halves, Defers, OutputStep,
                             OutputOK, Accepts
  <1>15. /\ replies' \in Replies /\ RepliesInOrder' /\ LastReply'
         /\ \A k \in Nat : RepliedBefore(k) /\ i < k => RepliedNext(k)
         /\ \A k \in Nat : (\A r \in 1..Len(replies) : replies[r].id <= k) /\ i <= k
              => \A r \in 1..Len(replies') : replies'[r].id <= k
         /\ \A r \in 1..Len(replies) : r \in 1..Len(replies') /\ replies'[r] = replies[r]
    BY <1>0, <1>2, <1>5, <1>6, <1>7, <1>13, <1>14, ReplyKeepsOrder DEF Ordered
  \* what becomes of the stream
  <1>16. PICK m \in {0, n} :
            /\ Shrinks(m) /\ inBuf' \in Seq(Tokens) /\ Len(inBuf') = Len(inBuf) - m
            /\ m = 0 => \/ Halves(n)
                        \/ inBuf' = inBuf /\ ~Live'
                        \/ /\ inBuf' = inBuf /\ n = 1 /\ inBuf[1].is \in RequestKinds
                           /\ Asks(n) \/ Connects(n)
                           /\ Front' = 1
            /\ m = n => Front' = 0
    <2>1. CASE inBuf' = Rest(n) /\ Front' = 0
      <3>1. Shrinks(n) /\ inBuf' \in Seq(Tokens) /\ Len(inBuf') = Len(inBuf) - n
        BY <1>0, <1>3, <1>9, <2>1, StreamDrops
      <3> WITNESS n \in {0, n}
      <3> QED BY <1>3, <2>1, <3>1
    <2>2. CASE Halves(n)
      <3>1. Shrinks(0) /\ inBuf' \in Seq(Tokens) /\ Len(inBuf') = Len(inBuf)
        <4>1. CASE inBuf[n].is = "upgrade" /\ inBuf' = SpentHead
          <5>1. inBuf' = [inBuf EXCEPT ![n] = Spent(@)] /\ ~IsFrame(inBuf[n]) /\ ~IsPart(inBuf[n])
            BY <1>3, <1>4, <2>2, <4>1 DEF SpentHead, IsPart, Halves
          <5> QED BY <1>0, <1>9, <5>1, StreamWears
        <4>2. CASE inBuf' = inBuf
          BY <1>0, <1>9, <4>2, StreamStays DEF TypeOK, Stream
        <4> QED BY <2>2, <4>1, <4>2 DEF Halves
      <3> WITNESS 0 \in {0, n}
      <3> QED BY <1>3, <2>2, <3>1
    <2>3. CASE \/ inBuf' = inBuf /\ ~Live'
               \/ /\ inBuf' = inBuf /\ n = 1 /\ inBuf[1].is \in RequestKinds
                  /\ Asks(n) \/ Connects(n)
                  /\ Front' = 1
      <3>1. Shrinks(0) /\ inBuf' \in Seq(Tokens) /\ Len(inBuf') = Len(inBuf)
        BY <1>0, <1>9, <2>3, StreamStays DEF TypeOK, Stream
      <3> WITNESS 0 \in {0, n}
      <3> QED BY <1>3, <2>3, <3>1
    <2>4. CASE Answers(n) \/ Defers(n)
      BY <2>1, <2>3, <2>4 DEF Answers, Defers, Front, Live
    <2>5. CASE Asks(n)
      BY <2>1, <2>3, <2>5 DEF Asks, Front
    <2>6. CASE Connects(n)
      BY <2>1, <2>3, <2>6 DEF Connects, Front, RequestKinds
    <2> QED BY <1>1, <2>2, <2>4, <2>5, <2>6 DEF Handles
  <1>17. \/ /\ state' = "READING_HEADERS" /\ pc' \in {"parse", "idle"} /\ connects' = 0
            /\ UNCHANGED <<resp, app, threw>>
         \/ /\ state' = "AWAITING_RESPONSE_BEGIN" /\ resp' = i /\ pc' = "handle"
            /\ app' = [app EXCEPT ![i] = "asked"] /\ connects' = 0 /\ replies' = replies
            /\ threw' = threw
         \/ /\ state' \in {"READING_HEADERS", "HANDLING_HIXIE_WEBSOCKET"} /\ wsHandler'
            /\ pc' = "onConnect" /\ connects' = 1 /\ UNCHANGED <<resp, app, threw>>
         \/ /\ Stuck' /\ state' = state /\ pc' = "idle" /\ connects' = 0
            /\ UNCHANGED <<resp, app>> /\ threw' = threw \cup {i}
            /\ state = "READING_WEBSOCKET_KEY3" => wsHandler'
         \/ /\ state' \in {"BUFFERING_POST_DATA", "READING_WEBSOCKET_KEY3"}
            /\ state' = "READING_WEBSOCKET_KEY3" => wsHandler'
            /\ pc' \in {"parse", "idle"} /\ connects' = 0 /\ replies' = replies
            /\ Defers(n) /\ UNCHANGED <<resp, app, threw>>
    <2>1. CASE Answers(n)
      BY <1>6, <2>1 DEF Answers
    <2>2. CASE Asks(n)
      BY <1>6, <2>2 DEF Asks, i
    <2>3. CASE Connects(n)
      BY <1>6, <2>3 DEF Connects
    <2>4. CASE Halves(n)
      BY <1>6, <1>12, <2>4 DEF Halves, i
    <2>5. CASE Defers(n)
      BY <1>6, <2>5 DEF Defers
    <2> QED BY <1>1, <2>1, <2>2, <2>3, <2>4, <2>5 DEF Handles
  <1>18. TypeOK'
    <2>1. again' \in BOOLEAN
      BY <1>0, <1>1 DEF Handles, Answers, Asks, Connects, Halves, Defers, TypeOK
    <2>2. threw' \subseteq Requests /\ resp' \in Requests \cup {Nobody} /\ connects' \in Nat
      BY <1>0, <1>5, <1>8, <1>17 DEF TypeOK
    <2>3. decoded' \in 0..Len(inBuf')
      <3>1. inBuf' \in Seq(Tokens)
        BY <1>16
      <3>2. Len(inBuf') \in Nat
        BY <3>1
      <3> QED BY <1>9, <3>2
    <2>4. /\ state' \in Responding \cup WebSocketStates \cup
                {"READING_HEADERS", "READING_WEBSOCKET_KEY3", "BUFFERING_POST_DATA"}
          /\ pc' \in {"idle", "parse", "handle", "onConnect", "onData"}
      BY <1>2, <1>17 DEF Responding, WebSocketStates
    <2>5. app' \in [Requests -> {"none", "asked", "begun", "done", "cancelled"}]
      BY <1>0, <1>5, <1>17 DEF TypeOK
    <2> QED BY <1>0, <1>1, <1>2, <1>13, <1>15, <1>16, <2>1, <2>2, <2>3, <2>4, <2>5
            DEF TypeOK, client, frameHistory, OutputStep, OutputOK, OutStates, Replies, Words
  <1>19. ResponseMatchesState' /\ WriterInStep'
    <2>1. open' = open
      BY <1>1
    <2> QED BY <1>0, <1>2, <1>5, <1>8, <1>17, <2>1
            DEF TypeOK, ResponseMatchesState, WriterInStep, Responding, Nobody
  <1>20. SocketInStep'
    <2>1. Front' = 1 => inBuf' # <<>> /\ inBuf'[1].is \in RequestKinds
      <3> SUFFICES ASSUME Front' = 1 PROVE inBuf' # <<>> /\ inBuf'[1].is \in RequestKinds
        OBVIOUS
      <3>1. m = 0 /\ pc' # "idle"
        BY <1>16 DEF Front
      <3>2. inBuf' = inBuf /\ inBuf[1].is \in RequestKinds
        BY <1>16, <3>1 DEF Halves, Live
      <3> QED BY <1>3, <3>2
    <2>2. open' = open /\ disconnects' = disconnects /\ wsHandler' \in BOOLEAN
      BY <1>1
    <2>3. disconnects = 0
      BY <1>0, <1>2 DEF Machine, SocketInStep
    <2>4. pc' # "onData" /\ (pc' = "handle" => state' = "AWAITING_RESPONSE_BEGIN")
      BY <1>17
    <2>5. pc' = "onConnect" =>
             connects' = 1 /\ state' \in {"READING_HEADERS", "HANDLING_HIXIE_WEBSOCKET"}
      BY <1>17
    <2>6. /\ connects' = 1 => wsHandler' /\ state' \in WebSocketStates \cup {"READING_HEADERS"}
          /\ state' \in WebSocketStates => connects' = 1
      BY <1>2, <1>17 DEF WebSocketStates
    <2>7. state' = "READING_WEBSOCKET_KEY3" => wsHandler'
      BY <1>17
    <2> QED BY <1>2, <1>9, <1>14, <2>1, <2>2, <2>3, <2>4, <2>5, <2>6, <2>7
            DEF SocketInStep, Responding
  <1>21. Numbered' /\ InOrder'
    <2>1. \A r \in 1..Len(replies') : replies'[r].id <= Len(asked)
      BY <1>0, <1>3, <1>5, <1>15 DEF Ordered, Numbered
    <2>2. AllGivenOut' /\ InOrder'
      BY <1>0, <1>3, <1>9, <1>16, StreamKeepsOrder DEF Ordered, Numbered, AllGivenOut
    <2>3. resp' <= Len(asked)
      BY <1>3, <1>5, <1>8, <1>17 DEF Nobody
    <2> QED BY <1>0, <1>9, <2>1, <2>2, <2>3 DEF Ordered, Numbered, AllGivenOut
  <1>22. Unreplied'
    <2> SUFFICES ASSUME Live' PROVE Unreplied'
      BY DEF Unreplied
    <2>1. ASSUME NEW j \in 1..Len(Stream'), j > Front', Stream'[j].is \in RequestKinds
          PROVE  RepliedNext(Stream'[j].id) /\ resp' < Stream'[j].id /\ connects' = 0
      <3>1. PICK k \in 1..Len(Stream) : k > n /\ Worn(Stream[k], Stream'[j])
        <4>1. j + m \in 1..Len(Stream) /\ Worn(Stream[j + m], Stream'[j])
          BY <1>16 DEF Shrinks
        <4>2. j + m > n
          <5>1. CASE m = n
            <6>1. j \in Nat /\ j >= 1 /\ n \in Nat
              BY <1>3
            <6>2. j + n > n
              BY <6>1
            <6> QED BY <5>1, <6>2, Zenon
          <5>2. CASE m = 0
            <6>1. ~Halves(n)
              <7>1. Halves(n) => Len(Stream') = 1
                BY <1>12
              <7>2. Len(Stream') = 1 => j = 1
                OBVIOUS
              <7> QED BY <1>12, <2>1, <7>1, <7>2
            <6>2. n = 1 /\ Front' = 1
              BY <1>16, <5>2, <6>1
            <6> QED BY <2>1, <5>2, <6>2
          <5> QED BY <5>1, <5>2
        <4> QED BY <4>1, <4>2
      <3>2. Stream[k].is \in RequestKinds /\ Stream'[j].id = Stream[k].id
        BY <2>1, <3>1 DEF Worn, RequestKinds
      <3>3. Stream[k].id \in Nat \ {0}
        BY <1>0, IdsAreNumbers DEF Ordered
      <3>4. i < Stream[k].id
        <4>1. Follows(Stream[n], Stream[k])
          BY <1>0, <1>3, <3>1 DEF Ordered, InOrder
        <4>2. ~IsFrame(Stream[k]) /\ ~IsPart(Stream[k])
          BY <3>2, FrameKindsAssumption DEF IsFrame, IsPart, RequestKinds
        <4> QED BY <1>4, <1>5, <3>3, <4>1, <4>2 DEF Follows
      <3>5. RepliedBefore(Stream[k].id)
        BY <1>0, <1>2, <1>3, <3>1, <3>2 DEF Ordered, Unreplied
      <3>6. ~Connects(n)
        BY <1>3, <1>10, <3>1
      <3>7. resp' \in {Nobody, i}
        BY <1>8, <1>17
      <3> QED BY <1>5, <1>14, <1>15, <3>2, <3>3, <3>4, <3>5, <3>6, <3>7 DEF Nobody
    <2>2. \A k \in Requests : app'[k] = "asked" => RepliedNext(k)
      <3>1. ASSUME NEW k \in Requests, app'[k] = "asked" PROVE RepliedNext(k)
        <4>1. k = i /\ replies' = replies
          BY <1>0, <1>5, <1>8, <1>17, <3>1 DEF TypeOK
        <4> QED BY <1>7, <4>1 DEF RepliedBefore, RepliedNext
      <3> QED BY <3>1
    <2>3. ASSUME state' \in {"BUFFERING_POST_DATA", "READING_WEBSOCKET_KEY3"}, ~Stuck',
                 Len(Stream') > 0, ~IsFrame(Stream'[1])
          PROVE  RepliedNext(Stream'[1].id)
      <3>1. Defers(n) /\ replies' = replies /\ pc' \in {"parse", "idle"}
        BY <1>17, <2>3
      <3>2. m = n
        <4>1. ~Halves(n)
          BY <1>12, <2>3
        <4>2. ~Asks(n) /\ ~Connects(n)
          BY <3>1 DEF Asks, Connects
        <4> QED BY <1>16, <4>1, <4>2
      <3>3. n + 1 \in 1..Len(Stream) /\ Worn(Stream[n + 1], Stream'[1])
        <4>1. 1 \in 1..Len(Stream') /\ 1 + n = n + 1
          <5>1. Len(Stream') = Len(Stream) - n
            BY <1>16, <3>2 DEF Shrinks
          <5> QED BY <1>3, <2>3, <5>1
        <4> QED BY <1>16, <3>2, <4>1 DEF Shrinks
      <3>4. ~IsFrame(Stream[n + 1]) /\ Stream'[1].id = Stream[n + 1].id
        BY <2>3, <3>3 DEF Worn, IsFrame
      <3>5. i <= Stream[n + 1].id /\ Stream[n + 1].id \in Nat
        <4>1. Follows(Stream[n], Stream[n + 1])
          BY <1>0, <1>3, <3>3 DEF Ordered, InOrder
        <4>2. Stream[n + 1].id \in Nat \ {0}
          BY <1>0, <3>3, IdsAreNumbers DEF Ordered
        <4> QED BY <1>4, <1>5, <3>4, <4>1, <4>2 DEF Follows
      <3>6. \A r \in 1..Len(replies) : replies[r].id \in Nat
        BY <1>0, ReplyType
      <3> QED BY <1>5, <1>7, <3>1, <3>4, <3>5, <3>6 DEF RepliedBefore, RepliedNext
    <2> QED BY <2>1, <2>2, <2>3 DEF Unreplied, RepliedBefore, RepliedNext, IsFrame
  <1>23. ClientWaits'
    <2>1. \A k \in 1..Len(asked) - 1 : asked[k] \in UpgradeKinds =>
             \E r \in 1..Len(replies') : replies'[r].id = k /\ replies'[r].is # "half"
      BY <1>0, <1>15 DEF Ordered, ClientWaits
    <2>2. ~(frames > 0)
      BY <1>0, <1>6 DEF Ordered, ClientWaits
    <2>3. connects' = 1 => NoMore'
      BY <1>11, <1>14
    <2> QED BY <1>9, <2>1, <2>2, <2>3 DEF ClientWaits
  <1>24. FramesOnce' /\ Undelivered'
    <2>1. Len(delivered) = 0 /\ kept \in Nat /\ kept <= Len(delivered)
      BY <1>0, <1>8 DEF Ordered, Undelivered, TypeOK
    <2> QED BY <1>8, <1>9, <2>1 DEF FramesOnce, Undelivered
  <1> QED BY <1>15, <1>18, <1>19, <1>20, <1>21, <1>22, <1>23, <1>24 DEF IInv, Machine, Ordered

-----------------------------------------------------------------------------
(* Steps that add to the stream.                                             *)

(* The stream with p at its end.                                             *)
Grown(p) ==
    /\ Len(Stream') = Len(Stream) + Len(p)
    /\ \A j \in 1..Len(Stream) : Stream'[j] = Stream[j]
    /\ \A j \in 1..Len(Stream') : j \notin 1..Len(Stream) =>
          j - Len(Stream) \in 1..Len(p) /\ Stream'[j] = p[j - Len(Stream)]

(* What is written to the wire is that end.                                  *)
LEMMA StreamGrows ==
    ASSUME TypeOK, NEW p \in Seq(Tokens), inBuf' = inBuf, wire' = wire \o p
    PROVE  wire' \in Seq(Tokens) /\ Grown(p)
  <1>1. inBuf \in Seq(Tokens) /\ wire \in Seq(Tokens)
    BY DEF TypeOK
  <1>2. wire' \in Seq(Tokens)
    BY <1>1, ConcatProperties
  <1>3. Stream' = Stream \o p
    <2>1. \A x, y, z \in Seq(Tokens) : (x \o y) \o z = x \o (y \o z)
      BY ConcatAssociative
    <2> QED BY <1>1, <2>1, Zenon DEF Stream
  <1>4. Stream \in Seq(Tokens) /\ Len(Stream) \in Nat /\ Len(p) \in Nat
    BY StreamType
  <1>5. /\ Len(Stream \o p) = Len(Stream) + Len(p)
        /\ \A j \in 1..Len(Stream) + Len(p) :
              (Stream \o p)[j] = IF j <= Len(Stream) THEN Stream[j] ELSE p[j - Len(Stream)]
    BY <1>4, ConcatProperties
  <1>6. Grown(p)
    BY <1>3, <1>4, <1>5 DEF Grown
  <1> QED BY <1>2, <1>6

(* What the client adds: a frame on its WebSocket, or a request when it does *)
(* not wait for one.                                                         *)
AddsFrame(p) ==
    /\ asked' = asked /\ frames' = frames + 1 /\ connects = 1
    /\ \A j \in 1..Len(p) : IsFrame(p[j]) /\ p[j].id = frames + 1

AddsRequest(p) ==
    /\ frames' = frames /\ asked' \in Seq(Kinds)
    /\ Len(asked') = Len(asked) + 1 /\ Len(asked') <= MaxRequests
    /\ \A i \in 1..Len(asked) : asked'[i] = asked[i]
    /\ ~NoMore
    /\ \A i \in 1..Len(asked) : asked[i] \in UpgradeKinds =>
          \E r \in 1..Len(replies) : replies[r].id = i /\ replies[r].is # "half"
    /\ \A j \in 1..Len(p) :
          /\ ~IsFrame(p[j]) /\ p[j].id = Len(asked) + 1
          /\ p[j].is \in RequestKinds => asked'[p[j].id] = p[j].is
          /\ p[j].is = "body" => asked'[p[j].id] = "post"
          /\ p[j].is = "key3" => asked'[p[j].id] = "hixie"

(* New parts have the next number of their kind, so all stays in order.      *)
LEMMA GrowthKeepsOrder ==
    ASSUME Machine, Ordered, NEW p \in Seq(Tokens), Grown(p), AddsFrame(p) \/ AddsRequest(p),
           \A j, k \in 1..Len(p) : j < k => Follows(p[j], p[k]),
           UNCHANGED <<inBuf, decoded, state, resp, output, pc, again, app, replies,
                       frameHistory, connects>>
    PROVE  Ordered'
  <1>1. /\ frames \in Nat /\ Len(asked) \in Nat /\ Len(Stream) \in Nat /\ Len(p) \in Nat
        /\ resp \in Nat /\ TypeOK /\ Len(inBuf) \in Nat /\ Len(Stream) >= Len(inBuf)
        /\ frames' \in Nat /\ frames <= frames' /\ Len(asked') \in Nat /\ Len(asked) <= Len(asked')
        /\ Len(asked') <= MaxRequests /\ MaxRequests \in Nat
    <2>1. TypeOK /\ Len(asked) <= MaxRequests
      BY DEF Machine, Ordered, Numbered
    <2>2. /\ Len(Stream) \in Nat /\ Len(inBuf) \in Nat /\ Len(Stream) >= Len(inBuf)
      <3>1. wire \in Seq(Tokens)
        BY <2>1 DEF TypeOK
      <3>2. Len(wire) \in Nat
        BY <3>1
      <3> QED BY <2>1, <3>2, StreamType
    <2>3. resp \in Nat /\ frames \in Nat /\ Len(asked) \in Nat /\ MaxRequests \in Nat
      BY <2>1, BoundsAssumption DEF TypeOK, Requests, Nobody
    <2> QED BY <2>1, <2>2, <2>3 DEF AddsFrame, AddsRequest
  <1>2. ASSUME NEW j \in 1..Len(Stream')
        PROVE  \/ j \in 1..Len(Stream) /\ Stream'[j] = Stream[j]
               \/ /\ j \notin 1..Len(Stream) /\ j > Len(Stream)
                  /\ j - Len(Stream) \in 1..Len(p) /\ Stream'[j] = p[j - Len(Stream)]
    BY <1>1 DEF Grown
  <1>3. \A j \in 1..Len(Stream) : GivenOut(Stream[j])
    BY DEF Ordered, Numbered
  <1>4. ASSUME NEW j \in 1..Len(p)
        PROVE  /\ p[j].id = IF IsFrame(p[j]) THEN frames + 1 ELSE Len(asked) + 1
               /\ IsFrame(p[j]) => AddsFrame(p)
               /\ ~IsFrame(p[j]) => AddsRequest(p)
    BY DEF AddsFrame, AddsRequest
  <1>5. UNCHANGED <<inBuf, decoded, state, resp, out, closeOnEmpty, shutdown, pc, again, app,
                    replies, delivered, kept, threwAt, connects>>
    BY DEF output, frameHistory
  <1>6. AddsRequest(p) => connects = 0
    BY DEF AddsRequest, Ordered, ClientWaits, Machine, SocketInStep
  <1>7. ~Stuck
    BY DEF AddsFrame, AddsRequest, Stuck
  <1>8. Front' = Front /\ (Live' <=> Live) /\ (Accepts' <=> Accepts)
    BY <1>5 DEF Front, Live, Accepts
  <1>9. /\ \A d \in 1..Len(delivered) : delivered[d] \in Nat /\ delivered[d] <= frames
        /\ \A r \in 1..Len(replies) : replies[r].id \in Nat /\ replies[r].id <= Len(asked)
        /\ Len(delivered) \in Nat /\ kept \in Nat
    <2>1. \A d \in 1..Len(delivered) : delivered[d] \in Nat
      BY <1>1, ElementOfSeq DEF TypeOK
    <2> QED BY <1>1, <2>1, ReplyType DEF Ordered, Numbered, TypeOK
  <1>10. Numbered'
    <2>1. ASSUME NEW t, GivenOut(t) PROVE GivenOut(t)'
      <3>1. IsFrame(t)' <=> IsFrame(t)
        BY DEF IsFrame
      <3>2. t.id \in 1..Len(asked) => t.id \in 1..Len(asked') /\ asked'[t.id] = asked[t.id]
        BY <1>1 DEF AddsFrame, AddsRequest
      <3>3. t.id \in 1..frames => t.id \in 1..frames'
        BY <1>1
      <3> QED BY <2>1, <3>1, <3>2, <3>3 DEF GivenOut
    <2>2. ASSUME NEW j \in 1..Len(p) PROVE GivenOut(p[j])'
      BY <1>1, <1>4 DEF GivenOut, AddsFrame, AddsRequest, IsFrame
    <2>3. ASSUME NEW j \in 1..Len(Stream') PROVE GivenOut(Stream[j])'
      <3>1. CASE j \in 1..Len(Stream) /\ Stream'[j] = Stream[j]
        <4>1. GivenOut(Stream[j])
          BY <1>3, <3>1
        <4> DEFINE t == Stream[j]
        <4>2. GivenOut(t) /\ t = Stream'[j]
          BY <3>1, <4>1
        <4> QED BY <2>1, <3>1, <4>1 DEF GivenOut, IsFrame
      <3>2. CASE j - Len(Stream) \in 1..Len(p) /\ Stream'[j] = p[j - Len(Stream)]
        BY <2>2, <3>2 DEF GivenOut, IsFrame
      <3> QED BY <1>2, <3>1, <3>2
    <2>4. \A r \in 1..Len(replies) : replies[r].id <= Len(asked')
      BY <1>1, <1>9
    <2>5. \A d \in 1..Len(delivered) : delivered[d] <= frames'
      BY <1>1, <1>9
    <2>6. resp <= Len(asked')
      BY <1>1 DEF Ordered, Numbered
    <2> QED BY <1>1, <1>5, <2>3, <2>4, <2>5, <2>6 DEF Numbered
  <1>11. InOrder'
    <2>1. ASSUME NEW j \in 1..Len(Stream'), NEW k \in 1..Len(Stream'), j < k
          PROVE  Follows(Stream'[j], Stream'[k])
      <3>1. CASE k \in 1..Len(Stream)
        <4>1. j \in 1..Len(Stream)
          BY <1>1, <2>1, <3>1
        <4> QED BY <1>2, <2>1, <3>1, <4>1 DEF Ordered, InOrder
      <3>2. CASE k \notin 1..Len(Stream) /\ j \in 1..Len(Stream)
        <4>1. k - Len(Stream) \in 1..Len(p) /\ Stream'[k] = p[k - Len(Stream)]
          BY <1>2, <3>2
        <4>2. Stream'[j] = Stream[j] /\ GivenOut(Stream[j])
          BY <1>2, <1>3, <3>2
        <4>3. /\ IsFrame(Stream[j]) => Stream[j].id \in 1..frames
              /\ ~IsFrame(Stream[j]) => Stream[j].id \in 1..Len(asked)
          BY <4>2 DEF GivenOut
        <4>4. Stream'[k].id = IF IsFrame(Stream'[k]) THEN frames + 1 ELSE Len(asked) + 1
          BY <1>4, <4>1
        <4> QED BY <1>1, <4>2, <4>3, <4>4 DEF Follows
      <3>3. CASE k \notin 1..Len(Stream) /\ j \notin 1..Len(Stream)
        <4>1. /\ k - Len(Stream) \in 1..Len(p) /\ Stream'[k] = p[k - Len(Stream)]
              /\ j - Len(Stream) \in 1..Len(p) /\ Stream'[j] = p[j - Len(Stream)]
          BY <1>2, <3>3
        <4>2. j - Len(Stream) < k - Len(Stream)
          BY <1>1, <2>1
        <4> QED BY <4>1, <4>2
      <3> QED BY <3>1, <3>2, <3>3
    <2> QED BY <2>1 DEF InOrder, Follows, IsFrame, IsPart
  <1>12. RepliesInOrder' /\ FramesOnce'
    BY <1>5 DEF Ordered, RepliesInOrder, FramesOnce
  <1>13. LastReply'
    BY <1>5, <1>7, <1>8 DEF Ordered, LastReply
  <1>14. Unreplied'
    <2> SUFFICES ASSUME Live' PROVE Unreplied'
      BY DEF Unreplied
    <2>1. Live
      BY <1>8
    <2>2. RepliedBefore(Len(asked) + 1) /\ resp < Len(asked) + 1
      BY <1>1, <1>9 DEF RepliedBefore, Ordered, Numbered
    <2>3. ASSUME NEW j \in 1..Len(Stream'), j > Front, Stream'[j].is \in RequestKinds
          PROVE  RepliedBefore(Stream'[j].id) /\ resp < Stream'[j].id /\ connects = 0
      <3>1. CASE j \in 1..Len(Stream) /\ Stream'[j] = Stream[j]
        BY <2>1, <2>3, <3>1 DEF Ordered, Unreplied
      <3>2. CASE j - Len(Stream) \in 1..Len(p) /\ Stream'[j] = p[j - Len(Stream)]
        <4>1. ~IsFrame(Stream'[j])
          BY <2>3, FrameKindsAssumption DEF IsFrame, RequestKinds
        <4> QED BY <1>4, <1>6, <2>2, <3>2, <4>1
      <3> QED BY <1>2, <3>1, <3>2
    <2>4. ASSUME state \in {"BUFFERING_POST_DATA", "READING_WEBSOCKET_KEY3"},
                 Len(Stream') > 0, ~IsFrame(Stream'[1])
          PROVE  RepliedBefore(Stream'[1].id)
      <3>0. 1 \in 1..Len(Stream')
        BY <1>1, <2>4 DEF Grown
      <3>1. CASE 1 \in 1..Len(Stream) /\ Stream'[1] = Stream[1]
        BY <1>1, <1>7, <2>1, <2>4, <3>1 DEF Ordered, Unreplied
      <3>2. CASE 1 - Len(Stream) \in 1..Len(p) /\ Stream'[1] = p[1 - Len(Stream)]
        BY <1>4, <2>2, <2>4, <3>2
      <3> QED BY <1>2, <3>0, <3>1, <3>2
    <2>5. \A i \in Requests : app[i] = "asked" => RepliedBefore(i)
      BY <2>1 DEF Ordered, Unreplied
    <2>6. \A i : RepliedBefore(i)' <=> RepliedBefore(i)
      BY <1>5 DEF RepliedBefore
    <2> QED BY <1>5, <1>8, <2>3, <2>4, <2>5 DEF Unreplied, RepliedBefore, IsFrame
  <1>15. ClientWaits'
    <2>1. CASE AddsFrame(p)
      <3>1. UNCHANGED <<asked, replies>>
        BY <1>5, <2>1 DEF AddsFrame
      <3>2. NoMore' <=> NoMore
        BY <3>1, SameReplies
      <3> QED BY <1>5, <2>1, <3>1, <3>2, Zenon DEF AddsFrame, Ordered, ClientWaits
    <2>2. CASE AddsRequest(p)
      <3>1. \A i \in 1..Len(asked') - 1 : asked'[i] \in UpgradeKinds =>
               \E r \in 1..Len(replies) : replies[r].id = i /\ replies[r].is # "half"
        BY <1>1, <2>2 DEF AddsRequest
      <3>2. connects = 0 /\ frames' = frames
        BY <1>6, <2>2 DEF AddsRequest
      <3>3. ~(frames > 0)
        BY <3>2 DEF Ordered, ClientWaits
      <3> QED BY <1>5, <3>1, <3>2, <3>3 DEF ClientWaits
    <2> QED BY <2>1, <2>2
  <1>16. Undelivered'
    <2>1. ASSUME NEW j \in 1..Len(Stream'), IsFrame(Stream'[j])
          PROVE  /\ j > Len(inBuf) => \A d \in 1..Len(delivered) : delivered[d] < Stream'[j].id
                 /\ \A d \in 1..kept : delivered[d] < Stream'[j].id
                 /\ Live /\ delivered # <<>> /\ Len(delivered) \notin threwAt /\ decoded < j
                      => delivered[Len(delivered)] < Stream'[j].id
      <3>1. CASE j \in 1..Len(Stream) /\ Stream'[j] = Stream[j]
        BY <2>1, <3>1 DEF Ordered, Undelivered
      <3>2. CASE j - Len(Stream) \in 1..Len(p) /\ Stream'[j] = p[j - Len(Stream)]
        <4>1. \A d \in 1..Len(delivered) : delivered[d] < Stream'[j].id
          <5>1. Stream'[j].id = frames + 1
            BY <1>4, <2>1, <3>2
          <5> QED BY <1>1, <1>9, <5>1
        <4>2. kept <= Len(delivered)
          BY DEF Ordered, Undelivered
        <4>3. delivered # <<>> => Len(delivered) \in 1..Len(delivered)
          BY <1>1, <1>9 DEF TypeOK
        <4> QED BY <1>9, <4>1, <4>2, <4>3
      <3> QED BY <1>2, <3>1, <3>2
    <2>2. kept <= Len(delivered)
      BY DEF Ordered, Undelivered
    <2> QED BY <1>5, <1>8, <2>1, <2>2 DEF Undelivered, IsFrame
  <1> QED BY <1>10, <1>11, <1>12, <1>13, <1>14, <1>15, <1>16 DEF Ordered

(* What a request looks like on the wire.                                    *)
LEMMA PartsOfRequest ==
    ASSUME NEW kind \in RequestKinds, NEW i \in Nat
    PROVE  /\ Parts(kind, i) \in Seq(Tokens) /\ Len(Parts(kind, i)) \in {1, 2}
           /\ \A j \in 1..Len(Parts(kind, i)) :
                 /\ ~IsFrame(Parts(kind, i)[j]) /\ Parts(kind, i)[j].id = i
                 /\ Parts(kind, i)[j].is \in RequestKinds => Parts(kind, i)[j].is = kind
                 /\ Parts(kind, i)[j].is = "body" => kind = "post"
                 /\ Parts(kind, i)[j].is = "key3" => kind = "hixie"
           /\ \A j, k \in 1..Len(Parts(kind, i)) :
                 j < k => Follows(Parts(kind, i)[j], Parts(kind, i)[k])
  <1> DEFINE p == Parts(kind, i)
             Part(t) == /\ t.id = i /\ ~IsFrame(t)
                        /\ t.is \in RequestKinds => t.is = kind
                        /\ t.is = "body" => kind = "post"
                        /\ t.is = "key3" => kind = "hixie"
  <1>1. PICK a, b \in Tokens :
           /\ Part(a) /\ ~IsPart(a)
           /\ p = <<a>> \/ (p = <<a, b>> /\ Part(b) /\ IsPart(b))
    <2>1. /\ [is |-> kind, id |-> i] \in Tokens /\ [is |-> "body", id |-> i] \in Tokens
          /\ [is |-> "key3", id |-> i] \in Tokens
      BY DEF Tokens
    <2>2. /\ kind \notin FrameKinds \cup {"cut", "body", "key3"}
          /\ {"body", "key3"} \cap (FrameKinds \cup RequestKinds \cup {"cut"}) = {}
      BY FrameKindsAssumption DEF RequestKinds
    <2>3. CASE kind = "post"
      <3>1. p = <<[is |-> kind, id |-> i], [is |-> "body", id |-> i]>>
        BY <2>3 DEF Parts
      <3> QED BY <2>1, <2>2, <2>3, <3>1 DEF IsFrame, IsPart
    <2>4. CASE kind = "hixie"
      <3>1. p = <<[is |-> kind, id |-> i], [is |-> "key3", id |-> i]>>
        BY <2>4 DEF Parts
      <3> QED BY <2>1, <2>2, <2>4, <3>1 DEF IsFrame, IsPart
    <2>5. CASE kind \notin {"post", "hixie"}
      <3> DEFINE a == [is |-> kind, id |-> i]
      <3>1. p = <<a>>
        BY <2>5 DEF Parts
      <3>2. a \in Tokens /\ Part(a) /\ ~IsPart(a)
        BY <2>1, <2>2 DEF IsFrame, IsPart
      <3> HIDE DEF a, p
      <3> QED BY <2>5, <3>1, <3>2
    <2> QED BY <2>3, <2>4, <2>5
  <1> HIDE DEF p, Part
  <1>4. /\ p \in Seq(Tokens) /\ Len(p) \in {1, 2}
        /\ \A j \in 1..Len(p) : Part(p[j])
        /\ \A j, k \in 1..Len(p) : j < k => Follows(p[j], p[k])
    <2>1. CASE p = <<a>>
      BY <1>1, <2>1
    <2>2. CASE p = <<a, b>> /\ Part(b) /\ IsPart(b)
      <3>1. p \in Seq(Tokens) /\ Len(p) = 2 /\ p[1] = a /\ p[2] = b
        BY <2>2
      <3>2. Follows(a, b)
        <4>1. a.id = b.id /\ a.id \in Nat /\ ~IsFrame(a) /\ ~IsFrame(b)
          BY <1>1, <2>2 DEF Part
        <4> QED BY <1>1, <2>2, <4>1 DEF Follows
      <3>3. 1..Len(p) = {1, 2}
        BY <3>1
      <3> QED BY <1>1, <3>1, <3>2, <3>3
    <2> QED BY <1>1, <2>1, <2>2
  <1> QED BY <1>4 DEF p, Part

(* The client.                                                               *)
LEMMA ClientStep ==
    ASSUME IInv, Client
    PROVE  IInv'
  <1>0. Machine /\ Ordered /\ TypeOK /\ frames \in Nat /\ Len(asked) \in Nat
    BY DEF IInv, Machine, TypeOK
  <1>1. UNCHANGED <<inBuf, decoded, machine, output, pc, again, app, replies, history>>
    BY DEF Client, ClientRequests, ClientSendsFrame, ClientHangsUp
  <1>2. ASSUME TypeOK', Ordered' PROVE IInv'
    <2>1. ResponseMatchesState' /\ WriterInStep' /\ SocketInStep'
      BY <1>0, <1>1 DEF Machine, ResponseMatchesState, WriterInStep, SocketInStep, machine,
                        history, Front
    <2> QED BY <1>2, <2>1 DEF IInv, Machine
  <1>3. ASSUME NEW kind \in Kinds, ClientRequests(kind) PROVE IInv'
    <2> DEFINE p == Parts(kind, Len(asked) + 1)
    <2>1. /\ Len(asked) < MaxRequests /\ asked' = Append(asked, kind)
          /\ patient' = (patient /\ AllAnswered) /\ wire' = wire \o p
          /\ UNCHANGED <<frames, hungUp>> /\ ~Upgraded /\ MaySend
      BY <1>3 DEF ClientRequests
    <2>2. /\ p \in Seq(Tokens)
          /\ \A j \in 1..Len(p) :
                /\ ~IsFrame(p[j]) /\ p[j].id = Len(asked) + 1
                /\ p[j].is \in RequestKinds => p[j].is = kind
                /\ p[j].is = "body" => kind = "post"
                /\ p[j].is = "key3" => kind = "hixie"
          /\ \A j, k \in 1..Len(p) : j < k => Follows(p[j], p[k])
      BY <1>0, PartsOfRequest, KindsAssumption
    <2> HIDE DEF p
    <2>3. wire' \in Seq(Tokens) /\ Grown(p)
      BY <1>0, <1>1, <2>1, <2>2, StreamGrows
    <2>4. /\ asked' \in Seq(Kinds) /\ Len(asked') = Len(asked) + 1 /\ Len(asked') <= MaxRequests
          /\ \A i \in 1..Len(asked) : asked'[i] = asked[i]
          /\ asked'[Len(asked) + 1] = kind
      BY <1>0, <2>1, BoundsAssumption DEF TypeOK
    <2>5. patient' \in BOOLEAN
      BY <2>1, <1>0, Zenon DEF TypeOK, AllAnswered
    <2>6. TypeOK'
      BY <1>0, <1>1, <2>1, <2>3, <2>4, <2>5 DEF TypeOK, machine, output, history, frameHistory
    <2>7. \A i \in 1..Len(asked) : asked[i] \in UpgradeKinds =>
             \E r \in 1..Len(replies) : replies[r].id = i /\ replies[r].is # "half"
      BY <2>1 DEF MaySend, Answered
    <2>8. ~NoMore
      BY <2>1, <2>7 DEF NoMore
    <2>9. AddsRequest(p)
      BY <2>1, <2>2, <2>4, <2>7, <2>8 DEF AddsRequest
    <2>10. UNCHANGED <<inBuf, decoded, state, resp, output, pc, again, app, replies,
                       frameHistory, connects>>
      BY <1>1 DEF machine, history
    <2>11. Ordered'
      BY <1>0, <2>2, <2>3, <2>9, <2>10, GrowthKeepsOrder
    <2> QED BY <1>2, <2>6, <2>11
  <1>4. ASSUME NEW kind \in FrameKinds, ClientSendsFrame(kind) PROVE IInv'
    <2> DEFINE t == [is |-> kind, id |-> frames + 1]
               p == <<t>>
    <2>1. /\ frames' = frames + 1 /\ wire' = Append(wire, t) /\ hungUp' = (kind = "close")
          /\ UNCHANGED <<asked, patient>> /\ Upgraded
      BY <1>4 DEF ClientSendsFrame
    <2>2. t \in Tokens /\ t.id = frames + 1 /\ IsFrame(t)
      BY <1>0 DEF Tokens, IsFrame
    <2> HIDE DEF t
    <2>3. p \in Seq(Tokens) /\ Len(p) = 1 /\ p[1] = t /\ wire' = wire \o p
      BY <1>0, <2>1, <2>2 DEF TypeOK
    <2> HIDE DEF p
    <2>4. wire' \in Seq(Tokens) /\ Grown(p)
      BY <1>0, <1>1, <2>3, StreamGrows
    <2>5. TypeOK'
      BY <1>0, <1>1, <2>1, <2>4 DEF TypeOK, machine, output, history, frameHistory
    <2>6. /\ \A j \in 1..Len(p) : IsFrame(p[j]) /\ p[j].id = frames + 1
          /\ \A j, k \in 1..Len(p) : ~(j < k)
      BY <2>2, <2>3
    <2>7. connects = 1
      BY <1>0, <2>1 DEF Upgraded, Ordered, LastReply
    <2>8. AddsFrame(p)
      BY <2>1, <2>6, <2>7 DEF AddsFrame
    <2>9. UNCHANGED <<inBuf, decoded, state, resp, output, pc, again, app, replies,
                      frameHistory, connects>>
      BY <1>1 DEF machine, history
    <2>10. Ordered'
      BY <1>0, <2>3, <2>4, <2>6, <2>8, <2>9, GrowthKeepsOrder
    <2> QED BY <1>2, <2>5, <2>10
  <1>5. CASE ClientHangsUp
    <2>1. hungUp' = TRUE /\ UNCHANGED <<asked, frames, patient, wire>>
      BY <1>5 DEF ClientHangsUp
    <2>2. TypeOK'
      BY <1>0, <1>1, <2>1 DEF TypeOK, machine, output, history, frameHistory
    <2>3. Front' = Front /\ Stream' = Stream
      BY <1>1, <2>1 DEF Front, Stream
    <2>4. Quiet(0)
      <3>1. Len(inBuf) \in Nat /\ decoded \in Nat /\ Len(Stream) \in Nat /\ Shrinks(0)
        BY <1>0, <2>3, StreamType, StreamStays DEF TypeOK
      <3>2. (Accepts' => Accepts) /\ (Live' => Live)
        BY <1>1 DEF output, Accepts, Live
      <3>3. \A j \in 1..Len(Stream') : j > Front' => j + 0 > Front
        BY <2>3, <3>1 DEF Front
      <3> QED BY <1>1, <2>1, <2>3, <3>1, <3>2, <3>3 DEF Quiet, machine, history, frameHistory
    <2> QED BY <1>0, <1>2, <2>2, <2>4, QuietKeepsOrder
  <1> QED BY <1>3, <1>4, <1>5 DEF Client

(* read().                                                                   *)
LEMMA ReadStep ==
    ASSUME IInv, DataReadyForRead
    PROVE  IInv'
  <1>0. Machine /\ Ordered /\ TypeOK
    BY DEF IInv, Machine
  <1>1. /\ Stream' = Stream /\ inBuf' \in Seq(Tokens) /\ wire' \in Seq(Tokens)
        /\ Len(inBuf') \in Nat /\ Len(inBuf) <= Len(inBuf') /\ Len(inBuf) \in Nat
    BY <1>0, StreamIsRead, StreamType
  <1>2. /\ pc = "idle" /\ pc' = "parse" /\ open /\ ~shutdown /\ wire # <<>>
        /\ UNCHANGED <<asked, frames, patient, hungUp, decoded, machine, output, again, app,
                       replies, history>>
    BY DEF DataReadyForRead, MayRead
  <1>3. decoded = 0 /\ Live /\ ~Stuck /\ Front = 0 /\ Front' = 0
    BY <1>0, <1>2 DEF Machine, SocketInStep, Live, Stuck, Front
  <1>4. TypeOK'
    BY <1>0, <1>1, <1>2, <1>3 DEF TypeOK, machine, output, history, frameHistory
  <1>5. ResponseMatchesState' /\ WriterInStep' /\ SocketInStep'
    BY <1>0, <1>2, <1>3 DEF Machine, ResponseMatchesState, WriterInStep, SocketInStep, machine,
                            history
  <1>6. Numbered' /\ InOrder' /\ RepliesInOrder' /\ FramesOnce'
    BY <1>0, <1>1, <1>2 DEF Ordered, Numbered, InOrder, RepliesInOrder, FramesOnce,
                            machine, history, frameHistory, GivenOut, Follows, IsFrame, IsPart
  <1>7. LastReply'
    BY <1>0, <1>2, <1>3 DEF Ordered, LastReply, output, history, Accepts
  <1>8. Unreplied'
    BY <1>0, <1>1, <1>2, <1>3 DEF Ordered, Unreplied, machine, history, RepliedBefore, IsFrame
  <1>9. ClientWaits'
    <2>1. NoMore' <=> NoMore
      BY <1>2, SameReplies
    <2> QED BY <1>0, <1>2, <2>1, Zenon DEF Ordered, ClientWaits, history
  <1>10. Undelivered'
    <2>1. \A j \in 1..Len(Stream) : j > Len(inBuf') => j > Len(inBuf)
      BY <1>1
    <2> QED BY <1>0, <1>1, <1>2, <1>3, <2>1 DEF Ordered, Undelivered, history, frameHistory, IsFrame
  <1> QED BY <1>4, <1>5, <1>6, <1>7, <1>8, <1>9, <1>10 DEF IInv, Machine, Ordered

(* A text frame is passed to onData() before any that comes after it.        *)
LEMMA HearsStep ==
    ASSUME IInv, HandleText \/ HandleCut
    PROVE  IInv'
  <1>0. Machine /\ Ordered /\ TypeOK
    BY DEF IInv, Machine
  <1> DEFINE t == inBuf[decoded + 1]
  <1>1. /\ pc = "parse" /\ state \in WebSocketStates /\ decoded < Len(inBuf)
        /\ t.is \in {"text", "cut"}
        /\ delivered' = Append(delivered, t.id) /\ pc' = "onData"
        /\ decoded' \in decoded + 1..Len(inBuf)
        /\ UNCHANGED <<client, machine, output, again, app, replies, connects, disconnects,
                       kept, threwAt, threw>>
    <2>1. decoded \in Nat /\ Len(inBuf) \in Nat
      BY <1>0 DEF TypeOK
    <2> QED BY <2>1 DEF HandleText, HandleCut, Hears, Decoding, Next1
  <1>2. decoded \in Nat /\ Len(inBuf) \in Nat /\ decoded + 1 \in 1..Len(inBuf)
    BY <1>0, <1>1 DEF TypeOK
  <1>3. decoded + 1 \in 1..Len(Stream) /\ Stream[decoded + 1] = t
    BY <1>0, <1>2, StreamType
  <1>4. \A k \in 1..Len(inBuf) : inBuf[k] \in Tokens
    BY <1>0, ElementOfSeq DEF TypeOK
  <1>5. t \in Tokens /\ t.id \in Nat /\ IsFrame(t)
    <2>1. t \in Tokens
      BY <1>2, <1>4
    <2> QED BY <1>1, <2>1 DEF Tokens, IsFrame, RequestKinds
  <1>6. t.id <= frames
    <2>1. GivenOut(t)
      BY <1>0, <1>3 DEF Ordered, Numbered
    <2> QED BY <1>0, <1>5, <2>1 DEF TypeOK, GivenOut
  <1>7. connects = 1 /\ Live /\ Live' /\ ~Stuck /\ Front = 0 /\ Front' = 0
    BY <1>0, <1>1 DEF Machine, SocketInStep, Live, Stuck, Front
  <1>8. /\ inBuf' \in Seq(Tokens) /\ Len(inBuf') = Len(inBuf) /\ Shrinks(0)
    <2>1. CASE inBuf' = inBuf
      <3>1. Stream' = Stream
        BY <1>1, <2>1 DEF Stream, client
      <3> QED BY <1>0, <2>1, <3>1, StreamStays DEF TypeOK
    <2>2. CASE inBuf' # inBuf
      <3>1. PICK m \in 1..Len(inBuf) :
               inBuf' = [inBuf EXCEPT ![m] = Cut(@)] /\ IsFrame(inBuf[m])
        <4>1. CASE HandleText
          <5>1. inBuf' = [inBuf EXCEPT ![decoded + 1] = Cut(@)]
            BY <2>2, <4>1 DEF HandleText
          <5> QED BY <1>2, <1>5, <5>1
        <4>2. CASE HandleCut
          <5>1. PICK m \in decoded + 1..Len(inBuf) :
                   inBuf[m].is \in FrameKinds /\ inBuf' = [inBuf EXCEPT ![m] = Cut(@)]
            BY <4>2 DEF HandleCut
          <5>2. m \in 1..Len(inBuf) /\ IsFrame(inBuf[m])
            BY <1>2, <5>1 DEF IsFrame
          <5> QED BY <5>1, <5>2
        <4> QED BY <4>1, <4>2
      <3> QED BY <1>0, <1>1, <3>1, StreamWears DEF client
    <2> QED BY <2>1, <2>2
  <1>9. /\ Len(Stream') = Len(Stream) /\ Len(Stream) \in Nat
        /\ \A j \in 1..Len(Stream') : j \in 1..Len(Stream) /\ Worn(Stream[j], Stream'[j])
    <2>1. Len(Stream) \in Nat
      BY <1>0, StreamType
    <2>2. Len(Stream') = Len(Stream)
      BY <1>8, <2>1 DEF Shrinks
    <2>3. ASSUME NEW j \in 1..Len(Stream') PROVE j \in 1..Len(Stream) /\ Worn(Stream[j], Stream'[j])
      <3>1. j + 0 = j
        BY <2>1, <2>2
      <3> QED BY <1>8, <2>2, <3>1 DEF Shrinks
    <2> QED BY <2>1, <2>2, <2>3
  <1> HIDE DEF t
  <1>10. /\ delivered' \in Seq(Nat) /\ Len(delivered) \in Nat
         /\ Len(delivered') = Len(delivered) + 1
         /\ delivered'[Len(delivered) + 1] = t.id
         /\ \A d \in 1..Len(delivered) : delivered'[d] = delivered[d] /\ delivered[d] \in Nat
    BY <1>0, <1>1, <1>5 DEF TypeOK
  <1>11. /\ \A d \in 1..kept : delivered[d] < t.id
         /\ Len(delivered) \in threwAt \/ Len(delivered) = 0 \/ delivered[Len(delivered)] < t.id
         /\ kept \in Nat /\ kept <= Len(delivered)
    <2>1. decoded < decoded + 1
      BY <1>2
    <2>2. IsFrame(Stream[decoded + 1])
      BY <1>3, <1>5
    <2>3. /\ kept <= Len(delivered)
          /\ \A d \in 1..kept : delivered[d] < Stream[decoded + 1].id
          /\ delivered # <<>> /\ Len(delivered) \notin threwAt =>
                delivered[Len(delivered)] < Stream[decoded + 1].id
      BY <1>0, <1>3, <1>7, <2>1, <2>2 DEF Ordered, Undelivered
    <2>4. kept \in Nat /\ (delivered = <<>> => Len(delivered) = 0)
      BY <1>0 DEF TypeOK
    <2> QED BY <1>3, <2>3, <2>4
  <1>12. TypeOK'
    <2>1. decoded' \in 0..Len(inBuf')
      BY <1>1, <1>2, <1>8
    <2> QED BY <1>0, <1>1, <1>8, <1>10, <2>1 DEF TypeOK, client, machine, output
  <1>13. ResponseMatchesState' /\ WriterInStep' /\ SocketInStep'
    BY <1>0, <1>1, <1>7 DEF Machine, ResponseMatchesState, WriterInStep, SocketInStep, machine
  <1>14. Numbered' /\ InOrder'
    <2>1. \A d \in 1..Len(delivered') : delivered'[d] <= frames
      BY <1>0, <1>6, <1>10 DEF Ordered, Numbered
    <2>2. AllGivenOut' /\ InOrder'
      BY <1>0, <1>1, <1>8, StreamKeepsOrder DEF Ordered, Numbered, AllGivenOut, client
    <2> QED BY <1>0, <1>1, <2>1, <2>2 DEF Ordered, Numbered, AllGivenOut, client, machine
  <1>15. RepliesInOrder' /\ LastReply'
    BY <1>0, <1>1, <1>7 DEF Ordered, RepliesInOrder, LastReply, output, Accepts
  <1>16. ClientWaits'
    <2>1. NoMore' <=> NoMore
      BY <1>1, SameReplies DEF client
    <2> QED BY <1>0, <1>1, <2>1, Zenon DEF Ordered, ClientWaits, client
  <1>17. Unreplied'
    <2>1. \A j \in 1..Len(Stream') : Stream'[j].is \notin RequestKinds
      <3>1. ASSUME NEW j \in 1..Len(Stream'), Stream'[j].is \in RequestKinds PROVE FALSE
        <4>1. j \in 1..Len(Stream) /\ Stream[j].is \in RequestKinds /\ j > 0
          BY <1>9, <3>1 DEF Worn, RequestKinds
        <4> QED BY <1>0, <1>7, <4>1 DEF Ordered, Unreplied
      <3> QED BY <3>1
    <2>2. state' \notin {"BUFFERING_POST_DATA", "READING_WEBSOCKET_KEY3"}
      BY <1>1 DEF machine, WebSocketStates
    <2>3. \A k \in Requests : app'[k] = "asked" => RepliedBefore(k)
      BY <1>0, <1>1, <1>7 DEF Ordered, Unreplied
    <2> QED BY <1>1, <2>1, <2>2, <2>3 DEF Unreplied, RepliedBefore
  <1>18. FramesOnce'
    <2>1. ASSUME NEW d \in 1..Len(delivered') - 1
          PROVE  delivered'[d] < delivered'[d + 1] \/ d \in threwAt
      <3>1. CASE d = Len(delivered)
        BY <1>10, <1>11, <3>1
      <3>2. CASE d # Len(delivered)
        <4>1. d \in 1..Len(delivered) - 1 /\ d + 1 \in 1..Len(delivered) /\ d \in 1..Len(delivered)
          BY <1>10, <3>2
        <4> QED BY <1>0, <1>10, <4>1 DEF Ordered, FramesOnce
      <3> QED BY <3>1, <3>2
    <2>2. ASSUME NEW d \in 1..kept, NEW e \in kept + 1..Len(delivered')
          PROVE  delivered'[d] < delivered'[e]
      <3>1. d \in 1..Len(delivered)
        BY <1>10, <1>11
      <3>2. CASE e = Len(delivered) + 1
        BY <1>10, <1>11, <3>1, <3>2
      <3>3. CASE e # Len(delivered) + 1
        <4>1. e \in kept + 1..Len(delivered) /\ e \in 1..Len(delivered)
          BY <1>10, <1>11, <3>3
        <4> QED BY <1>0, <1>10, <3>1, <4>1 DEF Ordered, FramesOnce
      <3> QED BY <3>2, <3>3
    <2> QED BY <1>1, <1>7, <2>1, <2>2 DEF FramesOnce
  <1>19. Undelivered'
    <2>1. ASSUME NEW j \in 1..Len(Stream'), IsFrame(Stream'[j])
          PROVE  /\ j > Len(inBuf) => \A d \in 1..Len(delivered') : delivered'[d] < Stream'[j].id
                 /\ \A d \in 1..kept : delivered'[d] < Stream'[j].id
                 /\ decoded' < j => delivered'[Len(delivered')] < Stream'[j].id
      <3>1. j \in 1..Len(Stream) /\ IsFrame(Stream[j]) /\ Stream'[j].id = Stream[j].id
        <4>1. "spent" \notin FrameKinds \cup {"cut"}
          BY FrameKindsAssumption
        <4> QED BY <1>9, <2>1, <4>1 DEF Worn, IsFrame
      <3>2. Stream[j].id \in Nat \ {0}
        BY <1>0, <3>1, IdsAreNumbers DEF Ordered
      <3>3. decoded + 1 < j => t.id < Stream[j].id
        <4>1. decoded + 1 < j => Follows(t, Stream[j])
          BY <1>0, <1>3, <3>1 DEF Ordered, InOrder
        <4> QED BY <1>5, <3>1, <4>1 DEF Follows
      <3>4. /\ j > Len(inBuf) => \A d \in 1..Len(delivered) : delivered[d] < Stream[j].id
            /\ \A d \in 1..kept : delivered[d] < Stream[j].id
        BY <1>0, <3>1 DEF Ordered, Undelivered
      <3>5. (j > Len(inBuf) => decoded + 1 < j) /\ (decoded' < j => decoded + 1 < j)
        BY <1>1, <1>2
      <3>6. j > Len(inBuf) => \A d \in 1..Len(delivered') : delivered'[d] < Stream[j].id
        <4>1. \A d \in 1..Len(delivered') : d \in 1..Len(delivered) \/ d = Len(delivered) + 1
          BY <1>10
        <4> QED BY <1>10, <3>3, <3>4, <3>5, <4>1
      <3>7. \A d \in 1..kept : delivered'[d] < Stream[j].id
        BY <1>10, <1>11, <3>4
      <3> QED BY <1>10, <3>1, <3>3, <3>5, <3>6, <3>7
    <2>2. kept <= Len(delivered')
      BY <1>10, <1>11
    <2> QED BY <1>1, <1>8, <2>1, <2>2 DEF Undelivered, IsFrame
  <1> QED BY <1>12, <1>13, <1>14, <1>15, <1>16, <1>17, <1>18, <1>19 DEF IInv, Machine, Ordered

-----------------------------------------------------------------------------
(* Theorems.                                                                 *)

(* The invariant holds of every behaviour, whatever the client sends, however *)
(* the handlers of Connection.cpp, the response writers and the deletion of  *)
(* the connection take turns, and whichever callbacks throw.                 *)
THEOREM Inductive == Spec => []IInv
  <1>1. Init => IInv
    <2> SUFFICES ASSUME Init PROVE IInv
      OBVIOUS
    <2>1. TypeOK
      <3>1. /\ asked \in Seq(Kinds) /\ wire \in Seq(Tokens) /\ inBuf \in Seq(Tokens)
            /\ decoded \in 0..Len(inBuf) /\ delivered \in Seq(Nat)
            /\ replies \in Seq([id : Requests, is : {"ok", "error", "101", "half"}])
        BY DEF Init
      <3>2. app \in [Requests -> {"none", "asked", "begun", "done", "cancelled"}]
        BY DEF Init
      <3> QED BY <3>1, <3>2 DEF Init, TypeOK
    <2>2. ResponseMatchesState /\ WriterInStep /\ SocketInStep
      BY DEF Init, ResponseMatchesState, WriterInStep, SocketInStep, Responding,
             WebSocketStates, Nobody, Front
    <2>3. Stream = <<>> /\ Len(Stream) = 0 /\ Len(replies) = 0 /\ Len(delivered) = 0
      BY DEF Init, Stream
    <2>4. Numbered /\ InOrder /\ RepliesInOrder /\ LastReply /\ FramesOnce /\ Undelivered
      BY <2>3, BoundsAssumption DEF Init, Numbered, InOrder, RepliesInOrder, LastReply,
                                    FramesOnce, Undelivered, Nobody
    <2>5. Unreplied /\ ClientWaits
      BY <2>3 DEF Init, Unreplied, RepliedBefore, ClientWaits
    <2> QED BY <2>1, <2>2, <2>4, <2>5 DEF IInv, Machine, Ordered
  <1>2. IInv /\ [Next]_vars => IInv'
    <2> SUFFICES ASSUME IInv, [Next]_vars PROVE IInv'
      OBVIOUS
    <2>1. CASE Client
      BY <2>1, ClientStep
    <2>2. CASE DataReadyForRead
      BY <2>2, ReadStep
    <2>3. CASE EndOfStream \/ DataReadyForWrite \/ SocketSend \/ SocketClose \/ UNCHANGED vars
      BY <2>3, IdleStep
    <2>4. CASE Parse
      <3>1. CASE HandleHeaders
        BY <3>1, HandleHeadersTakes, TakesStep DEF IInv, Machine
      <3>2. CASE HandleBufferingPostData \/ HandleWebSocketKey3
        <4>1. pc = "parse"
          BY <3>2 DEF HandleBufferingPostData, HandleWebSocketKey3
        <4>2. TypeOK /\ (state = "READING_WEBSOCKET_KEY3" => wsHandler)
          BY <4>1 DEF IInv, Machine, TypeOK, SocketInStep
        <4> QED BY <3>2, <4>2, BodyOrKeyTakes, TakesStep
      <3>3. CASE HandleText \/ HandleCut
        BY <3>3, HearsStep
      <3>4. CASE HandlePing \/ HandleCloseOrError \/ NoMessage \/ CutWait \/ DataThrows
        BY <3>4, PassStep
      <3>5. CASE WaitForMore \/ DataReturns
        BY <3>5, IdleStep
      <3>6. CASE HandleReturns \/ ConnectReturns \/ HandleThrows \/ ConnectThrows
        BY <3>6, CallbackStep
      <3> QED BY <2>4, <3>1, <3>2, <3>3, <3>4, <3>5, <3>6 DEF Parse
    <2>5. ASSUME NEW i \in Requests, Respond(i) PROVE IInv'
      BY <2>5, BeginOrErrorStep, PayloadOrFinishStep DEF Respond
    <2>6. ASSUME NEW i \in Requests, NEW flushIt \in BOOLEAN, Payload(i, flushIt) PROVE IInv'
      BY <2>6, PayloadOrFinishStep
    <2>7. CASE Destroy
      BY <2>7, DestroyStep
    <2> QED BY <2>1, <2>2, <2>3, <2>4, <2>5, <2>6, <2>7 DEF Next
  <1> QED BY <1>1, <1>2, PTL DEF Spec

(* _response is set exactly while _state says that one is being sent, and no *)
(* writer that keeps to ResponseWriter.h meets a state it does not expect:   *)
(* the assertion of sendResponse() and the switches of begin(), payload()    *)
(* and finish() are safe for any client and any number of requests, when     *)
(* handle() throws too.                                                      *)
THEOREM ResponsesStayInStep == Spec => []ResponsesInStep
  <1>1. IInv => ResponsesInStep
    BY DEF IInv, Machine, ResponsesInStep
  <1> QED BY <1>1, Inductive, PTL

(* However many requests the client pipelines, replies go out in the order   *)
(* of the requests, at most one each, and nothing after one that closes, or  *)
(* the 101 or half of it; and a head that stays in _inBuf because a callback *)
(* threw is not replied to again.                                            *)
THEOREM RepliesStayInOrder == Spec => []RepliesInOrder
  <1>1. IInv => RepliesInOrder
    BY DEF IInv, Ordered
  <1> QED BY <1>1, Inductive, PTL

(* However the frames are cut up by read(), handleHybiWebSocket() passes no  *)
(* text frame to onData() out of order, none before onConnect(), and one     *)
(* again only after a call that threw, while it had not been erased.         *)
THEOREM FramesAreDeliveredOnce == Spec => []FramesOnce
  <1>1. IInv => FramesOnce
    BY DEF IInv, Ordered
  <1> QED BY <1>1, Inductive, PTL

(* onConnect() and onDisconnect() of a WebSocket handler come at most once   *)
(* each, also when onConnect() throws, and once it has been connected the    *)
(* second comes when the connection goes and not before.                     *)
THEOREM SocketsLiveOnce == Spec => []SocketLife
  <1>1. IInv => SocketLife
    BY DEF IInv, Machine, SocketInStep, SocketLife
  <1> QED BY <1>1, Inductive, PTL
=============================================================================
