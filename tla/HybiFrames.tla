----------------------------- MODULE HybiFrames -----------------------------
(* WebSocket frames as bytes (Connection.cpp, HybiPacketDecoder.cpp and      *)
(* ZlibContext.cpp): the client's frames arrive cut anywhere, since a read() *)
(* gives what has come; the decoder starts again at the first frame it has   *)
(* not erased, and a deflated message goes through an inflater that          *)
(* remembers everything it was ever given.                                   *)
(* A frame is [op, len, fin, rsv, deflated]: its payload is abstract and     *)
(* masked, as clients must; the bytes of its length are not.  A Hixie frame  *)
(* is a text between 0x00 and 0xff.                                          *)
(* Names ..._<what is wrong> are slips that the checks must notice; no action *)
(* uses them.                                                                *)
EXTENDS Naturals, Sequences

CONSTANTS
    Streams,            \* what clients send: sequences of frames
    MaxMessage,         \* MaxWebsocketMessageSize
    ReadSize,           \* ReadWriteBufferSize
    SendLengths         \* lengths of the messages the server sends

(* A length that four bytes hold: the header has room for eight, but         *)
(* sendHybiData() and decodeNextMessage() use no more.                       *)
Lengths == {n \in Nat : n \div 65536 < 65536}
Opcodes == {"Text", "Binary", "Ping", "Pong", "Close", "Unknown"}
Frames == [op : Opcodes, len : Lengths, fin : BOOLEAN, rsv : BOOLEAN, deflated : BOOLEAN]

ASSUME FramesAssumption == Streams \subseteq Seq(Frames) /\ SendLengths \subseteq Lengths
ASSUME SizesAssumption == MaxMessage \in Nat /\ ReadSize \in Nat

VARIABLES
    proto,          \* "hybi" or "hixie", by _state; "http" before the handshake
    perMessageDeflate,  \* _perMessageDeflate
    stream,         \* the frames the client sends
    arrived,        \* how many of its bytes have been read
    next,           \* the frame at the front of _inBuf
    inflater,       \* inflateStream: where in a deflate block it is
    shut,           \* closeInternal() has been called
    sent,           \* lengths and headers of the frames the server sends
    \* history
    delivered,      \* what the handler was given, and pings answered
    cut             \* inflate() was called for a frame that is not all there

hyvars == <<proto, perMessageDeflate, stream, arrived, next, inflater, shut, sent, delivered, cut>>

-----------------------------------------------------------------------------
(* The length of a payload in a header: sendHybiData() writes it, and        *)
(* decodeNextMessage() reads it.                                             *)
Byte(n, i) == (n \div <<1, 256, 65536, 16777216>>[i + 1]) % 256

LengthBytes(n) ==
    IF n < 126 THEN <<n>>
    ELSE IF n < 65536 THEN <<126, Byte(n, 1), Byte(n, 0)>>
    ELSE <<127, 0, 0, 0, 0, Byte(n, 3), Byte(n, 2), Byte(n, 1), Byte(n, 0)>>

PayloadLength(bytes) ==
    LET big(k) == bytes[k] * 256 + bytes[k + 1]
    IN  CASE bytes[1] = 126 -> big(2)
          [] bytes[1] = 127 -> big(6) * 65536 + big(8)
          [] OTHER -> bytes[1]

MaskSize == 4
Size(f) == IF proto = "hixie" THEN f.len + 2 ELSE 1 + Len(LengthBytes(f.len)) + MaskSize + f.len

(* Where frame j begins in what the client sends.                            *)
Offset(j) ==
    LET end[k \in 0..Len(stream)] == IF k = 0 THEN 0 ELSE end[k - 1] + Size(stream[k])
    IN  end[j - 1]
Total == Offset(Len(stream) + 1)

-----------------------------------------------------------------------------
Decode_fromFront(front, j, got) ==
    LET size == got - Offset(front)
        f == stream[j]
    IN  CASE Offset(j) + 1 >= got -> "NoMessage"
          [] Offset(j) + 1 < got /\ (~f.fin \/ f.rsv) -> "Error"
          [] Offset(j) + 1 < got /\ f.fin /\ ~f.rsv /\ size < Size(f) -> "NoMessage"
          [] OTHER -> f.op

(* decodeNextMessage() at frame j, with the front of _inBuf at frame front   *)
(* and got bytes read in all.  The tests of the extended length look at the  *)
(* whole of _inBuf: a length that is not there is read all the same, but the *)
(* test for the mask that follows answers "NoMessage" whatever it is.        *)
Decode(front, j, got) ==
    LET size == got - Offset(front)
        start == Offset(j) - Offset(front)
        f == stream[j]
        ptr == start + 1 + Len(LengthBytes(f.len))
        short == IF f.len < 126 THEN 0 ELSE IF f.len < 65536 THEN 4 ELSE 10
    IN  CASE start + 1 >= size -> "NoMessage"
          [] start + 1 < size /\ (~f.fin \/ f.rsv) -> "Error"
          [] start + 1 < size /\ f.fin /\ ~f.rsv
                /\ (size < short \/ size < ptr + MaskSize \/ size < ptr + MaskSize + f.len)
                -> "NoMessage"
          [] OTHER -> f.op

(* deflateNeeded is set once the first two bytes of the frame are there and  *)
(* in order, also when the rest of it is not.                                *)
DeflateNeeded(j, got) ==
    Offset(j) + 1 < got /\ stream[j].fin /\ ~stream[j].rsv /\ stream[j].deflated

(* inflate() appends 00 00 ff ff to its input, the end of the empty stored   *)
(* block that a message ends in.  After no input at all the inflater takes   *)
(* the first 00 for the header of a stored block, and 00 ff for its length,  *)
(* and wants the complement of that length: ff and the next byte it will be  *)
(* given ("owed").  A deflated message does not begin with that byte; another*)
(* empty input does, and what follows is copied as it is.                    *)
Inflate(was, whole) ==
    CASE was = "aligned" /\ whole  -> [ok |-> TRUE, state |-> "aligned", out |-> "message"]
      [] was = "aligned" /\ ~whole -> [ok |-> TRUE, state |-> "owed", out |-> "nothing"]
      [] was = "owed" /\ whole     -> [ok |-> FALSE, state |-> "owed", out |-> "nothing"]
      [] OTHER                     -> [ok |-> TRUE, state |-> "literal", out |-> "garbage"]

Shut(st) == [st EXCEPT !.shut = TRUE]

(* One turn of the loop of handleHybiWebSocket(); st.next is the decoder's   *)
(* _messageStart.                                                            *)
HybiTurn(st, got) ==
    LET j == st.next
        f == stream[j]
        what == Decode(next, j, got)
        needed == DeflateNeeded(j, got)
        r == Inflate(st.inflater, what # "NoMessage")
        inflated == IF needed
                    THEN [st EXCEPT !.inflater = r.state, !.cut = @ \/ what = "NoMessage"]
                    ELSE st
        after == [inflated EXCEPT !.next = j + 1]
        told == [after EXCEPT !.delivered = Append(@, [op |-> what, frame |-> j,
                                  is |-> IF needed THEN r.out ELSE "message"])]
    IN  IF needed /\ ~perMessageDeflate THEN Shut(st)
        ELSE IF needed /\ ~r.ok THEN Shut(inflated)
        ELSE CASE what \in {"Text", "Binary"} -> told
               [] what = "Ping" ->
                    [told EXCEPT !.sent = Append(@, [len |-> f.len, header |-> LengthBytes(f.len)])]
               [] what = "Pong"               -> after
               [] what = "NoMessage"          -> [inflated EXCEPT !.done = TRUE]
               [] OTHER                       -> Shut(inflated)

(* One turn of the loop of handleHixieWebSocket(), which takes a text that   *)
(* is there to its 0xff.                                                     *)
HixieTurn(st, got) ==
    LET j == st.next
        text == [op |-> "Text", frame |-> j, is |-> "message"]
    IN  CASE got <= Offset(j) -> [st EXCEPT !.done = TRUE]
          [] got > Offset(j) /\ stream[j].op # "Text" -> Shut(st)
          [] got \in Offset(j) + 1..Offset(j + 1) - 1 /\ stream[j].op = "Text" ->
                [st EXCEPT !.done = TRUE]
          [] OTHER -> [st EXCEPT !.next = j + 1, !.delivered = Append(@, text)]

Turn(st, got) ==
    CASE st.done \/ st.shut \/ st.next > Len(stream) -> st
      [] proto = "hybi" /\ ~(st.done \/ st.shut \/ st.next > Len(stream)) -> HybiTurn(st, got)
      [] OTHER -> HixieTurn(st, got)

(* Both loops: a turn for every frame, until one is not all there or closes  *)
(* the connection.                                                           *)
HandleWebSocket(st, got) ==
    LET turns[k \in 0..Len(stream)] == IF k = 0 THEN st ELSE Turn(turns[k - 1], got)
    IN  turns[Len(stream)]

HybiInit ==
    /\ proto = "http" /\ perMessageDeflate = FALSE /\ stream = <<>>
    /\ arrived = 0 /\ next = 1 /\ inflater = "aligned"
    /\ shut = FALSE /\ sent = <<>> /\ delivered = <<>> /\ cut = FALSE

(* The handshake is done: the client will send frames.  Hixie has texts and  *)
(* a byte that is not the beginning of one.                                  *)
Upgrade(hybi, deflate, frames) ==
    /\ proto = "http" /\ proto' = (IF hybi THEN "hybi" ELSE "hixie")
    /\ perMessageDeflate' = deflate /\ stream' = frames
    /\ ~hybi => ~deflate /\ \A j \in 1..Len(frames) : frames[j].op \in {"Text", "Close"}
    /\ UNCHANGED <<arrived, next, inflater, shut, sent, delivered, cut>>

(* A read(), and what handleNewData() makes of it.  What is left in _inBuf   *)
(* is a part of one frame, which may be too long already.                    *)
Arrives(n) ==
    /\ proto # "http" /\ ~shut /\ arrived + n <= Total
    /\ arrived' = arrived + n
    /\ LET before == [inflater |-> inflater, delivered |-> delivered, shut |-> FALSE,
                      cut |-> cut, sent |-> sent, next |-> next, done |-> FALSE]
       IN  \E after \in {HandleWebSocket(before, arrived')} :
              /\ inflater' = after.inflater /\ delivered' = after.delivered
              /\ cut' = after.cut /\ sent' = after.sent /\ next' = after.next
              /\ shut' = (after.shut \/ arrived' - Offset(after.next) > MaxMessage)
    /\ UNCHANGED <<proto, perMessageDeflate, stream>>

(* send(): a text or binary message of len bytes, once deflated.  It looks   *)
(* at nothing that has arrived, and so is tried when everything has.         *)
Send(len) ==
    /\ ~shut /\ proto = "hybi" /\ Len(sent) = 0 /\ arrived = Total
    /\ sent' = Append(sent, [len |-> len, header |-> LengthBytes(len)])
    /\ UNCHANGED <<proto, perMessageDeflate, stream, arrived, next, inflater, shut, delivered, cut>>

HybiNext ==
    \/ \E hybi, deflate \in BOOLEAN, frames \in Streams : Upgrade(hybi, deflate, frames)
    \/ \E n \in 1..ReadSize : Arrives(n)
    \/ \E len \in SendLengths : Send(len)

HybiSpec == HybiInit /\ [][HybiNext]_hyvars

-----------------------------------------------------------------------------
(* The frame that ends the connection, if any.                               *)
Ends(f) ==
    \/ f.op \in {"Close", "Unknown"}
    \/ proto = "hybi" /\ (~f.fin \/ f.rsv \/ (f.deflated /\ ~perMessageDeflate))
LastFrame ==
    LET ends == {j \in 1..Len(stream) : Ends(stream[j])}
    IN  IF ends = {} THEN Len(stream) + 1 ELSE CHOOSE j \in ends : \A k \in ends : j <= k

(* What the client means by its first n frames, and by all it sends.         *)
MessagesOf(n) ==
    LET upTo[k \in 0..Len(stream)] ==
            IF k = 0 THEN <<>>
            ELSE IF stream[k].op \in {"Text", "Binary", "Ping"}
            THEN Append(upTo[k - 1], [op |-> stream[k].op, frame |-> k, is |-> "message"])
            ELSE upTo[k - 1]
    IN  upTo[n]
Meant == MessagesOf(LastFrame - 1)

AsMeant ==
    /\ delivered = SubSeq(Meant, 1, Len(delivered))
    /\ Offset(next) <= arrived
    /\ shut => \/ LastFrame <= Len(stream) /\ delivered = Meant
               \/ next <= Len(stream) /\ Size(stream[next]) > MaxMessage
    /\ arrived = Total /\ ~shut => delivered = Meant

(* However the bytes are cut, each message reaches the handler once, whole   *)
(* and in order, and the connection is closed for no other reason than a     *)
(* frame that asks for it or is too long; unless a deflated frame was cut.   *)
FramesWhateverTheCuts == cut \/ AsMeant

(* The same with deflated frames.                                            *)
DeflatedWhateverTheCuts == AsMeant

(* The other side reads the length of each frame that the server sends.      *)
SentLengthsDecode == \A i \in 1..Len(sent) : PayloadLength(sent[i].header) = sent[i].len

(* Frames mean the same to both sides, in both directions: those of clients  *)
(* to decodeNextMessage(), and those of sendHybiData() to clients.           *)
FramesReadBack == FramesWhateverTheCuts /\ SentLengthsDecode
=============================================================================
