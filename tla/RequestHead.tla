---------------------------- MODULE RequestHead ----------------------------
(* Requests out of the bytes that arrive (Connection.cpp, PageRequest.cpp,   *)
(* StringUtil.cpp): a read() ends anywhere, handleHeaders() looks for the    *)
(* blank line from the front of _inBuf every time, processHeaders() takes    *)
(* the head apart, and a body of Content-Length bytes is waited for.         *)
(* What arrives is a sequence of words and of the characters that separate   *)
(* them, each counted as one byte; a word that is cut is no more of a head   *)
(* than one that has not come.  Answers are given at once: module Connection *)
(* has the others.                                                           *)
(* Names ..._<what is wrong> are slips that the checks must notice; no action *)
(* uses them.                                                                *)
EXTENDS Integers, Sequences, SequencesExt

CONSTANTS
    Clients,            \* what clients send: sequences of requests
    MaxHead,            \* MaxHeadersSize
    ClientBufferSize,   \* Server::clientBufferSize()
    HeadReadSize        \* ReadWriteBufferSize

(* What is asked, and what is meant by it: "odd" is what nothing is claimed  *)
(* of.                                                                       *)
Asked == [verb : STRING, uri : STRING, version : STRING, headers : Seq(Seq(STRING)), body : Nat,
          means : {"page", "upgrade", "error", "odd"}]

ASSUME AskedAssumption == Clients \subseteq Seq(Asked) /\ MaxHead \in Nat /\ HeadReadSize \in Nat

VARIABLES
    requests,           \* what this client sends
    wireIn,             \* what has not arrived
    inbuf,              \* _inBuf
    reading,            \* "HEAD", "POST", or "SOCKET" once upgraded
    current,            \* *_request while its body is read
    hungry,             \* closeWhenEmpty() was called
    ended,              \* closeInternal() was called
    handled             \* history: what was made of the requests

rqvars == <<requests, wireIn, inbuf, reading, current, hungry, ended, handled>>

Blank == {"SP", "TAB", "CR", "LF"}
NoRequest == [is |-> "none", verb |-> "none", uri |-> "none", length |-> 0]

(* findEmbeddedContent().                                                    *)
Embedded == {"/favicon.ico"}
Verbs == {"GET", "PUT", "POST", "DELETE", "HEAD", "OPTIONS"}

-----------------------------------------------------------------------------
(* skipWhitespace() and shift(): one word, and what follows the character    *)
(* that ends it; <<>> when there is none.                                    *)
SkipBlank(text) ==
    LET word == SelectInSeq(text, LAMBDA c : c \notin Blank)
    IN  IF word = 0 THEN <<>> ELSE SubSeq(text, word, Len(text))

ShiftWord(text) ==
    LET from == SkipBlank(text)
        end == SelectInSeq(from, LAMBDA c : c \in Blank)
    IN  IF end = 0 THEN [word |-> from, rest |-> <<>>]
        ELSE [word |-> SubSeq(from, 1, end - 1), rest |-> SubSeq(from, end + 1, Len(from))]

(* extractLine(): the place of the first line end, or 0.                     *)
LineEnd(text) ==
    LET ends == {i \in 1..Len(text) - 1 : text[i] = "CR" /\ text[i + 1] = "LF"}
    IN  IF ends = {} THEN 0 ELSE CHOOSE i \in ends : \A j \in ends : i <= j

(* Header names are compared without regard to case.                         *)
Lower(word) ==
    CASE word \in {"Content-Length", "CONTENT-LENGTH"} -> "content-length"
      [] word \in {"Connection"} -> "connection"
      [] word \in {"Upgrade", "UPGRADE"} -> "upgrade"
      [] word \in {"WebSocket"} -> "websocket"
      [] OTHER -> word
LowerAll(text) == [i \in 1..Len(text) |-> Lower(text[i])]

(* One turn of the loop over the header lines.  emplace() keeps the first of *)
(* two headers with one name.                                                *)
HeaderLine(st) ==
    LET end == LineEnd(st.text)
        line == SubSeq(st.text, 1, end - 1)
        colon == SelectInSeq(line, LAMBDA c : c = ":")
        key == LowerAll(SubSeq(line, 1, colon - 1))
        value == SkipBlank(SubSeq(line, colon + 1, Len(line)))
        had == \E i \in 1..Len(st.headers) : st.headers[i].key = key
    IN  IF st.text = <<>> \/ ~st.ok THEN st
        ELSE IF colon = 0 THEN [st EXCEPT !.ok = FALSE]
        ELSE [st EXCEPT !.text = SubSeq(@, end + 2, Len(@)),
                        !.headers = IF had THEN @ ELSE Append(@, [key |-> key, value |-> value])]

HeaderLines(text) ==
    LET turns[k \in 0..Len(text)] ==
            IF k = 0 THEN [text |-> text, ok |-> TRUE, headers |-> <<>>]
            ELSE HeaderLine(turns[k - 1])
    IN  turns[Len(text)]

Header(headers, name) ==
    LET at == SelectInSeq(headers, LAMBDA h : h.key = <<name>>)
    IN  IF at = 0 THEN <<>> ELSE headers[at].value

(* std::stoi() reads digits as far as they go; a number that is none, or     *)
(* more than an int, is an exception, and that is no length.                 *)
Stoi == [n \in {"0", "2", "2x", "-1", "9"} |->
            CASE n = "0" -> 0 [] n \in {"2", "2x"} -> 2 [] n = "-1" -> -1 [] n = "9" -> 9]
GetUintHeader(headers, name) ==
    LET value == Header(headers, name)
    IN  IF value = <<>> \/ value[1] \notin DOMAIN Stoi \/ Stoi[value[1]] < 0
        THEN 0 ELSE Stoi[value[1]]

(* hasConnectionType(): one of the parts between commas.                     *)
HasConnectionType(text, type) ==
    \E a \in 1..Len(text) + 1 : \E b \in a - 1..Len(text) :
        /\ a = 1 \/ text[a - 1] = ","
        /\ b = Len(text) \/ text[b + 1] = ","
        /\ \A i \in a..b : text[i] # ","
        /\ LowerAll(SkipBlank(SubSeq(text, a, b))) = <<type>>

Upgrades(headers) ==
    /\ HasConnectionType(Header(headers, "connection"), "upgrade")
    /\ LowerAll(Header(headers, "upgrade")) = <<"websocket">>

-----------------------------------------------------------------------------
(* sendError(), sendBadRequest() and the others.                             *)
Refusal == [is |-> "error", verb |-> "none", uri |-> "none", body |-> 0]

(* The three words of the first line.                                        *)
RequestLine(line) ==
    LET verb == ShiftWord(line)
        uri == ShiftWord(verb.rest)
        version == ShiftWord(uri.rest)
    IN  [verb |-> verb.word, uri |-> uri.word, version |-> version.word, rest |-> version.rest]

(* What the checks of processHeaders() make of a head.  Embedded content is  *)
(* sent before the length of the request is looked at.                       *)
RequestOf(line, parsed, websocket, given) ==
    LET embedded == ~websocket /\ line.verb[1] \in {"GET", "HEAD"} /\ line.uri[1] \in Embedded
        length == IF embedded THEN 0 ELSE given
        bad == \/ line.verb \notin {<<v>> : v \in Verbs}
               \/ line.uri = <<>> \/ line.version # <<"HTTP/1.1">> \/ line.rest # <<>>
               \/ ~parsed.ok
               \/ websocket /\ line.verb # <<"GET">>
               \/ length > ClientBufferSize
    IN  IF bad THEN [NoRequest EXCEPT !.is = "error"]
        ELSE [is |-> IF websocket THEN "upgrade" ELSE "page",
              verb |-> line.verb[1], uri |-> line.uri[1], length |-> length]

(* processHeaders() up to where the request goes.                            *)
ProcessHeaders(head) ==
    LET end == LineEnd(head)
        parsed == HeaderLines(SubSeq(head, end + 2, Len(head)))
    IN  RequestOf(RequestLine(SubSeq(head, 1, end - 1)), parsed, Upgrades(parsed.headers),
                  GetUintHeader(parsed.headers, "content-length"))

HeadEnd(buf) ==
    LET ends == {i \in 1..Len(buf) - 3 : SubSeq(buf, i, i + 3) = <<"CR", "LF", "CR", "LF">>}
    IN  IF ends = {} THEN 0 ELSE CHOOSE i \in ends : \A j \in ends : i <= j

(* handlePageRequest(): the answer is out; after a handshake the bytes are   *)
(* frames.                                                                   *)
Takes(st, what) == [st EXCEPT !.handled = Append(@, what)]
HandlePage(st, r) ==
    [Takes(st, [is |-> r.is, verb |-> r.verb, uri |-> r.uri, body |-> r.length])
        EXCEPT !.reading = IF r.is = "upgrade" THEN "SOCKET" ELSE "HEAD"]

(* What processHeaders() leaves to be done.                                  *)
HandleParsed(st, r) ==
    IF r.is = "error" THEN [Takes(st, Refusal) EXCEPT !.hungry = TRUE]
    ELSE IF r.length > 0 THEN [st EXCEPT !.reading = "POST", !.current = r]
    ELSE HandlePage(st, r)

(* handleHeaders().                                                          *)
HandleHead(st) ==
    LET i == HeadEnd(st.buf)
    IN  IF i > 0
        THEN HandleParsed([st EXCEPT !.buf = SubSeq(@, i + 4, Len(@))],
                           ProcessHeaders(SubSeq(st.buf, 1, i + 1)))
        ELSE IF Len(st.buf) > MaxHead
        THEN [Takes(st, Refusal) EXCEPT !.hungry = TRUE, !.more = FALSE]
        ELSE [st EXCEPT !.more = FALSE]

ConsumeContent_takesAll(st) ==
    [HandlePage(st, st.current) EXCEPT !.buf = <<>>, !.current = NoRequest, !.more = FALSE]

(* handleBufferingPostData(): nobody looks at what follows the body until    *)
(* more arrives.                                                             *)
ConsumeContent(st) ==
    [HandlePage(st, st.current) EXCEPT
        !.buf = SubSeq(@, st.current.length + 1, Len(@)), !.current = NoRequest, !.more = FALSE]

(* One turn of handleNewData().                                              *)
HeadTurn(st) ==
    CASE st.more /\ st.reading = "HEAD" -> HandleHead(st)
      [] st.more /\ st.reading = "POST" /\ Len(st.buf) >= st.current.length -> ConsumeContent(st)
      [] OTHER -> st

(* It goes on until a head or a body is not all there; a turn that goes on   *)
(* has taken a head.                                                         *)
NewData(st) ==
    LET turns[k \in 0..Len(st.buf) + 1] == IF k = 0 THEN st ELSE HeadTurn(turns[k - 1])
    IN  turns[Len(st.buf) + 1]

-----------------------------------------------------------------------------
RequestHeadInit ==
    /\ requests = <<>> /\ wireIn = <<>> /\ inbuf = <<>> /\ reading = "HEAD"
    /\ current = NoRequest /\ hungry = FALSE /\ ended = FALSE /\ handled = <<>>

(* How a client writes a request.                                            *)
WrittenHead(r) ==
    <<r.verb, "SP", r.uri, "SP", r.version, "CR", "LF">>
        \o FlattenSeq([i \in 1..Len(r.headers) |-> r.headers[i] \o <<"CR", "LF">>])
        \o <<"CR", "LF">>
WrittenBody(r) == [i \in 1..r.body |-> "b"]
Written(r) == WrittenHead(r) \o WrittenBody(r)

(* What a request means is what processHeaders() makes of its head when that *)
(* comes in one piece, and the head ends where its first blank line does.    *)
Understood(r) ==
    LET head == WrittenHead(r)
        parsed == ProcessHeaders(SubSeq(head, 1, Len(head) - 2))
    IN  /\ HeadEnd(head) = Len(head) - 3
        /\ r.means = "error" => parsed.is = "error"
        /\ r.means \in {"page", "upgrade"} =>
              parsed = [is |-> r.means, verb |-> r.verb, uri |-> r.uri, length |-> r.body]

ASSUME ClientsAssumption ==
    \A client \in Clients : \A k \in 1..Len(client) :
        client[k].means # "odd" => Understood(client[k])

ClientWrites(client) ==
    /\ requests = <<>> /\ requests' = client
    /\ wireIn' = FlattenSeq([k \in 1..Len(client) |-> Written(client[k])])
    /\ UNCHANGED <<inbuf, reading, current, hungry, ended, handled>>

(* handleDataReadyForRead() and handleNewData(); an error is out, and the    *)
(* connection closed, at once or later.                                      *)
HeadArrives(n) ==
    /\ ~ended /\ n <= Len(wireIn)
    /\ wireIn' = SubSeq(wireIn, n + 1, Len(wireIn))
    /\ \E after \in {NewData([buf |-> inbuf \o SubSeq(wireIn, 1, n), reading |-> reading,
                              current |-> current, hungry |-> hungry, handled |-> handled,
                              more |-> TRUE])} :
          /\ inbuf' = after.buf /\ reading' = after.reading /\ current' = after.current
          /\ hungry' = after.hungry /\ handled' = after.handled
          /\ ended' \in IF after.hungry THEN BOOLEAN ELSE {FALSE}
    /\ UNCHANGED requests

RequestHeadNext ==
    \/ \E client \in Clients : ClientWrites(client)
    \/ \E n \in 1..HeadReadSize : HeadArrives(n)

RequestHeadSpec == RequestHeadInit /\ [][RequestHeadNext]_rqvars

-----------------------------------------------------------------------------
(* What a client means: r.means says what its request is.                    *)
MeantBy(r) ==
    IF r.means = "error" THEN Refusal
    ELSE [is |-> r.means, verb |-> r.verb, uri |-> r.uri, body |-> r.body]
HeadSize(r) == Len(WrittenHead(r))

(* The requests up to one that ends the conversation, or whose length is     *)
(* more than an int ("odd"), from where on nothing is claimed.               *)
Claimed ==
    LET ends == {k \in 1..Len(requests) : requests[k].means # "page"}
    IN  IF ends = {} THEN Len(requests) ELSE CHOOSE k \in ends : \A j \in ends : k <= j

(* However the bytes are cut, a client's requests are seen once each and in  *)
(* order, with their own verb, URI and body; malformed ones are refused, and *)
(* so is a head that is too long, or it is not, but nothing else; a request  *)
(* that has arrived is not waited for, unless it follows a body.             *)
RequestsWhateverTheCuts ==
    /\ \A k \in 1..Len(handled) : k <= Claimed /\ requests[k].means # "odd" =>
          \/ handled[k] = MeantBy(requests[k])
          \/ \E j \in 1..k : HeadSize(requests[j]) > MaxHead
    /\ wireIn = <<>> /\ ~hungry /\ ~ended /\ (\A k \in 1..Claimed : requests[k].means # "odd") =>
          \/ Len(handled) >= Claimed
          \/ \E k \in 1..Len(handled) : requests[k].body > 0
=============================================================================
