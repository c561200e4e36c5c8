---------------------------- MODULE CrackedUri ----------------------------
(* CrackedUri (util/CrackedUri.cpp): the segments of the path and the query  *)
(* parameters of a URI, which is a sequence of characters, a character being *)
(* its code.                                                                 *)
(* Names ..._<what is wrong> are slips that the checks must notice; no action *)
(* uses them.                                                                *)
EXTENDS Integers, Sequences, SequencesExt

CONSTANTS
    Texts,          \* segments, names and values that clients send
    Malformed       \* URIs that clients must not send

VARIABLES
    meant,          \* what the client means
    cracked         \* what CrackedUri makes of it

urivars == <<meant, cracked>>

-----------------------------------------------------------------------------
Chars == 0..255
Slash == 47
Question == 63
Ampersand == 38
Equals == 61
Plus == 43
Percent == 37
Space == 32
Digits == 48..57
HexDigits == Digits \cup 65..70 \cup 97..102

FromHex(c) == IF c \in Digits THEN c - 48 ELSE IF c \in 65..70 THEN c - 55 ELSE c - 87

(* split(): a text of n separators has n + 1 parts, but "" has none.         *)
Extend(parts, x) == [parts EXCEPT ![Len(parts)] = Append(@, x)]
SplitAll(text, c) ==
    LET parts[k \in 0..Len(text)] ==
            IF k = 0 THEN <<<<>>>>
            ELSE IF text[k] = c THEN Append(parts[k - 1], <<>>) ELSE Extend(parts[k - 1], text[k])
    IN  parts[Len(text)]
Split(text, c) == IF text = <<>> THEN <<>> ELSE SplitAll(text, c)

(* What an exception leaves instead of a text; no text has this character.   *)
Throws == <<-1>>

(* A percent sign that starts no escape.                                     *)
BadEscape(text, at) ==
    /\ text[at] = Percent
    /\ at + 2 > Len(text) \/ text[at + 1] \notin HexDigits \/ text[at + 2] \notin HexDigits

(* The loop of unescape(), one character a turn: what an escape stood for is *)
(* not looked at again.                                                      *)
UnescapeTurn(st) ==
    LET text == st.text
        at == st.pos
    IN  IF at > Len(text) THEN st
        ELSE IF text[at] # Percent THEN [st EXCEPT !.pos = at + 1]
        ELSE IF BadEscape(text, at) THEN [text |-> Throws, pos |-> 2]
        ELSE [text |-> SubSeq(text, 1, at - 1) \o <<16 * FromHex(text[at + 1]) + FromHex(text[at + 2])>>
                          \o SubSeq(text, at + 3, Len(text)),
              pos |-> at + 1]

(* replace() of the pluses comes first.                                      *)
Spaced(text) == [i \in 1..Len(text) |-> IF text[i] = Plus THEN Space ELSE text[i]]
Unescape(text) ==
    LET turns[k \in 0..Len(text)] ==
            IF k = 0 THEN [text |-> Spaced(text), pos |-> 1] ELSE UnescapeTurn(turns[k - 1])
    IN  turns[Len(text)].text

(* The constructor: the path and the query parameters, as a bag of pairs of  *)
(* which only the pairs matter here.                                         *)
Crack(uri) ==
    LET queryAt == SelectInSeq(uri, LAMBDA c : c = Question)
        path == IF queryAt = 0 THEN Tail(uri) ELSE SubSeq(uri, 2, queryAt - 1)
        remainder == IF queryAt = 0 THEN <<>> ELSE SubSeq(uri, queryAt + 1, Len(uri))
        segments == [k \in 1..Len(Split(path, Slash)) |-> Unescape(Split(path, Slash)[k])]
        fields == {Split(f, Equals) : f \in ToSet(Split(remainder, Ampersand)) \ {<<>>}}
        params == {<<Unescape(f[1]), IF Len(f) = 1 THEN <<>> ELSE Unescape(f[2])>> : f \in fields}
    IN  IF \/ uri = <<>> \/ Head(uri) # Slash
           \/ \E k \in 1..Len(segments) : segments[k] = Throws
           \/ \E f \in fields : Len(f) > 2 \/ \E k \in 1..Len(f) : Unescape(f[k]) = Throws
        THEN [ok |-> FALSE, path |-> <<>>, params |-> {}]
        ELSE [ok |-> TRUE, path |-> segments, params |-> params]

(* shift() never leaves an empty path.                                       *)
Shift(path) == IF Len(path) > 1 THEN Tail(path) ELSE <<<<>>>>

-----------------------------------------------------------------------------
(* How a client writes a URI.                                                *)
HexDigit(n) == IF n < 10 THEN 48 + n ELSE 87 + n
EscapeOf(c) ==
    IF c \in 97..122 THEN <<c>>
    ELSE IF c = Space THEN <<Plus>>
    ELSE <<Percent, HexDigit(c \div 16), HexDigit(c % 16)>>
Escape(text) == FlattenSeq([i \in 1..Len(text) |-> EscapeOf(text[i])])

JoinUri(path, name, value) ==
    <<Slash>> \o FlattenSeq([k \in 1..Len(path) |->
                    IF k = 1 THEN Escape(path[k]) ELSE <<Slash>> \o Escape(path[k])])
              \o <<Question>> \o Escape(name) \o <<Equals>> \o Escape(value)

Paths(texts) == {<<>>} \cup {<<a>> : a \in texts \ {<<>>}} \cup {<<a, b>> : a, b \in texts}

(* What no client may send: no path, a percent sign that starts no escape,   *)
(* or two equals signs in one parameter.                                     *)
IllFormed(uri) ==
    \/ uri = <<>> \/ uri[1] # Slash
    \/ \E i \in 1..Len(uri) : BadEscape(uri, i)
    \/ \E q, i, j \in 1..Len(uri) :
          /\ q < i /\ i < j /\ uri[q] = Question /\ uri[i] = Equals /\ uri[j] = Equals
          /\ \A k \in i..j : uri[k] # Ampersand

ASSUME TextsAssumption == Texts \subseteq Seq(Chars)
ASSUME MalformedAssumption == \A uri \in Malformed : uri \in Seq(Chars) /\ IllFormed(uri)

Nowhere == [ok |-> FALSE, path |-> <<>>, params |-> {}]

UriInit == meant = Nowhere /\ cracked = Nowhere

ClientAsks(path, name, value) ==
    /\ meant = Nowhere
    /\ meant' = [ok |-> TRUE, path |-> path, params |-> {<<name, value>>}]
    /\ cracked' = Crack(JoinUri(path, name, value))

ClientErrs(uri) ==
    /\ meant = Nowhere
    /\ cracked' = Crack(uri) /\ UNCHANGED meant

UriNext ==
    \/ \E path \in Paths(Texts), name, value \in Texts : ClientAsks(path, name, value)
    \/ \E uri \in Malformed : ClientErrs(uri)

(* What a client escapes is read back as it was, once: separators that are   *)
(* part of a name do not separate, and what an escape stands for is not      *)
(* taken for another escape.  A malformed URI is refused.                    *)
UriReadsBack == cracked = meant
=============================================================================
