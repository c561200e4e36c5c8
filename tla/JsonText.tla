------------------------------ MODULE JsonText ------------------------------
(* JSON as util/Json.cpp and Json.h write it: texts, numbers, flags, times,  *)
(* values that only know how to stream themselves, and arrays, maps and      *)
(* calls of all these and of pieces made before.  Every piece has a stream   *)
(* of its own, which keeps its number base from one value to the next, and   *)
(* writing a control character in a text changes it; the statistics page     *)
(* (Server.cpp) is a single stream for all the connections.                  *)
(* Characters are their codes, fixed words one code above 255; a C string    *)
(* has no 0.                                                                 *)
(* Names ..._<what is wrong> are slips that the checks must notice; no action *)
(* uses them.                                                                *)
EXTENDS Integers, Sequences, SequencesExt

CONSTANTS
    Strings,        \* texts, keys and numbers that the application writes
    MapKeys,
    Numbers,
    Reals,          \* floating values, in millionths: below 10, with a fraction
    Shown,          \* what values of other types stream
    Bare,           \* fundamental values that stream neither numeral nor flag:
                    \* a char, and the words of a nullptr, an infinity or a NaN
    MaxItems,       \* bound: values in a piece
    MaxPieces       \* bound: pieces, each inside the next

VARIABLE
    pieces          \* the JsonnedStrings made: value, text, and "odd":
                    \* whether something in it was not written as JSON has it

jsvars == pieces

Quote == 34
Backslash == 92
Comma == 44
Colon == 58
Point == 46
Letter == [b |-> 98, t |-> 116, n |-> 110, f |-> 102, r |-> 114, u |-> 117]
Opening == [array |-> 91, map |-> 123, call |-> 40]
Closing == [array |-> 93, map |-> 125, call |-> 41]
Function == 300
True == 301
False == 302
NewDate == 303          \* "new Date("
ToLocale == 304         \* ").toLocaleString()"

JsonInit == pieces = <<>>

-----------------------------------------------------------------------------
RECURSIVE Numeral(_, _)
Numeral(n, base) ==
    (IF n < base THEN <<>> ELSE Numeral(n \div base, base))
        \o <<(IF n % base < 10 THEN 48 ELSE 87) + (n % base)>>

Wide(text) == [i \in 1..4 - Len(text) |-> 48] \o text

CharToStream_rawTab(c) ==
    CASE c \in {Quote, Backslash} -> <<Backslash, c>>
      [] c = 8  -> <<Backslash, Letter.b>>
      [] c = 10 -> <<Backslash, Letter.n>>
      [] OTHER  -> <<c>>

(* The switch of jsonToStream() for strings.                                 *)
CharToStream(c) ==
    CASE c = 8  -> <<Backslash, Letter.b>>
      [] c = 9  -> <<Backslash, Letter.t>>
      [] c = 10 -> <<Backslash, Letter.n>>
      [] c = 12 -> <<Backslash, Letter.f>>
      [] c = 13 -> <<Backslash, Letter.r>>
      [] c \in {Quote, Backslash} -> <<Backslash, c>>
      [] c \in 1..31 \ {8, 9, 10, 12, 13} -> <<Backslash, Letter.u>> \o Wide(Numeral(c, 16))
      [] OTHER -> <<c>>

Named == {8, 9, 10, 12, 13}
SetsHex(text) == \E i \in 1..Len(text) : text[i] < 32 /\ text[i] \notin Named

(* A stream: what is in it, its number base, and whether it has been given   *)
(* an odd value.                                                             *)
NewStream == [text |-> <<>>, hex |-> FALSE, odd |-> FALSE]
Emit(str, text) == [str EXCEPT !.text = @ \o text]
EmitOdd(str, text, odd) == [Emit(str, text) EXCEPT !.odd = @ \/ odd]

TextToStream(str, text) ==
    [Emit(str, <<Quote>> \o FlattenSeq([i \in 1..Len(text) |-> CharToStream(text[i])]) \o <<Quote>>)
        EXCEPT !.hex = @ \/ SetsHex(text)]
NumberToStream(str, n) == EmitOdd(str, Numeral(n, IF str.hex THEN 16 ELSE 10), str.hex /\ n > 9)

(* Six digits, without zeros at the end; the base is for whole numbers only. *)
SixDigits(r) == (r + 5) \div 10
RealToStream(str, r) ==
    LET digits == Numeral(SixDigits(r), 10)
        last == CHOOSE i \in 2..6 : digits[i] # 48 /\ \A j \in i + 1..6 : digits[j] = 48
    IN  Emit(str, <<digits[1], Point>> \o SubSeq(digits, 2, last))
FlagToStream(str, b) == Emit(str, <<IF b THEN True ELSE False>>)
TimeToStream(str, t) == Emit(NumberToStream(Emit(str, <<NewDate>>), t * 1000), <<ToLocale>>)
PieceToStream(str, p) == EmitOdd(str, pieces[p].text, pieces[p].odd)

(* What a type's own operator<< writes goes between quotes as it is: a       *)
(* string_view, a path, a char* that is not const.                           *)
Escapes(text) == \E i \in 1..Len(text) : CharToStream(text[i]) # <<text[i]>>
ShownToStream(str, text) == EmitOdd(str, <<Quote>> \o text \o <<Quote>>, Escapes(text))
BareToStream(str, c) == EmitOdd(str, <<c>>, TRUE)

(* jsonToStream() by the type of its argument.                               *)
ValueToStream(str, v) ==
    CASE "text" \in DOMAIN v   -> TextToStream(str, v.text)
      [] "number" \in DOMAIN v -> NumberToStream(str, v.number)
      [] "flag" \in DOMAIN v   -> FlagToStream(str, v.flag)
      [] "time" \in DOMAIN v   -> TimeToStream(str, v.time)
      [] "piece" \in DOMAIN v  -> PieceToStream(str, v.piece)
      [] "real" \in DOMAIN v   -> RealToStream(str, v.real)
      [] "shown" \in DOMAIN v  -> ShownToStream(str, v.shown)
      [] "bare" \in DOMAIN v   -> BareToStream(str, v.bare)

(* The lists of jsonToStream() and of the ...FromContainer() functions, and  *)
(* those of jsonKeyPairToStream().                                           *)
ListToStream(str, list) ==
    LET write(s, i) == ValueToStream(IF i = 1 THEN s ELSE Emit(s, <<Comma>>), list[i])
    IN  FoldLeftDomain(write, str, list)

PairsToStream(str, pairs) ==
    LET before(s, i) == IF i = 1 THEN s ELSE Emit(s, <<Comma>>)
        write(s, i) == ValueToStream(Emit(TextToStream(before(s, i), pairs[i][1]), <<Colon>>), pairs[i][2])
    IN  FoldLeftDomain(write, str, pairs)

-----------------------------------------------------------------------------
(* What a value is to who reads it: of a floating value, six digits.         *)
WhatIs(v) ==
    CASE "piece" \in DOMAIN v -> pieces[v.piece].value
      [] "real" \in DOMAIN v  -> [real |-> 10 * SixDigits(v.real)]
      [] "shown" \in DOMAIN v -> [text |-> v.shown]
      [] OTHER -> v
MeantList(list) == [i \in 1..Len(list) |-> WhatIs(list[i])]
MeantPairs(pairs) == [i \in 1..Len(pairs) |-> <<[text |-> pairs[i][1]], WhatIs(pairs[i][2])>>]

(* The piece made before is in the next one: the bound on what is tried.     *)
Simple == {[text |-> s] : s \in Strings} \cup {[number |-> n] : n \in Numbers}
            \cup {[flag |-> TRUE], [time |-> 3]} \cup {[real |-> r] : r \in Reals}
            \cup {[shown |-> s] : s \in Shown} \cup {[bare |-> c] : c \in Bare}
Values == IF pieces = <<>> THEN Simple ELSE Simple \cup {[piece |-> Len(pieces)]}
Uses(v) == pieces = <<>> \/ "piece" \in DOMAIN v
Lists == {list \in UNION {[1..n -> Values] : n \in 0..MaxItems} :
             pieces = <<>> \/ \E i \in 1..Len(list) : Uses(list[i])}
Pairs == {pairs \in UNION {[1..n -> MapKeys \X Values] : n \in 0..MaxItems} :
             pieces = <<>> \/ \E i \in 1..Len(pairs) : Uses(pairs[i][2])}

Jsonned(str, value) ==
    /\ Len(pieces) < MaxPieces /\ \A i \in 1..Len(pieces) : "stats" \notin DOMAIN pieces[i].value
    /\ pieces' = Append(pieces, [text |-> str.text, value |-> value, odd |-> str.odd])

ToJson(v) == Uses(v) /\ Jsonned(ValueToStream(NewStream, v), WhatIs(v))

MakeArray(list) ==
    Jsonned(Emit(ListToStream(Emit(NewStream, <<Opening.array>>), list), <<Closing.array>>),
            [array |-> MeantList(list)])

MakeMap(pairs) ==
    Jsonned(Emit(PairsToStream(Emit(NewStream, <<Opening.map>>), pairs), <<Closing.map>>),
            [map |-> MeantPairs(pairs)])

MakeExecString(list) ==
    Jsonned(Emit(ListToStream(Emit(NewStream, <<Function, Opening.call>>), list), <<Closing.call>>),
            [call |-> MeantList(list)])

(* getStatsDocument(): a call for every connection, here with one of each    *)
(* kind of its members, of which the application chooses the URI.            *)
StatsPairs(uri) == <<<<<<115>>, [time |-> 3]>>, <<<<102>>, [number |-> 9]>>,
                     <<<<117>>, [text |-> uri]>>, <<<<105>>, [number |-> 16]>>>>
GetStatsDocument(uris) ==
    LET connection(str, i) ==
            Emit(PairsToStream(Emit(str, <<Function, Opening.call, Opening.map>>), StatsPairs(uris[i])),
                <<Closing.map, Closing.call>>)
        doc == FoldLeftDomain(connection, NewStream, uris)
    IN  /\ pieces = <<>>
        /\ Jsonned(doc, [stats |-> [i \in 1..Len(uris) |->
                                        [call |-> <<[map |-> MeantPairs(StatsPairs(uris[i]))]>>]]])

JsonNext ==
    \/ \E v \in Values : ToJson(v)
    \/ \E list \in Lists : MakeArray(list) \/ MakeExecString(list)
    \/ \E pairs \in Pairs : MakeMap(pairs)
    \/ \E a, b \in Strings : GetStatsDocument(<<a, b>>)

-----------------------------------------------------------------------------
(* How it is read: a value and what follows it.                              *)
Bad == [v |-> [bad |-> TRUE], rest |-> <<>>]
Starts(text, c) == text # <<>> /\ text[1] = c

RECURSIVE ReadText(_, _)
ReadText(text, chars) ==
    LET letter(i) == IF i <= Len(text) THEN text[i] ELSE 0
        digit(i) == IF letter(i) \in 48..57 THEN letter(i) - 48 ELSE letter(i) - 87
        char == CASE letter(1) # Backslash -> letter(1)
                  [] letter(1) = Backslash /\ letter(2) = Letter.b -> 8
                  [] letter(1) = Backslash /\ letter(2) = Letter.t -> 9
                  [] letter(1) = Backslash /\ letter(2) = Letter.n -> 10
                  [] letter(1) = Backslash /\ letter(2) = Letter.f -> 12
                  [] letter(1) = Backslash /\ letter(2) = Letter.r -> 13
                  [] letter(1) = Backslash /\ letter(2) = Letter.u -> 16 * digit(5) + digit(6)
                  [] OTHER -> letter(2)
        taken == IF text[1] # Backslash THEN 1 ELSE IF letter(2) = Letter.u THEN 6 ELSE 2
    IN  IF text = <<>> \/ letter(1) < 32 THEN Bad
        ELSE IF text[1] = Quote THEN [v |-> [text |-> chars], rest |-> Tail(text)]
        ELSE ReadText(SubSeq(text, taken + 1, Len(text)), Append(chars, char))

RECURSIVE ReadNumber(_, _)
ReadNumber(text, n) ==
    IF text # <<>> /\ text[1] \in 48..57 THEN ReadNumber(Tail(text), 10 * n + text[1] - 48)
    ELSE [v |-> n, rest |-> text]

RECURSIVE ReadValue(_), ReadItems(_, _, _)
ReadValue(text) ==
    LET after == IF text = <<>> THEN <<>> ELSE Tail(text)
        number == ReadNumber(text, 0)
        fraction == ReadNumber(Tail(number.rest), 0)
        decimals == Len(number.rest) - 1 - Len(fraction.rest)
        time == ReadNumber(after, 0)
    IN  CASE Starts(text, Quote) -> ReadText(after, <<>>)
          [] Starts(text, True) -> [v |-> [flag |-> TRUE], rest |-> after]
          [] Starts(text, False) -> [v |-> [flag |-> FALSE], rest |-> after]
          [] Starts(text, NewDate) /\ Starts(time.rest, ToLocale) ->
                [v |-> [time |-> time.v \div 1000], rest |-> Tail(time.rest)]
          [] Starts(text, Opening.array) -> ReadItems(after, "array", <<>>)
          [] Starts(text, Opening.map) -> ReadItems(after, "map", <<>>)
          [] Starts(text, Function) /\ Starts(after, Opening.call) -> ReadItems(Tail(after), "call", <<>>)
          [] number.rest # text /\ Starts(number.rest, Point) ->
                [v |-> [real |-> 1000000 * number.v + fraction.v * 10 ^ (6 - decimals)],
                 rest |-> fraction.rest]
          [] number.rest # text /\ ~Starts(number.rest, Point) -> [v |-> [number |-> number.v], rest |-> number.rest]
          [] OTHER -> Bad

ReadItems(text, kind, items) ==
    LET item == ReadValue(text)
        second == IF Starts(item.rest, Colon) THEN ReadValue(Tail(item.rest)) ELSE Bad
        read == IF kind = "map" THEN [v |-> <<item.v, second.v>>, rest |-> second.rest] ELSE item
    IN  IF items = <<>> /\ Starts(text, Closing[kind]) THEN [v |-> kind :> <<>>, rest |-> Tail(text)]
        ELSE IF Starts(read.rest, Closing[kind])
        THEN [v |-> kind :> Append(items, read.v), rest |-> Tail(read.rest)]
        ELSE IF Starts(read.rest, Comma) THEN ReadItems(Tail(read.rest), kind, Append(items, read.v))
        ELSE Bad

RECURSIVE ReadStats(_)
ReadStats(text) ==
    LET read == ReadValue(text)
    IN  IF text = <<>> THEN <<>> ELSE <<read.v>> \o ReadStats(read.rest)

(* Whatever quotes, backslashes and control characters the texts have, and   *)
(* whatever the pieces are put into, each is read back as what was asked     *)
(* for; but for a number that follows a control character without a name in  *)
(* the same stream, of the statistics as well; a value of another type that  *)
(* streams a quote, a backslash or a control character; and a char, or a     *)
(* word that is no JSON.                                                     *)
JsonReadsBack ==
    \A k \in 1..Len(pieces) :
        LET p == pieces[k]
        IN  \/ \E j \in 1..k : pieces[j].odd
            \/ "stats" \in DOMAIN p.value /\ ReadStats(p.text) = p.value.stats
            \/ "stats" \notin DOMAIN p.value /\ ReadValue(p.text) = [v |-> p.value, rest |-> <<>>]
=============================================================================
