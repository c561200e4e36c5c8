---------------------------- MODULE StaticRanges ----------------------------
(* A static file sent in ranges (Connection.cpp): parseRanges(),             *)
(* processRangesForStaticData(), which says in the header what will come,    *)
(* and the loop of sendStaticData(), which reads the file piece by piece     *)
(* while others may cut it short.                                            *)
(* A range of the header is [form, a, b]: "a-b" (with a <= b), "a-", "-a",   *)
(* text without a minus, or text that std::stoi() does not take.             *)
(* Names ..._<what is wrong> are slips that the checks must notice; no action *)
(* uses them.                                                                *)
EXTENDS Integers, Sequences, FiniteSets, SequencesExt

CONSTANTS
    FileSizes,      \* sizes of the files
    RangeHeaders,   \* Range: headers, sequences of ranges; <<>> is no header
    PieceSize       \* ReadWriteBufferSize

VARIABLES
    doing,          \* "idle", "send", or how it ended
    size,           \* st_size when the file was opened
    disk,           \* the size of the file now
    asked,          \* the Range: header
    toSend,         \* the ranges still to be sent; the first is being sent
    position,       \* where the next read() reads
    left,           \* bytesLeft
    \* history
    contentLength,  \* of the header that was sent
    body            \* positions of the bytes that were sent

rgvars == <<doing, size, disk, asked, toSend, position, left, contentLength, body>>

RangesInit ==
    /\ doing = "idle" /\ size = 0 /\ disk = 0 /\ asked = <<>> /\ toSend = <<>>
    /\ position = 0 /\ left = 0 /\ contentLength = 0 /\ body = <<>>

(* A long that is greater than the size of any file.                         *)
LongMax == 1000000

Forms == {"a-b", "a-", "-a", "no minus", "no number"}
AskedRanges == {r \in [form : Forms, a : Nat, b : Nat] : r.form = "a-b" => r.a <= r.b}

ASSUME RangesAssumption ==
    /\ FileSizes \subseteq 0..LongMax - 1
    /\ RangeHeaders \subseteq Seq(AskedRanges)
    /\ PieceSize \in Nat

(* parseRange(), of a range that it takes.                                   *)
ParseRange(r) ==
    CASE r.form = "a-b" -> [start |-> r.a, end |-> r.b]
      [] r.form = "a-"  -> [start |-> r.a, end |-> LongMax]
      [] r.form = "-a"  -> [start |-> -r.a, end |-> LongMax]

(* parseRanges() goes from left to right up to what it cannot read.          *)
ParseRanges(header) ==
    LET odd == {i \in 1..Len(header) : header[i].form \in {"no minus", "no number"}}
        first == CHOOSE i \in odd : \A j \in odd : i <= j
    IN  IF odd = {} THEN "ok" ELSE IF header[first].form = "no minus" THEN "bad" ELSE "throws"

Clamp_endOnly(r, fileSize) ==
    [start |-> IF r.start < 0 THEN r.start + fileSize ELSE r.start,
     end   |-> IF r.end > fileSize THEN fileSize - 1 ELSE r.end]

(* The loop of processRangesForStaticData().                                 *)
Clamp(r, fileSize) ==
    LET start == IF r.start < 0 THEN r.start + fileSize ELSE r.start
    IN  [start |-> IF start >= fileSize THEN fileSize - 1 ELSE start,
         end   |-> IF r.end >= fileSize THEN fileSize - 1 ELSE r.end]

Length(r) == r.end - r.start + 1

SendRanges(header, fileSize) ==
    IF header = <<>> THEN <<[start |-> 0, end |-> fileSize - 1]>>
    ELSE [i \in 1..Len(header) |-> Clamp(ParseRange(header[i]), fileSize)]

TotalLength(ranges) == FoldLeft(LAMBDA sum, r : sum + Length(r), 0, ranges)

(* The next range, if there is one: an lseek() to before the file fails.     *)
Seek(ranges) ==
    IF ranges = <<>> THEN doing' = "sent" /\ toSend' = <<>> /\ UNCHANGED <<position, left>>
    ELSE IF Head(ranges).start < 0
    THEN doing' = "unseekable" /\ toSend' = ranges /\ UNCHANGED <<position, left>>
    ELSE /\ doing' = "send" /\ toSend' = ranges
         /\ position' = Head(ranges).start /\ left' = Length(Head(ranges))

(* sendStaticData() up to its loop.                                          *)
SendStaticData(fileSize, header) ==
    /\ doing = "idle"
    /\ size' = fileSize /\ disk' = fileSize /\ asked' = header /\ body' = <<>>
    /\ \/ /\ ParseRanges(header) # "ok"
          /\ doing' = ParseRanges(header)
          /\ UNCHANGED <<toSend, position, left, contentLength>>
       \/ /\ ParseRanges(header) = "ok"
          /\ contentLength' = TotalLength(SendRanges(header, fileSize))
          /\ Seek(SendRanges(header, fileSize))

(* read() of n bytes and their write().                                      *)
ReadPiece(n) ==
    /\ doing = "send" /\ left > 0
    /\ n <= PieceSize /\ n <= left /\ position + n <= disk
    /\ body' = body \o [i \in 1..n |-> position + i - 1]
    /\ position' = position + n /\ left' = left - n
    /\ UNCHANGED <<doing, size, disk, asked, toSend, contentLength>>

EndOfRange ==
    /\ doing = "send" /\ left = 0
    /\ Seek(Tail(toSend))
    /\ UNCHANGED <<size, disk, asked, contentLength, body>>

(* An unexpected end of the file, or a write() to a closed connection.       *)
GivesUp(why) ==
    /\ doing = "send" /\ left > 0
    /\ why = "eof" => position >= disk
    /\ doing' = why
    /\ UNCHANGED <<size, disk, asked, toSend, position, left, contentLength, body>>

FileIsCut ==
    /\ doing = "send" /\ disk = size /\ disk > 0
    /\ disk' \in 0..disk - 1
    /\ UNCHANGED <<doing, size, asked, toSend, position, left, contentLength, body>>

RangesNext ==
    \/ \E fileSize \in FileSizes, header \in RangeHeaders : SendStaticData(fileSize, header)
    \/ \E n \in 1..PieceSize : ReadPiece(n)
    \/ EndOfRange
    \/ \E why \in {"eof", "closed"} : GivesUp(why)
    \/ FileIsCut

RangesSpec == RangesInit /\ [][RangesNext]_rgvars

-----------------------------------------------------------------------------
(* What a range asks for, when it is within the file at least in part.       *)
Within(r, fileSize) ==
    CASE r.form \in {"a-b", "a-"} -> r.a < fileSize
      [] r.form = "-a" -> r.a \in 1..fileSize
      [] OTHER -> FALSE

Wanted(r, fileSize) ==
    {p \in 0..fileSize - 1 :
        CASE r.form = "a-b" -> r.a <= p /\ p <= r.b
          [] r.form = "a-"  -> r.a <= p
          [] r.form = "-a"  -> p >= fileSize - r.a}

WantedRanges(header, fileSize) ==
    IF header = <<>> THEN <<0..fileSize - 1>>
    ELSE [i \in 1..Len(header) |-> Wanted(header[i], fileSize)]

(* The numbers of a finite set, the lowest first.                            *)
Ascending(S) == [i \in 1..Cardinality(S) |-> CHOOSE p \in S : Cardinality({q \in S : q <= p}) = i]

(* Each range is sent whole, in the order asked for, in pieces of any size:  *)
(* a client that asked for what the file has gets exactly that, and as much  *)
(* as Content-Length says, so that the next answer begins where it expects   *)
(* it; a file that nobody cuts is not found too short.                       *)
BodyIsWhatWasAsked ==
    (\A i \in 1..Len(asked) : Within(asked[i], size)) =>
        LET ranges == WantedRanges(asked, size)
        IN  /\ doing # "unseekable" /\ (doing = "eof" => disk < size)
            /\ doing = "sent" =>
                  /\ Len(body) = contentLength
                  /\ body = FlattenSeq([i \in 1..Len(ranges) |-> Ascending(ranges[i])])
=============================================================================
