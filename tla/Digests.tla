------------------------------ MODULE Digests ------------------------------
(* The digests of the two WebSocket handshakes, fed piece by piece           *)
(* (sha1/sha1.cpp, md5/md5.cpp): how the pieces are put together into blocks *)
(* of B bytes, and how the last block is padded and given the length of the  *)
(* message.  What a block does to the chaining value is not modelled: a      *)
(* digest is determined by the sequence of blocks it was computed from.      *)
(* The length is counted in bits in two words.  Bytes of the message are     *)
(* numbered from Data, so that they differ from bytes of padding and length. *)
(* Names ..._<what is wrong> are slips that the checks must notice; no action *)
(* uses them.                                                                *)
EXTENDS Integers, Sequences, SequencesExt

CONSTANTS
    B,              \* bytes of a block, 64 in the code
    WordSize,       \* 2^32 in the code; a multiple of the bits of a block
    Pieces,         \* lengths of the pieces the program passes
    MaxMessageSize  \* bound: the longest message

ASSUME BlockAssumption == B \in Nat /\ B > 9
ASSUME WordSizeAssumption == WordSize \in Nat /\ WordSize > 0 /\ WordSize % (8 * B) = 0
ASSUME LengthAssumption ==
    /\ Pieces \subseteq Nat /\ MaxMessageSize \in Nat
    /\ 8 * MaxMessageSize < WordSize * WordSize     \* a message of 2^61 bytes or more has no digest

VARIABLES
    digest,         \* "none", "sha1" or "md5"
    buf,            \* the bytes that wait for a block to be full
    low, high,      \* Length_Low and Length_High, count[0] and count[1]
    computed, corrupted,    \* Computed and Corrupted; computed: md5_finish() too
    blocks,         \* the blocks processed so far
    length          \* history: bytes passed so far

dgvars == <<digest, buf, low, high, computed, corrupted, blocks, length>>

Data == 1000
Octet(w, i) == (w \div 256^i) % 256
Zeros(n) == [i \in 1..n |-> 0]

DigestInit ==
    /\ digest = "none" /\ buf = <<>> /\ low = 0 /\ high = 0
    /\ computed = FALSE /\ corrupted = FALSE /\ blocks = <<>> /\ length = 0

NewDigest(which) ==
    /\ digest = "none" /\ digest' = which
    /\ UNCHANGED <<buf, low, high, computed, corrupted, blocks, length>>

State == [buf |-> buf, low |-> low, high |-> high, corrupted |-> corrupted, blocks |-> blocks]
Becomes(d) ==
    /\ buf' = d.buf /\ low' = d.low /\ high' = d.high
    /\ corrupted' = d.corrupted /\ blocks' = d.blocks

(* ProcessMessageBlock() and md5_process(): what they make of the blocks     *)
(* depends on the blocks and on their order alone.                           *)
Process(d, block) == [d EXCEPT !.blocks = Append(@, block)]
Md5Process(d, block) == [d EXCEPT !.blocks = Append(@, block)]

-----------------------------------------------------------------------------
(* SHA1: one byte of Input().                                                *)
InputByte(d, byte) ==
    LET full == Append(d.buf, byte)
        l == (d.low + 8) % WordSize
        h == IF l = 0 THEN (d.high + 1) % WordSize ELSE d.high
        counted == [d EXCEPT !.buf = full, !.low = l, !.high = h, !.corrupted = l = 0 /\ h = 0]
    IN  IF d.corrupted THEN d
        ELSE IF Len(full) = B THEN Process([counted EXCEPT !.buf = <<>>], full)
        ELSE counted

Sha1Input(data) ==
    IF data = <<>> THEN UNCHANGED <<buf, low, high, corrupted, blocks>>
    ELSE IF computed THEN corrupted' = TRUE /\ UNCHANGED <<buf, low, high, blocks>>
    ELSE Becomes(FoldLeft(InputByte, State, data))

Sha1Length(d) ==
    [i \in 1..8 |-> IF i <= 4 THEN Octet(d.high, 4 - i) ELSE Octet(d.low, 8 - i)]

PadMessage_oneBlock(d) ==
    Process([d EXCEPT !.buf = <<>>],
            d.buf \o <<128>> \o Zeros((B - 9 - Len(d.buf)) % B) \o Sha1Length(d))

PadMessage(d) ==
    IF Len(d.buf) > B - 9
    THEN LET first == Process(d, d.buf \o <<128>> \o Zeros(B - 1 - Len(d.buf)))
         IN  Process([first EXCEPT !.buf = <<>>], Zeros(B - 8) \o Sha1Length(d))
    ELSE Process([d EXCEPT !.buf = <<>>],
                 d.buf \o <<128>> \o Zeros(B - 9 - Len(d.buf)) \o Sha1Length(d))

-----------------------------------------------------------------------------
(* md5_append(): it counts the bytes, completes the block it has begun,      *)
(* processes whole blocks where they lie, and keeps the rest.                *)
Md5Count(d, n) ==
    LET nbits == (8 * n) % WordSize
        l == (d.low + nbits) % WordSize
    IN  [d EXCEPT !.low = l,
                  !.high = (@ + (8 * n) \div WordSize + IF l < nbits THEN 1 ELSE 0) % WordSize]

BlocksOf(data) == [k \in 1..Len(data) \div B |-> SubSeq(data, B * (k - 1) + 1, B * k)]
Md5Blocks(d, data) ==
    [FoldLeft(Md5Process, d, BlocksOf(data)) EXCEPT
        !.buf = SubSeq(data, B * (Len(data) \div B) + 1, Len(data))]

Md5Append(d, data) ==
    LET n == Len(data)
        offset == (d.low \div 8) % B
        counted == Md5Count(d, n)
        copy == IF offset + n > B THEN B - offset ELSE n
        begun == SubSeq(d.buf, 1, offset) \o SubSeq(data, 1, copy)
    IN  IF n = 0 THEN d
        ELSE IF offset = 0 THEN Md5Blocks(counted, data)
        ELSE IF offset + copy < B THEN [counted EXCEPT !.buf = begun]
        ELSE Md5Blocks(Md5Process(counted, begun), SubSeq(data, copy + 1, n))

(* md5_finish(): the length is saved before the padding is appended.         *)
Md5Finish(d) ==
    LET saved == [i \in 1..8 |-> IF i <= 4 THEN Octet(d.low, i - 1) ELSE Octet(d.high, i - 5)]
        padding == <<128>> \o Zeros((B - 9 - d.low \div 8) % B)
    IN  Md5Append(Md5Append(d, padding), saved)

-----------------------------------------------------------------------------
(* The program appends a piece of n bytes; to a corrupted SHA1, nothing more *)
(* would happen.                                                             *)
Feed(n) ==
    LET data == [i \in 1..n |-> Data + length + i]
    IN  /\ digest # "none" /\ ~corrupted /\ length + n <= MaxMessageSize
        /\ computed => digest = "sha1"
        /\ IF digest = "sha1" THEN Sha1Input(data) ELSE Becomes(Md5Append(State, data))
        /\ length' = length + n
        /\ UNCHANGED <<digest, computed>>

(* Result() and md5_finish(); Result() may be asked for again.               *)
Finish ==
    /\ digest # "none" /\ ~corrupted /\ (computed => digest = "sha1")
    /\ computed' = TRUE
    /\ IF computed THEN UNCHANGED <<buf, low, high, corrupted, blocks>>
       ELSE Becomes(IF digest = "sha1" THEN PadMessage(State) ELSE Md5Finish(State))
    /\ UNCHANGED <<digest, length>>

DigestNext ==
    \/ \E which \in {"sha1", "md5"} : NewDigest(which)
    \/ \E n \in Pieces : Feed(n)
    \/ Finish

DigestSpec == DigestInit /\ [][DigestNext]_dgvars

-----------------------------------------------------------------------------
(* The message, a one bit, as few zeros as reach the last 8 bytes of a       *)
(* block, and the number of its bits, most or least significant byte first.  *)
Padded ==
    LET bits == 8 * length
        word == [i \in 1..8 |-> IF i <= 4 THEN Octet(bits \div WordSize, 4 - i)
                                ELSE Octet(bits % WordSize, 8 - i)]
        zeros == CHOOSE z \in 0..B - 1 : (length + 1 + z + 8) % B = 0
    IN  [i \in 1..length |-> Data + i] \o <<128>> \o Zeros(zeros)
            \o IF digest = "sha1" THEN word ELSE Reverse(word)

(* Whatever the pieces, both digests are computed from the padded message:   *)
(* no byte is lost, repeated or left in the buffer when a piece ends inside  *)
(* a block, at its end or beyond it, the last block has room for the length, *)
(* and the length carries from its low to its high word.  SHA1 says so when  *)
(* something was added after the result.                                     *)
DigestsWhateverTheCuts ==
    computed /\ ~corrupted => FlattenSeq(blocks) = Padded /\ \A k \in 1..Len(blocks) : Len(blocks[k]) = B
=============================================================================
