---------------------------- MODULE WireProofs ----------------------------
(* What comes over the wire means the same however its bytes are cut:        *)
(* frames, for HybiFrames keeps FramesReadBack; requests, for RequestHead    *)
(* keeps RequestsWhateverTheCuts; and the digests of the handshakes are      *)
(* those of the whole message, for Digests keeps DigestsWhateverTheCuts.     *)
EXTENDS HybiFrames, Digests, RequestHead, FoldProofs, SequenceTheorems

-----------------------------------------------------------------------------
(* A length reads back from its bytes.                                       *)

(* The four bytes of a number.                                               *)
LEMMA Bytes ==
    ASSUME NEW n \in Lengths
    PROVE  /\ Byte(n, 0) = n % 256 /\ Byte(n, 1) = (n \div 256) % 256
           /\ Byte(n, 2) = (n \div 65536) % 256 /\ Byte(n, 3) = (n \div 16777216) % 256
           /\ \A i \in 0..3 : Byte(n, i) \in 0..255
  <1>1. n \in Nat
    BY DEF Lengths
  <1>2. n \div 1 = n
    BY <1>1
  <1>3. <<1, 256, 65536, 16777216>>[0 + 1] = 1 /\ <<1, 256, 65536, 16777216>>[1 + 1] = 256
        /\ <<1, 256, 65536, 16777216>>[2 + 1] = 65536
        /\ <<1, 256, 65536, 16777216>>[3 + 1] = 16777216
    OBVIOUS
  <1>4. /\ Byte(n, 0) = n % 256 /\ Byte(n, 1) = (n \div 256) % 256
        /\ Byte(n, 2) = (n \div 65536) % 256 /\ Byte(n, 3) = (n \div 16777216) % 256
    BY <1>2, <1>3 DEF Byte
  <1>5. Byte(n, 0) \in 0..255 /\ Byte(n, 1) \in 0..255 /\ Byte(n, 2) \in 0..255
        /\ Byte(n, 3) \in 0..255
    BY <1>1, <1>4
  <1>6. \A i \in 0..3 : i = 0 \/ i = 1 \/ i = 2 \/ i = 3
    OBVIOUS
  <1> QED BY <1>4, <1>5, <1>6

(* What sendHybiData() writes of a length, decodeNextMessage() reads as it   *)
(* was.                                                                      *)
LEMMA LengthReadsBack ==
    ASSUME NEW n \in Lengths
    PROVE  PayloadLength(LengthBytes(n)) = n
  <1>1. n \in Nat /\ n \div 65536 < 65536
    BY DEF Lengths
  <1>2. CASE n < 126
    BY <1>1, <1>2 DEF LengthBytes, PayloadLength
  <1>3. CASE n >= 126 /\ n < 65536
    <2>1. LengthBytes(n) = <<126, Byte(n, 1), Byte(n, 0)>>
      BY <1>1, <1>3 DEF LengthBytes
    <2>2. PayloadLength(LengthBytes(n)) = Byte(n, 1) * 256 + Byte(n, 0)
      BY <2>1 DEF PayloadLength
    <2>3. ((n \div 256) % 256) * 256 + (n % 256) = n
      BY <1>1, <1>3
    <2> QED BY <2>2, <2>3, Bytes
  <1>4. CASE n >= 65536
    <2>1. LengthBytes(n) = <<127, 0, 0, 0, 0, Byte(n, 3), Byte(n, 2), Byte(n, 1), Byte(n, 0)>>
      BY <1>1, <1>4 DEF LengthBytes
    <2>2. PayloadLength(LengthBytes(n)) =
             (Byte(n, 3) * 256 + Byte(n, 2)) * 65536 + (Byte(n, 1) * 256 + Byte(n, 0))
      BY <2>1 DEF PayloadLength
    <2>3. ((n \div 16777216) % 256) * 256 + ((n \div 65536) % 256) = n \div 65536
      BY <1>1, <1>4
    <2>4. ((n \div 256) % 256) * 256 + (n % 256) = n % 65536
      BY <1>1, <1>4
    <2>5. (n \div 65536) * 65536 + (n % 65536) = n
      BY <1>1
    <2> QED BY <2>2, <2>3, <2>4, <2>5, Bytes
  <1> QED BY <1>1, <1>2, <1>3, <1>4

-----------------------------------------------------------------------------
(* The inductive invariant.                                                  *)
Messages == [op : Opcodes, frame : Nat, is : {"message", "nothing", "garbage"}]
Headers == {[len |-> n, header |-> LengthBytes(n)] : n \in Lengths}
States == [inflater : {"aligned", "owed", "literal"}, delivered : Seq(Messages), shut : BOOLEAN,
           cut : BOOLEAN, sent : Seq(Headers), next : 1..Len(stream) + 1, done : BOOLEAN]

TypeOK ==
    /\ proto \in {"http", "hybi", "hixie"} /\ perMessageDeflate \in BOOLEAN
    /\ stream \in Seq(Frames) /\ arrived \in 0..Total /\ next \in 1..Len(stream) + 1
    /\ inflater \in {"aligned", "owed", "literal"} /\ shut \in BOOLEAN
    /\ sent \in Seq(Headers) /\ delivered \in Seq(Messages) /\ cut \in BOOLEAN

(* Before the handshake nothing has been sent; a Hixie client sends what     *)
(* Upgrade lets it.                                                          *)
Protocols ==
    /\ proto = "http" => /\ stream = <<>> /\ next = 1 /\ inflater = "aligned" /\ ~shut
                         /\ delivered = <<>>
    /\ proto = "hixie" => \A j \in 1..Len(stream) : stream[j].op \in {"Text", "Close"}

(* The frames before the one at the front were all taken for what they are.  *)
Taken(st, got) ==
    /\ st.inflater = "aligned" /\ Offset(st.next) <= got
    /\ \A j \in 1..st.next - 1 : ~Ends(stream[j])
    /\ st.delivered = MessagesOf(st.next - 1)

(* The one at the front is not all there.                                    *)
Waits(n, got) == n <= Len(stream) => got < Offset(n) + Size(stream[n])

Here == [inflater |-> inflater, delivered |-> delivered, next |-> next]

(* Unless a deflated frame was cut, the connection has taken the frames that *)
(* are there, and is closed only by one that asks for it or is too long.     *)
Whole ==
    /\ Taken(Here, arrived)
    /\ ~shut => Waits(next, arrived)
    /\ shut => next <= Len(stream) /\ (Ends(stream[next]) \/ Size(stream[next]) > MaxMessage)

IInv == TypeOK /\ Protocols /\ (cut \/ Whole)

-----------------------------------------------------------------------------
(* Where frames begin, and what the client means by the first of them.       *)

(* A frame has bytes.                                                        *)
LEMMA SizeType ==
    ASSUME NEW f \in Frames
    PROVE  /\ Len(LengthBytes(f.len)) \in Nat /\ f.len \in Nat
           /\ Size(f) \in Nat /\ Size(f) >= 2
  <1>1. f.len \in Nat
    BY DEF Frames, Lengths
  <1>2. Len(LengthBytes(f.len)) \in {1, 3, 9}
    BY DEF LengthBytes
  <1> QED BY <1>1, <1>2 DEF Size, MaskSize

(* The frames are one after the other, from the first byte on.               *)
LEMMA OffsetStep ==
    ASSUME stream \in Seq(Frames)
    PROVE  /\ Offset(1) = 0 /\ \A j \in 1..Len(stream) + 1 : Offset(j) \in Nat
           /\ \A j \in 1..Len(stream) : Offset(j + 1) = Offset(j) + Size(stream[j])
  <1> DEFINE n == Len(stream)
             F == [x \in Nat \X (1..n) |-> x[1] + Size(stream[x[2]])]
             G == CHOOSE end : end = [k \in 0..Len(stream) |->
                                 IF k = 0 THEN 0 ELSE end[k - 1] + Size(stream[k])]
  <1>1. n \in Nat /\ \A k \in 1..n : Size(stream[k]) \in Nat
    BY SizeType
  <1>2. F \in [Nat \X (1..n) -> Nat] /\ \A x \in Nat, k \in 1..n : F[<<x, k>>] = x + Size(stream[k])
    BY <1>1
  <1> HIDE DEF F
  <1>3. PICK f : IsRun(f, Nat, F, 0, n)
    BY <1>1, <1>2, RunExists
  <1>4. f = [k \in 0..n |-> IF k = 0 THEN 0 ELSE f[k - 1] + Size(stream[k])]
    <2>1. ASSUME NEW k \in 0..n, k # 0 PROVE f[k] = f[k - 1] + Size(stream[k])
      <3>1. k \in 1..n /\ k - 1 \in 0..n
        BY <1>1, <2>1
      <3> QED BY <1>2, <1>3, <2>1, <3>1 DEF IsRun
    <2> QED BY <1>3, <2>1 DEF IsRun
  <1>5. G = [k \in 0..n |-> IF k = 0 THEN 0 ELSE G[k - 1] + Size(stream[k])]
    BY <1>4, Zenon
  <1>6. \A j : Offset(j) = G[j - 1]
    BY DEF Offset
  <1> HIDE DEF G
  <1> DEFINE K == {k \in 0..n : G[k] \in Nat}
  <1>7. \A k \in 0..n : k \in K
    <2>1. 0 \in K
      BY <1>1, <1>5
    <2>2. ASSUME NEW k \in 1..n, k - 1 \in K PROVE k \in K
      <3>1. k \in 0..n /\ k # 0 /\ k - 1 \in 0..n
        BY <1>1
      <3> QED BY <1>1, <1>5, <2>2, <3>1
    <2> HIDE DEF K
    <2> QED BY <1>1, <2>1, <2>2, RunInduction
  <1>8. \A j \in 1..n + 1 : j - 1 \in 0..n
    BY <1>1
  <1>9. ASSUME NEW j \in 1..n PROVE Offset(j + 1) = Offset(j) + Size(stream[j])
    <2>1. j \in 0..n /\ j # 0 /\ (j + 1) - 1 = j
      BY <1>1
    <2> QED BY <1>5, <1>6, <2>1
  <1>10. Offset(1) = 0
    <2>1. 0 \in 0..n /\ 1 - 1 = 0
      BY <1>1
    <2>2. G[0] = 0
      BY <1>5, <2>1
    <2> QED BY <1>6, <2>1, <2>2
  <1> QED BY <1>6, <1>7, <1>8, <1>9, <1>10

(* A frame that comes later begins later.                                    *)
LEMMA OffsetGrows ==
    ASSUME stream \in Seq(Frames), NEW i \in 1..Len(stream) + 1, NEW j \in 1..Len(stream) + 1, i <= j
    PROVE  Offset(i) <= Offset(j)
  <1> DEFINE n == j - i
             K == {k \in 0..n : Offset(i) <= Offset(i + k)}
  <1>1. n \in Nat /\ i + n = j /\ \A k \in 0..n : i + k \in 1..Len(stream) + 1
    OBVIOUS
  <1>2. \A k \in 1..Len(stream) + 1 : Offset(k) \in Nat
    BY OffsetStep
  <1>3. 0 \in K
    BY <1>1, <1>2
  <1>4. ASSUME NEW k \in 1..n, k - 1 \in K PROVE k \in K
    <2> DEFINE m == i + (k - 1)
    <2>1. m \in 1..Len(stream) /\ i + k = m + 1 /\ k \in 0..n /\ k - 1 \in 0..n
      OBVIOUS
    <2>2. Offset(i) <= Offset(m)
      BY <1>4
    <2> HIDE DEF m
    <2>3. Offset(m + 1) = Offset(m) + Size(stream[m]) /\ Size(stream[m]) \in Nat
      BY <2>1, OffsetStep, SizeType
    <2>4. Offset(m) \in Nat /\ Offset(i) \in Nat
      BY <1>2, <2>1
    <2>5. Offset(i) <= Offset(m + 1)
      BY <2>2, <2>3, <2>4
    <2> QED BY <2>1, <2>5
  <1> HIDE DEF K, n
  <1>5. n \in K
    <2>1. \A k \in 0..n : k \in K
      BY <1>1, <1>3, <1>4, RunInduction
    <2> QED BY <1>1, <2>1
  <1> QED BY <1>1, <1>5 DEF K

(* A frame that means a message means one more.                              *)
Means(f) == f.op \in {"Text", "Binary", "Ping"}
Meaning(k) == [op |-> stream[k].op, frame |-> k, is |-> "message"]

(* A frame adds its message, if it has one, to those before it.            *)
LEMMA MessagesStep ==
    ASSUME stream \in Seq(Frames)
    PROVE  /\ MessagesOf(0) = <<>> /\ \A k \in 0..Len(stream) : MessagesOf(k) \in Seq(Messages)
           /\ \A k \in 1..Len(stream) :
                 MessagesOf(k) = IF Means(stream[k]) THEN Append(MessagesOf(k - 1), Meaning(k))
                                 ELSE MessagesOf(k - 1)
  <1> DEFINE n == Len(stream)
             P == Seq(Messages)
             More(x, k) == IF Means(stream[k]) THEN Append(x, Meaning(k)) ELSE x
             F == [x \in P \X (1..n) |-> More(x[1], x[2])]
             G == CHOOSE upTo : upTo = [k \in 0..Len(stream) |->
                    IF k = 0 THEN <<>>
                    ELSE IF stream[k].op \in {"Text", "Binary", "Ping"}
                    THEN Append(upTo[k - 1], [op |-> stream[k].op, frame |-> k, is |-> "message"])
                    ELSE upTo[k - 1]]
  <1>1. n \in Nat /\ <<>> \in P
    OBVIOUS
  <1>2. ASSUME NEW x \in P, NEW k \in 1..n PROVE More(x, k) \in P
    <2>1. stream[k] \in Frames /\ k \in Nat
      BY <1>1
    <2>2. Meaning(k) \in Messages
      BY <2>1 DEF Meaning, Messages, Frames
    <2> QED BY <2>2
  <1>3. F \in [P \X (1..n) -> P] /\ \A x \in P, k \in 1..n : F[<<x, k>>] = More(x, k)
    BY <1>2
  <1> HIDE DEF F, More, P
  <1>4. PICK f : IsRun(f, P, F, <<>>, n)
    BY <1>1, <1>3, RunExists
  <1>5. f = [k \in 0..n |-> IF k = 0 THEN <<>> ELSE More(f[k - 1], k)]
    <2>1. ASSUME NEW k \in 0..n, k # 0 PROVE f[k] = More(f[k - 1], k)
      <3>1. k \in 1..n /\ k - 1 \in 0..n
        BY <1>1, <2>1
      <3> QED BY <1>3, <1>4, <2>1, <3>1 DEF IsRun
    <2> QED BY <1>4, <2>1 DEF IsRun
  <1>6. G = [k \in 0..n |-> IF k = 0 THEN <<>> ELSE More(G[k - 1], k)]
    BY <1>5, Zenon DEF More, Means, Meaning
  <1>7. \A k : MessagesOf(k) = G[k]
    BY DEF MessagesOf
  <1> HIDE DEF G
  <1>8. ASSUME NEW k \in 1..n PROVE G[k] = More(G[k - 1], k)
    <2>1. k \in 0..n /\ k # 0
      BY <1>1
    <2> QED BY <1>6, <2>1
  <1> DEFINE K == {k \in 0..n : G[k] \in P}
  <1>9. \A k \in 0..n : k \in K
    <2>1. 0 \in K
      BY <1>1, <1>6
    <2>2. ASSUME NEW k \in 1..n, k - 1 \in K PROVE k \in K
      <3>1. k \in 0..n /\ G[k - 1] \in P
        BY <1>1, <2>2
      <3> QED BY <1>2, <1>8, <3>1
    <2> HIDE DEF K
    <2> QED BY <1>1, <2>1, <2>2, RunInduction
  <1>10. G[0] = <<>>
    BY <1>1, <1>6
  <1> QED BY <1>7, <1>8, <1>9, <1>10 DEF More, P

(* The messages of fewer frames are the first of those of more.              *)
LEMMA MessagesGrow ==
    ASSUME stream \in Seq(Frames), NEW a \in 0..Len(stream), NEW b \in 0..Len(stream), a <= b
    PROVE  MessagesOf(a) = SubSeq(MessagesOf(b), 1, Len(MessagesOf(a)))
  <1> DEFINE n == b - a
             First(k) == MessagesOf(a) = SubSeq(MessagesOf(a + k), 1, Len(MessagesOf(a)))
                         /\ Len(MessagesOf(a)) <= Len(MessagesOf(a + k))
             K == {k \in 0..n : First(k)}
  <1>1. n \in Nat /\ a + n = b /\ \A k \in 0..n : a + k \in 0..Len(stream)
    OBVIOUS
  <1>2. \A k \in 0..Len(stream) : MessagesOf(k) \in Seq(Messages)
    BY MessagesStep
  <1>3. 0 \in K
    <2>1. MessagesOf(a) \in Seq(Messages) /\ a + 0 = a
      BY <1>2
    <2>2. MessagesOf(a) = SubSeq(MessagesOf(a), 1, Len(MessagesOf(a)))
      BY <2>1
    <2> QED BY <1>1, <2>1, <2>2
  <1>4. ASSUME NEW k \in 1..n, k - 1 \in K PROVE k \in K
    <2> DEFINE m == a + k
               s == MessagesOf(a)
               t == MessagesOf(m - 1)
    <2>1. m \in 1..Len(stream) /\ a + (k - 1) = m - 1 /\ m - 1 \in 0..Len(stream) /\ k \in 0..n
      OBVIOUS
    <2>2. s = SubSeq(t, 1, Len(s)) /\ Len(s) <= Len(t)
      BY <1>4, <2>1
    <2>3. s \in Seq(Messages) /\ t \in Seq(Messages)
      BY <1>2, <2>1
    <2>4. MessagesOf(m) = Append(t, Meaning(m)) \/ MessagesOf(m) = t
      BY <2>1, MessagesStep
    <2> HIDE DEF s, t, m
    <2>5. SubSeq(Append(t, Meaning(m)), 1, Len(s)) = SubSeq(t, 1, Len(s))
      BY <2>2, <2>3
    <2>6. s = SubSeq(MessagesOf(m), 1, Len(s)) /\ Len(s) <= Len(MessagesOf(m))
      BY <2>2, <2>3, <2>4, <2>5
    <2> QED BY <2>1, <2>6 DEF s, m
  <1> HIDE DEF K, n
  <1>5. n \in K
    <2>1. \A k \in 0..n : k \in K
      BY <1>1, <1>3, <1>4, RunInduction
    <2> QED BY <1>1, <2>1
  <1> QED BY <1>1, <1>5 DEF K

-----------------------------------------------------------------------------
(* A turn of the loops.                                                      *)

(* What decodeNextMessage() answers.                                         *)
LEMMA DecodeIs ==
    ASSUME stream \in Seq(Frames), proto = "hybi", NEW got \in Nat,
           next \in 1..Len(stream) + 1, NEW j \in 1..Len(stream), next <= j
    PROVE  LET w == Decode(next, j, got)
               f == stream[j]
           IN  \/ w = "NoMessage" /\ got < Offset(j) + Size(f)
               \/ w = "Error" /\ (~f.fin \/ f.rsv)
               \/ /\ w = f.op /\ f.fin /\ ~f.rsv
                  /\ got > Offset(j) + 1 /\ Offset(j) + Size(f) <= got
  <1> DEFINE f == stream[j]
             a == Offset(j)
             b == Offset(next)
             h == Len(LengthBytes(f.len))
             short == IF f.len < 126 THEN 0 ELSE IF f.len < 65536 THEN 4 ELSE 10
             lacks == \/ got - b < short \/ got - b < (a - b) + 1 + h + MaskSize
                      \/ got - b < (a - b) + 1 + h + MaskSize + f.len
  <1>1. f \in Frames /\ a \in Nat /\ b \in Nat /\ b <= a
    BY OffsetStep, OffsetGrows
  <1>2. Size(f) = 1 + h + MaskSize + f.len /\ f.len \in Nat /\ h \in Nat /\ MaskSize = 4
    BY <1>1, SizeType DEF Size, MaskSize
  <1>3. short \in Nat /\ short <= Size(f)
    <2> HIDE DEF f, h
    <2> QED BY <1>2
  <1>4. Decode(next, j, got) =
            CASE (a - b) + 1 >= got - b -> "NoMessage"
              [] (a - b) + 1 < got - b /\ (~f.fin \/ f.rsv) -> "Error"
              [] (a - b) + 1 < got - b /\ f.fin /\ ~f.rsv /\ lacks -> "NoMessage"
              [] OTHER -> f.op
    BY DEF Decode
  <1> HIDE DEF a, b, h, short
  <1>5. /\ (a - b) + 1 >= got - b <=> got <= a + 1
        /\ (a - b) + 1 < got - b <=> got > a + 1
        /\ lacks <=> got < a + Size(f)
    <2>1. /\ (a - b) + 1 >= got - b <=> got <= a + 1
          /\ (a - b) + 1 < got - b <=> got > a + 1
      BY <1>1
    <2> DEFINE z == Size(f)
    <2>2. z \in Nat /\ z = 5 + h + f.len
      BY <1>2
    <2> HIDE DEF z, f
    <2>3. lacks => got < a + z
      BY <1>1, <1>2, <1>3, <2>2 DEF z
    <2>4. got < a + z => lacks
      BY <1>1, <1>2, <2>2
    <2> QED BY <2>1, <2>3, <2>4 DEF z
  <1> HIDE DEF lacks
  <1>6. got <= a + 1 => got < a + Size(f)
    BY <1>1, <1>2
  <1>7. f.fin \in BOOLEAN /\ f.rsv \in BOOLEAN
    BY <1>1 DEF Frames
  <1> HIDE DEF f
  <1>8. LET w == Decode(next, j, got)
        IN  \/ w = "NoMessage" /\ got < a + Size(f)
            \/ w = "Error" /\ (~f.fin \/ f.rsv)
            \/ w = f.op /\ f.fin /\ ~f.rsv /\ got > a + 1 /\ a + Size(f) <= got
    <2>1. got <= a + 1 \/ got > a + 1
      BY <1>1
    <2>2. got < a + Size(f) \/ a + Size(f) <= got
      BY <1>1, <1>2
    <2>3. CASE got <= a + 1
      <3>1. Decode(next, j, got) = "NoMessage"
        BY <1>1, <1>4, <1>5, <2>3
      <3> QED BY <1>6, <2>3, <3>1
    <2>4. CASE got > a + 1 /\ (~f.fin \/ f.rsv)
      <3>1. Decode(next, j, got) = "Error"
        BY <1>1, <1>4, <1>5, <2>4
      <3> QED BY <2>4, <3>1
    <2>5. CASE got > a + 1 /\ f.fin /\ ~f.rsv /\ got < a + Size(f)
      <3>1. Decode(next, j, got) = "NoMessage"
        BY <1>1, <1>4, <1>5, <2>5
      <3> QED BY <2>5, <3>1
    <2>6. CASE got > a + 1 /\ f.fin /\ ~f.rsv /\ a + Size(f) <= got
      <3>1. ~lacks
        BY <1>1, <1>2, <1>5, <2>6
      <3>2. Decode(next, j, got) = f.op
        BY <1>1, <1>4, <1>5, <2>6, <3>1
      <3> QED BY <2>6, <3>2
    <2> QED BY <2>1, <2>2, <2>3, <2>4, <2>5, <2>6
  <1> QED BY <1>8 DEF f, a

(* A turn goes on to the next frame or is the last, and forgets no cut.      *)
Went(st, t) ==
    /\ t \in States /\ (st.cut => t.cut) /\ t.next >= st.next
    /\ t.done \/ t.shut \/ t.next = st.next + 1

(* What it leaves is as it should be: either what is there was taken, or a   *)
(* deflated frame was cut.                                                   *)
Left(t, got) ==
    \/ t.cut
    \/ /\ Taken(t, got) /\ (t.done => Waits(t.next, got))
       /\ t.shut => t.next <= Len(stream) /\ Ends(stream[t.next])

(* The states that a turn may leave.                                         *)
LEMMA StatesOfTurn ==
    ASSUME NEW st \in States, NEW i \in {"aligned", "owed", "literal"}, NEW c \in BOOLEAN,
           NEW m \in Messages, NEW h \in Headers, NEW n \in 1..Len(stream) + 1
    PROVE  /\ [st EXCEPT !.inflater = i, !.cut = c] \in States
           /\ [st EXCEPT !.next = n] \in States
           /\ [st EXCEPT !.delivered = Append(@, m)] \in States
           /\ [st EXCEPT !.next = n, !.delivered = Append(@, m)] \in States
           /\ [st EXCEPT !.sent = Append(@, h)] \in States
           /\ [st EXCEPT !.shut = TRUE] \in States /\ [st EXCEPT !.done = TRUE] \in States
  <1>1. st.delivered \in Seq(Messages) /\ st.sent \in Seq(Headers)
    BY DEF States
  <1>2. Append(st.delivered, m) \in Seq(Messages) /\ Append(st.sent, h) \in Seq(Headers)
    BY <1>1
  <1> DEFINE N == 1..Len(stream) + 1
             D == Seq(Messages)
             S == Seq(Headers)
             d == Append(st.delivered, m)
             s == Append(st.sent, h)
             X == [inflater : {"aligned", "owed", "literal"}, delivered : D, shut : BOOLEAN,
                   cut : BOOLEAN, sent : S, next : N, done : BOOLEAN]
  <1>3. st \in X /\ n \in N
    BY DEF States
  <1>4. d \in D /\ s \in S
    BY <1>2
  <1> HIDE DEF d, s, D, S, N
  <1>5. /\ [st EXCEPT !.inflater = i, !.cut = c] \in X
        /\ [st EXCEPT !.next = n] \in X
        /\ [st EXCEPT !.delivered = d] \in X
        /\ [st EXCEPT !.next = n, !.delivered = d] \in X
        /\ [st EXCEPT !.sent = s] \in X
        /\ [st EXCEPT !.shut = TRUE] \in X /\ [st EXCEPT !.done = TRUE] \in X
    BY <1>3, <1>4
  <1> QED BY <1>3, <1>5 DEF States, d, s, D, S, N

(* There are headers and messages.                                           *)
LEMMA HeadersAre ==
    /\ \A n \in Lengths : [len |-> n, header |-> LengthBytes(n)] \in Headers
    /\ \E h : h \in Headers
    /\ \E m : m \in Messages
  <1>1. 0 \in Lengths
    <2>1. 0 \div 65536 < 65536
      OBVIOUS
    <2> QED BY <2>1 DEF Lengths
  <1>2. [op |-> "Text", frame |-> 0, is |-> "message"] \in Messages
    BY DEF Messages, Opcodes
  <1> QED BY <1>1, <1>2 DEF Headers

(* What a frame that is taken leaves.                                        *)
LEMMA TakenOneMore ==
    ASSUME stream \in Seq(Frames), NEW got \in Nat, NEW j \in 1..Len(stream), NEW st, NEW t,
           Taken(st, got), st.next = j, t.next = j + 1, t.inflater = "aligned",
           Offset(j + 1) <= got, ~Ends(stream[j]),
           t.delivered = IF Means(stream[j]) THEN Append(st.delivered, Meaning(j)) ELSE st.delivered
    PROVE  Taken(t, got)
  <1>1. t.delivered = MessagesOf(t.next - 1)
    <2>1. st.delivered = MessagesOf(j - 1) /\ t.next - 1 = j
      BY DEF Taken
    <2> QED BY <2>1, MessagesStep
  <1>2. \A k \in 1..t.next - 1 : ~Ends(stream[k])
    <2>1. \A k \in 1..j - 1 : ~Ends(stream[k])
      BY DEF Taken
    <2>2. \A k \in 1..t.next - 1 : k \in 1..j - 1 \/ k = j
      OBVIOUS
    <2> QED BY <2>1, <2>2
  <1> QED BY <1>1, <1>2 DEF Taken

(* A turn with nothing but the front changed.                                *)
TurnAssumed(st, got) ==
    /\ stream \in Seq(Frames) /\ next \in 1..Len(stream) + 1
    /\ st \in States /\ next <= st.next /\ st.next <= Len(stream) /\ ~st.done /\ ~st.shut

(* handleHixieWebSocket(), one frame.                                        *)
LEMMA HixieTurnTakes ==
    ASSUME NEW st, NEW got \in Nat, TurnAssumed(st, got), proto = "hixie",
           \A j \in 1..Len(stream) : stream[j].op \in {"Text", "Close"}
    PROVE  /\ Went(st, HixieTurn(st, got))
           /\ st.cut \/ Taken(st, got) => Left(HixieTurn(st, got), got)
  <1> DEFINE j == st.next
             f == stream[j]
             t == HixieTurn(st, got)
             text == [op |-> "Text", frame |-> j, is |-> "message"]
  <1>1. /\ stream \in Seq(Frames) /\ j \in 1..Len(stream) /\ f \in Frames
        /\ st \in States /\ ~st.done /\ ~st.shut /\ f.op \in {"Text", "Close"}
    BY DEF TurnAssumed, States
  <1>2. /\ Offset(j) \in Nat /\ Offset(j + 1) = Offset(j) + Size(f) /\ Size(f) \in Nat
        /\ Size(f) >= 2
    BY <1>1, OffsetStep, SizeType
  <1>3. text \in Messages /\ j + 1 \in 1..Len(stream) + 1
    BY <1>1 DEF Messages, Opcodes
  <1>4. /\ got <= Offset(j) => t = [st EXCEPT !.done = TRUE]
        /\ got > Offset(j) /\ f.op # "Text" => t = [st EXCEPT !.shut = TRUE]
        /\ got > Offset(j) /\ f.op = "Text" /\ got < Offset(j + 1) => t = [st EXCEPT !.done = TRUE]
        /\ got > Offset(j) /\ f.op = "Text" /\ got >= Offset(j + 1)
              => t = [st EXCEPT !.next = j + 1, !.delivered = Append(@, text)]
    <2> DEFINE g1 == got <= Offset(j)
               g2 == got > Offset(j)
               g3 == got \in Offset(j) + 1..Offset(j + 1) - 1
    <2>1. t = CASE g1 -> [st EXCEPT !.done = TRUE]
                [] g2 /\ f.op # "Text" -> [st EXCEPT !.shut = TRUE]
                [] g3 /\ f.op = "Text" -> [st EXCEPT !.done = TRUE]
                [] OTHER -> [st EXCEPT !.next = j + 1, !.delivered = Append(@, text)]
      BY DEF HixieTurn, Shut
    <2>2. (g2 <=> ~g1) /\ (g3 => g2) /\ (g2 => (g3 <=> got < Offset(j + 1)))
          /\ (g2 => (~g3 <=> got >= Offset(j + 1)))
      BY <1>2
    <2> HIDE DEF g1, g3, t
    <2>3. g1 => t = [st EXCEPT !.done = TRUE]
      BY <2>1, <2>2, Zenon
    <2>4. g2 /\ f.op # "Text" => t = [st EXCEPT !.shut = TRUE]
      BY <2>1, <2>2, Zenon
    <2>5. g2 /\ f.op = "Text" /\ g3 => t = [st EXCEPT !.done = TRUE]
      BY <2>1, <2>2, Zenon
    <2>6. g2 /\ f.op = "Text" /\ ~g3
             => t = [st EXCEPT !.next = j + 1, !.delivered = Append(@, text)]
      BY <2>1, <2>2, Zenon
    <2> QED BY <2>2, <2>3, <2>4, <2>5, <2>6 DEF g1
  <1> DEFINE Right == Went(st, t) /\ (st.cut \/ Taken(st, got) => Left(t, got))
  <1> SUFFICES Right
    OBVIOUS
  <1> HIDE DEF t
  <1>5. ASSUME t = [st EXCEPT !.done = TRUE], Waits(j, got) PROVE Right
    <2>1. /\ t.inflater = st.inflater /\ t.next = j /\ t.delivered = st.delivered
          /\ t.done /\ t.shut = st.shut /\ t.cut = st.cut
      BY <1>1, <1>5 DEF States
    <2>2. t \in States
      BY <1>1, <1>3, <1>5, StatesOfTurn, HeadersAre
    <2>3. Went(st, t)
      BY <1>1, <2>1, <2>2 DEF Went
    <2> QED BY <1>1, <1>5, <2>1, <2>3 DEF Left, Taken
  <1>6. CASE got <= Offset(j)
    BY <1>2, <1>4, <1>5, <1>6 DEF Waits
  <1>7. CASE got > Offset(j) /\ f.op # "Text"
    <2>1. t = [st EXCEPT !.shut = TRUE]
      BY <1>4, <1>7
    <2>2. /\ t.inflater = st.inflater /\ t.next = j /\ t.delivered = st.delivered
          /\ t.done = st.done /\ t.shut /\ t.cut = st.cut
      BY <1>1, <2>1 DEF States
    <2>3. t \in States
      BY <1>1, <1>3, <2>1, StatesOfTurn, HeadersAre
    <2>4. Went(st, t)
      BY <1>1, <2>2, <2>3 DEF Went
    <2>5. Ends(f)
      BY <1>1, <1>7 DEF Ends
    <2> QED BY <1>1, <2>2, <2>4, <2>5 DEF Left, Taken
  <1>8. CASE got > Offset(j) /\ f.op = "Text" /\ got < Offset(j + 1)
    BY <1>2, <1>4, <1>5, <1>8 DEF Waits
  <1>9. CASE got > Offset(j) /\ f.op = "Text" /\ got >= Offset(j + 1)
    <2>1. t = [st EXCEPT !.next = j + 1, !.delivered = Append(@, text)]
      BY <1>4, <1>9
    <2> HIDE DEF text
    <2>2. /\ t.inflater = st.inflater /\ t.next = j + 1 /\ t.delivered = Append(st.delivered, text)
          /\ t.done = st.done /\ t.shut = st.shut /\ t.cut = st.cut
      BY <1>1, <2>1 DEF States
    <2>3. t \in States
      BY <1>1, <1>3, <2>1, StatesOfTurn, HeadersAre
    <2>4. Went(st, t)
      BY <1>1, <2>2, <2>3 DEF Went
    <2>5. Taken(st, got) => Taken(t, got)
      <3> SUFFICES ASSUME Taken(st, got) PROVE Taken(t, got)
        OBVIOUS
      <3>1. ~Ends(f)
        BY <1>9 DEF Ends
      <3>2. Means(f) /\ text = Meaning(j)
        BY <1>9 DEF Means, Meaning, text
      <3>3. st.inflater = "aligned"
        BY DEF Taken
      <3> QED BY <1>1, <1>9, <2>2, <3>1, <3>2, <3>3, TakenOneMore
    <2> QED BY <1>1, <2>2, <2>4, <2>5 DEF Left
  <1> QED BY <1>1, <1>2, <1>6, <1>7, <1>8, <1>9

(* handleHybiWebSocket(), one frame.                                         *)
LEMMA HybiTurnTakes ==
    ASSUME NEW st, NEW got \in Nat, TurnAssumed(st, got), proto = "hybi",
           perMessageDeflate \in BOOLEAN
    PROVE  /\ Went(st, HybiTurn(st, got))
           /\ st.cut \/ Taken(st, got) => Left(HybiTurn(st, got), got)
  <1> DEFINE j == st.next
             f == stream[j]
             what == Decode(next, j, got)
             needed == DeflateNeeded(j, got)
             r == Inflate(st.inflater, what # "NoMessage")
             c == st.cut \/ what = "NoMessage"
             inflated == IF needed THEN [st EXCEPT !.inflater = r.state, !.cut = c] ELSE st
             after == [inflated EXCEPT !.next = j + 1]
             is == IF needed THEN r.out ELSE "message"
             m == [op |-> what, frame |-> j, is |-> is]
             told == [after EXCEPT !.delivered = Append(@, m)]
             pong == [len |-> f.len, header |-> LengthBytes(f.len)]
             t == HybiTurn(st, got)
             Right == Went(st, t) /\ (st.cut \/ Taken(st, got) => Left(t, got))
  <1>1. /\ stream \in Seq(Frames) /\ j \in 1..Len(stream) /\ f \in Frames
        /\ st \in States /\ ~st.done /\ ~st.shut /\ next <= j /\ next \in 1..Len(stream) + 1
    BY DEF TurnAssumed, States
  <1>2. /\ Offset(j) \in Nat /\ Offset(j + 1) = Offset(j) + Size(f) /\ Size(f) \in Nat
        /\ Size(f) >= 2
    <2> HIDE DEF j
    <2>1. j \in 1..Len(stream) + 1
      BY <1>1
    <2>2. Offset(j) \in Nat
      BY <1>1, <2>1, OffsetStep
    <2>3. Offset(j + 1) = Offset(j) + Size(f)
      BY <1>1, OffsetStep
    <2>4. Size(f) \in Nat /\ Size(f) >= 2
      BY <1>1, SizeType
    <2> QED BY <2>2, <2>3, <2>4
  <1>3. /\ f.op \in Opcodes /\ f.fin \in BOOLEAN /\ f.rsv \in BOOLEAN /\ f.deflated \in BOOLEAN
        /\ pong \in Headers /\ j + 1 \in 1..Len(stream) + 1
    <2>1. f.len \in Lengths
      BY <1>1 DEF Frames
    <2> QED BY <1>1, <2>1, HeadersAre DEF Frames
  <1>4. \/ what = "NoMessage" /\ got < Offset(j) + Size(f)
        \/ what = "Error" /\ (~f.fin \/ f.rsv)
        \/ what = f.op /\ f.fin /\ ~f.rsv /\ got > Offset(j) + 1 /\ Offset(j) + Size(f) <= got
    BY <1>1, DecodeIs
  <1>5. needed <=> Offset(j) + 1 < got /\ f.fin /\ ~f.rsv /\ f.deflated
    BY DEF DeflateNeeded
  <1>6. /\ r.state \in {"aligned", "owed", "literal"} /\ r.out \in {"message", "nothing", "garbage"}
        /\ st.inflater = "aligned" => r.ok
        /\ st.inflater = "aligned" /\ what # "NoMessage" => r.state = "aligned" /\ r.out = "message"
    BY DEF Inflate
  <1>7. IF needed /\ ~perMessageDeflate THEN t = [st EXCEPT !.shut = TRUE]
        ELSE IF needed /\ ~r.ok THEN t = [inflated EXCEPT !.shut = TRUE]
        ELSE /\ what \in {"Text", "Binary"} => t = told
             /\ what = "Ping" => t = [told EXCEPT !.sent = Append(@, pong)]
             /\ what = "Pong" => t = after
             /\ what = "NoMessage" => t = [inflated EXCEPT !.done = TRUE]
             /\ what \notin {"Text", "Binary", "Ping", "Pong", "NoMessage"}
                   => t = [inflated EXCEPT !.shut = TRUE]
    <2>1. t = IF needed /\ ~perMessageDeflate THEN [st EXCEPT !.shut = TRUE]
              ELSE IF needed /\ ~r.ok THEN [inflated EXCEPT !.shut = TRUE]
              ELSE CASE what \in {"Text", "Binary"} -> told
                     [] what = "Ping" -> [told EXCEPT !.sent = Append(@, pong)]
                     [] what = "Pong" -> after
                     [] what = "NoMessage" -> [inflated EXCEPT !.done = TRUE]
                     [] OTHER -> [inflated EXCEPT !.shut = TRUE]
      BY DEF HybiTurn, Shut
    <2> HIDE DEF t, what, needed, r, inflated, after, told, pong
    <2>2. CASE needed /\ ~perMessageDeflate
      BY <2>1, <2>2, Zenon
    <2>3. CASE ~(needed /\ ~perMessageDeflate) /\ needed /\ ~r.ok
      BY <2>1, <2>3, Zenon
    <2>4. CASE ~(needed /\ ~perMessageDeflate) /\ ~(needed /\ ~r.ok)
      <3> DEFINE u == [told EXCEPT !.sent = Append(@, pong)]
                 v == [inflated EXCEPT !.done = TRUE]
                 w == [inflated EXCEPT !.shut = TRUE]
      <3>1. t = CASE what \in {"Text", "Binary"} -> told [] what = "Ping" -> u
                  [] what = "Pong" -> after [] what = "NoMessage" -> v [] OTHER -> w
        BY <2>1, <2>4, Zenon
      <3> HIDE DEF u, v, w
      <3>2. what \in {"Text", "Binary"} =>
               what # "Ping" /\ what # "Pong" /\ what # "NoMessage" /\ t = told
        <4>1. what \in {"Text", "Binary"} => what # "Ping" /\ what # "Pong" /\ what # "NoMessage"
          OBVIOUS
        <4> QED BY <3>1, <4>1, Zenon
      <3>3. what = "Ping" => t = u
        BY <3>1, Zenon
      <3>4. what = "Pong" => t = after
        BY <3>1, Zenon
      <3>5. what = "NoMessage" => t = v
        BY <3>1, Zenon
      <3>6. what \notin {"Text", "Binary", "Ping", "Pong", "NoMessage"} => t = w
        BY <3>1, Zenon
      <3> QED BY <2>4, <3>2, <3>3, <3>4, <3>5, <3>6, Zenon DEF u, v, w
    <2> QED BY <2>2, <2>3, <2>4, Zenon
  <1> SUFFICES Right
    OBVIOUS
  <1> HIDE DEF t, what, needed, r, pong
  <1>8. /\ inflated \in States /\ (st.cut => inflated.cut)
        /\ inflated.inflater = IF needed THEN r.state ELSE st.inflater
        /\ needed /\ what = "NoMessage" => inflated.cut
        /\ inflated.delivered = st.delivered /\ inflated.next = j
        /\ inflated.done = st.done /\ inflated.shut = st.shut
    <2>1. CASE needed
      <3>1. c \in BOOLEAN
        BY <1>1 DEF States
      <3> HIDE DEF c
      <3>2. inflated = [st EXCEPT !.inflater = r.state, !.cut = c]
        BY <2>1
      <3>3. inflated \in States
        BY <1>1, <1>3, <1>6, <3>1, <3>2, StatesOfTurn, HeadersAre
      <3>4. inflated.inflater = r.state /\ inflated.cut = c
        BY <1>1, <3>2 DEF States
      <3>5. /\ inflated.delivered = st.delivered /\ inflated.next = j
            /\ inflated.done = st.done /\ inflated.shut = st.shut
        BY <1>1, <3>2 DEF States
      <3> HIDE DEF inflated
      <3> QED BY <2>1, <3>3, <3>4, <3>5 DEF c
    <2>2. CASE ~needed
      BY <1>1, <2>2
    <2> QED BY <2>1, <2>2
  <1> HIDE DEF inflated, c
  <1>9. /\ after \in States /\ after.inflater = inflated.inflater /\ after.cut = inflated.cut
        /\ after.delivered = st.delivered /\ after.next = j + 1
        /\ after.done = st.done /\ after.shut = st.shut
    <2>1. after \in States
      BY <1>3, <1>8, StatesOfTurn, HeadersAre
    <2> QED BY <1>8, <2>1 DEF States
  <1> HIDE DEF after
  <1>10. what \in {"Text", "Binary", "Ping"} =>
         /\ told \in States /\ told.inflater = inflated.inflater /\ told.cut = inflated.cut
         /\ told.delivered = Append(st.delivered, m) /\ told.next = j + 1
         /\ told.done = st.done /\ told.shut = st.shut
    <2> SUFFICES ASSUME what \in {"Text", "Binary", "Ping"}
                 PROVE  /\ told \in States /\ told.inflater = inflated.inflater
                        /\ told.cut = inflated.cut
                        /\ told.delivered = Append(st.delivered, m) /\ told.next = j + 1
                        /\ told.done = st.done /\ told.shut = st.shut
      OBVIOUS
    <2>1. m \in Messages
      <3>1. is \in {"message", "nothing", "garbage"} /\ j \in Nat
        BY <1>1, <1>6
      <3> HIDE DEF is
      <3> QED BY <3>1 DEF Messages, Opcodes
    <2> HIDE DEF m
    <2>2. told \in States
      BY <1>3, <1>9, <2>1, StatesOfTurn
    <2> QED BY <1>9, <2>2 DEF States
  <1> HIDE DEF told, m
  <1>11. ASSUME NEW u \in States, u.next = j, u.done = st.done, st.cut => u.cut,
                t = [u EXCEPT !.shut = TRUE],
                Taken(st, got) => u.inflater = "aligned" /\ u.delivered = st.delivered /\ Ends(f)
         PROVE  Right
    <2>1. t \in States
      BY <1>3, <1>11, StatesOfTurn, HeadersAre
    <2>2. /\ t.inflater = u.inflater /\ t.next = j /\ t.delivered = u.delivered
          /\ t.done = st.done /\ t.shut /\ t.cut = u.cut
      BY <1>11 DEF States
    <2>3. Went(st, t)
      BY <1>1, <1>11, <2>1, <2>2 DEF Went
    <2> QED BY <1>1, <1>11, <2>2, <2>3 DEF Left, Taken
  <1>12. ASSUME needed => perMessageDeflate /\ r.ok, t \in States,
                what \in {"Text", "Binary", "Ping", "Pong"},
                t.inflater = inflated.inflater, t.cut = inflated.cut, t.next = j + 1,
                t.done = st.done, t.shut = st.shut,
                t.delivered = IF what = "Pong" THEN st.delivered ELSE Append(st.delivered, m)
         PROVE  Right
    <2>1. Went(st, t)
      BY <1>1, <1>8, <1>12 DEF Went
    <2>2. /\ what = f.op /\ f.fin /\ ~f.rsv /\ Offset(j + 1) <= got
          /\ f.deflated => needed
      BY <1>2, <1>4, <1>5, <1>12
    <2>3. ~Ends(f)
      BY <1>12, <2>2 DEF Ends
    <2>4. ASSUME Taken(st, got) PROVE Taken(t, got)
      <3>1. st.inflater = "aligned" /\ t.inflater = "aligned"
        BY <1>6, <1>8, <1>12, <2>4 DEF Taken
      <3>2. what # "Pong" => m = Meaning(j)
        <4>1. is = "message"
          BY <1>6, <1>12, <3>1
        <4> QED BY <2>2, <4>1 DEF m, Meaning
      <3>3. Means(f) <=> what # "Pong"
        BY <1>12, <2>2 DEF Means
      <3>4. t.delivered = IF Means(f) THEN Append(st.delivered, Meaning(j)) ELSE st.delivered
        BY <1>12, <3>2, <3>3
      <3> QED BY <1>1, <1>12, <2>2, <2>3, <2>4, <3>1, <3>4, TakenOneMore
    <2> QED BY <1>1, <1>8, <1>12, <2>1, <2>4 DEF Left
  <1>13. CASE needed /\ ~perMessageDeflate
    <2>1. t = [st EXCEPT !.shut = TRUE]
      BY <1>7, <1>13
    <2>2. Ends(f)
      BY <1>5, <1>13 DEF Ends
    <2>3. Taken(st, got) => st.inflater = "aligned"
      BY DEF Taken
    <2> QED BY <1>1, <1>11, <2>1, <2>2, <2>3
  <1>14. CASE needed /\ perMessageDeflate /\ ~r.ok
    <2>1. t = [inflated EXCEPT !.shut = TRUE]
      BY <1>7, <1>14
    <2>2. ~Taken(st, got)
      BY <1>6, <1>14 DEF Taken
    <2> QED BY <1>8, <1>11, <2>1, <2>2
  <1>15. CASE needed => perMessageDeflate /\ r.ok
    <2>0. /\ what \in {"Text", "Binary"} => t = told
          /\ what = "Ping" => t = [told EXCEPT !.sent = Append(@, pong)]
          /\ what = "Pong" => t = after
          /\ what = "NoMessage" => t = [inflated EXCEPT !.done = TRUE]
          /\ what \notin {"Text", "Binary", "Ping", "Pong", "NoMessage"}
                => t = [inflated EXCEPT !.shut = TRUE]
      BY <1>7, <1>15
    <2>1. CASE what \in {"Text", "Binary"}
      BY <1>10, <1>12, <1>15, <2>0, <2>1
    <2>2. CASE what = "Ping"
      <3>1. told \in States /\ t = [told EXCEPT !.sent = Append(@, pong)]
        BY <1>10, <2>0, <2>2
      <3>2. t \in States
        BY <1>3, <3>1, StatesOfTurn, HeadersAre
      <3>3. /\ t.inflater = told.inflater /\ t.next = told.next /\ t.delivered = told.delivered
            /\ t.done = told.done /\ t.shut = told.shut /\ t.cut = told.cut
        BY <3>1 DEF States
      <3> QED BY <1>10, <1>12, <1>15, <2>2, <3>2, <3>3
    <2>3. CASE what = "Pong"
      BY <1>9, <1>12, <1>15, <2>0, <2>3
    <2>4. CASE what = "NoMessage"
      <3>1. t = [inflated EXCEPT !.done = TRUE]
        BY <2>0, <2>4
      <3>2. t \in States
        BY <1>3, <1>8, <3>1, StatesOfTurn, HeadersAre
      <3>3. /\ t.inflater = inflated.inflater /\ t.next = j /\ t.delivered = st.delivered
            /\ t.done /\ t.shut = st.shut /\ t.cut = inflated.cut
        BY <1>8, <3>1 DEF States
      <3>4. Went(st, t)
        BY <1>1, <1>8, <3>2, <3>3 DEF Went
      <3>5. Waits(j, got)
        BY <1>3, <1>4, <2>4 DEF Waits, Opcodes
      <3>6. ~needed => (Taken(st, got) => Taken(t, got))
        BY <1>8, <3>3 DEF Taken
      <3> QED BY <1>1, <1>8, <2>4, <3>3, <3>4, <3>5, <3>6 DEF Left
    <2>5. CASE what \notin {"Text", "Binary", "Ping", "Pong", "NoMessage"}
      <3>1. t = [inflated EXCEPT !.shut = TRUE]
        BY <2>0, <2>5
      <3>2. Ends(f)
        BY <1>3, <1>4, <2>5 DEF Ends, Opcodes
      <3>3. Taken(st, got) => inflated.inflater = "aligned"
        BY <1>6, <1>8, <2>5 DEF Taken
      <3> QED BY <1>8, <1>11, <3>1, <3>2, <3>3
    <2> QED BY <2>1, <2>2, <2>3, <2>4, <2>5
  <1> QED BY <1>13, <1>14, <1>15

-----------------------------------------------------------------------------
(* The loops, and the invariant.                                             *)

(* A turn, if there is one to take.                                          *)
LEMMA TurnTakes ==
    ASSUME stream \in Seq(Frames), next \in 1..Len(stream) + 1, perMessageDeflate \in BOOLEAN,
           proto \in {"hybi", "hixie"}, Protocols, NEW got \in Nat,
           NEW st \in States, next <= st.next, Left(st, got)
    PROVE  LET t == Turn(st, got)
           IN  /\ t \in States /\ (st.cut => t.cut) /\ t.next >= st.next /\ Left(t, got)
               /\ t.done \/ t.shut \/ t.next > Len(stream) \/ t.next = st.next + 1
  <1> DEFINE t == Turn(st, got)
             over == st.done \/ st.shut \/ st.next > Len(stream)
  <1>1. st.next \in Nat /\ st.done \in BOOLEAN /\ st.shut \in BOOLEAN /\ Len(stream) \in Nat
    BY DEF States
  <1>2. CASE over
    <2>1. t = st
      BY <1>2, Zenon DEF Turn
    <2> QED BY <1>1, <1>2, <2>1
  <1>3. CASE ~over
    <2>1. TurnAssumed(st, got)
      BY <1>1, <1>3 DEF TurnAssumed
    <2>2. st.cut \/ Taken(st, got)
      BY DEF Left
    <2>3. CASE proto = "hybi"
      <3>1. t = HybiTurn(st, got)
        BY <1>3, <2>3, Zenon DEF Turn
      <3> QED BY <1>1, <2>1, <2>2, <2>3, <3>1, HybiTurnTakes DEF Went
    <2>4. CASE proto = "hixie"
      <3>1. t = HixieTurn(st, got)
        <4>1. proto # "hybi"
          BY <2>4
        <4> QED BY <1>3, <4>1, Zenon DEF Turn
      <3>2. \A j \in 1..Len(stream) : stream[j].op \in {"Text", "Close"}
        BY <2>4 DEF Protocols
      <3> QED BY <1>1, <2>1, <2>2, <2>4, <3>1, <3>2, HixieTurnTakes DEF Went
    <2> QED BY <2>3, <2>4
  <1> QED BY <1>2, <1>3

(* What a loop leaves: it goes on until no whole frame is left.              *)
LEMMA LoopTakes ==
    ASSUME stream \in Seq(Frames), next \in 1..Len(stream) + 1, perMessageDeflate \in BOOLEAN,
           proto \in {"hybi", "hixie"}, Protocols, NEW got \in Nat,
           NEW st \in States, next <= st.next, Left(st, got)
    PROVE  LET t == HandleWebSocket(st, got)
           IN  /\ t \in States /\ (st.cut => t.cut) /\ Left(t, got)
               /\ t.done \/ t.shut \/ t.next > Len(stream)
  <1> DEFINE n == Len(stream)
             G == CHOOSE turns : turns = [k \in 0..Len(stream) |->
                                            IF k = 0 THEN st ELSE Turn(turns[k - 1], got)]
             Good(t) == t \in States /\ (st.cut => t.cut) /\ t.next >= next /\ Left(t, got)
             P == {t \in States : Good(t)}
             F == [x \in P \X (1..n) |-> Turn(x[1], got)]
  <1>1. n \in Nat /\ st \in P
    BY DEF States
  <1>2. ASSUME NEW t \in P
        PROVE  LET u == Turn(t, got)
               IN  u \in P /\ (u.done \/ u.shut \/ u.next > n \/ u.next = t.next + 1)
    <2>1. t \in States /\ next <= t.next /\ Left(t, got)
      BY DEF States
    <2> DEFINE u == Turn(t, got)
    <2>2. /\ u \in States /\ (t.cut => u.cut) /\ u.next >= t.next /\ Left(u, got)
          /\ u.done \/ u.shut \/ u.next > Len(stream) \/ u.next = t.next + 1
      BY <2>1, TurnTakes
    <2> HIDE DEF u
    <2>3. u.next >= next
      BY <2>1, <2>2 DEF States
    <2> QED BY <2>2, <2>3 DEF u
  <1> HIDE DEF P
  <1>3. F \in [P \X (1..n) -> P] /\ \A x \in P, k \in 1..n : F[<<x, k>>] = Turn(x, got)
    BY <1>2
  <1> HIDE DEF F
  <1>4. PICK f : IsRun(f, P, F, st, n)
    BY <1>1, <1>3, RunExists
  <1>5. f = [k \in 0..n |-> IF k = 0 THEN st ELSE Turn(f[k - 1], got)]
    <2>1. ASSUME NEW k \in 0..n, k # 0 PROVE f[k] = Turn(f[k - 1], got)
      <3>1. k \in 1..n /\ k - 1 \in 0..n
        BY <1>1, <2>1
      <3> QED BY <1>3, <1>4, <2>1, <3>1 DEF IsRun
    <2> QED BY <1>4, <2>1 DEF IsRun
  <1>6. G = [k \in 0..n |-> IF k = 0 THEN st ELSE Turn(G[k - 1], got)]
    BY <1>5, Zenon
  <1>7. HandleWebSocket(st, got) = G[n]
    BY DEF HandleWebSocket
  <1> HIDE DEF G
  <1>8. ASSUME NEW k \in 1..n PROVE G[k] = Turn(G[k - 1], got)
    <2>1. k \in 0..n /\ k # 0
      BY <1>1
    <2> QED BY <1>6, <2>1
  <1> DEFINE Ended(t, k) == t.done \/ t.shut \/ t.next > n \/ t.next > k
             K == {k \in 0..n : G[k] \in P /\ Ended(G[k], k)}
  <1>9. \A k \in 0..n : k \in K
    <2>1. 0 \in K
      <3>1. G[0] = st /\ 0 \in 0..n
        BY <1>1, <1>6
      <3>2. st.next > 0
        BY DEF States
      <3> QED BY <1>1, <3>1, <3>2
    <2>2. ASSUME NEW k \in 1..n, k - 1 \in K PROVE k \in K
      <3> DEFINE t == G[k - 1]
                 u == G[k]
      <3>1. t \in P /\ Ended(t, k - 1) /\ u = Turn(t, got)
        BY <1>8, <2>2
      <3>2. u \in P /\ (u.done \/ u.shut \/ u.next > n \/ u.next = t.next + 1)
        BY <1>2, <3>1
      <3>3. t \in States
        BY <3>1 DEF P
      <3>4. Ended(u, k)
        <4>1. CASE t.done \/ t.shut \/ t.next > n
          <5>1. u = t
            BY <3>1, <4>1, Zenon DEF Turn
          <5> QED BY <4>1, <5>1
        <4>2. CASE t.next > k - 1
          <5>1. t.next \in Nat /\ k \in Nat
            BY <3>3 DEF States
          <5> HIDE DEF t, u
          <5> QED BY <3>2, <4>2, <5>1
        <4> HIDE DEF t, u
        <4> QED BY <3>1, <4>1, <4>2
      <3>5. k \in 0..n
        BY <1>1
      <3> QED BY <3>2, <3>4, <3>5
    <2> HIDE DEF K
    <2> QED BY <1>1, <2>1, <2>2, RunInduction
  <1>10. G[n] \in P /\ Ended(G[n], n)
    <2>1. n \in 0..n
      BY <1>1
    <2> QED BY <1>9, <2>1
  <1> HIDE DEF n
  <1> QED BY <1>7, <1>10 DEF P, n

(* Nothing was sent, and nothing is there.                                   *)
LEMMA AtFirst ==
    (stream \in Seq(Frames) /\ next = 1 /\ arrived = 0 /\ inflater = "aligned" /\ shut = FALSE
       /\ delivered = <<>>)
    => Total \in Nat /\ Whole
  <1> SUFFICES ASSUME stream \in Seq(Frames), next = 1, arrived = 0, inflater = "aligned",
                      shut = FALSE, delivered = <<>>
               PROVE  Total \in Nat /\ Whole
    OBVIOUS
  <1>1. Len(stream) \in Nat /\ Len(stream) + 1 \in 1..Len(stream) + 1
    OBVIOUS
  <1>2. Offset(1) = 0 /\ Total \in Nat
    BY <1>1, OffsetStep DEF Total
  <1>3. MessagesOf(0) = <<>>
    BY MessagesStep
  <1>4. Taken(Here, arrived)
    BY <1>2, <1>3 DEF Taken, Here
  <1>5. Waits(next, arrived)
    <2>1. 1 <= Len(stream) => Size(stream[1]) \in Nat /\ Size(stream[1]) >= 2
      BY SizeType
    <2> QED BY <1>2, <2>1 DEF Waits
  <1> QED BY <1>2, <1>4, <1>5 DEF Whole

(* A connection that has read nothing satisfies the invariant.             *)
LEMMA InitIInv == HybiInit => IInv
  <1> SUFFICES ASSUME HybiInit PROVE IInv
    OBVIOUS
  <1>1. stream = <<>> /\ stream \in Seq(Frames) /\ Len(stream) = 0
    BY DEF HybiInit
  <1>2. Whole /\ Total \in Nat
    BY <1>1, AtFirst DEF HybiInit
  <1>3. TypeOK
    <2>1. sent \in Seq(Headers) /\ delivered \in Seq(Messages)
      BY DEF HybiInit
    <2>2. arrived \in 0..Total /\ next \in 1..Len(stream) + 1
      BY <1>1, <1>2 DEF HybiInit
    <2>3. proto = "http" /\ perMessageDeflate \in BOOLEAN /\ inflater = "aligned"
          /\ shut \in BOOLEAN /\ cut \in BOOLEAN
      BY DEF HybiInit
    <2> QED BY <1>1, <2>1, <2>2, <2>3 DEF TypeOK
  <1>4. Protocols
    BY <1>1 DEF HybiInit, Protocols
  <1> QED BY <1>2, <1>3, <1>4 DEF IInv

(* The upgrade that starts the stream keeps the invariant.                 *)
LEMMA UpgradeIInv ==
    ASSUME IInv, NEW hybi \in BOOLEAN, NEW deflate \in BOOLEAN, NEW frames \in Streams,
           Upgrade(hybi, deflate, frames)
    PROVE  IInv'
  <1>1. frames \in Seq(Frames) /\ stream' = frames /\ stream' \in Seq(Frames)
    BY FramesAssumption DEF Upgrade
  <1>2. stream = <<>> /\ next = 1 /\ inflater = "aligned" /\ ~shut /\ delivered = <<>>
    BY DEF IInv, Protocols, Upgrade
  <1>3. arrived = 0
    <2>1. stream \in Seq(Frames) /\ Len(stream) = 0
      BY <1>2
    <2>2. Total = 0
      BY <2>1, OffsetStep DEF Total
    <2> QED BY <2>2 DEF IInv, TypeOK
  <1>4. next' = 1 /\ arrived' = 0 /\ inflater' = "aligned" /\ shut' = FALSE /\ delivered' = <<>>
        /\ sent' = sent /\ cut' = cut
    BY <1>2, <1>3 DEF Upgrade, IInv, TypeOK
  <1>5. ((stream \in Seq(Frames) /\ next = 1 /\ arrived = 0 /\ inflater = "aligned" /\ shut = FALSE
            /\ delivered = <<>>) => Total \in Nat /\ Whole)'
    BY AtFirst, PTL
  <1>6. Total' \in Nat /\ Whole'
    BY <1>1, <1>4, <1>5
  <1>7. TypeOK'
    <2>1. arrived' \in 0..Total'
      BY <1>4, <1>6
    <2>2. next' \in 1..Len(stream') + 1
      BY <1>1, <1>4
    <2>3. proto' \in {"http", "hybi", "hixie"} /\ perMessageDeflate' \in BOOLEAN
      BY DEF Upgrade
    <2>4. sent' \in Seq(Headers) /\ delivered' \in Seq(Messages) /\ cut' \in BOOLEAN
      BY <1>4 DEF IInv, TypeOK
    <2> QED BY <1>1, <1>4, <2>1, <2>2, <2>3, <2>4 DEF TypeOK
  <1>8. Protocols'
    BY <1>1 DEF Upgrade, Protocols
  <1> QED BY <1>6, <1>7, <1>8 DEF IInv

(* What Arrives begins with.                                                 *)
Before == [inflater |-> inflater, delivered |-> delivered, shut |-> FALSE,
           cut |-> cut, sent |-> sent, next |-> next, done |-> FALSE]

(* A read, and every frame decoded out of it, keeps the invariant.         *)
LEMMA ArrivesIInv ==
    ASSUME IInv, NEW n \in 1..ReadSize, Arrives(n)
    PROVE  IInv'
  <1> DEFINE got == arrived'
             after == HandleWebSocket(Before, got)
  <1>1. /\ stream \in Seq(Frames) /\ next \in 1..Len(stream) + 1 /\ perMessageDeflate \in BOOLEAN
        /\ proto \in {"hybi", "hixie"} /\ Protocols /\ (cut \/ Whole) /\ ~shut
    BY DEF IInv, TypeOK, Arrives
  <1>2. Total \in Nat /\ \A j \in 1..Len(stream) + 1 : Offset(j) \in Nat /\ Offset(j) <= Total
    <2>1. Len(stream) + 1 \in 1..Len(stream) + 1 /\ \A j \in 1..Len(stream) + 1 : j <= Len(stream) + 1
      BY <1>1
    <2> QED BY <1>1, <2>1, OffsetStep, OffsetGrows DEF Total
  <1>3. got \in Nat /\ arrived <= got /\ got <= Total /\ arrived \in Nat
    BY <1>2, SizesAssumption DEF Arrives, IInv, TypeOK
  <1>4. Before \in States /\ next <= Before.next
    BY <1>1 DEF Before, States, IInv, TypeOK
  <1>5. Left(Before, got)
    <2>1. CASE cut
      BY <2>1 DEF Left, Before
    <2>2. CASE Whole
      <3>1. Taken(Before, got)
        BY <1>1, <1>2, <1>3, <2>2 DEF Whole, Taken, Here, Before
      <3> QED BY <3>1 DEF Left, Before
    <2> QED BY <1>1, <2>1, <2>2
  <1>6. /\ after \in States /\ (cut => after.cut) /\ Left(after, got)
        /\ after.done \/ after.shut \/ after.next > Len(stream)
    <2>1. Before.cut = cut
      BY DEF Before
    <2> HIDE DEF got
    <2> QED BY <1>1, <1>3, <1>4, <1>5, <2>1, LoopTakes
  <1>7. /\ inflater' = after.inflater /\ delivered' = after.delivered /\ cut' = after.cut
        /\ sent' = after.sent /\ next' = after.next
        /\ shut' = (after.shut \/ got - Offset(after.next) > MaxMessage)
        /\ proto' = proto /\ perMessageDeflate' = perMessageDeflate /\ stream' = stream
    BY DEF Arrives, Before
  <1> HIDE DEF after, got
  <1>8. /\ \A j : Offset(j)' = Offset(j) /\ MessagesOf(j)' = MessagesOf(j)
        /\ Total' = Total
        /\ \A f : Size(f)' = Size(f) /\ Ends(f)' = Ends(f)
    BY <1>7 DEF Offset, MessagesOf, Total, Size, Ends
  <1>9. /\ after.inflater \in {"aligned", "owed", "literal"} /\ after.delivered \in Seq(Messages)
        /\ after.shut \in BOOLEAN /\ after.cut \in BOOLEAN /\ after.sent \in Seq(Headers)
        /\ after.next \in 1..Len(stream) + 1 /\ after.done \in BOOLEAN
    BY <1>6 DEF States
  <1>10. TypeOK'
    <2>1. got \in 0..Total
      BY <1>2, <1>3
    <2> QED BY <1>1, <1>7, <1>8, <1>9, <2>1 DEF TypeOK, got
  <1>11. Protocols'
    BY <1>1, <1>7 DEF Protocols
  <1>12. ASSUME ~after.cut PROVE Whole'
    <2>1. /\ Taken(after, got) /\ (after.done => Waits(after.next, got))
          /\ after.shut => after.next <= Len(stream) /\ Ends(stream[after.next])
      BY <1>6, <1>12 DEF Left
    <2>2. ~after.shut => Waits(after.next, got)
      BY <1>6, <1>9, <2>1 DEF Waits
    <2>3. shut' => after.next <= Len(stream)
                   /\ (Ends(stream[after.next]) \/ Size(stream[after.next]) > MaxMessage)
      <3>1. CASE after.shut
        BY <2>1, <3>1
      <3>2. CASE ~after.shut /\ got - Offset(after.next) > MaxMessage
        <4>1. after.next <= Len(stream)
          <5>1. Len(stream) \in Nat
            BY <1>1
          <5>2. ASSUME after.next > Len(stream) PROVE FALSE
            <6>1. after.next = Len(stream) + 1
              BY <1>9, <5>1, <5>2
            <6>2. Offset(after.next) = Total
              BY <6>1 DEF Total
            <6> QED BY <1>2, <1>3, <3>2, <6>2, SizesAssumption
          <5> QED BY <1>9, <5>1, <5>2
        <4>2. Size(stream[after.next]) \in Nat /\ Offset(after.next) \in Nat
          <5>1. after.next \in 1..Len(stream)
            BY <1>1, <1>9, <4>1
          <5>2. stream[after.next] \in Frames
            BY <1>1, <5>1
          <5>3. Size(stream[after.next]) \in Nat
            BY <5>2, SizeType
          <5> QED BY <1>2, <1>9, <5>3
        <4>3. got < Offset(after.next) + Size(stream[after.next])
          BY <2>2, <3>2, <4>1 DEF Waits
        <4> QED BY <1>3, <3>2, <4>1, <4>2, <4>3, SizesAssumption
      <3> QED BY <1>7, <3>1, <3>2
    <2>4. Taken(Here, arrived)'
      BY <1>7, <1>8, <2>1 DEF Taken, Here, got
    <2>5. ~shut' => Waits(next, arrived)'
      BY <1>7, <1>8, <2>2 DEF Waits, got
    <2>6. (shut => next <= Len(stream) /\ (Ends(stream[next]) \/ Size(stream[next]) > MaxMessage))'
      BY <1>7, <1>8, <2>3
    <2> QED BY <2>4, <2>5, <2>6 DEF Whole
  <1> QED BY <1>7, <1>10, <1>11, <1>12 DEF IInv

(* What was taken stays taken while no bytes arrive.                         *)
LEMMA WholeStays ==
    ASSUME Whole,
           UNCHANGED <<proto, perMessageDeflate, stream, arrived, next, inflater, shut, delivered, cut>>
    PROVE  Whole'
  <1>1. /\ \A j : Offset(j)' = Offset(j) /\ MessagesOf(j)' = MessagesOf(j)
        /\ \A f : Size(f)' = Size(f) /\ Ends(f)' = Ends(f)
    BY DEF Offset, MessagesOf, Size, Ends
  <1>2. Here' = Here
    BY DEF Here
  <1>3. Taken(Here, arrived)'
    BY <1>1, <1>2 DEF Whole, Taken
  <1>4. (~shut => Waits(next, arrived))'
    BY <1>1 DEF Whole, Waits
  <1> QED BY <1>1, <1>3, <1>4 DEF Whole

(* A frame the server sends keeps the invariant.                           *)
LEMMA SendIInv ==
    ASSUME IInv, NEW len \in SendLengths, Send(len)
    PROVE  IInv'
  <1>1. sent \in Seq(Headers) /\ [len |-> len, header |-> LengthBytes(len)] \in Headers
    BY FramesAssumption, HeadersAre DEF IInv, TypeOK
  <1>2. sent' \in Seq(Headers)
    BY <1>1 DEF Send
  <1>3. UNCHANGED <<proto, perMessageDeflate, stream, arrived, next, inflater, shut, delivered, cut>>
    BY DEF Send
  <1>4. Total' = Total
    BY <1>3 DEF Total, Offset, Size
  <1>5. TypeOK'
    BY <1>2, <1>3, <1>4 DEF IInv, TypeOK
  <1>6. Protocols'
    BY <1>3 DEF IInv, Protocols
  <1>7. Whole => Whole'
    BY <1>3, WholeStays
  <1> QED BY <1>3, <1>5, <1>6, <1>7 DEF IInv

(* Every step, or a stutter, keeps the invariant.                          *)
LEMMA StepIInv == IInv /\ [HybiNext]_hyvars => IInv'
  <1> SUFFICES ASSUME IInv, [HybiNext]_hyvars PROVE IInv'
    OBVIOUS
  <1>1. CASE UNCHANGED hyvars
    <2>1. UNCHANGED <<proto, perMessageDeflate, stream, arrived, next, inflater, shut, delivered, cut>>
          /\ sent' = sent
      BY <1>1 DEF hyvars
    <2>2. Total' = Total
      BY <2>1 DEF Total, Offset, Size
    <2>3. TypeOK'
      BY <2>1, <2>2 DEF IInv, TypeOK
    <2>4. Protocols'
      BY <2>1 DEF IInv, Protocols
    <2>5. Whole => Whole'
      BY <2>1, WholeStays
    <2> QED BY <2>1, <2>3, <2>4, <2>5 DEF IInv
  <1>2. CASE \E hybi, deflate \in BOOLEAN, frames \in Streams : Upgrade(hybi, deflate, frames)
    BY <1>2, UpgradeIInv
  <1>3. CASE \E n \in 1..ReadSize : Arrives(n)
    BY <1>3, ArrivesIInv
  <1>4. CASE \E len \in SendLengths : Send(len)
    BY <1>4, SendIInv
  <1> QED BY <1>1, <1>2, <1>3, <1>4 DEF HybiNext

(* The frame that ends the connection does not come before the front.        *)
LEMMA LastFrameIs ==
    ASSUME stream \in Seq(Frames), next \in 1..Len(stream) + 1,
           \A j \in 1..next - 1 : ~Ends(stream[j])
    PROVE  /\ LastFrame \in 1..Len(stream) + 1 /\ next <= LastFrame
           /\ next <= Len(stream) /\ Ends(stream[next]) => LastFrame = next
  <1> DEFINE ends == {j \in 1..Len(stream) : Ends(stream[j])}
  <1>1. Len(stream) \in Nat /\ ends \in SUBSET Nat
    OBVIOUS
  <1>2. CASE ends = {}
    <2>1. LastFrame = Len(stream) + 1
      BY <1>2 DEF LastFrame
    <2>2. ~(next <= Len(stream) /\ Ends(stream[next]))
      BY <1>2
    <2> QED BY <1>1, <2>1, <2>2
  <1>3. CASE ends # {}
    <2>1. \E j \in ends : \A k \in ends : j <= k
      BY <1>1, <1>3, LeastNumber
    <2>2. LastFrame = CHOOSE j \in ends : \A k \in ends : j <= k
      BY <1>3 DEF LastFrame
    <2>3. LastFrame \in ends /\ \A k \in ends : LastFrame <= k
      BY <2>1, <2>2, Zenon
    <2>4. LastFrame \in 1..Len(stream) /\ Ends(stream[LastFrame])
      BY <2>3
    <2>5. next <= LastFrame
      BY <1>1, <2>4
    <2>6. next <= Len(stream) /\ Ends(stream[next]) => next \in ends
      OBVIOUS
    <2> QED BY <1>1, <2>3, <2>4, <2>5, <2>6
  <1> QED BY <1>2, <1>3

(* A stream read whole has given the messages it means.                    *)
LEMMA WholeIsAsMeant ==
    ASSUME IInv, Whole
    PROVE  AsMeant
  <1> DEFINE n == Len(stream)
             m == next - 1
             e == LastFrame - 1
  <1>1. /\ stream \in Seq(Frames) /\ next \in 1..n + 1 /\ arrived \in 0..Total /\ n \in Nat
        /\ delivered \in Seq(Messages)
    BY DEF IInv, TypeOK
  <1>2. /\ Offset(next) <= arrived /\ delivered = MessagesOf(m)
        /\ \A j \in 1..next - 1 : ~Ends(stream[j])
    BY DEF Whole, Taken, Here
  <1>3. /\ LastFrame \in 1..n + 1 /\ next <= LastFrame
        /\ next <= n /\ Ends(stream[next]) => LastFrame = next
    BY <1>1, <1>2, LastFrameIs
  <1>4. m \in 0..n /\ e \in 0..n /\ m <= e
    BY <1>1, <1>3
  <1>5. Meant = MessagesOf(e)
    BY DEF Meant
  <1> HIDE DEF m, e, n
  <1>6. delivered = SubSeq(Meant, 1, Len(delivered))
    BY <1>1, <1>2, <1>4, <1>5, MessagesGrow DEF n
  <1>7. LastFrame = next => delivered = Meant
    BY <1>2, <1>5 DEF m, e
  <1>8. shut => \/ LastFrame <= Len(stream) /\ delivered = Meant
                \/ next <= Len(stream) /\ Size(stream[next]) > MaxMessage
    BY <1>3, <1>7 DEF Whole, n
  <1>9. ASSUME arrived = Total, ~shut PROVE delivered = Meant
    <2>1. CASE next = n + 1
      <3>1. LastFrame = next
        BY <1>1, <1>3, <2>1
      <3> QED BY <1>7, <3>1
    <2>2. CASE next <= n
      <3>1. next \in 1..n /\ next + 1 \in 1..n + 1 /\ n + 1 \in 1..n + 1 /\ next + 1 <= n + 1
        BY <1>1, <2>2
      <3>2. arrived < Offset(next) + Size(stream[next])
        BY <1>9, <2>2 DEF Whole, Waits, n
      <3>3. Offset(next + 1) = Offset(next) + Size(stream[next])
        BY <1>1, <3>1, OffsetStep DEF n
      <3>4. Offset(next + 1) <= Offset(n + 1)
        BY <1>1, <3>1, OffsetGrows DEF n
      <3>5. Offset(next + 1) \in Nat /\ Offset(n + 1) \in Nat /\ arrived = Offset(n + 1)
        BY <1>1, <1>9, <3>1, OffsetStep DEF n, Total
      <3> QED BY <3>2, <3>3, <3>4, <3>5
    <2> QED BY <1>1, <2>1, <2>2
  <1> QED BY <1>2, <1>6, <1>8, <1>9 DEF AsMeant

(* Whatever frames a client sends, of whatever lengths, and however TCP cuts *)
(* their bytes, handleHybiWebSocket() and handleHixieWebSocket() give each   *)
(* message to the handler once, whole and in order, and close the connection *)
(* only for a frame that asks for it or is too long, unless a deflated frame *)
(* was cut; and decodeNextMessage() reads the length that sendHybiData()     *)
(* writes as it was, for every length below 2^32.                            *)
THEOREM FramesAreReadBack == HybiSpec => []FramesReadBack
  <1>1. IInv => FramesReadBack
    <2> SUFFICES ASSUME IInv PROVE FramesReadBack
      OBVIOUS
    <2>1. FramesWhateverTheCuts
      BY WholeIsAsMeant DEF IInv, FramesWhateverTheCuts
    <2>2. ASSUME NEW i \in 1..Len(sent) PROVE PayloadLength(sent[i].header) = sent[i].len
      <3>1. sent[i] \in Headers
        BY DEF IInv, TypeOK
      <3>2. PICK n \in Lengths : sent[i] = [len |-> n, header |-> LengthBytes(n)]
        BY <3>1 DEF Headers
      <3> QED BY <3>2, LengthReadsBack
    <2> QED BY <2>1, <2>2 DEF FramesReadBack, SentLengthsDecode
  <1> QED BY <1>1, InitIInv, StepIInv, PTL DEF HybiSpec

-----------------------------------------------------------------------------
(* Numbers: what a count in two words says of the bytes counted.             *)

(* A quotient and a rest are the only ones.                                  *)
LEMMA DivideUnique ==
    ASSUME NEW a \in Nat, NEW b \in Nat, NEW k \in Int, NEW r \in Nat, r < b, a = k * b + r
    PROVE  a \div b = k /\ a % b = r
  <1> DEFINE j == a \div b
             t == a % b
  <1>1. b > 0 /\ j \in Nat /\ t \in Nat /\ t < b /\ j * b + t = a
    BY DivideAndRest
  <1> HIDE DEF j, t
  <1>2. (k - j) * b = t - r
    BY <1>1
  <1>3. ~(k - j >= 1)
    <2> SUFFICES ASSUME k - j >= 1 PROVE FALSE
      OBVIOUS
    <2>1. (k - j) * b = (k - j - 1) * b + b
      BY <1>1
    <2>2. (k - j - 1) * b >= 0
      BY <1>1
    <2> QED BY <1>1, <1>2, <2>1, <2>2
  <1>4. ~(j - k >= 1)
    <2> SUFFICES ASSUME j - k >= 1 PROVE FALSE
      OBVIOUS
    <2>1. (j - k) * b = (j - k - 1) * b + b
      BY <1>1
    <2>2. (j - k - 1) * b >= 0
      BY <1>1
    <2>3. (j - k) * b = r - t
      BY <1>1, <1>2
    <2> QED BY <1>1, <2>1, <2>2, <2>3
  <1>5. k = j
    BY <1>1, <1>3, <1>4
  <1>6. t = r
    BY <1>1, <1>5
  <1> QED BY <1>5, <1>6 DEF j, t

(* Adding to a count by its words: the low word carries when it is less than *)
(* what was added.                                                           *)
LEMMA CountCarries ==
    ASSUME NEW w \in Nat, w > 0, NEW x \in Nat, NEW y \in Nat
    PROVE  LET u == x % w
               v == y % w
               e == (u + v) % w
           IN  /\ (x + y) % w = e
               /\ (x + y) \div w = (x \div w) + (y \div w) + IF e < v THEN 1 ELSE 0
  <1> DEFINE u == x % w
             v == y % w
             e == (u + v) % w
             a == x \div w
             b == y \div w
             c == IF e < v THEN 1 ELSE 0
             k == a + b + c
  <1>1. a \in Nat /\ u \in Nat /\ u < w /\ a * w + u = x
    BY DivideAndRest
  <1>2. b \in Nat /\ v \in Nat /\ v < w /\ b * w + v = y
    BY DivideAndRest
  <1>3. e \in Nat /\ e < w /\ u + v = c * w + e
    <2> HIDE DEF u, v, a, b
    <2>1. CASE u + v < w
      <3>1. e = u + v
        BY <1>1, <1>2, <2>1
      <3> QED BY <1>1, <1>2, <2>1, <3>1
    <2>2. CASE u + v >= w
      <3> DEFINE z == u + v - w
      <3>1. u + v = 1 * w + z /\ z \in Nat /\ z < w /\ u + v \in Nat /\ 1 \in Int
        BY <1>1, <1>2, <2>2
      <3> HIDE DEF z
      <3>2. (u + v) % w = z
        BY <3>1, DivideUnique
      <3> QED BY <1>1, <1>2, <2>2, <3>1, <3>2 DEF z
    <2> QED BY <1>1, <1>2, <2>1, <2>2
  <1>4. c \in Int
    OBVIOUS
  <1> HIDE DEF a, b, c, u, v, e
  <1>5. k \in Int /\ k * w = a * w + b * w + c * w
    BY <1>1, <1>2, <1>4
  <1> DEFINE aw == a * w
             bw == b * w
             cw == c * w
             kw == k * w
  <1>6. aw \in Int /\ bw \in Int /\ cw \in Int
    BY <1>1, <1>2, <1>4
  <1>7. kw = aw + bw + cw /\ aw + u = x /\ bw + v = y /\ cw + e = u + v
    BY <1>1, <1>2, <1>3, <1>5
  <1>8. x + y = kw + e
    <2> HIDE DEF aw, bw, cw, kw, k
    <2> QED BY <1>1, <1>2, <1>3, <1>6, <1>7
  <1> HIDE DEF k
  <1>9. (x + y) \div w = k /\ (x + y) % w = e
    <2>1. x + y \in Nat
      OBVIOUS
    <2> QED BY <1>3, <1>5, <1>8, <2>1, DivideUnique
  <1> QED BY <1>9 DEF a, b, c, u, v, e, k
(* The low word counts whole bytes, and says how far the last block is.      *)
LEMMA LowWord ==
    ASSUME NEW n \in Nat
    PROVE  LET u == (8 * n) % WordSize
           IN  /\ u \in Nat /\ u + 8 <= WordSize
               /\ (u \div 8) % B = n % B
  <1> DEFINE w == WordSize
             q == w \div (8 * B)
             t == q * B
             k == n \div t
             m == n % t
             j == m \div B
             r == m % B
  <1>1. w \in Nat /\ w > 0 /\ B \in Nat /\ B > 0 /\ 8 * B \in Nat /\ w % (8 * B) = 0
    BY WordSizeAssumption, BlockAssumption
  <1>2. q \in Nat /\ w = q * (8 * B)
    <2> DEFINE b == 8 * B
    <2>1. b \in Nat /\ b > 0 /\ w % b = 0
      BY <1>1
    <2> HIDE DEF b, w
    <2>2. w \div b \in Nat /\ (w \div b) * b + (w % b) = w
      BY <1>1, <2>1, DivideAndRest
    <2>3. (w \div b) * b \in Int
      BY <2>1, <2>2
    <2> QED BY <1>1, <2>1, <2>2, <2>3 DEF b
  <1> HIDE DEF q, w
  <1>3. t \in Nat /\ w = 8 * t /\ t > 0
    BY <1>1, <1>2
  <1> HIDE DEF t
  <1>4. k \in Nat /\ m \in Nat /\ m < t /\ k * t + m = n
    BY <1>3, DivideAndRest
  <1> HIDE DEF k, m
  <1>5. j \in Nat /\ r \in Nat /\ r < B /\ j * B + r = m
    BY <1>1, <1>4, DivideAndRest
  <1> HIDE DEF j, r
  <1>6. (8 * n) % w = 8 * m
    <2> DEFINE z == 8 * m
               y == 8 * n
    <2>1. y = k * w + z
      <3>1. k * (8 * t) = 8 * (k * t) /\ k * t \in Int
        BY <1>3, <1>4
      <3> QED BY <1>3, <1>4, <3>1
    <2>2. y \in Nat /\ z \in Nat /\ z < w
      BY <1>3, <1>4
    <2> HIDE DEF z, y
    <2>3. y % w = z
      BY <1>1, <1>4, <2>1, <2>2, DivideUnique
    <2> QED BY <2>3 DEF z, y
  <1>7. n % B = r
    <2> DEFINE i == k * q + j
    <2>1. i \in Int /\ i * B = k * (q * B) + j * B
      BY <1>1, <1>2, <1>4, <1>5
    <2>2. k * (q * B) \in Int /\ j * B \in Int /\ k * (q * B) = k * t
      BY <1>1, <1>2, <1>4, <1>5 DEF t
    <2> HIDE DEF i
    <2>3. n = i * B + r
      BY <1>4, <1>5, <2>1, <2>2
    <2> QED BY <1>1, <1>5, <2>1, <2>3, DivideUnique
  <1>8. (8 * m) \div 8 = m
    BY <1>4
  <1>9. 8 * m \in Nat /\ 8 * m + 8 <= w
    BY <1>3, <1>4
  <1>10. m % B = r
    BY DEF r
  <1> QED BY <1>6, <1>7, <1>8, <1>9, <1>10 DEF w

(* The zeros that reach the last 8 bytes of a block are the only ones.       *)
LEMMA ZerosUnique ==
    ASSUME NEW n \in Nat, NEW z \in 0..(B - 1), (n + 1 + z + 8) % B = 0
    PROVE  (CHOOSE y \in 0..(B - 1) : (n + 1 + y + 8) % B = 0) = z
  <1>1. B \in Nat /\ B > 0
    BY BlockAssumption
  <1>2. ASSUME NEW y \in 0..(B - 1), (n + 1 + y + 8) % B = 0
        PROVE  ~(y > z)
    <2> SUFFICES ASSUME y > z PROVE FALSE
      OBVIOUS
    <2> DEFINE a == n + 1 + z + 8
               d == y - z
    <2>1. a \in Nat /\ d \in Nat /\ 0 < d /\ d < B /\ n + 1 + y + 8 = a + d /\ a + d \in Nat
      BY <1>1
    <2>2. a % B = 0
      OBVIOUS
    <2> HIDE DEF a, d
    <2>3. a \div B \in Int /\ a + d = (a \div B) * B + d
      <3>1. a \div B \in Nat /\ (a \div B) * B + (a % B) = a
        BY <1>1, <2>1, DivideAndRest
      <3> QED BY <1>1, <2>1, <2>2, <3>1
    <2>4. (a + d) % B = d
      BY <1>1, <2>1, <2>3, DivideUnique
    <2> QED BY <1>2, <2>1, <2>4
  <1>3. ASSUME NEW y \in 0..(B - 1), (n + 1 + y + 8) % B = 0
        PROVE  ~(z > y)
    <2> SUFFICES ASSUME z > y PROVE FALSE
      OBVIOUS
    <2> DEFINE a == n + 1 + y + 8
               d == z - y
    <2>1. a \in Nat /\ d \in Nat /\ 0 < d /\ d < B /\ n + 1 + z + 8 = a + d /\ a + d \in Nat
      BY <1>1
    <2>2. a % B = 0
      BY <1>3
    <2> HIDE DEF a, d
    <2>3. a \div B \in Int /\ a + d = (a \div B) * B + d
      <3>1. a \div B \in Nat /\ (a \div B) * B + (a % B) = a
        BY <1>1, <2>1, DivideAndRest
      <3> QED BY <1>1, <2>1, <2>2, <3>1
    <2>4. (a + d) % B = d
      BY <1>1, <2>1, <2>3, DivideUnique
    <2> QED BY <2>1, <2>4
  <1>4. \A y \in 0..(B - 1) : (n + 1 + y + 8) % B = 0 => y = z
    <2> TAKE y \in 0..(B - 1)
    <2> HAVE (n + 1 + y + 8) % B = 0
    <2>1. ~(y > z) /\ ~(z > y)
      BY <1>2, <1>3
    <2> QED BY <1>1, <2>1
  <1> QED BY <1>4

(* Zeros of md5_finish() are those.                                          *)
LEMMA Md5Zeros ==
    ASSUME NEW n \in Nat
    PROVE  LET z == (B - 9 - ((8 * n) % WordSize) \div 8) % B
           IN  z \in 0..(B - 1) /\ (n + 1 + z + 8) % B = 0
  <1> DEFINE m == ((8 * n) % WordSize) \div 8
             x == B - 9 - m
             z == x % B
             i == x \div B
             p == m \div B
             q == n \div B
             r == n % B
  <1>1. B \in Nat /\ B > 0
    BY BlockAssumption
  <1>2. m \in Nat /\ m % B = r
    <2> DEFINE u == (8 * n) % WordSize
    <2>1. u \in Nat /\ (u \div 8) % B = r
      BY LowWord
    <2> HIDE DEF u, r
    <2>2. u \div 8 \in Nat
      BY <2>1
    <2> QED BY <2>1, <2>2 DEF u
  <1> HIDE DEF m
  <1>3. r \in Nat /\ q \in Nat /\ q * B + r = n
    BY <1>1, DivideAndRest
  <1> HIDE DEF r, q
  <1>4. p \in Nat /\ p * B + r = m
    BY <1>1, <1>2, DivideAndRest
  <1> HIDE DEF p
  <1>5. x \in Int
    BY <1>1, <1>2
  <1>6. i \in Int /\ z \in 0..(B - 1) /\ i * B + z = x
    <2> HIDE DEF x
    <2> QED BY <1>1, <1>5
  <1> HIDE DEF i, z
  <1> DEFINE a == n + 1 + z + 8
             k == q - p - i + 1
  <1>7. k \in Int /\ k * B = q * B - p * B - i * B + B
    BY <1>1, <1>3, <1>4, <1>6
  <1>8. q * B \in Int /\ p * B \in Int /\ i * B \in Int
    BY <1>1, <1>3, <1>4, <1>6
  <1>9. a \in Nat /\ a = k * B + 0
    <2> DEFINE qb == q * B
               pb == p * B
               ib == i * B
               kb == k * B
    <2>1. kb = qb - pb - ib + B /\ qb + r = n /\ pb + r = m /\ ib + z = x
      BY <1>3, <1>4, <1>6, <1>7
    <2>2. qb \in Int /\ pb \in Int /\ ib \in Int
      BY <1>8
    <2> HIDE DEF qb, pb, ib, kb, k
    <2>3. a = kb
      BY <1>1, <1>2, <1>3, <1>6, <2>1, <2>2
    <2>4. a \in Nat
      BY <1>6
    <2> QED BY <2>3, <2>4 DEF kb
  <1> HIDE DEF k, a
  <1>10. a % B = 0
    BY <1>1, <1>7, <1>9, DivideUnique
  <1> QED BY <1>6, <1>10 DEF a, z, x, m

-----------------------------------------------------------------------------
(* Pieces, whole blocks and what is left of them.                            *)

Digits == Nat \cup {Octet(w, i) : w \in Nat, i \in 0..3}
Ds == [buf : Seq(Digits), low : Nat, high : Nat, corrupted : BOOLEAN, blocks : Seq(Seq(Digits))]

(* Sequences of bytes in a row.                                              *)
LEMMA Regroup == \A u, v, z \in Seq(Digits) : (u \o v) \o z = u \o (v \o z)
  BY ConcatAssociative

(* Two runs of octets join into a run as long as both.                     *)
LEMMA Joined ==
    \A u, v \in Seq(Digits) : u \o v \in Seq(Digits) /\ Len(u \o v) = Len(u) + Len(v)
  BY ConcatProperties

InBlocks(bs) ==
    /\ bs \in Seq(Seq(Digits)) /\ FlattenSeq(bs) \in Seq(Digits)
    /\ Len(FlattenSeq(bs)) = Len(bs) * B
    /\ \A k \in 1..Len(bs) : Len(bs[k]) = B

(* d has been given the bytes s.                                             *)
Fed(d, s) ==
    /\ d \in Ds /\ InBlocks(d.blocks) /\ Len(d.buf) < B
    /\ FlattenSeq(d.blocks) \o d.buf = s

Kept(d, s) == Fed(d, s) /\ d.low = (8 * Len(s)) % WordSize /\ ~d.corrupted
Counted(d, n) == d.high = (8 * n) \div WordSize

(* inputByte() leaves a SHA-1 digest of the declared kind.                 *)
LEMMA InputByteStays ==
    ASSUME NEW d \in Ds, NEW byte \in Digits
    PROVE  InputByte(d, byte) \in Ds
  <1>1. WordSize \in Nat /\ WordSize > 0
    BY WordSizeAssumption
  <1>2. Append(d.buf, byte) \in Seq(Digits)
    BY DEF Ds
  <1>3. (d.low + 8) % WordSize \in Nat /\ (d.high + 1) % WordSize \in Nat
    BY <1>1 DEF Ds
  <1>4. Append(d.blocks, Append(d.buf, byte)) \in Seq(Seq(Digits)) /\ <<>> \in Seq(Digits)
    BY <1>2 DEF Ds
  <1> QED BY <1>2, <1>3, <1>4 DEF InputByte, Process, Ds

(* md5_process() leaves an MD5 state of the declared kind.                 *)
LEMMA Md5ProcessStays ==
    ASSUME NEW d \in Ds, NEW block \in Seq(Digits)
    PROVE  Md5Process(d, block) \in Ds
  <1>1. Append(d.blocks, block) \in Seq(Seq(Digits))
    BY DEF Ds
  <1> QED BY <1>1 DEF Md5Process, Ds

(* Input() takes the bytes of a piece in their order.                        *)
InputByteRun(d, s, run) ==
    /\ run[0] = d /\ run[Len(s)] = FoldLeft(InputByte, d, s)
    /\ \A k \in 1..Len(s) : run[k] = InputByte(run[k - 1], s[k])

(* A loop of inputByte() has its intermediate digests.                     *)
LEMMA InputByteRuns ==
    ASSUME NEW d \in Ds, NEW s \in Seq(Digits)
    PROVE  \E run : InputByteRun(d, s, run)
  <1> DEFINE n == Len(s)
             F == [x \in Ds \X Digits |-> InputByte(x[1], x[2])]
  <1>1. n \in Nat /\ s \in [1..n -> Digits]
    OBVIOUS
  <1>2. F \in [Ds \X Digits -> Ds]
    BY InputByteStays
  <1>3. \A x \in Ds, r \in Digits : F[<<x, r>>] = InputByte(x, r)
    OBVIOUS
  <1> HIDE DEF n, F
  <1>4. PICK f : IsFold(f, Ds, F, d, s, n)
    BY <1>1, <1>2, FoldExists
  <1> DEFINE G == CHOOSE g : g = [t \in SUBSET (DOMAIN s) |->
                        IF t = {} THEN d ELSE InputByte(g[t \ {Max(t)}], s[Max(t)])]
  <1>5. \E g : g = [t \in SUBSET (DOMAIN s) |->
                        IF t = {} THEN d ELSE InputByte(g[t \ {Max(t)}], s[Max(t)])]
    <2>1. ASSUME NEW t \in SUBSET (1..n), t # {}
          PROVE  f[t] = InputByte(f[t \ {Max(t)}], s[Max(t)])
      <3>1. Max(t) \in t
        BY <1>1, <2>1, MaxIsIn
      <3>2. f[t \ {Max(t)}] \in Ds /\ s[Max(t)] \in Digits
        BY <1>1, <1>4, <3>1 DEF IsFold
      <3> QED BY <1>3, <1>4, <2>1, <3>2 DEF IsFold
    <2>2. f = [t \in SUBSET (1..n) |->
                   IF t = {} THEN d ELSE InputByte(f[t \ {Max(t)}], s[Max(t)])]
      BY <1>4, <2>1 DEF IsFold
    <2> QED BY <1>1, <2>2
  <1>6. G = [t \in SUBSET (DOMAIN s) |->
                  IF t = {} THEN d ELSE InputByte(G[t \ {Max(t)}], s[Max(t)])]
    BY <1>5, Zenon
  <1>7. FoldLeft(InputByte, d, s) = G[1..n]
    BY <1>1 DEF FoldLeft, MapThenFoldSet
  <1> HIDE DEF G
  <1> DEFINE run == [k \in 0..n |-> G[1..k]]
  <1>8. run[0] = d /\ run[n] = FoldLeft(InputByte, d, s)
    <2>1. 1..0 = {} /\ {} \in SUBSET (DOMAIN s) /\ n \in 0..n
      BY <1>1
    <2>2. G[{}] = d
      BY <1>6, <2>1
    <2> QED BY <1>1, <1>7, <2>1, <2>2
  <1>9. ASSUME NEW k \in 1..n PROVE run[k] = InputByte(run[k - 1], s[k])
    <2>1. 1..k \in SUBSET (1..n) /\ 1..k # {} /\ k \in Nat /\ k >= 1
      <3>1. k \in Nat /\ k >= 1 /\ k <= n /\ k \in 1..k
        BY <1>1
      <3>2. \A j \in 1..k : j \in 1..n
        BY <1>1, <3>1
      <3> QED BY <3>1, <3>2
    <2>2. Max(1..k) = k
      BY <2>1, MaxOfInterval
    <2>3. (1..k) \ {k} = 1..k - 1
      BY <2>1
    <2>4. G[1..k] = InputByte(G[(1..k) \ {Max(1..k)}], s[Max(1..k)])
      BY <1>1, <1>6, <2>1
    <2>5. run[k] = G[1..k] /\ run[k - 1] = G[1..k - 1]
      BY <1>1
    <2> QED BY <2>2, <2>3, <2>4, <2>5
  <1> HIDE DEF run
  <1> QED BY <1>8, <1>9 DEF InputByteRun, n

(* md5_append() processes the blocks of a piece in their order.              *)
Md5ProcessRun(d, s, run) ==
    /\ run[0] = d /\ run[Len(s)] = FoldLeft(Md5Process, d, s)
    /\ \A k \in 1..Len(s) : run[k] = Md5Process(run[k - 1], s[k])

(* A loop of md5_process() has its intermediate states.                    *)
LEMMA Md5ProcessRuns ==
    ASSUME NEW d \in Ds, NEW s \in Seq(Seq(Digits))
    PROVE  \E run : Md5ProcessRun(d, s, run)
  <1> DEFINE n == Len(s)
             F == [x \in Ds \X Seq(Digits) |-> Md5Process(x[1], x[2])]
  <1>1. n \in Nat /\ s \in [1..n -> Seq(Digits)]
    OBVIOUS
  <1>2. F \in [Ds \X Seq(Digits) -> Ds]
    BY Md5ProcessStays
  <1>3. \A x \in Ds, r \in Seq(Digits) : F[<<x, r>>] = Md5Process(x, r)
    OBVIOUS
  <1> HIDE DEF n, F
  <1>4. PICK f : IsFold(f, Ds, F, d, s, n)
    BY <1>1, <1>2, FoldExists
  <1> DEFINE G == CHOOSE g : g = [t \in SUBSET (DOMAIN s) |->
                        IF t = {} THEN d ELSE Md5Process(g[t \ {Max(t)}], s[Max(t)])]
  <1>5. \E g : g = [t \in SUBSET (DOMAIN s) |->
                        IF t = {} THEN d ELSE Md5Process(g[t \ {Max(t)}], s[Max(t)])]
    <2>1. ASSUME NEW t \in SUBSET (1..n), t # {}
          PROVE  f[t] = Md5Process(f[t \ {Max(t)}], s[Max(t)])
      <3>1. Max(t) \in t
        BY <1>1, <2>1, MaxIsIn
      <3>2. f[t \ {Max(t)}] \in Ds /\ s[Max(t)] \in Seq(Digits)
        BY <1>1, <1>4, <3>1 DEF IsFold
      <3> QED BY <1>3, <1>4, <2>1, <3>2 DEF IsFold
    <2>2. f = [t \in SUBSET (1..n) |->
                   IF t = {} THEN d ELSE Md5Process(f[t \ {Max(t)}], s[Max(t)])]
      BY <1>4, <2>1 DEF IsFold
    <2> QED BY <1>1, <2>2
  <1>6. G = [t \in SUBSET (DOMAIN s) |->
                  IF t = {} THEN d ELSE Md5Process(G[t \ {Max(t)}], s[Max(t)])]
    BY <1>5, Zenon
  <1>7. FoldLeft(Md5Process, d, s) = G[1..n]
    BY <1>1 DEF FoldLeft, MapThenFoldSet
  <1> HIDE DEF G
  <1> DEFINE run == [k \in 0..n |-> G[1..k]]
  <1>8. run[0] = d /\ run[n] = FoldLeft(Md5Process, d, s)
    <2>1. 1..0 = {} /\ {} \in SUBSET (DOMAIN s) /\ n \in 0..n
      BY <1>1
    <2>2. G[{}] = d
      BY <1>6, <2>1
    <2> QED BY <1>1, <1>7, <2>1, <2>2
  <1>9. ASSUME NEW k \in 1..n PROVE run[k] = Md5Process(run[k - 1], s[k])
    <2>1. 1..k \in SUBSET (1..n) /\ 1..k # {} /\ k \in Nat /\ k >= 1
      <3>1. k \in Nat /\ k >= 1 /\ k <= n /\ k \in 1..k
        BY <1>1
      <3>2. \A j \in 1..k : j \in 1..n
        BY <1>1, <3>1
      <3> QED BY <3>1, <3>2
    <2>2. Max(1..k) = k
      BY <2>1, MaxOfInterval
    <2>3. (1..k) \ {k} = 1..k - 1
      BY <2>1
    <2>4. G[1..k] = Md5Process(G[(1..k) \ {Max(1..k)}], s[Max(1..k)])
      BY <1>1, <1>6, <2>1
    <2>5. run[k] = G[1..k] /\ run[k - 1] = G[1..k - 1]
      BY <1>1
    <2> QED BY <2>2, <2>3, <2>4, <2>5
  <1> HIDE DEF run
  <1> QED BY <1>8, <1>9 DEF Md5ProcessRun, n

(* A block is added to the ones processed.                                   *)
LEMMA WholeBlock ==
    ASSUME NEW bs, InBlocks(bs), NEW x \in Seq(Digits), Len(x) = B
    PROVE  InBlocks(Append(bs, x)) /\ FlattenSeq(Append(bs, x)) = FlattenSeq(bs) \o x
  <1> DEFINE more == Append(bs, x)
             t == FlattenSeq(bs)
             u == FlattenSeq(more)
             n == Len(bs)
  <1>1. bs \in Seq(Seq(Digits)) /\ t \in Seq(Digits) /\ Len(t) = n * B
        /\ \A k \in 1..n : Len(bs[k]) = B
    BY DEF InBlocks
  <1>2. u = t \o x
    BY <1>1, FlattenAppend
  <1>3. more \in Seq(Seq(Digits)) /\ Len(more) = n + 1 /\ n \in Nat /\ more[n + 1] = x
        /\ \A k \in 1..n : more[k] = bs[k]
    BY <1>1
  <1> HIDE DEF more, t, u, n
  <1>4. u \in Seq(Digits) /\ Len(u) = Len(t) + Len(x)
    BY <1>1, <1>2, ConcatProperties
  <1>5. B \in Nat
    BY BlockAssumption
  <1>6. (n + 1) * B = n * B + B
    BY <1>3, <1>5
  <1>7. \A k \in 1..Len(more) : Len(more[k]) = B
    <2> TAKE k \in 1..Len(more)
    <2>1. k \in 1..n \/ k = n + 1
      BY <1>3
    <2> QED BY <1>1, <1>3, <2>1
  <1>8. Len(u) = Len(more) * B
    BY <1>1, <1>3, <1>4, <1>6
  <1> QED BY <1>2, <1>3, <1>4, <1>7, <1>8 DEF InBlocks, more, t, u

(* What was fed, and what is left of it in the buffer.                       *)
LEMMA FedLength ==
    ASSUME NEW d, NEW s, Fed(d, s)
    PROVE  s \in Seq(Digits) /\ Len(s) \in Nat /\ Len(d.buf) = Len(s) % B
           /\ Len(s) = Len(FlattenSeq(d.blocks)) + Len(d.buf)
  <1> DEFINE t == FlattenSeq(d.blocks)
             n == Len(d.blocks)
             r == Len(d.buf)
  <1>1. t \in Seq(Digits) /\ d.buf \in Seq(Digits) /\ n \in Nat /\ r \in Nat /\ r < B
        /\ Len(t) = n * B /\ s = t \o d.buf
    BY DEF Fed, Ds, InBlocks
  <1> HIDE DEF t, n, r
  <1>2. s \in Seq(Digits) /\ Len(s) = Len(t) + r
    BY <1>1, ConcatProperties DEF r
  <1>3. Len(s) \in Nat /\ B \in Nat
    BY <1>2, BlockAssumption
  <1>4. Len(s) % B = r
    <2> DEFINE m == Len(s)
    <2>1. m \in Nat /\ m = n * B + r /\ n \in Int
      BY <1>1, <1>2, <1>3
    <2> HIDE DEF m
    <2>2. m % B = r
      BY <1>1, <1>3, <2>1, DivideUnique
    <2> QED BY <2>2 DEF m
  <1> QED BY <1>2, <1>3, <1>4 DEF t, r

(* Bytes added to the buffer are fed.                                        *)
LEMMA Buffered ==
    ASSUME NEW d, NEW s, Fed(d, s), NEW data \in Seq(Digits), NEW e \in Ds,
           e.blocks = d.blocks, e.buf = d.buf \o data, Len(d.buf) + Len(data) < B
    PROVE  Fed(e, s \o data)
  <1> DEFINE t == FlattenSeq(d.blocks)
  <1>1. t \in Seq(Digits) /\ d.buf \in Seq(Digits) /\ s = t \o d.buf
    BY DEF Fed, Ds, InBlocks
  <1>2. Len(e.buf) = Len(d.buf) + Len(data)
    BY <1>1, ConcatProperties
  <1>3. (t \o d.buf) \o data = t \o (d.buf \o data)
    <2> DEFINE b == d.buf
    <2>1. t \in Seq(Digits) /\ b \in Seq(Digits) /\ data \in Seq(Digits)
      BY <1>1
    <2> HIDE DEF t, b
    <2>2. \A u, v, y \in Seq(Digits) : (u \o v) \o y = u \o (v \o y)
      BY Regroup
    <2>3. (t \o b) \o data = t \o (b \o data)
      BY <2>1, <2>2, Zenon
    <2> QED BY <2>3 DEF b
  <1> QED BY <1>1, <1>2, <1>3 DEF Fed

(* Bytes that make the buffer a block are fed with it.                       *)
LEMMA Filled ==
    ASSUME NEW d, NEW s, Fed(d, s), NEW data \in Seq(Digits), NEW e \in Ds,
           Len(d.buf) + Len(data) = B,
           e.blocks = Append(d.blocks, d.buf \o data), e.buf = <<>>
    PROVE  Fed(e, s \o data) /\ FlattenSeq(e.blocks) = s \o data
  <1> DEFINE t == FlattenSeq(d.blocks)
             x == d.buf \o data
             bs == d.blocks
  <1>1. t \in Seq(Digits) /\ d.buf \in Seq(Digits) /\ s = t \o d.buf /\ InBlocks(bs)
    BY DEF Fed, Ds, InBlocks
  <1>2. x \in Seq(Digits) /\ Len(x) = B
    BY <1>1, ConcatProperties
  <1>3. (t \o d.buf) \o data = t \o x
    <2> DEFINE b == d.buf
    <2>1. t \in Seq(Digits) /\ b \in Seq(Digits) /\ data \in Seq(Digits)
      BY <1>1
    <2> HIDE DEF t, b
    <2>2. \A u, v, y \in Seq(Digits) : (u \o v) \o y = u \o (v \o y)
      BY Regroup
    <2>3. (t \o b) \o data = t \o (b \o data)
      BY <2>1, <2>2, Zenon
    <2> QED BY <2>3 DEF b
  <1>4. t \o x \in Seq(Digits)
    BY <1>1, <1>2, ConcatProperties
  <1> HIDE DEF x, bs
  <1>5. InBlocks(Append(bs, x)) /\ FlattenSeq(Append(bs, x)) = FlattenSeq(bs) \o x
    BY <1>1, <1>2, WholeBlock
  <1>6. FlattenSeq(e.blocks) = t \o x /\ InBlocks(e.blocks)
    BY <1>5 DEF bs, x
  <1>7. (t \o x) \o <<>> = t \o x
    BY <1>4, ConcatEmptySeq
  <1>8. Len(e.buf) < B
    BY BlockAssumption
  <1> QED BY <1>1, <1>3, <1>6, <1>7, <1>8 DEF Fed

(* One byte of Input().                                                      *)
LEMMA InputByteTakes ==
    ASSUME NEW d, NEW s, Kept(d, s), Counted(d, Len(s)), NEW byte \in Digits,
           8 * (Len(s) + 1) < WordSize * WordSize
    PROVE  Kept(InputByte(d, byte), Append(s, byte))
           /\ Counted(InputByte(d, byte), Len(Append(s, byte)))
  <1> DEFINE e == InputByte(d, byte)
             w == WordSize
             n == Len(s)
             l == (d.low + 8) % w
             h == IF l = 0 THEN (d.high + 1) % w ELSE d.high
             x == Append(d.buf, byte)
  <1>1. w \in Nat /\ w >= 16 /\ B \in Nat /\ B > 9
    <2>1. w \in Nat /\ (8 * 1) % w \in Nat
      BY WordSizeAssumption
    <2>2. w >= 16
      <3> DEFINE b == 8 * B
      <3>1. b \in Nat /\ b > 16 /\ w \in Nat /\ w > 0 /\ w % b = 0
        BY WordSizeAssumption, BlockAssumption
      <3> HIDE DEF b, w
      <3>2. ~(w < b)
        <4>1. w < b => w = 0 * b + w /\ 0 \in Int
          BY <3>1
        <4>2. w < b => w % b = w
          BY <3>1, <4>1, DivideUnique
        <4> QED BY <3>1, <4>2
      <3> QED BY <3>1, <3>2
    <2> QED BY <2>1, <2>2, BlockAssumption
  <1>2. d \in Ds /\ Fed(d, s) /\ d.low = (8 * n) % w /\ ~d.corrupted /\ d.high = (8 * n) \div w
    BY DEF Kept, Counted, Fed
  <1>3. s \in Seq(Digits) /\ n \in Nat
    BY <1>2, FedLength
  <1>4. d.low \in Nat /\ d.low + 8 <= w
    BY <1>3, <1>2, LowWord
  <1>5. (8 * (n + 1)) % w = l /\ (8 * (n + 1)) \div w = d.high + IF l < 8 THEN 1 ELSE 0
    <2> DEFINE a == 8 * n
    <2>1. a \in Nat /\ 8 * (n + 1) = a + 8 /\ d.low = a % w /\ d.high = a \div w
      BY <1>2, <1>3
    <2> HIDE DEF a, w
    <2>2. 8 % w = 8 /\ 8 \div w = 0
      <3>1. 8 = 0 * w + 8 /\ 0 \in Int /\ 8 \in Nat
        BY <1>1
      <3> QED BY <1>1, <3>1, DivideUnique
    <2>3. a \div w \in Nat
      BY <1>1, <2>1, DivideAndRest
    <2>4. /\ (a + 8) % w = ((a % w) + (8 % w)) % w
          /\ (a + 8) \div w = (a \div w) + (8 \div w) + IF ((a % w) + (8 % w)) % w < 8 % w THEN 1 ELSE 0
      BY <1>1, <2>1, CountCarries
    <2> QED BY <2>1, <2>2, <2>3, <2>4
  <1>6. l = 0 <=> l < 8
    <2>1. CASE d.low + 8 < w
      <3>1. l = d.low + 8
        BY <1>1, <1>4, <2>1
      <3> QED BY <1>4, <3>1
    <2>2. CASE d.low + 8 = w
      <3>1. w = 1 * w + 0 /\ 1 \in Int
        BY <1>1
      <3>2. w % w = 0
        BY <1>1, <3>1, DivideUnique
      <3> QED BY <2>2, <3>2
    <2> QED BY <1>1, <1>4, <2>1, <2>2
  <1>7. l = 0 => h = d.high + 1 /\ h # 0
    <2> DEFINE a == 8 * (n + 1)
               g == a \div w
    <2>1. a \in Nat /\ a < w * w
      BY <1>3
    <2> HIDE DEF a, w
    <2>2. g \in Nat /\ g * w + (a % w) = a /\ a % w \in Nat
      BY <1>1, <2>1, DivideAndRest
    <2> HIDE DEF g
    <2>3. g < w
      <3> SUFFICES ASSUME g >= w PROVE FALSE
        BY <1>1, <2>2
      <3>1. g * w = (g - w) * w + w * w
        BY <1>1, <2>2
      <3>2. (g - w) * w >= 0 /\ (g - w) * w \in Int /\ w * w \in Int
        BY <1>1, <2>2
      <3> QED BY <2>1, <2>2, <3>1, <3>2
    <2>4. d.high \in Nat
      BY <1>2 DEF Ds
    <2>5. l = 0 => g = d.high + 1
      BY <1>5, <1>6 DEF g, a
    <2>6. l = 0 => (d.high + 1) % w = d.high + 1
      BY <1>1, <2>3, <2>4, <2>5
    <2> QED BY <2>4, <2>6
  <1>8. l # 0 => h = d.high
    OBVIOUS
  <1>9. h = (8 * (n + 1)) \div w /\ l = (8 * (n + 1)) % w
    <2>1. d.high \in Nat
      BY <1>2 DEF Ds
    <2> HIDE DEF h, l, w
    <2>2. CASE l = 0
      BY <1>5, <1>6, <1>7, <2>2
    <2>3. CASE l # 0
      BY <1>5, <1>6, <1>8, <2>1, <2>3
    <2> QED BY <2>2, <2>3
  <1>10. e \in Ds
    BY <1>2, InputByteStays
  <1>11. x = d.buf \o <<byte>> /\ <<byte>> \in Seq(Digits) /\ Len(<<byte>>) = 1
         /\ s \o <<byte>> = Append(s, byte) /\ Len(x) = Len(d.buf) + 1 /\ Len(d.buf) \in Nat
         /\ Len(d.buf) < B
    BY <1>2, <1>3, AppendIsConcat DEF Fed, Ds
  <1>12. e.low = l /\ e.high = h /\ ~e.corrupted
    <2> HIDE DEF l
    <2>1. CASE Len(x) = B
      BY <1>2, <1>7, <2>1 DEF InputByte, Process, Ds, l
    <2>2. CASE Len(x) # B
      BY <1>2, <1>7, <2>2 DEF InputByte, Process, Ds, l
    <2> QED BY <2>1, <2>2
  <1>13. CASE Len(x) = B
    <2>1. e.buf = <<>> /\ e.blocks = Append(d.blocks, d.buf \o <<byte>>)
      BY <1>2, <1>11, <1>13 DEF InputByte, Process, Ds
    <2>2. Len(d.buf) + Len(<<byte>>) = B
      BY <1>11, <1>13
    <2> HIDE DEF e
    <2>3. Fed(e, s \o <<byte>>)
      BY <1>2, <1>10, <1>11, <2>1, <2>2, Filled
    <2>4. Len(Append(s, byte)) = n + 1
      BY <1>3
    <2> QED BY <1>9, <1>11, <1>12, <2>3, <2>4 DEF Kept, Counted, e
  <1>14. CASE Len(x) # B
    <2>1. e.buf = d.buf \o <<byte>> /\ e.blocks = d.blocks
      BY <1>2, <1>11, <1>14 DEF InputByte, Process, Ds
    <2>2. Len(d.buf) + Len(<<byte>>) < B
      BY <1>1, <1>11, <1>14
    <2> HIDE DEF e
    <2>3. Fed(e, s \o <<byte>>)
      BY <1>2, <1>10, <1>11, <2>1, <2>2, Buffered
    <2>4. Len(Append(s, byte)) = n + 1
      BY <1>3
    <2> QED BY <1>9, <1>11, <1>12, <2>3, <2>4 DEF Kept, Counted, e
  <1> QED BY <1>13, <1>14

-----------------------------------------------------------------------------
(* md5_append().                                                             *)

(* A sequence is its first m elements and the others.                        *)
LEMMA CutAt ==
    ASSUME NEW S, NEW s \in Seq(S), NEW m \in Nat, m <= Len(s)
    PROVE  /\ SubSeq(s, 1, m) \in Seq(S) /\ Len(SubSeq(s, 1, m)) = m
           /\ SubSeq(s, m + 1, Len(s)) \in Seq(S)
           /\ Len(SubSeq(s, m + 1, Len(s))) = Len(s) - m
           /\ SubSeq(s, 1, m) \o SubSeq(s, m + 1, Len(s)) = s
  <1> DEFINE n == Len(s)
  <1>1. n \in Nat /\ s \in [1..n -> S]
    OBVIOUS
  <1>2. \A i \in 1..m : s[i] \in S
    BY <1>1
  <1>3. \A i \in m + 1..n : s[i] \in S
    BY <1>1
  <1>4. SubSeq(s, 1, m) \in Seq(S) /\ Len(SubSeq(s, 1, m)) = m
    BY <1>1, <1>2, SubSeqProperties
  <1>0. m <= n
    OBVIOUS
  <1> HIDE DEF n
  <1>5. SubSeq(s, m + 1, n) \in Seq(S) /\ Len(SubSeq(s, m + 1, n)) = n - m
    <2>1. m + 1 \in Int /\ n \in Int
      BY <1>1
    <2>2. SubSeq(s, m + 1, n) \in Seq(S)
          /\ Len(SubSeq(s, m + 1, n)) = IF m + 1 <= n THEN n - (m + 1) + 1 ELSE 0
      BY <1>3, <2>1, SubSeqProperties
    <2>3. m + 1 <= n => n - (m + 1) + 1 = n - m
      BY <1>0, <1>1
    <2>4. ~(m + 1 <= n) => n - m = 0
      BY <1>0, <1>1
    <2> QED BY <2>2, <2>3, <2>4
  <1>6. SubSeq(s, 1, m) \o SubSeq(s, m + 1, n) = SubSeq(s, 1, n)
    <2>1. 1 \in 1..n + 1 /\ m \in 1 - 1..n /\ n \in m..n
      BY <1>0, <1>1
    <2>2. 1 \in 1..Len(s) + 1 /\ m \in 1 - 1..Len(s) /\ n \in m..Len(s)
      BY <2>1 DEF n
    <2> QED BY <2>2, ConcatAdjacentSubSeq
  <1>7. SubSeq(s, 1, n) = s
    BY SubSeqFull DEF n
  <1> QED BY <1>4, <1>5, <1>6, <1>7 DEF n

(* e is d, and the whole blocks of t were processed since.                   *)
Ahead(d, e, t) ==
    /\ e \in Ds /\ e.low = d.low /\ e.high = d.high /\ e.corrupted = d.corrupted
    /\ InBlocks(e.blocks) /\ FlattenSeq(e.blocks) = FlattenSeq(d.blocks) \o t

(* One whole block.                                                          *)
LEMMA Md5ProcessTakes ==
    ASSUME NEW d \in Ds, NEW e, NEW t \in Seq(Digits), Ahead(d, e, t), InBlocks(d.blocks),
           NEW x \in Seq(Digits), Len(x) = B
    PROVE  Ahead(d, Md5Process(e, x), t \o x)
  <1> DEFINE f == Md5Process(e, x)
             u == FlattenSeq(d.blocks)
  <1>1. e \in Ds /\ f \in Ds /\ InBlocks(e.blocks) /\ FlattenSeq(e.blocks) = u \o t
    BY Md5ProcessStays DEF Ahead
  <1>2. f.low = e.low /\ f.high = e.high /\ f.corrupted = e.corrupted
        /\ f.blocks = Append(e.blocks, x)
    BY <1>1 DEF Md5Process, Ds
  <1>3. InBlocks(Append(e.blocks, x)) /\ FlattenSeq(Append(e.blocks, x)) = FlattenSeq(e.blocks) \o x
    BY <1>1, WholeBlock
  <1>4. u \in Seq(Digits)
    BY DEF InBlocks
  <1> HIDE DEF f, u
  <1>5. (u \o t) \o x = u \o (t \o x)
    <2>1. \A a, b, c \in Seq(Digits) : (a \o b) \o c = a \o (b \o c)
      BY Regroup
    <2> QED BY <1>4, <2>1, Zenon
  <1>6. InBlocks(f.blocks) /\ FlattenSeq(f.blocks) = u \o (t \o x)
    BY <1>1, <1>2, <1>3, <1>5
  <1>7. Ahead(d, f, t \o x)
    BY <1>1, <1>2, <1>6 DEF Ahead, u
  <1> QED BY <1>7 DEF f

(* The loop over whole blocks.                                               *)
LEMMA LoopTakesBlocks ==
    ASSUME NEW d \in Ds, InBlocks(d.blocks), NEW s \in Seq(Digits)
    PROVE  Ahead(d, FoldLeft(Md5Process, d, BlocksOf(s)), SubSeq(s, 1, B * (Len(s) \div B)))
  <1> DEFINE n == Len(s)
             whole == n \div B
             bs == BlocksOf(s)
             Part(k) == SubSeq(s, 1, B * k)
             x(k) == SubSeq(s, B * (k - 1) + 1, B * k)
  <1>1. n \in Nat /\ B \in Nat /\ B > 0 /\ s \in [1..n -> Digits]
    BY BlockAssumption
  <1>2. whole \in Nat /\ B * whole <= n
    <2>1. whole \in Nat /\ n % B \in Nat /\ whole * B + (n % B) = n
      BY <1>1, DivideAndRest
    <2> QED BY <1>1, <2>1
  <1> HIDE DEF whole
  <1>3. ASSUME NEW k \in 1..whole
        PROVE  /\ B * (k - 1) \in Nat /\ B * k = B * (k - 1) + B /\ B * k <= B * whole
    <2>1. B * (k - 1) >= 0 /\ B * (k - 1) \in Int /\ B * k = B * (k - 1) + B
      BY <1>1, <1>2
    <2>2. B * whole = B * k + B * (whole - k) /\ B * (whole - k) >= 0
      BY <1>1, <1>2
    <2> QED BY <1>1, <1>2, <2>1, <2>2
  <1>4. ASSUME NEW k \in 1..whole
        PROVE  /\ x(k) \in Seq(Digits) /\ Len(x(k)) = B
               /\ Part(k - 1) \in Seq(Digits) /\ Part(k - 1) \o x(k) = Part(k)
    <2> DEFINE a == B * (k - 1)
               b == B * k
    <2>1. a \in Nat /\ b = a + B /\ b \in Nat /\ b <= n
      BY <1>1, <1>2, <1>3
    <2> HIDE DEF a, b
    <2>2. SubSeq(s, a + 1, b) \in Seq(Digits) /\ Len(SubSeq(s, a + 1, b)) = B
      <3>1. \A i \in a + 1..b : s[i] \in Digits
        BY <1>1, <2>1
      <3>2. a + 1 \in Int /\ b \in Int
        BY <2>1
      <3>3. SubSeq(s, a + 1, b) \in Seq(Digits)
            /\ Len(SubSeq(s, a + 1, b)) = IF a + 1 <= b THEN b - (a + 1) + 1 ELSE 0
        BY <3>1, <3>2, SubSeqProperties
      <3> QED BY <1>1, <2>1, <3>3
    <2>3. SubSeq(s, 1, a) \in Seq(Digits)
      BY <1>1, <2>1, CutAt
    <2>4. SubSeq(s, 1, a) \o SubSeq(s, a + 1, b) = SubSeq(s, 1, b)
      <3>1. 1 \in 1..n + 1 /\ a \in 0..n /\ b \in a..n
        BY <1>1, <2>1
      <3> QED BY <3>1, ConcatAdjacentSubSeq
    <2> QED BY <2>2, <2>3, <2>4 DEF a, b
  <1>5. bs \in Seq(Seq(Digits)) /\ Len(bs) = whole /\ \A k \in 1..whole : bs[k] = x(k)
    <2>1. bs = [k \in 1..whole |-> x(k)]
      BY DEF BlocksOf, whole
    <2> HIDE DEF bs, x
    <2> QED BY <1>2, <1>4, <2>1
  <1> HIDE DEF bs, x
  <1>6. PICK run : Md5ProcessRun(d, bs, run)
    BY <1>5, Md5ProcessRuns
  <1> DEFINE K == {k \in 0..whole : Ahead(d, run[k], Part(k))}
  <1>7. 0 \in K
    <2>1. Part(0) = <<>>
      <3>1. B * 0 = 0
        BY <1>1
      <3>2. SubSeq(s, 1, 0) = <<>>
        BY SubSeqEmpty
      <3> QED BY <3>1, <3>2
    <2>2. FlattenSeq(d.blocks) \o <<>> = FlattenSeq(d.blocks)
      BY ConcatEmptySeq DEF InBlocks
    <2>3. run[0] = d
      BY <1>6 DEF Md5ProcessRun
    <2>4. Ahead(d, d, <<>>)
      BY <2>2 DEF Ahead
    <2>5. 0 \in 0..whole
      BY <1>2
    <2> HIDE DEF Part
    <2> QED BY <2>1, <2>3, <2>4, <2>5
  <1>8. ASSUME NEW k \in 1..whole, k - 1 \in K PROVE k \in K
    <2>1. run[k] = Md5Process(run[k - 1], x(k))
      BY <1>5, <1>6 DEF Md5ProcessRun
    <2>2. Ahead(d, run[k - 1], Part(k - 1)) /\ k \in 0..whole
      BY <1>8, <1>2
    <2> HIDE DEF Part
    <2>3. Ahead(d, Md5Process(run[k - 1], x(k)), Part(k - 1) \o x(k))
      BY <1>4, <2>2, Md5ProcessTakes
    <2> QED BY <1>4, <2>1, <2>2, <2>3
  <1> HIDE DEF K
  <1>9. \A k \in 0..whole : k \in K
    BY <1>2, <1>7, <1>8, RunInduction
  <1>10. Ahead(d, run[whole], Part(whole))
    BY <1>2, <1>9 DEF K
  <1>11. run[whole] = FoldLeft(Md5Process, d, bs)
    BY <1>5, <1>6 DEF Md5ProcessRun
  <1> QED BY <1>10, <1>11 DEF whole, bs

Same(d, e) == e.low = d.low /\ e.high = d.high /\ e.corrupted = d.corrupted

(* The whole blocks md5_append() takes add their octets, in order.         *)
LEMMA Md5BlocksTake ==
    ASSUME NEW d \in Ds, InBlocks(d.blocks), NEW data \in Seq(Digits)
    PROVE  Fed(Md5Blocks(d, data), FlattenSeq(d.blocks) \o data) /\ Same(d, Md5Blocks(d, data))
  <1> DEFINE n == Len(data)
             m == B * (n \div B)
             e == FoldLeft(Md5Process, d, BlocksOf(data))
             front == SubSeq(data, 1, m)
             rest == SubSeq(data, m + 1, n)
             f == Md5Blocks(d, data)
             t == FlattenSeq(d.blocks)
  <1>1. n \in Nat /\ m \in Nat /\ m <= n /\ n - m < B
    <2>1. B \in Nat /\ B > 0 /\ n \in Nat
      BY BlockAssumption
    <2>2. n \div B \in Nat /\ n % B \in Nat /\ n % B < B /\ (n \div B) * B + (n % B) = n
      BY <2>1, DivideAndRest
    <2>3. m = (n \div B) * B
      BY <2>1, <2>2
    <2> QED BY <2>1, <2>2, <2>3
  <1>2. Ahead(d, e, front)
    BY LoopTakesBlocks
  <1>3. f = [e EXCEPT !.buf = rest]
    BY DEF Md5Blocks
  <1> HIDE DEF m, e
  <1>4. front \in Seq(Digits) /\ rest \in Seq(Digits) /\ Len(rest) = n - m /\ front \o rest = data
    BY <1>1, CutAt
  <1> HIDE DEF f, front, rest, n
  <1>5. f \in Ds /\ f.buf = rest /\ f.blocks = e.blocks /\ Same(d, f)
    BY <1>2, <1>3, <1>4 DEF Ahead, Ds, Same
  <1>6. t \in Seq(Digits)
    BY DEF InBlocks
  <1>7. InBlocks(f.blocks) /\ FlattenSeq(f.blocks) = t \o front
    BY <1>2, <1>5 DEF Ahead
  <1> HIDE DEF t
  <1>8. (t \o front) \o rest = t \o data
    <2>1. \A a, b, c \in Seq(Digits) : (a \o b) \o c = a \o (b \o c)
      BY Regroup
    <2>2. (t \o front) \o rest = t \o (front \o rest)
      BY <1>4, <1>6, <2>1, Zenon
    <2> QED BY <1>4, <2>2
  <1>9. Fed(f, t \o data)
    BY <1>1, <1>4, <1>5, <1>7, <1>8 DEF Fed
  <1> QED BY <1>5, <1>9 DEF f, t

(* The message length.                                                       *)
LEMMA Md5CountCounts ==
    ASSUME NEW d \in Ds, NEW m \in Nat, NEW n \in Nat, d.low = (8 * m) % WordSize
    PROVE  /\ Md5Count(d, n) \in Ds /\ Md5Count(d, n).buf = d.buf
           /\ Md5Count(d, n).blocks = d.blocks /\ Md5Count(d, n).corrupted = d.corrupted
           /\ Md5Count(d, n).low = (8 * (m + n)) % WordSize
           /\ Counted(d, m) /\ 8 * (m + n) < WordSize * WordSize => Counted(Md5Count(d, n), m + n)
  <1> DEFINE w == WordSize
             x == 8 * m
             y == 8 * n
             l == (d.low + (y % w)) % w
             c == IF l < y % w THEN 1 ELSE 0
             h == d.high + (y \div w) + c
             e == [d EXCEPT !.low = l, !.high = h % w]
  <1>1. w \in Nat /\ w > 0 /\ x \in Nat /\ y \in Nat /\ 8 * (m + n) = x + y /\ x + y \in Nat
    BY WordSizeAssumption
  <1>2. Md5Count(d, n) = e
    BY DEF Md5Count
  <1>3. d.low = x % w /\ d.low \in Nat /\ d.high \in Nat
    BY DEF Ds
  <1> HIDE DEF w, x, y
  <1>4. y \div w \in Nat /\ y % w \in Nat /\ (x + y) \div w \in Nat
        /\ ((x + y) \div w) * w + ((x + y) % w) = x + y /\ (x + y) % w \in Nat
    BY <1>1, DivideAndRest
  <1>5. (x + y) % w = l /\ (x + y) \div w = (x \div w) + (y \div w) + c
    <2>1. /\ (x + y) % w = ((x % w) + (y % w)) % w
          /\ (x + y) \div w = (x \div w) + (y \div w)
                                 + IF ((x % w) + (y % w)) % w < y % w THEN 1 ELSE 0
      BY <1>1, CountCarries
    <2>2. l = ((x % w) + (y % w)) % w
      BY <1>3
    <2>3. c = IF ((x % w) + (y % w)) % w < y % w THEN 1 ELSE 0
      BY <2>2
    <2> HIDE DEF l, c
    <2> QED BY <2>1, <2>2, <2>3
  <1>6. l \in Nat /\ c \in Nat
    BY <1>4, <1>5
  <1> HIDE DEF l, c
  <1>7. h \in Nat
    BY <1>3, <1>4, <1>6
  <1>8. h % w \in Nat
    <2> HIDE DEF h
    <2> QED BY <1>1, <1>7, DivideAndRest
  <1> HIDE DEF h
  <1>9. e \in Ds /\ e.buf = d.buf /\ e.blocks = d.blocks /\ e.corrupted = d.corrupted
        /\ e.low = l /\ e.high = h % w
    BY <1>6, <1>8 DEF Ds
  <1>10. e.low = (8 * (m + n)) % w
    BY <1>1, <1>5, <1>9
  <1>11. ASSUME Counted(d, m), 8 * (m + n) < w * w
         PROVE  Counted(e, m + n)
    <2> DEFINE g == (x + y) \div w
    <2>1. d.high = x \div w
      BY <1>11 DEF Counted, x, w
    <2>2. g = h
      BY <1>5, <2>1 DEF h
    <2>3. g \in Nat /\ g * w + ((x + y) % w) = x + y /\ x + y < w * w
      BY <1>1, <1>4, <1>11
    <2> HIDE DEF g
    <2>4. g < w
      <3> SUFFICES ASSUME g >= w PROVE FALSE
        BY <1>1, <2>3
      <3>1. g * w = (g - w) * w + w * w
        BY <1>1, <2>3
      <3>2. (g - w) * w >= 0 /\ (g - w) * w \in Int /\ w * w \in Int
        BY <1>1, <2>3
      <3> QED BY <1>1, <1>4, <2>3, <3>1, <3>2
    <2>5. h % w = h
      BY <1>1, <2>2, <2>3, <2>4
    <2> HIDE DEF e
    <2>6. e.high = (x + y) \div w
      BY <1>9, <2>2, <2>5 DEF g
    <2> QED BY <1>1, <2>6 DEF Counted, w
  <1> HIDE DEF e
  <1> QED BY <1>2, <1>9, <1>10, <1>11 DEF w

(* A piece of any length.                                                    *)
LEMMA Md5AppendTakes ==
    ASSUME NEW d, NEW s, Kept(d, s), NEW data \in Seq(Digits)
    PROVE  /\ Kept(Md5Append(d, data), s \o data)
           /\ Counted(d, Len(s)) /\ 8 * (Len(s) + Len(data)) < WordSize * WordSize =>
                  Counted(Md5Append(d, data), Len(s) + Len(data))
  <1> DEFINE n == Len(data)
             m == Len(s)
             off == Len(d.buf)
             c == Md5Count(d, n)
             e == Md5Append(d, data)
             Right == Counted(d, m) /\ 8 * (m + n) < WordSize * WordSize
  <1>1. d \in Ds /\ Fed(d, s) /\ d.low = (8 * m) % WordSize /\ ~d.corrupted
        /\ InBlocks(d.blocks) /\ FlattenSeq(d.blocks) \o d.buf = s /\ off < B
    BY DEF Kept, Fed
  <1>2. s \in Seq(Digits) /\ m \in Nat /\ off = m % B /\ m = Len(FlattenSeq(d.blocks)) + off
    BY <1>1, FedLength
  <1>3. n \in Nat /\ off \in Nat /\ B \in Nat /\ B > 9
    BY <1>1, BlockAssumption DEF Ds
  <1>4. (d.low \div 8) % B = off
    BY <1>1, <1>2, LowWord
  <1>5. s \o data \in Seq(Digits) /\ Len(s \o data) = m + n
    BY <1>2, ConcatProperties
  <1>6. /\ c \in Ds /\ c.buf = d.buf /\ c.blocks = d.blocks /\ ~c.corrupted
        /\ c.low = (8 * (m + n)) % WordSize
        /\ Right => Counted(c, m + n)
    <2> HIDE DEF n, m, off
    <2>1. /\ Md5Count(d, n) \in Ds /\ Md5Count(d, n).buf = d.buf
          /\ Md5Count(d, n).blocks = d.blocks /\ Md5Count(d, n).corrupted = d.corrupted
          /\ Md5Count(d, n).low = (8 * (m + n)) % WordSize
          /\ Counted(d, m) /\ 8 * (m + n) < WordSize * WordSize =>
                 Counted(Md5Count(d, n), m + n)
      BY <1>1, <1>2, <1>3, Md5CountCounts
    <2> QED BY <1>1, <2>1
  <1>7. SubSeq(d.buf, 1, off) = d.buf
    BY <1>1, SubSeqFull DEF Ds
  <1> HIDE DEF n, m, off, c, Right
  (* What is fed in full and counted is kept.                                *)
  <1>8. ASSUME Fed(e, s \o data), Same(c, e)
        PROVE  Kept(e, s \o data) /\ (Right => Counted(e, m + n))
    <2> HIDE DEF e
    <2> QED BY <1>5, <1>6, <1>8 DEF Kept, Same, Counted
  <1>9. CASE n = 0
    <2>1. data = <<>>
      BY <1>9, EmptySeq DEF n
    <2>2. e = d
      BY <1>9, <2>1 DEF Md5Append, n
    <2>3. s \o data = s
      BY <1>2, <2>1, ConcatEmptySeq
    <2>4. m + n = m
      BY <1>2, <1>9
    <2> HIDE DEF e
    <2>5. Kept(e, s \o data)
      BY <2>2, <2>3
    <2>6. Right => Counted(e, m + n)
      BY <2>2, <2>4 DEF Right
    <2> QED BY <2>5, <2>6 DEF e, m, n, Right
  <1>10. CASE n # 0 /\ off = 0
    <2>1. e = Md5Blocks(c, data)
      BY <1>4, <1>10 DEF Md5Append, n, c
    <2>2. FlattenSeq(c.blocks) = s
      <3> DEFINE t == FlattenSeq(d.blocks)
      <3>1. t \in Seq(Digits) /\ d.buf \in Seq(Digits)
        BY <1>1 DEF Ds, InBlocks
      <3>2. d.buf = <<>>
        BY <1>10, <3>1, EmptySeq DEF off
      <3> HIDE DEF t
      <3>3. t \o <<>> = t
        BY <3>1, ConcatEmptySeq
      <3> QED BY <1>1, <1>6, <3>2, <3>3 DEF t
    <2> HIDE DEF e
    <2>3. Fed(e, s \o data) /\ Same(c, e)
      BY <1>1, <1>6, <2>1, <2>2, Md5BlocksTake
    <2> QED BY <1>8, <2>3 DEF e, m, n, Right
  <1>11. CASE n # 0 /\ off # 0 /\ off + n < B
    <2>1. SubSeq(data, 1, n) = data
      BY SubSeqFull DEF n
    <2>2. ~(off + n > B)
      BY <1>3, <1>11
    <2>3. e = [c EXCEPT !.buf = d.buf \o data]
      BY <1>4, <1>7, <1>11, <2>1, <2>2 DEF Md5Append, n, c
    <2> HIDE DEF e
    <2>4. d.buf \o data \in Seq(Digits)
      BY <1>1, ConcatProperties DEF Ds
    <2>5. e \in Ds /\ e.buf = d.buf \o data /\ e.blocks = d.blocks /\ Same(c, e)
      BY <1>6, <2>3, <2>4 DEF Ds, Same
    <2>6. Len(d.buf) + Len(data) < B
      BY <1>11 DEF n, off
    <2>7. Fed(e, s \o data)
      BY <1>1, <2>5, <2>6, Buffered
    <2> QED BY <1>8, <2>5, <2>7 DEF e, m, n, Right
  <1>12. CASE n # 0 /\ off # 0 /\ off + n >= B
    <2> DEFINE copy == B - off
               front == SubSeq(data, 1, copy)
               rest == SubSeq(data, copy + 1, n)
               x == d.buf \o front
               g == Md5Process(c, x)
               g0 == [g EXCEPT !.buf = <<>>]
    <2>1. copy \in Nat /\ copy <= n /\ (IF off + n > B THEN B - off ELSE n) = copy
          /\ ~(off + copy < B)
      BY <1>1, <1>3, <1>12
    <2>2. e = Md5Blocks(g, rest)
      <3> HIDE DEF copy
      <3> QED BY <1>4, <1>7, <1>12, <2>1 DEF Md5Append, n, c
    <2>3. front \in Seq(Digits) /\ Len(front) = copy /\ rest \in Seq(Digits) /\ front \o rest = data
      <3> HIDE DEF copy
      <3> QED BY <2>1, CutAt DEF n
    <2>4. off + copy = B
      BY <1>3
    <2> HIDE DEF e, copy, front, rest
    <2>5. x \in Seq(Digits) /\ d.buf \in Seq(Digits)
      BY <1>1, <2>3, ConcatProperties DEF Ds
    <2> HIDE DEF x
    <2>6. g \in Ds /\ g.blocks = Append(c.blocks, x) /\ Same(c, g)
      BY <1>6, <2>5, Md5ProcessStays DEF Md5Process, Ds, Same
    <2> HIDE DEF g
    <2>7. g0 \in Ds /\ g0.blocks = Append(d.blocks, d.buf \o front) /\ g0.buf = <<>>
      <3>1. <<>> \in Seq(Digits)
        OBVIOUS
      <3> QED BY <1>6, <2>6, <3>1 DEF Ds, x
    <2>8. Len(d.buf) + Len(front) = B
      BY <2>3, <2>4 DEF off
    <2>9. g0.blocks = g.blocks
      BY <2>6 DEF Ds
    <2> HIDE DEF g0
    <2>10. Fed(g0, s \o front) /\ FlattenSeq(g0.blocks) = s \o front
      <3>1. Fed(d, s)
        BY <1>1
      <3>2. front \in Seq(Digits)
        BY <2>3
      <3> QED BY <2>7, <2>8, <3>1, <3>2, Filled
    <2>11. InBlocks(g.blocks) /\ FlattenSeq(g.blocks) = s \o front
      BY <2>9, <2>10 DEF Fed
    <2>12. Fed(e, (s \o front) \o rest) /\ Same(g, e)
      BY <2>2, <2>3, <2>6, <2>11, Md5BlocksTake
    <2>13. (s \o front) \o rest = s \o data
      <3>1. \A a, b, z \in Seq(Digits) : (a \o b) \o z = a \o (b \o z)
        BY Regroup
      <3>2. s \in Seq(Digits) /\ front \in Seq(Digits) /\ rest \in Seq(Digits)
        BY <1>2, <2>3
      <3>3. (s \o front) \o rest = s \o (front \o rest)
        BY <3>1, <3>2, Zenon
      <3> QED BY <2>3, <3>3
    <2>14. Same(c, e)
      BY <2>6, <2>12 DEF Same
    <2>15. Fed(e, s \o data)
      BY <2>12, <2>13
    <2> QED BY <1>8, <2>14, <2>15 DEF e, m, n, Right
  <1> QED BY <1>3, <1>9, <1>10, <1>11, <1>12 DEF e, m, n, Right

-----------------------------------------------------------------------------
(* A piece to SHA1, the padding, and the end of both digests.                *)

(* processBytes() keeps the octets in order and counts their bits.         *)
LEMMA Sha1Takes ==
    ASSUME NEW d, NEW s, Kept(d, s), Counted(d, Len(s)), NEW data \in Seq(Digits),
           8 * (Len(s) + Len(data)) < WordSize * WordSize
    PROVE  /\ Kept(FoldLeft(InputByte, d, data), s \o data)
           /\ Counted(FoldLeft(InputByte, d, data), Len(s) + Len(data))
  <1> DEFINE n == Len(data)
             m == Len(s)
             Part(k) == s \o SubSeq(data, 1, k)
  <1>1. d \in Ds /\ s \in Seq(Digits) /\ m \in Nat /\ n \in Nat
    <2>1. Fed(d, s)
      BY DEF Kept
    <2>2. s \in Seq(Digits)
      BY <2>1, FedLength
    <2> QED BY <2>1, <2>2 DEF Fed
  <1>2. ASSUME NEW k \in 0..n
        PROVE  Part(k) \in Seq(Digits) /\ Len(Part(k)) = m + k
    <2>1. SubSeq(data, 1, k) \in Seq(Digits) /\ Len(SubSeq(data, 1, k)) = k
      <3>1. k \in Nat /\ k <= Len(data)
        BY <1>1
      <3> QED BY <3>1, CutAt
    <2> HIDE DEF n
    <2> QED BY <1>1, <2>1, ConcatProperties
  <1>3. ASSUME NEW k \in 1..n
        PROVE  Part(k) = Append(Part(k - 1), data[k]) /\ data[k] \in Digits
    <2> DEFINE a == SubSeq(data, 1, k - 1)
    <2>1. k \in 1..Len(data) /\ 1 \in 1..Len(data) /\ k - 1 \in Nat /\ k - 1 <= Len(data)
          /\ k \in Nat
      BY <1>1
    <2>2. SubSeq(data, 1, k) = a \o <<data[k]>>
      <3>1. 1 \in 1..Len(data) /\ k \in 1..Len(data)
        BY <2>1
      <3> QED BY <3>1, SubSeqRecursiveSecond
    <2>3. a \in Seq(Digits)
      BY <2>1, CutAt
    <2>4. data[k] \in Digits /\ <<data[k]>> \in Seq(Digits)
      BY <2>1
    <2> DEFINE b == <<data[k]>>
    <2>5. s \o (a \o b) = (s \o a) \o b
      <3>1. \A u, v, z \in Seq(Digits) : (u \o v) \o z = u \o (v \o z)
        BY Regroup
      <3> HIDE DEF a, b
      <3> QED BY <1>1, <2>3, <2>4, <3>1, Zenon DEF b
    <2>6. s \o a \in Seq(Digits)
      BY <1>1, <2>3, ConcatProperties
    <2> HIDE DEF a
    <2>7. Append(s \o a, data[k]) = (s \o a) \o <<data[k]>>
      BY <2>4, <2>6, AppendIsConcat
    <2> QED BY <2>2, <2>4, <2>5, <2>7 DEF a
  <1>4. PICK run : InputByteRun(d, data, run)
    BY <1>1, InputByteRuns
  <1> DEFINE K == {k \in 0..n : Kept(run[k], Part(k)) /\ Counted(run[k], m + k)}
  <1>5. 0 \in K
    <2>1. Part(0) = s
      <3>1. SubSeq(data, 1, 0) = <<>>
        BY SubSeqEmpty
      <3>2. s \o <<>> = s
        BY <1>1, ConcatEmptySeq
      <3> QED BY <3>1, <3>2
    <2>2. run[0] = d /\ m + 0 = m /\ 0 \in 0..n
      BY <1>1, <1>4 DEF InputByteRun
    <2> HIDE DEF Part, m, n
    <2>3. Counted(d, m)
      BY DEF m
    <2> QED BY <2>1, <2>2, <2>3
  <1>6. ASSUME NEW k \in 1..n, k - 1 \in K PROVE k \in K
    <2> DEFINE t == Part(k - 1)
    <2>1. Kept(run[k - 1], t) /\ Counted(run[k - 1], m + (k - 1)) /\ k - 1 \in 0..n /\ k \in 0..n
      BY <1>1, <1>6
    <2>2. Len(t) = m + (k - 1) /\ Len(t) + 1 = m + k /\ m + k <= m + n /\ m + k \in Nat
      BY <1>1, <1>2, <2>1
    <2>3. 8 * (Len(t) + 1) < WordSize * WordSize
      <3> DEFINE ww == WordSize * WordSize
      <3>1. ww \in Nat /\ 8 * (m + n) < ww
        BY WordSizeAssumption
      <3> HIDE DEF ww, m, n, t
      <3>2. 8 * (Len(t) + 1) < ww
        BY <1>1, <2>2, <3>1
      <3> QED BY <3>2 DEF ww
    <2>4. run[k] = InputByte(run[k - 1], data[k])
      BY <1>1, <1>4 DEF InputByteRun
    <2>5. data[k] \in Digits /\ Append(t, data[k]) = Part(k) /\ Len(Part(k)) = m + k
      BY <1>2, <1>3, <2>1
    <2> HIDE DEF Part, t, m, n
    <2>6. Counted(run[k - 1], Len(t))
      BY <2>1, <2>2
    <2>7. Kept(InputByte(run[k - 1], data[k]), Append(t, data[k]))
          /\ Counted(InputByte(run[k - 1], data[k]), Len(Append(t, data[k])))
      BY <2>1, <2>3, <2>5, <2>6, InputByteTakes
    <2>8. Kept(run[k], Part(k)) /\ Counted(run[k], m + k)
      BY <2>4, <2>5, <2>7
    <2> QED BY <2>1, <2>8
  <1> HIDE DEF K
  <1>7. \A k \in 0..n : k \in K
    BY <1>1, <1>5, <1>6, RunInduction
  <1>8. Kept(run[n], Part(n)) /\ Counted(run[n], m + n)
    BY <1>1, <1>7 DEF K
  <1>9. run[n] = FoldLeft(InputByte, d, data)
    BY <1>4 DEF InputByteRun
  <1>10. Part(n) = s \o data
    BY SubSeqFull
  <1> QED BY <1>8, <1>9, <1>10

(* Runs of zeros have their lengths, and join.                             *)
LEMMA ZerosAre ==
    ASSUME NEW a \in Nat, NEW b \in Nat
    PROVE  Zeros(a) \in Seq(Digits) /\ Len(Zeros(a)) = a /\ Zeros(a) \o Zeros(b) = Zeros(a + b)
  <1>1. 0 \in Digits
    BY DEF Digits
  <1>2. \A n \in Nat : Zeros(n) \in Seq(Digits) /\ Len(Zeros(n)) = n /\ \A i \in 1..n : Zeros(n)[i] = 0
    BY <1>1 DEF Zeros
  <1> DEFINE x == Zeros(a)
             y == Zeros(b)
             z == Zeros(a + b)
  <1>3. x \in Seq(Digits) /\ y \in Seq(Digits) /\ z \in Seq(Digits)
        /\ Len(x) = a /\ Len(y) = b /\ Len(z) = a + b
        /\ (\A i \in 1..a : x[i] = 0) /\ (\A i \in 1..b : y[i] = 0) /\ (\A i \in 1..a + b : z[i] = 0)
    <2>1. a + b \in Nat
      OBVIOUS
    <2> QED BY <1>2, <2>1
  <1> HIDE DEF x, y, z
  <1>4. x \o y \in Seq(Digits) /\ Len(x \o y) = a + b
        /\ \A i \in 1..a + b : (x \o y)[i] = IF i <= a THEN x[i] ELSE y[i - a]
    BY <1>3, ConcatProperties
  <1>5. \A i \in 1..a + b : (x \o y)[i] = z[i]
    <2> TAKE i \in 1..a + b
    <2>1. CASE i <= a
      <3>1. i \in 1..a
        BY <2>1
      <3> QED BY <1>3, <1>4, <2>1, <3>1
    <2>2. CASE ~(i <= a)
      <3>1. i - a \in 1..b
        BY <2>2
      <3> QED BY <1>3, <1>4, <2>2, <3>1
    <2> QED BY <2>1, <2>2
  <1> DEFINE v == x \o y
  <1>6. v = z
    <2>1. v \in Seq(Digits) /\ Len(v) = Len(z) /\ \A i \in 1..Len(v) : v[i] = z[i]
      BY <1>3, <1>4, <1>5
    <2> HIDE DEF v
    <2> QED BY <1>3, <2>1, SeqEqual
  <1> QED BY <1>3, <1>6 DEF x, y, z

ZerosOf(n) == CHOOSE z \in 0..B - 1 : (n + 1 + z + 8) % B = 0
Word(n) ==
    [i \in 1..8 |-> IF i <= 4 THEN Octet((8 * n) \div WordSize, 4 - i)
                    ELSE Octet((8 * n) % WordSize, 8 - i)]
Ended(e, t) == e \in Ds /\ InBlocks(e.blocks) /\ FlattenSeq(e.blocks) = t

(* The length in bits is written in eight octets.                          *)
LEMMA WordIs ==
    ASSUME NEW n \in Nat
    PROVE  Word(n) \in Seq(Digits) /\ Len(Word(n)) = 8
  <1> DEFINE u == (8 * n) \div WordSize
             v == (8 * n) % WordSize
  <1>1. u \in Nat /\ v \in Nat
    <2> DEFINE a == 8 * n
               w == WordSize
    <2>1. a \in Nat /\ w \in Nat /\ w > 0
      BY WordSizeAssumption
    <2> HIDE DEF a, w
    <2>2. a \div w \in Nat /\ a % w \in Nat
      BY <2>1, DivideAndRest
    <2> QED BY <2>2 DEF a, w
  <1> HIDE DEF u, v
  <1>2. \A i \in 1..8 : (IF i <= 4 THEN Octet(u, 4 - i) ELSE Octet(v, 8 - i)) \in Digits
    <2> TAKE i \in 1..8
    <2>1. CASE i <= 4
      <3>1. 4 - i \in 0..3
        BY <2>1
      <3> QED BY <1>1, <2>1, <3>1 DEF Digits
    <2>2. CASE ~(i <= 4)
      <3>1. 8 - i \in 0..3
        BY <2>2
      <3> QED BY <1>1, <2>2, <3>1 DEF Digits
    <2> QED BY <2>1, <2>2
  <1>3. Word(n) = [i \in 1..8 |-> IF i <= 4 THEN Octet(u, 4 - i) ELSE Octet(v, 8 - i)]
    BY DEF Word, u, v
  <1> QED BY <1>2, <1>3

(* PadMessage().                                                             *)
LEMMA PadMessageEnds ==
    ASSUME NEW d, NEW s, Kept(d, s), Counted(d, Len(s))
    PROVE  Ended(PadMessage(d), ((s \o <<128>>) \o Zeros(ZerosOf(Len(s)))) \o Word(Len(s)))
  <1> DEFINE n == Len(s)
             off == Len(d.buf)
             word == Word(n)
             e == PadMessage(d)
             one == <<128>>
  <1>1. Fed(d, s) /\ d \in Ds /\ off < B /\ d.buf \in Seq(Digits) /\ d.low = (8 * n) % WordSize
        /\ d.high = (8 * n) \div WordSize
    BY DEF Kept, Fed, Counted, Ds
  <1>2. s \in Seq(Digits) /\ n \in Nat /\ off = n % B
    BY <1>1, FedLength
  <1>3. B \in Nat /\ B > 9 /\ off \in Nat
    BY <1>1, BlockAssumption
  <1>4. n \div B \in Int /\ n = (n \div B) * B + off
    <2>1. n \div B \in Nat /\ (n \div B) * B + (n % B) = n
      BY <1>2, <1>3, DivideAndRest
    <2> QED BY <1>2, <2>1
  <1>5. Sha1Length(d) = word
    BY <1>1 DEF Sha1Length, Word
  <1>6. word \in Seq(Digits) /\ Len(word) = 8
    BY <1>2, WordIs
  <1>7. one \in Seq(Digits) /\ Len(one) = 1
    <2>1. 128 \in Digits
      BY DEF Digits
    <2> QED BY <2>1
  <1>8. ASSUME NEW z \in Nat, z < B, NEW k \in Int, off + z + 9 = k * B
        PROVE  ZerosOf(n) = z
    <2> DEFINE a == n + 1 + z + 8
               j == n \div B
               i == j + k
    <2>1. a \in Nat /\ i \in Int /\ a = i * B + 0
      <3> HIDE DEF j
      <3>1. i * B = j * B + k * B /\ j * B \in Int /\ k * B \in Int /\ i \in Int
        BY <1>3, <1>4 DEF j
      <3>2. n = j * B + off
        BY <1>4 DEF j
      <3> DEFINE jb == j * B
                 kb == k * B
                 ib == i * B
      <3>3. ib = jb + kb /\ jb \in Int /\ kb \in Int /\ n = jb + off /\ off + z + 9 = kb
        BY <1>8, <3>1, <3>2
      <3> HIDE DEF jb, kb, ib, i, n, off
      <3>4. a = ib + 0 /\ a \in Nat
        BY <1>2, <1>3, <3>3
      <3> QED BY <3>1, <3>4 DEF ib
    <2> HIDE DEF a, i
    <2>2. a % B = 0
      BY <1>3, <2>1, DivideUnique
    <2>3. z \in 0..(B - 1)
      BY <1>3, <1>8
    <2>4. (n + 1 + z + 8) % B = 0
      BY <2>2 DEF a
    <2> HIDE DEF n
    <2> QED BY <1>2, <2>3, <2>4, ZerosUnique DEF ZerosOf
  <1> HIDE DEF n, off, word
  <1>9. CASE ~(off > B - 9)
    <2> DEFINE z == B - 9 - off
               tail == (one \o Zeros(z)) \o word
               d0 == [d EXCEPT !.buf = <<>>]
    <2>1. z \in Nat /\ z < B /\ off + z + 9 = 1 * B /\ 1 \in Int
      BY <1>3, <1>9
    <2>2. ZerosOf(n) = z
      BY <1>8, <2>1
    <2> HIDE DEF z
    <2>3. Zeros(z) \in Seq(Digits) /\ Len(Zeros(z)) = z
      BY <2>1, ZerosAre
    <2>4. tail \in Seq(Digits) /\ Len(tail) = 1 + z + 8
      <3>1. one \o Zeros(z) \in Seq(Digits) /\ Len(one \o Zeros(z)) = 1 + z
        BY <1>7, <2>3, ConcatProperties
      <3> DEFINE oz == one \o Zeros(z)
      <3> HIDE DEF oz, one
      <3>2. oz \o word \in Seq(Digits) /\ Len(oz \o word) = Len(oz) + 8
        BY <1>6, <3>1, Joined DEF oz
      <3>3. Len(oz) = 1 + z
        BY <3>1 DEF oz
      <3>4. Len(oz) + 8 = 1 + z + 8
        BY <3>3
      <3> QED BY <3>2, <3>4 DEF oz
    <2>5. ((d.buf \o one) \o Zeros(z)) \o word = d.buf \o tail
          /\ ((s \o one) \o Zeros(z)) \o word = s \o tail
      <3> HIDE DEF one
      <3> DEFINE zs == Zeros(z)
      <3>1. zs \in Seq(Digits)
        BY <2>3
      <3>2. tail = (one \o zs) \o word
        OBVIOUS
      <3>0. one \in Seq(Digits) /\ d.buf \in Seq(Digits) /\ word \in Seq(Digits)
        BY <1>1, <1>6, <1>7
      <3> HIDE DEF zs, tail, one
      <3>3. ASSUME NEW a \in Seq(Digits)
            PROVE  ((a \o one) \o zs) \o word = a \o tail
        <4> DEFINE oz == one \o zs
        <4>1. oz \in Seq(Digits)
          BY <3>0, <3>1, Joined
        <4>2. (a \o one) \o zs = a \o oz
          BY <3>0, <3>1, Regroup, Zenon
        <4> HIDE DEF oz
        <4>3. (a \o oz) \o word = a \o (oz \o word)
          BY <3>0, <4>1, Regroup, Zenon
        <4> QED BY <3>2, <4>2, <4>3 DEF oz
      <3> QED BY <1>2, <3>0, <3>3 DEF zs
    <2>6. e = Process(d0, ((d.buf \o one) \o Zeros(z)) \o word)
      BY <1>5, <1>9 DEF PadMessage, off, z
    <2> HIDE DEF e, tail
    <2>7. e \in Ds /\ e.buf = <<>> /\ e.blocks = Append(d.blocks, d.buf \o tail)
      <3>1. d.buf \o tail \in Seq(Digits) /\ <<>> \in Seq(Digits)
        BY <1>1, <2>4, ConcatProperties
      <3>2. Append(d.blocks, d.buf \o tail) \in Seq(Seq(Digits))
        BY <1>1, <3>1 DEF Ds
      <3> QED BY <1>1, <2>5, <2>6, <3>1, <3>2 DEF Process, Ds
    <2>8. Len(d.buf) + Len(tail) = B
      <3>1. off + Len(tail) = B
        BY <1>3, <2>1, <2>4
      <3> QED BY <3>1 DEF off
    <2>9. Fed(e, s \o tail) /\ FlattenSeq(e.blocks) = s \o tail
      BY <1>1, <2>4, <2>7, <2>8, Filled
    <2>10. Ended(e, s \o tail)
      BY <2>9 DEF Fed, Ended
    <2> QED BY <2>2, <2>5, <2>10 DEF e, n, word
  <1>10. CASE off > B - 9
    <2> DEFINE y == B - 1 - off
               z == y + (B - 8)
               front == one \o Zeros(y)
               tail == Zeros(B - 8) \o word
               d0 == [d EXCEPT !.buf = <<>>]
               d1 == Process(d0, d.buf \o front)
    <2>1. y \in Nat /\ z \in Nat /\ z < B /\ off + z + 9 = 2 * B /\ 2 \in Int /\ B - 8 \in Nat
      <3>1. off < B
        BY <1>1 DEF off
      <3> QED BY <1>3, <1>10, <3>1
    <2>2. ZerosOf(n) = z
      BY <1>8, <2>1
    <2>3. Zeros(y) \in Seq(Digits) /\ Len(Zeros(y)) = y
          /\ Zeros(B - 8) \in Seq(Digits) /\ Len(Zeros(B - 8)) = B - 8
          /\ Zeros(y) \o Zeros(B - 8) = Zeros(z)
      <3> HIDE DEF y
      <3> QED BY <2>1, ZerosAre
    <2>4. front \in Seq(Digits) /\ Len(front) = 1 + y
      BY <1>7, <2>3, ConcatProperties
    <2>5. tail \in Seq(Digits) /\ Len(tail) = B
      <3>1. tail \in Seq(Digits) /\ Len(tail) = B - 8 + 8
        <4> DEFINE zs == Zeros(B - 8)
        <4>1. zs \in Seq(Digits) /\ Len(zs) = B - 8
          BY <2>3
        <4> HIDE DEF zs
        <4>2. zs \o word \in Seq(Digits) /\ Len(zs \o word) = Len(zs) + Len(word)
          BY <1>6, <4>1, Joined
        <4> QED BY <1>6, <4>1, <4>2 DEF zs
      <3> QED BY <1>3, <3>1
    <2> DEFINE zy == Zeros(y)
               zb == Zeros(B - 8)
    <2>6. (d.buf \o one) \o zy = d.buf \o front
          /\ ((s \o one) \o Zeros(z)) \o word = (s \o front) \o tail
      <3>1. \A u, v, x \in Seq(Digits) : (u \o v) \o x = u \o (v \o x)
        BY Regroup
      <3>2. zy \in Seq(Digits) /\ zb \in Seq(Digits) /\ Zeros(z) = zy \o zb
        BY <2>3
      <3>3. s \o one \in Seq(Digits)
        BY <1>2, <1>7, ConcatProperties
      <3> HIDE DEF zy, zb, one, y
      <3>4. (d.buf \o one) \o zy = d.buf \o (one \o zy)
        BY <1>1, <1>7, <3>1, <3>2, Zenon
      <3>5. (s \o one) \o zy = s \o (one \o zy)
        BY <1>2, <1>7, <3>1, <3>2, Zenon
      <3>6. (s \o one) \o (zy \o zb) = ((s \o one) \o zy) \o zb
        BY <3>1, <3>2, <3>3, Zenon
      <3>7. (s \o one) \o zy \in Seq(Digits)
        BY <3>2, <3>3, ConcatProperties
      <3>8. (((s \o one) \o zy) \o zb) \o word = ((s \o one) \o zy) \o (zb \o word)
        BY <1>6, <3>1, <3>2, <3>7, Zenon
      <3>9. front = one \o zy /\ tail = zb \o word
        BY DEF zy, zb
      <3> QED BY <3>2, <3>4, <3>5, <3>6, <3>8, <3>9
    <2>7. e = Process([Process(d, (d.buf \o one) \o zy) EXCEPT !.buf = <<>>], tail)
      BY <1>5, <1>10 DEF PadMessage, off
    <2> HIDE DEF e, tail, front, zy, zb, y, z
    <2>8. d.buf \o front \in Seq(Digits) /\ <<>> \in Seq(Digits)
      BY <1>1, <2>4, ConcatProperties
    <2>9. Append(d.blocks, d.buf \o front) \in Seq(Seq(Digits))
      BY <1>1, <2>8 DEF Ds
    <2>10. d1 \in Ds /\ d1.buf = <<>> /\ d1.blocks = Append(d.blocks, d.buf \o front)
      BY <1>1, <2>8, <2>9 DEF Process, Ds
    <2>11. e = Process(d1, tail)
      BY <1>1, <2>6, <2>7, <2>8, <2>9 DEF Process, Ds
    <2>12. Len(d.buf) + Len(front) = B
      BY <1>3, <2>4 DEF off, y
    <2> HIDE DEF d1
    <2>13. Fed(d1, s \o front)
      <3>1. Fed(d, s)
        BY <1>1
      <3>2. front \in Seq(Digits)
        BY <2>4
      <3> QED BY <2>10, <2>12, <3>1, <3>2, Filled
    <2>14. d1.buf \o tail = tail /\ Len(d1.buf) + Len(tail) = B
      BY <1>3, <2>5, <2>10, ConcatEmptySeq
    <2>15. e \in Ds /\ e.buf = <<>> /\ e.blocks = Append(d1.blocks, d1.buf \o tail)
      <3>1. Append(d1.blocks, tail) \in Seq(Seq(Digits))
        <4>1. d1.blocks \in Seq(Seq(Digits)) /\ tail \in Seq(Digits)
          BY <2>5, <2>10 DEF Ds
        <4> QED BY <4>1, AppendProperties
      <3> QED BY <2>5, <2>10, <2>11, <2>14, <3>1 DEF Process, Ds
    <2>16. Fed(e, (s \o front) \o tail) /\ FlattenSeq(e.blocks) = (s \o front) \o tail
      <3> DEFINE sf == s \o front
      <3>1. tail \in Seq(Digits) /\ Fed(d1, sf)
        BY <2>5, <2>13
      <3> HIDE DEF sf
      <3>2. Fed(e, sf \o tail) /\ FlattenSeq(e.blocks) = sf \o tail
        BY <2>14, <2>15, <3>1, Filled
      <3> QED BY <3>2 DEF sf
    <2>17. Ended(e, (s \o front) \o tail)
      BY <2>16 DEF Fed, Ended
    <2> QED BY <2>2, <2>6, <2>17 DEF e, n, word
  <1> QED BY <1>9, <1>10

(* MD5's two counters, saved low first, are the length reversed.           *)
LEMMA SavedIs ==
    ASSUME NEW d, NEW n \in Nat, d.low = (8 * n) % WordSize, d.high = (8 * n) \div WordSize
    PROVE  /\ [i \in 1..8 |-> IF i <= 4 THEN Octet(d.low, i - 1) ELSE Octet(d.high, i - 5)]
                 = Reverse(Word(n))
           /\ Reverse(Word(n)) \in Seq(Digits) /\ Len(Reverse(Word(n))) = 8
  <1> DEFINE u == (8 * n) \div WordSize
             v == (8 * n) % WordSize
             word == Word(n)
             back == [i \in 1..8 |-> word[(8 - i) + 1]]
             saved == [i \in 1..8 |-> IF i <= 4 THEN Octet(d.low, i - 1) ELSE Octet(d.high, i - 5)]
  <1>1. word = [i \in 1..8 |-> IF i <= 4 THEN Octet(u, 4 - i) ELSE Octet(v, 8 - i)]
    BY DEF Word
  <1>2. d.low = v /\ d.high = u
    OBVIOUS
  <1>3. word \in Seq(Digits) /\ Len(word) = 8
    BY WordIs
  <1> HIDE DEF u, v, word
  <1>4. Reverse(word) = back
    BY <1>3 DEF Reverse
  <1>5. \A i \in 1..8 : saved[i] = back[i]
    <2> TAKE i \in 1..8
    <2> DEFINE j == (8 - i) + 1
    <2>1. j \in 1..8 /\ back[i] = word[j]
      OBVIOUS
    <2>2. CASE i <= 4
      <3>1. ~(j <= 4) /\ 8 - j = i - 1
        BY <2>2
      <3>2. word[j] = Octet(v, i - 1)
        BY <1>1, <2>1, <3>1
      <3> QED BY <1>2, <2>1, <2>2, <3>2
    <2>3. CASE ~(i <= 4)
      <3>1. j <= 4 /\ 4 - j = i - 5
        BY <2>3
      <3>2. word[j] = Octet(u, i - 5)
        BY <1>1, <2>1, <3>1
      <3> QED BY <1>2, <2>1, <2>3, <3>2
    <2> QED BY <2>2, <2>3
  <1>6. \A i \in 1..8 : word[(8 - i) + 1] \in Digits
    <2> TAKE i \in 1..8
    <2> DEFINE j == (8 - i) + 1
    <2>1. j \in 1..Len(word)
      BY <1>3
    <2> HIDE DEF j
    <2>2. word[j] \in Digits
      BY <1>3, <2>1, ElementOfSeq
    <2> QED BY <2>2 DEF j
  <1>7. back \in Seq(Digits) /\ Len(back) = 8
    BY <1>6
  <1>8. saved = back
    <2>1. saved = [i \in 1..8 |-> saved[i]] /\ back = [i \in 1..8 |-> back[i]]
      OBVIOUS
    <2> HIDE DEF saved, back
    <2> QED BY <1>5, <2>1
  <1> QED BY <1>4, <1>7, <1>8 DEF word

(* md5_finish().                                                             *)
LEMMA Md5FinishEnds ==
    ASSUME NEW d, NEW s, Kept(d, s), Counted(d, Len(s))
    PROVE  Ended(Md5Finish(d), ((s \o <<128>>) \o Zeros(ZerosOf(Len(s)))) \o Reverse(Word(Len(s))))
  <1> DEFINE n == Len(s)
             one == <<128>>
             z == (B - 9 - d.low \div 8) % B
             zs == Zeros(z)
             padding == one \o zs
             saved == Reverse(Word(n))
             d1 == Md5Append(d, padding)
             e == Md5Append(d1, saved)
  <1>1. Fed(d, s) /\ d.low = (8 * n) % WordSize /\ d.high = (8 * n) \div WordSize
    BY DEF Kept, Counted
  <1>2. s \in Seq(Digits) /\ n \in Nat /\ B \in Nat /\ B > 9
    BY <1>1, FedLength, BlockAssumption
  <1> HIDE DEF n
  <1>3. z \in 0..(B - 1) /\ (n + 1 + z + 8) % B = 0
    BY <1>1, <1>2, Md5Zeros
  <1> DEFINE sv == [i \in 1..8 |-> IF i <= 4 THEN Octet(d.low, i - 1) ELSE Octet(d.high, i - 5)]
  <1>4. sv = saved
    <2>1. [i \in 1..8 |-> IF i <= 4 THEN Octet(d.low, i - 1) ELSE Octet(d.high, i - 5)]
             = Reverse(Word(n))
      BY <1>1, <1>2, SavedIs
    <2> QED BY <2>1
  <1>5. saved \in Seq(Digits) /\ Len(saved) = 8
    BY <1>1, <1>2, SavedIs
  <1>6. Md5Finish(d) = e
    <2>1. Md5Finish(d) = Md5Append(Md5Append(d, padding), sv)
      BY DEF Md5Finish
    <2> HIDE DEF saved, sv, padding
    <2> QED BY <1>4, <2>1
  <1> HIDE DEF z, sv, saved
  <1>7. zs \in Seq(Digits) /\ Len(zs) = z /\ z \in Nat
    <2>1. z \in Nat
      BY <1>2, <1>3
    <2> QED BY <2>1, ZerosAre
  <1>8. one \in Seq(Digits) /\ Len(one) = 1
    <2>1. 128 \in Digits
      BY DEF Digits
    <2> QED BY <2>1
  <1> HIDE DEF one, zs
  <1>9. padding \in Seq(Digits) /\ Len(padding) = 1 + z
    BY <1>7, <1>8, Joined
  <1>10. s \o padding = (s \o one) \o zs
    BY <1>2, <1>7, <1>8, Regroup
  <1> HIDE DEF padding
  <1> DEFINE t == s \o padding
  <1>11. Kept(d1, t) /\ t \in Seq(Digits) /\ Len(t) = n + (1 + z)
    <2>1. Kept(d1, t)
      BY <1>9, Md5AppendTakes
    <2>2. t \in Seq(Digits) /\ Len(t) = Len(s) + Len(padding)
      BY <1>2, <1>9, Joined
    <2> QED BY <1>9, <2>1, <2>2 DEF n
  <1> HIDE DEF t, d1
  <1>12. Kept(e, t \o saved) /\ Len(t \o saved) = n + 1 + z + 8
    <2>1. Kept(e, t \o saved)
      BY <1>5, <1>11, Md5AppendTakes
    <2>2. Len(t \o saved) = Len(t) + Len(saved)
      BY <1>5, <1>11, Joined
    <2>3. (n + (1 + z)) + 8 = n + 1 + z + 8
      BY <1>2, <1>7
    <2> QED BY <1>5, <1>11, <2>1, <2>2, <2>3
  <1> HIDE DEF e
  <1> DEFINE r == t \o saved
  <1>13. Fed(e, r)
    BY <1>12 DEF Kept
  <1>14. Len(e.buf) = 0
    <2>1. Len(e.buf) = Len(r) % B
      <3> HIDE DEF r
      <3> QED BY <1>13, FedLength
    <2> QED BY <1>3, <1>12, <2>1
  <1>15. e.buf = <<>> /\ FlattenSeq(e.blocks) \in Seq(Digits)
    <2>1. e.buf \in Seq(Digits) /\ FlattenSeq(e.blocks) \in Seq(Digits)
      BY <1>13 DEF Fed, Ds, InBlocks
    <2> QED BY <1>14, <2>1, EmptySeq
  <1>16. FlattenSeq(e.blocks) = r
    <2> HIDE DEF r
    <2>1. FlattenSeq(e.blocks) \o <<>> = FlattenSeq(e.blocks)
      BY <1>15, ConcatEmptySeq
    <2> QED BY <1>13, <1>15, <2>1 DEF Fed
  <1>17. Ended(e, r)
    BY <1>13, <1>16 DEF Fed, Ended
  <1>18. z = ZerosOf(n)
    BY <1>2, <1>3, ZerosUnique DEF ZerosOf
  <1>19. r = ((s \o one) \o Zeros(ZerosOf(n))) \o saved
    BY <1>10, <1>18 DEF t, zs
  <1> QED BY <1>6, <1>17, <1>19 DEF one, saved, n

-----------------------------------------------------------------------------
(* The invariant.                                                            *)

Message(n) == [i \in 1..n |-> Data + i]

Begun ==
    /\ digest \in {"none", "sha1", "md5"} /\ (digest = "none" => ~computed)
    /\ length \in Nat /\ length <= MaxMessageSize
    /\ computed \in BOOLEAN /\ corrupted \in BOOLEAN
Fits == ~computed => Kept(State, Message(length)) /\ Counted(State, length)
Digested == computed /\ ~corrupted => InBlocks(blocks) /\ FlattenSeq(blocks) = Padded
DigestIInv == Begun /\ Fits /\ Digested

(* The message fed so far grows by the piece that follows it.              *)
LEMMA MessageIs ==
    ASSUME NEW m \in Nat, NEW n \in Nat
    PROVE  /\ Message(m) \in Seq(Digits) /\ Len(Message(m)) = m
           /\ [i \in 1..n |-> Data + m + i] \in Seq(Digits)
           /\ Len([i \in 1..n |-> Data + m + i]) = n
           /\ Message(m) \o [i \in 1..n |-> Data + m + i] = Message(m + n)
  <1> DEFINE x == Message(m)
             y == [i \in 1..n |-> Data + m + i]
             z == Message(m + n)
             v == x \o y
  <1>1. \A i \in Nat : Data + i \in Digits /\ Data + m + i \in Digits
    BY DEF Data, Digits
  <1>2. x \in Seq(Digits) /\ Len(x) = m /\ \A i \in 1..m : x[i] = Data + i
    BY <1>1 DEF Message
  <1>3. y \in Seq(Digits) /\ Len(y) = n /\ \A i \in 1..n : y[i] = Data + m + i
    BY <1>1
  <1>4. z \in Seq(Digits) /\ Len(z) = m + n /\ \A i \in 1..m + n : z[i] = Data + i
    BY <1>1 DEF Message
  <1> HIDE DEF x, y, z
  <1>5. v \in Seq(Digits) /\ Len(v) = m + n
        /\ \A i \in 1..m + n : v[i] = IF i <= m THEN x[i] ELSE y[i - m]
    <2>1. v \in Seq(Digits) /\ Len(v) = Len(x) + Len(y)
      BY <1>2, <1>3, Joined
    <2>2. \A i \in 1..Len(x) + Len(y) : v[i] = IF i <= Len(x) THEN x[i] ELSE y[i - Len(x)]
      BY <1>2, <1>3, ConcatProperties
    <2> HIDE DEF v
    <2> QED BY <1>2, <1>3, <2>1, <2>2
  <1> HIDE DEF v
  <1>6. \A i \in 1..m + n : v[i] = z[i]
    <2> TAKE i \in 1..m + n
    <2>1. CASE i <= m
      <3>1. i \in 1..m
        BY <2>1
      <3> QED BY <1>2, <1>4, <1>5, <2>1, <3>1
    <2>2. CASE ~(i <= m)
      <3>1. i - m \in 1..n /\ Data + m + (i - m) = Data + i
        BY <2>2 DEF Data
      <3> QED BY <1>3, <1>4, <1>5, <2>2, <3>1
    <2> QED BY <2>1, <2>2
  <1>7. v = z
    BY <1>4, <1>5, <1>6, SeqEqual
  <1> QED BY <1>2, <1>3, <1>7 DEF x, y, z, v

(* A step that sets the variables of a digest sets the record.             *)
LEMMA StateBecomes ==
    ASSUME NEW e \in Ds, Becomes(e)
    PROVE  State' = e
  BY DEF State, Ds, Becomes

(* The padded message is its four parts, joined.                           *)
LEMMA PaddedIs ==
    Padded = ((Message(length) \o <<128>>) \o Zeros(ZerosOf(length)))
                 \o IF digest = "sha1" THEN Word(length) ELSE Reverse(Word(length))
  BY DEF Padded, Message, ZerosOf, Word

(* A new SHA-1 digest satisfies the invariant.                             *)
LEMMA InitDigestIInv == DigestInit => DigestIInv
  <1> SUFFICES ASSUME DigestInit PROVE DigestIInv
    OBVIOUS
  <1>1. Begun
    <2>1. digest = "none" /\ length = 0 /\ computed = FALSE /\ corrupted = FALSE
      BY DEF DigestInit
    <2>2. 0 \in Nat /\ 0 <= MaxMessageSize
      BY LengthAssumption
    <2>3. computed \in BOOLEAN /\ corrupted \in BOOLEAN /\ ~computed
      BY <2>1, Zenon
    <2> QED BY <2>1, <2>2, <2>3 DEF Begun
  <1>2. State \in Ds /\ State.buf = <<>> /\ State.blocks = <<>> /\ State.low = 0 /\ State.high = 0
        /\ ~State.corrupted
    <2>1. <<>> \in Seq(Digits) /\ <<>> \in Seq(Seq(Digits))
      OBVIOUS
    <2> QED BY <2>1 DEF DigestInit, State, Ds
  <1>3. FlattenSeq(<<>>) = <<>> /\ InBlocks(<<>>)
    <2>1. <<>> \in Seq(Seq(Digits)) /\ <<>> \in Seq(Digits) /\ Len(<<>>) = 0
      OBVIOUS
    <2>2. FlattenSeq(<<>>) = <<>>
      BY <2>1, FlattenAppend
    <2>3. 0 * B = 0
      BY BlockAssumption
    <2>4. \A k \in 1..0 : FALSE
      OBVIOUS
    <2> QED BY <2>1, <2>2, <2>3, <2>4 DEF InBlocks
  <1>4. Message(0) = <<>> /\ <<>> \o <<>> = <<>> /\ Len(<<>>) = 0
    BY DEF Message
  <1>5. (8 * 0) % WordSize = 0 /\ (8 * 0) \div WordSize = 0
    <2>1. 0 % WordSize = 0 /\ 0 \div WordSize = 0
      BY WordSizeAssumption
    <2> QED BY <2>1
  <1>6. Fits
    <2>1. length = 0
      BY DEF DigestInit
    <2>2. Fed(State, Message(0))
      BY <1>2, <1>3, <1>4, BlockAssumption DEF Fed
    <2> QED BY <1>2, <1>4, <1>5, <2>1, <2>2 DEF Fits, Kept, Counted
  <1>7. Digested
    BY DEF DigestInit, Digested
  <1> QED BY <1>1, <1>6, <1>7 DEF DigestIInv

(* Starting over with either digest keeps the invariant.                   *)
LEMMA NewDigestIInv ==
    ASSUME DigestIInv, NEW which \in {"sha1", "md5"}, NewDigest(which)
    PROVE  DigestIInv'
  <1>1. Begun /\ Fits
    BY DEF DigestIInv
  <1>2. ~computed /\ ~computed' /\ State' = State /\ length' = length
    BY <1>1 DEF Begun, NewDigest, State
  <1>3. Begun'
    BY <1>1, <1>2 DEF Begun, NewDigest
  <1>4. Kept(State, Message(length)) /\ Counted(State, length)
    BY <1>1, <1>2 DEF Fits
  <1>5. Fits'
    BY <1>2, <1>4 DEF Fits
  <1>6. Digested'
    BY <1>2 DEF Digested
  <1> QED BY <1>3, <1>5, <1>6 DEF DigestIInv

(* Feeding a piece of any length keeps the invariant.                      *)
LEMMA FeedIInv ==
    ASSUME DigestIInv, NEW n \in Pieces, Feed(n)
    PROVE  DigestIInv'
  <1> DEFINE data == [i \in 1..n |-> Data + length + i]
             m == length
  <1>1. Begun /\ Fits /\ Digested
    BY DEF DigestIInv
  <1>2. n \in Nat /\ m \in Nat /\ m + n <= MaxMessageSize /\ m + n \in Nat
        /\ length' = m + n /\ digest' = digest /\ computed' = computed
        /\ digest # "none" /\ ~corrupted /\ (computed => digest = "sha1")
    BY <1>1, LengthAssumption DEF Begun, Feed
  <1>3. /\ Message(m) \in Seq(Digits) /\ Len(Message(m)) = m /\ data \in Seq(Digits)
        /\ Len(data) = n /\ Message(m) \o data = Message(m + n)
    BY <1>2, MessageIs
  <1>4. 8 * (m + n) < WordSize * WordSize
    <2> DEFINE ww == WordSize * WordSize
    <2>1. ww \in Nat /\ 8 * MaxMessageSize < ww /\ MaxMessageSize \in Nat
      BY LengthAssumption, WordSizeAssumption
    <2> HIDE DEF ww, m
    <2>2. 8 * (m + n) < ww
      BY <1>2, <2>1
    <2> QED BY <2>2 DEF ww
  <1>5. IF digest = "sha1" THEN Sha1Input(data) ELSE Becomes(Md5Append(State, data))
    BY DEF Feed
  <1> HIDE DEF data, m
  (* A digest that takes the piece.                                          *)
  <1>6. ASSUME NEW e, ~computed, Becomes(e), Kept(e, Message(m + n)), Counted(e, m + n)
        PROVE  DigestIInv'
    <2>1. e \in Ds /\ ~e.corrupted
      BY <1>6 DEF Kept, Fed
    <2>2. State' = e
      BY <1>6, <2>1, StateBecomes
    <2>3. corrupted' \in BOOLEAN
      BY <1>6, <2>1 DEF Becomes, Ds
    <2>4. Begun'
      BY <1>1, <1>2, <2>3 DEF Begun
    <2>5. Fits'
      BY <1>2, <1>6, <2>2 DEF Fits
    <2>6. Digested'
      BY <1>2, <1>6 DEF Digested
    <2> QED BY <2>4, <2>5, <2>6 DEF DigestIInv
  (* Nothing to add.                                                         *)
  <1>7. ASSUME data = <<>>, UNCHANGED <<buf, low, high, corrupted, blocks>>
        PROVE  DigestIInv'
    <2>1. n = 0 /\ length' = length
      BY <1>2, <1>3, <1>7 DEF m
    <2>2. State' = State
      BY <1>7 DEF State
    <2>3. Begun'
      BY <1>1, <1>2, <1>7, <2>1 DEF Begun
    <2>4. Fits'
      BY <1>1, <1>2, <2>1, <2>2 DEF Fits
    <2>5. Padded' = Padded
      BY <1>2, <2>1 DEF Padded
    <2>6. Digested'
      BY <1>1, <1>2, <1>7, <2>5 DEF Digested
    <2> QED BY <2>3, <2>4, <2>6 DEF DigestIInv
  <1>8. ASSUME ~computed
        PROVE  Kept(State, Message(m)) /\ Counted(State, m)
    BY <1>1, <1>8 DEF Fits, m
  <1>9. CASE digest = "sha1" /\ data = <<>>
    <2>1. UNCHANGED <<buf, low, high, corrupted, blocks>>
      BY <1>5, <1>9 DEF Sha1Input
    <2> QED BY <1>7, <1>9, <2>1
  <1>10. CASE digest = "sha1" /\ data # <<>> /\ computed
    <2>1. corrupted' = TRUE
      BY <1>5, <1>10 DEF Sha1Input
    <2>2. Begun'
      BY <1>1, <1>2, <2>1 DEF Begun
    <2> QED BY <1>2, <1>10, <2>1, <2>2 DEF Fits, Digested, DigestIInv
  <1>11. CASE digest = "sha1" /\ data # <<>> /\ ~computed
    <2> DEFINE e == FoldLeft(InputByte, State, data)
    <2>1. Becomes(e)
      BY <1>5, <1>11 DEF Sha1Input
    <2>2. Kept(State, Message(m)) /\ Counted(State, Len(Message(m)))
      BY <1>3, <1>8, <1>11
    <2>3. 8 * (Len(Message(m)) + Len(data)) < WordSize * WordSize
      BY <1>3, <1>4
    <2>4. Kept(e, Message(m) \o data) /\ Counted(e, Len(Message(m)) + Len(data))
      BY <1>3, <2>2, <2>3, Sha1Takes
    <2>5. Kept(e, Message(m + n)) /\ Counted(e, m + n)
      BY <1>3, <2>4
    <2> HIDE DEF e
    <2> QED BY <1>6, <1>11, <2>1, <2>5
  <1>12. CASE digest # "sha1"
    <2> DEFINE e == Md5Append(State, data)
    <2>1. Becomes(e) /\ ~computed
      BY <1>2, <1>5, <1>12
    <2>2. Kept(State, Message(m)) /\ Counted(State, Len(Message(m)))
      BY <1>3, <1>8, <2>1
    <2>3. 8 * (Len(Message(m)) + Len(data)) < WordSize * WordSize
      BY <1>3, <1>4
    <2>4. Kept(e, Message(m) \o data) /\ Counted(e, Len(Message(m)) + Len(data))
      BY <1>3, <2>2, <2>3, Md5AppendTakes
    <2>5. Kept(e, Message(m + n)) /\ Counted(e, m + n)
      BY <1>3, <2>4
    <2> HIDE DEF e
    <2> QED BY <1>6, <2>1, <2>5
  <1> QED BY <1>9, <1>10, <1>11, <1>12

(* Padding and processing the last blocks keeps the invariant.             *)
LEMMA FinishIInv ==
    ASSUME DigestIInv, Finish
    PROVE  DigestIInv'
  <1>1. Begun /\ Fits /\ Digested
    BY DEF DigestIInv
  <1>2. digest' = digest /\ length' = length /\ computed' = TRUE /\ ~corrupted
        /\ digest # "none" /\ (computed => digest = "sha1")
    BY DEF Finish
  <1>3. Padded' = Padded
    BY <1>2 DEF Padded
  <1>4. Fits'
    BY <1>2 DEF Fits
  <1>5. CASE computed
    <2>1. UNCHANGED <<buf, low, high, corrupted, blocks>>
      BY <1>5 DEF Finish
    <2>2. Begun'
      BY <1>1, <1>2, <2>1 DEF Begun
    <2>3. Digested'
      BY <1>1, <1>2, <1>3, <1>5, <2>1 DEF Digested
    <2> QED BY <1>4, <2>2, <2>3 DEF DigestIInv
  <1>6. CASE ~computed
    <2> DEFINE s == Message(length)
               e == IF digest = "sha1" THEN PadMessage(State) ELSE Md5Finish(State)
    <2>1. Becomes(e)
      BY <1>6 DEF Finish
    <2>2. Len(s) = length
      BY <1>1, MessageIs DEF Begun
    <2>3. Kept(State, s) /\ Counted(State, Len(s))
      BY <1>1, <1>6, <2>2 DEF Fits
    <2> HIDE DEF s
    <2>4. Ended(PadMessage(State), ((s \o <<128>>) \o Zeros(ZerosOf(Len(s)))) \o Word(Len(s)))
      BY <2>3, PadMessageEnds
    <2>5. Ended(Md5Finish(State), ((s \o <<128>>) \o Zeros(ZerosOf(Len(s)))) \o Reverse(Word(Len(s))))
      BY <2>3, Md5FinishEnds
    <2>6. Ended(e, Padded)
      BY <2>2, <2>4, <2>5, PaddedIs DEF s
    <2> HIDE DEF e
    <2>7. blocks' = e.blocks
      BY <2>1 DEF Becomes
    <2>8. Digested'
      BY <1>3, <2>6, <2>7 DEF Digested, Ended
    <2>9. corrupted' \in BOOLEAN
      BY <2>1, <2>6 DEF Becomes, Ended, Ds
    <2>10. Begun'
      BY <1>1, <1>2, <2>9 DEF Begun
    <2> QED BY <1>4, <2>8, <2>10 DEF DigestIInv
  <1> QED BY <1>5, <1>6

(* Every step, or a stutter, keeps the invariant.                          *)
LEMMA DigestStepIInv == DigestIInv /\ [DigestNext]_dgvars => DigestIInv'
  <1> SUFFICES ASSUME DigestIInv, [DigestNext]_dgvars PROVE DigestIInv'
    OBVIOUS
  <1>1. ASSUME NEW which \in {"sha1", "md5"}, NewDigest(which) PROVE DigestIInv'
    BY <1>1, NewDigestIInv
  <1>2. ASSUME NEW n \in Pieces, Feed(n) PROVE DigestIInv'
    BY <1>2, FeedIInv
  <1>3. CASE Finish
    BY <1>3, FinishIInv
  <1>4. CASE UNCHANGED dgvars
    BY <1>4 DEF dgvars, DigestIInv, Begun, Fits, Digested, State, Padded
  <1> QED BY <1>1, <1>2, <1>3, <1>4 DEF DigestNext

(* Whatever the pieces of a message, SHA-1 and MD5 are computed from it      *)
(* padded: Input() and md5_append() lose, repeat or leave behind no byte     *)
(* wherever a piece ends, the last block has room for the length, and the    *)
(* length carries from its low to its high word.                             *)
THEOREM DigestsOfTheMessage == DigestSpec => []DigestsWhateverTheCuts
  <1>1. DigestIInv => DigestsWhateverTheCuts
    BY DEF DigestIInv, Digested, InBlocks, DigestsWhateverTheCuts
  <1> QED BY <1>1, InitDigestIInv, DigestStepIInv, PTL DEF DigestSpec

-----------------------------------------------------------------------------
(* RequestHead: what is in the buffer and what is made of it.  Nothing is    *)
(* said of how a head is parsed, except that it is the same each time.       *)
HeadWords == STRING \cup {"SP", "CR", "LF", "b"}
Text == Seq(HeadWords)
Parsed == {ProcessHeaders(head) : head \in Text}
Currents == Parsed \cup {NoRequest}
AnswerTo(r) == [is |-> r.is, verb |-> r.verb, uri |-> r.uri, body |-> r.length]
Answers == {AnswerTo(r) : r \in Currents} \cup {Refusal}
Works == [buf : Text, reading : {"HEAD", "POST", "SOCKET"}, current : Currents, hungry : BOOLEAN,
          handled : Seq(Answers), more : BOOLEAN]

(* The length of a body is a number.                                       *)
LEMMA LengthsOfBodies == \A r \in Currents : r.length \in Nat
  <1>1. ASSUME NEW headers PROVE GetUintHeader(headers, "content-length") \in Nat
    <2> DEFINE value == Header(headers, "content-length")
    <2> HIDE DEF value
    <2>1. ASSUME NEW n \in DOMAIN Stoi PROVE Stoi[n] \in Int
      BY DEF Stoi
    <2> HIDE DEF value
    <2>2. value # <<>> /\ value[1] \in DOMAIN Stoi /\ ~(Stoi[value[1]] < 0) => Stoi[value[1]] \in Nat
      BY <2>1
    <2> QED BY <2>2 DEF GetUintHeader, value
  <1>2. ASSUME NEW line, NEW parsed, NEW websocket, NEW given \in Nat
        PROVE  RequestOf(line, parsed, websocket, given).length \in Nat
    BY DEF RequestOf, NoRequest
  <1>3. ASSUME NEW head PROVE ProcessHeaders(head).length \in Nat
    BY <1>1, <1>2 DEF ProcessHeaders
  <1> QED BY <1>3 DEF Currents, Parsed, NoRequest

(* A turn leaves the record what it is.                                      *)
(* The first blank line.                                                     *)
Blank4 == <<"CR", "LF", "CR", "LF">>
(* The end of a head is its first blank line, or zero.                     *)
LEMMA HeadEndIs ==
    ASSUME NEW text \in Text
    PROVE  LET end == HeadEnd(text)
           IN  /\ end \in Nat
               /\ end > 0 => end + 3 <= Len(text) /\ SubSeq(text, end, end + 3) = Blank4
               /\ \A i \in 1..Len(text) - 3 :
                     SubSeq(text, i, i + 3) = Blank4 => end > 0 /\ end <= i
  <1> DEFINE ends == {i \in 1..Len(text) - 3 : SubSeq(text, i, i + 3) = Blank4}
             least == CHOOSE i \in ends : \A j \in ends : i <= j
  <1>1. HeadEnd(text) = IF ends = {} THEN 0 ELSE least
    BY Zenon DEF HeadEnd, Blank4
  <1>2. ends \in SUBSET Nat /\ Len(text) \in Nat
    BY DEF Text
  <1>3. ends # {} => least \in ends /\ \A j \in ends : least <= j
    <2> HIDE DEF ends
    <2>1. ends # {} => \E i \in ends : \A j \in ends : i <= j
      BY <1>2, LeastNumber
    <2> QED BY <2>1
  <1> HIDE DEF least
  <1>4. \A i \in ends : i \in Nat /\ i > 0 /\ i + 3 <= Len(text) /\ SubSeq(text, i, i + 3) = Blank4
    BY <1>2
  <1>5. \A i \in 1..Len(text) - 3 : SubSeq(text, i, i + 3) = Blank4 => i \in ends
    OBVIOUS
  <1> HIDE DEF ends, Blank4
  <1>6. CASE ends = {}
    BY <1>1, <1>5, <1>6
  <1>7. CASE ends # {}
    <2>1. HeadEnd(text) = least /\ least \in ends
      BY <1>1, <1>3, <1>7
    <2> QED BY <1>3, <1>4, <1>5, <1>7, <2>1
  <1> QED BY <1>6, <1>7
(* Texts in a row.                                                           *)
LEMMA TextJoin ==
    \A u, v \in Text : u \o v \in Text /\ Len(u \o v) = Len(u) + Len(v)
  BY ConcatProperties DEF Text

(* Three texts join the same way from either end.                          *)
LEMMA TextRegroup == \A u, v, w \in Text : (u \o v) \o w = u \o (v \o w)
  BY ConcatAssociative DEF Text

(* What follows the same text is the same.                                 *)
LEMMA TextCancel == \A u, v, w \in Text : u \o v = u \o w => v = w
  BY ConcatSimplifications DEF Text

(* Texts that agree have the same parts.                                     *)
LEMMA SamePart ==
    ASSUME NEW a \in Text, NEW b \in Text, NEW i \in Nat, NEW j \in Nat, i >= 1,
           j <= Len(a), j <= Len(b), \A m \in i..j : a[m] = b[m]
    PROVE  SubSeq(a, i, j) = SubSeq(b, i, j)
  <1>1. ASSUME NEW m \in i..j PROVE a[m] \in HeadWords /\ b[m] \in HeadWords
    <2>1. m \in 1..Len(a) /\ m \in 1..Len(b)
      BY DEF Text
    <2> QED BY <2>1, ElementOfSeq DEF Text
  <1> DEFINE u == SubSeq(a, i, j)
             v == SubSeq(b, i, j)
             n == IF i <= j THEN j - i + 1 ELSE 0
  <1>2. i \in Int /\ j \in Int
    OBVIOUS
  <1>3. u \in Seq(HeadWords) /\ Len(u) = n /\ \A m \in 1..j - i + 1 : u[m] = a[i + m - 1]
    BY <1>1, <1>2, SubSeqProperties
  <1>4. v \in Seq(HeadWords) /\ Len(v) = n /\ \A m \in 1..j - i + 1 : v[m] = b[i + m - 1]
    BY <1>1, <1>2, SubSeqProperties
  <1> HIDE DEF u, v
  <1>5. ASSUME NEW m \in 1..Len(u) PROVE u[m] = v[m]
    <2>1. m \in 1..j - i + 1 /\ i + m - 1 \in i..j
      BY <1>2, <1>3
    <2> QED BY <1>3, <1>4, <2>1
  <1>6. u = v
    BY <1>3, <1>4, <1>5, SeqEqual
  <1> QED BY <1>6 DEF u, v

(* What arrives begins with front: so does what is there.                    *)
LEMMA FrontArrived ==
    ASSUME NEW front \in Text, NEW text \in Text, NEW rest \in Text, NEW more \in Text,
           text \o rest = front \o more
    PROVE  \A i, j \in Nat : i >= 1 /\ j <= Len(text) /\ j <= Len(front) =>
              SubSeq(text, i, j) = SubSeq(front, i, j)
  <1> DEFINE h == Len(front)
             n == Len(text)
             all == text \o rest
  <1>1. h \in Nat /\ n \in Nat /\ Len(rest) \in Nat /\ Len(more) \in Nat
    BY DEF Text
  <1>2. \A i \in 1..n + Len(rest) : all[i] = IF i <= n THEN text[i] ELSE rest[i - n]
    BY ConcatProperties DEF Text
  <1>3. \A i \in 1..h + Len(more) : (front \o more)[i] = IF i <= h THEN front[i] ELSE more[i - h]
    BY ConcatProperties DEF Text
  <1> HIDE DEF all, h, n
  <1>4. ASSUME NEW i \in Nat, i >= 1, i <= n, i <= h PROVE text[i] = front[i]
    <2>1. i \in 1..n + Len(rest) /\ i \in 1..h + Len(more)
      BY <1>1, <1>4
    <2>2. all[i] = text[i] /\ (front \o more)[i] = front[i]
      BY <1>2, <1>3, <1>4, <2>1
    <2> QED BY <2>2 DEF all
  <1>5. ASSUME NEW i \in Nat, NEW j \in Nat, i >= 1, j <= n, j <= h
        PROVE  SubSeq(text, i, j) = SubSeq(front, i, j)
    <2>1. \A m \in i..j : text[m] = front[m]
      BY <1>1, <1>4, <1>5
    <2> QED BY <1>5, <2>1, SamePart DEF h, n
  <1> QED BY <1>5, Zenon DEF h, n

(* When all of it is there, what comes after it follows.                     *)
LEMMA AfterFront ==
    ASSUME NEW front \in Text, NEW text \in Text, NEW rest \in Text, NEW more \in Text,
           text \o rest = front \o more, Len(text) >= Len(front)
    PROVE  /\ SubSeq(text, Len(front) + 1, Len(text)) \in Text
           /\ SubSeq(text, Len(front) + 1, Len(text)) \o rest = more
  <1> DEFINE h == Len(front)
             n == Len(text)
             from == SubSeq(text, h + 1, n)
  <1>1. h \in Nat /\ n \in Nat /\ n >= h
    BY DEF Text
  <1>2. from \in Text /\ SubSeq(text, 1, h) \in Text /\ SubSeq(text, 1, h) \o from = text
    BY <1>1, CutAt DEF Text
  <1>3. SubSeq(text, 1, h) = front
    <2>1. \A i, j \in Nat : i >= 1 /\ j <= n /\ j <= h => SubSeq(text, i, j) = SubSeq(front, i, j)
      BY FrontArrived, ZenonT(60)
    <2>2. SubSeq(front, 1, h) = front
      BY SubSeqFull DEF Text
    <2> HIDE DEF h, n
    <2>3. h \in Nat /\ h <= n /\ h <= h /\ 1 \in Nat /\ 1 >= 1
      BY <1>1
    <2>4. SubSeq(text, 1, h) = SubSeq(front, 1, h)
      BY <2>1, <2>3, Zenon
    <2> QED BY <2>2, <2>4
  <1> HIDE DEF from
  <1>4. front \o (from \o rest) = front \o more
    <2>1. (front \o from) \o rest = front \o (from \o rest)
      BY <1>2, TextRegroup, ZenonT(60)
    <2> QED BY <1>2, <1>3, <2>1
  <1>5. from \o rest = more
    <2>1. from \o rest \in Text
      BY <1>2, TextJoin, ZenonT(60)
    <2> QED BY <1>4, <2>1, TextCancel, Zenon
  <1> QED BY <1>2, <1>5 DEF from

(* What arrives begins with a head: its blank line is found when all of it   *)
(* is there, and none before.                                                *)
LEMMA HeadArrived ==
    ASSUME NEW head \in Text, Len(head) > 3, HeadEnd(head) = Len(head) - 3,
           NEW text \in Text, NEW rest \in Text, NEW more \in Text, text \o rest = head \o more
    PROVE  /\ Len(text) < Len(head) => HeadEnd(text) = 0
           /\ Len(text) >= Len(head) =>
                 /\ HeadEnd(text) = Len(head) - 3
                 /\ SubSeq(text, 1, Len(head) - 2) = SubSeq(head, 1, Len(head) - 2)
  <1> DEFINE h == Len(head)
             n == Len(text)
             end == HeadEnd(text)
  <1>1. h \in Nat /\ n \in Nat /\ h > 3 /\ HeadEnd(head) = h - 3
    BY DEF Text
  <1>2. \A i, j \in Nat : i >= 1 /\ j <= n /\ j <= h => SubSeq(text, i, j) = SubSeq(head, i, j)
    BY FrontArrived, ZenonT(60)
  <1>4. /\ end \in Nat
        /\ end > 0 => end + 3 <= n /\ SubSeq(text, end, end + 3) = Blank4
        /\ \A i \in 1..n - 3 : SubSeq(text, i, i + 3) = Blank4 => end > 0 /\ end <= i
    BY HeadEndIs
  <1>5. /\ SubSeq(head, h - 3, (h - 3) + 3) = Blank4
        /\ \A i \in 1..h - 3 : SubSeq(head, i, i + 3) = Blank4 => h - 3 <= i
    <2> HIDE DEF h
    <2>1. HeadEnd(head) > 0
      BY <1>1
    <2> QED BY <1>1, <2>1, HeadEndIs DEF h
  <1> HIDE DEF h, n, end
  <1>6. ASSUME end > 0, end + 3 <= h PROVE end = h - 3
    <2>1. end \in Nat /\ end + 3 \in Nat /\ end >= 1 /\ end + 3 <= n /\ end \in 1..h - 3
      BY <1>1, <1>4, <1>6
    <2>2. SubSeq(text, end, end + 3) = SubSeq(head, end, end + 3)
      BY <1>2, <1>6, <2>1, Zenon
    <2>3. h - 3 <= end
      BY <1>4, <1>5, <1>6, <2>1, <2>2
    <2> QED BY <1>1, <1>6, <2>1, <2>3
  <1>7. CASE n < h
    <2>1. end > 0 => end + 3 <= h /\ end # h - 3
      BY <1>1, <1>4, <1>7
    <2>2. end = 0
      BY <1>4, <1>6, <2>1
    <2> QED BY <1>1, <1>7, <2>2 DEF n, h, end
  <1>8. CASE n >= h
    <2>1. /\ h - 3 \in Nat /\ h - 3 >= 1 /\ h - 3 \in 1..n - 3 /\ (h - 3) + 3 \in Nat
          /\ (h - 3) + 3 <= n /\ (h - 3) + 3 <= h
      BY <1>1, <1>8
    <2>2. SubSeq(text, h - 3, (h - 3) + 3) = Blank4
      BY <1>2, <1>5, <2>1, Zenon
    <2>3. end > 0 /\ end <= h - 3
      BY <1>4, <2>1, <2>2
    <2>4. end = h - 3
      BY <1>1, <1>4, <1>6, <2>3
    <2>5. SubSeq(text, 1, h - 2) = SubSeq(head, 1, h - 2)
      <3>1. h - 2 \in Nat /\ h - 2 <= n /\ h - 2 <= h /\ 1 \in Nat /\ 1 >= 1
        BY <1>1, <1>8
      <3> QED BY <1>2, <3>1, Zenon
    <2>6. HeadEnd(text) = Len(head) - 3 /\ ~(Len(text) < Len(head))
      BY <1>1, <1>8, <2>4 DEF end, h, n
    <2> QED BY <2>5, <2>6, Zenon DEF h, n
  <1>9. n < h \/ n >= h
    BY <1>1
  <1> QED BY <1>7, <1>8, <1>9, Zenon

-----------------------------------------------------------------------------
(* RequestHead: what a client sends, and where in it the server is.          *)
LEMMA WrittenIs ==
    ASSUME NEW r \in Asked
    PROVE  /\ WrittenHead(r) \in Text /\ Len(WrittenHead(r)) > 3
           /\ WrittenBody(r) \in Text /\ Len(WrittenBody(r)) = r.body
           /\ Written(r) \in Text /\ Written(r) = WrittenHead(r) \o WrittenBody(r)
  <1> DEFINE line == <<r.verb, "SP", r.uri, "SP", r.version, "CR", "LF">>
             end == <<"CR", "LF">>
             lines == [i \in 1..Len(r.headers) |-> r.headers[i] \o end]
  <1>1. /\ r.verb \in STRING /\ r.uri \in STRING /\ r.version \in STRING
        /\ r.headers \in Seq(Seq(STRING)) /\ r.body \in Nat
    BY DEF Asked
  <1>9. STRING \subseteq HeadWords /\ "SP" \in HeadWords /\ "CR" \in HeadWords /\ "LF" \in HeadWords /\ "b" \in HeadWords
    BY Zenon DEF HeadWords
  <1>2. line \in Text /\ Len(line) = 7
    <2>1. r.verb \in HeadWords /\ r.uri \in HeadWords /\ r.version \in HeadWords
      BY <1>1, <1>9, Zenon
    <2> QED BY <1>9, <2>1 DEF Text
  <1>3. end \in Text
    BY <1>9 DEF Text
  <1> HIDE DEF line, end
  <1>4. lines \in Seq(Text)
    <2>1. \A i \in 1..Len(r.headers) : r.headers[i] \in Text
      <3>1. \A i \in 1..Len(r.headers) : r.headers[i] \in Seq(STRING)
        BY <1>1
      <3>2. Seq(STRING) \subseteq Seq(HeadWords)
        BY <1>9, SeqMonotonic
      <3> QED BY <3>1, <3>2 DEF Text
    <2>2. \A i \in 1..Len(r.headers) : r.headers[i] \o end \in Text
      BY <1>3, <2>1, TextJoin
    <2>3. Len(r.headers) \in Nat
      BY <1>1
    <2> QED BY <2>2, <2>3
  <1>5. FlattenSeq(lines) \in Text
    BY <1>4, <1>3, FlattenAppend DEF Text
  <1>6. WrittenHead(r) = (line \o FlattenSeq(lines)) \o end
    BY DEF WrittenHead, line, lines, end
  <1> HIDE DEF lines
  <1>7. WrittenHead(r) \in Text /\ Len(WrittenHead(r)) > 3
    <2>1. line \o FlattenSeq(lines) \in Text /\ Len(line \o FlattenSeq(lines)) = 7 + Len(FlattenSeq(lines))
      BY <1>2, <1>5, TextJoin
    <2>2. (line \o FlattenSeq(lines)) \o end \in Text
          /\ Len((line \o FlattenSeq(lines)) \o end) = Len(line \o FlattenSeq(lines)) + Len(end)
      BY <1>3, <2>1, TextJoin
    <2>3. Len(FlattenSeq(lines)) \in Nat /\ Len(end) \in Nat
      BY <1>3, <1>5 DEF Text
    <2> QED BY <1>6, <2>1, <2>2, <2>3
  <1>8. WrittenBody(r) \in Text /\ Len(WrittenBody(r)) = r.body
    BY <1>1, <1>9 DEF WrittenBody, Text
  <1> QED BY <1>7, <1>8, TextJoin DEF Written

Sends(m) == FlattenSeq([k \in 1..m |-> Written(requests[k])])

(* text is what comes after the first p requests.                            *)
Follows(p, text) == Sends(p) \o text = Sends(Len(requests))

(* The client's text up to one more request adds that request.             *)
LEMMA SendsStep ==
    ASSUME requests \in Seq(Asked), NEW m \in Nat, m < Len(requests)
    PROVE  /\ Sends(m) \in Text /\ Sends(m + 1) = Sends(m) \o Written(requests[m + 1])
           /\ Sends(m + 1) \in Text /\ requests[m + 1] \in Asked
  <1> DEFINE seqs == [k \in 1..m |-> Written(requests[k])]
             x == Written(requests[m + 1])
             more == [k \in 1..m + 1 |-> Written(requests[k])]
  <1>1. \A k \in 1..m + 1 : requests[k] \in Asked
    OBVIOUS
  <1>2. \A k \in 1..m + 1 : Written(requests[k]) \in Text
    BY <1>1, WrittenIs
  <1>3. m + 1 \in 1..m + 1
    OBVIOUS
  <1>4. x \in Text /\ seqs \in Seq(Text)
    BY <1>2, <1>3
  <1>5. more = Append(seqs, x)
    <2>1. more \in Seq(Text) /\ Len(more) = m + 1
      BY <1>2
    <2>2. Append(seqs, x) \in Seq(Text) /\ Len(Append(seqs, x)) = m + 1
      BY <1>4
    <2>3. ASSUME NEW k \in 1..m + 1 PROVE more[k] = Append(seqs, x)[k]
      <3>1. k # m + 1 => k \in 1..m
        OBVIOUS
      <3> QED BY <1>4, <3>1
    <2> HIDE DEF more, seqs, x
    <2> QED BY <2>1, <2>2, <2>3, SeqEqual
  <1>6. FlattenSeq(more) = FlattenSeq(seqs) \o x /\ FlattenSeq(seqs) \in Text
    <2> HIDE DEF more, seqs, x
    <2> QED BY <1>4, <1>5, FlattenAppend DEF Text
  <1>7. FlattenSeq(seqs) \o x \in Text
    <2> HIDE DEF seqs, x
    <2> QED BY <1>4, <1>6, TextJoin
  <1>8. requests[m + 1] \in Asked
    BY <1>1, <1>3
  <1> QED BY <1>6, <1>7, <1>8, Zenon DEF Sends

(* After the first p requests comes the next.                                *)
LEMMA NextFollows ==
    ASSUME requests \in Seq(Asked), NEW p \in Nat, p < Len(requests),
           NEW text \in Text, Follows(p, text)
    PROVE  \E more \in Text : text = Written(requests[p + 1]) \o more /\ Follows(p + 1, more)
  <1> DEFINE n == Len(requests)
             K == {d \in 0..n : \E more \in Text : Sends(n - d) \o more = Sends(n)}
  <1>1. n \in Nat /\ n > 0
    OBVIOUS
  <1>2. \A m \in Nat : m < n => /\ Sends(m) \in Text /\ Sends(m + 1) = Sends(m) \o Written(requests[m + 1])
                                /\ Sends(m + 1) \in Text /\ requests[m + 1] \in Asked
    BY SendsStep
  <1>3. 0 \in K
    <2>1. Sends(n) \in Text
      <3>1. n - 1 \in Nat /\ n - 1 < n /\ (n - 1) + 1 = n
        BY <1>1
      <3> QED BY <1>2, <3>1
    <2>2. Sends(n) \o <<>> = Sends(n) /\ <<>> \in Text /\ n - 0 = n
      BY <1>1, <2>1 DEF Text
    <2>3. \E more \in Text : Sends(n - 0) \o more = Sends(n)
      BY <2>2
    <2>4. 0 \in 0..n
      BY <1>1
    <2> QED BY <2>3, <2>4, Zenon
  <1>4. ASSUME NEW d \in 1..n, d - 1 \in K PROVE d \in K
    <2> DEFINE m == n - d
               w == Written(requests[m + 1])
    <2>1. m \in Nat /\ m < n /\ n - (d - 1) = m + 1 /\ d \in 0..n
      BY <1>1
    <2>2. PICK more \in Text : Sends(m + 1) \o more = Sends(n)
      BY <1>4, <2>1
    <2>3. Sends(m) \in Text /\ Sends(m + 1) = Sends(m) \o w /\ w \in Text
      BY <1>2, <2>1, WrittenIs
    <2> HIDE DEF w
    <2>4. Sends(m) \o (w \o more) = Sends(n) /\ w \o more \in Text
      <3>1. more \in Text /\ w \in Text /\ Sends(m) \in Text
        BY <2>3
      <3>2. (Sends(m) \o w) \o more = Sends(m) \o (w \o more)
        BY <3>1, TextRegroup, Zenon
      <3>3. w \o more \in Text
        BY <3>1, TextJoin, Zenon
      <3> QED BY <2>2, <2>3, <3>2, <3>3, Zenon
    <2> QED BY <2>1, <2>4
  <1>5. \A d \in 0..n : d \in K
    <2> HIDE DEF K
    <2> QED BY <1>1, <1>3, <1>4, RunInduction
  <1> DEFINE w == Written(requests[p + 1])
  <1>6. PICK more \in Text : Sends(p + 1) \o more = Sends(n)
    <2>1. n - (p + 1) \in 0..n /\ n - (n - (p + 1)) = p + 1
      BY <1>1
    <2> QED BY <1>5, <2>1
  <1>7. Sends(p) \in Text /\ Sends(p + 1) = Sends(p) \o w /\ w \in Text
    BY <1>2, WrittenIs
  <1> HIDE DEF w, K
  <1>8. Sends(p) \o (w \o more) = Sends(p) \o text /\ w \o more \in Text
    <2>1. more \in Text /\ w \in Text /\ Sends(p) \in Text
      BY <1>7
    <2>2. (Sends(p) \o w) \o more = Sends(p) \o (w \o more)
      BY <2>1, TextRegroup, Zenon
    <2>3. w \o more \in Text
      BY <2>1, TextJoin, Zenon
    <2> QED BY <1>6, <1>7, <2>2, <2>3, Zenon DEF Follows, n
  <1>9. text = w \o more
    BY <1>7, <1>8, TextCancel, Zenon
  <1> QED BY <1>6, <1>9 DEF Follows, w, n

-----------------------------------------------------------------------------
(* RequestHead: how far the server is.                                       *)
LEMMA ClaimedIs ==
    ASSUME requests \in Seq(Asked)
    PROVE  /\ Claimed \in Nat /\ Claimed <= Len(requests)
           /\ \A k \in Nat : k > 0 /\ k < Claimed => requests[k].means = "page"
  <1> DEFINE n == Len(requests)
             ends == {k \in 1..n : requests[k].means # "page"}
             least == CHOOSE k \in ends : \A j \in ends : k <= j
  <1>1. Claimed = IF ends = {} THEN n ELSE least
    BY DEF Claimed
  <1>2. ends \in SUBSET Nat /\ n \in Nat
    OBVIOUS
  <1>3. ends # {} => least \in ends /\ \A j \in ends : least <= j
    <2> HIDE DEF ends
    <2>1. ends # {} => \E k \in ends : \A j \in ends : k <= j
      BY <1>2, LeastNumber
    <2> QED BY <2>1
  <1> HIDE DEF least
  <1>4. \A k \in ends : k \in Nat /\ k <= n
    BY <1>2
  <1>5. \A k \in Nat : k > 0 /\ k <= n /\ k \notin ends => requests[k].means = "page"
    BY <1>2
  <1> HIDE DEF ends, n
  <1>6. Claimed \in Nat /\ Claimed <= n /\ \A j \in ends : Claimed <= j
    <2>1. CASE ends = {}
      BY <1>1, <1>2, <2>1
    <2>2. CASE ends # {}
      BY <1>1, <1>3, <1>4, <2>2
    <2> QED BY <2>1, <2>2
  <1>7. ASSUME NEW k \in Nat, k > 0, k < Claimed PROVE requests[k].means = "page"
    <2>1. k \notin ends /\ k <= n
      BY <1>2, <1>6, <1>7
    <2> QED BY <1>5, <1>7, <2>1
  <1> QED BY <1>6, <1>7 DEF n

(* The answers so far are right; and either no more is claimed, or the next  *)
(* request is one to be answered.                                            *)
TooLong(n) == \E j \in 1..n : HeadSize(requests[j]) > MaxHead
RightAt(k, answer) ==
    k <= Claimed /\ requests[k].means # "odd" => answer = MeantBy(requests[k]) \/ TooLong(k)
Right(answers) == \A k \in 1..Len(answers) : RightAt(k, answers[k])
Past(t) ==
    /\ Right(t.handled)
    /\ \/ Len(t.handled) >= Claimed
       \/ Claimed > 0 /\ requests[Claimed].means = "odd" /\ Len(t.handled) >= Claimed - 1
       \/ t.hungry /\ TooLong(Len(t.handled))
NextAsked(t) == requests[Len(t.handled) + 1]
Due(t) ==
    /\ Right(t.handled) /\ Len(t.handled) < Claimed /\ NextAsked(t).means # "odd" /\ ~t.hungry

(* A head too long for the buffer stays too long as more comes.            *)
LEMMA TooLongStays ==
    ASSUME NEW m \in Nat, NEW n \in Nat, m <= n, TooLong(m) PROVE TooLong(n)
  <1>1. PICK j \in 1..m : HeadSize(requests[j]) > MaxHead
    BY DEF TooLong
  <1>2. j \in 1..n
    OBVIOUS
  <1> QED BY <1>1, <1>2, Zenon DEF TooLong

(* A right answer in its turn keeps the answers right.                     *)
LEMMA RightMore ==
    ASSUME NEW answers \in Seq(Answers), NEW x \in Answers, Right(answers),
           RightAt(Len(answers) + 1, x)
    PROVE  /\ Right(Append(answers, x)) /\ Append(answers, x) \in Seq(Answers)
           /\ Len(Append(answers, x)) = Len(answers) + 1 /\ Len(answers) \in Nat
  <1> DEFINE n == Len(answers)
             more == Append(answers, x)
  <1>1. more \in Seq(Answers) /\ n \in Nat /\ Len(more) = n + 1 /\ more[n + 1] = x
        /\ \A k \in 1..n : more[k] = answers[k]
    OBVIOUS
  <1> HIDE DEF more
  <1>2. ASSUME NEW k \in 1..n + 1 PROVE RightAt(k, more[k])
    <2>1. CASE k = n + 1
      BY <1>1, <2>1
    <2>2. CASE k # n + 1
      <3>1. k \in 1..n
        BY <1>1, <2>2
      <3> QED BY <1>1, <3>1 DEF Right
    <2> QED BY <2>1, <2>2
  <1> QED BY <1>1, <1>2 DEF Right, more

(* What a turn may do to the answers.                                        *)
Answered(t, u) ==
    u.handled = t.handled \/ \E x \in Answers : u.handled = Append(t.handled, x)

(* Past the last answer that must be given, work stays past it.            *)
LEMMA PastStays ==
    ASSUME requests \in Seq(Asked), NEW t \in Works, NEW u \in Works, Past(t), Answered(t, u),
           t.hungry => u.hungry
    PROVE  Past(u)
  <1> DEFINE n == Len(t.handled)
  <1>1. n \in Nat /\ t.handled \in Seq(Answers) /\ Claimed \in Nat
    BY ClaimedIs DEF Works
  <1>2. CASE u.handled = t.handled
    BY <1>2 DEF Past
  <1>3. ASSUME NEW x \in Answers, u.handled = Append(t.handled, x) PROVE Past(u)
    <2>1. RightAt(n + 1, x)
      <3>1. CASE n >= Claimed
        BY <1>1, <3>1 DEF RightAt
      <3>2. CASE Claimed > 0 /\ requests[Claimed].means = "odd" /\ n >= Claimed - 1
        <4>1. n + 1 <= Claimed => n + 1 = Claimed
          BY <1>1, <3>2
        <4> QED BY <3>2, <4>1 DEF RightAt
      <3>3. CASE TooLong(n)
        BY <1>1, <3>3, TooLongStays DEF RightAt
      <3> QED BY <3>1, <3>2, <3>3 DEF Past
    <2>2. Right(u.handled) /\ Len(u.handled) = n + 1
      BY <1>1, <1>3, <2>1, RightMore DEF Past
    <2>3. n + 1 \in Nat /\ n <= n + 1 /\ (TooLong(n) => TooLong(n + 1))
      BY <1>1, TooLongStays
    <2> HIDE DEF n
    <2>4. n >= Claimed => Len(u.handled) >= Claimed
      BY <1>1, <2>2
    <2>5. n >= Claimed - 1 => Len(u.handled) >= Claimed - 1
      BY <1>1, <2>2
    <2>6. u.hungry /\ TooLong(n) => u.hungry /\ TooLong(Len(u.handled))
      BY <2>2, <2>3
    <2> QED BY <2>2, <2>4, <2>5, <2>6 DEF Past, n
  <1> QED BY <1>2, <1>3 DEF Answered

(* The next request is answered as it was meant.                             *)
LEMMA Advance ==
    ASSUME requests \in Seq(Asked), NEW t \in Works, NEW u \in Works, Due(t),
           MeantBy(NextAsked(t)) \in Answers,
           u.handled = Append(t.handled, MeantBy(NextAsked(t)))
    PROVE  \/ Past(u)
           \/ (u.hungry = FALSE => Due(u)) /\ NextAsked(t).means = "page"
  <1> DEFINE n == Len(t.handled)
             x == MeantBy(NextAsked(t))
  <1>1. n \in Nat /\ t.handled \in Seq(Answers) /\ Claimed \in Nat /\ n < Claimed
    BY ClaimedIs DEF Works, Due
  <1>2. RightAt(n + 1, x)
    BY DEF RightAt, NextAsked
  <1>3. Right(u.handled) /\ Len(u.handled) = n + 1
    <2> HIDE DEF x
    <2> QED BY <1>1, <1>2, RightMore DEF Due, x
  <1> HIDE DEF x, n
  <1>4. CASE n + 1 >= Claimed
    BY <1>3, <1>4 DEF Past
  <1>5. CASE n + 1 < Claimed
    <2>1. NextAsked(t).means = "page"
      <3>1. n + 1 \in Nat /\ n + 1 > 0
        BY <1>1
      <3> QED BY <1>5, <3>1, ClaimedIs DEF NextAsked, n
    <2>2. CASE requests[n + 1 + 1].means = "odd"
      <3>1. ~(n + 1 + 1 < Claimed)
        <4>1. n + 1 + 1 \in Nat /\ n + 1 + 1 > 0
          BY <1>1
        <4>2. n + 1 + 1 < Claimed => requests[n + 1 + 1].means = "page"
          BY <4>1, ClaimedIs
        <4> QED BY <2>2, <4>2
      <3>2. n + 1 + 1 = Claimed /\ Claimed > 0 /\ Len(u.handled) >= Claimed - 1
        BY <1>1, <1>3, <1>5, <3>1
      <3>3. Claimed > 0 /\ requests[Claimed].means = "odd" /\ Len(u.handled) >= Claimed - 1
        BY <2>2, <3>2
      <3> QED BY <1>3, <3>3 DEF Past
    <2>3. CASE requests[n + 1 + 1].means # "odd"
      BY <1>3, <1>5, <2>1, <2>3 DEF Due, NextAsked
    <2> QED BY <2>2, <2>3
  <1>6. n + 1 >= Claimed \/ n + 1 < Claimed
    BY <1>1
  <1> QED BY <1>4, <1>5, <1>6, Zenon

-----------------------------------------------------------------------------
(* RequestHead: one turn of the loop.                                        *)

(* The loop has nothing more to do.                                          *)
Over(t) ==
    \/ ~t.more
    \/ t.reading = "SOCKET"
    \/ t.reading = "POST" /\ Len(t.buf) < t.current.length

(* One answer more is still a sequence of answers.                         *)
LEMMA AppendAnswer == \A answers \in Seq(Answers), x \in Answers : Append(answers, x) \in Seq(Answers)
  OBVIOUS

(* handlePage() adds the answer to its request, and reads on.              *)
LEMMA AnswerIs ==
    ASSUME NEW t \in Works, NEW r \in Currents
    PROVE  LET u == HandlePage(t, r)
           IN  /\ u = [t EXCEPT !.handled = Append(t.handled, AnswerTo(r)),
                                !.reading = IF r.is = "upgrade" THEN "SOCKET" ELSE "HEAD"]
               /\ u \in Works /\ AnswerTo(r) \in Answers
  <1>1. AnswerTo(r) \in Answers
    BY DEF Answers
  <1>2. HandlePage(t, r) = [t EXCEPT !.handled = Append(t.handled, AnswerTo(r)),
                                     !.reading = IF r.is = "upgrade" THEN "SOCKET" ELSE "HEAD"]
    BY DEF HandlePage, Takes, AnswerTo, Works
  <1> DEFINE more == Append(t.handled, AnswerTo(r))
             goes == IF r.is = "upgrade" THEN "SOCKET" ELSE "HEAD"
  <1>3. more \in Seq(Answers)
    BY <1>1, AppendAnswer DEF Works
  <1>4. goes \in {"HEAD", "POST", "SOCKET"}
    OBVIOUS
  <1>5. [t EXCEPT !.handled = more, !.reading = goes] \in Works
    <2> HIDE DEF more, goes
    <2> QED BY <1>3, <1>4 DEF Works
  <1> QED BY <1>1, <1>2, <1>5

(* A head refused adds a refusal, and nothing more is read.                *)
LEMMA RefusalIs ==
    ASSUME NEW t \in Works
    PROVE  LET u == [Takes(t, Refusal) EXCEPT !.hungry = TRUE]
           IN  /\ u = [t EXCEPT !.handled = Append(t.handled, Refusal), !.hungry = TRUE]
               /\ u \in Works /\ Refusal \in Answers
  <1>1. Refusal \in Answers
    BY DEF Answers
  <1> DEFINE more == Append(t.handled, Refusal)
  <1>2. more \in Seq(Answers)
    BY <1>1, AppendAnswer DEF Works
  <1>3. [Takes(t, Refusal) EXCEPT !.hungry = TRUE] = [t EXCEPT !.handled = more, !.hungry = TRUE]
    BY DEF Takes, Works
  <1>4. [t EXCEPT !.handled = more, !.hungry = TRUE] \in Works
    <2> HIDE DEF more
    <2> QED BY <1>2 DEF Works
  <1> QED BY <1>1, <1>3, <1>4

(* What is done with a head, whatever it says.                               *)
LEMMA HandleParsedKeeps ==
    ASSUME NEW t \in Works, NEW r \in Parsed
    PROVE  LET u == HandleParsed(t, r)
           IN  u \in Works /\ u.buf = t.buf /\ u.more = t.more /\ (t.hungry => u.hungry) /\ Answered(t, u)
  <1>1. r \in Currents
    BY DEF Currents
  <1>2. CASE r.is = "error"
    <2> DEFINE more == Append(t.handled, Refusal)
               u == [t EXCEPT !.handled = more, !.hungry = TRUE]
    <2>1. HandleParsed(t, r) = u /\ u \in Works /\ Refusal \in Answers
      BY <1>2, RefusalIs DEF HandleParsed
    <2>2. u.handled = more /\ u.buf = t.buf /\ u.more = t.more /\ u.hungry = TRUE
      BY DEF Works
    <2>3. Answered(t, u)
      BY <2>1, <2>2 DEF Answered
    <2> HIDE DEF u
    <2> QED BY <2>1, <2>2, <2>3
  <1>3. CASE r.is # "error" /\ r.length > 0
    <2>1. HandleParsed(t, r) = [t EXCEPT !.reading = "POST", !.current = r]
      BY <1>3 DEF HandleParsed
    <2> QED BY <1>1, <2>1 DEF Works, Answered
  <1>4. CASE r.is # "error" /\ ~(r.length > 0)
    <2>1. HandleParsed(t, r) = HandlePage(t, r)
      BY <1>4 DEF HandleParsed
    <2>2. /\ HandlePage(t, r) = [t EXCEPT !.handled = Append(t.handled, AnswerTo(r)),
                                          !.reading = IF r.is = "upgrade" THEN "SOCKET" ELSE "HEAD"]
          /\ HandlePage(t, r) \in Works /\ AnswerTo(r) \in Answers
      BY <1>1, AnswerIs
    <2> QED BY <2>1, <2>2 DEF Works, Answered
  <1> QED BY <1>2, <1>3, <1>4

(* The three ways through handleHeaders().                                   *)
LEMMA HandleHeadIs ==
    ASSUME NEW t \in Works
    PROVE  LET i == HeadEnd(t.buf)
               left == [t EXCEPT !.buf = SubSeq(t.buf, i + 4, Len(t.buf))]
               r == ProcessHeaders(SubSeq(t.buf, 1, i + 1))
           IN  /\ i \in Nat
               /\ i > 0 => /\ HandleHead(t) = HandleParsed(left, r)
                           /\ left \in Works /\ r \in Parsed /\ Len(left.buf) < Len(t.buf)
               /\ i = 0 /\ Len(t.buf) > MaxHead =>
                     HandleHead(t) = [t EXCEPT !.handled = Append(t.handled, Refusal),
                                               !.hungry = TRUE, !.more = FALSE]
               /\ i = 0 /\ ~(Len(t.buf) > MaxHead) => HandleHead(t) = [t EXCEPT !.more = FALSE]
  <1> DEFINE i == HeadEnd(t.buf)
             from == SubSeq(t.buf, i + 4, Len(t.buf))
             left == [t EXCEPT !.buf = from]
             r == ProcessHeaders(SubSeq(t.buf, 1, i + 1))
  <1>1. t.buf \in Text /\ Len(t.buf) \in Nat
    BY DEF Works, Text
  <1>2. i \in Nat /\ (i > 0 => i + 3 <= Len(t.buf))
    BY <1>1, HeadEndIs
  <1>3. ASSUME i > 0 PROVE left \in Works /\ r \in Parsed /\ Len(left.buf) < Len(t.buf)
    <2> DEFINE m == i + 3
    <2> HIDE DEF i
    <2>1. m \in Nat /\ m <= Len(t.buf) /\ m + 1 = i + 4 /\ m > 0 /\ i + 1 \in Nat /\ i + 1 <= Len(t.buf)
      BY <1>2, <1>3
    <2>2. from \in Text /\ Len(from) = Len(t.buf) - m
      BY <1>1, <2>1, CutAt DEF Text
    <2>3. SubSeq(t.buf, 1, i + 1) \in Text
      BY <1>1, <2>1, CutAt DEF Text
    <2>4. r \in Parsed
      BY <2>3 DEF Parsed
    <2> HIDE DEF from, m, r
    <2>5. left \in Works /\ left.buf = from
      BY <2>2 DEF Works
    <2>6. Len(from) < Len(t.buf)
      BY <1>1, <2>1, <2>2
    <2> QED BY <2>4, <2>5, <2>6
  <1>4. i > 0 => HandleHead(t) = HandleParsed(left, r)
    BY DEF HandleHead
  <1>5. i = 0 /\ Len(t.buf) > MaxHead =>
           HandleHead(t) = [t EXCEPT !.handled = Append(t.handled, Refusal), !.hungry = TRUE, !.more = FALSE]
    BY DEF HandleHead, Takes, Works
  <1>6. i = 0 /\ ~(Len(t.buf) > MaxHead) => HandleHead(t) = [t EXCEPT !.more = FALSE]
    BY DEF HandleHead
  <1> HIDE DEF left, r, i
  <1> QED BY <1>2, <1>3, <1>4, <1>5, <1>6 DEF left, r, i

(* A body that is there.                                                     *)
LEMMA ConsumeContentIs ==
    ASSUME NEW t \in Works, t.current.length <= Len(t.buf)
    PROVE  LET from == SubSeq(t.buf, t.current.length + 1, Len(t.buf))
               u == ConsumeContent(t)
           IN  /\ u = [t EXCEPT !.handled = Append(t.handled, AnswerTo(t.current)),
                                !.reading = IF t.current.is = "upgrade" THEN "SOCKET" ELSE "HEAD",
                                !.buf = from, !.current = NoRequest, !.more = FALSE]
               /\ u \in Works /\ AnswerTo(t.current) \in Answers
  <1> DEFINE from == SubSeq(t.buf, t.current.length + 1, Len(t.buf))
             v == [t EXCEPT !.handled = Append(t.handled, AnswerTo(t.current)),
                            !.reading = IF t.current.is = "upgrade" THEN "SOCKET" ELSE "HEAD"]
  <1>1. t.current \in Currents /\ t.buf \in Text
    BY DEF Works
  <1>2. HandlePage(t, t.current) = v /\ v \in Works /\ AnswerTo(t.current) \in Answers
    BY <1>1, AnswerIs, ZenonT(60)
  <1>3. from \in Text
    BY <1>1, LengthsOfBodies, CutAt DEF Text
  <1>4. NoRequest \in Currents
    BY DEF Currents
  <1>5. ConsumeContent(t) = [v EXCEPT !.buf = SubSeq(v.buf, t.current.length + 1, Len(v.buf)),
                                      !.current = NoRequest, !.more = FALSE]
    BY <1>2, Zenon DEF ConsumeContent
  <1>6. v.buf = t.buf
    BY DEF Works
  <1> HIDE DEF from
  <1>7. ConsumeContent(t) = [v EXCEPT !.buf = from, !.current = NoRequest, !.more = FALSE]
    BY <1>5, <1>6 DEF from
  <1>8. ConsumeContent(t) \in Works
    <2> HIDE DEF v
    <2> QED BY <1>2, <1>3, <1>4, <1>7 DEF Works
  <1> QED BY <1>2, <1>7, <1>8 DEF Works, from

(* A turn takes a head away or is the last that does something.              *)
LEMMA TurnKeeps ==
    ASSUME NEW t \in Works
    PROVE  LET u == HeadTurn(t)
           IN  /\ u \in Works /\ (t.hungry => u.hungry) /\ Answered(t, u)
               /\ Over(t) => u = t
               /\ Over(u) \/ Len(u.buf) < Len(t.buf)
  <1> DEFINE u == HeadTurn(t)
             i == HeadEnd(t.buf)
  <1>0. t.current.length \in Nat /\ Len(t.buf) \in Nat
    BY LengthsOfBodies DEF Works, Text
  <1>1. CASE Over(t)
    <2>1. u = t
      BY <1>0, <1>1 DEF HeadTurn, Over
    <2> QED BY <1>1, <2>1 DEF Answered
  <1>2. CASE ~Over(t) /\ t.reading = "HEAD"
    <2>0. u = HandleHead(t)
      BY <1>2 DEF HeadTurn, Over
    <2>1. CASE i > 0
      <3> DEFINE left == [t EXCEPT !.buf = SubSeq(t.buf, i + 4, Len(t.buf))]
                 r == ProcessHeaders(SubSeq(t.buf, 1, i + 1))
      <3>1. u = HandleParsed(left, r) /\ left \in Works /\ r \in Parsed /\ Len(left.buf) < Len(t.buf)
        BY <2>0, <2>1, HandleHeadIs
      <3>2. left.handled = t.handled /\ left.hungry = t.hungry
        BY DEF Works
      <3> HIDE DEF left, r, u
      <3>3. u \in Works /\ u.buf = left.buf /\ (left.hungry => u.hungry) /\ Answered(left, u)
        BY <3>1, HandleParsedKeeps
      <3> QED BY <1>2, <3>1, <3>2, <3>3 DEF Answered, u
    <2>2. CASE i = 0
      <3> DEFINE more == Append(t.handled, Refusal)
                 v == [t EXCEPT !.handled = more, !.hungry = TRUE, !.more = FALSE]
                 w == [t EXCEPT !.more = FALSE]
      <3>1. u = v \/ u = w
        BY <2>0, <2>2, HandleHeadIs
      <3>2. Refusal \in Answers
        BY DEF Answers
      <3>3. more \in Seq(Answers)
        BY <3>2, AppendAnswer DEF Works
      <3>4. v \in Works /\ v.handled = more /\ v.hungry = TRUE /\ v.more = FALSE
        <4> HIDE DEF more
        <4> QED BY <3>3 DEF Works
      <3>5. w \in Works /\ w.handled = t.handled /\ w.hungry = t.hungry /\ w.more = FALSE
        BY DEF Works
      <3> HIDE DEF v, w, u
      <3>6. u \in Works /\ (t.hungry => u.hungry) /\ u.more = FALSE
            /\ (u.handled = more \/ u.handled = t.handled)
        BY <3>1, <3>4, <3>5
      <3>7. Answered(t, u)
        BY <3>2, <3>6 DEF Answered
      <3> QED BY <1>2, <3>6, <3>7 DEF Over, u
    <2>3. i > 0 \/ i = 0
      <3>1. i \in Nat
        BY HandleHeadIs
      <3> QED BY <3>1
    <2> QED BY <2>1, <2>2, <2>3
  <1>3. CASE ~Over(t) /\ t.reading = "POST"
    <2>0. u = ConsumeContent(t) /\ t.current.length <= Len(t.buf)
      BY <1>0, <1>3 DEF HeadTurn, Over
    <2> DEFINE from == SubSeq(t.buf, t.current.length + 1, Len(t.buf))
    <2>1. /\ u = [t EXCEPT !.handled = Append(t.handled, AnswerTo(t.current)),
                           !.reading = IF t.current.is = "upgrade" THEN "SOCKET" ELSE "HEAD",
                           !.buf = from, !.current = NoRequest, !.more = FALSE]
          /\ u \in Works /\ AnswerTo(t.current) \in Answers
      BY <2>0, ConsumeContentIs
    <2> HIDE DEF u, from
    <2> QED BY <1>3, <2>1 DEF Works, Answered, Over, u
  <1>4. t.reading \in {"HEAD", "POST", "SOCKET"}
    BY DEF Works
  <1> QED BY <1>1, <1>2, <1>3, <1>4 DEF Over

-----------------------------------------------------------------------------
(* RequestHead: a turn does what was meant.                                  *)
RequestsFit ==
    /\ requests \in Seq(Asked)
    /\ \A k \in 1..Len(requests) : requests[k].means # "odd" => Understood(requests[k])

HadBody(n) == \E k \in 1..n : requests[k].body > 0
ParsedAs(r) == [is |-> r.means, verb |-> r.verb, uri |-> r.uri, length |-> r.body]

(* In t, before rest arrives: the head of the next request is to be read, or *)
(* its body.                                                                 *)
Heads(t, rest) ==
    /\ Due(t) /\ t.reading = "HEAD" /\ Follows(Len(t.handled), t.buf \o rest)
    /\ ~t.more => HeadEnd(t.buf) = 0 \/ HadBody(Len(t.handled))
Bodies(t, rest) ==
    /\ Due(t) /\ t.reading = "POST" /\ t.more
    /\ t.current = ParsedAs(NextAsked(t)) /\ NextAsked(t).body > 0
    /\ NextAsked(t).means \in {"page", "upgrade"}
    /\ \E more \in Text : /\ Follows(Len(t.handled) + 1, more)
                          /\ t.buf \o rest = WrittenBody(NextAsked(t)) \o more
InOrder(t, rest) == Past(t) \/ Heads(t, rest) \/ Bodies(t, rest)

(* When an answer is due, the next request is one that was asked.          *)
LEMMA NextIs ==
    ASSUME RequestsFit, NEW t \in Works, Due(t)
    PROVE  LET n == Len(t.handled)
               r == NextAsked(t)
           IN  /\ n \in Nat /\ n < Len(requests) /\ n + 1 \in 1..Len(requests)
               /\ r \in Asked /\ Understood(r) /\ r.means \in {"page", "upgrade", "error"}
               /\ r.body \in Nat
  <1> DEFINE n == Len(t.handled)
             r == NextAsked(t)
  <1>1. n \in Nat
    BY DEF Works
  <1>2. n < Claimed /\ r.means # "odd" /\ Claimed <= Len(requests) /\ Claimed \in Nat
    BY ClaimedIs DEF RequestsFit, Due
  <1>3. n + 1 \in 1..Len(requests) /\ n < Len(requests)
    BY <1>1, <1>2 DEF RequestsFit
  <1> HIDE DEF n
  <1>4. r = requests[n + 1]
    BY DEF NextAsked, n
  <1> HIDE DEF r
  <1>5. r \in Asked /\ Understood(r)
    BY <1>2, <1>3, <1>4 DEF RequestsFit
  <1>6. r.means \in {"page", "upgrade", "error"} /\ r.body \in Nat
    BY <1>2, <1>5 DEF Asked
  <1> QED BY <1>1, <1>3, <1>5, <1>6 DEF n, r

(* A request that names a page is answered by that page.                   *)
LEMMA PageIsMeant ==
    ASSUME NEW r \in Asked, r.means \in {"page", "upgrade"}, ParsedAs(r) \in Currents
    PROVE  AnswerTo(ParsedAs(r)) = MeantBy(r) /\ MeantBy(r) \in Answers
  <1>1. AnswerTo(ParsedAs(r)) = MeantBy(r)
    BY DEF AnswerTo, ParsedAs, MeantBy
  <1> QED BY <1>1 DEF Answers

(* The head of the next request is found when it is there.                   *)
LEMMA HeadFound ==
    ASSUME RequestsFit, NEW t \in Works, NEW rest \in Text, Heads(t, rest)
    PROVE  LET r == NextAsked(t)
               i == HeadEnd(t.buf)
               from == SubSeq(t.buf, i + 4, Len(t.buf))
           IN  \/ i = 0 /\ Len(t.buf) < HeadSize(r)
               \/ /\ i > 0
                  /\ ProcessHeaders(SubSeq(t.buf, 1, i + 1)) =
                        ProcessHeaders(SubSeq(WrittenHead(r), 1, Len(WrittenHead(r)) - 2))
                  /\ \E more \in Text : /\ Follows(Len(t.handled) + 1, more)
                                        /\ from \o rest = WrittenBody(r) \o more
  <1> DEFINE r == NextAsked(t)
             n == Len(t.handled)
             i == HeadEnd(t.buf)
             head == WrittenHead(r)
             body == WrittenBody(r)
  <1>1. n \in Nat /\ n < Len(requests) /\ r \in Asked /\ Understood(r)
    BY NextIs DEF Heads
  <1>2. t.buf \in Text /\ t.buf \o rest \in Text /\ Len(t.buf) \in Nat
    BY TextJoin DEF Works, Text
  <1>3. PICK more \in Text : t.buf \o rest = Written(requests[n + 1]) \o more /\ Follows(n + 1, more)
    BY <1>1, <1>2, NextFollows DEF Heads, RequestsFit
  <1>4. head \in Text /\ Len(head) > 3 /\ body \in Text /\ Written(r) = head \o body
    BY <1>1, WrittenIs
  <1>5. HeadEnd(head) = Len(head) - 3 /\ Len(head) \in Nat
    BY <1>1, <1>4 DEF Understood, Text
  <1>6. requests[n + 1] = r
    BY DEF NextAsked
  <1> HIDE DEF r, n, head, body
  <1>7. t.buf \o rest = head \o (body \o more) /\ body \o more \in Text
    <2>1. (head \o body) \o more = head \o (body \o more)
      BY <1>3, <1>4, TextRegroup, Zenon
    <2>2. body \o more \in Text
      BY <1>3, <1>4, TextJoin, Zenon
    <2> QED BY <1>3, <1>4, <1>6, <2>1, <2>2, Zenon
  <1>8. CASE Len(t.buf) < Len(head)
    <2>1. i = 0
      BY <1>2, <1>4, <1>5, <1>7, <1>8, HeadArrived
    <2> QED BY <1>8, <2>1 DEF HeadSize, head, r
  <1>9. CASE Len(t.buf) >= Len(head)
    <2> DEFINE from == SubSeq(t.buf, i + 4, Len(t.buf))
               tail == SubSeq(t.buf, Len(head) + 1, Len(t.buf))
               start == SubSeq(t.buf, 1, Len(head) - 2)
    <2>1. /\ i = Len(head) - 3 /\ start = SubSeq(head, 1, Len(head) - 2)
          /\ tail \o rest = body \o more
      <3>1. /\ head \in Text /\ Len(head) > 3 /\ HeadEnd(head) = Len(head) - 3 /\ t.buf \in Text
            /\ rest \in Text /\ body \o more \in Text /\ t.buf \o rest = head \o (body \o more)
            /\ Len(t.buf) >= Len(head)
        BY <1>2, <1>4, <1>5, <1>7, <1>9
      <3> DEFINE text == t.buf
                 after == body \o more
      <3> HIDE DEF text, after
      <3>2. /\ head \in Text /\ Len(head) > 3 /\ HeadEnd(head) = Len(head) - 3 /\ text \in Text
            /\ rest \in Text /\ after \in Text /\ text \o rest = head \o after
            /\ Len(text) >= Len(head)
        BY <3>1 DEF text, after
      <3>3. /\ HeadEnd(text) = Len(head) - 3
            /\ SubSeq(text, 1, Len(head) - 2) = SubSeq(head, 1, Len(head) - 2)
        BY <3>2, HeadArrived, ZenonT(60)
      <3>4. SubSeq(text, Len(head) + 1, Len(text)) \o rest = after
        BY <3>2, AfterFront, ZenonT(60)
      <3> QED BY <3>3, <3>4 DEF text, after
    <2>2. i > 0 /\ i + 1 = Len(head) - 2 /\ i + 4 = Len(head) + 1
      BY <1>4, <1>5, <2>1
    <2>3. ProcessHeaders(SubSeq(t.buf, 1, i + 1)) = ProcessHeaders(SubSeq(head, 1, Len(head) - 2))
      BY <2>1, <2>2
    <2>4. from = tail
      BY <2>2
    <2>5. \E m \in Text : Follows(n + 1, m) /\ from \o rest = body \o m
      BY <1>3, <2>1, <2>4
    <2> HIDE DEF from, i
    <2> QED BY <2>2, <2>3, <2>5, Zenon DEF from, i, head, body, r, n
  <1>10. Len(t.buf) < Len(head) \/ Len(t.buf) >= Len(head)
    BY <1>2, <1>5
  <1> QED BY <1>8, <1>9, <1>10, Zenon

(* No head, or a part of one.                                                *)
LEMMA NoHeadYet ==
    ASSUME RequestsFit, NEW t \in Works, NEW rest \in Text, Heads(t, rest), t.more,
           HeadEnd(t.buf) = 0
    PROVE  InOrder(HeadTurn(t), rest)
  <1> DEFINE u == HeadTurn(t)
             n == Len(t.handled)
             more == Append(t.handled, Refusal)
             v == [t EXCEPT !.handled = more, !.hungry = TRUE, !.more = FALSE]
             w == [t EXCEPT !.more = FALSE]
  <1>1. u = HandleHead(t)
    BY DEF HeadTurn, Heads
  <1>2. n \in Nat /\ n + 1 \in 1..Len(requests) /\ t.handled \in Seq(Answers) /\ Refusal \in Answers
    BY NextIs DEF Heads, Works, Answers
  <1>3. CASE Len(t.buf) > MaxHead
    <2>1. u = v
      BY <1>1, <1>3, HandleHeadIs
    <2>2. TooLong(n + 1)
      <3>1. Len(t.buf) < HeadSize(NextAsked(t))
        BY HeadFound
      <3>2. Len(t.buf) \in Nat /\ HeadSize(NextAsked(t)) \in Nat
        <4>1. WrittenHead(NextAsked(t)) \in Text
          BY NextIs, WrittenIs DEF Heads
        <4> QED BY <4>1 DEF HeadSize, Works, Text
      <3>3. HeadSize(NextAsked(t)) > MaxHead
        BY <1>3, <3>1, <3>2, AskedAssumption
      <3>4. n + 1 \in 1..n + 1
        BY <1>2
      <3> QED BY <3>3, <3>4 DEF TooLong, NextAsked
    <2>3. v.handled = more /\ v.hungry = TRUE
      BY DEF Works
    <2> HIDE DEF v, more, n
    <2>4. Right(more) /\ Len(more) = n + 1
      <3>1. RightAt(n + 1, Refusal)
        BY <2>2 DEF RightAt
      <3> QED BY <1>2, <3>1, RightMore DEF Heads, Due, more, n
    <2>5. Past(v)
      BY <2>2, <2>3, <2>4 DEF Past
    <2> QED BY <2>1, <2>5 DEF InOrder
  <1>4. CASE ~(Len(t.buf) > MaxHead)
    <2>1. u = w
      BY <1>1, <1>4, HandleHeadIs
    <2>2. /\ w.handled = t.handled /\ w.hungry = t.hungry /\ w.reading = t.reading
          /\ w.buf = t.buf /\ w.more = FALSE
      BY DEF Works
    <2> HIDE DEF w
    <2>3. Heads(w, rest)
      BY <2>2 DEF Heads, Due, NextAsked
    <2> QED BY <2>1, <2>3 DEF InOrder
  <1> QED BY <1>3, <1>4

(* A request is answered, and what follows it is next.                       *)
LEMMA AnswerInOrder ==
    ASSUME RequestsFit, NEW t \in Works, Due(t), NEW u \in Works, NEW rest \in Text,
           NextAsked(t).means \in {"page", "upgrade"}, ParsedAs(NextAsked(t)) \in Currents,
           u.handled = Append(t.handled, AnswerTo(ParsedAs(NextAsked(t)))), u.hungry = t.hungry,
           u.reading = (IF NextAsked(t).means = "upgrade" THEN "SOCKET" ELSE "HEAD"),
           Follows(Len(t.handled) + 1, u.buf \o rest), u.more \/ NextAsked(t).body > 0
    PROVE  InOrder(u, rest)
  <1> DEFINE r == NextAsked(t)
             n == Len(t.handled)
  <1>1. n \in Nat /\ r \in Asked /\ r.body \in Nat /\ requests \in Seq(Asked)
    BY NextIs DEF RequestsFit
  <1>2. AnswerTo(ParsedAs(r)) = MeantBy(r) /\ MeantBy(r) \in Answers
    BY <1>1, PageIsMeant
  <1>3. Past(u) \/ ((u.hungry = FALSE => Due(u)) /\ r.means = "page")
    BY <1>1, <1>2, Advance
  <1>4. CASE Past(u)
    BY <1>4 DEF InOrder
  <1>5. CASE (u.hungry = FALSE => Due(u)) /\ r.means = "page"
    <2>1. u.hungry = FALSE
      BY DEF Due, Works
    <2>2. Len(u.handled) = n + 1
      BY <1>1, <1>2 DEF Works
    <2>3. u.more \/ HadBody(n + 1)
      <3>1. r.body > 0 /\ n + 1 \in 1..n + 1 => HadBody(n + 1)
        BY DEF HadBody, NextAsked
      <3>2. n + 1 \in 1..n + 1
        BY <1>1
      <3> QED BY <3>1, <3>2
    <2>4. u.reading = "HEAD"
      BY <1>5
    <2>5. Heads(u, rest)
      BY <1>5, <2>1, <2>2, <2>3, <2>4 DEF Heads
    <2> QED BY <2>5 DEF InOrder
  <1> QED BY <1>3, <1>4, <1>5

(* A head is there, and is taken away.                                       *)
LEMMA HeadThere ==
    ASSUME RequestsFit, NEW t \in Works, NEW rest \in Text, Heads(t, rest), t.more,
           HeadEnd(t.buf) # 0
    PROVE  InOrder(HeadTurn(t), rest)
  <1> DEFINE u == HeadTurn(t)
             n == Len(t.handled)
             i == HeadEnd(t.buf)
             r == NextAsked(t)
             from == SubSeq(t.buf, i + 4, Len(t.buf))
             left == [t EXCEPT !.buf = from]
             parsed == ProcessHeaders(SubSeq(t.buf, 1, i + 1))
             head == WrittenHead(r)
  <1>1. i \in Nat /\ i > 0
    <2>1. i \in Nat
      BY HandleHeadIs
    <2> QED BY <2>1
  <1>2. u = HandleParsed(left, parsed) /\ left \in Works /\ parsed \in Parsed
    <2>1. u = HandleHead(t)
      BY DEF HeadTurn, Heads
    <2> QED BY <1>1, <2>1, HandleHeadIs
  <1>3. /\ parsed = ProcessHeaders(SubSeq(head, 1, Len(head) - 2))
        /\ \E more \in Text : Follows(n + 1, more) /\ from \o rest = WrittenBody(r) \o more
    BY <1>1, HeadFound
  <1>4. /\ n \in Nat /\ r \in Asked /\ Understood(r) /\ r.means \in {"page", "upgrade", "error"}
        /\ r.body \in Nat /\ requests \in Seq(Asked) /\ Due(t)
    BY NextIs DEF Heads, RequestsFit
  <1>5. /\ r.means = "error" => parsed.is = "error"
        /\ r.means \in {"page", "upgrade"} => parsed = ParsedAs(r)
    BY <1>3, <1>4 DEF Understood, ParsedAs
  <1>6. /\ left.handled = t.handled /\ left.hungry = t.hungry /\ left.more = t.more
        /\ left.reading = t.reading /\ left.buf = from
    BY DEF Works
  <1> HIDE DEF left, from, parsed, u
  <1>7. CASE r.means = "error"
    <2> DEFINE v == [left EXCEPT !.handled = Append(left.handled, Refusal), !.hungry = TRUE]
    <2>1. u = v /\ v \in Works /\ Refusal \in Answers
      BY <1>2, <1>5, <1>7, RefusalIs DEF HandleParsed
    <2>2. v.handled = Append(t.handled, Refusal)
      BY <1>2, <1>6 DEF Works
    <2>3. MeantBy(r) = Refusal
      BY <1>7 DEF MeantBy
    <2> HIDE DEF v
    <2>4. Past(v)
      BY <1>4, <1>7, <2>1, <2>2, <2>3, Advance
    <2> QED BY <2>1, <2>4 DEF InOrder, u
  <1>8. CASE r.means \in {"page", "upgrade"}
    <2>1. /\ parsed = ParsedAs(r) /\ parsed.is = r.means /\ parsed.length = r.body
          /\ parsed \in Currents /\ parsed.is # "error"
      BY <1>2, <1>5, <1>8 DEF ParsedAs, Currents
    <2>2. PICK more \in Text : Follows(n + 1, more) /\ from \o rest = WrittenBody(r) \o more
      BY <1>3
    <2>3. CASE r.body > 0
      <3> DEFINE v == [left EXCEPT !.reading = "POST", !.current = parsed]
      <3>1. u = v
        BY <1>2, <2>1, <2>3 DEF HandleParsed
      <3>2. /\ v.handled = t.handled /\ v.hungry = t.hungry /\ v.more /\ v.reading = "POST"
            /\ v.current = parsed /\ v.buf = from
        BY <1>2, <1>6 DEF Works
      <3> HIDE DEF v
      <3>3. Due(v) /\ NextAsked(v) = r
        BY <1>4, <3>2 DEF Due, NextAsked
      <3>4. Bodies(v, rest)
        BY <1>8, <2>1, <2>2, <2>3, <3>2, <3>3 DEF Bodies
      <3> QED BY <3>1, <3>4 DEF InOrder, u
    <2>4. CASE ~(r.body > 0)
      <3> DEFINE v == HandlePage(left, parsed)
      <3>1. u = v
        BY <1>2, <2>1, <2>4 DEF HandleParsed
      <3>2. /\ v = [left EXCEPT !.handled = Append(left.handled, AnswerTo(parsed)),
                                !.reading = IF parsed.is = "upgrade" THEN "SOCKET" ELSE "HEAD"]
            /\ v \in Works
        BY <1>2, <2>1, AnswerIs
      <3> HIDE DEF v
      <3>3. /\ v.handled = Append(t.handled, AnswerTo(parsed)) /\ v.hungry = t.hungry /\ v.more
            /\ v.reading = (IF r.means = "upgrade" THEN "SOCKET" ELSE "HEAD") /\ v.buf = from
        BY <1>2, <1>6, <2>1, <3>2 DEF Works
      <3>4. from \o rest = more
        <4>1. WrittenBody(r) = <<>>
          BY <1>4, <2>4, WrittenIs, EmptySeq DEF Text
        <4>2. <<>> \o more = more
          BY ConcatEmptySeq DEF Text
        <4> QED BY <2>2, <4>1, <4>2
      <3>5. InOrder(v, rest)
        <4>1. Follows(n + 1, v.buf \o rest)
          BY <2>2, <3>3, <3>4
        <4> QED BY <1>4, <1>8, <2>1, <3>2, <3>3, <4>1, AnswerInOrder
      <3> QED BY <3>1, <3>5 DEF u
    <2> QED BY <2>3, <2>4
  <1> QED BY <1>4, <1>7, <1>8

(* A body, all of it or not.                                                 *)
LEMMA BodyTurn ==
    ASSUME RequestsFit, NEW t \in Works, NEW rest \in Text, Bodies(t, rest)
    PROVE  InOrder(HeadTurn(t), rest)
  <1> DEFINE u == HeadTurn(t)
             n == Len(t.handled)
             r == NextAsked(t)
             body == WrittenBody(r)
  <1>1. /\ n \in Nat /\ r \in Asked /\ r.body \in Nat /\ Due(t) /\ t.current = ParsedAs(r)
        /\ t.more /\ t.reading = "POST" /\ r.means \in {"page", "upgrade"} /\ r.body > 0
    BY NextIs DEF Bodies
  <1>2. body \in Text /\ Len(body) = r.body /\ t.buf \in Text /\ Len(t.buf) \in Nat
    BY <1>1, WrittenIs DEF Works, Text
  <1>3. t.current.length = r.body /\ t.current.is = r.means /\ t.current \in Currents
    BY <1>1 DEF ParsedAs, Works
  <1>4. CASE Len(t.buf) < r.body
    <2>1. u = t
      BY <1>1, <1>2, <1>3, <1>4 DEF HeadTurn
    <2> QED BY <2>1 DEF InOrder
  <1>5. CASE Len(t.buf) >= r.body
    <2> DEFINE from == SubSeq(t.buf, t.current.length + 1, Len(t.buf))
               v == ConsumeContent(t)
    <2>1. u = v /\ t.current.length <= Len(t.buf)
      BY <1>1, <1>2, <1>3, <1>5 DEF HeadTurn
    <2>2. /\ v = [t EXCEPT !.handled = Append(t.handled, AnswerTo(t.current)),
                           !.reading = IF t.current.is = "upgrade" THEN "SOCKET" ELSE "HEAD",
                           !.buf = from, !.current = NoRequest, !.more = FALSE]
          /\ v \in Works
      BY <2>1, ConsumeContentIs
    <2>3. PICK more \in Text : Follows(n + 1, more) /\ t.buf \o rest = body \o more
      BY DEF Bodies
    <2>4. from \o rest = more
      <3> DEFINE text == t.buf
      <3>1. text \in Text /\ text \o rest = body \o more /\ Len(text) >= Len(body)
        BY <1>2, <1>5, <2>3
      <3> HIDE DEF text, body
      <3>2. SubSeq(text, Len(body) + 1, Len(text)) \o rest = more
        BY <1>2, <3>1, AfterFront, Zenon
      <3> QED BY <1>2, <1>3, <3>2 DEF text
    <2> HIDE DEF v, from
    <2>5. /\ v.handled = Append(t.handled, AnswerTo(ParsedAs(r))) /\ v.hungry = t.hungry
          /\ v.reading = (IF r.means = "upgrade" THEN "SOCKET" ELSE "HEAD") /\ v.buf = from
      BY <1>1, <1>3, <2>2 DEF Works
    <2>6. InOrder(v, rest)
      <3>1. Follows(n + 1, v.buf \o rest)
        BY <2>3, <2>4, <2>5
      <3> QED BY <1>1, <1>3, <2>2, <2>5, <3>1, AnswerInOrder
    <2> QED BY <2>1, <2>6
  <1>6. Len(t.buf) < r.body \/ Len(t.buf) >= r.body
    BY <1>1, <1>2
  <1> QED BY <1>4, <1>5, <1>6, Zenon

(* One turn of handleNewData() keeps the answers in order.                 *)
LEMMA TurnInOrder ==
    ASSUME RequestsFit, NEW t \in Works, NEW rest \in Text, InOrder(t, rest)
    PROVE  InOrder(HeadTurn(t), rest)
  <1>1. CASE Past(t)
    <2> DEFINE u == HeadTurn(t)
    <2>1. u \in Works /\ (t.hungry => u.hungry) /\ Answered(t, u)
      BY TurnKeeps
    <2> HIDE DEF u
    <2>2. Past(u)
      BY <1>1, <2>1, PastStays DEF RequestsFit
    <2> QED BY <2>2 DEF InOrder, u
  <1>2. CASE Heads(t, rest)
    <2>1. CASE ~t.more
      <3>1. HeadTurn(t) = t
        BY <2>1, TurnKeeps DEF Over
      <3> QED BY <3>1
    <2>2. CASE t.more
      BY <1>2, <2>2, NoHeadYet, HeadThere
    <2> QED BY <2>1, <2>2
  <1>3. CASE Bodies(t, rest)
    BY <1>3, BodyTurn
  <1> QED BY <1>1, <1>2, <1>3 DEF InOrder

-----------------------------------------------------------------------------
(* RequestHead: the whole loop.                                              *)
LEMMA LoopInOrder ==
    ASSUME RequestsFit, NEW st \in Works, NEW rest \in Text, InOrder(st, rest)
    PROVE  LET u == NewData(st)
           IN  u \in Works /\ InOrder(u, rest) /\ Over(u)
  <1> DEFINE n == Len(st.buf) + 1
             G == CHOOSE turns : turns = [k \in 0..Len(st.buf) + 1 |->
                                            IF k = 0 THEN st ELSE HeadTurn(turns[k - 1])]
             P == {t \in Works : InOrder(t, rest)}
             F == [x \in P \X (1..n) |-> HeadTurn(x[1])]
  <1>1. n \in Nat /\ st \in P /\ n = Len(st.buf) + 1 /\ Len(st.buf) \in Nat
    BY DEF Works, Text
  <1>2. ASSUME NEW t \in P
        PROVE  LET u == HeadTurn(t)
               IN  u \in P /\ (Over(t) => u = t) /\ (Over(u) \/ Len(u.buf) < Len(t.buf))
    BY TurnKeeps, TurnInOrder
  <1> HIDE DEF P
  <1>3. F \in [P \X (1..n) -> P] /\ \A x \in P, k \in 1..n : F[<<x, k>>] = HeadTurn(x)
    BY <1>2
  <1> HIDE DEF F
  <1>4. PICK f : IsRun(f, P, F, st, n)
    BY <1>1, <1>3, RunExists
  <1>5. f = [k \in 0..n |-> IF k = 0 THEN st ELSE HeadTurn(f[k - 1])]
    <2>1. ASSUME NEW k \in 0..n, k # 0 PROVE f[k] = HeadTurn(f[k - 1])
      <3>1. k \in 1..n /\ k - 1 \in 0..n
        BY <1>1, <2>1
      <3> QED BY <1>3, <1>4, <2>1, <3>1 DEF IsRun
    <2> QED BY <1>4, <2>1 DEF IsRun
  <1>6. G = [k \in 0..n |-> IF k = 0 THEN st ELSE HeadTurn(G[k - 1])]
    BY <1>5, Zenon
  <1>7. NewData(st) = G[n]
    BY DEF NewData
  <1> HIDE DEF G, n
  <1>8. ASSUME NEW k \in 1..n PROVE G[k] = HeadTurn(G[k - 1])
    <2>1. k \in 0..n /\ k # 0
      BY <1>1
    <2> QED BY <1>6, <2>1
  <1> DEFINE Halted(t, k) == Over(t) \/ Len(t.buf) + k < n
             K == {k \in 0..n : G[k] \in P /\ Halted(G[k], k)}
  <1>9. \A k \in 0..n : k \in K
    <2>1. 0 \in K
      <3>1. G[0] = st /\ 0 \in 0..n
        BY <1>1, <1>6
      <3>2. Len(st.buf) + 0 < n
        BY <1>1
      <3> QED BY <1>1, <3>1, <3>2
    <2>2. ASSUME NEW k \in 1..n, k - 1 \in K PROVE k \in K
      <3> DEFINE t == G[k - 1]
                 u == G[k]
      <3>1. t \in P /\ Halted(t, k - 1) /\ u = HeadTurn(t)
        BY <1>8, <2>2
      <3>2. u \in P /\ (Over(t) => u = t) /\ (Over(u) \/ Len(u.buf) < Len(t.buf))
        BY <1>2, <3>1
      <3>3. Len(t.buf) \in Nat /\ Len(u.buf) \in Nat
        BY <3>1, <3>2 DEF P, Works, Text
      <3> HIDE DEF t, u
      <3>4. Halted(u, k)
        <4>1. CASE Over(t)
          BY <3>2, <4>1
        <4>2. CASE Len(t.buf) + (k - 1) < n
          <5>1. Len(u.buf) < Len(t.buf) => Len(u.buf) + k < n
            BY <1>1, <3>3, <4>2
          <5> QED BY <3>2, <5>1
        <4> QED BY <3>1, <4>1, <4>2
      <3>5. k \in 0..n
        BY <1>1
      <3> QED BY <3>2, <3>4, <3>5 DEF u
    <2> HIDE DEF K
    <2> QED BY <1>1, <2>1, <2>2, RunInduction
  <1>10. G[n] \in P /\ Halted(G[n], n)
    <2>1. n \in 0..n
      BY <1>1
    <2> QED BY <1>9, <2>1
  <1>11. Over(G[n])
    <2> DEFINE size == Len(G[n].buf)
    <2>1. G[n] \in Works
      BY <1>10 DEF P
    <2>2. size \in Nat /\ n \in Nat
      BY <1>1, <2>1 DEF Works, Text
    <2>3. Over(G[n]) \/ size + n < n
      BY <1>10
    <2> HIDE DEF size
    <2>4. ~(size + n < n)
      BY <2>2
    <2> QED BY <2>3, <2>4
  <1> QED BY <1>7, <1>10, <1>11 DEF P

-----------------------------------------------------------------------------
(* RequestHead: the behaviours.                                              *)
Server == [buf |-> inbuf, reading |-> reading, current |-> current, hungry |-> hungry,
           handled |-> handled, more |-> TRUE]
Silent ==
    /\ wireIn = <<>> /\ inbuf = <<>> /\ reading = "HEAD" /\ current = NoRequest
    /\ hungry = FALSE /\ ended = FALSE /\ handled = <<>>

(* What waits for more to arrive is a part of a head or of a body, or came   *)
(* after a body.                                                             *)
Waiting ==
    \/ Past(Server)
    \/ reading = "HEAD" /\ (HeadEnd(inbuf) = 0 \/ HadBody(Len(handled)))
    \/ reading = "POST" /\ Len(inbuf) < current.length

HeadIInv ==
    /\ requests \in Clients \cup {<<>>} /\ (requests = <<>> => Silent)
    /\ wireIn \in Text /\ Server \in Works /\ InOrder(Server, wireIn) /\ Waiting

(* The requests of a client are ones the model is about.                   *)
LEMMA ClientsFit == requests \in Clients \cup {<<>>} => RequestsFit
  <1>1. CASE requests \in Clients
    BY <1>1, AskedAssumption, ClientsAssumption DEF RequestsFit
  <1>2. CASE requests = <<>>
    BY <1>2 DEF RequestsFit
  <1> QED BY <1>1, <1>2

(* Before anything has arrived.                                              *)
Start ==
    /\ requests \in Clients \cup {<<>>} /\ inbuf = <<>> /\ reading = "HEAD"
    /\ current = NoRequest /\ hungry = FALSE /\ handled = <<>>
    /\ wireIn = FlattenSeq([k \in 1..Len(requests) |-> Written(requests[k])])
    /\ requests = <<>> => Silent

(* A new connection satisfies the invariant.                               *)
LEMMA StartIInv == Start => HeadIInv
  <1> SUFFICES ASSUME Start PROVE HeadIInv
    OBVIOUS
  <1>1. RequestsFit /\ requests \in Seq(Asked) /\ Len(requests) \in Nat
    BY ClientsFit DEF Start, RequestsFit
  <1>2. wireIn = Sends(Len(requests))
    BY DEF Start, Sends
  <1>3. Sends(0) = <<>>
    <2> DEFINE none == [k \in 1..0 |-> Written(requests[k])]
    <2>1. none = <<>>
      OBVIOUS
    <2>2. FlattenSeq(<<>>) = <<>>
      BY DEF FlattenSeq
    <2>3. Sends(0) = FlattenSeq(none)
      BY DEF Sends
    <2> HIDE DEF none
    <2> QED BY <2>1, <2>2, <2>3
  <1>4. Sends(Len(requests)) \in Text
    <2>1. CASE Len(requests) = 0
      <3>1. <<>> \in Text
        BY DEF Text
      <3> QED BY <1>3, <2>1, <3>1
    <2>2. CASE Len(requests) # 0
      <3>1. Len(requests) - 1 \in Nat /\ Len(requests) - 1 < Len(requests)
            /\ (Len(requests) - 1) + 1 = Len(requests)
        BY <1>1, <2>2
      <3> QED BY <1>1, <3>1, SendsStep
    <2> QED BY <2>1, <2>2
  <1>5. Server \in Works /\ Server.handled = <<>> /\ Server.hungry = FALSE /\ Server.more = TRUE
        /\ Server.reading = "HEAD" /\ Server.buf = <<>> /\ Len(<<>>) = 0
    <2>1. <<>> \in Text /\ <<>> \in Seq(Answers) /\ NoRequest \in Currents
      BY DEF Text, Currents
    <2> QED BY <2>1 DEF Server, Works, Start
  <1>6. Right(<<>>)
    BY DEF Right
  <1>7. /\ Claimed \in Nat /\ Claimed <= Len(requests)
        /\ \A k \in Nat : k > 0 /\ k < Claimed => requests[k].means = "page"
    BY <1>1, ClaimedIs
  <1>8. InOrder(Server, wireIn)
    <2>1. CASE Claimed = 0
      BY <1>5, <1>6, <2>1 DEF Past, InOrder
    <2>2. CASE Claimed > 0 /\ requests[1].means = "odd"
      <3>1. Claimed = 1
        BY <1>7, <2>2
      <3>2. Claimed > 0 /\ requests[Claimed].means = "odd" /\ 0 >= Claimed - 1
        BY <2>2, <3>1
      <3> QED BY <1>5, <1>6, <3>2 DEF Past, InOrder
    <2>3. CASE Claimed > 0 /\ requests[1].means # "odd"
      <3>1. Due(Server)
        BY <1>5, <1>6, <2>3 DEF Due, NextAsked
      <3>2. Follows(0, <<>> \o wireIn)
        <4>1. <<>> \o wireIn = wireIn /\ <<>> \o (<<>> \o wireIn) = wireIn
          BY <1>2, <1>4, ConcatEmptySeq DEF Text
        <4> QED BY <1>2, <1>3, <4>1 DEF Follows
      <3>3. Heads(Server, wireIn)
        BY <1>5, <3>1, <3>2 DEF Heads
      <3> QED BY <3>3 DEF InOrder
    <2> QED BY <1>7, <2>1, <2>2, <2>3
  <1>9. Waiting
    <2>1. inbuf \in Text /\ Len(inbuf) = 0 /\ reading = "HEAD"
      BY DEF Start, Text
    <2>2. HeadEnd(inbuf) = 0
      <3>1. HeadEnd(inbuf) \in Nat /\ (HeadEnd(inbuf) > 0 => HeadEnd(inbuf) + 3 <= Len(inbuf))
        BY <2>1, HeadEndIs
      <3> QED BY <2>1, <3>1
    <2> QED BY <2>1, <2>2 DEF Waiting
  <1> QED BY <1>2, <1>4, <1>5, <1>8, <1>9 DEF HeadIInv, Start

(* The initial state satisfies the invariant.                              *)
LEMMA InitHeadIInv == RequestHeadInit => HeadIInv
  <1>1. RequestHeadInit => Start
    <2> SUFFICES ASSUME RequestHeadInit PROVE Start
      OBVIOUS
    <2> DEFINE none == [k \in 1..Len(requests) |-> Written(requests[k])]
    <2>1. none = <<>>
      BY DEF RequestHeadInit
    <2>2. FlattenSeq(<<>>) = <<>>
      BY DEF FlattenSeq
    <2>3. wireIn = FlattenSeq(none)
      <3> HIDE DEF none
      <3> QED BY <2>1, <2>2 DEF RequestHeadInit
    <2> QED BY <2>3 DEF RequestHeadInit, Start, Silent
  <1> QED BY <1>1, StartIInv

(* The client writing its requests keeps the invariant.                    *)
LEMMA WritesHeadIInv ==
    ASSUME HeadIInv, NEW client \in Clients, ClientWrites(client) PROVE HeadIInv'
  <1>1. Silent
    BY DEF HeadIInv, ClientWrites
  <1>2. Start'
    <2>1. requests' = client /\ wireIn' = FlattenSeq([k \in 1..Len(client) |-> Written(client[k])])
          /\ UNCHANGED <<inbuf, reading, current, hungry, ended, handled>>
      BY DEF ClientWrites
    <2>2. client = <<>> => wireIn' = <<>>
      <3> SUFFICES ASSUME client = <<>> PROVE wireIn' = <<>>
        OBVIOUS
      <3> DEFINE none == [k \in 1..Len(client) |-> Written(client[k])]
      <3>1. none = <<>>
        OBVIOUS
      <3>2. FlattenSeq(<<>>) = <<>>
        BY DEF FlattenSeq
      <3>3. wireIn' = FlattenSeq(none)
        BY <2>1
      <3> HIDE DEF none
      <3> QED BY <3>1, <3>2, <3>3
    <2> QED BY <1>1, <2>1, <2>2 DEF Start, Silent
  <1>3. Start' => HeadIInv'
    BY StartIInv, PTL
  <1> QED BY <1>2, <1>3

(* What is said of a record is said of it as long as the requests are the    *)
(* same.                                                                     *)
LEMMA SameRequests ==
    ASSUME requests' = requests, NEW u, NEW rest, Server' = u, wireIn' = rest
    PROVE  /\ Past(Server)' <=> Past(u)
           /\ Heads(Server, wireIn)' <=> Heads(u, rest)
           /\ Bodies(Server, wireIn)' <=> Bodies(u, rest)
           /\ HadBody(Len(handled))' <=> HadBody(Len(handled'))
  <1>1. Claimed' = Claimed
    BY DEF Claimed
  <1>2. Right(Server.handled)' <=> Right(u.handled)
    BY <1>1 DEF Right, RightAt, TooLong
  <1>3. TooLong(Len(Server.handled))' <=> TooLong(Len(u.handled))
    BY DEF TooLong
  <1>4. NextAsked(Server)' = NextAsked(u)
    BY DEF NextAsked
  <1>5. Past(Server)' <=> Past(u)
    BY <1>1, <1>2, <1>3 DEF Past
  <1>6. Due(Server)' <=> Due(u)
    BY <1>1, <1>2, <1>4 DEF Due
  <1>7. HadBody(Len(Server.handled))' <=> HadBody(Len(u.handled))
    BY DEF HadBody
  <1>8. Follows(Len(Server.handled), Server.buf \o wireIn)' <=> Follows(Len(u.handled), u.buf \o rest)
    BY DEF Follows, Sends
  <1>9. \A more : Follows(Len(Server.handled) + 1, more)' <=> Follows(Len(u.handled) + 1, more)
    BY DEF Follows, Sends
  <1>10. Heads(Server, wireIn)' <=> Heads(u, rest)
    BY <1>6, <1>7, <1>8 DEF Heads
  <1>11. Bodies(Server, wireIn)' <=> Bodies(u, rest)
    BY <1>4, <1>6, <1>9 DEF Bodies
  <1>12. HadBody(Len(handled))' <=> HadBody(Len(handled'))
    BY DEF HadBody
  <1> QED BY <1>5, <1>10, <1>11, <1>12

(* A read, and every request found in it, keeps the invariant.             *)
LEMMA ArrivesHeadIInv ==
    ASSUME HeadIInv, NEW n \in 1..HeadReadSize, HeadArrives(n) PROVE HeadIInv'
  <1> DEFINE new == SubSeq(wireIn, 1, n)
             rest == SubSeq(wireIn, n + 1, Len(wireIn))
             st == [buf |-> inbuf \o new, reading |-> reading, current |-> current,
                    hungry |-> hungry, handled |-> handled, more |-> TRUE]
             u == NewData(st)
             v == [u EXCEPT !.more = TRUE]
  <1>1. n \in Nat /\ n > 0 /\ n <= Len(wireIn) /\ wireIn \in Text
    BY AskedAssumption DEF HeadArrives, HeadIInv
  <1>2. RequestsFit
    BY ClientsFit DEF HeadIInv
  <1>3. new \in Text /\ rest \in Text /\ new \o rest = wireIn
    BY <1>1, CutAt DEF Text
  <1>4. inbuf \in Text /\ Server.buf = inbuf /\ Server.handled = handled /\ Server.hungry = hungry
        /\ Server.reading = reading /\ Server.current = current /\ Server.more = TRUE
    BY DEF Server, Works, HeadIInv
  <1> HIDE DEF new, rest
  <1>5. inbuf \o new \in Text /\ (inbuf \o new) \o rest = inbuf \o wireIn
    <2>1. (inbuf \o new) \o rest = inbuf \o (new \o rest)
      BY <1>3, <1>4, TextRegroup, Zenon
    <2>2. inbuf \o new \in Text
      BY <1>3, <1>4, TextJoin, Zenon
    <2> QED BY <1>3, <2>1, <2>2
  <1>6. st \in Works
    <2> DEFINE bytes == inbuf \o new
    <2> HIDE DEF bytes
    <2>1. bytes \in Text
      BY <1>5 DEF bytes
    <2>2. [buf |-> bytes, reading |-> reading, current |-> current, hungry |-> hungry,
           handled |-> handled, more |-> TRUE] \in Works
      BY <2>1 DEF Server, Works, HeadIInv
    <2> QED BY <2>2 DEF bytes
  <1>7. /\ st.buf = inbuf \o new /\ st.handled = handled /\ st.hungry = hungry
        /\ st.reading = reading /\ st.current = current /\ st.more = TRUE
    OBVIOUS
  <1> HIDE DEF st
  <1>8. InOrder(st, rest)
    <2>1. CASE Past(Server)
      BY <1>4, <1>7, <2>1 DEF Past, InOrder
    <2>2. CASE Heads(Server, wireIn)
      <3>1. Due(st)
        BY <1>4, <1>7, <2>2 DEF Heads, Due, NextAsked
      <3> QED BY <1>4, <1>5, <1>7, <2>2, <3>1 DEF Heads, InOrder
    <2>3. CASE Bodies(Server, wireIn)
      <3>1. Due(st) /\ NextAsked(st) = NextAsked(Server)
        BY <1>4, <1>7, <2>3 DEF Bodies, Due, NextAsked
      <3> QED BY <1>4, <1>5, <1>7, <2>3, <3>1 DEF Bodies, InOrder
    <2> QED BY <2>1, <2>2, <2>3 DEF HeadIInv, InOrder
  <1>9. u \in Works /\ InOrder(u, rest) /\ Over(u)
    BY <1>2, <1>3, <1>6, <1>8, LoopInOrder
  <1>10. requests' = requests /\ wireIn' = rest /\ inbuf' = u.buf /\ reading' = u.reading
         /\ current' = u.current /\ hungry' = u.hungry /\ handled' = u.handled
    BY DEF HeadArrives, new, rest, st
  <1> HIDE DEF u
  <1>11. Server' = v /\ v \in Works
    <2>1. /\ v \in Works /\ v.buf = u.buf /\ v.reading = u.reading /\ v.current = u.current
          /\ v.hungry = u.hungry /\ v.handled = u.handled /\ v.more = TRUE
      BY <1>9 DEF Works
    <2> HIDE DEF v
    <2>2. v = [buf |-> v.buf, reading |-> v.reading, current |-> v.current, hungry |-> v.hungry,
               handled |-> v.handled, more |-> v.more]
      BY <2>1 DEF Works
    <2> QED BY <1>10, <2>1, <2>2 DEF Server
  <1>12. /\ v.buf = u.buf /\ v.handled = u.handled /\ v.hungry = u.hungry /\ v.more = TRUE
         /\ v.reading = u.reading /\ v.current = u.current
    BY <1>9 DEF Works
  <1> HIDE DEF v
  <1>13. /\ Past(Server)' <=> Past(v)
         /\ Heads(Server, wireIn)' <=> Heads(v, rest)
         /\ Bodies(Server, wireIn)' <=> Bodies(v, rest)
         /\ HadBody(Len(handled))' <=> HadBody(Len(u.handled))
    BY <1>10, <1>11, SameRequests
  <1>14. \/ Past(v)
         \/ /\ Heads(v, rest)
            /\ reading' = "HEAD" /\ (HeadEnd(inbuf') = 0 \/ HadBody(Len(u.handled)))
         \/ /\ Bodies(v, rest)
            /\ reading' = "POST" /\ Len(inbuf') < current'.length
    <2>1. CASE Past(u)
      BY <1>12, <2>1 DEF Past
    <2>2. CASE Heads(u, rest)
      <3>1. Due(v)
        BY <1>12, <2>2 DEF Heads, Due, NextAsked
      <3>2. Heads(v, rest)
        BY <1>12, <2>2, <3>1 DEF Heads
      <3>3. ~u.more
        BY <1>9, <2>2 DEF Heads, Over
      <3> QED BY <1>10, <2>2, <3>2, <3>3 DEF Heads
    <2>3. CASE Bodies(u, rest)
      <3>1. Due(v) /\ NextAsked(v) = NextAsked(u)
        BY <1>12, <2>3 DEF Bodies, Due, NextAsked
      <3>2. Bodies(v, rest)
        BY <1>12, <2>3, <3>1 DEF Bodies
      <3>3. Len(u.buf) < u.current.length
        BY <1>9, <2>3 DEF Bodies, Over
      <3> QED BY <1>10, <2>3, <3>2, <3>3 DEF Bodies
    <2> QED BY <1>9, <2>1, <2>2, <2>3 DEF InOrder
  <1>15. InOrder(Server, wireIn)' /\ Waiting'
    BY <1>13, <1>14 DEF InOrder, Waiting
  <1>16. requests # <<>>
    <2>1. Len(<<>>) = 0
      OBVIOUS
    <2> QED BY <1>1, <2>1 DEF HeadIInv, Silent
  <1> QED BY <1>3, <1>10, <1>11, <1>15, <1>16 DEF HeadIInv

(* Every step, or a stutter, keeps the invariant.                          *)
LEMMA HeadStepIInv == HeadIInv /\ [RequestHeadNext]_rqvars => HeadIInv'
  <1> SUFFICES ASSUME HeadIInv, [RequestHeadNext]_rqvars PROVE HeadIInv'
    OBVIOUS
  <1>1. CASE UNCHANGED rqvars
    <2>1. /\ requests' = requests /\ wireIn' = wireIn /\ Server' = Server /\ handled' = handled
          /\ inbuf' = inbuf /\ reading' = reading /\ current' = current /\ Silent' = Silent
      BY <1>1 DEF rqvars, Server, Silent
    <2>2. /\ Past(Server)' <=> Past(Server)
          /\ Heads(Server, wireIn)' <=> Heads(Server, wireIn)
          /\ Bodies(Server, wireIn)' <=> Bodies(Server, wireIn)
          /\ HadBody(Len(handled))' <=> HadBody(Len(handled))
      BY <1>1, <2>1 DEF rqvars, Server, Past, Right, RightAt, TooLong, Claimed, Heads, Bodies, Due,
           NextAsked, HadBody, Follows, Sends
    <2> QED BY <2>1, <2>2 DEF HeadIInv, InOrder, Waiting
  <1>2. ASSUME NEW client \in Clients, ClientWrites(client) PROVE HeadIInv'
    BY <1>2, WritesHeadIInv
  <1>3. ASSUME NEW n \in 1..HeadReadSize, HeadArrives(n) PROVE HeadIInv'
    BY <1>3, ArrivesHeadIInv
  <1> QED BY <1>1, <1>2, <1>3 DEF RequestHeadNext

(* All that has arrived has been looked at.                                  *)
LEMMA HeadIInvMeans == HeadIInv => RequestsWhateverTheCuts
  <1> SUFFICES ASSUME HeadIInv PROVE RequestsWhateverTheCuts
    OBVIOUS
  <1>1. /\ RequestsFit /\ Server \in Works /\ Server.handled = handled /\ Server.buf = inbuf
        /\ Server.reading = reading /\ Server.current = current /\ Server.hungry = hungry
        /\ Server.more = TRUE /\ inbuf \in Text /\ handled \in Seq(Answers)
    BY ClientsFit DEF HeadIInv, Server, Works
  <1>2. Right(handled)
    BY <1>1 DEF HeadIInv, InOrder, Past, Heads, Bodies, Due
  <1>3. \A k \in 1..Len(handled) : k <= Claimed /\ requests[k].means # "odd" =>
           \/ handled[k] = MeantBy(requests[k])
           \/ \E j \in 1..k : HeadSize(requests[j]) > MaxHead
    BY <1>2 DEF Right, RightAt, TooLong
  <1>4. ASSUME wireIn = <<>>, ~hungry, \A k \in 1..Claimed : requests[k].means # "odd"
        PROVE  Len(handled) >= Claimed \/ HadBody(Len(handled))
    <2>1. inbuf \o wireIn = inbuf /\ Len(handled) \in Nat /\ Claimed \in Nat
      BY <1>1, <1>4, ConcatEmptySeq, ClaimedIs DEF Text, RequestsFit
    <2>2. ASSUME Past(Server) PROVE Len(handled) >= Claimed
      BY <1>1, <1>4, <2>1, <2>2 DEF Past
    <2>3. CASE Heads(Server, wireIn)
      <3>1. wireIn \in Text
        BY DEF HeadIInv
      <3>2. HeadEnd(inbuf) # 0
        <4> SUFFICES ASSUME HeadEnd(inbuf) = 0 PROVE FALSE
          OBVIOUS
        <4> DEFINE n == Len(handled)
                   r == NextAsked(Server)
        <4>1. n \in Nat /\ n < Len(requests) /\ r \in Asked /\ r = requests[n + 1]
          BY <1>1, <2>3, NextIs DEF Heads, NextAsked
        <4>2. Len(inbuf) < HeadSize(r)
          BY <1>1, <2>3, <3>1, HeadFound
        <4>3. PICK more \in Text : inbuf = Written(r) \o more
          <5>1. Follows(n, inbuf)
            BY <1>1, <2>1, <2>3 DEF Heads
          <5> QED BY <1>1, <4>1, <5>1, NextFollows DEF RequestsFit
        <4>4. Len(inbuf) = Len(WrittenHead(r)) + Len(WrittenBody(r)) + Len(more)
              /\ Len(WrittenHead(r)) \in Nat /\ Len(WrittenBody(r)) \in Nat /\ Len(more) \in Nat
          <5>1. /\ WrittenHead(r) \in Text /\ WrittenBody(r) \in Text /\ Written(r) \in Text
                /\ Written(r) = WrittenHead(r) \o WrittenBody(r)
            BY <4>1, WrittenIs
          <5> HIDE DEF r
          <5>2. Len(Written(r)) = Len(WrittenHead(r)) + Len(WrittenBody(r))
            BY <5>1, TextJoin
          <5>3. Len(inbuf) = Len(Written(r)) + Len(more)
            BY <4>3, <5>1, TextJoin
          <5>4. Len(WrittenHead(r)) \in Nat /\ Len(WrittenBody(r)) \in Nat /\ Len(more) \in Nat
            BY <5>1 DEF Text
          <5> QED BY <5>2, <5>3, <5>4
        <4> HIDE DEF r
        <4> QED BY <4>2, <4>4 DEF HeadSize
      <3> QED BY <1>1, <2>2, <2>3, <3>2 DEF HeadIInv, Waiting, Heads
    <2>4. CASE Bodies(Server, wireIn)
      <3> DEFINE r == NextAsked(Server)
      <3>1. PICK more \in Text : inbuf = WrittenBody(r) \o more
        BY <1>1, <2>1, <2>4 DEF Bodies
      <3>2. WrittenBody(r) \in Text /\ Len(WrittenBody(r)) = r.body /\ r.body \in Nat
            /\ current.length = r.body
        <4>1. r \in Asked /\ r.body \in Nat
          BY <1>1, <2>4, NextIs DEF Bodies
        <4>2. current.length = r.body
          BY <1>1, <2>4 DEF Bodies, ParsedAs
        <4> QED BY <4>1, <4>2, WrittenIs
      <3> HIDE DEF r
      <3>3. ~(Len(inbuf) < current.length)
        <4>1. Len(inbuf) = r.body + Len(more) /\ Len(more) \in Nat
          <5>1. Len(WrittenBody(r) \o more) = Len(WrittenBody(r)) + Len(more)
            BY <3>2, TextJoin, Zenon
          <5>2. Len(more) \in Nat
            BY DEF Text
          <5> QED BY <3>1, <3>2, <5>1, <5>2
        <4> QED BY <3>2, <4>1
      <3> QED BY <1>1, <2>2, <2>4, <3>3 DEF HeadIInv, Waiting, Bodies
    <2> QED BY <2>2, <2>3, <2>4 DEF HeadIInv, InOrder
  <1> QED BY <1>3, <1>4 DEF RequestsWhateverTheCuts, HadBody

(* However what a client sends is cut, and whatever clients there are, each  *)
(* of its requests is seen once and in its place, with its own verb, URI and *)
(* body, or is refused (handleNewData(), handleHeaders(), processHeaders(),  *)
(* handleBufferingPostData()).                                               *)
THEOREM RequestsAsWritten == RequestHeadSpec => []RequestsWhateverTheCuts
  <1>1. RequestHeadInit => HeadIInv
    BY InitHeadIInv
  <1>2. HeadIInv /\ [RequestHeadNext]_rqvars => HeadIInv'
    BY HeadStepIInv
  <1>3. HeadIInv => RequestsWhateverTheCuts
    BY HeadIInvMeans
  <1> QED BY <1>1, <1>2, <1>3, PTL DEF RequestHeadSpec
=============================================================================
