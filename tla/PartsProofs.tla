---------------------------- MODULE PartsProofs ----------------------------
(* Proofs about the parts that work by themselves: OutBuffer for any sizes   *)
(* of buffer, socket and write(), Listening for any ports and any number of  *)
(* calls, StaticRanges for any files and any headers, Responses for any      *)
(* payloads and any buffer of a stream, and Routing for any texts and any    *)
(* handlers.                                                                 *)
EXTENDS OutBuffer, Listening, StaticRanges, Responses, Routing, FoldProofs, SequenceTheorems

-----------------------------------------------------------------------------
(* OutBuffer: sequences.                                                     *)

(* A sequence cut in two is the two parts put together: what send() took of  *)
(* a buffer and what it left.                                                *)
LEMMA Cut ==
    ASSUME NEW S, NEW s \in Seq(S), NEW m \in 0..Len(s)
    PROVE  /\ First(s, m) \in Seq(S) /\ Rest(s, m) \in Seq(S)
           /\ Len(First(s, m)) = m /\ Len(Rest(s, m)) = Len(s) - m
           /\ First(s, m) \o Rest(s, m) = s
  <1>1. First(s, m) \in Seq(S) /\ Len(First(s, m)) = m
           /\ \A i \in 1..m : First(s, m)[i] = s[i]
    BY DEF First
  <1>2. Rest(s, m) \in Seq(S) /\ Len(Rest(s, m)) = Len(s) - m
           /\ \A i \in 1..Len(s) - m : Rest(s, m)[i] = s[m + i]
    BY DEF Rest
  <1>3. First(s, m) \o Rest(s, m) \in Seq(S) /\ Len(First(s, m) \o Rest(s, m)) = Len(s)
    BY <1>1, <1>2
  <1>4. \A i \in 1..Len(s) : (First(s, m) \o Rest(s, m))[i] = s[i]
    <2> DEFINE a == First(s, m)
               b == Rest(s, m)
    <2>1. /\ a \in Seq(S) /\ Len(a) = m /\ \A i \in 1..m : a[i] = s[i]
          /\ b \in Seq(S) /\ Len(b) = Len(s) - m
          /\ \A i \in 1..Len(s) - m : b[i] = s[m + i]
      BY <1>1, <1>2
    <2> HIDE DEF a, b
    <2>2. \A i \in 1..Len(a) + Len(b) :
             (a \o b)[i] = IF i <= Len(a) THEN a[i] ELSE b[i - Len(a)]
      BY <2>1, ConcatProperties
    <2>3. ASSUME NEW i \in 1..Len(s) PROVE (a \o b)[i] = s[i]
      <3>0. i \in Nat /\ m \in Nat /\ (i <= m \/ i > m)
        OBVIOUS
      <3>1. CASE i <= m
        BY <2>1, <2>2, <3>1
      <3>2. CASE i > m
        <4>1. i - m \in 1..Len(s) - m /\ m + (i - m) = i
          BY <3>2
        <4>2. (a \o b)[i] = b[i - m]
          BY <2>1, <2>2, <3>2
        <4>3. b[i - m] = s[m + (i - m)]
          BY <2>1, <4>1
        <4> QED BY <4>1, <4>2, <4>3, Zenon
      <3> QED BY <3>0, <3>1, <3>2, Zenon
    <2> QED BY <2>3 DEF a, b
  <1>5. First(s, m) \o Rest(s, m) = s
    BY <1>3, <1>4, SeqEqual
  <1> QED BY <1>1, <1>2, <1>5

Numbers(k) == [i \in 1..k |-> i]
NumbersAfter(k, n) == [i \in 1..n |-> k + i]

(* As many numbers as asked for.                                             *)
LEMMA NumbersType ==
    ASSUME NEW k \in Nat
    PROVE  Numbers(k) \in Seq(Nat) /\ Len(Numbers(k)) = k
  BY DEF Numbers

(* The numbers up to k and a part of those that follow are numbers in order. *)
LEMMA NextNumbers ==
    ASSUME NEW k \in Nat, NEW n \in Nat, NEW m \in 0..n
    PROVE  Numbers(k) \o First(NumbersAfter(k, n), m) = Numbers(k + m)
  <1> DEFINE s == Numbers(k)
             d == NumbersAfter(k, n)
  <1>0. s \in Seq(Nat) /\ Len(s) = k /\ \A i \in 1..k : s[i] = i
    BY DEF Numbers
  <1>1. d \in Seq(Nat) /\ Len(d) = n /\ \A i \in 1..n : d[i] = k + i
    BY DEF NumbersAfter
  <1> HIDE DEF s, d
  <1> DEFINE f == First(d, m)
             t == s \o f
  <1>2. f \in Seq(Nat) /\ Len(f) = m /\ \A i \in 1..m : f[i] = k + i
    BY <1>1 DEF First
  <1> HIDE DEF f
  <1>3. /\ t \in Seq(Nat) /\ Len(t) = Len(s) + Len(f)
        /\ \A i \in 1..Len(s) + Len(f) : t[i] = IF i <= Len(s) THEN s[i] ELSE f[i - Len(s)]
    <2>1. \A a, b \in Seq(Nat) :
             /\ a \o b \in Seq(Nat) /\ Len(a \o b) = Len(a) + Len(b)
             /\ \A i \in 1..Len(a) + Len(b) :
                   (a \o b)[i] = IF i <= Len(a) THEN a[i] ELSE b[i - Len(a)]
      BY ConcatProperties, Zenon
    <2> QED BY <1>0, <1>2, <2>1, Zenon
  <1> HIDE DEF t
  <1>5. \A i \in 1..k + m : t[i] = i
    <2>1. ASSUME NEW i \in 1..k + m PROVE t[i] = i
      <3>1. CASE i <= k
        <4>1. i \in 1..Len(s) + Len(f) /\ i \in 1..k /\ i <= Len(s)
          BY <1>0, <1>2, <3>1
        <4> QED BY <1>0, <1>3, <4>1, Zenon
      <3>2. CASE i > k
        <4>1. /\ i \in 1..Len(s) + Len(f) /\ ~(i <= Len(s))
              /\ i - k \in 1..m /\ k + (i - k) = i
          BY <1>0, <1>2, <3>2
        <4>2. t[i] = f[i - k]
          BY <1>0, <1>3, <4>1, Zenon
        <4> QED BY <1>2, <4>1, <4>2, Zenon
      <3>3. i <= k \/ i > k
        OBVIOUS
      <3> QED BY <3>1, <3>2, <3>3, Zenon
    <2> QED BY <2>1
  <1>6. /\ Numbers(k + m) \in Seq(Nat) /\ Len(Numbers(k + m)) = k + m
        /\ \A i \in 1..k + m : Numbers(k + m)[i] = i
    BY DEF Numbers
  <1>7. t \in Seq(Nat) /\ Len(t) = k + m
    BY <1>0, <1>2, <1>3
  <1>8. t = Numbers(k + m)
    BY <1>5, <1>6, <1>7, SeqEqual
  <1> QED BY <1>8, Zenon DEF s, d, f, t

-----------------------------------------------------------------------------
(* The parts of write().                                                     *)

(* What write() and flush() may do to the variables they change.             *)
Causes == {"none", "user", "remote", "error", "overflow", "empty"}
OutputOK ==
    /\ outBuf \in Seq(Bytes) /\ kernel \in Seq(Bytes) /\ Len(kernel) <= KernelSize
    /\ registered \in BOOLEAN /\ shutdown \in BOOLEAN /\ unflushed \in BOOLEAN
    /\ cause \in Causes

(* flush() moves bytes from the front of the buffer to the end of what was   *)
(* sent, and never opens a connection again.                                 *)
LEMMA FlushMoves ==
    ASSUME OutputOK, NEW buf \in Seq(Bytes), NEW ker \in Seq(Bytes),
           Len(ker) <= KernelSize, NEW closing \in BOOLEAN, NEW finishing \in BOOLEAN,
           Flush(buf, ker, closing, finishing)
    PROVE  /\ OutputOK'
           /\ kernel' \o outBuf' = ker \o buf
           /\ Len(outBuf') <= Len(buf)
           /\ shutdown => shutdown'
  <1> DEFINE Moved == /\ OutputOK'
                      /\ kernel' \o outBuf' = ker \o buf
                      /\ Len(outBuf') <= Len(buf)
                      /\ shutdown => shutdown'
  <1>0. unflushed' = FALSE /\ Len(buf) \in Nat
    BY DEF Flush
  <1>1. ASSUME outBuf' = buf, kernel' = ker, registered' = registered,
               CloseInternal("error") \/ UNCHANGED <<shutdown, cause>>
        PROVE  Moved
    <2>1. kernel' \o outBuf' = ker \o buf
      BY <1>1, Zenon
    <2>2. Len(outBuf') <= Len(buf)
      BY <1>0, <1>1
    <2>3. OutputOK' /\ (shutdown => shutdown')
      BY <1>0, <1>1 DEF OutputOK, Causes, CloseInternal
    <2> QED BY <2>1, <2>2, <2>3
  <1>2. ASSUME NEW m \in SendCounts(Len(buf), ker),
               outBuf' = Rest(buf, m), kernel' = ker \o First(buf, m),
               registered' \in {registered, WantsWriteEvents(outBuf')},
               CloseInternal("empty") \/ UNCHANGED <<shutdown, cause>>,
               buf # <<>>
        PROVE  Moved
    <2>1. m \in 0..Len(buf) /\ Len(ker) + m <= KernelSize
      BY <1>0, <1>2, SizesAreNaturals DEF SendCounts
    <2>2. /\ First(buf, m) \in Seq(Bytes) /\ Rest(buf, m) \in Seq(Bytes)
          /\ Len(First(buf, m)) = m /\ Len(Rest(buf, m)) = Len(buf) - m
          /\ First(buf, m) \o Rest(buf, m) = buf
      BY <2>1, Cut
    <2>3. (ker \o First(buf, m)) \o Rest(buf, m) = ker \o (First(buf, m) \o Rest(buf, m))
      <3>1. \A a, b, c \in Seq(Bytes) : (a \o b) \o c = a \o (b \o c)
        BY ConcatAssociative, SMTT(20)
      <3> QED BY <2>2, <3>1, Zenon
    <2>4. kernel' \o outBuf' = ker \o buf
      BY <1>2, <2>2, <2>3, Zenon
    <2>5. ker \o First(buf, m) \in Seq(Bytes) /\ Len(ker \o First(buf, m)) = Len(ker) + m
      BY <2>2, ConcatProperties, Zenon
    <2>6. kernel' \in Seq(Bytes) /\ Len(kernel') <= KernelSize
      BY <1>2, <2>1, <2>5
    <2>7. outBuf' \in Seq(Bytes) /\ Len(outBuf') <= Len(buf)
      BY <1>0, <1>2, <2>1, <2>2
    <2>8. registered' \in BOOLEAN
      BY <1>2, Zenon DEF OutputOK, WantsWriteEvents
    <2>9. shutdown' \in BOOLEAN /\ cause' \in Causes /\ (shutdown => shutdown')
      <3>1. CASE CloseInternal("empty")
        BY <3>1 DEF CloseInternal, Causes
      <3>2. CASE UNCHANGED <<shutdown, cause>>
        BY <3>2 DEF OutputOK
      <3> QED BY <1>2, <3>1, <3>2
    <2> QED BY <1>0, <2>4, <2>6, <2>7, <2>8, <2>9 DEF OutputOK
  <1>3. CASE buf = <<>> \/ broken
    BY <1>1, <1>3 DEF Flush
  <1>4. CASE buf # <<>> /\ ~broken
    <2>1. PICK m \in SendCounts(Len(buf), ker) :
              outBuf' = Rest(buf, m) /\ kernel' = ker \o First(buf, m)
      BY <1>4 DEF Flush
    <2>2. /\ registered' \in {registered, WantsWriteEvents(outBuf')}
          /\ CloseInternal("empty") \/ UNCHANGED <<shutdown, cause>>
      BY <1>4 DEF Flush
    <2> QED BY <1>2, <1>4, <2>1, <2>2
  <1> QED BY <1>3, <1>4

(* The tail of write() adds all of rest to the end, or none of it and closes *)
(* the connection; either way the buffer stays below its limit.              *)
LEMMA BufferAdds ==
    ASSUME OutputOK, BufferBounded, NEW rest \in Seq(Bytes), NEW ker \in Seq(Bytes),
           Len(ker) <= KernelSize, NEW flushIt \in BOOLEAN, Buffer(rest, ker, flushIt)
    PROVE  /\ OutputOK' /\ BufferBounded'
           /\ \/ kernel' \o outBuf' = ker \o (outBuf \o rest)
              \/ kernel' = ker /\ outBuf' = outBuf /\ shutdown'
  <1>0. /\ outBuf \o rest \in Seq(Bytes) /\ Len(outBuf \o rest) = Len(outBuf) + Len(rest)
        /\ BufferSize \in Nat
    BY SizesAreNaturals DEF OutputOK
  <1>1. CASE TooMuch(rest)
    <2>1. /\ outBuf' = outBuf /\ kernel' = ker /\ shutdown' = TRUE /\ cause' = "overflow"
          /\ registered' = registered /\ unflushed' = unflushed
      BY <1>1 DEF Buffer, CloseInternal
    <2>2. OutputOK'
      BY <2>1 DEF OutputOK, Causes
    <2> QED BY <2>1, <2>2 DEF BufferBounded
  <1>2. CASE ~TooMuch(rest) /\ flushIt
    <2>1. Flush(outBuf \o rest, ker, FALSE, FALSE)
      BY <1>2 DEF Buffer
    <2>2. /\ OutputOK' /\ kernel' \o outBuf' = ker \o (outBuf \o rest)
          /\ Len(outBuf') <= Len(outBuf \o rest)
      BY <1>0, <2>1, FlushMoves
    <2>3. Len(outBuf \o rest) < BufferSize /\ Len(outBuf \o rest) \in Nat
      BY <1>0, <1>2 DEF TooMuch
    <2>4. Len(outBuf') \in Nat
      BY <2>2 DEF OutputOK
    <2>5. BufferBounded'
      BY <1>0, <2>2, <2>3, <2>4 DEF BufferBounded
    <2> QED BY <2>2, <2>5
  <1>3. CASE ~TooMuch(rest) /\ ~flushIt
    <2>1. /\ outBuf' = outBuf \o rest /\ kernel' = ker /\ unflushed' = TRUE
          /\ registered' = registered /\ shutdown' = shutdown /\ cause' = cause
      BY <1>3 DEF Buffer
    <2>2. OutputOK'
      BY <1>0, <2>1 DEF OutputOK
    <2>3. BufferBounded'
      BY <1>0, <1>3, <2>1 DEF BufferBounded, TooMuch
    <2> QED BY <2>1, <2>2, <2>3
  <1> QED BY <1>1, <1>2, <1>3

(* Of data, either everything is added to the end of what was written before *)
(* or a first part of it, and then nothing may follow.                       *)
Adds(data) ==
    \E m \in 0..Len(data) :
        /\ kernel' \o outBuf' = (kernel \o outBuf) \o First(data, m)
        /\ m = Len(data) \/ shutdown'

(* The fast path adds the data to the end, or a part of it and closes.       *)
LEMMA DirectAdds ==
    ASSUME OutputOK, BufferBounded, outBuf = <<>>, NEW data \in Seq(Bytes), data # <<>>,
           SendDirectly(data)
    PROVE  /\ OutputOK' /\ BufferBounded'
           /\ Adds(data)
  <1>0. Len(data) \in Nat /\ Len(data) > 0 /\ kernel \o outBuf = kernel
    BY ConcatEmptySeq DEF OutputOK
  <1>1. CASE broken
    <2>1. /\ outBuf' = outBuf /\ kernel' = kernel /\ shutdown' = TRUE /\ cause' = "error"
          /\ registered' = registered /\ unflushed' = unflushed
      BY <1>1 DEF SendDirectly, CloseInternal
    <2>2. First(data, 0) = <<>> /\ 0 \in 0..Len(data)
      BY <1>0 DEF First
    <2>3. kernel \o <<>> = kernel
      BY ConcatEmptySeq DEF OutputOK
    <2>4. OutputOK' /\ BufferBounded'
      BY <2>1 DEF OutputOK, BufferBounded, Causes
    <2>5. kernel' \o outBuf' = (kernel \o outBuf) \o First(data, 0)
      BY <1>0, <2>1, <2>2, <2>3, Zenon
    <2>6. Adds(data)
      BY <2>1, <2>2, <2>5, Zenon DEF Adds
    <2> QED BY <2>4, <2>6
  <1>2. CASE ~broken
    <2>1. PICK m \in SendCounts(Len(data), kernel) :
             IF m = Len(data)
             THEN /\ kernel' = kernel \o data
                  /\ UNCHANGED <<outBuf, registered, unflushed, shutdown, cause>>
             ELSE Buffer(Rest(data, m), kernel \o First(data, m), TRUE)
      BY <1>2 DEF SendDirectly
    <2>2. m \in 0..Len(data) /\ Len(kernel) + m <= KernelSize
      BY <1>0, SizesAreNaturals DEF SendCounts, OutputOK
    <2>3. /\ First(data, m) \in Seq(Bytes) /\ Rest(data, m) \in Seq(Bytes)
          /\ Len(First(data, m)) = m /\ Len(Rest(data, m)) = Len(data) - m
          /\ First(data, m) \o Rest(data, m) = data
      BY <2>2, Cut
    <2>4. /\ kernel \o First(data, m) \in Seq(Bytes)
          /\ Len(kernel \o First(data, m)) = Len(kernel) + m
      BY <2>3, ConcatProperties, Zenon DEF OutputOK
    <2>5. First(data, Len(data)) = data
      BY SubSeqFull DEF First
    <2>6. CASE m = Len(data)
      <3>1. /\ kernel' = kernel \o data /\ outBuf' = outBuf /\ registered' = registered
            /\ unflushed' = unflushed /\ shutdown' = shutdown /\ cause' = cause
        BY <2>1, <2>6
      <3>2. kernel \o data \in Seq(Bytes) /\ Len(kernel \o data) = Len(kernel) + Len(data)
        BY DEF OutputOK
      <3>3. OutputOK' /\ BufferBounded'
        BY <2>2, <2>6, <3>1, <3>2 DEF OutputOK, BufferBounded
      <3>4. kernel' \o outBuf' = kernel \o data
        BY <3>1, <3>2, ConcatEmptySeq
      <3>5. kernel' \o outBuf' = (kernel \o outBuf) \o First(data, m)
        BY <1>0, <2>5, <2>6, <3>4, Zenon
      <3>6. Adds(data)
        BY <2>2, <2>6, <3>5, Zenon DEF Adds
      <3> QED BY <3>3, <3>6
    <2>7. CASE m # Len(data)
      <3>1. Buffer(Rest(data, m), kernel \o First(data, m), TRUE)
        BY <2>1, <2>7
      <3>2. /\ OutputOK' /\ BufferBounded'
            /\ \/ kernel' \o outBuf' = (kernel \o First(data, m)) \o (outBuf \o Rest(data, m))
               \/ /\ kernel' = kernel \o First(data, m)
                  /\ outBuf' = outBuf /\ shutdown'
        BY <2>2, <2>3, <2>4, <3>1, BufferAdds
      <3>3. outBuf \o Rest(data, m) = Rest(data, m)
        BY <2>3, ConcatEmptySeq
      <3>4. (kernel \o First(data, m)) \o Rest(data, m) = kernel \o data
        <4>1. \A a, b, c \in Seq(Bytes) : (a \o b) \o c = a \o (b \o c)
          BY ConcatAssociative, SMTT(20)
        <4>2. kernel \in Seq(Bytes)
          BY DEF OutputOK
        <4>3. (kernel \o First(data, m)) \o Rest(data, m)
                 = kernel \o (First(data, m) \o Rest(data, m))
          BY <2>3, <4>1, <4>2, Zenon
        <4> QED BY <2>3, <4>3, Zenon
      <3>5. (kernel \o First(data, m)) \o <<>> = kernel \o First(data, m)
        BY <2>4, ConcatEmptySeq
      <3>6. CASE kernel' \o outBuf' = (kernel \o First(data, m)) \o (outBuf \o Rest(data, m))
        <4>1. Len(data) \in 0..Len(data)
          BY <1>0
        <4>2. kernel' \o outBuf' = (kernel \o outBuf) \o First(data, Len(data))
          BY <1>0, <2>5, <3>3, <3>4, <3>6, Zenon
        <4> QED BY <3>2, <4>1, <4>2, Zenon DEF Adds
      <3>7. CASE kernel' = kernel \o First(data, m) /\ outBuf' = outBuf /\ shutdown'
        <4>1. kernel' \o outBuf' = (kernel \o outBuf) \o First(data, m)
          BY <1>0, <3>5, <3>7, Zenon
        <4> QED BY <2>2, <3>2, <3>7, <4>1, Zenon DEF Adds
      <3> QED BY <3>2, <3>6, <3>7, Zenon
    <2> QED BY <2>6, <2>7
  <1> QED BY <1>1, <1>2

(* The slow path, which buffers first.                                       *)
LEMMA BufferedAdds ==
    ASSUME OutputOK, BufferBounded, NEW data \in Seq(Bytes), NEW flushIt \in BOOLEAN,
           Buffer(data, kernel, flushIt)
    PROVE  OutputOK' /\ BufferBounded' /\ Adds(data)
  <1>1. kernel \in Seq(Bytes) /\ outBuf \in Seq(Bytes) /\ Len(kernel) <= KernelSize
    BY DEF OutputOK
  <1>2. /\ OutputOK' /\ BufferBounded'
        /\ \/ kernel' \o outBuf' = kernel \o (outBuf \o data)
           \/ kernel' = kernel /\ outBuf' = outBuf /\ shutdown'
    BY <1>1, BufferAdds
  <1>3. Len(data) \in 0..Len(data) /\ 0 \in 0..Len(data)
    OBVIOUS
  <1>4. First(data, Len(data)) = data /\ First(data, 0) = <<>>
    BY SubSeqFull DEF First
  <1>5. CASE kernel' \o outBuf' = kernel \o (outBuf \o data)
    <2>1. \A a, b, c \in Seq(Bytes) : (a \o b) \o c = a \o (b \o c)
      BY ConcatAssociative, SMTT(20)
    <2>2. (kernel \o outBuf) \o data = kernel \o (outBuf \o data)
      BY <1>1, <2>1, Zenon
    <2>3. kernel' \o outBuf' = (kernel \o outBuf) \o First(data, Len(data))
      BY <1>4, <1>5, <2>2, Zenon
    <2> QED BY <1>2, <1>3, <2>3, Zenon DEF Adds
  <1>6. CASE kernel' = kernel /\ outBuf' = outBuf /\ shutdown'
    <2>1. (kernel \o outBuf) \o <<>> = kernel \o outBuf
      BY <1>1, ConcatEmptySeq
    <2>2. kernel' \o outBuf' = (kernel \o outBuf) \o First(data, 0)
      BY <1>4, <1>6, <2>1, Zenon
    <2> QED BY <1>2, <1>3, <1>6, <2>2, Zenon DEF Adds
  <1> QED BY <1>2, <1>5, <1>6, Zenon

(* A flush() of the buffer keeps it within its limit.                        *)
LEMMA FlushKeepsBound ==
    ASSUME OutputOK, BufferBounded, NEW closing \in BOOLEAN, NEW finishing \in BOOLEAN,
           Flush(outBuf, kernel, closing, finishing)
    PROVE  /\ OutputOK' /\ BufferBounded'
           /\ kernel' \o outBuf' = kernel \o outBuf
           /\ shutdown => shutdown'
  <1>1. kernel \in Seq(Bytes) /\ outBuf \in Seq(Bytes) /\ Len(kernel) <= KernelSize
    BY DEF OutputOK
  <1>2. /\ OutputOK' /\ kernel' \o outBuf' = kernel \o outBuf
        /\ Len(outBuf') <= Len(outBuf) /\ (shutdown => shutdown')
    BY <1>1, FlushMoves
  <1>3. outBuf' \in Seq(Bytes) /\ Len(outBuf') \in Nat
    BY <1>2 DEF OutputOK
  <1>4. BufferBounded'
    <2>1. CASE outBuf = <<>>
      BY <1>2, <1>3, <2>1 DEF BufferBounded
    <2>2. CASE outBuf # <<>>
      BY <1>1, <1>2, <1>3, <2>2, SizesAreNaturals DEF BufferBounded
    <2> QED BY <2>1, <2>2
  <1> QED BY <1>2, <1>4

-----------------------------------------------------------------------------
(* The stream.                                                               *)

(* The stream is what was received followed by what is on its way.           *)
LEMMA StreamParts ==
    ASSUME OutputOK, received \in Seq(Bytes)
    PROVE  /\ Stream \in Seq(Bytes)
           /\ Stream = received \o (kernel \o outBuf)
  <1>1. received \in Seq(Bytes) /\ kernel \in Seq(Bytes) /\ outBuf \in Seq(Bytes)
    BY DEF OutputOK
  <1>2. ASSUME NEW a \in Seq(Bytes), NEW b \in Seq(Bytes), NEW c \in Seq(Bytes)
        PROVE  (a \o b) \o c = a \o (b \o c)
    BY ConcatAssociative, SMTT(20)
  <1>3. ASSUME NEW a \in Seq(Bytes), NEW b \in Seq(Bytes)
        PROVE  a \o b \in Seq(Bytes)
    BY ConcatProperties
  <1>4. Stream = received \o (kernel \o outBuf)
    BY <1>1, <1>2, Zenon DEF Stream
  <1>5. received \o (kernel \o outBuf) \in Seq(Bytes)
    BY <1>1, <1>3, Zenon
  <1> QED BY <1>4, <1>5, Zenon

(* Moving bytes from the buffer to the socket leaves the stream alone.       *)
LEMMA StreamStays ==
    ASSUME OutputOK, OutputOK', received \in Seq(Bytes), received' = received,
           kernel' \o outBuf' = kernel \o outBuf
    PROVE  Stream' = Stream
  <1>1. Stream = received \o (kernel \o outBuf)
    BY StreamParts
  <1>2. Stream' = received' \o (kernel' \o outBuf')
    <2>1. ASSUME NEW a \in Seq(Bytes), NEW b \in Seq(Bytes), NEW c \in Seq(Bytes)
          PROVE  (a \o b) \o c = a \o (b \o c)
      BY ConcatAssociative, SMTT(20)
    <2>2. received' \in Seq(Bytes) /\ kernel' \in Seq(Bytes) /\ outBuf' \in Seq(Bytes)
      BY DEF OutputOK
    <2> QED BY <2>1, <2>2, Zenon DEF Stream
  <1> QED BY <1>1, <1>2, Zenon

(* What write() adds keeps the stream a prefix of what was offered.          *)
LEMMA StreamGrows ==
    ASSUME OutputOK, OutputOK', received \in Seq(Bytes), received' = received,
           offered \in Nat, StreamIsPrefix, ~shutdown, ~closeOnEmpty, open,
           NEW n \in Nat, offered' = offered + n,
           [i \in 1..n |-> offered + i] \in Seq(Bytes),
           Adds([i \in 1..n |-> offered + i])
    PROVE  StreamIsPrefix'
  <1> DEFINE data == [i \in 1..n |-> offered + i]
  <1>1. Len(data) = n /\ data \in Seq(Bytes)
    OBVIOUS
  <1>2. PICK m \in 0..n : /\ kernel' \o outBuf' = (kernel \o outBuf) \o First(data, m)
                          /\ m = n \/ shutdown'
    BY <1>1 DEF Adds
  <1>3. Stream = Numbers(offered)
    BY Zenon DEF StreamIsPrefix, Numbers
  <1>4. Stream = received \o (kernel \o outBuf)
    BY StreamParts
  <1>5. data = NumbersAfter(offered, n)
    BY DEF NumbersAfter
  <1>7. First(data, m) \in Seq(Bytes)
    BY <1>1, Cut
  <1> HIDE DEF data
  <1>8. Stream' = Stream \o First(data, m)
    <2>1. \A a, b, c \in Seq(Bytes) : (a \o b) \o c = a \o (b \o c)
      BY ConcatAssociative, SMTT(20)
    <2>2. /\ received' \in Seq(Bytes) /\ kernel' \in Seq(Bytes) /\ outBuf' \in Seq(Bytes)
          /\ kernel \o outBuf \in Seq(Bytes)
      BY ConcatProperties DEF OutputOK
    <2>3. Stream' = received' \o (kernel' \o outBuf')
      BY <2>1, <2>2, Zenon DEF Stream
    <2>4. received \o ((kernel \o outBuf) \o First(data, m))
             = (received \o (kernel \o outBuf)) \o First(data, m)
      <3> DEFINE k == kernel \o outBuf
                 d == First(data, m)
      <3>1. k \in Seq(Bytes) /\ d \in Seq(Bytes)
        BY <1>7, <2>2, Zenon
      <3> HIDE DEF k, d
      <3>2. received \o (k \o d) = (received \o k) \o d
        BY <2>1, <3>1, Zenon
      <3> QED BY <3>2, Zenon DEF k, d
    <2> QED BY <1>2, <1>4, <2>3, <2>4, Zenon
  <1>9. Stream' = Numbers(offered + m) /\ Len(Stream') = offered + m
    <2>1. Numbers(offered) \o First(NumbersAfter(offered, n), m) = Numbers(offered + m)
      BY NextNumbers, Zenon
    <2>2. Stream' = Numbers(offered + m)
      BY <1>3, <1>5, <1>8, <2>1, Zenon
    <2>3. offered + m \in Nat
      OBVIOUS
    <2> QED BY <2>2, <2>3, NumbersType, Zenon
  <1>10. Len(Stream') = offered' \/ shutdown'
    BY <1>2, <1>9, Zenon
  <1>11. Stream' = [i \in 1..Len(Stream') |-> i]
    BY <1>9, Zenon DEF Numbers
  <1> QED BY <1>10, <1>11, Zenon DEF StreamIsPrefix

-----------------------------------------------------------------------------
(* The actions.                                                              *)

(* What all the invariants together say of a state.                          *)
OutIInv == OutTypeOK /\ BufferBounded /\ StreamIsPrefix

(* Whether epoll_ctl has failed is a Boolean: flush() is the only place that *)
(* asks for a change of subscription.                                        *)
LEMMA EpollFailedType ==
    ASSUME epollFailed \in BOOLEAN, [OutNext]_outvars
    PROVE  epollFailed' \in BOOLEAN
  <1>1. \A buf, ker, closing, finishing :
           Flush(buf, ker, closing, finishing) => epollFailed' \in BOOLEAN
    BY Zenon DEF Flush
  <1>2. \A rest, ker, flushIt : Buffer(rest, ker, flushIt) => epollFailed' \in BOOLEAN
    BY <1>1, Zenon DEF Buffer
  <1>3. \A data : SendDirectly(data) => epollFailed' \in BOOLEAN
    BY <1>2, Zenon DEF SendDirectly
  <1>4. \A n, flushIt : Write(n, flushIt) => epollFailed' \in BOOLEAN
    BY <1>1, <1>2, <1>3, Zenon DEF Write
  <1>5. FlushThenCloseWhenEmpty \/ DataReadyForWrite => epollFailed' \in BOOLEAN
    BY <1>1, Zenon DEF FlushThenCloseWhenEmpty, DataReadyForWrite
  <1>6. \A why : Close(why) \/ Destroy \/ PeerReads \/ PeerResets => epollFailed' = epollFailed
    BY DEF Close, Destroy, PeerReads, PeerResets
  <1>7. UNCHANGED outvars => epollFailed' = epollFailed
    BY DEF outvars
  <1> QED BY <1>4, <1>5, <1>6, <1>7 DEF OutNext

(* write() keeps the invariant.                                              *)
LEMMA WriteStep ==
    ASSUME OutIInv, NEW n \in 0..MaxWrite, NEW flushIt \in BOOLEAN, Write(n, flushIt),
           epollFailed' \in BOOLEAN
    PROVE  OutIInv'
  <1> DEFINE data == [i \in 1..n |-> offered + i]
  <1>1. /\ n \in Nat /\ offered \in Nat /\ offered + n <= MaxBytes /\ MaxBytes \in Nat
        /\ offered' = offered + n /\ open
        /\ UNCHANGED <<closeOnEmpty, open, broken, received, promised>>
    BY SizesAreNaturals DEF Write, OutIInv, OutTypeOK
  <1>2. OutputOK /\ BufferBounded /\ StreamIsPrefix /\ received \in Seq(Bytes)
    BY DEF OutIInv, OutTypeOK, OutputOK, Causes
  <1>3. data \in Seq(Bytes) /\ Len(data) = n
    BY <1>1 DEF Bytes
  <1>4. ASSUME OutputOK', BufferBounded', StreamIsPrefix'
        PROVE  OutIInv'
    <2>1. /\ outBuf' \in Seq(Bytes) /\ kernel' \in Seq(Bytes) /\ Len(kernel') <= KernelSize
          /\ registered' \in BOOLEAN /\ shutdown' \in BOOLEAN /\ unflushed' \in BOOLEAN
          /\ cause' \in Causes
      BY <1>4 DEF OutputOK
    <2>2. /\ received' \in Seq(Bytes) /\ closeOnEmpty' \in BOOLEAN /\ open' = TRUE
          /\ open' \in BOOLEAN /\ broken' \in BOOLEAN
      BY <1>1 DEF OutIInv, OutTypeOK
    <2>3. offered' \in 0..MaxBytes /\ promised' \in 0..offered'
      BY <1>1 DEF OutIInv, OutTypeOK
    <2>4. OutTypeOK'
      BY <2>1, <2>2, <2>3 DEF OutTypeOK, Causes
    <2> QED BY <1>4, <2>4 DEF OutIInv
  <1>5. ASSUME OutputOK', BufferBounded', Adds(data), ~Refused PROVE OutIInv'
    <2>1. StreamIsPrefix'
      BY <1>1, <1>2, <1>3, <1>5, StreamGrows DEF Refused
    <2> QED BY <1>4, <1>5, <2>1
  <1>6. CASE /\ Refused \/ (n = 0 /\ ~flushIt)
             /\ UNCHANGED <<outBuf, kernel, registered, unflushed, shutdown, cause>>
    <2>1. OutputOK' /\ BufferBounded'
      BY <1>2, <1>6 DEF OutputOK, BufferBounded
    <2>2. Stream' = Stream /\ shutdown' = shutdown /\ closeOnEmpty' = closeOnEmpty
      BY <1>1, <1>6 DEF Stream
    <2>3. StreamIsPrefix'
      <3>1. Stream' = [i \in 1..Len(Stream') |-> i]
        BY <1>2, <2>2, Zenon DEF StreamIsPrefix
      <3>2. CASE Refused
        BY <2>2, <3>1, <3>2, Zenon DEF StreamIsPrefix, Refused
      <3>3. CASE n = 0
        <4>1. offered' = offered /\ open' = open
          BY <1>1, <3>3
        <4> QED BY <1>2, <2>2, <3>1, <4>1, Zenon DEF StreamIsPrefix
      <3> QED BY <1>6, <3>2, <3>3
    <2> QED BY <1>4, <2>1, <2>3
  <1>7. CASE ~Refused /\ n = 0 /\ flushIt /\ Flush(outBuf, kernel, FALSE, FALSE)
    <2>1. /\ OutputOK' /\ BufferBounded' /\ kernel' \o outBuf' = kernel \o outBuf
          /\ shutdown => shutdown'
      BY <1>2, <1>7, FlushKeepsBound
    <2>2. Stream' = Stream
      BY <1>1, <1>2, <2>1, StreamStays
    <2>3. offered' = offered
      BY <1>1, <1>7
    <2>4. StreamIsPrefix'
      BY <1>1, <1>2, <2>1, <2>2, <2>3 DEF StreamIsPrefix
    <2> QED BY <1>4, <2>1, <2>4
  <1>8. CASE ~Refused /\ n > 0 /\ FastPath(flushIt) /\ SendDirectly(data)
    <2>1. outBuf = <<>> /\ data # <<>>
      BY <1>3, <1>8 DEF FastPath
    <2>2. OutputOK' /\ BufferBounded' /\ Adds(data)
      BY <1>2, <1>3, <1>8, <2>1, DirectAdds
    <2> QED BY <1>5, <1>8, <2>2
  <1>9. CASE ~Refused /\ n > 0 /\ ~FastPath(flushIt) /\ Buffer(data, kernel, flushIt)
    <2>1. OutputOK' /\ BufferBounded' /\ Adds(data)
      BY <1>2, <1>3, <1>9, BufferedAdds
    <2> QED BY <1>5, <1>9, <2>1
  <1> QED BY <1>6, <1>7, <1>8, <1>9 DEF Write

(* flush() and closeWhenEmpty() keep the invariant.                          *)
LEMMA FlushStep ==
    ASSUME OutIInv, FlushThenCloseWhenEmpty \/ DataReadyForWrite, epollFailed' \in BOOLEAN
    PROVE  OutIInv'
  <1>1. OutputOK /\ BufferBounded /\ StreamIsPrefix /\ received \in Seq(Bytes)
    BY DEF OutIInv, OutTypeOK, OutputOK, Causes
  <1>2. /\ open /\ open' = open /\ broken' = broken /\ offered' = offered
        /\ received' = received /\ promised' \in {promised, offered}
        /\ closeOnEmpty' \in BOOLEAN /\ (closeOnEmpty => closeOnEmpty')
    BY DEF FlushThenCloseWhenEmpty, DataReadyForWrite, OutIInv, OutTypeOK
  <1>3. /\ OutputOK' /\ BufferBounded' /\ kernel' \o outBuf' = kernel \o outBuf
        /\ shutdown => shutdown'
    <2>1. CASE UNCHANGED <<outBuf, kernel, registered, unflushed>> /\ CloseInternal("empty")
      BY <1>1, <2>1 DEF OutputOK, BufferBounded, CloseInternal, Causes
    <2>2. CASE \E finishing \in BOOLEAN : Flush(outBuf, kernel, closeOnEmpty, finishing)
      BY <1>1, <2>2, FlushKeepsBound DEF OutIInv, OutTypeOK
    <2> QED BY <2>1, <2>2 DEF FlushThenCloseWhenEmpty, DataReadyForWrite
  <1>4. Stream' = Stream
    BY <1>1, <1>2, <1>3, StreamStays
  <1>5. StreamIsPrefix'
    BY <1>1, <1>2, <1>3, <1>4 DEF StreamIsPrefix
  <1>6. OutTypeOK'
    <2>1. /\ outBuf' \in Seq(Bytes) /\ kernel' \in Seq(Bytes) /\ Len(kernel') <= KernelSize
          /\ registered' \in BOOLEAN /\ shutdown' \in BOOLEAN /\ unflushed' \in BOOLEAN
          /\ cause' \in Causes
      BY <1>3 DEF OutputOK
    <2>2. /\ received' \in Seq(Bytes) /\ open' = TRUE /\ open' \in BOOLEAN
          /\ broken' \in BOOLEAN
      BY <1>2 DEF OutIInv, OutTypeOK
    <2>3. offered' \in 0..MaxBytes /\ promised' \in 0..offered'
      BY <1>2, SizesAreNaturals DEF OutIInv, OutTypeOK
    <2> QED BY <1>2, <2>1, <2>2, <2>3 DEF OutTypeOK, Causes
  <1> QED BY <1>3, <1>5, <1>6 DEF OutIInv

(* What the peer takes was in the stream, and stays there.                   *)
LEMMA PeerReadsKeepsStream ==
    ASSUME OutIInv, PeerReads
    PROVE  Stream' = Stream
  <1>1. outBuf \in Seq(Bytes) /\ kernel \in Seq(Bytes) /\ received \in Seq(Bytes)
    BY DEF OutIInv, OutTypeOK
  <1>2. PICK m \in 1..Len(kernel) :
           received' = received \o First(kernel, m) /\ kernel' = Rest(kernel, m)
    BY DEF PeerReads
  <1>3. outBuf' = outBuf /\ m \in 0..Len(kernel)
    BY <1>1 DEF PeerReads
  <1>5. /\ First(kernel, m) \in Seq(Bytes) /\ Rest(kernel, m) \in Seq(Bytes)
        /\ First(kernel, m) \o Rest(kernel, m) = kernel
    BY <1>1, <1>3, Cut
  <1>6. Stream' = Stream
    <2>1. \A a, b, c \in Seq(Bytes) : (a \o b) \o c = a \o (b \o c)
      BY ConcatAssociative, SMTT(20)
    <2>2. (received \o First(kernel, m)) \o Rest(kernel, m) = received \o kernel
      <3>1. (received \o First(kernel, m)) \o Rest(kernel, m)
               = received \o (First(kernel, m) \o Rest(kernel, m))
        BY <1>1, <1>5, <2>1, Zenon
      <3> QED BY <1>5, <3>1, Zenon
    <2>3. Stream' = ((received \o First(kernel, m)) \o Rest(kernel, m)) \o outBuf
      BY <1>2, <1>3, Zenon DEF Stream
    <2> QED BY <2>2, <2>3, Zenon DEF Stream
  <1> QED BY <1>6

(* The peer takes from the front of what is on its way.                      *)
LEMMA PeerReadsStep ==
    ASSUME OutIInv, PeerReads
    PROVE  OutIInv'
  <1>1. /\ outBuf \in Seq(Bytes) /\ kernel \in Seq(Bytes) /\ received \in Seq(Bytes)
        /\ Len(kernel) <= KernelSize /\ KernelSize \in Nat
    BY SizesAreNaturals DEF OutIInv, OutTypeOK
  <1>2. PICK m \in 1..Len(kernel) :
           received' = received \o First(kernel, m) /\ kernel' = Rest(kernel, m)
    BY DEF PeerReads
  <1>3. UNCHANGED <<outBuf, registered, closeOnEmpty, shutdown, open, broken,
                    offered, unflushed, epollFailed, cause, promised>>
    BY DEF PeerReads
  <1>4. m \in 0..Len(kernel)
    BY <1>1
  <1>5. /\ First(kernel, m) \in Seq(Bytes) /\ Rest(kernel, m) \in Seq(Bytes)
        /\ Len(Rest(kernel, m)) = Len(kernel) - m
        /\ First(kernel, m) \o Rest(kernel, m) = kernel
    BY <1>1, <1>4, Cut
  <1>6. Stream' = Stream
    BY PeerReadsKeepsStream
  <1>7. received' \in Seq(Bytes)
    <2>1. received \o First(kernel, m) \in Seq(Bytes)
      BY <1>1, <1>5, ConcatProperties, Zenon
    <2> QED BY <1>2, <2>1, Zenon
  <1>8. kernel' \in Seq(Bytes) /\ Len(kernel') <= KernelSize
    BY <1>1, <1>2, <1>4, <1>5
  <1>9. OutTypeOK'
    BY <1>3, <1>7, <1>8 DEF OutIInv, OutTypeOK
  <1>10. BufferBounded'
    BY <1>3 DEF OutIInv, BufferBounded
  <1>11. StreamIsPrefix'
    BY <1>3, <1>6 DEF OutIInv, StreamIsPrefix
  <1> QED BY <1>9, <1>10, <1>11 DEF OutIInv

(* A deleted connection drops the end of its stream.                         *)
LEMMA DestroyStep ==
    ASSUME OutIInv, Destroy
    PROVE  OutIInv'
  <1>1. /\ outBuf \in Seq(Bytes) /\ kernel \in Seq(Bytes) /\ received \in Seq(Bytes)
        /\ outBuf' = <<>> /\ open' = FALSE /\ registered' = FALSE
        /\ UNCHANGED <<kernel, closeOnEmpty, shutdown, broken, offered, received,
                       unflushed, epollFailed, cause, promised>>
    BY DEF OutIInv, OutTypeOK, Destroy
  <1>2. OutTypeOK' /\ BufferBounded'
    <2>1. <<>> \in Seq(Bytes)
      OBVIOUS
    <2>2. /\ outBuf' \in Seq(Bytes) /\ kernel' \in Seq(Bytes) /\ received' \in Seq(Bytes)
          /\ Len(kernel') <= KernelSize
      BY <1>1, <2>1, Zenon DEF OutIInv, OutTypeOK
    <2>3. offered' \in 0..MaxBytes /\ promised' \in 0..offered'
      BY <1>1, Zenon DEF OutIInv, OutTypeOK
    <2>4. /\ registered' \in BOOLEAN /\ closeOnEmpty' \in BOOLEAN /\ shutdown' \in BOOLEAN
          /\ open' \in BOOLEAN /\ broken' \in BOOLEAN /\ unflushed' \in BOOLEAN
          /\ epollFailed' \in BOOLEAN /\ cause' \in Causes
      BY <1>1 DEF OutIInv, OutTypeOK, Causes
    <2>5. OutTypeOK'
      BY <1>1, <2>2, <2>3, <2>4, Zenon DEF OutTypeOK, Causes
    <2> QED BY <1>1, <2>5, Zenon DEF BufferBounded
  <1>3. Stream' = received \o kernel
    <2>1. received \o kernel \in Seq(Bytes)
      BY <1>1, ConcatProperties, Zenon
    <2>2. (received \o kernel) \o <<>> = received \o kernel
      BY <2>1, ConcatEmptySeq
    <2> QED BY <1>1, <2>2, Zenon DEF Stream
  <1>4. received \o kernel = [i \in 1..Len(received \o kernel) |-> i]
    <2> DEFINE a == received \o kernel
               s == a \o outBuf
    <2>1. a \in Seq(Bytes) /\ Len(a) \in Nat
      BY <1>1
    <2>2. s = [i \in 1..Len(s) |-> i]
      BY Zenon DEF OutIInv, StreamIsPrefix, Stream
    <2> HIDE DEF a
    <2>3. /\ Len(s) = Len(a) + Len(outBuf)
          /\ \A i \in 1..Len(a) + Len(outBuf) :
                s[i] = IF i <= Len(a) THEN a[i] ELSE outBuf[i - Len(a)]
      BY <1>1, <2>1, ConcatProperties
    <2> HIDE DEF s
    <2>4. ASSUME NEW i \in 1..Len(a) PROVE a[i] = i
      <3>1. i \in 1..Len(a) + Len(outBuf) /\ i <= Len(a) /\ i \in 1..Len(s)
        BY <1>1, <2>1, <2>3
      <3>2. s[i] = a[i]
        BY <2>3, <3>1
      <3>3. s[i] = i
        BY <2>2, <3>1, Zenon
      <3> QED BY <3>2, <3>3
    <2>5. a = Numbers(Len(a))
      <3>1. /\ Numbers(Len(a)) \in Seq(Nat) /\ Len(Numbers(Len(a))) = Len(a)
            /\ \A i \in 1..Len(a) : Numbers(Len(a))[i] = i
        BY <2>1 DEF Numbers
      <3> QED BY <2>1, <2>4, <3>1, SeqEqual
    <2> QED BY <2>5, Zenon DEF a, Numbers
  <1>5. StreamIsPrefix'
    BY <1>1, <1>3, <1>4, Zenon DEF StreamIsPrefix
  <1> QED BY <1>2, <1>5 DEF OutIInv

-----------------------------------------------------------------------------
(* The theorems.                                                             *)

(* No connection buffers more than clientBufferSize, or mixes up, repeats or *)
(* leaves out a byte, or is in a state of another type.                      *)
THEOREM StreamInvariant == OutSpec => []OutIInv
  <1>1. ASSUME OutInit PROVE OutIInv
    <2>1. OutTypeOK /\ BufferBounded
      <3>1. <<>> \in Seq(Bytes) /\ Len(<<>>) = 0 /\ 0 <= KernelSize /\ 0 \in 0..MaxBytes
            /\ 0 \in 0..0
        BY SizesAreNaturals
      <3>2. /\ outBuf \in Seq(Bytes) /\ kernel \in Seq(Bytes) /\ received \in Seq(Bytes)
            /\ Len(kernel) <= KernelSize
            /\ offered \in 0..MaxBytes /\ promised \in 0..offered
        BY <1>1, <3>1, Zenon DEF OutInit
      <3>3. OutTypeOK
        BY <1>1, <3>2 DEF OutInit, OutTypeOK
      <3> QED BY <1>1, <3>3 DEF OutInit, BufferBounded
    <2>2. Stream = <<>>
      BY <1>1, ConcatEmptySeq DEF OutInit, Stream
    <2>3. StreamIsPrefix
      <3>1. Stream = [i \in 1..Len(Stream) |-> i] /\ Len(Stream) = 0
        BY <2>2
      <3> QED BY <1>1, <3>1 DEF OutInit, StreamIsPrefix
    <2> QED BY <2>1, <2>3 DEF OutIInv
  <1>2. ASSUME OutIInv, [OutNext]_outvars PROVE OutIInv'
    <2>0. epollFailed' \in BOOLEAN
      BY <1>2, EpollFailedType DEF OutIInv, OutTypeOK
    <2>1. CASE \E n \in 0..MaxWrite, flushIt \in BOOLEAN : Write(n, flushIt)
      BY <1>2, <2>0, <2>1, WriteStep
    <2>2. CASE FlushThenCloseWhenEmpty \/ DataReadyForWrite
      BY <1>2, <2>0, <2>2, FlushStep
    <2>3. CASE \E why \in {"user", "remote"} : Close(why)
      <3>1. /\ shutdown' = TRUE /\ cause' \in {"user", "remote"}
            /\ UNCHANGED <<outBuf, kernel, registered, closeOnEmpty, open, broken,
                           offered, received, unflushed, epollFailed, promised>>
        BY <2>3 DEF Close, CloseInternal
      <3>2. OutTypeOK' /\ BufferBounded'
        BY <1>2, <3>1 DEF OutIInv, OutTypeOK, BufferBounded
      <3>3. Stream' = Stream
        BY <3>1 DEF Stream
      <3>4. StreamIsPrefix'
        BY <1>2, <3>1, <3>3, Zenon DEF OutIInv, StreamIsPrefix
      <3> QED BY <3>2, <3>4 DEF OutIInv
    <2>4. CASE Destroy
      BY <1>2, <2>4, DestroyStep
    <2>5. CASE PeerReads
      BY <1>2, <2>5, PeerReadsStep
    <2>6. CASE PeerResets \/ UNCHANGED outvars
      <3>1. /\ broken' \in BOOLEAN
            /\ UNCHANGED <<outBuf, kernel, registered, closeOnEmpty, shutdown, open,
                           offered, received, unflushed, epollFailed, cause, promised>>
        BY <1>2, <2>6 DEF PeerResets, outvars, OutIInv, OutTypeOK
      <3>2. OutTypeOK' /\ BufferBounded'
        BY <1>2, <3>1 DEF OutIInv, OutTypeOK, BufferBounded
      <3>3. Stream' = Stream
        BY <3>1 DEF Stream
      <3>4. StreamIsPrefix'
        BY <1>2, <3>1, <3>3, Zenon DEF OutIInv, StreamIsPrefix
      <3> QED BY <3>2, <3>4 DEF OutIInv
    <2> QED BY <1>2, <2>1, <2>2, <2>3, <2>4, <2>5, <2>6 DEF OutNext
  <1> QED BY <1>1, <1>2, PTL DEF OutSpec

(* The sender's variables keep their types, whatever the socket takes.       *)
THEOREM BufferTypeCorrect == OutSpec => []OutTypeOK
  <1>1. OutIInv => OutTypeOK
    BY DEF OutIInv
  <1> QED BY <1>1, StreamInvariant, PTL

(* However slowly the peer reads, _outBuf stays below clientBufferSize.      *)
THEOREM MemoryIsBounded == OutSpec => []BufferBounded
  <1>1. OutIInv => BufferBounded
    BY DEF OutIInv
  <1> QED BY <1>1, StreamInvariant, PTL

(* What the peer reads, then what the socket and _outBuf hold, is what the   *)
(* application wrote: in order, once, and with nothing left out.             *)
THEOREM PeerSeesAPrefix == OutSpec => []StreamIsPrefix
  <1>1. OutIInv => StreamIsPrefix
    BY DEF OutIInv
  <1> QED BY <1>1, StreamInvariant, PTL

-----------------------------------------------------------------------------
(* Closing when empty.                                                       *)

(* Once closeWhenEmpty() was called the stream is as long as it was then,    *)
(* whether it still waits for the buffer to empty or has closed.             *)
Delivery ==
    /\ closeOnEmpty /\ ~shutdown /\ open => Len(Stream) = promised
    /\ cause = "empty" => shutdown /\ outBuf = <<>> /\ Len(Stream) = promised

(* flush() closes for want of bytes only with nothing left in the buffer,    *)
(* and only when closeWhenEmpty() was called or comes next.                  *)
LEMMA FlushCause ==
    ASSUME NEW buf, NEW ker, NEW closing \in BOOLEAN, NEW finishing \in BOOLEAN,
           Flush(buf, ker, closing, finishing), cause' = "empty"
    PROVE  \/ cause = "empty" /\ buf = <<>> /\ outBuf' = buf /\ shutdown' = shutdown
           \/ cause = "empty" /\ buf # <<>>
           \/ outBuf' = <<>> /\ shutdown' /\ (closing \/ finishing)
  BY Zenon DEF Flush, CloseInternal, ClosesNow

(* A write() never closes for want of bytes.                                 *)
LEMMA WriteCause ==
    ASSUME NEW n \in Nat, NEW flushIt \in BOOLEAN, Write(n, flushIt), cause # "empty"
    PROVE  cause' # "empty"
  <1>1. \A buf, ker : Flush(buf, ker, FALSE, FALSE) => cause' # "empty"
    BY DEF Flush, CloseInternal, ClosesNow
  <1>2. \A rest, ker, f : Buffer(rest, ker, f) => cause' # "empty"
    BY <1>1 DEF Buffer, CloseInternal
  <1>3. \A data : SendDirectly(data) => cause' # "empty"
    BY <1>2 DEF SendDirectly, CloseInternal
  <1> QED BY <1>1, <1>2, <1>3 DEF Write

(* The stream keeps its length from closeWhenEmpty() to the close.           *)
LEMMA DeliveryStep ==
    ASSUME OutIInv, Delivery, [OutNext]_outvars, OutIInv'
    PROVE  Delivery'
  <1>0. /\ OutputOK /\ OutputOK' /\ BufferBounded /\ received \in Seq(Bytes)
        /\ closeOnEmpty \in BOOLEAN /\ shutdown \in BOOLEAN
    BY DEF OutIInv, OutTypeOK, OutputOK, Causes
  <1>1. ASSUME NEW n \in 0..MaxWrite, NEW flushIt \in BOOLEAN, Write(n, flushIt)
        PROVE  Delivery'
    <2>1. n \in Nat
      BY SizesAreNaturals
    <2>2. closeOnEmpty' = closeOnEmpty /\ open' = open /\ promised' = promised
             /\ received' = received
      BY <1>1 DEF Write
    <2>3. CASE Refused
      <3>1. UNCHANGED <<outBuf, kernel, shutdown, cause>>
        BY <1>1, <2>3 DEF Write
      <3>2. Stream' = Stream
        BY <2>2, <3>1 DEF Stream
      <3> QED BY <2>2, <3>1, <3>2, Zenon DEF Delivery
    <2>4. CASE ~Refused
      <3>1. cause # "empty" /\ ~closeOnEmpty'
        BY <2>2, <2>4 DEF Refused, Delivery
      <3>2. cause' # "empty"
        BY <1>1, <2>1, <3>1, WriteCause
      <3> QED BY <3>1, <3>2 DEF Delivery
    <2> QED BY <2>3, <2>4
  <1>2. CASE FlushThenCloseWhenEmpty \/ DataReadyForWrite
    <2>1. /\ open /\ ~shutdown /\ open' = open /\ offered' = offered /\ received' = received
          /\ cause # "empty"
      BY <1>2 DEF FlushThenCloseWhenEmpty, DataReadyForWrite, Delivery
    <2>2. \/ UNCHANGED <<outBuf, kernel>> /\ CloseInternal("empty") /\ outBuf = <<>>
          \/ \E finishing \in BOOLEAN : /\ Flush(outBuf, kernel, closeOnEmpty, finishing)
                                        /\ finishing \/ DataReadyForWrite
      BY <1>2 DEF FlushThenCloseWhenEmpty, DataReadyForWrite
    <2>3. kernel' \o outBuf' = kernel \o outBuf
      BY <1>0, <2>2, FlushKeepsBound
    <2>4. Stream' = Stream
      BY <1>0, <2>1, <2>3, StreamStays
    <2>5. cause' = "empty" =>
             /\ shutdown' /\ outBuf' = <<>>
             /\ closeOnEmpty \/ FlushThenCloseWhenEmpty
      <3>1. CASE CloseInternal("empty") /\ UNCHANGED outBuf /\ outBuf = <<>>
        <4>1. shutdown' /\ outBuf' = <<>>
          BY <3>1 DEF CloseInternal
        <4>2. DataReadyForWrite => cause' # "empty" \/ closeOnEmpty
          <5>1. DataReadyForWrite => Flush(outBuf, kernel, closeOnEmpty, FALSE)
            BY DEF DataReadyForWrite
          <5> QED BY <1>0, <2>1, <5>1, FlushCause, Zenon
        <4> QED BY <1>2, <4>1, <4>2
      <3>2. ASSUME NEW finishing \in BOOLEAN, Flush(outBuf, kernel, closeOnEmpty, finishing),
                   cause' = "empty"
            PROVE  shutdown' /\ outBuf' = <<>> /\ (closeOnEmpty \/ finishing)
        BY <1>0, <2>1, <3>2, FlushCause, Zenon
      <3>3. DataReadyForWrite => Flush(outBuf, kernel, closeOnEmpty, FALSE)
        BY DEF DataReadyForWrite
      <3> QED BY <1>2, <2>2, <3>1, <3>2, <3>3, Zenon
    <2>6. closeOnEmpty \/ FlushThenCloseWhenEmpty => Len(Stream) = promised'
      <3>1. CASE closeOnEmpty
        <4>1. Len(Stream) = promised
          BY <2>1, <3>1 DEF Delivery
        <4>2. promised' = promised
          BY <1>2, <3>1 DEF FlushThenCloseWhenEmpty, DataReadyForWrite
        <4> QED BY <4>1, <4>2
      <3>2. CASE ~closeOnEmpty /\ FlushThenCloseWhenEmpty
        <4>1. Len(Stream) = offered
          BY <2>1, <3>2 DEF OutIInv, StreamIsPrefix
        <4>2. promised' = offered
          BY <3>2 DEF FlushThenCloseWhenEmpty
        <4> QED BY <4>1, <4>2
      <3> QED BY <3>1, <3>2
    <2>7. closeOnEmpty' => closeOnEmpty \/ FlushThenCloseWhenEmpty
      BY <1>2 DEF DataReadyForWrite
    <2> QED BY <2>4, <2>5, <2>6, <2>7, Zenon DEF Delivery
  <1>3. ASSUME NEW why \in {"user", "remote"}, Close(why) PROVE Delivery'
    BY <1>3 DEF Close, CloseInternal, Delivery
  <1>4. CASE Destroy
    <2>1. /\ open' = FALSE /\ outBuf' = <<>>
          /\ UNCHANGED <<kernel, shutdown, received, cause, promised>>
      BY <1>4 DEF Destroy
    <2>2. outBuf = <<>> => Stream' = Stream
      BY <2>1 DEF Stream
    <2> QED BY <2>1, <2>2, Zenon DEF Delivery
  <1>5. CASE PeerReads
    <2>1. UNCHANGED <<outBuf, closeOnEmpty, shutdown, open, cause, promised>>
      BY <1>5 DEF PeerReads
    <2>2. Stream' = Stream
      BY <1>5, PeerReadsKeepsStream
    <2> QED BY <2>1, <2>2, Zenon DEF Delivery
  <1>6. CASE PeerResets \/ UNCHANGED outvars
    <2>1. UNCHANGED <<outBuf, kernel, received, closeOnEmpty, shutdown, open, cause, promised>>
      BY <1>6 DEF PeerResets, outvars
    <2>2. Stream' = Stream
      BY <2>1 DEF Stream
    <2> QED BY <2>1, <2>2, Zenon DEF Delivery
  <1> QED BY <1>1, <1>2, <1>3, <1>4, <1>5, <1>6 DEF OutNext

(* When closeWhenEmpty() closes the connection, what was written before it   *)
(* is with the peer or in the socket: finish(false) and sendError() lose     *)
(* nothing, however send() cuts it and whatever is written after them.       *)
THEOREM NothingIsCutOff == OutSpec => []CloseWhenEmptyDelivers
  <1>1. OutInit => Delivery
    BY DEF OutInit, Delivery
  <1>2. OutIInv /\ OutIInv' /\ Delivery /\ [OutNext]_outvars => Delivery'
    BY DeliveryStep
  <1>3. OutIInv /\ Delivery => CloseWhenEmptyDelivers
    <2> SUFFICES ASSUME OutIInv, Delivery, cause = "empty"
                 PROVE  Len(received) + Len(kernel) = promised
      BY DEF CloseWhenEmptyDelivers
    <2>1. received \in Seq(Bytes) /\ kernel \in Seq(Bytes)
      BY DEF OutIInv, OutTypeOK
    <2>2. received \o kernel \in Seq(Bytes)
             /\ Len(received \o kernel) = Len(received) + Len(kernel)
      BY <2>1, ConcatProperties, Zenon
    <2>3. (received \o kernel) \o <<>> = received \o kernel
      BY <2>2, ConcatEmptySeq
    <2>4. Len(Stream) = promised /\ Stream = (received \o kernel) \o <<>>
      BY Zenon DEF Delivery, Stream
    <2> QED BY <2>2, <2>3, <2>4, Zenon
  <1> QED BY <1>1, <1>2, <1>3, StreamInvariant, PTL DEF OutSpec

-----------------------------------------------------------------------------
(* Listening: the numbers of descriptors.                                    *)

(* There is always a lowest number that is free, so a new descriptor is a    *)
(* number that no open one has, and none of the names of "no descriptor".    *)
LEMMA NewFdIsFree ==
    ASSUME IsFiniteSet(openFds)
    PROVE  NewFd \in Nat \ {0} /\ NewFd \notin openFds
  <1> DEFINE n == Cardinality(openFds)
             S == (1..n + 1) \ openFds
  <1>1. n \in Nat
    BY FS_CardinalityType
  <1>2. S # {}
    <2> SUFFICES ASSUME 1..n + 1 \subseteq openFds PROVE FALSE
      OBVIOUS
    <2>1. Cardinality(1..n + 1) = n + 1
      BY <1>1, FS_Interval
    <2>2. Cardinality(1..n + 1) <= n
      BY FS_Subset
    <2> QED BY <1>1, <2>1, <2>2
  <1>3. PICK fd \in S : \A m \in S : fd <= m
    <2>1. S \in SUBSET Nat
      BY <1>1
    <2> HIDE DEF S
    <2> QED BY <1>2, <2>1, LeastNumber
  <1>4. \A lower \in 1..fd - 1 : lower \in openFds
    BY <1>1, <1>3
  <1>5. \E f \in 1..n + 1 : f \notin openFds /\ \A lower \in 1..f - 1 : lower \in openFds
    BY <1>3, <1>4
  <1>6. NewFd \in 1..n + 1 /\ NewFd \notin openFds
    BY <1>5 DEF NewFd
  <1> QED BY <1>1, <1>6

-----------------------------------------------------------------------------
(* The invariant.                                                            *)

ListeningTypeOK ==
    /\ server \in {"none", "up", "destroyed"} /\ accepting \in BOOLEAN
    /\ epollFd \in Nat \cup {-1} /\ eventFd \in Nat \cup {-1} /\ listenSock \in Nat \cup {-1}
    /\ IsFiniteSet(openFds) /\ openFds \subseteq Nat

Held == {listenSock, epollFd, eventFd} \ {-1}

(* No descriptor serves two purposes, so that none is closed for another,    *)
(* and what is open has a name in the Server unless it was replaced.         *)
OnePurposeEach ==
    /\ server = "none" => ListeningInit
    /\ server = "up" =>
          /\ listenSock # -1 => listenSock # epollFd /\ listenSock # eventFd
          /\ eventFd # -1 => eventFd # epollFd
          /\ openFds \subseteq replaced \cup Held

ListeningIInv == ListeningTypeOK /\ OnePurposeEach /\ DescriptorsAreKept

(* Whichever of the system calls of listening fails.                         *)
LEMMA ListenStep ==
    ASSUME ListeningIInv, server = "up", NEW steps \in 0..SystemCalls, Listen(steps)
    PROVE  ListeningIInv'
  <1> DEFINE fd == NewFd
  <1>1. fd \in Nat \ {0} /\ fd \notin openFds
    BY NewFdIsFree DEF ListeningIInv, ListeningTypeOK
  <1>2. /\ listenSock' = IF steps >= 1 THEN fd ELSE -1
        /\ openFds' = openFds \cup (IF steps >= 1 THEN {fd} ELSE {})
        /\ polled' = polled \cup (IF steps >= SystemCalls THEN {fd} ELSE {})
        /\ accepting' = (steps >= SystemCalls)
        /\ replaced' = replaced \cup ({listenSock} \ {-1})
        /\ UNCHANGED <<server, epollFd, eventFd>>
    BY DEF Listen
  <1> HIDE DEF fd
  <1>3. steps >= SystemCalls => steps >= 1
    BY DEF SystemCalls
  <1>4. ListeningTypeOK'
    <2>1. IsFiniteSet(openFds')
      BY <1>2, FS_AddElement DEF ListeningIInv, ListeningTypeOK
    <2>2. accepting' \in BOOLEAN
      BY <1>2
    <2> QED BY <1>1, <1>2, <2>1, <2>2 DEF ListeningIInv, ListeningTypeOK
  <1>5. OnePurposeEach'
    BY <1>1, <1>2 DEF ListeningIInv, ListeningTypeOK, OnePurposeEach, DescriptorsAreKept, Held
  <1>6. DescriptorsAreKept'
    BY <1>1, <1>2, <1>3 DEF ListeningIInv, DescriptorsAreKept
  <1> QED BY <1>4, <1>5, <1>6 DEF ListeningIInv

-----------------------------------------------------------------------------
(* Theorems.                                                                 *)

(* The descriptors of a Server are in order, through any sequence of calls   *)
(* of startListening(), startListeningUnix() and shutdown() of which any     *)
(* system call may fail: a server that says it listens does, the epoll has   *)
(* nothing that is closed, and ~Server() closes all but replaced sockets.    *)
THEOREM DescriptorsStayKept == ListeningSpec => []DescriptorsAreKept
  <1>1. ListeningInit => ListeningIInv
    BY FS_EmptySet DEF ListeningInit, ListeningIInv, ListeningTypeOK, OnePurposeEach,
                       DescriptorsAreKept
  <1>2. ListeningIInv /\ [ListeningNext]_lsvars => ListeningIInv'
    <2> SUFFICES ASSUME ListeningIInv, [ListeningNext]_lsvars PROVE ListeningIInv'
      OBVIOUS
    <2>1. ASSUME NEW steps \in 0..3, Construct(steps) PROVE ListeningIInv'
      <3>1. ListeningInit
        BY <2>1 DEF ListeningIInv, OnePurposeEach, Construct
      <3>2. IsFiniteSet(openFds')
        BY <2>1, FS_EmptySet, FS_AddElement, FS_Subset DEF Construct
      <3>3. /\ server' = "up" /\ listenSock' = -1 /\ accepting' = FALSE /\ replaced' = {}
            /\ epollFd' \in {-1, 1} /\ eventFd' \in {-1, 2}
            /\ openFds' = {epollFd', eventFd'} \ {-1}
            /\ polled' \subseteq {eventFd'} \ {-1}
        <4>1. CASE steps = 0
          BY <2>1, <3>1, <4>1 DEF Construct, ListeningInit
        <4>2. CASE steps = 1
          BY <2>1, <3>1, <4>2 DEF Construct, ListeningInit
        <4>3. CASE steps = 2
          BY <2>1, <3>1, <4>3 DEF Construct, ListeningInit
        <4>4. CASE steps = 3
          BY <2>1, <3>1, <4>4 DEF Construct, ListeningInit
        <4>5. steps \in {0, 1, 2, 3}
          OBVIOUS
        <4> QED BY <4>1, <4>2, <4>3, <4>4, <4>5
      <3>4. ListeningTypeOK'
        <4>1. openFds' \subseteq Nat
          BY <3>3
        <4>2. /\ epollFd' \in Nat \cup {-1} /\ eventFd' \in Nat \cup {-1}
              /\ listenSock' \in Nat \cup {-1}
          BY <3>3
        <4> QED BY <3>2, <3>3, <4>1, <4>2 DEF ListeningTypeOK
      <3>5. DescriptorsAreKept'
        BY <3>3 DEF DescriptorsAreKept
      <3>6. OnePurposeEach'
        BY <3>3 DEF OnePurposeEach, Held
      <3> QED BY <3>4, <3>5, <3>6 DEF ListeningIInv
    <2>2. CASE server = "up" /\ Refuse
      BY <2>2 DEF Refuse, ListeningIInv, ListeningTypeOK, OnePurposeEach, Held,
                  DescriptorsAreKept
    <2>3. ASSUME NEW port \in PortNumbers, NEW steps \in 0..SystemCalls,
                 StartListening(port, steps)
          PROVE  ListeningIInv'
      BY <2>2, <2>3, ListenStep DEF StartListening
    <2>4. ASSUME NEW steps \in 0..SystemCalls, StartListeningUnix(steps)
          PROVE  ListeningIInv'
      BY <2>4, ListenStep DEF StartListeningUnix
    <2>5. CASE StopListening
      <3>1. IsFiniteSet(openFds')
        BY <2>5, FS_RemoveElement DEF StopListening, ListeningIInv, ListeningTypeOK
      <3> QED BY <2>5, <3>1 DEF StopListening, ListeningIInv, ListeningTypeOK, OnePurposeEach,
                                Held, DescriptorsAreKept
    <2>6. CASE DestroyServer
      <3>1. IsFiniteSet(openFds')
        BY <2>6, FS_Difference DEF DestroyServer, ListeningIInv, ListeningTypeOK
      <3> QED BY <2>6, <3>1 DEF DestroyServer, ListeningIInv, ListeningTypeOK, OnePurposeEach,
                                Held, DescriptorsAreKept
    <2>7. CASE UNCHANGED lsvars
      BY <2>7 DEF lsvars, ListeningIInv, ListeningTypeOK, OnePurposeEach, Held,
                  DescriptorsAreKept, ListeningInit
    <2> QED BY <2>1, <2>3, <2>4, <2>5, <2>6, <2>7 DEF ListeningNext
  <1>3. ListeningIInv => DescriptorsAreKept
    BY DEF ListeningIInv
  <1> QED BY <1>1, <1>2, <1>3, PTL DEF ListeningSpec

-----------------------------------------------------------------------------
(* StaticRanges: its operators.                                              *)

Spans == [start : Int, end : Int]

TotalRun(s, run) ==
    /\ run[0] = 0 /\ run[Len(s)] = TotalLength(s)
    /\ \A k \in 1..Len(s) : run[k] = run[k - 1] + Length(s[k])

(* The loop that adds up contentLength goes through the ranges in order.     *)
LEMMA TotalRuns ==
    ASSUME NEW s \in Seq(Spans)
    PROVE  \E run : TotalRun(s, run)
  <1> DEFINE n == Len(s)
             F == [x \in Int \X Spans |-> x[1] + Length(x[2])]
  <1>1. n \in Nat /\ s \in [1..n -> Spans] /\ 0 \in Int
    OBVIOUS
  <1>2. F \in [Int \X Spans -> Int]
    BY DEF Spans, Length
  <1>3. \A x \in Int, r \in Spans : F[<<x, r>>] = x + Length(r)
    OBVIOUS
  <1> HIDE DEF n, F
  <1>4. PICK f : IsFold(f, Int, F, 0, s, n)
    BY <1>1, <1>2, FoldExists
  <1> DEFINE G == CHOOSE g : g = [t \in SUBSET (DOMAIN s) |->
                        IF t = {} THEN 0 ELSE g[t \ {Max(t)}] + Length(s[Max(t)])]
  <1>5. \E g : g = [t \in SUBSET (DOMAIN s) |->
                        IF t = {} THEN 0 ELSE g[t \ {Max(t)}] + Length(s[Max(t)])]
    <2>1. ASSUME NEW t \in SUBSET (1..n), t # {}
          PROVE  f[t] = f[t \ {Max(t)}] + Length(s[Max(t)])
      <3>1. Max(t) \in t
        BY <1>1, <2>1, MaxIsIn
      <3>2. f[t \ {Max(t)}] \in Int /\ s[Max(t)] \in Spans
        BY <1>1, <1>4, <3>1 DEF IsFold
      <3> QED BY <1>3, <1>4, <2>1, <3>2 DEF IsFold
    <2>2. f = [t \in SUBSET (1..n) |->
                   IF t = {} THEN 0 ELSE f[t \ {Max(t)}] + Length(s[Max(t)])]
      BY <1>4, <2>1 DEF IsFold
    <2> QED BY <1>1, <2>2
  <1>6. G = [t \in SUBSET (DOMAIN s) |->
                  IF t = {} THEN 0 ELSE G[t \ {Max(t)}] + Length(s[Max(t)])]
    BY <1>5, Zenon
  <1>7. TotalLength(s) = G[1..n]
    BY <1>1 DEF TotalLength, FoldLeft, MapThenFoldSet
  <1> HIDE DEF G
  <1> DEFINE run == [k \in 0..n |-> G[1..k]]
  <1>8. run[0] = 0 /\ run[n] = TotalLength(s)
    <2>1. 1..0 = {} /\ {} \in SUBSET (DOMAIN s) /\ n \in 0..n
      BY <1>1
    <2>2. G[{}] = 0
      BY <1>6, <2>1
    <2> QED BY <1>1, <1>7, <2>1, <2>2
  <1>9. ASSUME NEW k \in 1..n PROVE run[k] = run[k - 1] + Length(s[k])
    <2>1. 1..k \in SUBSET (1..n) /\ 1..k # {} /\ k \in Nat /\ k >= 1
      <3>1. k \in Nat /\ k >= 1 /\ k <= n /\ k \in 1..k
        BY <1>1
      <3>2. \A j \in 1..k : j \in 1..n
        BY <1>1, <3>1
      <3> QED BY <3>1, <3>2
    <2>2. Max(1..k) = k
      BY <2>1, MaxOfInterval
    <2>3. (1..k) \ {k} = 1..k - 1
      BY <2>1
    <2>4. G[1..k] = G[(1..k) \ {Max(1..k)}] + Length(s[Max(1..k)])
      BY <1>1, <1>6, <2>1
    <2>5. run[k] = G[1..k] /\ run[k - 1] = G[1..k - 1]
      BY <1>1
    <2> QED BY <2>2, <2>3, <2>4, <2>5
  <1> HIDE DEF run
  <1> QED BY <1>8, <1>9 DEF TotalRun, n

(* One range more is that much more to send.                                 *)
LEMMA TotalAppend ==
    ASSUME NEW s \in Seq(Spans), NEW r \in Spans
    PROVE  /\ TotalLength(<<>>) = 0 /\ TotalLength(s) \in Int
           /\ TotalLength(Append(s, r)) = TotalLength(s) + Length(r)
  <1> DEFINE more == Append(s, r)
             n == Len(s)
  <1>1. more \in Seq(Spans) /\ n \in Nat /\ Len(more) = n + 1 /\ more[n + 1] = r
    OBVIOUS
  <1>2. \A k \in 1..n : more[k] = s[k]
    OBVIOUS
  <1>3. \A k \in 1..n : Length(s[k]) \in Int
    <2>1. \A x \in Spans : Length(x) \in Int
      BY DEF Spans, Length
    <2> QED BY <2>1
  <1>4. PICK f : TotalRun(s, f)
    BY TotalRuns
  <1>5. PICK g : TotalRun(more, g)
    <2> HIDE DEF more
    <2> QED BY <1>1, TotalRuns
  <1>6. PICK e : TotalRun(<<>>, e)
    <2>1. <<>> \in Seq(Spans)
      OBVIOUS
    <2> QED BY <2>1, TotalRuns
  <1> HIDE DEF more, n
  <1>7. \A k \in 0..n : g[k] = f[k] /\ f[k] \in Int
    <2> DEFINE K == {k \in 0..n : g[k] = f[k] /\ f[k] \in Int}
    <2>1. 0 \in K
      BY <1>1, <1>4, <1>5 DEF TotalRun
    <2>2. ASSUME NEW k \in 1..n, k - 1 \in K PROVE k \in K
      <3>1. k \in 1..Len(s) /\ k \in 1..Len(more) /\ k \in 0..n
        BY <1>1 DEF n
      <3>2. f[k] = f[k - 1] + Length(s[k]) /\ g[k] = g[k - 1] + Length(more[k])
        BY <1>4, <1>5, <3>1 DEF TotalRun
      <3> QED BY <1>2, <1>3, <2>2, <3>1, <3>2
    <2> HIDE DEF K
    <2>3. \A k \in 0..n : k \in K
      BY <1>1, <2>1, <2>2, RunInduction
    <2> QED BY <2>3 DEF K
  <1>8. g[n + 1] = g[n] + Length(r)
    <2>1. n + 1 \in 1..Len(more) /\ n + 1 - 1 = n
      BY <1>1
    <2> QED BY <1>1, <1>5, <2>1 DEF TotalRun
  <1>9. n \in 0..n
    BY <1>1
  <1>10. TotalLength(s) = f[n] /\ TotalLength(more) = g[n + 1]
    BY <1>1, <1>4, <1>5 DEF TotalRun, n
  <1>11. TotalLength(<<>>) = 0
    <2>1. Len(<<>>) = 0
      OBVIOUS
    <2> QED BY <1>6, <2>1 DEF TotalRun
  <1> QED BY <1>7, <1>8, <1>9, <1>10, <1>11 DEF more

(* The numbers from a to b in ascending order.                               *)
LEMMA AscendingSpan ==
    ASSUME NEW a \in Int, NEW b \in Int, a <= b + 1
    PROVE  Ascending(a..b) = [i \in 1..b - a + 1 |-> a + i - 1]
  <1> DEFINE S == a..b
  <1>1. Cardinality(S) = b - a + 1
    <2>1. CASE a <= b
      BY <2>1, FS_Interval
    <2>2. CASE a = b + 1
      <3>1. S = {}
        BY <2>2
      <3> QED BY <2>2, <3>1, FS_EmptySet
    <2> QED BY <2>1, <2>2
  <1>2. \A p \in S : Cardinality({q \in S : q <= p}) = p - a + 1
    <2> SUFFICES ASSUME NEW p \in S PROVE Cardinality({q \in S : q <= p}) = p - a + 1
      OBVIOUS
    <2>1. {q \in S : q <= p} = a..p
      OBVIOUS
    <2>2. p \in Int /\ a <= p
      OBVIOUS
    <2>3. Cardinality(a..p) = p - a + 1
      BY <2>2, FS_Interval
    <2> QED BY <2>1, <2>3
  <1>3. ASSUME NEW i \in 1..b - a + 1
        PROVE  (CHOOSE p \in S : Cardinality({q \in S : q <= p}) = i) = a + i - 1
    <2>1. a + i - 1 \in S /\ a + i - 1 - a + 1 = i
      OBVIOUS
    <2>2. \A p \in S : p - a + 1 = i => p = a + i - 1
      OBVIOUS
    <2> HIDE DEF S
    <2>3. Cardinality({q \in S : q <= a + i - 1}) = i
      BY <1>2, <2>1
    <2> DEFINE c == CHOOSE p \in S : Cardinality({q \in S : q <= p}) = i
    <2>4. c \in S /\ Cardinality({q \in S : q <= c}) = i
      BY <2>1, <2>3, Zenon
    <2> HIDE DEF c
    <2>5. c = a + i - 1
      BY <1>2, <2>2, <2>4
    <2> QED BY <2>5 DEF c
  <1> QED BY <1>1, <1>3 DEF Ascending

(* The positions of a range, and the first m of them.                        *)
Piece(a, m) == [i \in 1..m |-> a + i - 1]
Positions(r) == Piece(r.start, Length(r))

(* What was read and what is read next are one piece.                        *)
LEMMA PiecesJoin ==
    ASSUME NEW a \in Int, NEW m \in Nat, NEW n \in Nat
    PROVE  /\ Piece(a, m) \in Seq(Int) /\ Len(Piece(a, m)) = m
           /\ Piece(a, m) \o Piece(a + m, n) = Piece(a, m + n)
  <1>1. \A c \in Int, k \in Nat : /\ Piece(c, k) \in Seq(Int) /\ Len(Piece(c, k)) = k
                                  /\ \A i \in 1..k : Piece(c, k)[i] = c + i - 1
    BY DEF Piece
  <1> DEFINE x == Piece(a, m)
             y == Piece(a + m, n)
             z == Piece(a, m + n)
  <1>2. /\ x \in Seq(Int) /\ Len(x) = m /\ \A i \in 1..m : x[i] = a + i - 1
        /\ y \in Seq(Int) /\ Len(y) = n /\ \A i \in 1..n : y[i] = a + m + i - 1
        /\ z \in Seq(Int) /\ Len(z) = m + n /\ \A i \in 1..m + n : z[i] = a + i - 1
    BY <1>1
  <1> HIDE DEF x, y, z
  <1>3. /\ x \o y \in Seq(Int) /\ Len(x \o y) = m + n
        /\ \A i \in 1..m + n : (x \o y)[i] = IF i <= m THEN x[i] ELSE y[i - m]
    <2>1. x \in Seq(Int) /\ Len(x) = m /\ y \in Seq(Int) /\ Len(y) = n
      BY <1>2
    <2> QED BY <2>1, ConcatProperties
  <1>4. ASSUME NEW i \in 1..m + n PROVE (x \o y)[i] = z[i]
    <2>1. CASE i <= m
      BY <1>2, <1>3, <2>1
    <2>2. CASE i > m
      <3>1. i - m \in 1..n /\ a + m + (i - m) - 1 = a + i - 1
        BY <2>2
      <3> QED BY <1>2, <1>3, <2>2, <3>1
    <2>3. i <= m \/ i > m
      OBVIOUS
    <2> QED BY <2>1, <2>2, <2>3
  <1>5. x \o y = z
    BY <1>2, <1>3, <1>4, SeqEqual
  <1> QED BY <1>2, <1>5 DEF x, y, z

(* The greatest value of a long is a number.                               *)
LEMMA LongMaxType ==
    LongMax \in Nat
  BY SMT DEF LongMax

(* A range that asks for something in the file becomes the span it asks for. *)
LEMMA ClampWithin ==
    ASSUME NEW r \in AskedRanges, NEW n \in 0..LongMax - 1, Within(r, n)
    PROVE  LET c == Clamp(ParseRange(r), n) IN
           /\ c \in Spans /\ 0 <= c.start /\ c.start <= c.end + 1 /\ c.end < n
           /\ Wanted(r, n) = c.start..c.end
  <1>1. /\ r.form \in Forms /\ r.a \in Nat /\ r.b \in Nat /\ n \in Nat /\ n < LongMax
        /\ r.form = "a-b" => r.a <= r.b
    BY LongMaxType DEF AskedRanges
  <1>2. CASE r.form = "a-b"
    <2>1. r.a < n
      BY <1>2 DEF Within
    <2>2. Clamp(ParseRange(r), n) =
             [start |-> r.a, end |-> IF r.b >= n THEN n - 1 ELSE r.b]
      BY <1>1, <1>2, <2>1 DEF Clamp, ParseRange
    <2>3. Wanted(r, n) = {p \in 0..n - 1 : r.a <= p /\ p <= r.b}
      BY <1>2 DEF Wanted
    <2> QED BY <1>1, <1>2, <2>1, <2>2, <2>3 DEF Spans
  <1>3. CASE r.form = "a-"
    <2>1. r.a < n
      BY <1>3 DEF Within
    <2>2. Clamp(ParseRange(r), n) = [start |-> r.a, end |-> n - 1]
      BY <1>1, <1>3, <2>1, LongMaxType DEF Clamp, ParseRange
    <2>3. Wanted(r, n) = {p \in 0..n - 1 : r.a <= p}
      BY <1>3 DEF Wanted
    <2> QED BY <1>1, <2>1, <2>2, <2>3 DEF Spans
  <1>4. CASE r.form = "-a"
    <2>1. r.a \in 1..n
      BY <1>4 DEF Within
    <2>2. Clamp(ParseRange(r), n) = [start |-> n - r.a, end |-> n - 1]
      BY <1>1, <1>4, <2>1, LongMaxType DEF Clamp, ParseRange
    <2>3. Wanted(r, n) = {p \in 0..n - 1 : p >= n - r.a}
      BY <1>4 DEF Wanted
    <2> QED BY <1>1, <2>1, <2>2, <2>3 DEF Spans
  <1>5. r.form \in {"a-b", "a-", "-a"}
    BY <1>1 DEF Within, Forms
  <1> QED BY <1>2, <1>3, <1>4, <1>5

(* The ranges that are sent for a header whose ranges are all in the file.   *)
LEMMA RangesToSend ==
    ASSUME NEW header \in RangeHeaders \cup {<<>>}, NEW n \in 0..LongMax - 1,
           \A i \in 1..Len(header) : Within(header[i], n)
    PROVE  LET R == SendRanges(header, n) IN
           /\ R \in Seq(Spans) /\ R # <<>>
           /\ \A i \in 1..Len(R) :
                 0 <= R[i].start /\ R[i].start <= R[i].end + 1 /\ R[i].end < n
           /\ Len(WantedRanges(header, n)) = Len(R)
           /\ \A i \in 1..Len(R) : WantedRanges(header, n)[i] = R[i].start..R[i].end
  <1>0. n \in Nat
    BY LongMaxType
  <1> DEFINE R == SendRanges(header, n)
             W == WantedRanges(header, n)
             Good(i) == /\ 0 <= R[i].start /\ R[i].start <= R[i].end + 1 /\ R[i].end < n
                        /\ W[i] = R[i].start..R[i].end
  <1>1. CASE header = <<>>
    <2> DEFINE r == [start |-> 0, end |-> n - 1]
    <2>1. r \in Spans /\ r.start = 0 /\ r.end = n - 1
      BY <1>0 DEF Spans
    <2>2. R = <<r>> /\ W = <<0..n - 1>>
      BY <1>1 DEF SendRanges, WantedRanges
    <2> HIDE DEF r, R, W
    <2>3. R \in Seq(Spans) /\ R # <<>> /\ Len(R) = 1 /\ Len(W) = 1 /\ R[1] = r /\ W[1] = 0..n - 1
      BY <2>1, <2>2
    <2>4. \A i \in 1..Len(R) : Good(i)
      BY <1>0, <2>1, <2>3
    <2> QED BY <2>3, <2>4 DEF R, W
  <1>2. CASE header # <<>>
    <2>1. header \in Seq(AskedRanges)
      BY <1>2, RangesAssumption
    <2>2. Len(header) \in Nat /\ Len(header) > 0
      BY <1>2, <2>1
    <2>3. /\ R = [i \in 1..Len(header) |-> Clamp(ParseRange(header[i]), n)]
          /\ W = [i \in 1..Len(header) |-> Wanted(header[i], n)]
      BY <1>2 DEF SendRanges, WantedRanges
    <2> HIDE DEF R, W
    <2>4. ASSUME NEW i \in 1..Len(header) PROVE R[i] \in Spans /\ Good(i)
      <3>1. header[i] \in AskedRanges /\ R[i] = Clamp(ParseRange(header[i]), n)
            /\ W[i] = Wanted(header[i], n)
        BY <2>1, <2>3
      <3> QED BY <3>1, ClampWithin
    <2>5. Len(W) = Len(header) /\ Len(R) = Len(header) /\ R \in Seq(Spans)
      BY <2>2, <2>3, <2>4
    <2>6. R # <<>>
      BY <2>2, <2>5
    <2> QED BY <2>4, <2>5, <2>6 DEF R, W
  <1> QED BY <1>1, <1>2

-----------------------------------------------------------------------------
(* The machine.                                                              *)

Ranges == SendRanges(asked, size)
AllWithin == \A i \in 1..Len(asked) : Within(asked[i], size)
NotTaken == {"bad", "throws"}

RangesTypeOK ==
    /\ doing \in NotTaken \cup {"idle", "send", "sent", "eof", "closed", "unseekable"}
    /\ size \in 0..LongMax - 1 /\ disk \in 0..size
    /\ asked \in RangeHeaders \cup {<<>>}

(* The bodies of the first k of the ranges R, one after the other.           *)
PositionsBefore(R, k) == FlattenSeq([i \in 1..k |-> Positions(R[i])])

(* The ranges before the first of toSend have been sent, and of that one     *)
(* what is before position: together as much as has been promised for them.  *)
Behind == Len(Ranges) - Len(toSend)
ToSendOK ==
    /\ toSend \in Seq(Spans) /\ Len(toSend) <= Len(Ranges)
    /\ \A i \in 1..Len(toSend) : toSend[i] = Ranges[Behind + i]

InTheFirst ==
    LET r == Head(toSend) IN
    /\ toSend # <<>>
    /\ position \in r.start..r.end + 1 /\ left = r.end + 1 - position
    /\ body = PositionsBefore(Ranges, Behind) \o Piece(r.start, position - r.start)
    /\ Len(body) = TotalLength(SubSeq(Ranges, 1, Behind)) + (position - r.start)

AtTheEnd ==
    /\ toSend = <<>> /\ body = PositionsBefore(Ranges, Len(Ranges)) /\ Len(body) = TotalLength(Ranges)

Progress ==
    /\ doing \in {"send", "sent", "eof", "closed"}
    /\ contentLength = TotalLength(Ranges)
    /\ ToSendOK
    /\ IF doing = "sent" THEN AtTheEnd ELSE InTheFirst
    /\ doing = "eof" => disk < size

RangesIInv ==
    /\ RangesTypeOK
    /\ doing = "idle" => asked = <<>>
    /\ AllWithin /\ doing \notin NotTaken \cup {"idle"} => Progress

(* What the properties of Ranges are, as long as they are asked for.         *)
LEMMA RangesFacts ==
    ASSUME RangesTypeOK, AllWithin
    PROVE  /\ Ranges \in Seq(Spans) /\ Ranges # <<>> /\ size \in Nat
           /\ \A i \in 1..Len(Ranges) :
                 /\ 0 <= Ranges[i].start /\ Ranges[i].start <= Ranges[i].end + 1
                 /\ Ranges[i].end < size
  <1>1. size \in Nat /\ size \in 0..LongMax - 1 /\ asked \in RangeHeaders \cup {<<>>}
    BY LongMaxType DEF RangesTypeOK
  <1> QED BY <1>1, RangesToSend DEF Ranges, AllWithin

(* One range more is its positions more, and its length more.                *)
LEMMA BeforeNext ==
    ASSUME NEW R \in Seq(Spans), NEW k \in Nat, k < Len(R),
           \A i \in 1..Len(R) : R[i].start <= R[i].end + 1
    PROVE  /\ PositionsBefore(R, 0) = <<>> /\ PositionsBefore(R, k) \in Seq(Int)
           /\ PositionsBefore(R, k + 1) = PositionsBefore(R, k) \o Positions(R[k + 1])
           /\ TotalLength(SubSeq(R, 1, 0)) = 0
           /\ TotalLength(SubSeq(R, 1, k)) \in Int
           /\ TotalLength(SubSeq(R, 1, k + 1))
                 = TotalLength(SubSeq(R, 1, k)) + Length(R[k + 1])
  <1> DEFINE s == SubSeq(R, 1, k)
             seqs == [i \in 1..k |-> Positions(R[i])]
             more == [i \in 1..k + 1 |-> Positions(R[i])]
  <1>1. k + 1 \in 1..Len(R) /\ \A i \in 1..k + 1 : i \in 1..Len(R)
    OBVIOUS
  <1>2. \A i \in 1..Len(R) : R[i] \in Spans /\ Positions(R[i]) \in Seq(Int)
    <2> SUFFICES ASSUME NEW i \in 1..Len(R) PROVE R[i] \in Spans /\ Positions(R[i]) \in Seq(Int)
      OBVIOUS
    <2>1. R[i] \in Spans
      OBVIOUS
    <2>2. R[i].start \in Int /\ Length(R[i]) \in Nat
      BY <2>1 DEF Spans, Length
    <2> QED BY <2>1, <2>2, PiecesJoin DEF Positions
  <1>3. TotalLength(SubSeq(R, 1, 0)) = 0
    <2>1. SubSeq(R, 1, 0) = <<>> /\ <<>> \in Seq(Spans)
      OBVIOUS
    <2> QED BY <1>1, <1>2, <2>1, TotalAppend
  <1>4. s \in Seq(Spans) /\ SubSeq(R, 1, k + 1) = Append(s, R[k + 1])
    <2>1. s \in Seq(Spans) /\ Len(s) = k /\ \A i \in 1..k : s[i] = R[i]
      OBVIOUS
    <2>2. /\ SubSeq(R, 1, k + 1) \in Seq(Spans) /\ Len(SubSeq(R, 1, k + 1)) = k + 1
          /\ \A i \in 1..k + 1 : SubSeq(R, 1, k + 1)[i] = R[i]
      BY <1>1
    <2> DEFINE a == Append(s, R[k + 1])
               b == SubSeq(R, 1, k + 1)
    <2> HIDE DEF s
    <2>3. a \in Seq(Spans) /\ Len(a) = k + 1 /\ \A i \in 1..k + 1 : a[i] = R[i]
      BY <1>1, <1>2, <2>1
    <2> HIDE DEF a, b
    <2>4. a = b
      <3>1. b \in Seq(Spans) /\ Len(b) = k + 1 /\ \A i \in 1..k + 1 : b[i] = R[i]
        BY <2>2 DEF b
      <3> QED BY <2>3, <3>1, SeqEqual
    <2> QED BY <2>1, <2>4 DEF a, b
  <1>5. seqs \in Seq(Seq(Int)) /\ more = Append(seqs, Positions(R[k + 1]))
    <2> DEFINE P(i) == Positions(R[i])
    <2>1. \A i \in 1..k + 1 : P(i) \in Seq(Int)
      BY <1>1, <1>2
    <2> HIDE DEF P
    <2>2. [i \in 1..k |-> P(i)] \in Seq(Seq(Int)) /\ Len([i \in 1..k |-> P(i)]) = k
      BY <2>1
    <2>3. [i \in 1..k + 1 |-> P(i)] = Append([i \in 1..k |-> P(i)], P(k + 1))
      BY <2>1, <2>2
    <2> QED BY <2>2, <2>3 DEF P
  <1>6. [i \in 1..0 |-> Positions(R[i])] = <<>>
    OBVIOUS
  <1> HIDE DEF s, seqs, more
  <1>7. FlattenSeq(more) = FlattenSeq(seqs) \o Positions(R[k + 1]) /\ FlattenSeq(seqs) \in Seq(Int)
    BY <1>1, <1>2, <1>5, FlattenAppend
  <1>8. TotalLength(Append(s, R[k + 1])) = TotalLength(s) + Length(R[k + 1])
        /\ TotalLength(s) \in Int
    BY <1>1, <1>2, <1>4, TotalAppend
  <1>9. FlattenSeq(<<>>) = <<>>
    BY DEF FlattenSeq
  <1> QED BY <1>3, <1>4, <1>6, <1>7, <1>8, <1>9 DEF PositionsBefore, s, seqs, more

(* The next range begins, if there is one: what Seek() is called with when   *)
(* k ranges of R have been sent.                                             *)
LEMMA SeekStep ==
    ASSUME NEW R \in Seq(Spans), \A i \in 1..Len(R) :
                 0 <= R[i].start /\ R[i].start <= R[i].end + 1,
           NEW k \in Nat, k <= Len(R), NEW rest \in Seq(Spans),
           Len(rest) = Len(R) - k, \A i \in 1..Len(rest) : rest[i] = R[k + i],
           Seek(rest), Ranges' = R, contentLength' = TotalLength(R),
           body' = PositionsBefore(R, k), Len(body') = TotalLength(SubSeq(R, 1, k))
    PROVE  Progress'
  <1>1. CASE rest = <<>>
    <2>1. k = Len(R) /\ doing' = "sent" /\ toSend' = <<>>
      BY <1>1 DEF Seek
    <2>2. SubSeq(R, 1, k) = R
      BY <2>1
    <2>3. AtTheEnd'
      BY <2>1, <2>2 DEF AtTheEnd
    <2>4. ToSendOK'
      BY <2>1 DEF ToSendOK
    <2> QED BY <2>1, <2>3, <2>4 DEF Progress
  <1>2. CASE rest # <<>>
    <2> DEFINE r == Head(rest)
    <2>1. r = rest[1] /\ k + 1 \in 1..Len(R) /\ r = R[k + 1] /\ r \in Spans
      BY <1>2
    <2>2. 0 <= r.start /\ r.start <= r.end + 1 /\ r.start \in Int /\ r.end \in Int
      BY <2>1 DEF Spans
    <2> HIDE DEF r
    <2>3. /\ doing' = "send" /\ toSend' = rest /\ position' = r.start
          /\ left' = r.end - r.start + 1
      BY <1>2, <2>2 DEF Seek, Length, r
    <2>4. Behind' = k
      BY <2>3 DEF Behind
    <2>5. ToSendOK'
      BY <2>3, <2>4 DEF ToSendOK
    <2>6. PositionsBefore(R, k) \in Seq(Int) /\ TotalLength(SubSeq(R, 1, k)) \in Int
      BY <2>1, BeforeNext
    <2>7. PositionsBefore(R, k) \o Piece(r.start, 0) = PositionsBefore(R, k)
      <3>1. Piece(r.start, 0) = <<>>
        BY DEF Piece
      <3> QED BY <2>6, <3>1
    <2>8. InTheFirst'
      <3>1. Head(toSend)' = r /\ toSend' # <<>>
        BY <1>2, <2>3 DEF r
      <3>2. position' \in r.start..r.end + 1 /\ left' = r.end + 1 - position'
            /\ position' - r.start = 0
        BY <2>2, <2>3
      <3> QED BY <2>4, <2>6, <2>7, <3>1, <3>2 DEF InTheFirst
    <2> QED BY <2>3, <2>5, <2>8 DEF Progress
  <1> QED BY <1>1, <1>2

(* Each action keeps the invariant.                                          *)
LEMMA SendStaticDataStep ==
    ASSUME RangesIInv, NEW fileSize \in FileSizes, NEW header \in RangeHeaders,
           SendStaticData(fileSize, header)
    PROVE  RangesIInv'
  <1>1. fileSize \in 0..LongMax - 1 /\ fileSize \in Nat
    BY RangesAssumption, LongMaxType
  <1>2. /\ size' = fileSize /\ disk' = fileSize /\ asked' = header /\ body' = <<>>
        /\ \/ ParseRanges(header) # "ok" /\ doing' = ParseRanges(header)
           \/ /\ contentLength' = TotalLength(SendRanges(header, fileSize))
              /\ Seek(SendRanges(header, fileSize))
    BY DEF SendStaticData
  <1>3. ParseRanges(header) # "ok" => ParseRanges(header) \in NotTaken
    BY DEF ParseRanges, NotTaken
  <1>4. \A ranges : Seek(ranges) => doing' \in {"send", "sent", "unseekable"}
    BY DEF Seek
  <1>5. RangesTypeOK' /\ doing' # "idle"
    BY <1>1, <1>2, <1>3, <1>4 DEF RangesTypeOK, NotTaken
  <1>6. ASSUME AllWithin', doing' \notin NotTaken PROVE Progress'
    <2> DEFINE R == SendRanges(header, fileSize)
    <2>1. Ranges' = R
      BY <1>2 DEF Ranges
    <2>2. /\ R \in Seq(Spans) /\ R # <<>>
          /\ \A i \in 1..Len(R) : 0 <= R[i].start /\ R[i].start <= R[i].end + 1
      BY <1>1, <1>2, <1>6, RangesToSend DEF AllWithin
    <2>3. contentLength' = TotalLength(R) /\ Seek(R)
      BY <1>2, <1>3, <1>6
    <2>4. TotalLength(<<>>) = 0 /\ FlattenSeq(<<>>) = <<>>
      BY <2>2, TotalAppend DEF FlattenSeq
    <2> HIDE DEF R
    <2>5. [i \in 1..0 |-> Positions(R[i])] = <<>> /\ SubSeq(R, 1, 0) = <<>>
      BY <2>2
    <2>6. body' = PositionsBefore(R, 0) /\ Len(body') = TotalLength(SubSeq(R, 1, 0))
      BY <1>2, <2>4, <2>5 DEF PositionsBefore
    <2>7. 0 <= Len(R) /\ Len(R) = Len(R) - 0 /\ \A i \in 1..Len(R) : R[i] = R[0 + i]
      BY <2>2
    <2> QED BY <2>1, <2>2, <2>3, <2>6, <2>7, SeekStep
  <1> QED BY <1>5, <1>6 DEF RangesIInv

(* Sending one piece of a range keeps the invariant.                       *)
LEMMA ReadPieceStep ==
    ASSUME RangesIInv, NEW n \in 1..PieceSize, ReadPiece(n)
    PROVE  RangesIInv'
  <1>0. n \in Nat /\ n >= 1
    BY RangesAssumption
  <1>1. /\ doing = "send" /\ n <= left /\ position' = position + n /\ left' = left - n
        /\ body' = body \o Piece(position, n)
        /\ UNCHANGED <<doing, size, disk, asked, toSend, contentLength>>
    BY DEF ReadPiece, Piece
  <1>2. RangesTypeOK' /\ (AllWithin' <=> AllWithin) /\ Ranges' = Ranges
    BY <1>1 DEF RangesIInv, RangesTypeOK, AllWithin, Ranges
  <1>3. ASSUME AllWithin PROVE Progress'
    <2>1. Progress /\ InTheFirst /\ ToSendOK
      BY <1>1, <1>3 DEF RangesIInv, Progress, NotTaken
    <2>2. /\ Ranges \in Seq(Spans)
          /\ \A i \in 1..Len(Ranges) : Ranges[i].start <= Ranges[i].end + 1
      BY <1>3, RangesFacts DEF RangesIInv
    <2> DEFINE r == Head(toSend)
               k == Behind
               B == PositionsBefore(Ranges, k)
               T == TotalLength(SubSeq(Ranges, 1, k))
    <2>3. k \in Nat /\ k < Len(Ranges) /\ r \in Spans
      BY <2>1, <2>2 DEF ToSendOK, InTheFirst, Behind
    <2>4. B \in Seq(Int) /\ T \in Int
      BY <2>2, <2>3, BeforeNext
    <2>5. r.start \in Int /\ r.end \in Int
      BY <2>3 DEF Spans
    <2>6. /\ position \in r.start..r.end + 1 /\ left = r.end + 1 - position
          /\ body = B \o Piece(r.start, position - r.start)
          /\ Len(body) = T + (position - r.start) /\ toSend # <<>>
      BY <2>1 DEF InTheFirst
    <2>7. B' = B /\ T' = T /\ r' = r /\ k' = k
      BY <1>1, <1>2 DEF PositionsBefore, Behind
    <2> HIDE DEF r, B, T, k
    <2> DEFINE m == position - r.start
    <2>8. /\ m \in Nat /\ position = r.start + m /\ m + n = position' - r.start
          /\ position' \in r.start..r.end + 1 /\ left' = r.end + 1 - position'
      <3>1. \A a, e, p \in Int : p \in a..e + 1 /\ n <= e + 1 - p =>
               /\ p - a \in Nat /\ p = a + (p - a) /\ (p - a) + n = (p + n) - a
               /\ p + n \in a..e + 1 /\ (e + 1 - p) - n = e + 1 - (p + n)
        BY <1>0
      <3>2. position \in Int /\ position \in r.start..r.end + 1 /\ n <= r.end + 1 - position
        BY <1>1, <2>5, <2>6
      <3>3. /\ position - r.start \in Nat /\ position = r.start + (position - r.start)
            /\ (position - r.start) + n = (position + n) - r.start
            /\ position + n \in r.start..r.end + 1
            /\ (r.end + 1 - position) - n = r.end + 1 - (position + n)
        <4> DEFINE a == r.start
                   e == r.end
        <4>1. a \in Int /\ e \in Int /\ position \in Int /\ position \in a..e + 1 /\ n <= e + 1 - position
          BY <2>5, <3>2
        <4> HIDE DEF a, e
        <4>2. /\ position - a \in Nat /\ position = a + (position - a)
              /\ (position - a) + n = (position + n) - a
              /\ position + n \in a..e + 1 /\ (e + 1 - position) - n = e + 1 - (position + n)
          BY <3>1, <4>1
        <4> QED BY <4>2 DEF a, e
      <3> QED BY <1>1, <2>6, <3>3, Zenon
    <2> HIDE DEF m
    <2>9. /\ Piece(r.start, m) \in Seq(Int) /\ Len(Piece(r.start, m)) = m
          /\ Piece(position, n) \in Seq(Int) /\ Len(Piece(position, n)) = n
          /\ Piece(r.start, m) \o Piece(position, n) = Piece(r.start, m + n)
      <3>1. position \in Int
        BY <2>5, <2>8
      <3> QED BY <1>0, <2>5, <2>8, <3>1, PiecesJoin
    <2>10. body' = B \o Piece(r.start, m + n) /\ Len(body') = T + (m + n)
      <3>1. body = B \o Piece(r.start, m) /\ Len(body) = T + m
        BY <2>6 DEF m
      <3>2. body' = B \o (Piece(r.start, m) \o Piece(position, n))
        <4> DEFINE x == Piece(r.start, m)
                   y == Piece(position, n)
        <4>1. x \in Seq(Int) /\ y \in Seq(Int) /\ body' = (B \o x) \o y
          BY <1>1, <2>9, <3>1
        <4> HIDE DEF x, y
        <4>2. (B \o x) \o y = B \o (x \o y)
          <5>1. ASSUME NEW b \in Seq(Int), NEW c \in Seq(Int), NEW d \in Seq(Int)
                PROVE  (b \o c) \o d = b \o (c \o d)
            BY ConcatAssociative, SMTT(20)
          <5> QED BY <2>4, <4>1, <5>1, Zenon
        <4> QED BY <4>1, <4>2 DEF x, y
      <3>3. Len(body') = Len(body) + n
        <4>1. body \in Seq(Int)
          BY <2>4, <2>9, <3>1
        <4> QED BY <1>1, <2>9, <4>1, ConcatProperties
      <3> QED BY <1>0, <2>4, <2>8, <2>9, <3>1, <3>2, <3>3
    <2>11. InTheFirst'
      BY <1>1, <2>6, <2>7, <2>8, <2>10 DEF InTheFirst, r, B, T, k
    <2>12. ToSendOK'
      BY <1>1, <1>2, <2>1 DEF ToSendOK, Behind
    <2> QED BY <1>1, <1>2, <2>1, <2>11, <2>12 DEF Progress
  <1> QED BY <1>1, <1>2, <1>3 DEF RangesIInv

(* Passing to the next range keeps the invariant.                          *)
LEMMA EndOfRangeStep ==
    ASSUME RangesIInv, EndOfRange
    PROVE  RangesIInv'
  <1>1. /\ doing = "send" /\ left = 0 /\ Seek(Tail(toSend))
        /\ UNCHANGED <<size, disk, asked, contentLength, body>>
    BY DEF EndOfRange
  <1>2. doing' \in {"send", "sent", "unseekable"}
    BY <1>1 DEF Seek
  <1>3. RangesTypeOK' /\ (AllWithin' <=> AllWithin) /\ Ranges' = Ranges
    BY <1>1, <1>2 DEF RangesIInv, RangesTypeOK, AllWithin, Ranges
  <1>4. ASSUME AllWithin PROVE Progress'
    <2>1. Progress /\ InTheFirst /\ ToSendOK /\ contentLength = TotalLength(Ranges)
      BY <1>1, <1>4 DEF RangesIInv, Progress, NotTaken
    <2>2. /\ Ranges \in Seq(Spans)
          /\ \A i \in 1..Len(Ranges) : 0 <= Ranges[i].start /\ Ranges[i].start <= Ranges[i].end + 1
      BY <1>4, RangesFacts DEF RangesIInv
    <2> DEFINE r == Head(toSend)
               k == Behind
               rest == Tail(toSend)
    <2>3. /\ toSend \in Seq(Spans) /\ toSend # <<>> /\ Len(toSend) <= Len(Ranges)
          /\ k = Len(Ranges) - Len(toSend)
          /\ \A i \in 1..Len(toSend) : toSend[i] = Ranges[k + i]
      BY <2>1 DEF ToSendOK, InTheFirst, Behind
    <2>4. k \in Nat /\ k < Len(Ranges) /\ r = toSend[1] /\ r = Ranges[k + 1] /\ r \in Spans
      BY <2>2, <2>3
    <2>5. /\ rest \in Seq(Spans) /\ Len(rest) = Len(Ranges) - (k + 1)
          /\ \A i \in 1..Len(rest) : rest[i] = Ranges[k + 1 + i]
      <3>1. /\ rest \in Seq(Spans) /\ Len(rest) = Len(toSend) - 1
            /\ \A i \in 1..Len(rest) : rest[i] = toSend[i + 1]
        BY <2>3
      <3> HIDE DEF rest, k
      <3>2. Len(toSend) \in Nat /\ Len(Ranges) \in Nat /\ k \in Nat
        BY <2>2, <2>3, <2>4
      <3>3. ASSUME NEW i \in 1..Len(rest) PROVE rest[i] = Ranges[k + 1 + i]
        <4>1. i + 1 \in 1..Len(toSend) /\ k + (i + 1) = k + 1 + i
          BY <3>1, <3>2
        <4> QED BY <2>3, <3>1, <4>1
      <3> QED BY <2>3, <3>1, <3>2, <3>3
    <2>6. r.start \in Int /\ r.end \in Int /\ Length(r) = r.end - r.start + 1
      BY <2>4 DEF Spans, Length
    <2>7. /\ position = r.end + 1 /\ body = PositionsBefore(Ranges, k) \o Positions(r)
          /\ Len(body) = TotalLength(SubSeq(Ranges, 1, k)) + Length(r)
      <3>1. /\ position \in r.start..r.end + 1 /\ left = r.end + 1 - position
            /\ body = PositionsBefore(Ranges, k) \o Piece(r.start, position - r.start)
            /\ Len(body) = TotalLength(SubSeq(Ranges, 1, k)) + (position - r.start)
        BY <2>1 DEF InTheFirst
      <3>2. position \in Int /\ r.end + 1 - position = 0
        BY <1>1, <2>6, <3>1
      <3>3. position = r.end + 1 /\ position - r.start = Length(r)
        BY <2>6, <3>2
      <3> QED BY <3>1, <3>3 DEF Positions
    <2> HIDE DEF r, k, rest
    <2>8. /\ body = PositionsBefore(Ranges, k + 1)
          /\ Len(body) = TotalLength(SubSeq(Ranges, 1, k + 1))
      BY <2>2, <2>4, <2>7, BeforeNext
    <2>9. /\ body' = PositionsBefore(Ranges, k + 1) /\ contentLength' = TotalLength(Ranges)
          /\ Len(body') = TotalLength(SubSeq(Ranges, 1, k + 1))
      BY <1>1, <2>1, <2>8
    <2>10. k + 1 \in Nat /\ k + 1 <= Len(Ranges)
      BY <2>2, <2>4
    <2>11. Seek(rest)
      BY <1>1 DEF rest
    <2> DEFINE R == Ranges
    <2>12. R \in Seq(Spans) /\ Ranges' = R
      BY <1>3, <2>2
    <2> QED BY <2>2, <2>5, <2>9, <2>10, <2>11, <2>12, SeekStep
  <1> QED BY <1>1, <1>2, <1>3, <1>4 DEF RangesIInv

(* Giving up changes nothing but how it ends, and who cuts the file touches  *)
(* only the file.                                                            *)
LEMMA EndingStep ==
    ASSUME RangesIInv, FileIsCut \/ \E why \in {"eof", "closed"} : GivesUp(why)
    PROVE  RangesIInv'
  <1>1. /\ doing = "send" /\ doing' \in {"send", "eof", "closed"}
        /\ UNCHANGED <<size, asked, toSend, position, left, contentLength, body>>
    BY DEF FileIsCut, GivesUp
  <1>2. size \in Nat
    BY LongMaxType DEF RangesIInv, RangesTypeOK
  <1>3. disk' \in 0..size /\ (doing' = "eof" => left > 0 /\ position >= disk /\ disk' = disk)
    BY <1>2 DEF FileIsCut, GivesUp, RangesIInv, RangesTypeOK
  <1>4. RangesTypeOK' /\ (AllWithin' <=> AllWithin) /\ Ranges' = Ranges
    BY <1>1, <1>3 DEF RangesIInv, RangesTypeOK, AllWithin, Ranges
  <1>5. ASSUME AllWithin PROVE Progress'
    <2>1. Progress /\ InTheFirst /\ ToSendOK
      BY <1>1, <1>5 DEF RangesIInv, Progress, NotTaken
    <2>2. /\ Ranges \in Seq(Spans)
          /\ \A i \in 1..Len(Ranges) : Ranges[i].end < size
      BY <1>5, RangesFacts DEF RangesIInv
    <2>3. InTheFirst' /\ ToSendOK'
      BY <1>1, <1>4, <2>1 DEF InTheFirst, ToSendOK, PositionsBefore, Behind
    <2>4. doing' = "eof" => disk' < size'
      <3> DEFINE r == Head(toSend)
      <3>1. r \in Spans /\ r.end < size
        <4>1. /\ toSend \in Seq(Spans) /\ toSend # <<>> /\ Len(toSend) <= Len(Ranges)
              /\ \A i \in 1..Len(toSend) : toSend[i] = Ranges[Len(Ranges) - Len(toSend) + i]
          BY <2>1 DEF ToSendOK, InTheFirst, Behind
        <4>2. 1 \in 1..Len(toSend) /\ Len(Ranges) - Len(toSend) + 1 \in 1..Len(Ranges)
              /\ r = toSend[1]
          BY <2>2, <4>1
        <4> QED BY <2>2, <4>1, <4>2
      <3>2. position \in r.start..r.end + 1 /\ left = r.end + 1 - position
        BY <2>1 DEF InTheFirst
      <3> HIDE DEF r
      <3>3. r.start \in Int /\ r.end \in Int
        BY <3>1 DEF Spans
      <3>4. disk \in Int
        BY <1>2 DEF RangesIInv, RangesTypeOK
      <3> QED BY <1>1, <1>2, <1>3, <3>1, <3>2, <3>3, <3>4
    <2> QED BY <1>1, <1>4, <2>1, <2>3, <2>4 DEF Progress
  <1> QED BY <1>1, <1>4, <1>5 DEF RangesIInv

(* How far each range has been sent is kept by every step.                   *)
THEOREM RangesInvariant == RangesSpec => []RangesIInv
  <1>1. RangesInit => RangesIInv
    <2>1. LongMax - 1 >= 0
      BY SMT DEF LongMax
    <2> QED BY <2>1, LongMaxType DEF RangesInit, RangesIInv, RangesTypeOK
  <1>2. RangesIInv /\ [RangesNext]_rgvars => RangesIInv'
    <2> SUFFICES ASSUME RangesIInv, [RangesNext]_rgvars PROVE RangesIInv'
      OBVIOUS
    <2>1. ASSUME NEW fileSize \in FileSizes, NEW header \in RangeHeaders,
                 SendStaticData(fileSize, header)
          PROVE  RangesIInv'
      BY <2>1, SendStaticDataStep
    <2>2. ASSUME NEW n \in 1..PieceSize, ReadPiece(n) PROVE RangesIInv'
      BY <2>2, ReadPieceStep
    <2>3. CASE EndOfRange
      BY <2>3, EndOfRangeStep
    <2>4. CASE FileIsCut \/ \E why \in {"eof", "closed"} : GivesUp(why)
      BY <2>4, EndingStep
    <2>5. CASE UNCHANGED rgvars
      BY <2>5 DEF rgvars, RangesIInv, RangesTypeOK, AllWithin, Progress, ToSendOK, AtTheEnd,
                  InTheFirst, Ranges, PositionsBefore, Behind
    <2> QED BY <2>1, <2>2, <2>3, <2>4, <2>5 DEF RangesNext
  <1> QED BY <1>1, <1>2, PTL DEF RangesSpec

(* BodyIsWhatWasAsked of every file and every header (sendStaticData()):     *)
(* whatever the sizes of the pieces and whenever the file is cut.            *)
THEOREM BodyStaysWhatWasAsked == RangesSpec => []BodyIsWhatWasAsked
  <1>1. RangesIInv => BodyIsWhatWasAsked
    <2> SUFFICES ASSUME RangesIInv, AllWithin
                 PROVE  /\ doing # "unseekable" /\ (doing = "eof" => disk < size)
                        /\ doing = "sent" =>
                              LET ranges == WantedRanges(asked, size) IN
                              /\ Len(body) = contentLength
                              /\ body = FlattenSeq([i \in 1..Len(ranges) |-> Ascending(ranges[i])])
      BY DEF BodyIsWhatWasAsked, AllWithin
    <2>1. doing \in {"unseekable", "eof", "sent"} => Progress
      BY DEF RangesIInv, NotTaken
    <2>2. doing # "unseekable" /\ (doing = "eof" => disk < size)
      BY <2>1 DEF Progress
    <2>3. ASSUME doing = "sent"
          PROVE  /\ Len(body) = contentLength
                 /\ body = FlattenSeq([i \in 1..Len(WantedRanges(asked, size)) |->
                                          Ascending(WantedRanges(asked, size)[i])])
      <3>1. Progress /\ AtTheEnd
        BY <2>1, <2>3 DEF Progress
      <3> DEFINE R == Ranges
                 W == WantedRanges(asked, size)
      <3>2. /\ R \in Seq(Spans) /\ Len(W) = Len(R)
            /\ \A i \in 1..Len(R) : /\ R[i].start <= R[i].end + 1
                                    /\ W[i] = R[i].start..R[i].end
        <4>1. asked \in RangeHeaders \cup {<<>>} /\ size \in 0..LongMax - 1
          BY DEF RangesIInv, RangesTypeOK
        <4> QED BY <4>1, RangesToSend DEF Ranges, AllWithin
      <3> HIDE DEF R, W
      <3>3. ASSUME NEW i \in 1..Len(R) PROVE Ascending(W[i]) = Positions(R[i])
        <4>1. R[i] \in Spans
          BY <3>2
        <4>2. R[i].start \in Int /\ R[i].end \in Int
          BY <4>1 DEF Spans
        <4> QED BY <3>2, <4>2, AscendingSpan DEF Positions, Piece, Length
      <3>4. [i \in 1..Len(W) |-> Ascending(W[i])] = [i \in 1..Len(R) |-> Positions(R[i])]
        BY <3>2, <3>3
      <3> QED BY <3>1, <3>4 DEF Progress, AtTheEnd, PositionsBefore, R, W
    <2> QED BY <2>2, <2>3
  <1> QED BY <1>1, RangesInvariant, PTL

-----------------------------------------------------------------------------
(* Responses: a client that reads.                                           *)
Places == {"header", "body", "size", "chunk", "last", "end", "lost"}
Readers == [at : Places, left : Nat, found : Nat, lengths : SUBSET Nat]
Items == [is : {"line", "length", "blank", "size", "crlf", "byte"}, n : Nat]

(* The client's reader keeps its kind with each item.                      *)
LEMMA ReadItemType ==
    ASSUME NEW r \in Readers, NEW item \in Items, NEW chunked \in BOOLEAN
    PROVE  ReadItem(r, item, chunked) \in Readers
  <1>1. /\ r.at \in Places /\ r.left \in Nat /\ r.found \in Nat /\ r.lengths \in SUBSET Nat
        /\ item.n \in Nat
    BY DEF Readers, Items
  <1> DEFINE T == ReadItem(r, item, chunked)
             to(at) == [r EXCEPT !.at = at]
             byte == item = Item("byte", r.found + 1)
  <1>2. \/ T = r \/ T = [r EXCEPT !.lengths = @ \cup {item.n}]
        \/ T = to(IF chunked THEN "size" ELSE "body") \/ T = [r EXCEPT !.found = @ + 1]
        \/ T = [to(IF item.n = 0 THEN "last" ELSE "chunk") EXCEPT !.left = item.n]
        \/ r.left > 0 /\ T = [r EXCEPT !.found = @ + 1, !.left = @ - 1]
        \/ T = to("size") \/ T = to("end") \/ T = to("lost")
    BY DEF ReadItem
  <1> HIDE DEF T
  <1>3. \A at \in Places : to(at) \in Readers
    BY DEF Readers
  <1>4. [r EXCEPT !.lengths = @ \cup {item.n}] \in Readers /\ [r EXCEPT !.found = @ + 1] \in Readers
    BY <1>1 DEF Readers
  <1>5. [to(IF item.n = 0 THEN "last" ELSE "chunk") EXCEPT !.left = item.n] \in Readers
    BY <1>1 DEF Readers, Places
  <1>6. r.left > 0 => [r EXCEPT !.found = @ + 1, !.left = @ - 1] \in Readers
    <2> DEFINE a == r.found + 1
               b == r.left - 1
    <2>1. r.left > 0 => a \in Nat /\ b \in Nat
      BY <1>1
    <2> HIDE DEF a, b
    <2>2. r.left > 0 => [r EXCEPT !.found = a, !.left = b] \in Readers
      BY <2>1 DEF Readers
    <2> QED BY <2>2 DEF a, b
  <1> HIDE DEF to
  <1>7. /\ to("lost") \in Readers /\ to("end") \in Readers /\ to("size") \in Readers
        /\ to(IF chunked THEN "size" ELSE "body") \in Readers
    BY <1>3 DEF Places
  <1> QED BY <1>2, <1>4, <1>5, <1>6, <1>7 DEF T

(* What Read() follows.                                                      *)
IsReading(f, items, chunked) ==
    /\ f[0] = NewReader
    /\ \A k \in 1..Len(items) : f[k] = ReadItem(f[k - 1], items[k], chunked)

(* Reading a wire has its intermediate readers.                            *)
LEMMA ReadingExists ==
    ASSUME NEW items \in Seq(Items), NEW chunked \in BOOLEAN
    PROVE  \E f : /\ IsReading(f, items, chunked) /\ Read(items, chunked) = f[Len(items)]
                  /\ \A k \in 0..Len(items) : f[k] \in Readers
  <1> DEFINE n == Len(items)
             F == [x \in Readers \X Items |-> ReadItem(x[1], x[2], chunked)]
             O == 1..n
             H == [x \in Readers \X O |-> F[<<x[1], items[x[2]]>>]]
             G == CHOOSE upTo : upTo = [k \in 0..Len(items) |->
                    IF k = 0 THEN NewReader ELSE ReadItem(upTo[k - 1], items[k], chunked)]
  <1>1. n \in Nat /\ NewReader \in Readers /\ \A k \in O : items[k] \in Items
    BY DEF NewReader, Readers, Places
  <1>2. F \in [Readers \X Items -> Readers]
        /\ \A r \in Readers, i \in Items : F[<<r, i>>] = ReadItem(r, i, chunked)
    BY ReadItemType
  <1> HIDE DEF F
  <1>3. H \in [Readers \X O -> Readers] /\ \A r \in Readers, k \in O : H[<<r, k>>] = F[<<r, items[k]>>]
    BY <1>1, <1>2
  <1> HIDE DEF H
  <1>4. PICK f : IsRun(f, Readers, H, NewReader, n)
    BY <1>1, <1>3, RunExists
  <1>5. f \in [0..n -> Readers] /\ f = [k \in 0..n |->
             IF k = 0 THEN NewReader ELSE ReadItem(f[k - 1], items[k], chunked)]
    <2>1. ASSUME NEW k \in 0..n, k # 0 PROVE f[k] = ReadItem(f[k - 1], items[k], chunked)
      <3>1. k \in O /\ k - 1 \in 0..n /\ f[k - 1] \in Readers /\ items[k] \in Items
        BY <1>1, <1>4, <2>1 DEF IsRun
      <3>2. f[k] = H[<<f[k - 1], k>>]
        BY <1>4, <2>1, <3>1 DEF IsRun
      <3>3. H[<<f[k - 1], k>>] = F[<<f[k - 1], items[k]>>]
        BY <1>3, <3>1
      <3>4. F[<<f[k - 1], items[k]>>] = ReadItem(f[k - 1], items[k], chunked)
        BY <1>2, <3>1
      <3> QED BY <3>2, <3>3, <3>4
    <2> QED BY <1>4, <2>1 DEF IsRun
  <1>6. G = [k \in 0..n |-> IF k = 0 THEN NewReader ELSE ReadItem(G[k - 1], items[k], chunked)]
    BY <1>5, Zenon
  <1>7. Read(items, chunked) = G[n]
    BY DEF Read
  <1> HIDE DEF G
  <1>8. IsReading(G, items, chunked)
    <2>1. 0 \in 0..n /\ \A k \in 1..n : k \in 0..n /\ k # 0
      BY <1>1
    <2> QED BY <1>6, <2>1 DEF IsReading
  <1> DEFINE K == {k \in 0..n : G[k] \in Readers}
  <1>9. \A k \in 0..n : k \in K
    <2>1. 0 \in K
      BY <1>1, <1>8 DEF IsReading
    <2>2. ASSUME NEW k \in 1..n, k - 1 \in K PROVE k \in K
      <3>1. k \in 0..n /\ items[k] \in Items /\ G[k - 1] \in Readers
        BY <1>1, <2>2
      <3>2. G[k] \in Readers
        BY <1>8, <3>1, ReadItemType DEF IsReading
      <3> QED BY <3>1, <3>2
    <2> HIDE DEF K
    <2> QED BY <1>1, <2>1, <2>2, RunInduction
  <1> QED BY <1>7, <1>8, <1>9

(* One item more is read after all before it.                                *)
LEMMA ReadAppend ==
    ASSUME NEW items \in Seq(Items), NEW item \in Items, NEW chunked \in BOOLEAN
    PROVE  /\ Read(Append(items, item), chunked) = ReadItem(Read(items, chunked), item, chunked)
           /\ Read(items, chunked) \in Readers /\ Read(<<>>, chunked) = NewReader
  <1> DEFINE n == Len(items)
             more == Append(items, item)
  <1>1. /\ n \in Nat /\ more \in Seq(Items) /\ Len(more) = n + 1 /\ more[n + 1] = item
        /\ \A k \in 1..n : more[k] = items[k] /\ k \in 1..n + 1
    OBVIOUS
  <1> HIDE DEF more
  <1>2. PICK f : /\ IsReading(f, items, chunked) /\ Read(items, chunked) = f[n]
                 /\ \A k \in 0..n : f[k] \in Readers
    BY ReadingExists
  <1>3. PICK g : IsReading(g, more, chunked) /\ Read(more, chunked) = g[n + 1]
    BY <1>1, ReadingExists
  <1> DEFINE K == {k \in 0..n : f[k] = g[k]}
  <1>4. n \in K
    <2>1. 0 \in K
      BY <1>1, <1>2, <1>3 DEF IsReading
    <2>2. ASSUME NEW k \in 1..n, k - 1 \in K PROVE k \in K
      <3>1. k \in 0..n /\ k \in 1..Len(more) /\ f[k - 1] = g[k - 1] /\ more[k] = items[k]
        BY <1>1, <2>2
      <3> QED BY <1>2, <1>3, <3>1 DEF IsReading
    <2> HIDE DEF K
    <2>3. \A k \in 0..n : k \in K
      BY <1>1, <2>1, <2>2, RunInduction
    <2> QED BY <1>1, <2>3
  <1>5. g[n + 1] = ReadItem(g[n], item, chunked)
    <2>1. n + 1 \in 1..Len(more) /\ (n + 1) - 1 = n
      BY <1>1
    <2> QED BY <1>1, <1>3, <2>1 DEF IsReading
  <1>6. Read(<<>>, chunked) = NewReader
    <2>1. <<>> \in Seq(Items) /\ Len(<<>>) = 0
      OBVIOUS
    <2> QED BY <2>1, ReadingExists DEF IsReading
  <1>7. f[n] \in Readers
    BY <1>1, <1>2
  <1> QED BY <1>2, <1>3, <1>4, <1>5, <1>6, <1>7 DEF more

Reader(at, due, found, lengths) ==
    [at |-> at, left |-> due, found |-> found, lengths |-> lengths]

(* A reader is the four parts it is made of.                               *)
LEMMA ReadersAre ==
    ASSUME NEW r \in Readers
    PROVE  /\ r = Reader(r.at, r.left, r.found, r.lengths)
           /\ r.at \in Places /\ r.left \in Nat /\ r.found \in Nat /\ r.lengths \in SUBSET Nat
  BY DEF Readers, Reader

(* What each kind of item means to a client that expects it.                 *)
LEMMA ReadsLine ==
    ASSUME NEW due, NEW found, NEW lengths, NEW n, NEW chunked \in BOOLEAN
    PROVE  ReadItem(Reader("header", due, found, lengths), Item("line", n), chunked)
              = Reader("header", due, found, lengths)
  BY DEF ReadItem, Reader, Item

(* Content-Length among the headers is noted.                              *)
LEMMA ReadsLength ==
    ASSUME NEW due, NEW found, NEW lengths, NEW n, NEW chunked \in BOOLEAN
    PROVE  ReadItem(Reader("header", due, found, lengths), Item("length", n), chunked)
              = Reader("header", due, found, lengths \cup {n})
  BY DEF ReadItem, Reader, Item

(* The blank line ends the headers and begins the body.                    *)
LEMMA ReadsBlank ==
    ASSUME NEW due, NEW found, NEW lengths, NEW chunked \in BOOLEAN
    PROVE  ReadItem(Reader("header", due, found, lengths), Item("blank", 0), chunked)
              = Reader(IF chunked THEN "size" ELSE "body", due, found, lengths)
  BY DEF ReadItem, Reader, Item

(* A byte of a plain body is found in its place.                           *)
LEMMA ReadsBodyByte ==
    ASSUME NEW due, NEW found, NEW lengths, NEW chunked \in BOOLEAN
    PROVE  ReadItem(Reader("body", due, found, lengths), Item("byte", found + 1), chunked)
              = Reader("body", due, found + 1, lengths)
  BY DEF ReadItem, Reader, Item

(* A byte of a chunk is found, and one less is left in the chunk.          *)
LEMMA ReadsChunkByte ==
    ASSUME NEW due, NEW found, NEW lengths, due > 0, NEW chunked \in BOOLEAN
    PROVE  ReadItem(Reader("chunk", due, found, lengths), Item("byte", found + 1), chunked)
              = Reader("chunk", due - 1, found + 1, lengths)
  BY DEF ReadItem, Reader, Item

Opens(n) == IF n = 0 THEN "last" ELSE "chunk"

(* The line end of a spent chunk leads to the next size.                   *)
LEMMA ReadsChunkEnd ==
    ASSUME NEW found, NEW lengths, NEW chunked \in BOOLEAN
    PROVE  ReadItem(Reader("chunk", 0, found, lengths), Item("crlf", 0), chunked)
              = Reader("size", 0, found, lengths)
  BY DEF ReadItem, Reader, Item

(* The line end after the last chunk ends the body.                        *)
LEMMA ReadsLastEnd ==
    ASSUME NEW due, NEW found, NEW lengths, NEW chunked \in BOOLEAN
    PROVE  ReadItem(Reader("last", due, found, lengths), Item("crlf", 0), chunked)
              = Reader("end", due, found, lengths)
  BY DEF ReadItem, Reader, Item

(* The bytes of a payload, all of them.                                      *)
Payload(from, n) == [i \in 1..n |-> Item("byte", from + i)]

(* A payload grows by the byte that follows it.                            *)
LEMMA PayloadGrows ==
    ASSUME NEW from \in Nat, NEW k \in Nat, k > 0, NEW items \in Seq(Items)
    PROVE  /\ items \o Payload(from, k) \in Seq(Items)
           /\ items \o Payload(from, k)
                 = Append(items \o Payload(from, k - 1), Item("byte", from + k))
           /\ items \o Payload(from, 0) = items
           /\ Item("byte", from + k) \in Items
  <1> DEFINE byte == Item("byte", from + k)
             less == Payload(from, k - 1)
  <1>1. byte \in Items
    BY DEF Items, Item
  <1>2. \A m \in Nat : Payload(from, m) \in Seq(Items) /\ Len(Payload(from, m)) = m
    BY DEF Payload, Items, Item
  <1>3. less \in Seq(Items) /\ Len(less) = k - 1
    BY <1>2
  <1>4. Payload(from, k) = Append(less, byte)
    BY DEF Payload
  <1> HIDE DEF less, byte
  <1>5. items \o Append(less, byte) = Append(items \o less, byte)
    BY <1>1, <1>3
  <1>6. items \o Payload(from, 0) = items
    BY DEF Payload
  <1>7. Payload(from, k) \in Seq(Items)
    BY <1>2
  <1>8. items \o Payload(from, k) \in Seq(Items)
    BY <1>7
  <1>9. items \o Payload(from, k) = Append(items \o less, byte)
    BY <1>4, <1>5
  <1> QED BY <1>1, <1>6, <1>8, <1>9 DEF less, byte

Remains(at, due) == IF at = "chunk" THEN 0 ELSE due

(* Reading a payload finds all its bytes, where a body or a chunk is due.  *)
LEMMA ReadPayload ==
    ASSUME NEW items \in Seq(Items), NEW chunked \in BOOLEAN, NEW n \in Nat, NEW found \in Nat,
           NEW lengths, NEW at, NEW due, at = "body" \/ (at = "chunk" /\ due = n),
           Read(items, chunked) = Reader(at, due, found, lengths)
    PROVE  Read(items \o Payload(found, n), chunked) =
              Reader(at, Remains(at, due), found + n, lengths)
  <1> DEFINE Part(k) == items \o Payload(found, k)
             At(k) == Reader(at, IF at = "chunk" THEN n - k ELSE due, found + k, lengths)
             K == {k \in 0..n : Part(k) \in Seq(Items) /\ Read(Part(k), chunked) = At(k)}
  <1>1. Part(0) = items
    BY DEF Payload
  <1>2. 0 \in K
    <2>1. At(0) = Reader(at, due, found, lengths)
      <3>1. found + 0 = found /\ n - 0 = n
        OBVIOUS
      <3> QED BY <3>1
    <2> HIDE DEF Part, At
    <2>2. 0 \in 0..n
      OBVIOUS
    <2> QED BY <1>1, <2>1, <2>2
  <1>3. ASSUME NEW k \in 1..n, k - 1 \in K PROVE k \in K
    <2> DEFINE byte == Item("byte", found + k)
    <2>1. byte \in Items /\ Part(k) = Append(Part(k - 1), byte) /\ Part(k) \in Seq(Items)
      <3>1. k \in Nat /\ k > 0
        OBVIOUS
      <3> QED BY <3>1, PayloadGrows
    <2>2. Part(k - 1) \in Seq(Items) /\ Read(Part(k - 1), chunked) = At(k - 1)
      BY <1>3
    <2>3. Read(Part(k), chunked) = ReadItem(At(k - 1), byte, chunked)
      <3> HIDE DEF Part, At, byte
      <3> QED BY <2>1, <2>2, ReadAppend
    <2>4. ReadItem(At(k - 1), byte, chunked) = At(k)
      <3> DEFINE now == found + (k - 1)
                 rest == n - (k - 1)
      <3>1. now + 1 = found + k /\ rest - 1 = n - k /\ rest > 0
        OBVIOUS
      <3>2. At(k - 1) = Reader(at, IF at = "chunk" THEN rest ELSE due, now, lengths)
        OBVIOUS
      <3>3. byte = Item("byte", now + 1)
        BY <3>1
      <3>4. At(k) = Reader(at, IF at = "chunk" THEN rest - 1 ELSE due, now + 1, lengths)
        BY <3>1
      <3> HIDE DEF now, rest, At, byte
      <3>5. CASE at = "body"
        <4>1. ReadItem(Reader("body", due, now, lengths), Item("byte", now + 1), chunked)
                 = Reader("body", due, now + 1, lengths)
          BY ReadsBodyByte
        <4> QED BY <3>2, <3>3, <3>4, <3>5, <4>1
      <3>6. CASE at = "chunk"
        <4>1. ReadItem(Reader("chunk", rest, now, lengths), Item("byte", now + 1), chunked)
                 = Reader("chunk", rest - 1, now + 1, lengths)
          BY <3>1, ReadsChunkByte
        <4> QED BY <3>2, <3>3, <3>4, <3>6, <4>1
      <3> QED BY <3>5, <3>6
    <2> HIDE DEF Part, At
    <2>5. k \in 0..n
      OBVIOUS
    <2> QED BY <2>1, <2>3, <2>4, <2>5
  <1> HIDE DEF K
  <1>4. n \in K
    <2>1. \A k \in 0..n : k \in K
      BY <1>2, <1>3, RunInduction
    <2> QED BY <2>1
  <1>5. At(n) = Reader(at, Remains(at, due), found + n, lengths)
    <2>1. n - n = 0
      OBVIOUS
    <2> QED BY <2>1 DEF Remains
  <1> HIDE DEF At
  <1> QED BY <1>4, <1>5 DEF K

(* Responses: what the Connection knows and what the client has read.        *)
States == {"AWAITING_RESPONSE_BEGIN", "SENDING_RESPONSE_HEADERS", "SENDING_RESPONSE_BODY",
           "READING_HEADERS"}
Writers == [state : States, chunked : BOOLEAN, chunk : Nat, sent : Nat, wire : Seq(Items),
            open : BOOLEAN]

(* Where the client is once the header has ended, and where it is now.       *)
BodyPlace(w) == IF w.chunked THEN IF w.chunk = 0 THEN "size" ELSE "chunk" ELSE "body"
Place(w) ==
    IF w.state = "SENDING_RESPONSE_BODY" THEN BodyPlace(w)
    ELSE IF w.state = "READING_HEADERS" THEN IF w.chunked THEN "end" ELSE "body"
    ELSE "header"

Right(w, lengths) ==
    /\ w \in Writers /\ Read(w.wire, w.chunked) = Reader(Place(w), 0, w.sent, lengths)
    /\ w.state \in {"AWAITING_RESPONSE_BEGIN", "SENDING_RESPONSE_HEADERS"} =>
          w.chunk = 0 /\ w.sent = 0
    /\ w.state = "AWAITING_RESPONSE_BEGIN" => w.wire = <<>>

(* One item more on the wire, and nothing else is changed.                   *)
SameBut(v, w, wire, read) ==
    /\ v \in Writers /\ v.state = w.state /\ v.chunked = w.chunked /\ v.chunk = w.chunk
    /\ v.sent = w.sent /\ v.wire = wire /\ Read(v.wire, w.chunked) = read

(* Putting one item on the wire is one step of the client's reader.        *)
LEMMA PutOne ==
    ASSUME NEW w \in Writers, NEW item \in Items
    PROVE  SameBut(PutItems(w, <<item>>), w, Append(w.wire, item),
                   ReadItem(Read(w.wire, w.chunked), item, w.chunked))
  <1> DEFINE more == Append(w.wire, item)
             v == PutItems(w, <<item>>)
  <1>1. w.wire \in Seq(Items) /\ w.chunked \in BOOLEAN /\ more \in Seq(Items)
        /\ w.wire \o <<item>> = more
    BY DEF Writers
  <1>2. Read(more, w.chunked) = ReadItem(Read(w.wire, w.chunked), item, w.chunked)
    BY <1>1, ReadAppend
  <1> HIDE DEF more
  <1>3. v = [w EXCEPT !.wire = more]
    BY <1>1 DEF PutItems
  <1>4. /\ v \in Writers /\ v.state = w.state /\ v.chunked = w.chunked /\ v.chunk = w.chunk
        /\ v.sent = w.sent /\ v.wire = more
    BY <1>1, <1>3 DEF Writers
  <1> HIDE DEF v
  <1> QED BY <1>2, <1>4 DEF SameBut, v, more

(* begin() keeps the wire readable, and starts the headers.                *)
LEMMA BeginRight ==
    ASSUME NEW w, NEW lengths, Right(w, lengths), NEW chunked \in BOOLEAN
    PROVE  /\ Right(BeginResponse(w, chunked), lengths)
           /\ BeginResponse(w, chunked).sent = w.sent
           /\ w.state = "AWAITING_RESPONSE_BEGIN" =>
                 /\ BeginResponse(w, chunked).state = "SENDING_RESPONSE_HEADERS"
                 /\ BeginResponse(w, chunked).chunked = chunked
  <1> DEFINE v == BeginResponse(w, chunked)
             line == Item("line", 0)
  <1>1. CASE w.state # "AWAITING_RESPONSE_BEGIN"
    BY <1>1 DEF BeginResponse
  <1>2. CASE w.state = "AWAITING_RESPONSE_BEGIN"
    <2>1. /\ w \in Writers /\ w.wire = <<>> /\ w.chunk = 0 /\ w.sent = 0 /\ w.chunked \in BOOLEAN
          /\ Read(w.wire, w.chunked) = Reader("header", 0, 0, lengths)
      BY <1>2 DEF Right, Place, Writers
    <2>2. line \in Items /\ <<>> \in Seq(Items)
      BY DEF Items, Item
    <2>3. lengths = {}
      <3>1. Read(<<>>, w.chunked) = NewReader
        BY <2>1, <2>2, ReadAppend
      <3>2. Reader("header", 0, 0, lengths) = NewReader
        BY <2>1, <3>1
      <3> QED BY <3>2 DEF NewReader, Reader
    <2>4. /\ v = [PutItems(w, <<line>>) EXCEPT !.state = "SENDING_RESPONSE_HEADERS",
                                               !.chunked = chunked]
      BY <1>2 DEF BeginResponse
    <2> DEFINE p == PutItems(w, <<line>>)
    <2>5. p \in Writers /\ p.chunk = 0 /\ p.sent = 0 /\ p.wire = Append(<<>>, line)
      BY <2>1, <2>2, PutOne DEF SameBut
    <2> HIDE DEF p
    <2>6. /\ v \in Writers /\ v.state = "SENDING_RESPONSE_HEADERS" /\ v.chunked = chunked
          /\ v.chunk = 0 /\ v.sent = 0 /\ v.wire = Append(<<>>, line)
      BY <2>4, <2>5 DEF Writers, States, p
    <2> HIDE DEF v
    <2>7. Read(v.wire, chunked) = ReadItem(NewReader, line, chunked)
      BY <2>2, <2>6, ReadAppend
    <2>8. NewReader = Reader("header", 0, 0, {})
      BY DEF NewReader, Reader
    <2>9. Read(v.wire, chunked) = Reader("header", 0, 0, {})
      <3>1. ReadItem(Reader("header", 0, 0, {}), line, chunked) = Reader("header", 0, 0, {})
        BY ReadsLine
      <3> QED BY <2>7, <2>8, <3>1
    <2>10. Place(v) = "header"
      BY <2>6 DEF Place
    <2>11. Right(v, lengths)
      BY <2>3, <2>6, <2>9, <2>10 DEF Right
    <2> QED BY <2>1, <2>6, <2>11 DEF v
  <1> QED BY <1>1, <1>2

(* A line of the header, and the one that says the length.                   *)
LEMMA AddHeaderRight ==
    ASSUME NEW w, NEW lengths, Right(w, lengths), w.state = "SENDING_RESPONSE_HEADERS",
           NEW n \in Nat
    PROVE  \A is \in {"line", "length"} : LET v == AddHeader(w, Item(is, n)) IN
              /\ Right(v, IF is = "line" THEN lengths ELSE lengths \cup {n})
              /\ v.state = w.state /\ v.chunked = w.chunked /\ v.sent = w.sent
  <1> SUFFICES ASSUME NEW is \in {"line", "length"}
               PROVE  LET v == AddHeader(w, Item(is, n)) IN
                         /\ Right(v, IF is = "line" THEN lengths ELSE lengths \cup {n})
                         /\ v.state = w.state /\ v.chunked = w.chunked /\ v.sent = w.sent
    OBVIOUS
  <1> DEFINE v == AddHeader(w, Item(is, n))
             said == IF is = "line" THEN lengths ELSE lengths \cup {n}
  <1>1. /\ w \in Writers /\ w.chunked \in BOOLEAN /\ w.chunk = 0 /\ w.sent = 0
        /\ Read(w.wire, w.chunked) = Reader("header", 0, 0, lengths)
    BY DEF Right, Place, Writers
  <1>2. Item(is, n) \in Items
    BY DEF Items, Item
  <1>3. v = PutItems(w, <<Item(is, n)>>)
    BY DEF AddHeader
  <1>4. ReadItem(Reader("header", 0, 0, lengths), Item(is, n), w.chunked)
           = Reader("header", 0, 0, said)
    <2>1. ReadItem(Reader("header", 0, 0, lengths), Item("line", n), w.chunked)
             = Reader("header", 0, 0, lengths)
      BY <1>1, ReadsLine
    <2>2. ReadItem(Reader("header", 0, 0, lengths), Item("length", n), w.chunked)
             = Reader("header", 0, 0, lengths \cup {n})
      BY <1>1, ReadsLength
    <2> QED BY <2>1, <2>2
  <1> HIDE DEF v, said
  <1>5. SameBut(v, w, Append(w.wire, Item(is, n)), Reader("header", 0, 0, said))
    BY <1>1, <1>2, <1>3, <1>4, PutOne
  <1>6. /\ v \in Writers /\ v.state = w.state /\ v.chunked = w.chunked /\ v.sent = 0
        /\ v.chunk = 0 /\ Read(v.wire, v.chunked) = Reader("header", 0, 0, said)
    BY <1>1, <1>5 DEF SameBut
  <1>7. Right(v, said)
    BY <1>6 DEF Right, Place
  <1> QED BY <1>1, <1>6, <1>7 DEF v, said

(* The line that ends the header.                                            *)
LEMMA EndHeadersRight ==
    ASSUME NEW w, NEW lengths, Right(w, lengths), Sending(w)
    PROVE  \E wire : SameBut(EndHeaders(w), w, wire, Reader(BodyPlace(w), 0, w.sent, lengths))
  <1> DEFINE v == EndHeaders(w)
             blank == Item("blank", 0)
             read == Reader(BodyPlace(w), 0, w.sent, lengths)
  <1>1. w \in Writers /\ w.chunked \in BOOLEAN
    BY DEF Right, Writers
  <1>2. CASE w.state = "SENDING_RESPONSE_HEADERS"
    <2>1. w.chunk = 0 /\ w.sent = 0 /\ Read(w.wire, w.chunked) = Reader("header", 0, 0, lengths)
      BY <1>2 DEF Right, Place
    <2>2. read = Reader(IF w.chunked THEN "size" ELSE "body", 0, 0, lengths)
      BY <2>1 DEF BodyPlace
    <2>3. v = PutItems(w, <<blank>>) /\ blank \in Items
      BY <1>2 DEF EndHeaders, Items, Item
    <2> HIDE DEF v, read
    <2>4. ReadItem(Read(w.wire, w.chunked), blank, w.chunked) = read
      <3>1. ReadItem(Reader("header", 0, 0, lengths), blank, w.chunked)
               = Reader(IF w.chunked THEN "size" ELSE "body", 0, 0, lengths)
        BY <1>1, ReadsBlank
      <3> QED BY <2>1, <2>2, <3>1
    <2>5. SameBut(v, w, Append(w.wire, blank), read)
      BY <1>1, <2>3, <2>4, PutOne
    <2> QED BY <2>5 DEF v, read
  <1>3. CASE w.state # "SENDING_RESPONSE_HEADERS"
    <2>1. w.state = "SENDING_RESPONSE_BODY" /\ v = w
      BY <1>3 DEF Sending, EndHeaders
    <2>2. SameBut(v, w, w.wire, read)
      BY <1>1, <2>1 DEF Right, Place, SameBut
    <2> QED BY <2>2
  <1> QED BY <1>2, <1>3

(* A chunk size more, and nothing else is changed.                           *)
SameButChunk(v, w, read) ==
    /\ v \in Writers /\ v.state = w.state /\ v.chunked = TRUE /\ v.chunk = w.chunk + 1
    /\ v.sent = w.sent /\ Read(v.wire, TRUE) = read

(* chunkHeader() opens a chunk of the size that follows.                   *)
LEMMA ChunkHeaderRight ==
    ASSUME NEW w \in Writers, NEW found, NEW lengths, w.chunked = TRUE, NEW amount \in Nat,
           Read(w.wire, TRUE) = Reader(BodyPlace(w), 0, found, lengths)
    PROVE  SameButChunk(ChunkHeader(w, amount), w, Reader(Opens(amount), amount, found, lengths))
  <1> DEFINE v == ChunkHeader(w, amount)
             crlf == Item("crlf", 0)
             begun == Item("size", amount)
             separated == IF w.chunk > 0 THEN Append(w.wire, crlf) ELSE w.wire
             wire == Append(separated, begun)
  <1>1. /\ w.wire \in Seq(Items) /\ w.chunk \in Nat
        /\ crlf \in Items /\ begun \in Items
    BY DEF Writers, Items, Item
  <1>2. separated \in Seq(Items) /\ Read(separated, TRUE) = Reader("size", 0, found, lengths)
    <2>1. CASE w.chunk > 0
      <3>1. Read(w.wire, TRUE) = Reader("chunk", 0, found, lengths)
        <4>1. BodyPlace(w) = "chunk"
          BY <1>1, <2>1 DEF BodyPlace
        <4> QED BY <4>1
      <3>2. Read(Append(w.wire, crlf), TRUE) = ReadItem(Read(w.wire, TRUE), crlf, TRUE)
        BY <1>1, ReadAppend
      <3>3. ReadItem(Reader("chunk", 0, found, lengths), crlf, TRUE) =
               Reader("size", 0, found, lengths)
        BY ReadsChunkEnd
      <3>4. separated = Append(w.wire, crlf) /\ separated \in Seq(Items)
        BY <1>1, <2>1
      <3> QED BY <3>1, <3>2, <3>3, <3>4
    <2>2. CASE ~(w.chunk > 0)
      <3>1. w.chunk = 0 /\ separated = w.wire
        BY <1>1, <2>2
      <3>2. BodyPlace(w) = "size"
        BY <3>1 DEF BodyPlace
      <3> QED BY <1>1, <3>1, <3>2
    <2> QED BY <2>1, <2>2
  <1>3. Read(wire, TRUE) = Reader(Opens(amount), amount, found, lengths)
    <2>1. Read(wire, TRUE) = ReadItem(Read(separated, TRUE), begun, TRUE)
      <3> HIDE DEF separated, begun
      <3> QED BY <1>1, <1>2, ReadAppend
    <2>2. ReadItem(Reader("size", 0, found, lengths), begun, TRUE)
             = Reader(Opens(amount), amount, found, lengths)
      BY DEF ReadItem, Reader, Item, Opens
    <2> QED BY <1>2, <2>1, <2>2
  <1>4. w.wire \o ((IF w.chunk > 0 THEN <<crlf>> ELSE <<>>) \o <<begun>>) = wire
    <2> HIDE DEF crlf, begun
    <2>1. CASE w.chunk > 0
      <3>1. w.wire \o (<<crlf>> \o <<begun>>) = Append(Append(w.wire, crlf), begun)
        BY <1>1
      <3> QED BY <2>1, <3>1
    <2>2. CASE ~(w.chunk > 0)
      <3>1. w.wire \o (<<>> \o <<begun>>) = Append(w.wire, begun)
        BY <1>1
      <3> QED BY <2>2, <3>1
    <2> QED BY <2>1, <2>2
  <1>5. wire \in Seq(Items)
    BY <1>1, <1>2
  <1> DEFINE grown == w.chunk + 1
             put == PutItems(w, (IF w.chunk > 0 THEN <<crlf>> ELSE <<>>) \o <<begun>>)
  <1>6. put = [w EXCEPT !.wire = wire] /\ v = [put EXCEPT !.chunk = @ + 1] /\ grown \in Nat
    <2>1. v = [put EXCEPT !.chunk = @ + 1]
      BY DEF ChunkHeader
    <2>2. put = [w EXCEPT !.wire = @ \o ((IF w.chunk > 0 THEN <<crlf>> ELSE <<>>) \o <<begun>>)]
      BY DEF PutItems
    <2>3. grown \in Nat
      BY <1>1
    <2> HIDE DEF v, grown, wire, put, crlf, begun
    <2> QED BY <1>4, <2>1, <2>2, <2>3
  <1> HIDE DEF v, wire, put
  <1>7. /\ put \in Writers /\ put.state = w.state /\ put.chunked = TRUE /\ put.chunk = w.chunk
        /\ put.sent = w.sent /\ put.wire = wire
    BY <1>5, <1>6 DEF Writers
  <1>8. v = [put EXCEPT !.chunk = grown]
    BY <1>6, <1>7
  <1> HIDE DEF grown
  <1>9. /\ v \in Writers /\ v.state = w.state /\ v.chunked = TRUE /\ v.chunk = grown
        /\ v.sent = w.sent /\ v.wire = wire
    BY <1>6, <1>7, <1>8 DEF Writers
  <1> QED BY <1>3, <1>9 DEF SameButChunk, v, grown

(* payload(): the bytes follow, in a chunk of their own if there are any.    *)
LEMMA WritePayloadRight ==
    ASSUME NEW w, NEW lengths, Right(w, lengths), NEW amount \in Nat
    PROVE  LET v == WritePayload(w, amount) IN
              /\ Right(v, lengths)
              /\ ~Sending(w) => v = w
              /\ Sending(w) => /\ v.state = "SENDING_RESPONSE_BODY" /\ v.chunked = w.chunked
                               /\ v.sent = w.sent + amount
  <1> DEFINE v == WritePayload(w, amount)
             headed == [EndHeaders(w) EXCEPT !.state = "SENDING_RESPONSE_BODY"]
             framed == IF amount > 0 /\ w.chunked THEN ChunkHeader(headed, amount) ELSE headed
             at == IF amount > 0 /\ w.chunked THEN "chunk" ELSE BodyPlace(w)
             due == IF amount > 0 /\ w.chunked THEN amount ELSE 0
             bytes == Payload(w.sent, amount)
  <1>1. CASE ~Sending(w)
    BY <1>1 DEF WritePayload
  <1>2. CASE Sending(w)
    <2>1. w \in Writers /\ w.chunked \in BOOLEAN /\ w.sent \in Nat
      BY DEF Right, Writers
    <2>2. PICK ended : SameBut(EndHeaders(w), w, ended, Reader(BodyPlace(w), 0, w.sent, lengths))
      BY <1>2, EndHeadersRight
    <2>3. /\ headed \in Writers /\ headed.state = "SENDING_RESPONSE_BODY"
          /\ headed.chunked = w.chunked /\ headed.chunk = w.chunk /\ headed.sent = w.sent
          /\ Read(headed.wire, w.chunked) = Reader(BodyPlace(w), 0, w.sent, lengths)
      BY <2>2 DEF SameBut, Writers, States
    <2> HIDE DEF headed
    <2>4. BodyPlace(headed) = BodyPlace(w)
      BY <2>3 DEF BodyPlace
    <2>5. /\ framed \in Writers /\ framed.state = "SENDING_RESPONSE_BODY"
          /\ framed.chunked = w.chunked /\ framed.sent = w.sent
          /\ (amount > 0 /\ w.chunked) => framed.chunk = w.chunk + 1
          /\ ~(amount > 0 /\ w.chunked) => framed.chunk = w.chunk
          /\ Read(framed.wire, w.chunked) = Reader(at, due, w.sent, lengths)
      <3>1. CASE amount > 0 /\ w.chunked
        <4>1. /\ Read(headed.wire, TRUE) = Reader(BodyPlace(headed), 0, w.sent, lengths)
              /\ w.chunked = TRUE /\ headed.chunked = TRUE
          BY <2>1, <2>3, <2>4, <3>1
        <4> DEFINE c == ChunkHeader(headed, amount)
        <4>2. /\ c \in Writers /\ c.state = headed.state /\ c.chunked = TRUE
              /\ c.chunk = headed.chunk + 1
              /\ c.sent = headed.sent
              /\ Read(c.wire, TRUE) =
                    Reader(Opens(amount), amount, w.sent, lengths)
          <5>1. SameButChunk(c, headed, Reader(Opens(amount), amount, w.sent, lengths))
            BY <2>3, <4>1, ChunkHeaderRight
          <5> QED BY <5>1 DEF SameButChunk
        <4>3. Opens(amount) = "chunk"
          BY <3>1 DEF Opens
        <4>4. framed = c /\ at = "chunk" /\ due = amount /\ amount # 0
          BY <3>1
        <4> HIDE DEF c, framed, at, due
        <4> QED BY <2>3, <3>1, <4>1, <4>2, <4>3, <4>4
      <3>2. CASE ~(amount > 0 /\ w.chunked)
        <4>1. framed = headed /\ at = BodyPlace(w) /\ due = 0
          BY <3>2
        <4> HIDE DEF framed, at, due
        <4> QED BY <2>3, <3>2, <4>1
      <3> QED BY <3>1, <3>2
    <2>6. v = [PutItems(framed, bytes) EXCEPT !.sent = @ + amount]
      BY <1>2 DEF WritePayload, Payload, headed
    <2> HIDE DEF framed, v
    <2> DEFINE wire == framed.wire \o bytes
               after == Reader(IF (w.chunked /\ amount > 0) \/ (w.chunked /\ w.chunk > 0)
                                  THEN "chunk" ELSE BodyPlace(w), 0, w.sent + amount, lengths)
    <2>7. framed.wire \in Seq(Items)
      BY <2>5 DEF Writers
    <2>8. wire \in Seq(Items) /\ Read(wire, w.chunked) = after
      <3>1. CASE amount = 0
        <4>1. bytes = <<>> /\ w.sent + amount = w.sent /\ due = 0 /\ at = BodyPlace(w)
          BY <2>1, <3>1 DEF Payload
        <4>2. wire = framed.wire
          BY <2>7, <4>1
        <4>3. w.chunked /\ w.chunk > 0 => BodyPlace(w) = "chunk"
          BY <2>1 DEF BodyPlace, Writers
        <4>4. after = Reader(BodyPlace(w), 0, w.sent, lengths)
          BY <3>1, <4>1, <4>3
        <4> HIDE DEF after, wire, at, due
        <4> QED BY <2>5, <2>7, <4>1, <4>2, <4>4
      <3>2. CASE amount # 0
        <4>1. at = "body" \/ (at = "chunk" /\ due = amount)
          BY <2>1, <3>2 DEF BodyPlace
        <4>2. Read(framed.wire, w.chunked) = Reader(at, due, w.sent, lengths)
          BY <2>5
        <4>3. after = Reader(at, Remains(at, due), w.sent + amount, lengths)
          BY <2>1, <3>2 DEF BodyPlace, Remains
        <4> HIDE DEF at, due, after
        <4>4. wire \in Seq(Items) /\ Read(wire, w.chunked)
                 = Reader(at, Remains(at, due), w.sent + amount, lengths)
          <5> DEFINE items == framed.wire
                     chunked == w.chunked
                     found == w.sent
          <5>1. /\ items \in Seq(Items) /\ chunked \in BOOLEAN /\ found \in Nat
                /\ Read(items, chunked) = Reader(at, due, found, lengths)
            BY <2>1, <2>7, <4>2
          <5>2. wire = items \o Payload(found, amount)
            OBVIOUS
          <5> HIDE DEF items, chunked, found, wire
          <5>3. Read(items \o Payload(found, amount), chunked) =
                   Reader(at, Remains(at, due), found + amount, lengths)
            BY <4>1, <5>1, ReadPayload
          <5>4. items \o Payload(found, amount) \in Seq(Items)
            BY <3>2, <5>1, PayloadGrows
          <5> QED BY <5>2, <5>3, <5>4 DEF chunked, found
        <4> QED BY <4>3, <4>4
      <3> QED BY <3>1, <3>2
    <2> HIDE DEF bytes
    <2> DEFINE put == PutItems(framed, bytes)
               more == w.sent + amount
    <2>9. /\ put = [framed EXCEPT !.wire = wire] /\ v = [put EXCEPT !.sent = @ + amount]
          /\ more \in Nat
      BY <2>1, <2>6 DEF PutItems
    <2> HIDE DEF wire, put
    <2>10. /\ v \in Writers /\ v.state = "SENDING_RESPONSE_BODY" /\ v.chunked = w.chunked
           /\ v.chunk = framed.chunk /\ v.sent = w.sent + amount /\ v.wire = wire
      <3>1. /\ put \in Writers /\ put.state = framed.state /\ put.chunked = w.chunked
            /\ put.chunk = framed.chunk /\ put.sent = w.sent /\ put.wire = wire
        BY <2>5, <2>8, <2>9 DEF Writers
      <3>2. v = [put EXCEPT !.sent = more]
        BY <2>9, <3>1
      <3> HIDE DEF more
      <3>3. /\ v \in Writers /\ v.state = put.state /\ v.chunked = put.chunked
            /\ v.chunk = put.chunk /\ v.sent = more /\ v.wire = put.wire
        BY <2>9, <3>1, <3>2 DEF Writers
      <3> QED BY <2>5, <3>1, <3>3 DEF more
    <2>11. after = Reader(Place(v), 0, v.sent, lengths)
      <3>1. w.chunk \in Nat /\ Place(v) = BodyPlace(v)
        BY <2>1, <2>10 DEF Writers, Place
      <3>2. BodyPlace(v) = IF (w.chunked /\ amount > 0) \/ (w.chunked /\ w.chunk > 0)
                              THEN "chunk" ELSE BodyPlace(w)
        BY <2>5, <2>10, <3>1 DEF BodyPlace
      <3> QED BY <2>10, <3>1, <3>2
    <2> HIDE DEF after
    <2>12. Right(v, lengths)
      BY <2>8, <2>10, <2>11 DEF Right
    <2> QED BY <1>2, <2>10, <2>12 DEF v
  <1> QED BY <1>1, <1>2

(* finish(): the last chunk, or nothing.                                     *)
LEMMA FinishRight ==
    ASSUME NEW w, NEW lengths, Right(w, lengths), NEW keepOpen \in BOOLEAN
    PROVE  LET v == FinishResponse(w, keepOpen) IN
              /\ Right(v, lengths) /\ v.sent = w.sent
              /\ Sending(w) => v.state = "READING_HEADERS" /\ v.chunked = w.chunked
  <1> DEFINE v == FinishResponse(w, keepOpen)
             headed == EndHeaders(w)
             crlf == Item("crlf", 0)
             last == ChunkHeader(headed, 0)
             ended == IF w.chunked THEN PutItems(last, <<crlf>>) ELSE headed
             at == IF w.chunked THEN "end" ELSE "body"
  <1>1. CASE ~Sending(w)
    BY <1>1 DEF FinishResponse
  <1>2. CASE Sending(w)
    <2>1. w \in Writers /\ w.chunked \in BOOLEAN /\ w.sent \in Nat
      BY DEF Right, Writers
    <2>2. PICK wire : SameBut(headed, w, wire, Reader(BodyPlace(w), 0, w.sent, lengths))
      BY <1>2, EndHeadersRight
    <2>3. /\ headed \in Writers /\ headed.chunked = w.chunked /\ headed.chunk = w.chunk
          /\ headed.sent = w.sent
          /\ Read(headed.wire, w.chunked) = Reader(BodyPlace(w), 0, w.sent, lengths)
      BY <2>2 DEF SameBut
    <2>4. v = [ended EXCEPT !.state = "READING_HEADERS", !.open = keepOpen]
      BY <1>2 DEF FinishResponse
    <2> HIDE DEF headed, v
    <2>5. /\ ended \in Writers /\ ended.chunked = w.chunked /\ ended.sent = w.sent
          /\ Read(ended.wire, w.chunked) = Reader(at, 0, w.sent, lengths)
      <3>1. CASE w.chunked
        <4>1. w.chunked = TRUE /\ headed.chunked = TRUE /\ BodyPlace(headed) = BodyPlace(w)
              /\ 0 \in Nat /\ Read(headed.wire, TRUE) = Reader(BodyPlace(headed), 0, w.sent, lengths)
          BY <2>1, <2>3, <3>1 DEF BodyPlace
        <4>2. SameButChunk(last, headed, Reader(Opens(0), 0, w.sent, lengths))
          BY <2>3, <4>1, ChunkHeaderRight
        <4> HIDE DEF last
        <4>3. /\ last \in Writers /\ last.chunked = TRUE /\ last.sent = w.sent
              /\ Read(last.wire, TRUE) = Reader("last", 0, w.sent, lengths)
          BY <2>3, <4>2 DEF SameButChunk, Opens
        <4>4. crlf \in Items
          BY DEF Items, Item
        <4>5. ReadItem(Reader("last", 0, w.sent, lengths), crlf, TRUE)
                 = Reader("end", 0, w.sent, lengths)
          BY ReadsLastEnd
        <4> DEFINE put == PutItems(last, <<crlf>>)
        <4> HIDE DEF crlf
        <4>6. SameBut(put, last, Append(last.wire, crlf), Reader("end", 0, w.sent, lengths))
          BY <4>3, <4>4, <4>5, PutOne
        <4>7. ended = put /\ at = "end"
          BY <4>1
        <4> HIDE DEF put, ended, at
        <4> QED BY <4>1, <4>3, <4>6, <4>7 DEF SameBut
      <3>2. CASE ~w.chunked
        <4>1. BodyPlace(w) = "body" /\ ended = headed /\ at = "body"
          BY <3>2 DEF BodyPlace
        <4> HIDE DEF ended, at
        <4> QED BY <2>3, <4>1
      <3> QED BY <3>1, <3>2
    <2> HIDE DEF ended
    <2>6. /\ v \in Writers /\ v.state = "READING_HEADERS" /\ v.chunked = w.chunked
          /\ v.sent = w.sent /\ v.wire = ended.wire
      BY <2>4, <2>5 DEF Writers, States
    <2>7. Place(v) = at
      BY <2>6 DEF Place
    <2> HIDE DEF at
    <2>8. Right(v, lengths)
      BY <2>5, <2>6, <2>7 DEF Right
    <2> QED BY <2>6, <2>8 DEF v
  <1> QED BY <1>1, <1>2

(* handle() of a stream: full buffers, one after the other.                  *)
IsStreaming(whole, header, n) ==
    whole = [k \in 0..n |->
                IF k = 0 THEN header ELSE WritePayload(whole[k - 1], StreamBuffer)]

(* A streamed body has its intermediate writers.                           *)
LEMMA StreamExists ==
    ASSUME NEW n \in Nat, NEW header, Right(header, {})
    PROVE  \E whole : IsStreaming(whole, header, n)
  <1> DEFINE P == {w \in Writers : Right(w, {})}
             O == 1..n
             F == [x \in P \X O |-> WritePayload(x[1], StreamBuffer)]
  <1>1. header \in P
    BY DEF Right
  <1>2. ASSUME NEW w \in P PROVE WritePayload(w, StreamBuffer) \in P
    <2>1. StreamBuffer \in Nat /\ Right(w, {})
      BY BufferAssumption
    <2>2. Right(WritePayload(w, StreamBuffer), {})
      BY <2>1, WritePayloadRight
    <2> QED BY <2>2 DEF Right
  <1> HIDE DEF P
  <1>3. /\ F \in [P \X O -> P]
        /\ \A w \in P, k \in O : F[<<w, k>>] = WritePayload(w, StreamBuffer)
    BY <1>2
  <1> HIDE DEF F
  <1>4. PICK f : IsRun(f, P, F, header, n)
    BY <1>1, <1>3, RunExists
  <1>5. ASSUME NEW k \in 0..n, k # 0 PROVE f[k] = WritePayload(f[k - 1], StreamBuffer)
    <2>1. k \in O /\ k - 1 \in 0..n /\ f[k - 1] \in P
      BY <1>4, <1>5 DEF IsRun
    <2> QED BY <1>3, <1>4, <1>5, <2>1 DEF IsRun
  <1>6. f = [k \in 0..n |-> IF k = 0 THEN header ELSE WritePayload(f[k - 1], StreamBuffer)]
    BY <1>4, <1>5 DEF IsRun
  <1> QED BY <1>6, Zenon DEF IsStreaming

Streamed(w, sent) == Right(w, {}) /\ Sending(w) /\ w.sent = sent

(* Each buffer streamed keeps the wire readable, and is counted.           *)
LEMMA StreamRight ==
    ASSUME NEW n \in Nat, NEW header, NEW whole, IsStreaming(whole, header, n),
           Right(header, {}), Sending(header), header.sent = 0
    PROVE  Streamed(whole[n], n * StreamBuffer)
  <1> DEFINE K == {k \in 0..n : /\ Right(whole[k], {}) /\ Sending(whole[k])
                                /\ whole[k].sent = k * StreamBuffer}
  <1>1. StreamBuffer \in Nat
    BY BufferAssumption
  <1>2. /\ whole[0] = header
        /\ \A k \in 1..n : whole[k] = WritePayload(whole[k - 1], StreamBuffer)
    <2>1. 0 \in 0..n /\ \A k \in 1..n : k \in 0..n /\ k # 0
      OBVIOUS
    <2> QED BY <2>1 DEF IsStreaming
  <1>3. 0 \in K
    <2>1. 0 * StreamBuffer = 0 /\ 0 \in 0..n
      BY <1>1
    <2> QED BY <1>2, <2>1
  <1>4. ASSUME NEW k \in 1..n, k - 1 \in K PROVE k \in K
    <2> DEFINE w == whole[k - 1]
               v == WritePayload(w, StreamBuffer)
    <2>1. Right(w, {}) /\ Sending(w) /\ w.sent = (k - 1) * StreamBuffer
      BY <1>4
    <2>2. /\ Right(v, {}) /\ v.state = "SENDING_RESPONSE_BODY"
          /\ v.sent = w.sent + StreamBuffer
      <3> HIDE DEF w
      <3> QED BY <1>1, <2>1, WritePayloadRight
    <2>3. whole[k] = v
      BY <1>2
    <2>4. v.sent = k * StreamBuffer /\ k \in 0..n
      <3>1. (k - 1) * StreamBuffer + StreamBuffer = k * StreamBuffer
        BY <1>1, OneMore
      <3> QED BY <2>1, <2>2, <3>1
    <2>5. Sending(v)
      BY <2>2 DEF Sending
    <2> HIDE DEF w, v
    <2> QED BY <2>2, <2>3, <2>4, <2>5
  <1> HIDE DEF K
  <1>5. \A k \in 0..n : k \in K
    BY <1>3, <1>4, RunInduction
  <1> QED BY <1>5 DEF K, Streamed

-----------------------------------------------------------------------------
(* Responses: what is always so. The client is where the Connection's state  *)
(* and count of chunks say, and has found what the Connection sent; only a   *)
(* synchronous answer told it a length, and told it the right one.           *)
Lengths(w) == Read(w.wire, w.chunked).lengths

ResponsesIInv ==
    /\ kind \in {"none", "sync", "stream", "own"} /\ given \in Nat /\ lost \in BOOLEAN
    /\ Right(writer, Lengths(writer)) /\ (lost \/ writer.sent = given)
    /\ Lengths(writer) \subseteq IF kind = "sync" THEN {given} ELSE {}
    /\ kind = "none" => writer = NewWriter /\ given = 0 /\ ~lost
    /\ kind = "sync" => ~lost

(* The lengths a client reads are those the writer sent.                   *)
LEMMA LengthsAre ==
    ASSUME NEW w, NEW lengths, Right(w, lengths)
    PROVE  Lengths(w) = lengths
  BY DEF Lengths, Right, Reader

(* A writer that has sent nothing is right.                                *)
LEMMA NewIsRight == Right(NewWriter, {})
  <1>1. NewWriter \in Writers /\ NewWriter.wire = <<>> /\ NewWriter.sent = 0
    BY DEF NewWriter, Writers, States
  <1>2. Place(NewWriter) = "header" /\ NewReader = Reader("header", 0, 0, {})
    BY DEF NewWriter, Place, NewReader, Reader
  <1>3. Read(<<>>, NewWriter.chunked) = NewReader
    <2>1. /\ <<>> \in Seq(Items) /\ Item("crlf", 0) \in Items
          /\ NewWriter.chunked = FALSE /\ FALSE \in BOOLEAN
      BY DEF NewWriter, Items, Item
    <2> QED BY <2>1, ReadAppend
  <1> QED BY <1>1, <1>2, <1>3 DEF Right, NewWriter

(* What the response classes start from: begin() and one line.               *)
LEMMA HeaderRight ==
    ASSUME NEW n \in Nat, NEW chunked \in BOOLEAN, NEW is \in {"line", "length"}
    PROVE  LET header == AddHeader(BeginResponse(NewWriter, chunked), Item(is, n)) IN
              /\ Right(header, IF is = "line" THEN {} ELSE {n})
              /\ header.state = "SENDING_RESPONSE_HEADERS" /\ header.sent = 0
  <1> DEFINE begun == BeginResponse(NewWriter, chunked)
  <1>1. Right(begun, {}) /\ begun.state = "SENDING_RESPONSE_HEADERS" /\ begun.sent = 0
    <2>1. NewWriter.state = "AWAITING_RESPONSE_BEGIN" /\ NewWriter.sent = 0
      BY DEF NewWriter
    <2> QED BY <2>1, NewIsRight, BeginRight
  <1> HIDE DEF begun
  <1>2. \A s \in {"line", "length"} : LET v == AddHeader(begun, Item(s, n)) IN
           /\ Right(v, IF s = "line" THEN {} ELSE {} \cup {n})
           /\ v.state = begun.state /\ v.chunked = begun.chunked /\ v.sent = begun.sent
    BY <1>1, AddHeaderRight
  <1> QED BY <1>1, <1>2 DEF begun

(* A synchronous response keeps the invariant.                             *)
LEMMA SynchronousKeeps ==
    ASSUME NEW amount \in PayloadSizes, NEW keep \in BOOLEAN, ResponsesIInv, Synchronous(amount, keep)
    PROVE  ResponsesIInv'
  <1> DEFINE header == AddHeader(BeginResponse(writer, FALSE), Item("length", amount))
             more == AddHeader(header, Item("line", 0))
             paid == WritePayload(more, amount)
             done == FinishResponse(paid, keep)
  <1>1. /\ amount \in Nat /\ writer = NewWriter /\ lost = FALSE
        /\ kind' = "sync" /\ writer' = done /\ given' = amount /\ lost' = lost
    BY PayloadAssumption DEF ResponsesIInv, Synchronous
  <1>2. Right(header, {amount}) /\ header.state = "SENDING_RESPONSE_HEADERS" /\ header.sent = 0
    BY <1>1, HeaderRight
  <1> HIDE DEF header
  <1>3. Right(more, {amount}) /\ more.state = "SENDING_RESPONSE_HEADERS" /\ more.sent = 0
    <2>1. \A s \in {"line", "length"} : LET v == AddHeader(header, Item(s, 0)) IN
             /\ Right(v, IF s = "line" THEN {amount} ELSE {amount} \cup {0})
             /\ v.state = header.state /\ v.chunked = header.chunked /\ v.sent = header.sent
      BY <1>2, AddHeaderRight
    <2> QED BY <1>2, <2>1
  <1> HIDE DEF more
  <1>4. Right(paid, {amount}) /\ paid.sent = amount
    <2>1. Sending(more) /\ 0 + amount = amount
      BY <1>1, <1>3 DEF Sending
    <2> QED BY <1>1, <1>3, <2>1, WritePayloadRight
  <1> HIDE DEF paid
  <1>5. Right(done, {amount}) /\ done.sent = amount
    BY <1>4, FinishRight
  <1> HIDE DEF done
  <1>6. Lengths(done) = {amount}
    BY <1>5, LengthsAre
  <1>7. Lengths(writer)' = Lengths(done) /\ Right(writer, Lengths(writer))' = Right(done, Lengths(done))
    BY <1>1 DEF Lengths, Right, Place, BodyPlace
  <1> QED BY <1>1, <1>5, <1>6, <1>7 DEF ResponsesIInv

(* A streaming response, whole or cut short, keeps the invariant.          *)
LEMMA StreamingKeeps ==
    ASSUME NEW amount \in PayloadSizes, NEW good \in 0..MaxPayload, NEW chunked \in BOOLEAN,
           NEW keep \in BOOLEAN, ResponsesIInv, Streaming(amount, good, chunked, keep)
    PROVE  ResponsesIInv'
  <1> DEFINE full == good \div StreamBuffer
             header == AddHeader(BeginResponse(writer, chunked), Item("line", 0))
             whole == CHOOSE w : w = [k \in 0..full |->
                         IF k = 0 THEN header ELSE WritePayload(w[k - 1], StreamBuffer)]
             last == IF good = amount THEN WritePayload(whole[full], amount % StreamBuffer)
                     ELSE whole[full]
             done == FinishResponse(last, keep)
  <1>1. /\ amount \in Nat /\ good \in Nat /\ StreamBuffer \in Nat /\ StreamBuffer > 0
        /\ writer = NewWriter /\ good <= amount
        /\ kind' = "stream" /\ given' = amount /\ lost' = (good < amount)
    BY PayloadAssumption, BufferAssumption DEF ResponsesIInv, Streaming
  <1>2. writer' = done
    BY DEF Streaming
  <1>3. Right(header, {}) /\ Sending(header) /\ header.sent = 0
    <2>1. Right(header, {}) /\ header.state = "SENDING_RESPONSE_HEADERS" /\ header.sent = 0
      BY <1>1, HeaderRight
    <2> QED BY <2>1 DEF Sending
  <1> HIDE DEF header
  <1> DEFINE rest == amount % StreamBuffer
             sent == full * StreamBuffer
  <1>4. full \in Nat /\ rest \in Nat
    BY <1>1, DivideAndRest
  <1>12. good = amount => sent + rest = amount
    BY <1>1, DivideAndRest
  <1> HIDE DEF full, rest
  <1>5. IsStreaming(whole, header, full)
    <2>1. PICK w : w = [k \in 0..full |->
                         IF k = 0 THEN header ELSE WritePayload(w[k - 1], StreamBuffer)]
      <3> HIDE DEF sent
      <3>1. \E w : IsStreaming(w, header, full)
        BY <1>3, <1>4, StreamExists
      <3> QED BY <3>1 DEF IsStreaming
    <2> QED BY <2>1, Zenon DEF IsStreaming
  <1> HIDE DEF whole
  <1>6. Right(whole[full], {}) /\ Sending(whole[full]) /\ whole[full].sent = sent
    <2>1. Streamed(whole[full], full * StreamBuffer)
      BY <1>3, <1>4, <1>5, StreamRight
    <2> QED BY <2>1 DEF Streamed
  <1> HIDE DEF sent
  <1>7. Right(last, {}) /\ (good = amount => last.sent = amount)
    <2>1. CASE good = amount
      <3> DEFINE w == whole[full]
                 v == WritePayload(w, rest)
      <3>0. last = v
        BY <2>1 DEF rest
      <3>1. rest \in Nat /\ Right(w, {}) /\ Sending(w) /\ w.sent + rest = amount
        BY <1>4, <1>6, <1>12, <2>1
      <3> HIDE DEF w, last
      <3>2. Right(v, {}) /\ v.sent = w.sent + rest
        BY <3>1, WritePayloadRight
      <3> QED BY <3>0, <3>1, <3>2
    <2>2. CASE good # amount
      BY <1>6, <2>2
    <2> QED BY <2>1, <2>2
  <1> HIDE DEF last
  <1>8. Right(done, {}) /\ done.sent = last.sent
    BY <1>7, FinishRight
  <1> HIDE DEF done
  <1>9. Lengths(done) = {}
    BY <1>8, LengthsAre
  <1>10. Lengths(writer)' = Lengths(done)
         /\ Right(writer, Lengths(writer))' = Right(done, Lengths(done))
    BY <1>2 DEF Lengths, Right, Place, BodyPlace
  <1>11. lost' \/ done.sent = amount
    <2>1. good # amount => good < amount
      BY <1>1
    <2> QED BY <1>1, <1>7, <1>8, <2>1
  <1> QED BY <1>1, <1>2, <1>8, <1>9, <1>10, <1>11 DEF ResponsesIInv

OwnActs ==
    \/ \E chunked \in BOOLEAN : OwnBegins(chunked)
    \/ \E amount \in PayloadSizes : OwnPayload(amount)
    \/ \E keep \in BOOLEAN : OwnFinishes(keep)

(* A response that drives its own writer keeps the invariant.              *)
LEMMA OwnKeeps ==
    ASSUME ResponsesIInv, OwnActs
    PROVE  ResponsesIInv'
  <1>1. /\ Right(writer, Lengths(writer)) /\ (lost \/ writer.sent = given)
        /\ given \in Nat /\ lost \in BOOLEAN
    BY DEF ResponsesIInv
  <1>2. kind \in {"none", "own"} => Lengths(writer) = {}
    BY DEF ResponsesIInv
  <1>3. ASSUME NEW v, Right(v, Lengths(writer)), writer' = v, kind \in {"none", "own"}
        PROVE  Lengths(writer)' = {} /\ Right(writer, Lengths(writer))'
    <2>1. Lengths(v) = {}
      BY <1>2, <1>3, LengthsAre
    <2>2. /\ Lengths(writer)' = Lengths(v)
          /\ Right(writer, Lengths(writer))' = Right(v, Lengths(v))
      BY <1>3 DEF Lengths, Right, Place, BodyPlace
    <2> QED BY <1>2, <1>3, <2>1, <2>2
  <1>4. ASSUME NEW chunked \in BOOLEAN, OwnBegins(chunked) PROVE ResponsesIInv'
    <2> DEFINE v == BeginResponse(writer, chunked)
    <2>1. /\ kind \in {"none", "own"} /\ kind' = "own" /\ writer' = v
          /\ given' = given /\ lost' = lost
      BY <1>4 DEF OwnBegins
    <2>2. Right(v, Lengths(writer)) /\ v.sent = writer.sent
      BY <1>1, BeginRight
    <2> HIDE DEF v
    <2>3. Lengths(writer)' = {} /\ Right(writer, Lengths(writer))'
      BY <1>3, <2>1, <2>2
    <2> QED BY <1>1, <2>1, <2>2, <2>3 DEF ResponsesIInv
  <1>5. ASSUME NEW amount \in PayloadSizes, OwnPayload(amount) PROVE ResponsesIInv'
    <2> DEFINE v == WritePayload(writer, amount)
    <2>1. /\ kind = "own" /\ kind' = "own" /\ writer' = v /\ amount \in Nat
          /\ given' = given + (IF Sending(writer) THEN amount ELSE 0) /\ lost' = lost
      BY <1>5, PayloadAssumption DEF OwnPayload
    <2>2. /\ Right(v, Lengths(writer))
          /\ v.sent = IF Sending(writer) THEN writer.sent + amount ELSE writer.sent
      BY <1>1, <2>1, WritePayloadRight
    <2>3. given' \in Nat /\ (lost \/ v.sent = given')
      BY <1>1, <2>1, <2>2
    <2> HIDE DEF v
    <2>4. Lengths(writer)' = {} /\ Right(writer, Lengths(writer))'
      BY <1>3, <2>1, <2>2
    <2> QED BY <1>1, <2>1, <2>3, <2>4 DEF ResponsesIInv
  <1>6. ASSUME NEW keep \in BOOLEAN, OwnFinishes(keep) PROVE ResponsesIInv'
    <2> DEFINE v == FinishResponse(writer, keep)
    <2>1. kind = "own" /\ kind' = "own" /\ writer' = v /\ given' = given /\ lost' = lost
      BY <1>6 DEF OwnFinishes
    <2>2. Right(v, Lengths(writer)) /\ v.sent = writer.sent
      BY <1>1, FinishRight
    <2> HIDE DEF v
    <2>3. Lengths(writer)' = {} /\ Right(writer, Lengths(writer))'
      BY <1>3, <2>1, <2>2
    <2> QED BY <1>1, <2>1, <2>2, <2>3 DEF ResponsesIInv
  <1> QED BY <1>4, <1>5, <1>6 DEF OwnActs

(* Whatever the sizes of the payloads, the size of the stream's buffer and   *)
(* the order of the application's calls: a client that reads the bytes of    *)
(* Connection::payload(), writeChunkHeader() and finish() finds every byte   *)
(* of the body, and its end when finish() was called and not before.         *)
THEOREM AnswersEndWhereTheySay == ResponsesSpec => []BodyEndsWhereItSays
  <1>1. ResponsesInit => ResponsesIInv
    <2> SUFFICES ASSUME ResponsesInit PROVE ResponsesIInv
      OBVIOUS
    <2>1. writer = NewWriter /\ kind = "none" /\ given = 0 /\ lost = FALSE
      BY DEF ResponsesInit
    <2>2. Lengths(NewWriter) = {} /\ NewWriter.sent = 0
      BY NewIsRight, LengthsAre DEF NewWriter
    <2> QED BY <2>1, <2>2, NewIsRight DEF ResponsesIInv
  <1>2. ResponsesIInv /\ [ResponsesNext]_rsvars => ResponsesIInv'
    <2> SUFFICES ASSUME ResponsesIInv, [ResponsesNext]_rsvars PROVE ResponsesIInv'
      OBVIOUS
    <2>1. ASSUME NEW amount \in PayloadSizes, NEW keep \in BOOLEAN, Synchronous(amount, keep)
          PROVE  ResponsesIInv'
      BY <2>1, SynchronousKeeps
    <2>2. ASSUME NEW amount \in PayloadSizes, NEW good \in 0..MaxPayload, NEW chunked \in BOOLEAN,
                 NEW keep \in BOOLEAN, Streaming(amount, good, chunked, keep)
          PROVE  ResponsesIInv'
      BY <2>2, StreamingKeeps
    <2>3. ASSUME OwnActs PROVE ResponsesIInv'
      BY <2>3, OwnKeeps
    <2>4. ASSUME UNCHANGED rsvars PROVE ResponsesIInv'
      BY <2>4 DEF rsvars, ResponsesIInv, Lengths, Right, Place, BodyPlace
    <2> QED BY <2>1, <2>2, <2>3, <2>4 DEF ResponsesNext, OwnActs
  <1>3. ResponsesIInv => BodyEndsWhereItSays
    <2> SUFFICES ASSUME ResponsesIInv PROVE BodyEndsWhereItSays
      OBVIOUS
    <2> DEFINE w == writer
               read == Read(w.wire, w.chunked)
               said == Lengths(w)
    <2>1. /\ w \in Writers /\ w.chunked \in BOOLEAN /\ w.state \in States
          /\ read = Reader(Place(w), 0, w.sent, said)
      BY DEF ResponsesIInv, Right, Writers
    <2>2. read.at = Place(w) /\ read.found = w.sent /\ read.lengths = said
      <3> HIDE DEF read, said
      <3> QED BY <2>1 DEF Reader
    <2>3. (lost \/ w.sent = given) /\ said \subseteq {w.sent}
      BY DEF ResponsesIInv
    <2>4. Place(w) # "lost"
      BY DEF Place, BodyPlace
    <2>5. w.chunked => (Place(w) = "end" <=> w.state = "READING_HEADERS")
      BY DEF Place, BodyPlace
    <2>6. w.state = "READING_HEADERS" /\ ~w.chunked => Place(w) = "body"
      BY DEF Place
    <2> HIDE DEF said
    <2> QED BY <2>2, <2>3, <2>4, <2>5, <2>6 DEF BodyEndsWhereItSays
  <1> QED BY <1>1, <1>2, <1>3, PTL DEF ResponsesSpec

-----------------------------------------------------------------------------
(* CrackedUri: split().                                                      *)
Codes == Seq(Int)
Parts == Seq(Codes) \ {<<>>}

(* Two texts join into a text as long as both.                             *)
LEMMA CodesJoin == \A u, v \in Codes : u \o v \in Codes /\ Len(u \o v) = Len(u) + Len(v)
  BY ConcatProperties DEF Codes

(* Three texts join the same way from either end.                          *)
LEMMA CodesRegroup == \A u, v, w \in Codes : (u \o v) \o w = u \o (v \o w)
  <1>1. ASSUME NEW u \in Seq(Int), NEW v \in Seq(Int), NEW w \in Seq(Int)
        PROVE  (u \o v) \o w = u \o (v \o w)
    BY ConcatAssociative, SMTT(20)
  <1> QED BY <1>1, Zenon DEF Codes

(* What follows the same text is the same.                                 *)
LEMMA CodesCancel == \A u, v, w \in Codes : u \o v = u \o w => v = w
  BY ConcatSimplifications DEF Codes

(* One character more.                                                       *)
SplitStep(parts, x, c) == IF x = c THEN Append(parts, <<>>) ELSE Extend(parts, x)

(* A character either starts a part or ends up in the last one.            *)
LEMMA SplitStepIs ==
    ASSUME NEW parts \in Parts, NEW x \in Int, NEW c \in Int
    PROVE  LET more == SplitStep(parts, x, c)
               n == Len(parts)
           IN  /\ more \in Parts /\ n \in Nat /\ n >= 1
               /\ x = c => Len(more) = n + 1 /\ more[n + 1] = <<>>
                           /\ \A k \in 1..n : more[k] = parts[k]
               /\ x # c => Len(more) = n /\ more[n] = Append(parts[n], x)
                           /\ \A k \in 1..n - 1 : more[k] = parts[k]
  <1> DEFINE n == Len(parts)
  <1>1. n \in Nat /\ n >= 1 /\ parts \in Seq(Codes)
    BY EmptySeq DEF Parts
  <1>2. CASE x = c
    <2> DEFINE more == Append(parts, <<>>)
    <2>1. SplitStep(parts, x, c) = more /\ <<>> \in Codes
      BY <1>2 DEF SplitStep, Codes
    <2>2. more \in Seq(Codes) /\ Len(more) = n + 1 /\ more[n + 1] = <<>>
          /\ \A k \in 1..n : more[k] = parts[k]
      BY <1>1, <2>1, AppendProperties
    <2>3. more # <<>>
      BY <1>1, <2>2
    <2> HIDE DEF more
    <2> QED BY <1>1, <1>2, <2>1, <2>2, <2>3 DEF Parts
  <1>3. CASE x # c
    <2> DEFINE last == Append(parts[n], x)
               more == [parts EXCEPT ![n] = last]
    <2>1. parts[n] \in Codes /\ n \in 1..n
      BY <1>1
    <2>2. last \in Codes
      BY <2>1, AppendProperties DEF Codes
    <2>3. SplitStep(parts, x, c) = more
      BY <1>3 DEF SplitStep, Extend
    <2> HIDE DEF last
    <2>4. more \in Seq(Codes) /\ Len(more) = n /\ more[n] = last
          /\ \A k \in 1..n - 1 : more[k] = parts[k]
      BY <1>1, <2>1, <2>2, ExceptSeq
    <2> HIDE DEF more
    <2>5. more # <<>>
      BY <1>1, <2>4
    <2> QED BY <1>1, <1>3, <2>3, <2>4, <2>5 DEF Parts, last
  <1> QED BY <1>2, <1>3

(* split() is a run over the characters.                                     *)
IsSplit(f, text, c) ==
    /\ f \in [0..Len(text) -> Parts] /\ f[0] = <<<<>>>>
    /\ \A k \in 1..Len(text) : f[k] = SplitStep(f[k - 1], text[k], c)

(* Splitting a text has its intermediate parts.                            *)
LEMMA SplitIsRun ==
    ASSUME NEW text \in Codes, NEW c \in Int
    PROVE  \E f : IsSplit(f, text, c) /\ SplitAll(text, c) = f[Len(text)]
  <1> DEFINE n == Len(text)
             base == <<<<>>>>
             G == CHOOSE parts : parts = [k \in 0..n |->
                     IF k = 0 THEN <<<<>>>>
                     ELSE IF text[k] = c THEN Append(parts[k - 1], <<>>)
                          ELSE Extend(parts[k - 1], text[k])]
             F == [x \in Parts \X (1..n) |-> SplitStep(x[1], text[x[2]], c)]
  <1>1. n \in Nat /\ \A k \in 1..n : text[k] \in Int
    BY DEF Codes
  <1>2. base \in Parts
    <2>1. <<>> \in Codes /\ base # <<>>
      BY DEF Codes
    <2> QED BY <2>1 DEF Parts
  <1>3. F \in [Parts \X (1..n) -> Parts] /\ \A x \in Parts, k \in 1..n : F[<<x, k>>] = SplitStep(x, text[k], c)
    BY <1>1, SplitStepIs
  <1> HIDE DEF F, base
  <1>4. PICK f : IsRun(f, Parts, F, base, n)
    BY <1>1, <1>2, <1>3, RunExists
  <1>5. \A k \in 1..n : k \in 0..n /\ k # 0 /\ k - 1 \in 0..n
    BY <1>1
  <1>6. IsSplit(f, text, c)
    <2>1. ASSUME NEW k \in 1..n PROVE f[k] = SplitStep(f[k - 1], text[k], c)
      BY <1>3, <1>4, <1>5 DEF IsRun
    <2>2. 0 \in 0..n
      BY <1>1
    <2> QED BY <1>4, <2>1, <2>2 DEF IsRun, IsSplit, base
  <1>7. f = [k \in 0..n |->
               IF k = 0 THEN <<<<>>>>
               ELSE IF text[k] = c THEN Append(f[k - 1], <<>>) ELSE Extend(f[k - 1], text[k])]
    <2>1. ASSUME NEW k \in 0..n, k # 0 PROVE k \in 1..n
      BY <1>1, <2>1
    <2> QED BY <1>6, <2>1 DEF IsSplit, SplitStep
  <1>8. G = [k \in 0..n |->
               IF k = 0 THEN <<<<>>>>
               ELSE IF text[k] = c THEN Append(G[k - 1], <<>>) ELSE Extend(G[k - 1], text[k])]
    BY <1>7, Zenon
  <1>9. SplitAll(text, c) = G[n]
    BY DEF SplitAll
  <1> HIDE DEF G
  <1>10. G[0] = <<<<>>>> /\ \A k \in 1..n : G[k] = SplitStep(G[k - 1], text[k], c)
    <2>1. ASSUME NEW k \in 1..n PROVE G[k] = SplitStep(G[k - 1], text[k], c)
      BY <1>5, <1>8 DEF SplitStep
    <2>2. 0 \in 0..n
      BY <1>1
    <2> QED BY <1>8, <2>1, <2>2
  <1> DEFINE K == {k \in 0..n : G[k] = f[k]}
  <1>11. \A k \in 0..n : k \in K
    <2>1. 0 \in K
      BY <1>1, <1>6, <1>10 DEF IsSplit
    <2>2. ASSUME NEW k \in 1..n, k - 1 \in K PROVE k \in K
      BY <1>5, <1>6, <1>10, <2>2 DEF IsSplit
    <2> HIDE DEF K
    <2> QED BY <1>1, <2>1, <2>2, RunInduction
  <1>12. n \in 0..n
    BY <1>1
  <1> QED BY <1>6, <1>9, <1>11, <1>12

(* A part that has begun takes the characters up to the next separator.      *)
Grew(f, text, i, j, L) ==
    /\ f[j] \in Parts /\ Len(f[j]) = L /\ \A k \in 1..L - 1 : f[j][k] = f[i][k]
    /\ f[j][L] \in Codes /\ Len(f[j][L]) = j - i
    /\ \A m \in 1..j - i : f[j][L][m] = text[i + m]

(* Between two separators the last part grows, character by character.     *)
LEMMA PartGrows ==
    ASSUME NEW text \in Codes, NEW c \in Int, NEW f, IsSplit(f, text, c),
           NEW i \in 0..Len(text), NEW j \in i..Len(text), \A m \in i + 1..j : text[m] # c,
           f[i][Len(f[i])] = <<>>
    PROVE  Grew(f, text, i, j, Len(f[i]))
  <1> DEFINE n == Len(text)
             L == Len(f[i])
             d == j - i
             Grown(p, h) == /\ p \in Parts /\ Len(p) = L /\ \A k \in 1..L - 1 : p[k] = f[i][k]
                            /\ p[L] \in Codes /\ Len(p[L]) = h
                            /\ \A m \in 1..h : p[L][m] = text[i + m]
             K == {h \in 0..d : Grown(f[i + h], h)}
  <1>1. /\ n \in Nat /\ i \in Nat /\ j \in Nat /\ d \in Nat /\ i + d = j /\ i + d <= n
        /\ \A m \in 1..n : text[m] \in Int
    BY DEF Codes
  <1>2. \A k \in 0..n : f[k] \in Parts
    BY DEF IsSplit
  <1>3. f[i] \in Parts /\ f[i + 0] = f[i]
    BY <1>1, <1>2
  <1>4. L \in Nat /\ L >= 1 /\ f[i] \in Seq(Codes)
    BY <1>3, EmptySeq DEF Parts
  <1>5. 0 \in K
    <2>1. <<>> \in Codes /\ Len(<<>>) = 0 /\ 0 \in 0..d
      BY <1>1 DEF Codes
    <2>2. Grown(f[i], 0)
      BY <1>3, <1>4, <2>1
    <2> HIDE DEF Grown, L
    <2> QED BY <1>3, <2>1, <2>2
  <1>6. ASSUME NEW h \in 1..d, h - 1 \in K PROVE h \in K
    <2> DEFINE p == f[i + (h - 1)]
               q == f[i + h]
               x == text[i + h]
    <2>1. /\ i + h \in 1..n /\ i + h - 1 = i + (h - 1) /\ i + h \in i + 1..j /\ h \in 0..d
          /\ h - 1 \in Nat /\ h \in Nat
      BY <1>1
    <2>2. q = SplitStep(p, x, c) /\ x # c /\ x \in Int
      <3>1. q = SplitStep(f[i + h - 1], x, c)
        BY <2>1 DEF IsSplit
      <3> QED BY <1>1, <2>1, <3>1
    <2>3. Grown(p, h - 1)
      BY <1>6
    <2> HIDE DEF p, q, x, L
    <2>4. p \in Parts /\ Len(p) = L
      BY <2>3
    <2>5. /\ q \in Parts /\ Len(q) = L /\ q[L] = Append(p[L], x)
          /\ \A k \in 1..L - 1 : q[k] = p[k]
      BY <2>2, <2>4, SplitStepIs
    <2>6. /\ q[L] \in Codes /\ Len(q[L]) = h /\ q[L][h] = x
          /\ \A m \in 1..h - 1 : q[L][m] = p[L][m]
      <3>1. p[L] \in Seq(Int) /\ Len(p[L]) = h - 1 /\ (h - 1) + 1 = h
        BY <2>1, <2>3 DEF Codes
      <3>2. /\ Append(p[L], x) \in Seq(Int) /\ Len(Append(p[L], x)) = Len(p[L]) + 1
            /\ \A m \in 1..Len(p[L]) : Append(p[L], x)[m] = p[L][m]
            /\ Append(p[L], x)[Len(p[L]) + 1] = x
        BY <2>2, <3>1, AppendProperties
      <3> QED BY <2>1, <2>5, <3>1, <3>2 DEF Codes
    <2>7. \A m \in 1..h : q[L][m] = text[i + m]
      <3>1. ASSUME NEW m \in 1..h PROVE q[L][m] = text[i + m]
        <4>1. m = h \/ m \in 1..h - 1
          BY <2>1
        <4> QED BY <2>3, <2>6, <4>1 DEF x
      <3> QED BY <3>1
    <2>8. \A k \in 1..L - 1 : q[k] = f[i][k]
      BY <2>3, <2>5
    <2>9. Grown(q, h)
      BY <2>5, <2>6, <2>7, <2>8
    <2> HIDE DEF Grown
    <2> QED BY <2>1, <2>9 DEF q
  <1>7. \A h \in 0..d : h \in K
    <2> HIDE DEF K, d
    <2> QED BY <1>1, <1>5, <1>6, RunInduction
  <1>8. Grown(f[i + d], d)
    <2>1. d \in 0..d
      BY <1>1
    <2> HIDE DEF Grown, d
    <2> QED BY <1>7, <2>1
  <1>9. Grown(f[j], d)
    <2> HIDE DEF Grown, d
    <2> QED BY <1>1, <1>8
  <1> QED BY <1>9 DEF Grew

(* A text without separators is one part.                                    *)
LEMMA SplitOne ==
    ASSUME NEW text \in Codes, NEW c \in Int, \A m \in 1..Len(text) : text[m] # c
    PROVE  SplitAll(text, c) = <<text>>
  <1> DEFINE n == Len(text)
  <1>1. PICK f : IsSplit(f, text, c) /\ SplitAll(text, c) = f[n]
    BY SplitIsRun
  <1>2. n \in Nat /\ 0 \in 0..n /\ n \in 0..n /\ 0 + 1 = 1 /\ n - 0 = n
    BY DEF Codes
  <1>3. f[0] = <<<<>>>> /\ Len(f[0]) = 1 /\ f[0][Len(f[0])] = <<>>
    BY <1>1 DEF IsSplit
  <1>4. /\ f[n] \in Parts /\ Len(f[n]) = 1 /\ f[n][1] \in Codes /\ Len(f[n][1]) = n
        /\ \A m \in 1..n : f[n][1][m] = text[m]
    <2>1. \A m \in 0 + 1..n : text[m] # c
      BY <1>2
    <2>2. \A m \in 1..n : 0 + m = m
      BY <1>2
    <2>3. Grew(f, text, 0, n, Len(f[0]))
      BY <1>1, <1>2, <1>3, <2>1, PartGrows
    <2> HIDE DEF n
    <2> QED BY <1>2, <1>3, <2>2, <2>3 DEF Grew
  <1>5. f[n][1] = text
    BY <1>4, SeqEqual DEF Codes
  <1>6. <<text>> \in Seq(Codes) /\ f[n] \in Seq(Codes)
    BY <1>4 DEF Parts
  <1> HIDE DEF n
  <1>7. f[n] = <<text>>
    BY <1>4, <1>5, <1>6, SeqEqual
  <1> QED BY <1>1, <1>7

(* One separator makes two parts.                                            *)
LEMMA SplitTwo ==
    ASSUME NEW a \in Codes, NEW b \in Codes, NEW c \in Int,
           \A m \in 1..Len(a) : a[m] # c, \A m \in 1..Len(b) : b[m] # c
    PROVE  /\ a \o <<c>> \o b \in Codes /\ Len(a \o <<c>> \o b) = Len(a) + 1 + Len(b)
           /\ SplitAll(a \o <<c>> \o b, c) = <<a, b>>
  <1> DEFINE text == a \o <<c>> \o b
             n == Len(text)
             h == Len(a)
  <1>1. <<c>> \in Codes /\ Len(<<c>>) = 1 /\ <<c>>[1] = c
    BY DEF Codes
  <1>2. /\ a \o <<c>> \in Codes /\ Len(a \o <<c>>) = h + 1
        /\ \A i \in 1..h + 1 : (a \o <<c>>)[i] = IF i <= h THEN a[i] ELSE <<c>>[i - h]
    BY <1>1, ConcatProperties DEF Codes
  <1>3. /\ text \in Codes /\ n = (h + 1) + Len(b)
        /\ \A i \in 1..(h + 1) + Len(b) : text[i] = IF i <= h + 1 THEN (a \o <<c>>)[i] ELSE b[i - (h + 1)]
    <2> DEFINE u == a \o <<c>>
    <2>1. u \in Seq(Int) /\ b \in Seq(Int) /\ Len(u) = h + 1
      BY <1>2 DEF Codes
    <2> HIDE DEF u, h
    <2>2. /\ u \o b \in Seq(Int) /\ Len(u \o b) = Len(u) + Len(b)
          /\ \A i \in 1..Len(u) + Len(b) : (u \o b)[i] = IF i <= Len(u) THEN u[i] ELSE b[i - Len(u)]
      BY <2>1, ConcatProperties
    <2> QED BY <2>1, <2>2 DEF u, Codes
  <1>4. h \in Nat /\ n \in Nat /\ Len(b) \in Nat /\ h + 1 \in 1..n /\ n = h + 1 + Len(b)
    <2>1. h \in Nat /\ Len(b) \in Nat
      BY DEF Codes
    <2> QED BY <1>3, <2>1
  <1> HIDE DEF text
  <1>5. /\ \A m \in 1..h : text[m] = a[m]
        /\ text[h + 1] = c
        /\ \A m \in 1..Len(b) : text[h + 1 + m] = b[m]
    <2> HIDE DEF h, n
    <2>1. ASSUME NEW m \in 1..h PROVE text[m] = a[m]
      <3>1. m \in 1..(h + 1) + Len(b) /\ m <= h + 1 /\ m \in 1..h + 1 /\ m <= h
        BY <1>4
      <3> QED BY <1>2, <1>3, <3>1
    <2>2. text[h + 1] = c
      <3>1. h + 1 \in 1..(h + 1) + Len(b) /\ h + 1 <= h + 1 /\ h + 1 \in 1..h + 1 /\ ~(h + 1 <= h)
            /\ (h + 1) - h = 1
        BY <1>4
      <3> QED BY <1>1, <1>2, <1>3, <3>1
    <2>3. ASSUME NEW m \in 1..Len(b) PROVE text[h + 1 + m] = b[m]
      <3>1. h + 1 + m \in 1..(h + 1) + Len(b) /\ ~(h + 1 + m <= h + 1) /\ (h + 1 + m) - (h + 1) = m
        BY <1>4
      <3> QED BY <1>3, <3>1
    <2> QED BY <2>1, <2>2, <2>3
  <1>6. PICK f : IsSplit(f, text, c) /\ SplitAll(text, c) = f[n]
    BY <1>3, SplitIsRun
  <1>7. f[0] = <<<<>>>> /\ Len(f[0]) = 1 /\ f[0][Len(f[0])] = <<>>
    BY <1>6 DEF IsSplit
  <1> HIDE DEF n, h
  <1>8. /\ f[h] \in Parts /\ Len(f[h]) = 1 /\ f[h][1] \in Codes /\ Len(f[h][1]) = h
        /\ \A m \in 1..h : f[h][1][m] = a[m]
    <2>1. 0 \in 0..n /\ h \in 0..n /\ 0 + 1 = 1 /\ h - 0 = h /\ \A m \in 1..h : 0 + m = m
      BY <1>4
    <2>2. \A m \in 0 + 1..h : text[m] # c
      BY <1>5, <2>1 DEF h
    <2>3. Grew(f, text, 0, h, Len(f[0]))
      BY <1>3, <1>6, <1>7, <2>1, <2>2, PartGrows DEF n
    <2> QED BY <1>5, <1>7, <2>1, <2>3 DEF Grew
  <1>9. f[h][1] = a
    BY <1>8, SeqEqual DEF Codes, h
  <1>10. /\ f[h + 1] \in Parts /\ Len(f[h + 1]) = 2 /\ f[h + 1][2] = <<>> /\ f[h + 1][1] = a
    <2>1. f[h + 1] = SplitStep(f[h + 1 - 1], text[h + 1], c)
      BY <1>4, <1>6 DEF IsSplit, n
    <2>2. f[h + 1] = SplitStep(f[h], c, c)
      BY <1>4, <1>5, <2>1
    <2> DEFINE p == f[h]
               q == f[h + 1]
    <2>3. p \in Parts /\ Len(p) = 1 /\ p[1] = a /\ q = SplitStep(p, c, c)
      BY <1>8, <1>9, <2>2
    <2> HIDE DEF p, q
    <2>4. q \in Parts /\ Len(q) = Len(p) + 1 /\ q[Len(p) + 1] = <<>> /\ \A k \in 1..Len(p) : q[k] = p[k]
      BY <2>3, SplitStepIs
    <2>5. q \in Parts /\ Len(q) = 2 /\ q[2] = <<>> /\ q[1] = a
      BY <2>3, <2>4
    <2> QED BY <2>5 DEF q
  <1>11. /\ f[n] \in Parts /\ Len(f[n]) = 2 /\ f[n][1] = a
         /\ f[n][2] \in Codes /\ Len(f[n][2]) = Len(b) /\ \A m \in 1..Len(b) : f[n][2][m] = b[m]
    <2>1. h + 1 \in 0..n /\ n \in h + 1..n /\ n - (h + 1) = Len(b)
      BY <1>4
    <2>2. \A m \in h + 1 + 1..n : text[m] # c
      <3>1. ASSUME NEW m \in h + 1 + 1..n PROVE text[m] # c
        <4>1. m - (h + 1) \in 1..Len(b) /\ h + 1 + (m - (h + 1)) = m
          BY <1>4
        <4> QED BY <1>5, <4>1
      <3> QED BY <3>1
    <2>3. f[h + 1][Len(f[h + 1])] = <<>>
      BY <1>10
    <2>4. Grew(f, text, h + 1, n, Len(f[h + 1]))
      BY <1>3, <1>6, <2>1, <2>2, <2>3, PartGrows DEF n
    <2>5. 1 \in 1..2 - 1
      OBVIOUS
    <2> QED BY <1>5, <1>10, <2>1, <2>4, <2>5 DEF Grew
  <1>12. f[n][2] = b
    BY <1>11, SeqEqual DEF Codes
  <1>13. f[n] = <<a, b>>
    <2>1. <<a, b>> \in Seq(Codes) /\ f[n] \in Seq(Codes) /\ Len(<<a, b>>) = 2
          /\ <<a, b>>[1] = a /\ <<a, b>>[2] = b
      BY <1>11 DEF Parts
    <2>2. \A k \in 1..2 : f[n][k] = <<a, b>>[k]
      <3>1. \A k \in 1..2 : k = 1 \/ k = 2
        OBVIOUS
      <3> QED BY <1>11, <1>12, <2>1, <3>1
    <2> QED BY <1>11, <2>1, <2>2, SeqEqual
  <1>14. n = h + 1 + Len(b)
    BY <1>4
  <1> QED BY <1>3, <1>6, <1>13, <1>14 DEF text, n, h

(* Where in the first m characters' parts the character at i is: it is       *)
(* followed by what followed it, up to the next separator.                   *)
Placed(p, text, c, m, i, k, j) ==
    /\ k \in 1..Len(p) /\ j \in 1..Len(p[k])
    /\ \A d \in 0..Len(p[k]) - j : i + d <= m /\ p[k][j + d] = text[i + d]
    /\ \/ k = Len(p) /\ i + (Len(p[k]) - j) = m
       \/ k < Len(p) /\ i + (Len(p[k]) - j) < m /\ text[i + (Len(p[k]) - j) + 1] = c

(* A part that is not the last stays what it is.                             *)
LEMMA PlaceStays ==
    ASSUME NEW p, NEW q, NEW text, NEW c, NEW m \in Nat, NEW i \in Nat, NEW k, NEW j,
           Placed(p, text, c, m, i, k, j), Len(p) \in Nat, Len(q) \in Nat, Len(p[k]) \in Nat,
           Len(q) >= Len(p), q[k] = p[k], k < Len(q),
           k = Len(p) => text[m + 1] = c
    PROVE  Placed(q, text, c, m + 1, i, k, j)
  <1> DEFINE h == Len(p[k])
  <1>1. h \in Nat /\ k \in 1..Len(p) /\ j \in 1..h /\ Len(q[k]) = h /\ h - j \in Nat
    BY DEF Placed
  <1>2. \A d \in 0..h - j : i + d <= m /\ p[k][j + d] = text[i + d]
    BY DEF Placed
  <1>3. \/ k = Len(p) /\ i + (h - j) = m
        \/ k < Len(p) /\ i + (h - j) < m /\ text[i + (h - j) + 1] = c
    BY DEF Placed
  <1> HIDE DEF h
  <1>4. \A d \in 0..h - j : i + d <= m + 1 /\ q[k][j + d] = text[i + d]
    BY <1>1, <1>2
  <1>5. k < Len(q) /\ i + (h - j) < m + 1 /\ text[i + (h - j) + 1] = c
    BY <1>1, <1>3
  <1>6. k \in 1..Len(q)
    BY <1>1
  <1> QED BY <1>1, <1>4, <1>5, <1>6 DEF Placed

(* Every character that does not separate has its place in a part.         *)
LEMMA SplitPlaces ==
    ASSUME NEW text \in Codes, NEW c \in Int, NEW i \in 1..Len(text), text[i] # c
    PROVE  /\ SplitAll(text, c) \in Parts
           /\ \E k, j \in Nat : Placed(SplitAll(text, c), text, c, Len(text), i, k, j)
  <1> DEFINE n == Len(text)
             Has(p, m) == \E k, j \in Nat : Placed(p, text, c, m, i, k, j)
  <1>1. PICK f : IsSplit(f, text, c) /\ SplitAll(text, c) = f[n]
    BY SplitIsRun
  <1>2. n \in Nat /\ i \in Nat /\ i >= 1 /\ i <= n /\ n \in 0..n /\ 0 \in 0..n
    BY DEF Codes
  <1>3. /\ \A m \in 0..n : f[m] \in Parts
        /\ \A m \in 1..n : f[m] = SplitStep(f[m - 1], text[m], c) /\ text[m] \in Int
                           /\ m - 1 \in 0..n /\ m \in 0..n
    <2>1. \A m \in 1..n : m - 1 \in 0..n /\ m \in 0..n
      BY <1>2
    <2>2. \A m \in 1..n : text[m] \in Int
      BY <1>2 DEF Codes
    <2>3. (\A m \in 0..n : f[m] \in Parts) /\ \A m \in 1..n : f[m] = SplitStep(f[m - 1], text[m], c)
      BY <1>1 DEF IsSplit
    <2> QED BY <2>1, <2>2, <2>3
  <1> DEFINE K == {m \in 0..n : m >= i => Has(f[m], m)}
  <1> HIDE DEF Has
  <1>4. 0 \in K
    BY <1>2
  <1>5. ASSUME NEW m \in 1..n, m - 1 \in K PROVE m \in K
    <2> DEFINE p == f[m - 1]
               q == f[m]
               x == text[m]
               L == Len(p)
    <2>1. p \in Parts /\ q \in Parts /\ x \in Int /\ q = SplitStep(p, x, c) /\ m \in 0..n
      BY <1>3
    <2>2. m \in Nat /\ m - 1 \in Nat /\ (m - 1) + 1 = m
      BY <1>2
    <2>3. m - 1 >= i => Has(p, m - 1)
      BY <1>5
    <2> HIDE DEF p, q, x, L
    <2>4. /\ L \in Nat /\ L >= 1
          /\ x = c => Len(q) = L + 1 /\ \A k \in 1..L : q[k] = p[k]
          /\ x # c => Len(q) = L /\ q[L] = Append(p[L], x) /\ \A k \in 1..L - 1 : q[k] = p[k]
      BY <2>1, SplitStepIs DEF L
    <2>5. \A k \in 1..L : p[k] \in Seq(Int)
      BY <2>1, <2>4 DEF Parts, Codes, L
    <2>6. /\ Append(p[L], x) \in Seq(Int) /\ Len(Append(p[L], x)) = Len(p[L]) + 1
          /\ \A d \in 1..Len(p[L]) : Append(p[L], x)[d] = p[L][d]
          /\ Append(p[L], x)[Len(p[L]) + 1] = x /\ Len(p[L]) \in Nat
      <3>1. p[L] \in Seq(Int)
        BY <2>4, <2>5
      <3> QED BY <2>1, <3>1, AppendProperties
    <2>7. CASE m = i
      <3> DEFINE j == Len(p[L]) + 1
      <3>1. x # c
        BY <2>7 DEF x
      <3>2. Len(q) = L /\ Len(q[L]) = j /\ q[L][j] = x /\ j \in Nat /\ j \in 1..j
        BY <2>4, <2>6, <3>1
      <3>3. j + 0 = j /\ i + 0 = i /\ j - j = 0 /\ i <= i /\ L \in 1..L
        BY <1>2, <2>4, <3>2
      <3> HIDE DEF j
      <3>4. \A d \in 0..0 : i + d <= i /\ q[L][j + d] = text[i + d]
        <4>1. \A d \in 0..0 : d = 0
          OBVIOUS
        <4> QED BY <2>7, <3>2, <3>3, <4>1 DEF x
      <3>5. Placed(q, text, c, i, i, L, j)
        BY <3>2, <3>3, <3>4 DEF Placed
      <3> QED BY <2>1, <2>4, <2>7, <3>2, <3>5 DEF Has, q
    <2>8. CASE m - 1 >= i
      <3>1. PICK k \in Nat, j \in Nat : Placed(p, text, c, m - 1, i, k, j)
        BY <2>3, <2>8 DEF Has
      <3>2. k \in 1..L /\ Len(p[k]) \in Nat /\ j \in 1..Len(p[k])
        BY <2>5, <3>1 DEF Placed, L
      <3>3. CASE x = c
        <4>1. Len(q) = L + 1 /\ q[k] = p[k] /\ k < L + 1 /\ L + 1 \in Nat /\ L + 1 >= L
          BY <2>4, <3>2, <3>3
        <4>2. text[(m - 1) + 1] = c
          BY <2>2, <3>3 DEF x
        <4>3. Placed(q, text, c, (m - 1) + 1, i, k, j)
          <5>1. Len(p) \in Nat /\ Len(q) \in Nat /\ Len(q) >= Len(p) /\ k < Len(q) /\ m - 1 \in Nat /\ i \in Nat
            BY <1>2, <2>2, <2>4, <4>1 DEF L
          <5> HIDE DEF p, q, L
          <5> QED BY <3>1, <3>2, <4>1, <4>2, <5>1, PlaceStays
        <4> QED BY <2>1, <2>2, <4>3 DEF Has, q
      <3>4. CASE x # c /\ k # L
        <4>1. Len(q) = L /\ q[k] = p[k] /\ k < L /\ L >= L
          <5>1. L \in Nat /\ Len(q) = L /\ \A g \in 1..L - 1 : q[g] = p[g]
            BY <2>4, <3>4
          <5> HIDE DEF L, p, q
          <5>2. k \in 1..L - 1 /\ k < L /\ L >= L
            BY <3>2, <3>4, <5>1
          <5> QED BY <5>1, <5>2
        <4>2. k = L => text[(m - 1) + 1] = c
          BY <3>4
        <4>3. Len(p) \in Nat /\ Len(q) \in Nat /\ Len(q) >= Len(p) /\ k < Len(q)
          BY <2>4, <4>1 DEF L
        <4>4. Placed(q, text, c, (m - 1) + 1, i, k, j)
          BY <1>2, <2>2, <3>1, <3>2, <4>1, <4>2, <4>3, PlaceStays DEF L
        <4> QED BY <2>1, <2>2, <4>4 DEF Has, q
      <3>5. CASE x # c /\ k = L
        <4> DEFINE h == Len(p[L])
        <4>1. /\ Len(q) = L /\ Len(q[L]) = h + 1 /\ q[L][h + 1] = x /\ h \in Nat
              /\ \A d \in 1..h : q[L][d] = p[L][d]
          BY <2>4, <2>6, <3>5
        <4>2. j \in 1..h /\ i + (h - j) = m - 1 /\ h - j \in Nat
              /\ \A d \in 0..h - j : i + d <= m - 1 /\ p[L][j + d] = text[i + d]
          <5>1. j \in 1..h /\ \A d \in 0..h - j : i + d <= m - 1 /\ p[L][j + d] = text[i + d]
            BY <3>1, <3>5 DEF Placed
          <5>2. (L = Len(p) /\ i + (h - j) = m - 1) \/ L < Len(p)
            BY <3>1, <3>5 DEF Placed
          <5> HIDE DEF h
          <5> QED BY <2>4, <4>1, <5>1, <5>2 DEF L
        <4> HIDE DEF h
        <4>3. ASSUME NEW d \in 0..h + 1 - j PROVE i + d <= m /\ q[L][j + d] = text[i + d]
          <5>1. CASE d = h + 1 - j
            <6>1. j + d = h + 1 /\ i + d = m
              BY <1>2, <2>2, <4>1, <4>2, <5>1
            <6> QED BY <2>2, <4>1, <6>1 DEF x
          <5>2. CASE d # h + 1 - j
            <6>1. d \in 0..h - j /\ j + d \in 1..h
              <7>1. h \in Nat /\ j \in 1..h
                BY <4>1, <4>2
              <7> QED BY <5>2, <7>1
            <6>2. i + d <= m - 1 /\ p[L][j + d] = text[i + d] /\ q[L][j + d] = p[L][j + d]
              BY <4>1, <4>2, <6>1
            <6> QED BY <1>2, <2>2, <6>2
          <5> QED BY <5>1, <5>2
        <4>4. L \in 1..L /\ j \in 1..h + 1 /\ i + (h + 1 - j) = m
          BY <1>2, <2>2, <2>4, <4>1, <4>2
        <4>5. Placed(q, text, c, m, i, L, j)
          BY <4>1, <4>3, <4>4 DEF Placed
        <4> QED BY <2>1, <2>4, <4>5 DEF Has, q
      <3> QED BY <3>3, <3>4, <3>5
    <2>9. CASE ~(m >= i)
      BY <2>1, <2>9
    <2>10. m = i \/ m - 1 >= i \/ ~(m >= i)
      BY <1>2, <2>2
    <2> QED BY <2>7, <2>8, <2>9, <2>10
  <1>6. \A m \in 0..n : m \in K
    <2> HIDE DEF K, n
    <2> QED BY <1>2, <1>4, <1>5, RunInduction
  <1>7. Has(f[n], n)
    BY <1>2, <1>6
  <1> QED BY <1>1, <1>2, <1>3, <1>7 DEF Has

(* A percent sign that starts no escape starts none in its part.             *)
LEMMA BadPart ==
    ASSUME NEW text \in Codes, NEW c \in Int, c # Percent, NEW i \in 1..Len(text), BadEscape(text, i)
    PROVE  \E k \in 1..Len(SplitAll(text, c)) :
              \E j \in 1..Len(SplitAll(text, c)[k]) : BadEscape(SplitAll(text, c)[k], j)
  <1> DEFINE parts == SplitAll(text, c)
             n == Len(text)
  <1>1. text[i] = Percent /\ text[i] # c
    BY DEF BadEscape
  <1>2. parts \in Parts /\ \E k, j \in Nat : Placed(parts, text, c, n, i, k, j)
    BY <1>1, SplitPlaces
  <1>3. PICK k \in Nat, j \in Nat : Placed(parts, text, c, n, i, k, j)
    BY <1>2
  <1> HIDE DEF parts
  <1> DEFINE h == Len(parts[k])
  <1>4. k \in 1..Len(parts) /\ j \in 1..h
        /\ \A d \in 0..h - j : i + d <= n /\ parts[k][j + d] = text[i + d]
    BY <1>3 DEF Placed
  <1>5. h \in Nat /\ n \in Nat
    BY <1>2, <1>4 DEF Parts, Codes
  <1>6. parts[k][j] = Percent
    <2>1. 0 \in 0..h - j /\ j + 0 = j /\ i + 0 = i
      BY <1>4, <1>5
    <2> QED BY <1>1, <1>4, <2>1
  <1> HIDE DEF h, n
  <1>7. ASSUME j + 2 <= h, parts[k][j + 1] \in HexDigits, parts[k][j + 2] \in HexDigits
        PROVE  FALSE
    <2>1. 1 \in 0..h - j /\ 2 \in 0..h - j
      <3>1. h \in Nat /\ j \in 1..h
        BY <1>4, <1>5
      <3> QED BY <1>7, <3>1
    <2>2. i + 2 <= n /\ text[i + 1] \in HexDigits /\ text[i + 2] \in HexDigits
      BY <1>4, <1>7, <2>1
    <2>3. ~(i + 2 > n)
      BY <1>5, <2>2
    <2> QED BY <2>2, <2>3 DEF BadEscape, n
  <1>8. j + 2 > h \/ j + 2 <= h
    BY <1>4, <1>5
  <1>9. BadEscape(parts[k], j)
    BY <1>6, <1>7, <1>8 DEF BadEscape, h
  <1> QED BY <1>4, <1>9 DEF parts, h

(* Characters with no separator between them are in one part.                *)
LEMMA OnePart ==
    ASSUME NEW text \in Codes, NEW c \in Int, NEW i \in 1..Len(text), NEW l \in 1..Len(text), i < l,
           \A m \in i..l : text[m] # c
    PROVE  /\ SplitAll(text, c) \in Parts
           /\ \E k \in 1..Len(SplitAll(text, c)) : \E j, g \in 1..Len(SplitAll(text, c)[k]) :
                 /\ j < g /\ SplitAll(text, c)[k][j] = text[i] /\ SplitAll(text, c)[k][g] = text[l]
  <1> DEFINE parts == SplitAll(text, c)
             n == Len(text)
  <1>1. i \in Nat /\ l \in Nat /\ n \in Nat /\ l <= n /\ i \in i..l /\ text[i] # c
    BY DEF Codes
  <1>2. parts \in Parts /\ \E k, j \in Nat : Placed(parts, text, c, n, i, k, j)
    BY <1>1, SplitPlaces
  <1>3. PICK k \in Nat, j \in Nat : Placed(parts, text, c, n, i, k, j)
    BY <1>2
  <1> HIDE DEF parts, n
  <1> DEFINE h == Len(parts[k])
             e == i + (h - j)
  <1>4. k \in 1..Len(parts) /\ j \in 1..h
        /\ \A d \in 0..h - j : i + d <= n /\ parts[k][j + d] = text[i + d]
    BY <1>3 DEF Placed
  <1>5. e = n \/ (e < n /\ text[e + 1] = c)
    BY <1>3 DEF Placed
  <1>6. h \in Nat
    BY <1>2, <1>4 DEF Parts, Codes
  <1> HIDE DEF h
  <1>7. j \in Nat /\ j >= 1 /\ j <= h
    BY <1>4, <1>6
  <1>8. l <= e
    <2>1. ASSUME ~(l <= e) PROVE e + 1 \in i..l
      BY <1>1, <1>6, <1>7, <2>1
    <2>2. e \in Nat
      BY <1>1, <1>6, <1>7
    <2> HIDE DEF e
    <2>3. e = n => l <= e
      BY <1>1
    <2> QED BY <1>5, <2>1, <2>3
  <1> DEFINE g == j + (l - i)
  <1>9. l - i \in 0..h - j /\ g \in 1..h /\ j < g /\ i + (l - i) = l /\ 0 \in 0..h - j
        /\ j + 0 = j /\ i + 0 = i /\ j \in 1..h
    BY <1>1, <1>6, <1>7, <1>8
  <1>10. parts[k][j] = text[i] /\ parts[k][g] = text[l]
    BY <1>4, <1>9
  <1> HIDE DEF g
  <1> QED BY <1>2, <1>4, <1>9, <1>10 DEF parts, h

(* Two separators make three parts or more.                                  *)
LEMMA SplitMany ==
    ASSUME NEW text \in Codes, NEW c \in Int, NEW i \in 1..Len(text), NEW j \in 1..Len(text), i < j,
           text[i] = c, text[j] = c
    PROVE  Len(SplitAll(text, c)) > 2
  <1> DEFINE n == Len(text)
  <1>1. PICK f : IsSplit(f, text, c) /\ SplitAll(text, c) = f[n]
    BY SplitIsRun
  <1>2. n \in Nat /\ n \in 0..n /\ 0 \in 0..n /\ i \in Nat /\ j \in Nat /\ i >= 1 /\ n >= j
    BY DEF Codes
  <1>3. ASSUME NEW m \in 1..n
        PROVE  /\ f[m - 1] \in Parts /\ f[m] = SplitStep(f[m - 1], text[m], c) /\ text[m] \in Int
               /\ m - 1 \in 0..n /\ m \in 0..n
    <2>1. m - 1 \in 0..n /\ m \in 0..n
      BY <1>2
    <2>2. text[m] \in Int
      BY <1>2 DEF Codes
    <2> QED BY <1>1, <2>1, <2>2 DEF IsSplit
  <1> DEFINE Many(h, m) == h \in Nat /\ (m >= i => h >= 2) /\ (m >= j => h >= 3) /\ h >= 1
             K == {m \in 0..n : Many(Len(f[m]), m)}
  <1>4. 0 \in K
    <2>1. Len(f[0]) = 1
      BY <1>1 DEF IsSplit
    <2>2. ~(0 >= i) /\ ~(0 >= j)
      BY <1>2
    <2>3. Many(Len(f[0]), 0)
      BY <2>1, <2>2
    <2> HIDE DEF Many
    <2> QED BY <1>2, <2>3
  <1>5. ASSUME NEW m \in 1..n, m - 1 \in K PROVE m \in K
    <2> DEFINE h == Len(f[m - 1])
               g == Len(f[m])
    <2>1. h \in Nat /\ (text[m] = c => g = h + 1) /\ (text[m] # c => g = h)
      <3> DEFINE p == f[m - 1]
                 q == f[m]
                 x == text[m]
      <3>1. p \in Parts /\ q = SplitStep(p, x, c) /\ x \in Int
        BY <1>3
      <3> HIDE DEF p, q, x
      <3>2. Len(p) \in Nat /\ (x = c => Len(q) = Len(p) + 1) /\ (x # c => Len(q) = Len(p))
        BY <3>1, SplitStepIs
      <3> QED BY <3>2 DEF p, q, x
    <2>2. Many(h, m - 1)
      BY <1>5
    <2> HIDE DEF h, g
    <2>3. (m = i \/ m = j) => g = h + 1
      BY <2>1
    <2>4. g = h + 1 \/ g = h
      BY <2>1
    <2>5. Many(g, m)
      BY <1>2, <2>1, <2>2, <2>3, <2>4
    <2> HIDE DEF Many
    <2> QED BY <1>3, <2>5 DEF g
  <1>6. \A m \in 0..n : m \in K
    <2> HIDE DEF K, n
    <2> QED BY <1>2, <1>4, <1>5, RunInduction
  <1>7. Many(Len(f[n]), n)
    BY <1>2, <1>6
  <1> QED BY <1>1, <1>2, <1>7

-----------------------------------------------------------------------------
(* CrackedUri: unescape().                                                   *)
Scans == [text : Codes, pos : Nat \ {0}]

(* Cutting two joined texts where they join gives both back.               *)
LEMMA CutJoined ==
    ASSUME NEW a \in Codes, NEW b \in Codes
    PROVE  /\ SubSeq(a \o b, 1, Len(a)) = a
           /\ SubSeq(a \o b, Len(a) + 1, Len(a) + Len(b)) = b
  <1> DEFINE u == a \o b
             h == Len(a)
             n == Len(b)
  <1>1. u \in Seq(Int) /\ Len(u) = h + n
        /\ \A i \in 1..h + n : u[i] = IF i <= h THEN a[i] ELSE b[i - h]
    BY ConcatProperties DEF Codes
  <1>2. h \in Nat /\ n \in Nat /\ \A i \in 1..h + n : u[i] \in Int
    BY <1>1 DEF Codes
  <1> HIDE DEF u
  <1>3. SubSeq(u, 1, h) = a
    <2> DEFINE v == SubSeq(u, 1, h)
    <2> HIDE DEF h, n
    <2>1. \A i \in 1..h : u[i] \in Int /\ u[i] = a[i]
      BY <1>1, <1>2
    <2>2. v \in Seq(Int) /\ Len(v) = (IF 1 <= h THEN h - 1 + 1 ELSE 0)
          /\ \A i \in 1..h - 1 + 1 : v[i] = u[1 + i - 1]
      BY <1>2, <2>1, SubSeqProperties
    <2>3. h - 1 + 1 = h /\ \A i \in 1..h : 1 + i - 1 = i
      BY <1>2
    <2>4. Len(v) = h /\ \A i \in 1..h : v[i] = a[i]
      BY <1>2, <2>1, <2>2, <2>3
    <2> HIDE DEF v
    <2> QED BY <2>2, <2>4, SeqEqual DEF Codes, v, h
  <1>4. SubSeq(u, h + 1, h + n) = b
    <2> DEFINE v == SubSeq(u, h + 1, h + n)
    <2> HIDE DEF h, n
    <2>1. \A i \in h + 1..h + n : u[i] \in Int
      BY <1>2
    <2>2. v \in Seq(Int) /\ Len(v) = (IF h + 1 <= h + n THEN h + n - (h + 1) + 1 ELSE 0)
          /\ \A i \in 1..h + n - (h + 1) + 1 : v[i] = u[h + 1 + i - 1]
      BY <1>2, <2>1, SubSeqProperties
    <2>3. h + n - (h + 1) + 1 = n /\ (h + 1 <= h + n <=> n >= 1)
          /\ \A i \in 1..n : h + 1 + i - 1 = h + i /\ h + i \in 1..h + n /\ ~(h + i <= h) /\ h + i - h = i
      BY <1>2
    <2>4. Len(v) = n
      BY <1>2, <2>2, <2>3
    <2> HIDE DEF v
    <2>5. ASSUME NEW i \in 1..n PROVE v[i] = b[i]
      <3>1. v[i] = u[h + i] /\ h + i \in 1..h + n /\ ~(h + i <= h) /\ h + i - h = i
        BY <2>2, <2>3
      <3> DEFINE m == h + i
      <3>2. m \in 1..h + n /\ ~(m <= h) /\ m - h = i
        BY <1>2
      <3> HIDE DEF m
      <3>3. u[m] = b[m - h]
        BY <1>1, <3>2
      <3> QED BY <3>1, <3>2, <3>3 DEF m
    <2> QED BY <2>2, <2>4, <2>5, SeqEqual DEF Codes, v, n
  <1> QED BY <1>3, <1>4 DEF u

(* A hexadecimal digit is a character, with a value, and no percent sign.  *)
LEMMA HexIs == \A c \in HexDigits : c \in Int /\ c # Percent /\ FromHex(c) \in Int
  BY DEF HexDigits, Digits, FromHex, Percent

(* The ways a turn goes on.                                                  *)
LEMMA TurnIs ==
    ASSUME NEW st \in Scans
    PROVE  LET next == UnescapeTurn(st)
               text == st.text
               at == st.pos
           IN  /\ next \in Scans /\ at \in Nat /\ at > 0 /\ Len(text) \in Nat
               /\ at > Len(text) => next = st
               /\ at <= Len(text) /\ text[at] # Percent => next = [text |-> text, pos |-> at + 1]
               /\ at <= Len(text) /\ BadEscape(text, at) => next = [text |-> Throws, pos |-> 2]
               /\ at <= Len(text) /\ text[at] = Percent /\ ~BadEscape(text, at) =>
                     /\ at + 2 <= Len(text)
                     /\ text[at + 1] \in HexDigits /\ text[at + 2] \in HexDigits
                     /\ next = [text |-> SubSeq(text, 1, at - 1)
                                             \o <<16 * FromHex(text[at + 1]) + FromHex(text[at + 2])>>
                                             \o SubSeq(text, at + 3, Len(text)),
                                pos |-> at + 1]
                     /\ Len(next.text) = Len(text) - 2 /\ next.pos = at + 1
                     /\ \A i \in at + 1..Len(text) - 2 : next.text[i] = text[i + 2]
  <1> DEFINE next == UnescapeTurn(st)
             text == st.text
             at == st.pos
             n == Len(text)
  <1>1. text \in Codes /\ at \in Nat /\ at > 0 /\ n \in Nat /\ st = [text |-> text, pos |-> at]
    BY DEF Scans, Codes
  <1>2. CASE at > n
    <2>1. next = st
      BY <1>2 DEF UnescapeTurn
    <2> QED BY <1>1, <1>2, <2>1
  <1>3. CASE at <= n /\ text[at] # Percent
    <2>1. next = [text |-> text, pos |-> at + 1]
      <3>1. ~(at > n)
        BY <1>1, <1>3
      <3>2. next = [st EXCEPT !.pos = at + 1]
        BY <1>3, <3>1 DEF UnescapeTurn
      <3> HIDE DEF next, text, at
      <3> QED BY <1>1, <3>2
    <2>2. next \in Scans /\ ~BadEscape(text, at)
      <3> HIDE DEF text, at, next
      <3> QED BY <1>1, <1>3, <2>1 DEF Scans, BadEscape
    <2>3. ~(at > n)
      BY <1>1, <1>3
    <2> QED BY <1>1, <1>3, <2>1, <2>2, <2>3
  <1>4. CASE at <= n /\ BadEscape(text, at)
    <2>1. next = [text |-> Throws, pos |-> 2]
      <3>1. ~(at > n) /\ text[at] = Percent
        BY <1>1, <1>4 DEF BadEscape
      <3> QED BY <1>4, <3>1 DEF UnescapeTurn
    <2>2. next \in Scans
      <3>1. Throws \in Codes
        BY DEF Throws, Codes
      <3> HIDE DEF next
      <3> QED BY <2>1, <3>1 DEF Scans
    <2>3. ~(at > n) /\ text[at] = Percent
      BY <1>1, <1>4 DEF BadEscape
    <2> QED BY <1>1, <1>4, <2>1, <2>2, <2>3
  <1>5. CASE at <= n /\ text[at] = Percent /\ ~BadEscape(text, at)
    <2> DEFINE v == 16 * FromHex(text[at + 1]) + FromHex(text[at + 2])
               a == SubSeq(text, 1, at - 1)
               b == SubSeq(text, at + 3, n)
    <2>1. ~(at > n)
      BY <1>1, <1>5
    <2>2. next = [text |-> a \o <<v>> \o b, pos |-> at + 1]
      BY <1>5, <2>1 DEF UnescapeTurn
    <2>3. at + 2 <= n /\ text[at + 1] \in HexDigits /\ text[at + 2] \in HexDigits
      <3>1. ~(at + 2 > n) /\ text[at + 1] \in HexDigits /\ text[at + 2] \in HexDigits
        BY <1>5 DEF BadEscape
      <3> QED BY <1>1, <3>1
    <2>4. v \in Int
      <3> DEFINE x == text[at + 1]
                 y == text[at + 2]
      <3>1. x \in HexDigits /\ y \in HexDigits
        BY <2>3
      <3> HIDE DEF x, y
      <3>2. FromHex(x) \in Int /\ FromHex(y) \in Int
        BY <3>1, HexIs
      <3>3. 16 * FromHex(x) + FromHex(y) \in Int
        BY <3>2
      <3> QED BY <3>3 DEF x, y
    <2> HIDE DEF v, next, at, text, n
    <2>5. \A i \in 1..n : text[i] \in Int
      BY <1>1 DEF n, Codes
    <2>6. a \in Seq(Int) /\ Len(a) = at - 1
      <3>1. \A i \in 1..at - 1 : text[i] \in Int
        BY <1>1, <1>5, <2>5
      <3>2. 1 \in Int /\ at - 1 \in Int /\ (IF 1 <= at - 1 THEN at - 1 - 1 + 1 ELSE 0) = at - 1
        BY <1>1
      <3> HIDE DEF a
      <3>3. a \in Seq(Int) /\ Len(a) = IF 1 <= at - 1 THEN at - 1 - 1 + 1 ELSE 0
        BY <3>1, <3>2, SubSeqProperties DEF a
      <3> QED BY <3>2, <3>3
    <2>7. b \in Seq(Int) /\ Len(b) = n - at - 2 /\ \A i \in 1..n - at - 2 : b[i] = text[at + 2 + i]
      <3>1. \A i \in at + 3..n : text[i] \in Int
        BY <1>1, <1>5, <2>5
      <3>2. /\ at + 3 \in Int /\ n \in Int /\ (IF at + 3 <= n THEN n - (at + 3) + 1 ELSE 0) = n - at - 2
            /\ n - (at + 3) + 1 = n - at - 2 /\ \A i \in 1..n - at - 2 : at + 3 + i - 1 = at + 2 + i
        BY <1>1, <2>3
      <3> HIDE DEF b
      <3>3. b \in Seq(Int) /\ Len(b) = (IF at + 3 <= n THEN n - (at + 3) + 1 ELSE 0)
            /\ \A i \in 1..n - (at + 3) + 1 : b[i] = text[at + 3 + i - 1]
        BY <3>1, <3>2, SubSeqProperties DEF b
      <3> QED BY <3>2, <3>3
    <2> DEFINE front == a \o <<v>>
               whole == front \o b
    <2>8. <<v>> \in Seq(Int) /\ Len(<<v>>) = 1
      BY <2>4
    <2> HIDE DEF a, b
    <2>9. front \in Seq(Int) /\ Len(front) = at
      <3>1. front \in Seq(Int) /\ Len(front) = Len(a) + Len(<<v>>)
        BY <2>6, <2>8, ConcatProperties
      <3> HIDE DEF front
      <3> QED BY <1>1, <2>6, <2>8, <3>1
    <2> HIDE DEF front
    <2>10. whole \in Seq(Int) /\ Len(whole) = Len(front) + Len(b)
           /\ \A i \in 1..Len(front) + Len(b) : whole[i] = IF i <= Len(front) THEN front[i] ELSE b[i - Len(front)]
      BY <2>7, <2>9, ConcatProperties
    <2> HIDE DEF whole
    <2>11. Len(whole) = n - 2
      BY <1>1, <2>3, <2>7, <2>9, <2>10
    <2>12. ASSUME NEW i \in at + 1..n - 2 PROVE whole[i] = text[i + 2]
      <3>1. /\ i \in 1..at + (n - at - 2) /\ ~(i <= at) /\ i - at \in 1..n - at - 2
            /\ at + 2 + (i - at) = i + 2
        BY <1>1, <2>3
      <3>2. whole[i] = b[i - at]
        BY <2>7, <2>9, <2>10, <3>1
      <3> QED BY <2>7, <3>1, <3>2
    <2>13. next \in Scans
      BY <1>1, <2>2, <2>10 DEF Scans, Codes, whole, front
    <2>14. /\ next = [text |-> a \o <<v>> \o b, pos |-> at + 1]
           /\ Len(next.text) = n - 2 /\ next.pos = at + 1
           /\ \A i \in at + 1..n - 2 : next.text[i] = text[i + 2]
      BY <2>2, <2>11, <2>12 DEF whole, front
    <2> QED BY <1>1, <1>5, <2>1, <2>3, <2>13, <2>14 DEF next, text, at, n, v, a, b
  <1>6. at > n \/ at <= n
    BY <1>1
  <1>7. text[at] # Percent \/ BadEscape(text, at) \/ (text[at] = Percent /\ ~BadEscape(text, at))
    OBVIOUS
  <1> QED BY <1>2, <1>3, <1>4, <1>5, <1>6, <1>7

(* unescape() is a run.                                                      *)
IsScan(g, text) ==
    /\ g \in [0..Len(text) -> Scans] /\ g[0] = [text |-> Spaced(text), pos |-> 1]
    /\ \A k \in 1..Len(text) : g[k] = UnescapeTurn(g[k - 1])

(* Spaced turns each plus sign into a space and leaves the rest.           *)
LEMMA SpacedIs ==
    ASSUME NEW text \in Codes
    PROVE  /\ Spaced(text) \in Codes /\ Len(Spaced(text)) = Len(text)
           /\ \A i \in 1..Len(text) : Spaced(text)[i] = IF text[i] = Plus THEN Space ELSE text[i]
  <1>1. Len(text) \in Nat /\ \A i \in 1..Len(text) : text[i] \in Int
    BY DEF Codes
  <1>2. Space \in Int
    BY DEF Space
  <1> QED BY <1>1, <1>2 DEF Spaced, Codes

(* unescape() has its intermediate scans.                                  *)
LEMMA UnescapeIsRun ==
    ASSUME NEW text \in Codes
    PROVE  \E g : IsScan(g, text) /\ Unescape(text) = g[Len(text)].text
  <1> DEFINE n == Len(text)
             base == [text |-> Spaced(text), pos |-> 1]
             G == CHOOSE turns : turns = [k \in 0..n |->
                     IF k = 0 THEN [text |-> Spaced(text), pos |-> 1] ELSE UnescapeTurn(turns[k - 1])]
             F == [x \in Scans \X (1..n) |-> UnescapeTurn(x[1])]
  <1>1. n \in Nat
    BY DEF Codes
  <1>2. base \in Scans
    BY SpacedIs DEF Scans
  <1>3. F \in [Scans \X (1..n) -> Scans] /\ \A x \in Scans, k \in 1..n : F[<<x, k>>] = UnescapeTurn(x)
    BY TurnIs
  <1> HIDE DEF F, base
  <1>4. PICK g : IsRun(g, Scans, F, base, n)
    BY <1>1, <1>2, <1>3, RunExists
  <1>5. \A k \in 1..n : k \in 0..n /\ k # 0 /\ k - 1 \in 0..n
    BY <1>1
  <1>6. IsScan(g, text)
    <2>1. ASSUME NEW k \in 1..n PROVE g[k] = UnescapeTurn(g[k - 1])
      BY <1>3, <1>4, <1>5 DEF IsRun
    <2>2. 0 \in 0..n
      BY <1>1
    <2> QED BY <1>4, <2>1, <2>2 DEF IsRun, IsScan, base
  <1>7. g = [k \in 0..n |-> IF k = 0 THEN [text |-> Spaced(text), pos |-> 1] ELSE UnescapeTurn(g[k - 1])]
    <2>1. ASSUME NEW k \in 0..n, k # 0 PROVE k \in 1..n
      BY <1>1, <2>1
    <2> QED BY <1>6, <2>1 DEF IsScan
  <1>8. G = [k \in 0..n |-> IF k = 0 THEN [text |-> Spaced(text), pos |-> 1] ELSE UnescapeTurn(G[k - 1])]
    BY <1>7, Zenon
  <1>9. Unescape(text) = G[n].text
    BY DEF Unescape
  <1> HIDE DEF G
  <1>10. G[0] = [text |-> Spaced(text), pos |-> 1] /\ \A k \in 1..n : G[k] = UnescapeTurn(G[k - 1])
    <2>1. ASSUME NEW k \in 1..n PROVE G[k] = UnescapeTurn(G[k - 1])
      BY <1>5, <1>8
    <2>2. 0 \in 0..n
      BY <1>1
    <2> QED BY <1>8, <2>1, <2>2
  <1> DEFINE K == {k \in 0..n : G[k] = g[k]}
  <1>11. \A k \in 0..n : k \in K
    <2>1. 0 \in K
      BY <1>1, <1>6, <1>10 DEF IsScan
    <2>2. ASSUME NEW k \in 1..n, k - 1 \in K PROVE k \in K
      BY <1>5, <1>6, <1>10, <2>2 DEF IsScan
    <2> HIDE DEF K
    <2> QED BY <1>1, <2>1, <2>2, RunInduction
  <1>12. n \in 0..n
    BY <1>1
  <1> QED BY <1>6, <1>9, <1>11, <1>12

(* A percent sign that starts no escape is found, whatever is before it.     *)
LEMMA BadIsRefused ==
    ASSUME NEW text \in Codes, NEW i \in 1..Len(text), BadEscape(text, i)
    PROVE  Unescape(text) = Throws
  <1> DEFINE n == Len(text)
             Thrown(st) == st.text = Throws /\ st.pos = 2
             Ahead(st, k) == /\ Len(st.text) + k < n + st.pos
                             /\ \E j \in 1..Len(st.text) : st.pos <= j /\ BadEscape(st.text, j)
  <1>1. PICK g : IsScan(g, text) /\ Unescape(text) = g[n].text
    BY UnescapeIsRun
  <1>2. n \in Nat /\ n \in 0..n /\ 0 \in 0..n
    BY DEF Codes
  <1> DEFINE K == {k \in 0..n : g[k] \in Scans /\ (Thrown(g[k]) \/ Ahead(g[k], k))}
  <1>3. 0 \in K
    <2> DEFINE s == Spaced(text)
    <2>1. s \in Codes /\ Len(s) = n /\ \A j \in 1..n : s[j] = IF text[j] = Plus THEN Space ELSE text[j]
      BY SpacedIs
    <2> HIDE DEF s, n
    <2>2. i \in 1..n /\ i \in Nat /\ 1 <= i
      BY <1>2 DEF n
    <2>3. text[i] = Percent /\ (i + 2 > n \/ text[i + 1] \notin HexDigits \/ text[i + 2] \notin HexDigits)
      BY DEF BadEscape, n
    <2>4. s[i] = Percent
      BY <2>1, <2>2, <2>3 DEF Percent, Plus
    <2>5. ASSUME NEW j \in 1..n, text[j] \notin HexDigits PROVE s[j] \notin HexDigits
      <3>1. Space \notin HexDigits
        BY DEF Space, HexDigits, Digits
      <3> QED BY <2>1, <2>5, <3>1
    <2>6. i + 2 > n \/ (i + 1 \in 1..n /\ i + 2 \in 1..n)
      BY <1>2, <2>2
    <2>7. BadEscape(s, i)
      BY <2>1, <2>3, <2>4, <2>5, <2>6 DEF BadEscape
    <2>8. g[0] \in Scans /\ g[0] = [text |-> s, pos |-> 1]
      BY <1>1, <1>2 DEF IsScan, s, n
    <2>9. Len(s) + 0 < n + 1
      BY <1>2, <2>1
    <2>10. Ahead(g[0], 0)
      BY <2>1, <2>2, <2>7, <2>8, <2>9
    <2> HIDE DEF Ahead, Thrown
    <2> QED BY <1>2, <2>8, <2>10
  <1>4. ASSUME NEW k \in 1..n, k - 1 \in K PROVE k \in K
    <2> DEFINE st == g[k - 1]
               next == g[k]
               len == Len(st.text)
               at == st.pos
    <2>1. k \in 0..n /\ k \in Nat /\ next = UnescapeTurn(st)
      BY <1>1, <1>2 DEF IsScan
    <2>2. st \in Scans /\ (Thrown(st) \/ Ahead(st, k - 1))
      BY <1>4
    <2> HIDE DEF st, next, n
    <2>3. next \in Scans /\ at \in Nat /\ at > 0 /\ len \in Nat
      BY <2>1, <2>2, TurnIs
    <2>4. CASE Thrown(st)
      <3>1. at > len
        BY <2>4 DEF Throws
      <3>2. next = st
        BY <2>1, <2>2, <3>1, TurnIs
      <3> QED BY <2>1, <2>2, <2>4, <3>2 DEF st, next
    <2>5. CASE Ahead(st, k - 1)
      <3>1. PICK j \in 1..len : at <= j /\ BadEscape(st.text, j)
        BY <2>5
      <3>2. len + (k - 1) < n + at
        BY <2>5
      <3>3. at <= len /\ j \in Nat /\ j <= len
        BY <2>3, <3>1
      <3>4. st.text[j] = Percent
        BY <3>1 DEF BadEscape
      <3>5. CASE st.text[at] # Percent
        <4>1. next = [text |-> st.text, pos |-> at + 1]
          BY <2>1, <2>2, <3>3, <3>5, TurnIs
        <4>2. next.text = st.text /\ next.pos = at + 1
          BY <4>1
        <4>3. at + 1 <= j /\ len + k < n + (at + 1)
          <5>1. at # j
            BY <3>4, <3>5
          <5> QED BY <1>2, <2>1, <2>3, <3>1, <3>2, <3>3, <5>1
        <4>4. Ahead(next, k)
          BY <3>1, <4>2, <4>3
        <4> HIDE DEF Ahead
        <4> QED BY <2>1, <2>3, <4>4 DEF next
      <3>6. CASE BadEscape(st.text, at)
        <4>1. next = [text |-> Throws, pos |-> 2]
          BY <2>1, <2>2, <3>3, <3>6, TurnIs
        <4>2. Thrown(next)
          BY <4>1
        <4> HIDE DEF Thrown
        <4> QED BY <2>1, <2>3, <4>2 DEF next
      <3>7. CASE st.text[at] = Percent /\ ~BadEscape(st.text, at)
        <4> DEFINE text1 == next.text
                   j1 == j - 2
        <4>1. /\ at + 2 <= len /\ st.text[at + 1] \in HexDigits /\ st.text[at + 2] \in HexDigits
              /\ Len(text1) = len - 2 /\ next.pos = at + 1
              /\ \A m \in at + 1..len - 2 : text1[m] = st.text[m + 2]
          BY <2>1, <2>2, <3>3, <3>7, TurnIs
        <4>2. j # at /\ j # at + 1 /\ j # at + 2
          BY <3>1, <3>4, <3>7, <4>1, HexIs
        <4>3. j1 \in at + 1..len - 2 /\ j1 + 2 = j /\ j1 \in 1..len - 2 /\ at + 1 <= j1
          BY <2>3, <3>1, <3>3, <4>2
        <4> HIDE DEF text1, j1
        <4>4. text1[j1] = Percent
          BY <3>4, <4>1, <4>3
        <4>5. ASSUME ~(j1 + 2 > len - 2), text1[j1 + 1] \in HexDigits, text1[j1 + 2] \in HexDigits
              PROVE  FALSE
          <5>1. /\ j1 + 1 \in at + 1..len - 2 /\ j1 + 2 \in at + 1..len - 2
                /\ j1 + 1 + 2 = j + 1 /\ j1 + 2 + 2 = j + 2
            BY <2>3, <4>3, <4>5
          <5>2. st.text[j + 1] \in HexDigits /\ st.text[j + 2] \in HexDigits
            BY <4>1, <4>5, <5>1
          <5>3. j + 2 > len
            BY <3>1, <5>2 DEF BadEscape
          <5> QED BY <2>3, <4>3, <5>1, <5>3
        <4>6. BadEscape(text1, j1)
          BY <4>1, <4>4, <4>5 DEF BadEscape
        <4>7. (len - 2) + k < n + (at + 1)
          BY <1>2, <2>1, <2>3, <3>2
        <4>8. Ahead(next, k)
          BY <4>1, <4>3, <4>6, <4>7 DEF text1
        <4> HIDE DEF Ahead
        <4> QED BY <2>1, <2>3, <4>8 DEF next
      <3> QED BY <3>5, <3>6, <3>7
    <2> HIDE DEF Thrown, Ahead
    <2> QED BY <2>2, <2>4, <2>5
  <1>5. \A k \in 0..n : k \in K
    <2> HIDE DEF K, n
    <2> QED BY <1>2, <1>3, <1>4, RunInduction
  <1>6. g[n] \in Scans /\ (Thrown(g[n]) \/ Ahead(g[n], n))
    <2> HIDE DEF Thrown, Ahead
    <2> QED BY <1>2, <1>5
  <1>7. ~Ahead(g[n], n)
    <2> DEFINE st == g[n]
    <2>1. Len(st.text) \in Nat /\ st.pos \in Nat
      BY <1>6, TurnIs
    <2> HIDE DEF st, n
    <2>2. SUFFICES ASSUME Ahead(st, n) PROVE FALSE
      BY DEF st
    <2>3. PICK j \in 1..Len(st.text) : st.pos <= j
      BY <2>2
    <2>4. Len(st.text) + n < n + st.pos
      BY <2>2
    <2> QED BY <1>2, <2>1, <2>3, <2>4
  <1> QED BY <1>1, <1>6, <1>7

-----------------------------------------------------------------------------
(* CrackedUri: what a client escapes is read back.                           *)
Plain == {c \in Int : c \in 97..122 \/ c \in 48..57 \/ c = Plus \/ c = Percent}

(* The characters an escape is written in separate nothing.                *)
LEMMA PlainIsApart ==
    \A c \in Plain : /\ c \in Int /\ c # Slash /\ c # Question /\ c # Ampersand /\ c # Equals
  BY DEF Plain, Slash, Question, Ampersand, Equals, Plus, Percent

(* A hexadecimal digit reads back as the number it writes.                 *)
LEMMA HexReadsBack ==
    ASSUME NEW n \in 0..15
    PROVE  /\ HexDigit(n) \in HexDigits /\ HexDigit(n) \in Plain /\ FromHex(HexDigit(n)) = n
           /\ HexDigit(n) # Plus
  <1>1. CASE n < 10
    BY <1>1 DEF HexDigit, HexDigits, Digits, Plain, FromHex, Plus
  <1>2. CASE ~(n < 10)
    <2>1. HexDigit(n) = 87 + n /\ 87 + n \in 97..102
      BY <1>2 DEF HexDigit
    <2> QED BY <2>1 DEF HexDigits, Digits, Plain, FromHex, Plus
  <1> QED BY <1>1, <1>2

(* A character is written as itself or as an escape.                         *)
Itself(w, c) == w = <<c>> /\ c # Percent
AsEscape(w, c) ==
    \E x, y \in HexDigits : w = <<Percent, x, y>> /\ 16 * FromHex(x) + FromHex(y) = c

(* A character is written as itself or as a percent escape.                *)
LEMMA EscapeOfIs ==
    ASSUME NEW c \in Chars
    PROVE  /\ EscapeOf(c) \in Seq(Plain) /\ EscapeOf(c) \in Codes /\ Len(EscapeOf(c)) >= 1
           /\ Itself(Spaced(EscapeOf(c)), c) \/ AsEscape(Spaced(EscapeOf(c)), c)
  <1>1. c \in Int /\ c >= 0 /\ c <= 255
    BY DEF Chars
  <1>2. CASE c \in 97..122
    <2> DEFINE w == <<c>>
    <2>1. EscapeOf(c) = w /\ c \in Plain /\ c # Plus /\ c # Percent
      BY <1>1, <1>2 DEF EscapeOf, Plain, Plus, Percent
    <2>2. w \in Seq(Plain) /\ w \in Codes /\ Len(w) = 1 /\ w[1] = c
      BY <1>1, <2>1 DEF Codes
    <2>3. Spaced(w) = <<c>>
      <3>1. Spaced(w) \in Codes /\ Len(Spaced(w)) = 1 /\ \A i \in 1..1 : Spaced(w)[i] = IF w[i] = Plus THEN Space ELSE w[i]
        BY <2>2, SpacedIs
      <3>2. Spaced(w)[1] = c
        BY <2>1, <2>2, <3>1
      <3>3. \A i \in 1..1 : i = 1
        OBVIOUS
      <3>4. \A i \in 1..1 : Spaced(w)[i] = w[i]
        BY <2>2, <3>2, <3>3
      <3> HIDE DEF w
      <3>5. Spaced(w) = w
        BY <2>2, <3>1, <3>4, SeqEqual DEF Codes
      <3> QED BY <3>5 DEF w
    <2> QED BY <2>1, <2>2, <2>3 DEF Itself
  <1>3. CASE c = Space
    <2> DEFINE w == <<Plus>>
               v == <<Space>>
    <2>1. EscapeOf(c) = w /\ Plus \in Plain /\ c # Percent
      BY <1>3 DEF EscapeOf, Plain, Plus, Percent, Space
    <2>2. /\ w \in Seq(Plain) /\ w \in Codes /\ Len(w) = 1 /\ w[1] = Plus
          /\ v \in Codes /\ Len(v) = 1 /\ v[1] = Space
      BY <1>1, <1>3, <2>1 DEF Codes, Plus
    <2>3. Spaced(w) = v
      <3> HIDE DEF w, v
      <3>1. Spaced(w) \in Codes /\ Len(Spaced(w)) = 1 /\ \A i \in 1..1 : Spaced(w)[i] = IF w[i] = Plus THEN Space ELSE w[i]
        BY <2>2, SpacedIs
      <3>2. \A i \in 1..1 : i = 1
        OBVIOUS
      <3>3. \A i \in 1..1 : Spaced(w)[i] = v[i]
        BY <2>2, <3>1, <3>2
      <3> QED BY <2>2, <3>1, <3>3, SeqEqual DEF Codes
    <2> QED BY <1>3, <2>1, <2>2, <2>3 DEF Itself
  <1>4. CASE c \notin 97..122 /\ c # Space
    <2> DEFINE x == HexDigit(c \div 16)
               y == HexDigit(c % 16)
               w == <<Percent, x, y>>
    <2>1. c \div 16 \in 0..15 /\ c % 16 \in 0..15 /\ 16 * (c \div 16) + (c % 16) = c
      BY <1>1
    <2>2. /\ x \in HexDigits /\ y \in HexDigits /\ x \in Plain /\ y \in Plain /\ x # Plus /\ y # Plus
          /\ FromHex(x) = c \div 16 /\ FromHex(y) = c % 16
      BY <2>1, HexReadsBack
    <2>3. EscapeOf(c) = w
      BY <1>4 DEF EscapeOf
    <2> HIDE DEF x, y
    <2>4. 16 * FromHex(x) + FromHex(y) = c
      BY <2>1, <2>2
    <2>5. Percent \in Plain /\ Percent # Plus /\ Percent \in Int /\ x \in Int /\ y \in Int
      BY <2>2, HexIs DEF Plain, Percent, Plus
    <2>6. w \in Seq(Plain) /\ w \in Codes /\ Len(w) = 3
      BY <2>2, <2>5 DEF Codes
    <2>7. Spaced(w) = w
      <3>1. \A i \in 1..3 : w[i] # Plus
        <4>1. \A i \in 1..3 : i = 1 \/ i = 2 \/ i = 3
          OBVIOUS
        <4>2. w[1] = Percent /\ w[2] = x /\ w[3] = y
          OBVIOUS
        <4> QED BY <2>2, <2>5, <4>1, <4>2
      <3> HIDE DEF w
      <3>2. Spaced(w) \in Codes /\ Len(Spaced(w)) = 3 /\ \A i \in 1..3 : Spaced(w)[i] = IF w[i] = Plus THEN Space ELSE w[i]
        BY <2>6, SpacedIs
      <3>3. \A i \in 1..3 : Spaced(w)[i] = w[i]
        BY <3>1, <3>2
      <3> QED BY <2>6, <3>2, <3>3, SeqEqual DEF Codes
    <2>8. AsEscape(Spaced(w), c)
      BY <2>2, <2>4, <2>7 DEF AsEscape
    <2> HIDE DEF w
    <2> QED BY <2>3, <2>6, <2>8
  <1> QED BY <1>2, <1>3, <1>4

(* Spaced of two joined texts is both, joined.                             *)
LEMMA SpacedJoin ==
    ASSUME NEW a \in Codes, NEW b \in Codes
    PROVE  Spaced(a \o b) = Spaced(a) \o Spaced(b)
  <1> DEFINE u == Spaced(a)
             v == Spaced(b)
             w == a \o b
  <1>1. /\ u \in Seq(Int) /\ Len(u) = Len(a) /\ \A i \in 1..Len(a) : u[i] = IF a[i] = Plus THEN Space ELSE a[i]
        /\ v \in Seq(Int) /\ Len(v) = Len(b) /\ \A i \in 1..Len(b) : v[i] = IF b[i] = Plus THEN Space ELSE b[i]
    BY SpacedIs DEF Codes
  <1>2. w \in Seq(Int) /\ Len(w) = Len(a) + Len(b)
        /\ \A i \in 1..Len(a) + Len(b) : w[i] = IF i <= Len(a) THEN a[i] ELSE b[i - Len(a)]
    BY ConcatProperties DEF Codes
  <1>3. Len(a) \in Nat /\ Len(b) \in Nat
    BY DEF Codes
  <1> HIDE DEF u, v, w
  <1>4. u \o v \in Seq(Int) /\ Len(u \o v) = Len(u) + Len(v)
        /\ \A i \in 1..Len(u) + Len(v) : (u \o v)[i] = IF i <= Len(u) THEN u[i] ELSE v[i - Len(u)]
    <2>1. u \in Seq(Int) /\ v \in Seq(Int)
      BY <1>1
    <2> QED BY <2>1, ConcatProperties
  <1>5. Spaced(w) \in Seq(Int) /\ Len(Spaced(w)) = Len(w)
        /\ \A i \in 1..Len(w) : Spaced(w)[i] = IF w[i] = Plus THEN Space ELSE w[i]
    BY <1>2, SpacedIs DEF Codes
  <1>6. ASSUME NEW i \in 1..Len(a) + Len(b) PROVE Spaced(w)[i] = (u \o v)[i]
    <2>1. CASE i <= Len(a)
      <3>1. i \in 1..Len(a)
        BY <1>3, <2>1
      <3>2. w[i] = a[i] /\ (u \o v)[i] = u[i]
        BY <1>1, <1>2, <1>4, <2>1
      <3> QED BY <1>1, <1>2, <1>5, <3>1, <3>2
    <2>2. CASE ~(i <= Len(a))
      <3> DEFINE d == i - Len(a)
      <3>1. d \in 1..Len(b)
        BY <1>3, <2>2
      <3>2. w[i] = b[d] /\ (u \o v)[i] = v[d]
        BY <1>1, <1>2, <1>4, <2>2
      <3> HIDE DEF d
      <3> QED BY <1>1, <1>2, <1>5, <3>1, <3>2
    <2> QED BY <2>1, <2>2
  <1> DEFINE lhs == Spaced(w)
             rhs == u \o v
  <1>7. Len(lhs) = Len(a) + Len(b) /\ Len(rhs) = Len(a) + Len(b)
    BY <1>1, <1>2, <1>4, <1>5
  <1>8. lhs \in Seq(Int) /\ rhs \in Seq(Int) /\ \A i \in 1..Len(a) + Len(b) : lhs[i] = rhs[i]
    BY <1>4, <1>5, <1>6
  <1> HIDE DEF lhs, rhs
  <1>9. lhs = rhs
    BY <1>7, <1>8, SeqEqual
  <1> QED BY <1>9 DEF lhs, rhs, u, v, w

(* What the first k characters are written as.                               *)
Escapes(t, k) == FlattenSeq([i \in 1..k |-> EscapeOf(t[i])])

(* The escapes of one character more add that character's escape.          *)
LEMMA EscapesGrow ==
    ASSUME NEW S, NEW t, NEW m \in Nat, \A i \in 1..m + 1 : EscapeOf(t[i]) \in Seq(S)
    PROVE  /\ Escapes(t, 0) = <<>> /\ Escapes(t, m) \in Seq(S) /\ Escapes(t, m + 1) \in Seq(S)
           /\ Escapes(t, m + 1) = Escapes(t, m) \o EscapeOf(t[m + 1])
  <1> DEFINE seqs == [i \in 1..m |-> EscapeOf(t[i])]
             x == EscapeOf(t[m + 1])
             more == [i \in 1..m + 1 |-> EscapeOf(t[i])]
             none == [i \in 1..0 |-> EscapeOf(t[i])]
  <1>1. m + 1 \in 1..m + 1 /\ \A i \in 1..m : i \in 1..m + 1
    OBVIOUS
  <1>2. x \in Seq(S) /\ seqs \in Seq(Seq(S)) /\ more \in Seq(Seq(S))
    BY <1>1
  <1>3. none = <<>>
    OBVIOUS
  <1>4. more = Append(seqs, x)
    <2>1. Append(seqs, x) \in Seq(Seq(S)) /\ Len(Append(seqs, x)) = Len(seqs) + 1
          /\ (\A i \in 1..Len(seqs) : Append(seqs, x)[i] = seqs[i]) /\ Append(seqs, x)[Len(seqs) + 1] = x
      <3> HIDE DEF seqs, x, more
      <3> QED BY <1>2, AppendProperties
    <2>2. Len(seqs) = m /\ Len(more) = m + 1
      OBVIOUS
    <2>3. ASSUME NEW i \in 1..m + 1 PROVE more[i] = Append(seqs, x)[i]
      <3>1. i = m + 1 \/ i \in 1..m
        OBVIOUS
      <3>2. CASE i = m + 1
        <4>1. more[i] = x
          BY <3>2
        <4> HIDE DEF more, seqs, x
        <4> QED BY <2>1, <2>2, <3>2, <4>1
      <3>3. CASE i \in 1..m
        <4>1. more[i] = seqs[i]
          BY <3>3
        <4> HIDE DEF more, seqs, x
        <4> QED BY <2>1, <2>2, <3>3, <4>1
      <3> QED BY <3>1, <3>2, <3>3
    <2> HIDE DEF more, seqs, x
    <2> QED BY <1>2, <2>1, <2>2, <2>3, SeqEqual
  <1>5. FlattenSeq(<<>>) = <<>> /\ FlattenSeq(seqs) \in Seq(S) /\ FlattenSeq(Append(seqs, x)) = FlattenSeq(seqs) \o x
    <2> HIDE DEF seqs, x
    <2> QED BY <1>2, FlattenAppend
  <1>6. FlattenSeq(seqs) \o x \in Seq(S)
    <2> HIDE DEF seqs, x
    <2> QED BY <1>2, <1>5, ConcatProperties
  <1>7. Escapes(t, 0) = FlattenSeq(none) /\ Escapes(t, m) = FlattenSeq(seqs) /\ Escapes(t, m + 1) = FlattenSeq(more)
    BY DEF Escapes
  <1> HIDE DEF more, seqs, x, none
  <1> QED BY <1>3, <1>4, <1>5, <1>6, <1>7 DEF x

(* The escape of a text is plain, and made character by character.         *)
LEMMA EscapeIs ==
    ASSUME NEW t \in Seq(Chars)
    PROVE  /\ Escape(t) \in Seq(Plain) /\ Escape(t) \in Codes /\ Len(Escape(t)) >= Len(t)
           /\ Escape(t) = Escapes(t, Len(t)) /\ (t = <<>> => Escape(t) = <<>>)
           /\ \A m \in 0..Len(t) - 1 :
                 /\ Escapes(t, m) \in Codes
                 /\ Escapes(t, m + 1) = Escapes(t, m) \o EscapeOf(t[m + 1])
                 /\ t[m + 1] \in Chars
  <1> DEFINE n == Len(t)
  <1>1. n \in Nat /\ \A i \in 1..n : t[i] \in Chars
    OBVIOUS
  <1>2. \A i \in 1..n : EscapeOf(t[i]) \in Seq(Plain) /\ EscapeOf(t[i]) \in Codes /\ Len(EscapeOf(t[i])) >= 1
    BY <1>1, EscapeOfIs
  <1>3. Escape(t) = Escapes(t, n)
    BY DEF Escape, Escapes
  <1> HIDE DEF n
  <1>4. ASSUME NEW m \in 0..n - 1
        PROVE  /\ Escapes(t, m) \in Seq(Plain) /\ Escapes(t, m + 1) \in Seq(Plain)
               /\ Escapes(t, m) \in Codes /\ Escapes(t, m + 1) \in Codes
               /\ Escapes(t, m + 1) = Escapes(t, m) \o EscapeOf(t[m + 1])
               /\ t[m + 1] \in Chars
               /\ Len(Escapes(t, m + 1)) >= Len(Escapes(t, m)) + 1 /\ Len(Escapes(t, m)) \in Nat
    <2>1. m \in Nat /\ m + 1 \in 1..n /\ \A i \in 1..m + 1 : i \in 1..n
      BY <1>1
    <2>2. /\ Escapes(t, m) \in Seq(Plain) /\ Escapes(t, m + 1) \in Seq(Plain)
          /\ Escapes(t, m + 1) = Escapes(t, m) \o EscapeOf(t[m + 1])
      <3>1. \A i \in 1..m + 1 : EscapeOf(t[i]) \in Seq(Plain)
        BY <1>2, <2>1
      <3> QED BY <2>1, <3>1, EscapesGrow
    <2>3. Escapes(t, m) \in Codes /\ Escapes(t, m + 1) \in Codes
      <3>1. \A i \in 1..m + 1 : EscapeOf(t[i]) \in Seq(Int)
        BY <1>2, <2>1 DEF Codes
      <3> QED BY <2>1, <3>1, EscapesGrow DEF Codes
    <2>4. Len(Escapes(t, m + 1)) = Len(Escapes(t, m)) + Len(EscapeOf(t[m + 1]))
      <3>1. EscapeOf(t[m + 1]) \in Codes
        BY <1>2, <2>1
      <3> QED BY <2>2, <2>3, <3>1, CodesJoin
    <2>5. Len(Escapes(t, m)) \in Nat /\ Len(EscapeOf(t[m + 1])) >= 1 /\ Len(EscapeOf(t[m + 1])) \in Nat
      BY <1>2, <2>1, <2>3 DEF Codes
    <2>6. Len(Escapes(t, m + 1)) >= Len(Escapes(t, m)) + 1
      BY <2>4, <2>5
    <2> QED BY <1>1, <2>1, <2>2, <2>3, <2>5, <2>6
  <1>5. Escapes(t, 0) = <<>> /\ <<>> \in Seq(Plain) /\ <<>> \in Codes /\ Len(<<>>) = 0
    <2>1. FlattenSeq(<<>>) = <<>>
      BY DEF FlattenSeq
    <2>2. [i \in 1..0 |-> EscapeOf(t[i])] = <<>>
      OBVIOUS
    <2> QED BY <2>1, <2>2 DEF Escapes, Codes
  <1> DEFINE K == {k \in 0..n : /\ Escapes(t, k) \in Seq(Plain) /\ Escapes(t, k) \in Codes
                                 /\ Len(Escapes(t, k)) >= k}
  <1>6. \A k \in 0..n : k \in K
    <2>1. 0 \in K
      <3>1. 0 \in 0..n /\ Len(Escapes(t, 0)) >= 0
        BY <1>1, <1>5
      <3> QED BY <1>5, <3>1
    <2>2. ASSUME NEW k \in 1..n, k - 1 \in K PROVE k \in K
      <3>1. k - 1 \in 0..n - 1 /\ (k - 1) + 1 = k /\ k \in 0..n
        BY <1>1
      <3>2. /\ Escapes(t, k) \in Seq(Plain) /\ Escapes(t, k) \in Codes
            /\ Len(Escapes(t, k)) >= Len(Escapes(t, k - 1)) + 1 /\ Len(Escapes(t, k - 1)) \in Nat
            /\ Len(Escapes(t, k)) \in Nat
        BY <1>4, <3>1 DEF Codes
      <3>3. Len(Escapes(t, k - 1)) >= k - 1
        BY <2>2
      <3>4. Len(Escapes(t, k)) >= k
        BY <3>1, <3>2, <3>3
      <3> QED BY <3>1, <3>2, <3>4
    <2> HIDE DEF K
    <2> QED BY <1>1, <2>1, <2>2, RunInduction
  <1>7. n \in 0..n /\ (t = <<>> => n = 0)
    BY <1>1 DEF n
  <1> QED BY <1>3, <1>4, <1>5, <1>6, <1>7 DEF n

(* What is left of an escaped text after its first k characters.             *)
Left(t, k, w) == w \in Codes /\ Escapes(t, k) \o w = Escape(t)

(* What is left to unescape begins with the next character's escape.       *)
LEMMA LeftStep ==
    ASSUME NEW t \in Seq(Chars), NEW m \in Nat, m < Len(t), NEW w \in Codes, Left(t, m, w)
    PROVE  \E v \in Codes : w = EscapeOf(t[m + 1]) \o v /\ Left(t, m + 1, v)
  <1> DEFINE n == Len(t)
             K == {d \in 0..n : \E v \in Codes : Left(t, n - d, v)}
  <1>1. n \in Nat /\ n > 0
    OBVIOUS
  <1>2. Escape(t) \in Codes /\ Escape(t) = Escapes(t, n)
    BY EscapeIs
  <1>3. ASSUME NEW k \in 0..n - 1
        PROVE  /\ Escapes(t, k) \in Codes /\ EscapeOf(t[k + 1]) \in Codes
               /\ Escapes(t, k + 1) = Escapes(t, k) \o EscapeOf(t[k + 1])
    BY EscapeIs, EscapeOfIs
  <1>4. 0 \in K
    <2>1. <<>> \in Codes /\ Escapes(t, n) \o <<>> = Escape(t)
      BY <1>2 DEF Codes
    <2>2. n - 0 = n /\ 0 \in 0..n
      BY <1>1
    <2>3. Left(t, n - 0, <<>>)
      BY <2>1, <2>2 DEF Left
    <2> QED BY <2>1, <2>2, <2>3
  <1>5. ASSUME NEW d \in 1..n, d - 1 \in K PROVE d \in K
    <2> DEFINE k == n - d
               x == EscapeOf(t[k + 1])
    <2>1. k \in 0..n - 1 /\ n - (d - 1) = k + 1 /\ d \in 0..n
      BY <1>1
    <2>2. PICK v \in Codes : Left(t, k + 1, v)
      BY <1>5, <2>1
    <2>3. Escapes(t, k) \in Codes /\ x \in Codes /\ Escapes(t, k + 1) = Escapes(t, k) \o x
      BY <1>3, <2>1
    <2> HIDE DEF x, k
    <2>4. (Escapes(t, k) \o x) \o v = Escapes(t, k) \o (x \o v) /\ x \o v \in Codes
      <3>1. (Escapes(t, k) \o x) \o v = Escapes(t, k) \o (x \o v)
        BY <2>3, CodesRegroup, Zenon
      <3>2. x \o v \in Codes
        BY <2>3, CodesJoin, Zenon
      <3> QED BY <3>1, <3>2, Zenon
    <2>5. Left(t, k, x \o v)
      BY <2>2, <2>3, <2>4 DEF Left
    <2> QED BY <2>1, <2>4, <2>5 DEF k
  <1>6. \A d \in 0..n : d \in K
    <2> HIDE DEF K, n
    <2> QED BY <1>1, <1>4, <1>5, RunInduction
  <1>7. m \in 0..n - 1 /\ n - (m + 1) \in 0..n /\ n - (n - (m + 1)) = m + 1
    BY <1>1
  <1>8. PICK v \in Codes : Left(t, m + 1, v)
    BY <1>6, <1>7
  <1> DEFINE x == EscapeOf(t[m + 1])
  <1>9. Escapes(t, m) \in Codes /\ x \in Codes /\ Escapes(t, m + 1) = Escapes(t, m) \o x
    BY <1>3, <1>7
  <1> HIDE DEF x, n, K
  <1>10. (Escapes(t, m) \o x) \o v = Escapes(t, m) \o (x \o v) /\ x \o v \in Codes
    <2>1. (Escapes(t, m) \o x) \o v = Escapes(t, m) \o (x \o v)
      BY <1>9, CodesRegroup, Zenon
    <2>2. x \o v \in Codes
      BY <1>9, CodesJoin, Zenon
    <2> QED BY <2>1, <2>2, Zenon
  <1>11. Escapes(t, m) \o (x \o v) = Escapes(t, m) \o w
    BY <1>8, <1>9, <1>10 DEF Left
  <1>12. w = x \o v
    BY <1>9, <1>10, <1>11, CodesCancel
  <1> QED BY <1>8, <1>12 DEF x

(* A turn takes one character of what was escaped.                           *)
LEMMA TurnTakesOne ==
    ASSUME NEW u \in Codes, NEW c \in Chars, NEW v \in Codes,
           NEW st \in Scans, st.pos = Len(u) + 1, st.text = u \o Spaced(EscapeOf(c) \o v)
    PROVE  UnescapeTurn(st) = [text |-> (u \o <<c>>) \o Spaced(v), pos |-> Len(u) + 2]
  <1> DEFINE w == Spaced(EscapeOf(c))
             r == Spaced(v)
             text == st.text
             h == Len(u)
  <1>1. w \in Codes /\ r \in Codes /\ EscapeOf(c) \in Codes /\ (Itself(w, c) \/ AsEscape(w, c))
    BY EscapeOfIs, SpacedIs
  <1>2. text = u \o (w \o r) /\ text = (u \o w) \o r /\ text \in Codes /\ u \o w \in Codes
    <2>1. Spaced(EscapeOf(c) \o v) = w \o r
      BY <1>1, SpacedJoin
    <2> HIDE DEF w, r
    <2>2. (u \o w) \o r = u \o (w \o r) /\ u \o w \in Codes
      <3>1. (u \o w) \o r = u \o (w \o r)
        BY <1>1, CodesRegroup, Zenon
      <3>2. u \o w \in Codes
        BY <1>1, CodesJoin, Zenon
      <3> QED BY <3>1, <3>2
    <2>3. (u \o w) \o r \in Codes
      BY <1>1, <2>2, CodesJoin
    <2> QED BY <2>1, <2>2, <2>3
  <1>3. c \in Int /\ h \in Nat /\ Len(r) \in Nat /\ Len(w) \in Nat
    BY <1>1 DEF Chars, Codes
  <1> HIDE DEF w, r
  <1>4. Len(text) = h + Len(w) + Len(r) /\ Len(u \o w) = h + Len(w)
    BY <1>1, <1>2, <1>3, CodesJoin
  <1>5. \A i \in 1..Len(w) : text[h + i] = w[i] /\ h + i <= Len(text)
    <2> DEFINE both == u \o w
    <2>1. both \in Seq(Int) /\ r \in Seq(Int) /\ u \in Seq(Int) /\ w \in Seq(Int)
      BY <1>1, <1>2 DEF Codes
    <2>2. \A i \in 1..Len(u) + Len(w) : both[i] = IF i <= Len(u) THEN u[i] ELSE w[i - Len(u)]
      BY <2>1, ConcatProperties
    <2>3. Len(both) = h + Len(w) /\ text = both \o r
      BY <1>2, <1>4
    <2> HIDE DEF both, text
    <2>4. \A i \in 1..Len(both) + Len(r) : (both \o r)[i] = IF i <= Len(both) THEN both[i] ELSE r[i - Len(both)]
      BY <2>1, ConcatProperties
    <2> HIDE DEF h
    <2>5. ASSUME NEW i \in 1..Len(w) PROVE text[h + i] = w[i] /\ h + i <= Len(text)
      <3> DEFINE m == h + i
      <3>1. m \in 1..h + Len(w) /\ ~(m <= h) /\ m - h = i /\ m \in 1..h + Len(w) + Len(r)
            /\ m <= h + Len(w) /\ m <= h + Len(w) + Len(r)
        BY <1>3
      <3> HIDE DEF m
      <3>2. both[m] = w[m - h]
        BY <2>2, <3>1 DEF h
      <3>3. (both \o r)[m] = both[m]
        BY <2>3, <2>4, <3>1
      <3> QED BY <1>4, <2>3, <3>1, <3>2, <3>3 DEF m
    <2> QED BY <2>5
  <1>6. st = [text |-> text, pos |-> h + 1] /\ text \in Codes
    BY <1>2 DEF Scans
  <1>7. CASE Itself(w, c)
    <2>1. w = <<c>> /\ c # Percent
      BY <1>7 DEF Itself
    <2>2. Len(w) = 1 /\ w[1] = c /\ 1 \in 1..1
      BY <2>1
    <2>3. text[h + 1] = c /\ h + 1 <= Len(text)
      BY <1>5, <2>2
    <2>4. UnescapeTurn(st) = [text |-> text, pos |-> h + 1 + 1]
      <3> HIDE DEF h
      <3>1. st.pos = h + 1 /\ st.text[st.pos] # Percent /\ st.pos <= Len(st.text)
        BY <2>1, <2>3 DEF h
      <3> HIDE DEF text
      <3> QED BY <3>1, TurnIs DEF text
    <2>5. h + 1 + 1 = h + 2
      BY <1>3
    <2> QED BY <1>2, <2>1, <2>4, <2>5 DEF r
  <1>8. CASE AsEscape(w, c)
    <2>1. PICK x \in HexDigits, y \in HexDigits : w = <<Percent, x, y>> /\ 16 * FromHex(x) + FromHex(y) = c
      BY <1>8 DEF AsEscape
    <2>2. Len(w) = 3 /\ w[1] = Percent /\ w[2] = x /\ w[3] = y
      BY <2>1
    <2> DEFINE at == h + 1
    <2>3. /\ text[at] = Percent /\ text[at + 1] = x /\ text[at + 2] = y /\ at + 2 <= Len(text) /\ at <= Len(text)
          /\ st.pos = at /\ at \in Nat /\ Len(text) = h + 3 + Len(r)
      <3>1. 1 \in 1..3 /\ 2 \in 1..3 /\ 3 \in 1..3 /\ h + 2 = at + 1 /\ h + 3 = at + 2
        BY <1>3
      <3>2. text[h + 1] = w[1] /\ text[h + 2] = w[2] /\ text[h + 3] = w[3] /\ h + 3 <= Len(text) /\ h + 1 <= Len(text)
        BY <1>5, <2>2, <3>1
      <3>3. Len(text) = h + 3 + Len(r)
        BY <1>4, <2>2
      <3> HIDE DEF text
      <3> QED BY <1>3, <2>2, <3>1, <3>2, <3>3
    <2>4. ~BadEscape(text, at)
      <3>1. ~(at + 2 > Len(text))
        <4>1. Len(text) \in Nat
          BY <1>3, <2>3
        <4> QED BY <2>3, <4>1
      <3> QED BY <2>1, <2>3, <3>1 DEF BadEscape
    <2>5. UnescapeTurn(st) = [text |-> SubSeq(text, 1, at - 1)
                                          \o <<16 * FromHex(text[at + 1]) + FromHex(text[at + 2])>>
                                          \o SubSeq(text, at + 3, Len(text)),
                              pos |-> at + 1]
      <3> HIDE DEF at
      <3> QED BY <2>3, <2>4, TurnIs
    <2>6. SubSeq(text, 1, at - 1) = u
      <3>1. at - 1 = h /\ w \o r \in Codes
        BY <1>1, <1>3, CodesJoin
      <3>2. SubSeq(u \o (w \o r), 1, Len(u)) = u
        BY <3>1, CutJoined
      <3> QED BY <1>2, <3>1, <3>2
    <2>7. SubSeq(text, at + 3, Len(text)) = r
      <3>1. at + 3 = Len(u \o w) + 1 /\ Len(text) = Len(u \o w) + Len(r)
        BY <1>3, <1>4, <2>2
      <3>2. SubSeq((u \o w) \o r, Len(u \o w) + 1, Len(u \o w) + Len(r)) = r
        BY <1>1, <1>2, CutJoined
      <3> QED BY <1>2, <3>1, <3>2
    <2>8. at + 1 = h + 2
      BY <1>3
    <2> HIDE DEF at, text, h
    <2> QED BY <2>1, <2>3, <2>5, <2>6, <2>7, <2>8 DEF r, h
  <1> QED BY <1>1, <1>7, <1>8

(* A text of characters is a text of codes.                                *)
LEMMA CharsAreCodes == Seq(Chars) \subseteq Codes
  <1>1. Chars \subseteq Int
    BY DEF Chars
  <1> QED BY <1>1, SeqMonotonic DEF Codes

(* What is escaped is unescaped once, and is what it was.                    *)
LEMMA UnescapeReadsBack ==
    ASSUME NEW t \in Seq(Chars)
    PROVE  Unescape(Escape(t)) = t
  <1> DEFINE e == Escape(t)
             N == Len(e)
             n == Len(t)
             Begun(st, k) == /\ st.pos = k + 1
                             /\ \E w \in Codes : Left(t, k, w) /\ st.text = SubSeq(t, 1, k) \o Spaced(w)
             Done(st) == st.text = t /\ st.pos = n + 1
  <1>1. e \in Codes /\ N >= n /\ e = Escapes(t, n)
    BY EscapeIs
  <1>2. N \in Nat /\ n \in Nat /\ t \in Codes /\ 0 \in 0..N /\ N \in 0..N
    <2>1. t \in Codes
      BY CharsAreCodes
    <2> HIDE DEF e
    <2>2. Len(e) \in Nat /\ Len(t) \in Nat
      BY <1>1, <2>1 DEF Codes
    <2> QED BY <2>1, <2>2
  <1>3. PICK g : IsScan(g, e) /\ Unescape(e) = g[N].text
    BY <1>1, UnescapeIsRun
  <1> DEFINE K == {k \in 0..N : g[k] \in Scans /\ (k <= n => Begun(g[k], k)) /\ (k >= n => Done(g[k]))}
  <1>4. ASSUME NEW st, Begun(st, n) PROVE Done(st)
    <2>1. PICK w \in Codes : Left(t, n, w) /\ st.text = SubSeq(t, 1, n) \o Spaced(w)
      BY <1>4
    <2>2. e \o w = e
      BY <1>1, <2>1 DEF Left
    <2> HIDE DEF e, n
    <2>3. w = <<>>
      BY <1>1, <2>2, ConcatSimplifications DEF Codes
    <2>4. Spaced(w) = <<>>
      <3>1. Spaced(w) \in Codes /\ Len(Spaced(w)) = 0
        BY <2>3, SpacedIs
      <3> QED BY <3>1 DEF Codes
    <2>5. SubSeq(t, 1, n) = t /\ t \o <<>> = t
      BY SubSeqFull, ConcatEmptySeq DEF n
    <2> QED BY <1>4, <2>1, <2>4, <2>5
  <1>5. 0 \in K
    <2>1. g[0] \in Scans /\ g[0] = [text |-> Spaced(e), pos |-> 1]
      BY <1>2, <1>3 DEF IsScan
    <2>2. Left(t, 0, e)
      <3>1. Escapes(t, 0) = <<>>
        <4>1. FlattenSeq(<<>>) = <<>>
          BY DEF FlattenSeq
        <4>2. [i \in 1..0 |-> EscapeOf(t[i])] = <<>>
          OBVIOUS
        <4> QED BY <4>1, <4>2 DEF Escapes
      <3>2. <<>> \o e = e
        BY <1>1, ConcatEmptySeq DEF Codes
      <3> QED BY <1>1, <3>1, <3>2 DEF Left
    <2>3. SubSeq(t, 1, 0) \o Spaced(e) = Spaced(e)
      <3>1. Spaced(e) \in Codes /\ SubSeq(t, 1, 0) = <<>>
        BY <1>1, SpacedIs, SubSeqEmpty
      <3> QED BY <3>1, ConcatEmptySeq DEF Codes
    <2> HIDE DEF e
    <2>4. Begun(g[0], 0)
      BY <1>1, <2>1, <2>2, <2>3
    <2>5. 0 >= n => n = 0
      BY <1>2
    <2> HIDE DEF Begun, Done, n, N
    <2> QED BY <1>2, <1>4, <2>1, <2>4, <2>5
  <1>6. ASSUME NEW k \in 1..N, k - 1 \in K PROVE k \in K
    <2> DEFINE st == g[k - 1]
               next == g[k]
    <2>1. k \in 0..N /\ k \in Nat /\ k > 0 /\ next = UnescapeTurn(st)
      BY <1>2, <1>3 DEF IsScan
    <2>2. st \in Scans /\ (k - 1 <= n => Begun(st, k - 1)) /\ (k - 1 >= n => Done(st))
      BY <1>6
    <2> HIDE DEF st, next, e, N
    <2>3. next \in Scans
      BY <2>1, <2>2, TurnIs
    <2>4. CASE k - 1 >= n
      <3>1. Done(st)
        BY <2>2, <2>4
      <3>2. st.pos > Len(st.text)
        BY <1>2, <3>1
      <3>3. next = st
        BY <2>1, <2>2, <3>2, TurnIs
      <3>4. ~(k <= n)
        BY <1>2, <2>1, <2>4
      <3> HIDE DEF Done, Begun
      <3> QED BY <2>1, <2>3, <3>1, <3>3, <3>4 DEF next
    <2>5. CASE k - 1 < n
      <3> DEFINE m == k - 1
                 u == SubSeq(t, 1, m)
                 c == t[m + 1]
      <3>1. m \in Nat /\ m < n /\ m + 1 = k /\ k <= n /\ m + 1 \in 1..n
        BY <1>2, <2>1, <2>5
      <3> HIDE DEF m
      <3>2. PICK w \in Codes : Left(t, m, w) /\ st.text = u \o Spaced(w)
        BY <2>2, <2>5, <3>1 DEF m
      <3>3. st.pos = m + 1
        BY <2>2, <3>1 DEF m
      <3>4. PICK v \in Codes : w = EscapeOf(c) \o v /\ Left(t, m + 1, v)
        BY <3>1, <3>2, LeftStep
      <3>5. c \in Chars /\ u \in Codes /\ Len(u) = m /\ SubSeq(t, 1, k) = u \o <<c>>
        <4>1. c \in Chars
          BY <3>1
        <4>2. u \in Seq(Int) /\ Len(u) = m
          <5>1. t \in Seq(Int) /\ m <= Len(t) /\ Len(t) \in Nat
            BY <1>2, <3>1 DEF Codes
          <5> HIDE DEF n
          <5>2. 1 \in Int /\ m \in Int /\ \A d \in 1..m : t[d] \in Int
            <6>1. \A d \in 1..m : d \in 1..Len(t)
              BY <3>1, <5>1
            <6> QED BY <3>1, <5>1, <6>1
          <5>3. u \in Seq(Int) /\ Len(u) = IF 1 <= m THEN m - 1 + 1 ELSE 0
            BY <5>2, SubSeqProperties
          <5> HIDE DEF u
          <5> QED BY <3>1, <5>3
        <4>3. SubSeq(t, 1, k) = SubSeq(t, 1, k - 1) \o <<t[k]>>
          <5>1. 1 \in 1..Len(t) /\ k \in 1..Len(t)
            BY <1>2, <2>1, <3>1
          <5> HIDE DEF n
          <5> QED BY <5>1, SubSeqRecursiveSecond
        <4> QED BY <3>1, <4>1, <4>2, <4>3 DEF m, Codes
      <3> HIDE DEF u, c, n
      <3>6. next = [text |-> (u \o <<c>>) \o Spaced(v), pos |-> m + 2]
        <4>1. st.pos = Len(u) + 1 /\ m + 2 = Len(u) + 2
          BY <3>1, <3>3, <3>5
        <4>2. st.text = u \o Spaced(EscapeOf(c) \o v)
          BY <3>2, <3>4
        <4>3. UnescapeTurn(st) = [text |-> (u \o <<c>>) \o Spaced(v), pos |-> Len(u) + 2]
          BY <2>2, <3>4, <3>5, <4>1, <4>2, TurnTakesOne, ZenonT(30)
        <4> QED BY <2>1, <4>1, <4>3
      <3>7. next.pos = k + 1 /\ next.text = SubSeq(t, 1, k) \o Spaced(v) /\ Left(t, k, v)
        <4>1. m + 2 = k + 1
          BY <3>1
        <4>2. Left(t, k, v)
          BY <3>1, <3>4
        <4> QED BY <3>5, <3>6, <4>1, <4>2
      <3>8. Begun(next, k)
        BY <3>4, <3>7
      <3>9. k >= n => k = n
        BY <1>2, <2>1, <3>1
      <3> HIDE DEF Begun, Done
      <3> QED BY <1>4, <2>1, <2>3, <3>8, <3>9 DEF next
    <2>6. k - 1 >= n \/ k - 1 < n
      BY <1>2, <2>1
    <2> QED BY <2>4, <2>5, <2>6
  <1>7. \A k \in 0..N : k \in K
    <2> HIDE DEF K, N
    <2> QED BY <1>2, <1>5, <1>6, RunInduction
  <1>8. Done(g[N])
    <2> HIDE DEF Done, Begun, N
    <2> QED BY <1>1, <1>2, <1>7
  <1> QED BY <1>3, <1>8

-----------------------------------------------------------------------------
(* CrackedUri: the whole URI.                                                *)
FirstQuestion(uri) == SelectInSeq(uri, LAMBDA c : c = Question)

(* The first question mark is where the path ends, or zero.                *)
LEMMA FirstQuestionIs ==
    ASSUME NEW uri \in Codes
    PROVE  LET q == FirstQuestion(uri)
           IN  /\ q \in 0..Len(uri)
               /\ q # 0 => uri[q] = Question /\ \A i \in 1..q - 1 : uri[i] # Question
               /\ q = 0 => \A i \in 1..Len(uri) : uri[i] # Question
  <1> DEFINE places == {i \in 1..Len(uri) : uri[i] = Question}
             least == Min(places)
  <1>1. FirstQuestion(uri) = IF places # {} THEN least ELSE 0
    BY DEF FirstQuestion, SelectInSeq
  <1>2. Len(uri) \in Nat /\ places \in SUBSET Nat
    BY DEF Codes
  <1>3. places # {} => least \in places /\ \A i \in places : least <= i
    <2> HIDE DEF places
    <2>1. SUFFICES ASSUME places # {} PROVE least \in places /\ \A i \in places : least <= i
      OBVIOUS
    <2>2. \E n \in places : \A m \in places : n <= m
      BY <1>2, <2>1, LeastNumber
    <2> QED BY <2>2 DEF Min
  <1> HIDE DEF least
  <1>4. CASE places = {}
    <2>1. FirstQuestion(uri) = 0
      BY <1>1, <1>4
    <2>2. \A i \in 1..Len(uri) : uri[i] # Question
      BY <1>4
    <2> QED BY <1>2, <2>1, <2>2
  <1>5. CASE places # {}
    <2>1. FirstQuestion(uri) = least /\ least \in 1..Len(uri) /\ uri[least] = Question
      BY <1>1, <1>3, <1>5
    <2>2. \A i \in 1..least - 1 : uri[i] # Question
      <3>1. ASSUME NEW i \in 1..least - 1 PROVE i \in 1..Len(uri) /\ ~(least <= i)
        BY <1>2, <2>1
      <3>2. \A i \in places : least <= i
        BY <1>3, <1>5
      <3> QED BY <3>1, <3>2
    <2> QED BY <1>2, <2>1, <2>2
  <1> QED BY <1>4, <1>5

(* The constructor's names for the parts of a URI.                           *)
PathText(uri) == IF FirstQuestion(uri) = 0 THEN Tail(uri) ELSE SubSeq(uri, 2, FirstQuestion(uri) - 1)
QueryText(uri) == IF FirstQuestion(uri) = 0 THEN <<>> ELSE SubSeq(uri, FirstQuestion(uri) + 1, Len(uri))
Segs(uri) == [k \in 1..Len(Split(PathText(uri), Slash)) |-> Unescape(Split(PathText(uri), Slash)[k])]
Fields(uri) == {Split(f, Equals) : f \in ToSet(Split(QueryText(uri), Ampersand)) \ {<<>>}}
Throwing(uri) ==
    \/ uri = <<>> \/ Head(uri) # Slash
    \/ \E k \in 1..Len(Segs(uri)) : Segs(uri)[k] = Throws
    \/ \E f \in Fields(uri) : Len(f) > 2 \/ \E k \in 1..Len(f) : Unescape(f[k]) = Throws
Params(uri) == {<<Unescape(f[1]), IF Len(f) = 1 THEN <<>> ELSE Unescape(f[2])>> : f \in Fields(uri)}

(* CrackedUri either throws or gives its segments and parameters.          *)
LEMMA CrackIs ==
    ASSUME NEW uri
    PROVE  Crack(uri) = IF Throwing(uri) THEN Nowhere ELSE [ok |-> TRUE, path |-> Segs(uri), params |-> Params(uri)]
  BY DEF Crack, FirstQuestion, PathText, QueryText, Segs, Fields, Throwing, Params, Nowhere

(* split() of an empty text has no part at all.                            *)
LEMMA SplitIs ==
    ASSUME NEW text \in Codes, NEW c \in Int
    PROVE  /\ Split(text, c) \in Seq(Codes)
           /\ Split(text, c) = IF text = <<>> THEN <<>> ELSE SplitAll(text, c)
  <1>1. Split(text, c) = IF text = <<>> THEN <<>> ELSE SplitAll(text, c)
    BY DEF Split
  <1>2. SplitAll(text, c) \in Parts
    <2>1. PICK f : IsSplit(f, text, c) /\ SplitAll(text, c) = f[Len(text)]
      BY SplitIsRun
    <2>2. Len(text) \in 0..Len(text)
      BY DEF Codes
    <2> QED BY <2>1, <2>2 DEF IsSplit
  <1>3. SplitAll(text, c) \in Seq(Codes) /\ <<>> \in Seq(Codes)
    BY <1>2 DEF Parts
  <1> QED BY <1>1, <1>3

(* A URI is a slash, the path, a question mark and the query.                *)
Joined(p, q) == (<<Slash>> \o p \o <<Question>>) \o q

(* The constructor finds the path and the query it was joined from.        *)
LEMMA UriParts ==
    ASSUME NEW p \in Codes, NEW q \in Codes, \A i \in 1..Len(p) : p[i] # Question
    PROVE  LET uri == Joined(p, q)
           IN  /\ uri \in Codes /\ uri # <<>> /\ Head(uri) = Slash
               /\ PathText(uri) = p /\ QueryText(uri) = q
  <1> DEFINE a == <<Slash>> \o p
             b == a \o <<Question>>
             uri == b \o q
             n == Len(p)
  <1>1. <<Slash>> \in Codes /\ <<Question>> \in Codes /\ Len(<<Slash>>) = 1 /\ Len(<<Question>>) = 1
    BY DEF Codes, Slash, Question
  <1>2. a \in Codes /\ b \in Codes /\ uri \in Codes /\ n \in Nat /\ Len(a) = n + 1 /\ Len(b) = n + 2
        /\ Len(uri) = n + 2 + Len(q) /\ Len(q) \in Nat
    <2>1. a \in Codes /\ Len(a) = 1 + Len(p)
      BY <1>1, CodesJoin
    <2>2. b \in Codes /\ Len(b) = Len(a) + 1
      BY <1>1, <2>1, CodesJoin
    <2>3. uri \in Codes /\ Len(uri) = Len(b) + Len(q)
      BY <2>2, CodesJoin
    <2>4. Len(p) \in Nat /\ Len(q) \in Nat
      BY DEF Codes
    <2> HIDE DEF a, b, uri
    <2> QED BY <2>1, <2>2, <2>3, <2>4
  <1>3. a[1] = Slash /\ \A i \in 1..n : a[i + 1] = p[i]
    BY <1>1, <1>2, ConcatProperties DEF Codes
  <1>4. b[n + 2] = Question /\ \A i \in 1..n + 1 : b[i] = a[i]
    <2> HIDE DEF a
    <2> QED BY <1>1, <1>2, ConcatProperties DEF Codes
  <1>5. \A i \in 1..n + 2 : uri[i] = b[i]
    <2> HIDE DEF b
    <2> QED BY <1>2, ConcatProperties DEF Codes
  <1> HIDE DEF a, b
  <1>6. uri[1] = Slash /\ uri[n + 2] = Question /\ \A i \in 1..n : uri[i + 1] = p[i]
    <2> HIDE DEF uri
    <2>1. 1 \in 1..n + 2 /\ 1 \in 1..n + 1 /\ n + 2 \in 1..n + 2
      BY <1>2
    <2>2. ASSUME NEW i \in 1..n PROVE uri[i + 1] = p[i]
      <3>1. i + 1 \in 1..n + 2 /\ i + 1 \in 1..n + 1
        BY <1>2
      <3> QED BY <1>3, <1>4, <1>5, <3>1
    <2> QED BY <1>3, <1>4, <1>5, <2>1, <2>2
  <1>7. FirstQuestion(uri) = n + 2
    <2> DEFINE at == FirstQuestion(uri)
    <2> HIDE DEF uri
    <2>1. /\ at \in 0..Len(uri)
          /\ at # 0 => uri[at] = Question /\ \A i \in 1..at - 1 : uri[i] # Question
          /\ at = 0 => \A i \in 1..Len(uri) : uri[i] # Question
      BY <1>2, FirstQuestionIs
    <2> HIDE DEF at
    <2>2. n + 2 \in 1..Len(uri)
      BY <1>2
    <2>3. at # 0 /\ uri[at] = Question
      BY <1>6, <2>1, <2>2
    <2>4. ~(n + 2 < at)
      <3>1. ASSUME n + 2 < at PROVE n + 2 \in 1..at - 1
        BY <1>2, <2>1, <3>1
      <3> QED BY <1>6, <2>1, <2>3, <3>1
    <2>5. ~(at < n + 2)
      <3>1. SUFFICES ASSUME at < n + 2 PROVE FALSE
        OBVIOUS
      <3>2. at = 1 \/ at - 1 \in 1..n
        BY <1>2, <2>1, <2>3, <3>1
      <3>3. CASE at = 1
        BY <1>6, <2>3, <3>3 DEF Slash, Question
      <3>4. CASE at - 1 \in 1..n
        <4>1. uri[(at - 1) + 1] = p[at - 1] /\ (at - 1) + 1 = at
          BY <1>6, <2>1, <3>4
        <4> QED BY <2>3, <3>4, <4>1
      <3> QED BY <3>2, <3>3, <3>4
    <2> QED BY <1>2, <2>1, <2>4, <2>5 DEF at
  <1>8. uri # <<>> /\ Head(uri) = Slash
    <2> HIDE DEF uri
    <2>1. Len(uri) # 0 /\ Len(<<>>) = 0
      BY <1>2
    <2> QED BY <1>6, <2>1
  <1>9. PathText(uri) = p
    <2> HIDE DEF uri
    <2>1. PathText(uri) = SubSeq(uri, 2, n + 1)
      <3>1. n + 2 # 0 /\ (n + 2) - 1 = n + 1
        BY <1>2
      <3> QED BY <1>7, <3>1 DEF PathText
    <2>2. \A i \in 2..n + 1 : uri[i] \in Int
      <3>1. \A i \in 2..n + 1 : i \in 1..Len(uri)
        BY <1>2
      <3> QED BY <1>2, <3>1 DEF Codes
    <2>3. 2 \in Int /\ n + 1 \in Int
      BY <1>2
    <2>4. /\ SubSeq(uri, 2, n + 1) \in Seq(Int)
          /\ Len(SubSeq(uri, 2, n + 1)) = IF 2 <= n + 1 THEN n + 1 - 2 + 1 ELSE 0
          /\ \A i \in 1..n + 1 - 2 + 1 : SubSeq(uri, 2, n + 1)[i] = uri[2 + i - 1]
      BY <2>2, <2>3, SubSeqProperties
    <2>5. Len(SubSeq(uri, 2, n + 1)) = n
      BY <1>2, <2>4
    <2>6. ASSUME NEW i \in 1..n PROVE SubSeq(uri, 2, n + 1)[i] = p[i]
      <3>1. i \in 1..n + 1 - 2 + 1 /\ 2 + i - 1 = i + 1
        BY <1>2
      <3> QED BY <1>6, <2>4, <3>1
    <2>7. p \in Seq(Int) /\ Len(p) = n
      BY DEF Codes
    <2> HIDE DEF n
    <2> QED BY <2>1, <2>4, <2>5, <2>6, <2>7, SeqEqual
  <1>10. QueryText(uri) = q
    <2>1. QueryText(uri) = SubSeq(uri, n + 2 + 1, Len(uri))
      <3> HIDE DEF uri
      <3>1. n + 2 # 0
        BY <1>2
      <3> QED BY <1>7, <3>1 DEF QueryText
    <2>2. SubSeq(b \o q, Len(b) + 1, Len(b) + Len(q)) = q
      BY <1>2, CutJoined
    <2> QED BY <1>2, <2>1, <2>2
  <1>11. Joined(p, q) = uri
    BY DEF Joined, a, b
  <1> HIDE DEF uri
  <1> QED BY <1>2, <1>8, <1>9, <1>10, <1>11

(* An escaped text has no separators, and is never what an exception leaves. *)
LEMMA EscapedIsApart ==
    ASSUME NEW t \in Seq(Chars)
    PROVE  /\ Escape(t) \in Codes
           /\ \A i \in 1..Len(Escape(t)) :
                 /\ Escape(t)[i] # Slash /\ Escape(t)[i] # Question
                 /\ Escape(t)[i] # Ampersand /\ Escape(t)[i] # Equals
           /\ Unescape(Escape(t)) = t /\ t # Throws
           /\ t # <<>> => Escape(t) # <<>>
  <1>1. Escape(t) \in Codes /\ Escape(t) \in Seq(Plain) /\ Len(Escape(t)) >= Len(t)
    BY EscapeIs
  <1>2. \A i \in 1..Len(Escape(t)) : Escape(t)[i] \in Plain
    BY <1>1
  <1>3. t # Throws
    <2>1. SUFFICES ASSUME t = Throws PROVE FALSE
      OBVIOUS
    <2>2. Len(t) = 1 /\ t[1] = -1
      BY <2>1 DEF Throws
    <2>3. t[1] \in Chars
      <3>1. 1 \in 1..Len(t)
        BY <2>2
      <3> QED BY <3>1, ElementOfSeq
    <2> QED BY <2>2, <2>3 DEF Chars
  <1>4. t # <<>> => Escape(t) # <<>>
    <2>1. t # <<>> => Len(t) > 0
      OBVIOUS
    <2>2. Len(t) \in Nat /\ Len(<<>>) = 0
      OBVIOUS
    <2> QED BY <1>1, <2>1, <2>2
  <1> QED BY <1>1, <1>2, <1>3, <1>4, PlainIsApart, UnescapeReadsBack

(* What is between the slash and the question mark.                          *)
Way(path) ==
    FlattenSeq([k \in 1..Len(path) |-> IF k = 1 THEN Escape(path[k]) ELSE <<Slash>> \o Escape(path[k])])

(* The way to a page is its segments, escaped, with slashes between.       *)
LEMMA WayIs ==
    ASSUME NEW a \in Seq(Chars), NEW b \in Seq(Chars)
    PROVE  /\ Way(<<>>) = <<>> /\ Way(<<a>>) = Escape(a)
           /\ Way(<<a, b>>) = Escape(a) \o <<Slash>> \o Escape(b)
  <1> DEFINE x == Escape(a)
             y == <<Slash>> \o Escape(b)
  <1>1. Escape(a) \in Seq(Int) /\ Escape(b) \in Codes /\ <<Slash>> \in Codes /\ x \in Codes
    BY EscapedIsApart DEF Codes, Slash
  <1>2. y \in Seq(Int)
    BY <1>1, CodesJoin DEF Codes
  <1>3. Way(<<>>) = <<>>
    <2>1. Way(<<>>) = FlattenSeq(<<>>)
      <3>1. [k \in 1..Len(<<>>) |-> IF k = 1 THEN Escape(<<>>[k]) ELSE <<Slash>> \o Escape(<<>>[k])] = <<>>
        OBVIOUS
      <3> QED BY <3>1 DEF Way
    <2> QED BY <2>1 DEF FlattenSeq
  <1>4. Way(<<a>>) = FlattenSeq(<<x>>)
    <2>1. [k \in 1..Len(<<a>>) |-> IF k = 1 THEN Escape(<<a>>[k]) ELSE <<Slash>> \o Escape(<<a>>[k])] = <<x>>
      OBVIOUS
    <2> QED BY <2>1 DEF Way
  <1>5. Way(<<a, b>>) = FlattenSeq(<<x, y>>)
    <2>1. [k \in 1..Len(<<a, b>>) |-> IF k = 1 THEN Escape(<<a, b>>[k]) ELSE <<Slash>> \o Escape(<<a, b>>[k])]
             = <<x, y>>
      OBVIOUS
    <2> QED BY <2>1 DEF Way
  <1>6. x \o y = x \o <<Slash>> \o Escape(b)
    BY <1>1, CodesRegroup
  <1> HIDE DEF x, y
  <1>7. x \in Seq(Int)
    BY <1>1 DEF Codes
  <1>8. FlattenSeq(<<x>>) = x
    <2>1. <<>> \in Seq(Seq(Int)) /\ Append(<<>>, x) = <<x>>
      BY <1>7
    <2>2. FlattenSeq(Append(<<>>, x)) = FlattenSeq(<<>>) \o x /\ FlattenSeq(<<>>) = <<>>
      BY <1>7, <2>1, FlattenAppend
    <2>3. <<>> \o x = x
      BY <1>7, ConcatEmptySeq
    <2> QED BY <2>1, <2>2, <2>3
  <1>9. FlattenSeq(<<x, y>>) = x \o y
    <2>1. <<x>> \in Seq(Seq(Int)) /\ Append(<<x>>, y) = <<x, y>>
      <3> DEFINE S == Seq(Int)
      <3>1. x \in S /\ y \in S
        BY <1>2, <1>7
      <3> HIDE DEF S
      <3>2. <<x>> \in Seq(S)
        BY <3>1
      <3>3. Append(<<x>>, y) = <<x, y>>
        <4> DEFINE more == Append(<<x>>, y)
                   both == <<x, y>>
        <4>1. more \in Seq(S) /\ Len(more) = Len(<<x>>) + 1 /\ more[Len(<<x>>) + 1] = y
              /\ \A i \in 1..Len(<<x>>) : more[i] = <<x>>[i]
          BY <3>1, <3>2, AppendProperties
        <4>2. Len(<<x>>) = 1 /\ <<x>>[1] = x
          OBVIOUS
        <4>3. both \in Seq(S) /\ Len(both) = 2 /\ both[1] = x /\ both[2] = y
          BY <3>1
        <4> HIDE DEF more, both
        <4>4. Len(more) = 2 /\ more[1] = x /\ more[2] = y
          BY <4>1, <4>2
        <4>5. \A i \in 1..Len(more) : i = 1 \/ i = 2
          BY <4>4
        <4>6. more = both
          BY <4>1, <4>3, <4>4, <4>5, SeqEqual
        <4> QED BY <4>6 DEF more, both
      <3> QED BY <3>2, <3>3 DEF S
    <2>2. FlattenSeq(Append(<<x>>, y)) = FlattenSeq(<<x>>) \o y
      BY <1>2, <2>1, FlattenAppend
    <2> QED BY <1>8, <2>1, <2>2
  <1> QED BY <1>3, <1>4, <1>5, <1>6, <1>8, <1>9 DEF x

(* The way to a page reads back as its segments.                           *)
LEMMA WayIsRead ==
    ASSUME NEW T, T \subseteq Seq(Chars), NEW path \in Paths(T)
    PROVE  /\ path \in Seq(T)
           /\ Way(path) \in Codes /\ \A i \in 1..Len(Way(path)) : Way(path)[i] # Question
           /\ Len(Split(Way(path), Slash)) = Len(path)
           /\ \A k \in 1..Len(path) :
                 Unescape(Split(Way(path), Slash)[k]) = path[k] /\ path[k] # Throws
  <1>1. Slash \in Int /\ Slash # Question
    BY DEF Slash, Question
  <1>2. CASE path = <<>>
    <2>1. Way(path) = <<>>
      <3>1. <<>> \in Seq(Chars)
        OBVIOUS
      <3> QED BY <1>2, <3>1, WayIs
    <2>2. Split(Way(path), Slash) = <<>> /\ Len(<<>>) = 0 /\ <<>> \in Codes /\ path \in Seq(T)
      BY <1>2, <2>1 DEF Split, Codes
    <2> QED BY <1>2, <2>1, <2>2
  <1>3. ASSUME NEW a \in T, a # <<>>, path = <<a>>
        PROVE  /\ path \in Seq(T)
               /\ Way(path) \in Codes /\ \A i \in 1..Len(Way(path)) : Way(path)[i] # Question
               /\ Len(Split(Way(path), Slash)) = Len(path)
               /\ \A k \in 1..Len(path) :
                     Unescape(Split(Way(path), Slash)[k]) = path[k] /\ path[k] # Throws
    <2> DEFINE x == Escape(a)
    <2>1. a \in Seq(Chars)
      OBVIOUS
    <2>2. /\ x \in Codes /\ x # <<>> /\ Unescape(x) = a /\ a # Throws
          /\ \A i \in 1..Len(x) : x[i] # Slash /\ x[i] # Question
      BY <1>3, <2>1, EscapedIsApart
    <2>3. Way(path) = x
      BY <1>3, <2>1, WayIs
    <2> HIDE DEF x
    <2>4. Split(x, Slash) = <<x>>
      <3>1. SplitAll(x, Slash) = <<x>>
        BY <1>1, <2>2, SplitOne
      <3> QED BY <2>2, <3>1 DEF Split
    <2>5. path \in Seq(T) /\ Len(path) = 1 /\ path[1] = a /\ Len(<<x>>) = 1 /\ <<x>>[1] = x /\ 1..1 = {1}
      BY <1>3
    <2> QED BY <2>2, <2>3, <2>4, <2>5
  <1>4. ASSUME NEW a \in T, NEW b \in T, path = <<a, b>>
        PROVE  /\ path \in Seq(T)
               /\ Way(path) \in Codes /\ \A i \in 1..Len(Way(path)) : Way(path)[i] # Question
               /\ Len(Split(Way(path), Slash)) = Len(path)
               /\ \A k \in 1..Len(path) :
                     Unescape(Split(Way(path), Slash)[k]) = path[k] /\ path[k] # Throws
    <2> DEFINE x == Escape(a)
               y == Escape(b)
               z == x \o <<Slash>> \o y
    <2>1. a \in Seq(Chars) /\ b \in Seq(Chars)
      OBVIOUS
    <2>2. /\ x \in Codes /\ Unescape(x) = a /\ a # Throws
          /\ \A i \in 1..Len(x) : x[i] # Slash /\ x[i] # Question
          /\ y \in Codes /\ Unescape(y) = b /\ b # Throws
          /\ \A i \in 1..Len(y) : y[i] # Slash /\ y[i] # Question
      BY <2>1, EscapedIsApart
    <2>3. Way(path) = z
      BY <1>4, <2>1, WayIs
    <2> HIDE DEF x, y
    <2>4. z \in Codes /\ Len(z) = Len(x) + 1 + Len(y) /\ SplitAll(z, Slash) = <<x, y>>
      BY <1>1, <2>2, SplitTwo
    <2>5. Len(x) \in Nat /\ Len(y) \in Nat
      BY <2>2 DEF Codes
    <2>6. z # <<>>
      <3> HIDE DEF z
      <3>1. Len(z) # 0 /\ Len(<<>>) = 0
        BY <2>4, <2>5
      <3> QED BY <3>1
    <2>7. Split(z, Slash) = <<x, y>>
      <3> HIDE DEF z
      <3> QED BY <2>4, <2>6 DEF Split
    <2>8. ASSUME NEW i \in 1..Len(z) PROVE z[i] # Question
      <3> DEFINE w == x \o <<Slash>>
      <3>1. <<Slash>> \in Codes /\ Len(<<Slash>>) = 1 /\ <<Slash>>[1] = Slash
        BY <1>1 DEF Codes
      <3>2. w \in Codes /\ Len(w) = Len(x) + 1
        BY <2>2, <3>1, CodesJoin
      <3>3. \A m \in 1..Len(w) : w[m] # Question
        <4>1. \A m \in 1..Len(x) + 1 : w[m] = IF m <= Len(x) THEN x[m] ELSE <<Slash>>[m - Len(x)]
          BY <2>2, <3>1, ConcatProperties DEF Codes
        <4>2. ASSUME NEW m \in 1..Len(x) + 1 PROVE w[m] # Question
          <5>1. m \in 1..Len(x) \/ (~(m <= Len(x)) /\ m - Len(x) = 1)
            BY <2>5
          <5>2. m \in 1..Len(x) => m <= Len(x)
            OBVIOUS
          <5> HIDE DEF w
          <5> QED BY <1>1, <2>2, <3>1, <4>1, <5>1, <5>2
        <4> QED BY <3>2, <4>2
      <3> HIDE DEF w
      <3>4. z[i] = IF i <= Len(w) THEN w[i] ELSE y[i - Len(w)]
        <4>1. i \in 1..Len(w) + Len(y)
          BY <2>4, <2>5, <3>2
        <4>2. z = w \o y
          BY DEF w
        <4> HIDE DEF z
        <4> QED BY <2>2, <3>2, <4>1, <4>2, ConcatProperties DEF Codes
      <3>5. i \in 1..Len(w) \/ (~(i <= Len(w)) /\ i - Len(w) \in 1..Len(y))
        BY <2>4, <2>5, <3>2
      <3>6. i \in 1..Len(w) => i <= Len(w)
        OBVIOUS
      <3> HIDE DEF z
      <3> QED BY <2>2, <3>3, <3>4, <3>5, <3>6
    <2> HIDE DEF z
    <2>9. path \in Seq(T) /\ Len(path) = 2 /\ path[1] = a /\ path[2] = b
          /\ Len(<<x, y>>) = 2 /\ <<x, y>>[1] = x /\ <<x, y>>[2] = y /\ 1..2 = {1, 2}
      BY <1>4
    <2> QED BY <2>2, <2>3, <2>4, <2>7, <2>8, <2>9
  <1> QED BY <1>2, <1>3, <1>4 DEF Paths

(* The query of one parameter.                                               *)
LEMMA QueryIsRead ==
    ASSUME NEW name \in Seq(Chars), NEW value \in Seq(Chars)
    PROVE  LET q == Escape(name) \o <<Equals>> \o Escape(value)
           IN  /\ q \in Codes /\ q # <<>>
               /\ Split(q, Ampersand) = <<q>> /\ Split(q, Equals) = <<Escape(name), Escape(value)>>
  <1> DEFINE x == Escape(name)
             y == Escape(value)
             w == x \o <<Equals>>
             z == w \o y
  <1>1. Equals \in Int /\ Ampersand \in Int /\ Equals # Ampersand
    BY DEF Equals, Ampersand
  <1>2. /\ x \in Codes /\ y \in Codes
        /\ \A i \in 1..Len(x) : x[i] # Ampersand /\ x[i] # Equals
        /\ \A i \in 1..Len(y) : y[i] # Ampersand /\ y[i] # Equals
    BY EscapedIsApart
  <1> HIDE DEF x, y
  <1>3. z \in Codes /\ Len(z) = Len(x) + 1 + Len(y) /\ SplitAll(z, Equals) = <<x, y>>
    BY <1>1, <1>2, SplitTwo
  <1>4. Len(x) \in Nat /\ Len(y) \in Nat
    BY <1>2 DEF Codes
  <1>5. <<Equals>> \in Codes /\ Len(<<Equals>>) = 1 /\ <<Equals>>[1] = Equals
    BY <1>1 DEF Codes
  <1>6. w \in Codes /\ Len(w) = Len(x) + 1
    BY <1>2, <1>5, CodesJoin
  <1>7. \A m \in 1..Len(w) : w[m] # Ampersand
    <2>1. \A m \in 1..Len(x) + 1 : w[m] = IF m <= Len(x) THEN x[m] ELSE <<Equals>>[m - Len(x)]
      BY <1>2, <1>5, ConcatProperties DEF Codes
    <2>2. ASSUME NEW m \in 1..Len(x) + 1 PROVE w[m] # Ampersand
      <3>1. m \in 1..Len(x) \/ (~(m <= Len(x)) /\ m - Len(x) = 1)
        BY <1>4
      <3>2. m \in 1..Len(x) => m <= Len(x)
        OBVIOUS
      <3> HIDE DEF w
      <3> QED BY <1>1, <1>2, <1>5, <2>1, <3>1, <3>2
    <2> QED BY <1>6, <2>2
  <1>8. \A i \in 1..Len(z) : z[i] # Ampersand
    <2> HIDE DEF w
    <2>1. ASSUME NEW i \in 1..Len(z) PROVE z[i] # Ampersand
      <3>1. z[i] = IF i <= Len(w) THEN w[i] ELSE y[i - Len(w)]
        <4>1. i \in 1..Len(w) + Len(y)
          BY <1>3, <1>4, <1>6
        <4> QED BY <1>2, <1>6, <4>1, ConcatProperties DEF Codes
      <3>2. i \in 1..Len(w) \/ (~(i <= Len(w)) /\ i - Len(w) \in 1..Len(y))
        BY <1>3, <1>4, <1>6
      <3>3. i \in 1..Len(w) => i <= Len(w)
        OBVIOUS
      <3> HIDE DEF z
      <3> QED BY <1>2, <1>7, <3>1, <3>2, <3>3
    <2> QED BY <2>1
  <1> HIDE DEF w, z
  <1>9. z # <<>>
    <2>1. Len(z) # 0 /\ Len(<<>>) = 0
      BY <1>3, <1>4
    <2> QED BY <2>1
  <1>10. Split(z, Ampersand) = <<z>>
    <2>1. SplitAll(z, Ampersand) = <<z>>
      BY <1>1, <1>3, <1>8, SplitOne
    <2> QED BY <1>9, <2>1 DEF Split
  <1>11. Split(z, Equals) = <<x, y>>
    BY <1>3, <1>9 DEF Split
  <1> QED BY <1>3, <1>9, <1>10, <1>11 DEF w, x, y, z

(* A URI as a client joins it is its way and its one parameter.            *)
LEMMA JoinIs ==
    ASSUME NEW T, T \subseteq Seq(Chars), NEW path \in Paths(T),
           NEW name \in Seq(Chars), NEW value \in Seq(Chars)
    PROVE  JoinUri(path, name, value) = Joined(Way(path), Escape(name) \o <<Equals>> \o Escape(value))
  <1> DEFINE a == <<Slash>> \o Way(path) \o <<Question>>
             x == Escape(name)
             y == Escape(value)
             e == <<Equals>>
  <1>1. Way(path) \in Codes /\ <<Slash>> \in Codes /\ <<Question>> \in Codes /\ e \in Codes
        /\ x \in Codes /\ y \in Codes
    <2>1. Way(path) \in Codes
      BY WayIsRead
    <2>2. x \in Codes /\ y \in Codes
      BY EscapedIsApart
    <2>3. <<Slash>> \in Codes /\ <<Question>> \in Codes /\ e \in Codes
      BY DEF Codes, Slash, Question, Equals
    <2> QED BY <2>1, <2>2, <2>3
  <1>2. a \in Codes
    BY <1>1, CodesJoin
  <1>3. JoinUri(path, name, value) = ((a \o x) \o e) \o y
    BY DEF JoinUri, Way
  <1>4. Joined(Way(path), x \o e \o y) = a \o ((x \o e) \o y)
    BY DEF Joined
  <1> HIDE DEF a, x, y, e
  <1>5. x \o e \in Codes
    BY <1>1, CodesJoin, Zenon
  <1>6. (a \o x) \o e = a \o (x \o e) /\ (a \o (x \o e)) \o y = a \o ((x \o e) \o y)
    <2>1. (a \o x) \o e = a \o (x \o e)
      <3>1. x \in Codes /\ e \in Codes
        BY <1>1
      <3> QED BY <1>2, <3>1, CodesRegroup, Zenon
    <2> DEFINE b == x \o e
    <2>2. b \in Codes
      BY <1>5
    <2> HIDE DEF b
    <2>3. (a \o b) \o y = a \o (b \o y)
      <3>1. y \in Codes
        BY <1>1
      <3> QED BY <1>2, <2>2, <3>1, CodesRegroup, Zenon
    <2> QED BY <2>1, <2>3 DEF b
  <1> QED BY <1>3, <1>4, <1>6 DEF x, y, e

(* What a client means is what CrackedUri makes of it.                       *)
LEMMA CrackReadsBack ==
    ASSUME NEW T, T \subseteq Seq(Chars), NEW path \in Paths(T),
           NEW name \in Seq(Chars), NEW value \in Seq(Chars)
    PROVE  Crack(JoinUri(path, name, value)) = [ok |-> TRUE, path |-> path, params |-> {<<name, value>>}]
  <1> DEFINE uri == JoinUri(path, name, value)
             p == Way(path)
             x == Escape(name)
             y == Escape(value)
             q == x \o <<Equals>> \o y
             s == Split(p, Slash)
  <1>1. /\ path \in Seq(T) /\ p \in Codes /\ \A i \in 1..Len(p) : p[i] # Question
        /\ Len(s) = Len(path)
        /\ \A k \in 1..Len(path) : Unescape(s[k]) = path[k] /\ path[k] # Throws
    BY WayIsRead
  <1>2. q \in Codes /\ q # <<>> /\ Split(q, Ampersand) = <<q>> /\ Split(q, Equals) = <<x, y>>
    BY QueryIsRead
  <1>3. uri = Joined(p, q)
    BY JoinIs
  <1>4. Unescape(x) = name /\ Unescape(y) = value /\ name # Throws /\ value # Throws
    BY EscapedIsApart
  <1> HIDE DEF uri, p, x, y, q
  <1>5. uri # <<>> /\ Head(uri) = Slash /\ PathText(uri) = p /\ QueryText(uri) = q
    BY <1>1, <1>2, <1>3, UriParts
  <1>6. Segs(uri) = path
    <2>1. Segs(uri) = [k \in 1..Len(s) |-> Unescape(s[k])]
      BY <1>5 DEF Segs
    <2> HIDE DEF s
    <2>2. Segs(uri) = [k \in 1..Len(path) |-> path[k]]
      BY <1>1, <2>1
    <2>3. path = [k \in 1..Len(path) |-> path[k]]
      BY <1>1
    <2> QED BY <2>2, <2>3
  <1>7. Fields(uri) = {<<x, y>>}
    <2>1. ToSet(Split(QueryText(uri), Ampersand)) \ {<<>>} = {q}
      <3>1. ToSet(<<q>>) = {q}
        BY DEF ToSet
      <3> QED BY <1>2, <1>5, <3>1
    <2>2. Fields(uri) = {Split(f, Equals) : f \in {q}}
      BY <2>1 DEF Fields
    <2> QED BY <1>2, <2>2
  <1>8. Len(<<x, y>>) = 2 /\ <<x, y>>[1] = x /\ <<x, y>>[2] = y
    OBVIOUS
  <1>9. ~Throwing(uri)
    <2>1. \A k \in 1..Len(Segs(uri)) : Segs(uri)[k] # Throws
      BY <1>1, <1>6
    <2>2. \A k \in 1..2 : Unescape(<<x, y>>[k]) # Throws
      <3>1. \A k \in 1..2 : k = 1 \/ k = 2
        OBVIOUS
      <3> QED BY <1>4, <1>8, <3>1
    <2>3. ~(Len(<<x, y>>) > 2)
      BY <1>8
    <2> QED BY <1>5, <1>7, <1>8, <2>1, <2>2, <2>3 DEF Throwing
  <1>10. Params(uri) = {<<name, value>>}
    <2>1. Params(uri) = {<<Unescape(f[1]), IF Len(f) = 1 THEN <<>> ELSE Unescape(f[2])>> : f \in {<<x, y>>}}
      BY <1>7 DEF Params
    <2> DEFINE f == <<x, y>>
    <2>2. <<Unescape(f[1]), IF Len(f) = 1 THEN <<>> ELSE Unescape(f[2])>> = <<name, value>>
      BY <1>4, <1>8
    <2> HIDE DEF f
    <2> QED BY <2>1, <2>2 DEF f
  <1> QED BY <1>6, <1>9, <1>10, CrackIs DEF uri

(* What follows the first question mark is the query, what is before it is   *)
(* the path.                                                                 *)
LEMMA TextsAre ==
    ASSUME NEW uri \in Codes, uri # <<>>, uri[1] = Slash
    PROVE  LET q == FirstQuestion(uri)
               p == PathText(uri)
               r == QueryText(uri)
           IN  /\ Len(uri) \in Nat /\ q \in 0..Len(uri) /\ q # 1
               /\ p \in Codes /\ Len(p) = (IF q = 0 THEN Len(uri) - 1 ELSE q - 2)
               /\ \A j \in 1..Len(p) : p[j] = uri[j + 1]
               /\ r \in Codes /\ Len(r) = (IF q = 0 THEN 0 ELSE Len(uri) - q)
               /\ \A j \in 1..Len(r) : r[j] = uri[q + j]
               /\ q # 0 => uri[q] = Question /\ \A i \in 1..q - 1 : uri[i] # Question
               /\ q = 0 => \A i \in 1..Len(uri) : uri[i] # Question
  <1> DEFINE q == FirstQuestion(uri)
             p == PathText(uri)
             r == QueryText(uri)
             n == Len(uri)
  <1>1. /\ q \in 0..n
        /\ q # 0 => uri[q] = Question /\ \A i \in 1..q - 1 : uri[i] # Question
        /\ q = 0 => \A i \in 1..n : uri[i] # Question
    BY FirstQuestionIs
  <1>2. n \in Nat /\ n # 0
    BY DEF Codes
  <1>3. q # 1
    BY <1>1 DEF Slash, Question
  <1>4. p = IF q = 0 THEN Tail(uri) ELSE SubSeq(uri, 2, q - 1)
    BY DEF PathText
  <1>5. r = IF q = 0 THEN <<>> ELSE SubSeq(uri, q + 1, n)
    BY DEF QueryText
  <1>6. \A i \in 1..n : uri[i] \in Int
    BY DEF Codes
  <1> HIDE DEF q, p, r
  <1>7. CASE q = 0
    <2>1. p \in Seq(Int) /\ Len(p) = n - 1 /\ \A j \in 1..Len(p) : p[j] = uri[j + 1]
      <3>1. p = Tail(uri) /\ uri \in Seq(Int)
        BY <1>4, <1>7 DEF Codes
      <3> QED BY <3>1, HeadTailProperties
    <2>2. r = <<>> /\ r \in Seq(Int) /\ Len(r) = 0
      BY <1>5, <1>7
    <2> HIDE DEF n
    <2> QED BY <1>1, <1>2, <1>3, <1>7, <2>1, <2>2 DEF Codes, p, q, r, n
  <1>8. CASE q # 0
    <2> HIDE DEF n
    <2>1. q \in 2..n
      BY <1>1, <1>2, <1>3, <1>8
    <2>2. p \in Seq(Int) /\ Len(p) = q - 2 /\ \A j \in 1..Len(p) : p[j] = uri[j + 1]
      <3>1. p = SubSeq(uri, 2, q - 1)
        BY <1>4, <1>8
      <3>2. 2 \in Int /\ q - 1 \in Int /\ \A i \in 2..q - 1 : uri[i] \in Int
        <4>1. \A i \in 2..q - 1 : i \in 1..n
          BY <1>2, <2>1
        <4> QED BY <1>2, <1>6, <2>1, <4>1
      <3>3. /\ p \in Seq(Int) /\ Len(p) = IF 2 <= q - 1 THEN q - 1 - 2 + 1 ELSE 0
            /\ \A i \in 1..q - 1 - 2 + 1 : p[i] = uri[2 + i - 1]
        BY <3>1, <3>2, SubSeqProperties
      <3>4. Len(p) = q - 2
        BY <1>2, <2>1, <3>3
      <3>5. ASSUME NEW j \in 1..Len(p) PROVE p[j] = uri[j + 1]
        <4>1. j \in 1..q - 1 - 2 + 1 /\ 2 + j - 1 = j + 1
          BY <1>2, <2>1, <3>4
        <4> QED BY <3>3, <4>1
      <3> QED BY <3>3, <3>4, <3>5
    <2>3. r \in Seq(Int) /\ Len(r) = n - q /\ \A j \in 1..Len(r) : r[j] = uri[q + j]
      <3>1. r = SubSeq(uri, q + 1, n)
        BY <1>5, <1>8
      <3>2. q + 1 \in Int /\ n \in Int /\ \A i \in q + 1..n : uri[i] \in Int
        <4>1. \A i \in q + 1..n : i \in 1..n
          BY <1>2, <2>1
        <4> QED BY <1>2, <1>6, <2>1, <4>1
      <3>3. /\ r \in Seq(Int) /\ Len(r) = IF q + 1 <= n THEN n - (q + 1) + 1 ELSE 0
            /\ \A i \in 1..n - (q + 1) + 1 : r[i] = uri[q + 1 + i - 1]
        BY <3>1, <3>2, SubSeqProperties
      <3>4. Len(r) = n - q
        BY <1>2, <2>1, <3>3
      <3>5. ASSUME NEW j \in 1..Len(r) PROVE r[j] = uri[q + j]
        <4>1. j \in 1..n - (q + 1) + 1 /\ q + 1 + j - 1 = q + j
          BY <1>2, <2>1, <3>4
        <4> QED BY <3>3, <4>1
      <3> QED BY <3>3, <3>4, <3>5
    <2> QED BY <1>1, <1>2, <1>3, <1>8, <2>2, <2>3 DEF Codes, p, q, r, n
  <1> QED BY <1>7, <1>8

(* A part of a text is a text.                                               *)
LEMMA PartIsText ==
    ASSUME NEW text \in Codes, NEW c \in Int, NEW k \in 1..Len(SplitAll(text, c))
    PROVE  SplitAll(text, c)[k] \in Codes
  <1>1. PICK f : IsSplit(f, text, c) /\ SplitAll(text, c) = f[Len(text)]
    BY SplitIsRun
  <1>2. Len(text) \in 0..Len(text)
    BY DEF Codes
  <1>3. SplitAll(text, c) \in Seq(Codes)
    BY <1>1, <1>2 DEF IsSplit, Parts
  <1> QED BY <1>3, ElementOfSeq

(* A bad escape makes a segment or a field throw.                            *)
LEMMA BadTextThrows ==
    ASSUME NEW text \in Codes, NEW c \in {Slash, Ampersand, Equals}, NEW i \in 1..Len(text), BadEscape(text, i)
    PROVE  /\ Split(text, c) = SplitAll(text, c)
           /\ \E k \in 1..Len(Split(text, c)) :
                 /\ Split(text, c)[k] \in Codes /\ Unescape(Split(text, c)[k]) = Throws
                 /\ \E j \in 1..Len(Split(text, c)[k]) : BadEscape(Split(text, c)[k], j)
  <1>1. c \in Int /\ c # Percent
    BY DEF Slash, Ampersand, Equals, Percent
  <1>2. text # <<>>
    BY DEF Codes
  <1>3. Split(text, c) = SplitAll(text, c)
    BY <1>2 DEF Split
  <1>4. PICK k \in 1..Len(SplitAll(text, c)) :
           \E j \in 1..Len(SplitAll(text, c)[k]) : BadEscape(SplitAll(text, c)[k], j)
    BY <1>1, BadPart
  <1>5. SplitAll(text, c)[k] \in Codes
    BY <1>1, PartIsText
  <1>6. Unescape(SplitAll(text, c)[k]) = Throws
    BY <1>4, <1>5, BadIsRefused
  <1> QED BY <1>3, <1>4, <1>5, <1>6

(* A bad escape is one in the text that is cut out of another.               *)
LEMMA BadCut ==
    ASSUME NEW text \in Codes, NEW part \in Codes, NEW d \in Nat, NEW i \in Nat, BadEscape(text, d + i),
           i \in 1..Len(part), d + Len(part) <= Len(text),
           \A j \in 1..Len(part) : part[j] = text[d + j]
    PROVE  BadEscape(part, i)
  <1>1. Len(text) \in Nat /\ Len(part) \in Nat
    BY DEF Codes
  <1>2. part[i] = Percent
    BY DEF BadEscape
  <1>3. CASE i + 2 > Len(part)
    BY <1>2, <1>3 DEF BadEscape
  <1>4. CASE ~(i + 2 > Len(part))
    <2>1. i + 1 \in 1..Len(part) /\ i + 2 \in 1..Len(part) /\ ~((d + i) + 2 > Len(text))
          /\ d + (i + 1) = (d + i) + 1 /\ d + (i + 2) = (d + i) + 2
      BY <1>1, <1>4
    <2>2. part[i + 1] = text[(d + i) + 1] /\ part[i + 2] = text[(d + i) + 2]
      BY <2>1
    <2>3. text[(d + i) + 1] \notin HexDigits \/ text[(d + i) + 2] \notin HexDigits
      BY <2>1 DEF BadEscape
    <2> QED BY <1>2, <2>2, <2>3 DEF BadEscape
  <1> QED BY <1>3, <1>4

(* A field of the query that is split at its equals signs.                   *)
LEMMA FieldIsIn ==
    ASSUME NEW uri, NEW k \in 1..Len(Split(QueryText(uri), Ampersand)),
           Split(QueryText(uri), Ampersand)[k] # <<>>
    PROVE  Split(Split(QueryText(uri), Ampersand)[k], Equals) \in Fields(uri)
  BY DEF Fields, ToSet

(* Two equals signs with no ampersand between them make a field too long.    *)
LEMMA EqualsTogether ==
    ASSUME NEW r \in Codes, NEW a \in 1..Len(r), NEW b \in 1..Len(r), a < b,
           \A m \in a..b : r[m] # Ampersand, r[a] = Equals, r[b] = Equals
    PROVE  \E k \in 1..Len(Split(r, Ampersand)) :
              /\ Split(r, Ampersand)[k] # <<>>
              /\ Len(Split(Split(r, Ampersand)[k], Equals)) > 2
  <1> DEFINE s == SplitAll(r, Ampersand)
  <1>1. Ampersand \in Int /\ Equals \in Int
    BY DEF Ampersand, Equals
  <1>2. PICK k \in 1..Len(s) :
           \E j, g \in 1..Len(s[k]) : j < g /\ s[k][j] = r[a] /\ s[k][g] = r[b]
    BY <1>1, OnePart
  <1> DEFINE f == s[k]
  <1>3. f \in Codes
    BY <1>1, PartIsText
  <1>4. PICK j \in 1..Len(f), g \in 1..Len(f) : j < g /\ f[j] = Equals /\ f[g] = Equals
    BY <1>2
  <1>5. Split(r, Ampersand) = s
    <2>1. r # <<>>
      OBVIOUS
    <2> QED BY <2>1 DEF Split
  <1> HIDE DEF f
  <1>6. f # <<>>
    BY <1>4
  <1>7. Len(SplitAll(f, Equals)) > 2
    BY <1>1, <1>3, <1>4, SplitMany
  <1>8. Len(Split(f, Equals)) > 2
    BY <1>6, <1>7 DEF Split
  <1> HIDE DEF s
  <1> QED BY <1>5, <1>6, <1>8 DEF f

(* CrackedUri throws for every ill-formed URI.                             *)
LEMMA IllFormedIsRefused ==
    ASSUME NEW uri \in Seq(Chars), IllFormed(uri)
    PROVE  Crack(uri) = Nowhere
  <1> DEFINE q == FirstQuestion(uri)
             p == PathText(uri)
             r == QueryText(uri)
             n == Len(uri)
  <1>1. SUFFICES Throwing(uri)
    BY CrackIs
  <1>2. CASE uri = <<>> \/ uri[1] # Slash
    BY <1>2 DEF Throwing
  <1>3. CASE uri # <<>> /\ uri[1] = Slash
    <2>1. uri \in Codes
      BY CharsAreCodes
    <2>2. /\ n \in Nat /\ q \in 0..n /\ q # 1
          /\ p \in Codes /\ Len(p) = (IF q = 0 THEN n - 1 ELSE q - 2)
          /\ \A j \in 1..Len(p) : p[j] = uri[j + 1]
          /\ r \in Codes /\ Len(r) = (IF q = 0 THEN 0 ELSE n - q)
          /\ \A j \in 1..Len(r) : r[j] = uri[q + j]
          /\ q # 0 => uri[q] = Question /\ \A i \in 1..q - 1 : uri[i] # Question
          /\ q = 0 => \A i \in 1..n : uri[i] # Question
      BY <1>3, <2>1, TextsAre
    <2>3. Segs(uri) = [k \in 1..Len(Split(p, Slash)) |-> Unescape(Split(p, Slash)[k])]
      BY DEF Segs
    <2>4. ASSUME NEW k \in 1..Len(Split(r, Ampersand)), Split(r, Ampersand)[k] # <<>>
          PROVE  Split(Split(r, Ampersand)[k], Equals) \in Fields(uri)
      BY <2>4, FieldIsIn
    <2> HIDE DEF q, p, r
    <2>5. ASSUME NEW i \in 1..n, BadEscape(uri, i) PROVE Throwing(uri)
      <3>1. uri[i] = Percent
        BY <2>5 DEF BadEscape
      <3>2. i # 1 /\ i # q
        <4>1. i # 1
          BY <1>3, <3>1 DEF Percent, Slash
        <4>2. i # q
          BY <2>2, <3>1 DEF Percent, Question
        <4> QED BY <4>1, <4>2
      <3>3. CASE q = 0 \/ i < q
        <4> DEFINE j == i - 1
        <4> HIDE DEF n
        <4>1. j \in Nat /\ j \in 1..Len(p) /\ 1 + j = i /\ 1 + Len(p) <= n
          BY <2>2, <3>2, <3>3
        <4>2. ASSUME NEW m \in 1..Len(p) PROVE p[m] = uri[1 + m]
          <5>1. 1 + m = m + 1
            OBVIOUS
          <5> QED BY <2>2, <5>1
        <4> HIDE DEF j
        <4>3. BadEscape(p, j)
          <5>1. BadEscape(uri, 1 + j) /\ 1 \in Nat
            BY <2>5, <4>1
          <5> QED BY <2>1, <2>2, <4>1, <4>2, <5>1, BadCut DEF n
        <4>4. PICK k \in 1..Len(Split(p, Slash)) : Unescape(Split(p, Slash)[k]) = Throws
          BY <2>2, <4>1, <4>3, BadTextThrows
        <4>5. Segs(uri)[k] = Throws /\ Len(Segs(uri)) = Len(Split(p, Slash))
          <5>1. Len(Split(p, Slash)) \in Nat
            <6>1. Slash \in Int
              BY DEF Slash
            <6> QED BY <2>2, <6>1, SplitIs
          <5> HIDE DEF p
          <5> QED BY <2>3, <4>4, <5>1
        <4> QED BY <4>4, <4>5 DEF Throwing
      <3>4. CASE q # 0 /\ i > q
        <4> DEFINE j == i - q
        <4> HIDE DEF n
        <4>1. j \in Nat /\ j \in 1..Len(r) /\ q + j = i /\ q + Len(r) <= n /\ q \in Nat
          BY <2>2, <3>2, <3>4
        <4> HIDE DEF j
        <4>2. BadEscape(r, j)
          <5>1. BadEscape(uri, q + j)
            BY <2>5, <4>1
          <5> QED BY <2>1, <2>2, <4>1, <5>1, BadCut DEF n
        <4>3. PICK k \in 1..Len(Split(r, Ampersand)) :
                 /\ Split(r, Ampersand)[k] \in Codes
                 /\ \E g \in 1..Len(Split(r, Ampersand)[k]) : BadEscape(Split(r, Ampersand)[k], g)
          BY <2>2, <4>1, <4>2, BadTextThrows
        <4> DEFINE f == Split(r, Ampersand)[k]
        <4>4. f \in Codes /\ \E g \in 1..Len(f) : BadEscape(f, g)
          BY <4>3
        <4>5. f # <<>> => Split(f, Equals) \in Fields(uri)
          BY <2>4
        <4> HIDE DEF f
        <4>6. f # <<>> /\ \E g \in 1..Len(Split(f, Equals)) : Unescape(Split(f, Equals)[g]) = Throws
          <5>1. PICK g \in 1..Len(f) : BadEscape(f, g)
            BY <4>4
          <5>2. f # <<>>
            BY <5>1
          <5> QED BY <4>4, <5>1, <5>2, BadTextThrows
        <4> QED BY <4>5, <4>6 DEF Throwing
      <3> HIDE DEF n
      <3> QED BY <2>2, <3>2, <3>3, <3>4
    <2>6. ASSUME NEW h \in 1..n, NEW i \in 1..n, NEW j \in 1..n, h < i, i < j, uri[h] = Question,
                 uri[i] = Equals, uri[j] = Equals, \A k \in i..j : uri[k] # Ampersand
          PROVE  Throwing(uri)
      <3> DEFINE a == i - q
                 b == j - q
      <3> HIDE DEF n
      <3>1. q # 0
        BY <2>2, <2>6
      <3>2. ~(h < q)
        <4>1. h < q => h \in 1..q - 1
          BY <2>2
        <4> QED BY <2>2, <2>6, <3>1, <4>1
      <3>3. a \in 1..Len(r) /\ b \in 1..Len(r) /\ a < b /\ q + a = i /\ q + b = j
        BY <2>2, <2>6, <3>1, <3>2
      <3>4. \A m \in a..b : r[m] # Ampersand
        <4>1. a \in Int /\ b \in Int /\ q \in Int /\ a >= 1 /\ b <= Len(r) /\ Len(r) \in Int
          BY <2>2, <3>1, <3>3
        <4> HIDE DEF a, b
        <4>2. ASSUME NEW m \in a..b PROVE m \in 1..Len(r) /\ q + m \in i..j
          BY <3>3, <4>1
        <4> QED BY <2>2, <2>6, <4>2
      <3>5. r[a] = Equals /\ r[b] = Equals
        BY <2>2, <2>6, <3>3
      <3> HIDE DEF a, b
      <3>6. PICK k \in 1..Len(Split(r, Ampersand)) :
               /\ Split(r, Ampersand)[k] # <<>>
               /\ Len(Split(Split(r, Ampersand)[k], Equals)) > 2
        BY <2>2, <3>3, <3>4, <3>5, EqualsTogether
      <3>7. Split(Split(r, Ampersand)[k], Equals) \in Fields(uri)
        BY <2>4, <3>6
      <3> QED BY <3>6, <3>7 DEF Throwing
    <2> QED BY <1>3, <2>5, <2>6 DEF IllFormed
  <1> QED BY <1>2, <1>3

-----------------------------------------------------------------------------
(* Routing: the handlers that are there.                                     *)
Nested == [path : PathNames, handlers : {s \in Seq(Pages) : Len(s) <= MaxHandlers}]
Handlers == Pages \cup Nested
Roots == [root : {s \in Seq(Handlers) : Len(s) <= MaxHandlers}]
HandlersOK == pageHandlers \in Seq(Roots) /\ Len(pageHandlers) <= MaxHandlers

(* A handler is a page, or a path with pages below it.                     *)
LEMMA HandlerIs ==
    ASSUME NEW h \in Handlers
    PROVE  /\ h \in Pages <=> "page" \in DOMAIN h
           /\ h \in Nested <=> "path" \in DOMAIN h
           /\ h \in Nested => /\ h.handlers \in Seq(Pages) /\ Len(h.handlers) \in Nat
                              /\ Len(h.handlers) <= MaxHandlers
           /\ h \in Pages => h.page # Unhandled
  <1>1. ASSUME h \in Pages PROVE "page" \in DOMAIN h /\ "path" \notin DOMAIN h /\ h.page # Unhandled
    <2>1. h = [page |-> h.page, answers |-> h.answers] /\ h.page # Unhandled
      BY <1>1, PagesAssumption
    <2>2. DOMAIN h = {"page", "answers"}
      <3> DEFINE a == h.page
                 b == h.answers
      <3>1. h = [page |-> a, answers |-> b]
        BY <2>1
      <3> HIDE DEF a, b
      <3> QED BY <3>1
    <2> QED BY <2>1, <2>2
  <1>2. ASSUME h \in Nested
        PROVE  /\ "path" \in DOMAIN h /\ "page" \notin DOMAIN h
               /\ h.handlers \in Seq(Pages) /\ Len(h.handlers) \in Nat /\ Len(h.handlers) <= MaxHandlers
    BY <1>2 DEF Nested
  <1> QED BY <1>1, <1>2 DEF Handlers

(* Adding a handler keeps the handlers of their kind.                      *)
LEMMA HandlersStay == HandlersOK /\ RoutingNext => HandlersOK'
  <1> DEFINE n == Len(pageHandlers)
  <1> SUFFICES ASSUME HandlersOK, RoutingNext PROVE HandlersOK'
    OBVIOUS
  <1>1. pageHandlers \in Seq(Roots) /\ n \in Nat /\ n <= MaxHandlers
    BY DEF HandlersOK
  <1>2. MaxHandlers \in Nat
    BY PagesAssumption
  <1>3. ASSUME NEW k \in 1..n
        PROVE  /\ pageHandlers[k] \in Roots /\ pageHandlers[k].root \in Seq(Handlers)
               /\ Len(pageHandlers[k].root) <= MaxHandlers
    <2>1. pageHandlers[k] \in Roots
      BY <1>1, ElementOfSeq
    <2> QED BY <2>1 DEF Roots
  <1>4. ASSUME NEW k \in 1..n, NEW s \in Seq(Handlers), Len(s) <= MaxHandlers,
               pageHandlers' = [pageHandlers EXCEPT ![k] = [@ EXCEPT !.root = s]]
        PROVE  HandlersOK'
    <2>1. [pageHandlers[k] EXCEPT !.root = s] \in Roots
      BY <1>3, <1>4 DEF Roots
    <2>2. pageHandlers' \in Seq(Roots) /\ Len(pageHandlers') = n
      BY <1>1, <1>4, <2>1, ExceptSeq
    <2> QED BY <1>1, <2>2 DEF HandlersOK
  <1>5. ASSUME AddPageHandler PROVE HandlersOK'
    <2> DEFINE new == [root |-> <<>>]
    <2>1. new \in Roots
      BY <1>2 DEF Roots
    <2>2. pageHandlers' = Append(pageHandlers, new) /\ n < MaxHandlers
      BY <1>5 DEF AddPageHandler
    <2> HIDE DEF new
    <2>3. pageHandlers' \in Seq(Roots) /\ Len(pageHandlers') = n + 1
      BY <1>1, <2>1, <2>2, AppendProperties
    <2> QED BY <1>1, <1>2, <2>2, <2>3 DEF HandlersOK
  <1>6. ASSUME NEW k \in 1..n, NEW h \in NewHandlers, AddToRoot(k, h) PROVE HandlersOK'
    <2> DEFINE old == pageHandlers[k].root
               new == Append(old, h)
    <2>1. h \in Handlers
      <3>1. \A name \in PathNames : NewPath(name) \in Nested
        BY <1>2 DEF NewPath, Nested
      <3> QED BY <1>6, <3>1 DEF NewHandlers, Handlers
    <2>2. Len(old) < MaxHandlers /\ pageHandlers' = [pageHandlers EXCEPT ![k] = [@ EXCEPT !.root = new]]
      BY <1>6 DEF AddToRoot
    <2>3. old \in Seq(Handlers)
      BY <1>3
    <2> HIDE DEF old
    <2>4. new \in Seq(Handlers) /\ Len(new) = Len(old) + 1 /\ Len(old) \in Nat
      BY <2>1, <2>3, AppendProperties
    <2>5. Len(new) <= MaxHandlers
      BY <1>2, <2>2, <2>4
    <2> HIDE DEF new
    <2> QED BY <1>4, <2>2, <2>4, <2>5
  <1>7. ASSUME NEW k \in 1..n, NEW j \in 1..Len(pageHandlers[k].root), NEW h \in Pages, AddToPath(k, j, h)
        PROVE  HandlersOK'
    <2> DEFINE root == pageHandlers[k].root
               old == root[j]
               more == Append(old.handlers, h)
               grown == [old EXCEPT !.handlers = more]
               new == [root EXCEPT ![j] = grown]
    <2>1. root \in Seq(Handlers) /\ Len(root) <= MaxHandlers
      BY <1>3
    <2>2. old \in Handlers
      <3>1. j \in 1..Len(root)
        OBVIOUS
      <3> HIDE DEF root
      <3> QED BY <2>1, <3>1, ElementOfSeq
    <2>3. "path" \in DOMAIN old /\ Len(old.handlers) < MaxHandlers
          /\ pageHandlers' = [pageHandlers EXCEPT ![k] = [@ EXCEPT !.root = new]]
      BY <1>7 DEF AddToPath
    <2>4. j \in 1..Len(root)
      OBVIOUS
    <2> HIDE DEF root, old
    <2>5. old \in Nested /\ old.handlers \in Seq(Pages) /\ Len(old.handlers) \in Nat
      BY <2>2, <2>3, HandlerIs
    <2>6. more \in Seq(Pages) /\ Len(more) = Len(old.handlers) + 1
      BY <2>5, AppendProperties
    <2>7. Len(more) <= MaxHandlers
      BY <1>2, <2>3, <2>5, <2>6
    <2> HIDE DEF more
    <2>8. grown \in Handlers
      BY <2>5, <2>6, <2>7 DEF Nested, Handlers
    <2> HIDE DEF grown
    <2>9. new \in Seq(Handlers) /\ Len(new) = Len(root)
      BY <2>1, <2>4, <2>8, ExceptSeq
    <2> HIDE DEF new
    <2> QED BY <1>4, <2>1, <2>3, <2>9
  <1> QED BY <1>5, <1>6, <1>7 DEF RoutingNext

(* The first handler that answers.                                           *)
LEMMA FirstAnswerIs ==
    ASSUME NEW answers, Len(answers) \in Nat
    PROVE  \/ /\ FirstAnswer(answers) = Unhandled
              /\ \A k \in 1..Len(answers) : answers[k] = Unhandled
           \/ \E at \in 1..Len(answers) :
                 /\ FirstAnswer(answers) = answers[at] /\ answers[at] # Unhandled
                 /\ \A k \in 1..Len(answers) : answers[k] # Unhandled => at <= k
  <1> DEFINE places == {i \in 1..Len(answers) : answers[i] # Unhandled}
             least == Min(places)
  <1>1. FirstAnswer(answers) = IF (IF places # {} THEN least ELSE 0) = 0 THEN Unhandled
                               ELSE answers[IF places # {} THEN least ELSE 0]
    BY DEF FirstAnswer, SelectInSeq
  <1>2. places \in SUBSET Nat
    OBVIOUS
  <1>3. places # {} => least \in places /\ \A i \in places : least <= i
    <2> HIDE DEF places
    <2>1. SUFFICES ASSUME places # {} PROVE least \in places /\ \A i \in places : least <= i
      OBVIOUS
    <2>2. \E m \in places : \A i \in places : m <= i
      BY <1>2, <2>1, LeastNumber
    <2> QED BY <2>2 DEF Min
  <1> HIDE DEF least
  <1>4. CASE places = {}
    BY <1>1, <1>4
  <1>5. CASE places # {}
    <2>1. least \in 1..Len(answers) /\ answers[least] # Unhandled
      BY <1>3, <1>5
    <2>2. least # 0
      BY <2>1
    <2>3. FirstAnswer(answers) = answers[least]
      <3> HIDE DEF places
      <3> QED BY <1>1, <1>5, <2>2
    <2>4. \A k \in 1..Len(answers) : answers[k] # Unhandled => least <= k
      BY <1>3, <1>5
    <2> QED BY <2>1, <2>3, <2>4
  <1> QED BY <1>4, <1>5

(* The places in one handler that a path leads to.                           *)
LeadsIn(h, path) ==
    {l \in 0..MaxHandlers :
        IF "page" \in DOMAIN h THEN l = 0 /\ path \in h.answers
        ELSE /\ l \in 1..Len(h.handlers) /\ path # <<>> /\ path[1] = h.path
             /\ (IF Len(path) = 1 THEN <<<<>>>> ELSE Tail(path)) \in h.handlers[l].answers}

PageAt(h, l) == IF l = 0 THEN h.page ELSE h.handlers[l].page

(* PathHandler answers with the first page the path leads to.              *)
LEMMA HandlerAnswers ==
    ASSUME NEW h \in Handlers, NEW path, NEW S, path \in Seq(S)
    PROVE  \/ HandlePath(h, path) = Unhandled /\ LeadsIn(h, path) = {}
           \/ \E l \in LeadsIn(h, path) :
                 /\ HandlePath(h, path) = PageAt(h, l) /\ PageAt(h, l) # Unhandled
                 /\ \A m \in LeadsIn(h, path) : l <= m
  <1>1. MaxHandlers \in Nat
    BY PagesAssumption
  <1>2. CASE h \in Pages
    <2>1. "page" \in DOMAIN h /\ h.page # Unhandled
      BY <1>2, HandlerIs
    <2>2. HandlePath(h, path) = IF path \in h.answers THEN h.page ELSE Unhandled
      BY <2>1 DEF HandlePath, PageAnswer
    <2>3. LeadsIn(h, path) = {l \in 0..MaxHandlers : l = 0 /\ path \in h.answers}
      BY <2>1 DEF LeadsIn
    <2>4. CASE path \in h.answers
      <3>1. 0 \in LeadsIn(h, path) /\ \A m \in LeadsIn(h, path) : 0 <= m
        BY <1>1, <2>3, <2>4
      <3>2. PageAt(h, 0) = h.page
        BY DEF PageAt
      <3> QED BY <2>1, <2>2, <2>4, <3>1, <3>2
    <2>5. CASE path \notin h.answers
      BY <2>2, <2>3, <2>5
    <2> QED BY <2>4, <2>5
  <1>3. CASE h \in Nested
    <2> DEFINE hs == h.handlers
               rest == Shift(path)
               answers == [k \in 1..Len(hs) |-> PageAnswer(hs[k], rest)]
    <2>1. "page" \notin DOMAIN h /\ hs \in Seq(Pages) /\ Len(hs) \in Nat /\ Len(hs) <= MaxHandlers
      <3>1. "page" \notin DOMAIN h
        BY <1>3 DEF Nested
      <3> QED BY <1>3, <3>1, HandlerIs
    <2>2. HandlePath(h, path) = IF path = <<>> \/ Head(path) # h.path THEN Unhandled ELSE FirstAnswer(answers)
      BY <2>1 DEF HandlePath
    <2> HIDE DEF hs
    <2>3. ASSUME path = <<>> \/ path[1] # h.path PROVE HandlePath(h, path) = Unhandled /\ LeadsIn(h, path) = {}
      <3>1. path = <<>> \/ Head(path) # h.path
        BY <2>3
      <3> HIDE DEF answers
      <3> QED BY <2>1, <2>2, <2>3, <3>1 DEF LeadsIn
    <2>4. ASSUME path # <<>>, path[1] = h.path
          PROVE  \/ HandlePath(h, path) = Unhandled /\ LeadsIn(h, path) = {}
                 \/ \E l \in LeadsIn(h, path) :
                       /\ HandlePath(h, path) = PageAt(h, l) /\ PageAt(h, l) # Unhandled
                       /\ \A m \in LeadsIn(h, path) : l <= m
      <3>1. rest = IF Len(path) = 1 THEN <<<<>>>> ELSE Tail(path)
        <4>1. Len(path) \in Nat /\ Len(path) # 0
          BY <2>4
        <4>2. \A m \in Nat : m # 0 => (m > 1 <=> m # 1)
          OBVIOUS
        <4> QED BY <4>1, <4>2 DEF Shift
      <3> HIDE DEF rest
      <3>2. HandlePath(h, path) = FirstAnswer(answers)
        <4>1. Head(path) = h.path
          BY <2>4
        <4> HIDE DEF answers
        <4> QED BY <2>2, <2>4, <4>1
      <3>3. LeadsIn(h, path) = {l \in 0..MaxHandlers : l \in 1..Len(hs) /\ rest \in hs[l].answers}
        BY <2>1, <2>4, <3>1 DEF LeadsIn, hs
      <3>4. Len(answers) = Len(hs)
        BY <2>1
      <3>5. ASSUME NEW k \in 1..Len(hs)
            PROVE  /\ k \in LeadsIn(h, path) <=> answers[k] # Unhandled
                   /\ k \in LeadsIn(h, path) => answers[k] = PageAt(h, k)
        <4>1. hs[k] \in Pages /\ hs[k].page # Unhandled
          <5>1. hs[k] \in Pages
            BY <2>1, ElementOfSeq
          <5> QED BY <5>1, HandlerIs DEF Handlers
        <4>2. answers[k] = IF rest \in hs[k].answers THEN hs[k].page ELSE Unhandled
          BY DEF PageAnswer
        <4>3. k \in LeadsIn(h, path) <=> rest \in hs[k].answers
          BY <1>1, <2>1, <3>3
        <4>4. PageAt(h, k) = hs[k].page
          BY DEF PageAt, hs
        <4> HIDE DEF answers
        <4> QED BY <4>1, <4>2, <4>3, <4>4
      <3>6. \A m \in LeadsIn(h, path) : m \in 1..Len(hs)
        BY <3>3
      <3> HIDE DEF answers
      <3>7. \/ /\ FirstAnswer(answers) = Unhandled
               /\ \A k \in 1..Len(answers) : answers[k] = Unhandled
            \/ \E at \in 1..Len(answers) :
                  /\ FirstAnswer(answers) = answers[at] /\ answers[at] # Unhandled
                  /\ \A k \in 1..Len(answers) : answers[k] # Unhandled => at <= k
        BY <2>1, <3>4, FirstAnswerIs
      <3>8. CASE FirstAnswer(answers) = Unhandled /\ \A k \in 1..Len(answers) : answers[k] = Unhandled
        <4>1. LeadsIn(h, path) = {}
          BY <3>4, <3>5, <3>6, <3>8
        <4> QED BY <3>2, <3>8, <4>1
      <3>9. CASE \E at \in 1..Len(answers) :
                    /\ FirstAnswer(answers) = answers[at] /\ answers[at] # Unhandled
                    /\ \A k \in 1..Len(answers) : answers[k] # Unhandled => at <= k
        <4>1. PICK at \in 1..Len(answers) :
                    /\ FirstAnswer(answers) = answers[at] /\ answers[at] # Unhandled
                    /\ \A k \in 1..Len(answers) : answers[k] # Unhandled => at <= k
          BY <3>9
        <4>2. at \in LeadsIn(h, path) /\ answers[at] = PageAt(h, at)
          BY <3>4, <3>5, <4>1
        <4>3. \A m \in LeadsIn(h, path) : at <= m
          BY <3>4, <3>5, <3>6, <4>1
        <4> QED BY <3>2, <4>1, <4>2, <4>3
      <3> QED BY <3>7, <3>8, <3>9
    <2> QED BY <2>3, <2>4
  <1> QED BY <1>2, <1>3 DEF Handlers

(* The places below a root handler, and the first of them.                   *)
RootAnswer(root, path) == FirstAnswer([j \in 1..Len(root) |-> HandlePath(root[j], path)])
NoLead(root, path) == \A j \in 1..Len(root) : LeadsIn(root[j], path) = {}
Foremost(root, path, j, l) ==
    /\ j \in 1..Len(root) /\ l \in LeadsIn(root[j], path)
    /\ \A i \in 1..Len(root) : \A m \in LeadsIn(root[i], path) : j < i \/ (j = i /\ l <= m)

(* RootPageHandler answers with its foremost page, or not at all.          *)
LEMMA RootAnswers ==
    ASSUME NEW root \in Seq(Handlers), NEW path, NEW S, path \in Seq(S)
    PROVE  \/ RootAnswer(root, path) = Unhandled /\ NoLead(root, path)
           \/ /\ RootAnswer(root, path) # Unhandled
              /\ \E j, l : Foremost(root, path, j, l) /\ RootAnswer(root, path) = PageAt(root[j], l)
  <1> DEFINE n == Len(root)
             answers == [j \in 1..n |-> HandlePath(root[j], path)]
             answer == FirstAnswer(answers)
  <1>1. n \in Nat /\ \A j \in 1..n : root[j] \in Handlers
    BY ElementOfSeq
  <1>2. Len(answers) = n /\ \A j \in 1..n : answers[j] = HandlePath(root[j], path)
    BY <1>1
  <1>3. ASSUME NEW j \in 1..n
        PROVE  \/ answers[j] = Unhandled /\ LeadsIn(root[j], path) = {}
               \/ \E l \in LeadsIn(root[j], path) :
                     /\ answers[j] = PageAt(root[j], l) /\ PageAt(root[j], l) # Unhandled
                     /\ \A m \in LeadsIn(root[j], path) : l <= m
    BY <1>1, <1>2, HandlerAnswers
  <1> HIDE DEF answers, n
  <1>4. \/ /\ answer = Unhandled
           /\ \A k \in 1..n : answers[k] = Unhandled
        \/ \E at \in 1..n :
              /\ answer = answers[at] /\ answers[at] # Unhandled
              /\ \A k \in 1..n : answers[k] # Unhandled => at <= k
    BY <1>1, <1>2, FirstAnswerIs
  <1> HIDE DEF answer
  <1>5. CASE answer = Unhandled /\ \A k \in 1..n : answers[k] = Unhandled
    <2>1. \A j \in 1..n : LeadsIn(root[j], path) = {}
      BY <1>3, <1>5
    <2> QED BY <1>5, <2>1 DEF answer, answers, n, RootAnswer, NoLead
  <1>6. CASE \E at \in 1..n :
                /\ answer = answers[at] /\ answers[at] # Unhandled
                /\ \A k \in 1..n : answers[k] # Unhandled => at <= k
    <2>1. PICK j \in 1..n :
                /\ answer = answers[j] /\ answers[j] # Unhandled
                /\ \A k \in 1..n : answers[k] # Unhandled => j <= k
      BY <1>6
    <2>2. PICK l \in LeadsIn(root[j], path) :
             answers[j] = PageAt(root[j], l) /\ \A m \in LeadsIn(root[j], path) : l <= m
      BY <1>3, <2>1
    <2>3. ASSUME NEW i \in 1..n, NEW m \in LeadsIn(root[i], path) PROVE j < i \/ (j = i /\ l <= m)
      <3>1. j <= i
        BY <1>3, <2>1
      <3>2. j < i \/ j = i
        BY <1>1, <3>1
      <3> QED BY <2>2, <3>2
    <2>4. Foremost(root, path, j, l)
      BY <2>2, <2>3 DEF Foremost, n
    <2>5. answer = PageAt(root[j], l) /\ answer # Unhandled
      BY <2>1, <2>2
    <2>6. RootAnswer(root, path) = answer
      BY DEF RootAnswer, answer, answers, n
    <2> QED BY <2>4, <2>5, <2>6
  <1> QED BY <1>4, <1>5, <1>6

(* The places below all root handlers.                                       *)
LEMMA LeadsAre ==
    ASSUME NEW path, NEW x
    PROVE  x \in Leads(path) <=>
              /\ x \in (1..MaxHandlers) \X (1..MaxHandlers) \X (0..MaxHandlers)
              /\ x[1] <= Len(pageHandlers) /\ x[2] <= Len(pageHandlers[x[1]].root)
              /\ x[3] \in LeadsIn(pageHandlers[x[1]].root[x[2]], path)
  BY DEF Leads, LeadsIn

(* The server answers with the page before all others that are led to.     *)
LEMMA ServerAnswers ==
    ASSUME HandlersOK, NEW uri, NEW path, NEW S, path \in Seq(S), Crack(uri).ok, Crack(uri).path = path
    PROVE  \/ Handle(uri) = Unhandled /\ Leads(path) = {}
           \/ \E x \in Leads(path) :
                 /\ Handle(uri) = PageAt(pageHandlers[x[1]].root[x[2]], x[3])
                 /\ \A y \in Leads(path) : Before(x, y)
  <1> DEFINE n == Len(pageHandlers)
             Root(k) == pageHandlers[k].root
             answers == [k \in 1..n |-> HandleRequest(pageHandlers[k], uri)]
             answer == FirstAnswer(answers)
  <1>1. n \in Nat /\ n <= MaxHandlers /\ MaxHandlers \in Nat
    BY PagesAssumption DEF HandlersOK
  <1>2. \A k \in 1..n : Root(k) \in Seq(Handlers) /\ Len(Root(k)) <= MaxHandlers /\ Len(Root(k)) \in Nat
    <2>1. ASSUME NEW k \in 1..n PROVE Root(k) \in Seq(Handlers) /\ Len(Root(k)) <= MaxHandlers
      <3>1. pageHandlers[k] \in Roots
        BY ElementOfSeq DEF HandlersOK
      <3> QED BY <3>1 DEF Roots
    <2>2. ASSUME NEW k \in 1..n PROVE Len(Root(k)) \in Nat
      <3> DEFINE s == Root(k)
      <3>1. s \in Seq(Handlers)
        BY <2>1
      <3> HIDE DEF s
      <3>2. Len(s) \in Nat
        BY <3>1
      <3> QED BY <3>2 DEF s
    <2> QED BY <2>1, <2>2
  <1>3. Len(answers) = n /\ \A k \in 1..n : answers[k] = RootAnswer(Root(k), path)
    BY <1>1 DEF HandleRequest, RootAnswer
  <1>4. ASSUME NEW k \in 1..n
        PROVE  \/ answers[k] = Unhandled /\ NoLead(Root(k), path)
               \/ /\ answers[k] # Unhandled
                  /\ \E j, l : Foremost(Root(k), path, j, l) /\ answers[k] = PageAt(Root(k)[j], l)
    <2> DEFINE r == Root(k)
    <2>1. r \in Seq(Handlers) /\ answers[k] = RootAnswer(r, path)
      BY <1>2, <1>3
    <2> HIDE DEF r, answers
    <2>2. \/ RootAnswer(r, path) = Unhandled /\ NoLead(r, path)
          \/ /\ RootAnswer(r, path) # Unhandled
             /\ \E j, l : Foremost(r, path, j, l) /\ RootAnswer(r, path) = PageAt(r[j], l)
      BY <2>1, RootAnswers
    <2> QED BY <2>1, <2>2 DEF r
  <1>5. Handle(uri) = answer
    BY DEF Handle
  <1>6. ASSUME NEW y \in Leads(path)
        PROVE  /\ y[1] \in 1..n /\ y[2] \in 1..Len(Root(y[1]))
               /\ y[3] \in LeadsIn(Root(y[1])[y[2]], path) /\ y[3] \in Nat
    <2>1. /\ y \in (1..MaxHandlers) \X (1..MaxHandlers) \X (0..MaxHandlers)
          /\ y[1] <= n /\ y[2] <= Len(Root(y[1])) /\ y[3] \in LeadsIn(Root(y[1])[y[2]], path)
      BY LeadsAre
    <2>2. y[1] \in 1..MaxHandlers /\ y[2] \in 1..MaxHandlers /\ y[3] \in 0..MaxHandlers
      BY <2>1
    <2>3. y[1] \in 1..n /\ y[3] \in Nat
      BY <1>1, <2>1, <2>2
    <2>4. Len(Root(y[1])) \in Nat
      BY <1>2, <2>3
    <2> HIDE DEF Root
    <2> QED BY <2>1, <2>2, <2>3, <2>4
  <1> HIDE DEF answers
  <1>7. \/ /\ answer = Unhandled
           /\ \A k \in 1..n : answers[k] = Unhandled
        \/ \E at \in 1..n :
              /\ answer = answers[at] /\ answers[at] # Unhandled
              /\ \A k \in 1..n : answers[k] # Unhandled => at <= k
    BY <1>1, <1>3, FirstAnswerIs
  <1> HIDE DEF answer, Root, n
  <1>8. CASE answer = Unhandled /\ \A k \in 1..n : answers[k] = Unhandled
    <2>1. \A k \in 1..n : NoLead(Root(k), path)
      BY <1>4, <1>8
    <2>2. ASSUME NEW y \in Leads(path) PROVE FALSE
      <3>1. NoLead(Root(y[1]), path)
        BY <1>6, <2>1
      <3> QED BY <1>6, <3>1 DEF NoLead
    <2> QED BY <1>5, <1>8, <2>2
  <1>9. CASE \E at \in 1..n :
                /\ answer = answers[at] /\ answers[at] # Unhandled
                /\ \A k \in 1..n : answers[k] # Unhandled => at <= k
    <2>1. PICK k \in 1..n :
                /\ answer = answers[k] /\ answers[k] # Unhandled
                /\ \A i \in 1..n : answers[i] # Unhandled => k <= i
      BY <1>9
    <2>2. PICK j, l : Foremost(Root(k), path, j, l) /\ answers[k] = PageAt(Root(k)[j], l)
      BY <1>4, <2>1
    <2>3. /\ j \in 1..Len(Root(k)) /\ l \in LeadsIn(Root(k)[j], path)
          /\ \A i \in 1..Len(Root(k)) : \A m \in LeadsIn(Root(k)[i], path) :
                j < i \/ (j = i /\ l <= m)
      BY <2>2 DEF Foremost
    <2> DEFINE x == <<k, j, l>>
    <2>4. x[1] = k /\ x[2] = j /\ x[3] = l
      OBVIOUS
    <2>5. x \in Leads(path)
      <3>1. k \in 1..MaxHandlers /\ k <= n
        BY <1>1
      <3>2. j \in 1..MaxHandlers /\ j <= Len(Root(k))
        <4>1. Len(Root(k)) \in Nat /\ Len(Root(k)) <= MaxHandlers
          BY <1>2
        <4> QED BY <1>1, <2>3, <4>1
      <3>3. l \in 0..MaxHandlers
        BY <2>3 DEF LeadsIn
      <3>4. x \in (1..MaxHandlers) \X (1..MaxHandlers) \X (0..MaxHandlers)
        BY <3>1, <3>2, <3>3
      <3> HIDE DEF x
      <3> QED BY <2>3, <2>4, <3>1, <3>2, <3>4, LeadsAre DEF Root, n
    <2> HIDE DEF x
    <2>6. ASSUME NEW y \in Leads(path) PROVE Before(x, y)
      <3>1. /\ y[1] \in 1..n /\ y[2] \in 1..Len(Root(y[1]))
            /\ y[3] \in LeadsIn(Root(y[1])[y[2]], path)
        BY <1>6
      <3>2. k <= y[1]
        <4>1. ~NoLead(Root(y[1]), path)
          BY <3>1 DEF NoLead
        <4>2. answers[y[1]] # Unhandled
          BY <1>4, <3>1, <4>1
        <4> QED BY <2>1, <3>1, <4>2
      <3>3. k < y[1] \/ k = y[1]
        BY <1>1, <3>1, <3>2
      <3>4. k = y[1] => j < y[2] \/ (j = y[2] /\ l <= y[3])
        BY <2>3, <3>1
      <3> QED BY <2>4, <3>3, <3>4 DEF Before
    <2>7. answer = PageAt(pageHandlers[x[1]].root[x[2]], x[3])
      BY <2>1, <2>2, <2>4 DEF Root
    <2> QED BY <1>5, <2>5, <2>6, <2>7
  <1> QED BY <1>7, <1>8, <1>9

(* Two places that are each before the other are the same.                   *)
LEMMA FirstIsOne ==
    ASSUME NEW path, NEW x \in Leads(path), NEW y \in Leads(path), Before(x, y), Before(y, x)
    PROVE  x[1] = y[1] /\ x[2] = y[2] /\ x[3] = y[3]
  <1>1. /\ x \in (1..MaxHandlers) \X (1..MaxHandlers) \X (0..MaxHandlers)
        /\ y \in (1..MaxHandlers) \X (1..MaxHandlers) \X (0..MaxHandlers)
    BY LeadsAre
  <1>2. x[1] \in Int /\ x[2] \in Int /\ x[3] \in Int /\ y[1] \in Int /\ y[2] \in Int /\ y[3] \in Int
    <2>1. MaxHandlers \in Nat
      BY PagesAssumption
    <2> QED BY <1>1, <2>1
  <1> QED BY <1>2 DEF Before

(* Of all the pages that a request leads to the foremost answers.          *)
LEMMA PagesComeFirst == HandlersOK => FirstPageAnswers
  <1> SUFFICES ASSUME HandlersOK, NEW path \in Paths(Segments)
      PROVE  LET uri == JoinUri(path, <<>>, <<>>)
                 leads == Leads(path)
                 first == CHOOSE x \in leads : \A y \in leads : Before(x, y)
                 h == pageHandlers[first[1]].root[first[2]]
             IN  Handle(uri) = IF leads = {} THEN Unhandled
                               ELSE IF first[3] = 0 THEN h.page ELSE h.handlers[first[3]].page
    BY DEF FirstPageAnswers
  <1> DEFINE uri == JoinUri(path, <<>>, <<>>)
             leads == Leads(path)
             first == CHOOSE x \in leads : \A y \in leads : Before(x, y)
             h == pageHandlers[first[1]].root[first[2]]
  <1>1. Segments \subseteq Seq(Chars) /\ <<>> \in Seq(Chars)
    BY PagesAssumption
  <1>2. path \in Seq(Segments)
    BY <1>1, WayIsRead
  <1>3. Crack(uri) = [ok |-> TRUE, path |-> path, params |-> {<<<<>>, <<>>>>}]
    BY <1>1, CrackReadsBack
  <1> HIDE DEF uri
  <1>4. Crack(uri).ok /\ Crack(uri).path = path
    BY <1>3
  <1>5. \/ Handle(uri) = Unhandled /\ Leads(path) = {}
        \/ \E x \in Leads(path) :
              /\ Handle(uri) = PageAt(pageHandlers[x[1]].root[x[2]], x[3])
              /\ \A y \in Leads(path) : Before(x, y)
    BY <1>2, <1>4, ServerAnswers
  <1>6. CASE Handle(uri) = Unhandled /\ Leads(path) = {}
    <2>1. leads = {}
      BY <1>6
    <2> HIDE DEF leads
    <2> QED BY <1>6, <2>1 DEF uri
  <1>7. CASE \E x \in Leads(path) :
                /\ Handle(uri) = PageAt(pageHandlers[x[1]].root[x[2]], x[3])
                /\ \A y \in Leads(path) : Before(x, y)
    <2>1. PICK x \in leads : /\ Handle(uri) = PageAt(pageHandlers[x[1]].root[x[2]], x[3])
                             /\ \A y \in leads : Before(x, y)
      BY <1>7
    <2>2. first \in leads /\ \A y \in leads : Before(first, y)
      <3> HIDE DEF leads
      <3> QED BY <2>1
    <2> HIDE DEF first
    <2>3. first[1] = x[1] /\ first[2] = x[2] /\ first[3] = x[3]
      BY <2>1, <2>2, FirstIsOne
    <2>4. Handle(uri) = PageAt(h, first[3])
      BY <2>1, <2>3
    <2>5. leads # {}
      BY <2>1
    <2> HIDE DEF leads, h
    <2>6. Handle(uri) = IF leads = {} THEN Unhandled
                        ELSE IF first[3] = 0 THEN h.page ELSE h.handlers[first[3]].page
      BY <2>4, <2>5 DEF PageAt
    <2> QED BY <2>6 DEF first, h, leads, uri
  <1> QED BY <1>5, <1>6, <1>7

(* CrackedUri, PathHandler and RootPageHandler: whatever the texts of up to  *)
(* two segments, the handlers and the order in which they are added, a       *)
(* request that a client escapes reaches the page it asks for and a          *)
(* malformed URI is refused.                                                 *)
THEOREM PagesStayFound == RoutingSpec => []PagesAreFound
  <1> DEFINE Inv == UriReadsBack /\ HandlersOK
  <1>1. UriInit /\ RoutingInit => Inv
    <2>1. MaxHandlers \in Nat
      BY PagesAssumption
    <2>2. RoutingInit => pageHandlers \in Seq(Roots) /\ Len(pageHandlers) = 0
      BY DEF RoutingInit
    <2> QED BY <2>1, <2>2 DEF UriInit, UriReadsBack, HandlersOK
  <1>2. Inv /\ [ServerNext]_<<urivars, pageHandlers>> => Inv'
    <2> SUFFICES ASSUME Inv, [ServerNext]_<<urivars, pageHandlers>> PROVE Inv'
      OBVIOUS
    <2>1. ASSUME NEW path \in Paths(Texts), NEW name \in Texts, NEW value \in Texts,
                 ClientAsks(path, name, value)
          PROVE  UriReadsBack'
      <3>1. name \in Seq(Chars) /\ value \in Seq(Chars)
        BY TextsAssumption
      <3>2. Crack(JoinUri(path, name, value)) = [ok |-> TRUE, path |-> path, params |-> {<<name, value>>}]
        BY <3>1, TextsAssumption, CrackReadsBack
      <3> QED BY <2>1, <3>2 DEF ClientAsks, UriReadsBack
    <2>2. ASSUME NEW uri \in Malformed, ClientErrs(uri) PROVE UriReadsBack'
      <3>1. Crack(uri) = Nowhere
        BY MalformedAssumption, IllFormedIsRefused
      <3> QED BY <2>2, <3>1 DEF ClientErrs, UriReadsBack
    <2>3. CASE UriNext /\ UNCHANGED pageHandlers
      <3>1. HandlersOK'
        BY <2>3 DEF HandlersOK
      <3> QED BY <2>1, <2>2, <2>3, <3>1 DEF UriNext
    <2>4. CASE RoutingNext /\ UNCHANGED urivars
      <3>1. HandlersOK'
        BY <2>4, HandlersStay
      <3>2. UriReadsBack'
        BY <2>4 DEF UriReadsBack, urivars
      <3> QED BY <3>1, <3>2
    <2>5. CASE UNCHANGED <<urivars, pageHandlers>>
      BY <2>5 DEF UriReadsBack, HandlersOK, urivars
    <2> QED BY <2>3, <2>4, <2>5 DEF ServerNext
  <1>3. Inv => PagesAreFound
    BY PagesComeFirst DEF PagesAreFound
  <1> QED BY <1>1, <1>2, <1>3, PTL DEF RoutingSpec
=============================================================================
