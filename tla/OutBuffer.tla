----------------------------- MODULE OutBuffer -----------------------------
(* The sending half of a Connection (Connection.cpp): write() with its fast  *)
(* path, flush(), closeWhenEmpty(), closeInternal() and the write events of  *)
(* epoll, against a socket whose send buffer the peer empties as it pleases. *)
(* Bytes are numbered in the order the application offers them to write().   *)
EXTENDS Sequences, Naturals

CONSTANTS
    BufferSize,     \* clientBufferSize: _outBuf stays below it
    KernelSize,     \* capacity of the socket's send buffer
    MaxWrite,       \* bound: the longest write()
    MaxBytes,       \* bound: bytes offered over the life of the connection
    EpollFails      \* epoll_ctl may fail

ASSUME SizesAreNaturals ==
    BufferSize \in Nat /\ KernelSize \in Nat \ {0} /\ MaxWrite \in Nat /\ MaxBytes \in Nat
ASSUME EpollFailsIsBoolean == EpollFails \in BOOLEAN

VARIABLES
    outBuf,         \* _outBuf
    kernel,         \* the socket's send buffer
    registered,     \* _registeredForWriteEvents, and epoll's interest in EPOLLOUT
    closeOnEmpty,   \* _closeOnEmpty
    shutdown,       \* _shutdown
    open,           \* the Connection is not deleted: _fd # -1
    broken,         \* the peer reset the connection: send() fails
    \* history
    offered,        \* number of bytes passed to write() so far
    received,       \* what the peer has read
    unflushed,      \* something was buffered by a write() that asked for no flush
    epollFailed,    \* an epoll_ctl has failed
    cause,          \* why closeInternal() was called
    promised        \* number of bytes offered before closeWhenEmpty()

outvars == <<outBuf, kernel, registered, closeOnEmpty, shutdown, open, broken,
          offered, received, unflushed, epollFailed, cause, promised>>

OutInit ==
    /\ outBuf = <<>> /\ kernel = <<>> /\ received = <<>> /\ offered = 0
    /\ registered = FALSE /\ closeOnEmpty = FALSE /\ shutdown = FALSE
    /\ open = TRUE /\ broken = FALSE /\ unflushed = FALSE
    /\ epollFailed = FALSE /\ cause = "none" /\ promised = 0

First(s, m) == SubSeq(s, 1, m)
Rest(s, m)  == SubSeq(s, m + 1, Len(s))

(* What send() may answer to n > 0 bytes on top of ker: some of what fits,   *)
(* or 0 for EAGAIN.                                                          *)
SendCounts(n, ker) ==
    IF Len(ker) >= KernelSize THEN {0} ELSE {m \in 1..n : Len(ker) + m <= KernelSize}

CloseInternal(why) == shutdown' = TRUE /\ cause' = why

(* Variants named ..._<what is wrong> are slips the checks must notice; no    *)
(* action uses them.                                                         *)
WantsWriteEvents_oneShot(buf) == buf # <<>> /\ ~registered

(* flush() subscribes when something is left and unsubscribes when not.      *)
WantsWriteEvents(buf) == buf # <<>>

ClosesNow_never(buf, closing) == FALSE

(* What makes the end of flush() close; closing is _closeOnEmpty.            *)
ClosesNow(buf, closing) == buf = <<>> /\ closing

(* flush() of buf once ker has been sent.  A send() that fails closes.  A    *)
(* change of subscription that fails returns before anything else is done.   *)
(* finishing: closeWhenEmpty() comes next.                                   *)
Flush(buf, ker, closing, finishing) ==
    /\ unflushed' = FALSE
    /\ \/ /\ buf # <<>> /\ broken
          /\ outBuf' = buf /\ kernel' = ker /\ registered' = registered
          /\ CloseInternal("error") /\ UNCHANGED epollFailed
       \/ /\ buf # <<>> /\ ~broken
          /\ \E m \in SendCounts(Len(buf), ker) :
                outBuf' = Rest(buf, m) /\ kernel' = ker \o First(buf, m)
          /\ \E epollOk \in {TRUE, ~EpollFails \/ registered = WantsWriteEvents(outBuf')} :
                /\ registered' = IF epollOk THEN WantsWriteEvents(outBuf') ELSE registered
                /\ epollFailed' = (epollFailed \/ ~epollOk)
                /\ IF ClosesNow(outBuf', (epollOk /\ closing) \/ finishing)
                   THEN CloseInternal("empty")
                   ELSE UNCHANGED <<shutdown, cause>>
       \/ /\ buf = <<>>
          /\ outBuf' = buf /\ kernel' = ker
          /\ UNCHANGED <<registered, epollFailed, shutdown, cause>>

TooMuch_newDataOnly(rest) == Len(rest) >= BufferSize

TooMuch(rest) == Len(outBuf) + Len(rest) >= BufferSize

(* The tail of write(): buffer what was not sent, or close when there would  *)
(* be too much of it.                                                        *)
Buffer(rest, ker, flushIt) ==
    IF TooMuch(rest)
    THEN /\ outBuf' = outBuf /\ kernel' = ker
         /\ UNCHANGED <<registered, unflushed, epollFailed>>
         /\ CloseInternal("overflow")
    ELSE IF flushIt
    THEN Flush(outBuf \o rest, ker, FALSE, FALSE)
    ELSE /\ outBuf' = outBuf \o rest /\ kernel' = ker
         /\ unflushed' = TRUE
         /\ UNCHANGED <<registered, epollFailed, shutdown, cause>>

(* The fast path: nothing is waiting, so try the socket first.               *)
SendDirectly(data) ==
    IF broken
    THEN /\ CloseInternal("error")
         /\ UNCHANGED <<outBuf, kernel, registered, unflushed, epollFailed>>
    ELSE \E m \in SendCounts(Len(data), kernel) :
            IF m = Len(data)
            THEN /\ kernel' = kernel \o data
                 /\ UNCHANGED <<outBuf, registered, unflushed, epollFailed, shutdown, cause>>
            ELSE Buffer(Rest(data, m), kernel \o First(data, m), TRUE)

Refused_onlyWhenClosed == shutdown

(* closed() || _closeOnEmpty                                                 *)
Refused == shutdown \/ closeOnEmpty

FastPath_always(flushIt) == flushIt

FastPath(flushIt) == outBuf = <<>> /\ flushIt

(* write() of the next n bytes.                                              *)
Write(n, flushIt) ==
    /\ open /\ offered + n <= MaxBytes
    /\ offered' = offered + n
    /\ LET data == [i \in 1..n |-> offered + i]
       IN  \/ /\ Refused \/ (n = 0 /\ ~flushIt)
              /\ UNCHANGED <<outBuf, kernel, registered, unflushed, epollFailed, shutdown, cause>>
           \/ ~Refused /\ n = 0 /\ flushIt /\ Flush(outBuf, kernel, FALSE, FALSE)
           \/ ~Refused /\ n > 0 /\ FastPath(flushIt) /\ SendDirectly(data)
           \/ ~Refused /\ n > 0 /\ ~FastPath(flushIt) /\ Buffer(data, kernel, flushIt)
    /\ UNCHANGED <<closeOnEmpty, open, broken, received, promised>>

(* How finish(false) and sendError() end: flush(), then closeWhenEmpty().    *)
FlushThenCloseWhenEmpty ==
    /\ open /\ ~shutdown
    /\ IF outBuf = <<>>
       THEN /\ CloseInternal("empty")
            /\ UNCHANGED <<outBuf, kernel, registered, unflushed, epollFailed>>
       ELSE Flush(outBuf, kernel, closeOnEmpty, TRUE)
    /\ closeOnEmpty' = (closeOnEmpty \/ outBuf' # <<>>)
    /\ promised' = IF closeOnEmpty THEN promised ELSE offered
    /\ UNCHANGED <<open, broken, offered, received>>

(* EPOLLOUT: handleDataReadyForWrite().                                      *)
DataReadyForWrite ==
    /\ open /\ ~shutdown /\ registered
    /\ Len(kernel) < KernelSize \/ broken
    /\ Flush(outBuf, kernel, closeOnEmpty, FALSE)
    /\ UNCHANGED <<closeOnEmpty, open, broken, offered, received, promised>>

(* close() by the application, or a read that finds the peer has closed.     *)
Close(why) ==
    /\ open /\ ~shutdown
    /\ CloseInternal(why)
    /\ UNCHANGED <<outBuf, kernel, registered, closeOnEmpty, open, broken,
                   offered, received, unflushed, epollFailed, promised>>

(* EPOLLHUP or EPOLLERR: the server deletes the connection.                  *)
Destroy ==
    /\ open /\ (shutdown \/ broken)
    /\ open' = FALSE /\ registered' = FALSE /\ outBuf' = <<>>
    /\ UNCHANGED <<kernel, closeOnEmpty, shutdown, broken, offered, received,
                   unflushed, epollFailed, cause, promised>>

(* The peer.  What the kernel holds is still delivered after a shutdown().   *)
PeerReads ==
    /\ kernel # <<>> /\ ~broken
    /\ \E m \in 1..Len(kernel) :
          received' = received \o First(kernel, m) /\ kernel' = Rest(kernel, m)
    /\ UNCHANGED <<outBuf, registered, closeOnEmpty, shutdown, open, broken,
                   offered, unflushed, epollFailed, cause, promised>>

PeerResets ==
    /\ ~broken /\ broken' = TRUE
    /\ UNCHANGED <<outBuf, kernel, registered, closeOnEmpty, shutdown, open,
                   offered, received, unflushed, epollFailed, cause, promised>>

OutNext ==
    \/ \E n \in 0..MaxWrite, flushIt \in BOOLEAN : Write(n, flushIt)
    \/ FlushThenCloseWhenEmpty
    \/ DataReadyForWrite
    \/ \E why \in {"user", "remote"} : Close(why)
    \/ Destroy
    \/ PeerReads \/ PeerResets

OutSpec == OutInit /\ [][OutNext]_outvars

(* The event loop dispatches what epoll reports, and the peer keeps reading: *)
(* there is no timeout for one that does not.                                *)
OutFairSpec == OutSpec /\ WF_outvars(DataReadyForWrite) /\ WF_outvars(Destroy) /\ WF_outvars(PeerReads)

-----------------------------------------------------------------------------
Bytes == 1..MaxBytes

(* Types; a deleted connection buffers and subscribes to nothing.            *)
OutTypeOK ==
    /\ outBuf \in Seq(Bytes) /\ kernel \in Seq(Bytes) /\ received \in Seq(Bytes)
    /\ Len(kernel) <= KernelSize
    /\ registered \in BOOLEAN /\ closeOnEmpty \in BOOLEAN /\ shutdown \in BOOLEAN
    /\ open \in BOOLEAN /\ broken \in BOOLEAN /\ unflushed \in BOOLEAN
    /\ epollFailed \in BOOLEAN
    /\ offered \in 0..MaxBytes /\ promised \in 0..offered
    /\ cause \in {"none", "user", "remote", "error", "overflow", "empty"}
    /\ ~open => outBuf = <<>> /\ ~registered

(* Everything write() ever accepted, in the order the peer will see it.      *)
Stream == (received \o kernel) \o outBuf

(* The peer sees a prefix of what the application wrote: fast path, buffer   *)
(* and partial sends never reorder, repeat or skip a byte, and a write() cut *)
(* short or refused is followed by nothing.                                  *)
StreamIsPrefix ==
    /\ Stream = [i \in 1..Len(Stream) |-> i]
    /\ Len(Stream) = offered \/ shutdown \/ closeOnEmpty \/ ~open

(* A client that does not read costs less than clientBufferSize bytes, and   *)
(* is closed rather than given a stream with a hole.                         *)
BufferBounded == outBuf = <<>> \/ Len(outBuf) < BufferSize

(* When closeWhenEmpty() closes, every byte written before it has been given *)
(* to the kernel: nothing buffered is dropped and nothing was written since. *)
CloseWhenEmptyDelivers ==
    cause = "empty" => Len(received) + Len(kernel) = promised

(* finish(false) and sendError() do close the connection in the end, unless  *)
(* an epoll_ctl fails.                                                       *)
CloseWhenEmptyCloses == closeOnEmpty ~> ~open \/ epollFailed

(* What waits for EPOLLOUT leaves the buffer to the last byte, towards the   *)
(* peer or with the connection, unless an epoll_ctl fails.  (Applications    *)
(* write a finite number of bytes here.)                                     *)
WaitingLeaves == registered /\ outBuf # <<>> ~> outBuf = <<>> \/ epollFailed
=============================================================================
