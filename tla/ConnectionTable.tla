-------------------------- MODULE ConnectionTable --------------------------
(* The life of connections within the server (Server.cpp): accept, the epoll *)
(* set, batches of events whose deletions are put off to their end, the kill *)
(* of connections that never speak, and shutdown().  The task list and what  *)
(* a connection does with its bytes are the matter of EventLoop, Connection  *)
(* and OutBuffer.  Variants named ..._<what is wrong> are slips that the      *)
(* properties at the end would catch; no specification uses them.            *)
EXTENDS Naturals, FiniteSets

CONSTANTS
    Conns,          \* addresses of Connection objects, used again after delete
    MaxFd,          \* bound: descriptors of the process are 1..MaxFd
    Timeout,        \* _lameConnectionTimeoutSeconds
    MaxEvents,      \* maxEvents of checkAndDispatchEpoll()
    MaxThrows,      \* bound: callbacks that exit by an exception
    PollMode,       \* TRUE: driven by poll(0) on fd(); FALSE: by loop()
    EpollFails,     \* epoll_ctl may fail
    OthersOpen      \* other threads open and close files

ASSUME LimitsAreNaturals ==
    MaxFd \in Nat /\ Timeout \in Nat /\ MaxEvents \in Nat \ {0} /\ MaxThrows \in Nat
ASSUME ModesAreBoolean == {PollMode, EpollFails, OthersOpen} \subseteq BOOLEAN
ASSUME ConnsAreNotNames == {"none", "listener", "fault"} \cap Conns = {}

VARIABLES
    pc,             \* where the server's thread is
    closing,        \* processEventQueue() is the one after the loop
    terminate,      \* _terminate
    listening,      \* _listenSock # -1
    batch,          \* the events of this epoll_wait still to be dispatched
    doomed,         \* toBeDeleted, or toRemove of the lame check
    victim,         \* the connection a callback is running for, or none
    lost,           \* the descriptor that handleAccept() is about to close again
    exists,         \* the Connection objects that are not deleted
    connections,    \* the keys of _connections
    polled,         \* the connections in the epoll set
    fd,             \* _fd of each connection
    age,            \* seconds it has been silent since accept(), up to Timeout
    heard,          \* the connections with bytesReceived() # 0
    shut,           \* those with _shutdown set
    sock,           \* what the peer of each has done
    backlog,        \* a client waits to be accepted
    owner,          \* whose each descriptor is
    throws,         \* number of callbacks that have thrown
    \* history
    foreign         \* the server has closed a descriptor that is not its own

flags   == <<closing, terminate, listening>>
work    == <<batch, doomed, victim, lost>>
table   == <<exists, connections, polled, fd, age>>
peers   == <<heard, shut, sock, backlog>>
process == <<owner, throws, foreign>>
vars    == <<pc, flags, work, table, peers, process>>

Fds    == 1..MaxFd
NoFd   == 0
NoConn == "none"

Init ==
    /\ pc = "idle" /\ closing = FALSE /\ terminate = FALSE /\ listening = TRUE
    /\ batch = {} /\ doomed = {} /\ victim = NoConn /\ lost = NoFd
    /\ exists = {} /\ connections = {} /\ polled = {}
    /\ fd = [c \in Conns |-> NoFd] /\ age = [c \in Conns |-> 0]
    /\ heard = {} /\ shut = {} /\ sock = [c \in Conns |-> "quiet"] /\ backlog = FALSE
    /\ owner = [f \in Fds |-> "free"] /\ throws = 0 /\ foreign = FALSE

-----------------------------------------------------------------------------
(* The rest of the process, the peers and the clock.                         *)

(* The kernel hands out the lowest descriptor that is free.                  *)
NextFd(f) == owner[f] = "free" /\ \A g \in Fds : g < f => owner[g] # "free"

(* Another thread opens a file or closes one of its own.                     *)
OtherOpens(f) ==
    /\ OthersOpen /\ NextFd(f) /\ owner' = [owner EXCEPT ![f] = "other"]
    /\ UNCHANGED <<pc, flags, work, table, peers, throws, foreign>>

OtherCloses(f) ==
    /\ owner[f] = "other" /\ owner' = [owner EXCEPT ![f] = "free"]
    /\ UNCHANGED <<pc, flags, work, table, peers, throws, foreign>>

(* The peer sends, ends its stream (eof) or resets the connection (gone);    *)
(* once we have shut the socket down, what it does makes no difference.      *)
PeerActs(c, what) ==
    /\ c \in exists \ shut
    /\ sock[c] = "quiet" \/ (what = "gone" /\ sock[c] # "gone")
    /\ sock' = [sock EXCEPT ![c] = what]
    /\ UNCHANGED <<pc, flags, work, table, heard, shut, backlog, process>>

ClientConnects ==
    /\ listening /\ ~backlog /\ backlog' = TRUE
    /\ UNCHANGED <<pc, flags, work, table, heard, shut, sock, process>>

(* A second passes; only the age of silent connections is kept.              *)
Tick ==
    /\ \E c \in exists \ heard : age[c] < Timeout
    /\ age' = [c \in Conns |->
                 IF c \in exists \ heard /\ age[c] < Timeout THEN age[c] + 1 ELSE age[c]]
    /\ UNCHANGED <<pc, flags, work, exists, connections, polled, fd, peers, process>>

(* terminate(), by any thread.                                               *)
Terminate ==
    /\ ~terminate /\ terminate' = TRUE
    /\ UNCHANGED <<pc, closing, listening, work, table, peers, process>>

-----------------------------------------------------------------------------
(* What ends a connection.                                                   *)

Deleted_keepsEntry(c) ==
    /\ exists' = exists \ {c} /\ polled' = polled \ {c}
    /\ UNCHANGED connections

(* finalise() calls remove(), and the destructor ends the object.            *)
Deleted(c) ==
    /\ exists' = exists \ {c} /\ polled' = polled \ {c}
    /\ connections' = connections \ {c}

(* The part of finalise() that follows the callbacks.                        *)
Finalise(c) ==
    /\ Deleted(c)
    /\ owner' = [owner EXCEPT ![fd[c]] = "free"]
    /\ fd' = [fd EXCEPT ![c] = NoFd] /\ age' = [age EXCEPT ![c] = 0]
    /\ heard' = heard \ {c} /\ shut' = shut \ {c}
    /\ sock' = [sock EXCEPT ![c] = "quiet"]
    /\ UNCHANGED <<backlog, throws, foreign>>

(* Application code is running on the server's thread: between two calls of  *)
(* poll(), a task, a callback of a connection, or cancel() and onDisconnect(). *)
InApplication == pc \in {"idle", "tasks", "handler", "disconnecting"}

CloseConnection_deletes(c) ==
    /\ InApplication /\ c \in exists \ (shut \cup {victim})
    /\ Finalise(c)
    /\ UNCHANGED <<pc, flags, work>>

(* The application closes a connection; only the socket is shut down.        *)
CloseConnection(c) ==
    /\ InApplication /\ c \in exists \ shut
    /\ shut' = shut \cup {c}
    /\ UNCHANGED <<pc, flags, work, table, heard, sock, backlog, process>>

-----------------------------------------------------------------------------
(* loop(), poll() and processEventQueue().                                   *)

Goto(from, to) == pc = from /\ pc' = to

OnlyPc == UNCHANGED <<flags, work, table, peers, process>>

EnterLoop == listening /\ ~PollMode /\ Goto("idle", "check") /\ OnlyPc
EnterPoll == listening /\ PollMode /\ Goto("idle", "tasks") /\ OnlyPc
Iterate == ~terminate /\ ~PollMode /\ Goto("check", "tasks") /\ OnlyPc
ReturnContinue == ~terminate /\ PollMode /\ Goto("check", "idle") /\ OnlyPc

BeginClosing ==
    /\ terminate /\ Goto("check", "tasks") /\ closing' = TRUE
    /\ UNCHANGED <<terminate, listening, work, table, peers, process>>

(* bytesReceived() == 0 and too old.                                         *)
Lame(c) == c \notin heard /\ age[c] >= Timeout

(* The lame-connection check of processEventQueue() picks its victims.  As   *)
(* _nextDeadConnectionCheck stays 0, it is made every time.                  *)
CheckLame ==
    /\ Goto("tasks", "lame")
    /\ doomed' = {c \in connections : Lame(c)}
    /\ UNCHANGED <<flags, batch, victim, lost, table, peers, process>>

(* They have no response and no WebSocket: deletion calls nothing back.      *)
KillLame(c) ==
    /\ pc = "lame" /\ c \in doomed
    /\ doomed' = doomed \ {c} /\ Finalise(c)
    /\ UNCHANGED <<pc, flags, batch, victim, lost>>

LameDone == doomed = {} /\ ~closing /\ Goto("lame", "wait") /\ OnlyPc

-----------------------------------------------------------------------------
(* checkAndDispatchEpoll().                                                  *)

HangsUp_peerOnly(c) == sock[c] = "gone"

(* EPOLLHUP or EPOLLERR: a reset, or our own shutdown() of the socket.       *)
HangsUp(c) == sock[c] = "gone" \/ c \in shut

Event == [who : Conns, hup : BOOLEAN] \cup [who : {"listener", "fault"}]

(* What epoll could report.                                                  *)
Ready ==
    {[who |-> c, hup |-> HangsUp(c)] :
        c \in {c \in polled : HangsUp(c) \/ sock[c] # "quiet"}}
    \cup [who : {w \in {"listener"} : backlog}]

(* epoll_wait reports what is ready, up to maxEvents of it, or an error of   *)
(* the listening socket or of the eventfd too.                               *)
EpollWait ==
    /\ Goto("wait", "dispatch")
    /\ \E S \in SUBSET (Ready \cup [who : {"fault"}]) :
          /\ S # {} /\ Cardinality(S) <= MaxEvents
          /\ Cardinality(S) = MaxEvents \/ Ready \subseteq S
          /\ batch' = S
    /\ UNCHANGED <<flags, doomed, victim, lost, table, peers, process>>

EpollTimeout_never == FALSE

(* Nothing happened for 500 ms, poll(0) found nothing, or EINTR.             *)
EpollTimeout == Goto("wait", "check") /\ OnlyPc

Take(e) == pc = "dispatch" /\ e \in batch /\ batch' = batch \ {e}

(* handleAccept(): accept() or configureSocket() fails and nothing is kept.  *)
AcceptNothing ==
    /\ Take([who |-> "listener"])
    /\ backlog' \in {backlog, FALSE}
    /\ UNCHANGED <<pc, flags, doomed, victim, lost, table, heard, shut, sock, process>>

(* A new connection joins the epoll set, then the table.                     *)
Accept(c, f) ==
    /\ Take([who |-> "listener"])
    /\ c \notin exists /\ NextFd(f)
    /\ exists' = exists \cup {c} /\ polled' = polled \cup {c}
    /\ connections' = connections \cup {c}
    /\ fd' = [fd EXCEPT ![c] = f] /\ owner' = [owner EXCEPT ![f] = "server"]
    /\ backlog' = FALSE
    /\ UNCHANGED <<pc, flags, doomed, victim, lost, age, heard, shut, sock, throws,
                   foreign>>

(* epoll_ctl refuses it: its destructor closes the descriptor ...            *)
AcceptUnpolled(c, f) ==
    /\ EpollFails /\ Take([who |-> "listener"])
    /\ c \notin exists /\ NextFd(f)
    /\ pc' = "closeAgain" /\ lost' = f /\ backlog' = FALSE
    /\ UNCHANGED <<flags, doomed, victim, table, heard, shut, sock, process>>

(* ... and so does handleAccept(), whoever may have it by now.               *)
CloseAgain ==
    /\ Goto("closeAgain", "dispatch")
    /\ lost' = NoFd /\ foreign' = (foreign \/ owner[lost] # "free")
    /\ owner' = [owner EXCEPT ![lost] = "free"]
    /\ UNCHANGED <<flags, batch, doomed, victim, table, peers, throws>>

(* An unexpected event on the listening socket or the eventfd: terminate,    *)
(* and leave the rest of the batch.                                          *)
DispatchFault ==
    /\ pc = "dispatch" /\ [who |-> "fault"] \in batch
    /\ batch' = {} /\ terminate' = TRUE
    /\ UNCHANGED <<pc, closing, listening, doomed, victim, lost, table, peers, process>>

(* handleConnectionEvents() says Close.                                      *)
DispatchHangUp(c) ==
    /\ Take([who |-> c, hup |-> TRUE])
    /\ doomed' = doomed \cup {c}
    /\ UNCHANGED <<pc, flags, victim, lost, table, peers, process>>

(* The connection reads and its callbacks run, if it has not been closed     *)
(* since epoll_wait.                                                         *)
DispatchInput(c) ==
    /\ Take([who |-> c, hup |-> FALSE])
    /\ IF c \in shut \/ sock[c] = "gone"
       THEN UNCHANGED <<pc, victim, age, heard, shut, sock>>
       ELSE IF sock[c] = "eof"
       THEN shut' = shut \cup {c} /\ UNCHANGED <<pc, victim, age, heard, sock>>
       ELSE /\ heard' = heard \cup {c} /\ sock' = [sock EXCEPT ![c] = "quiet"]
            /\ age' = [age EXCEPT ![c] = 0]
            /\ pc' = "handler" /\ victim' = c /\ UNCHANGED shut
    /\ UNCHANGED <<flags, doomed, lost, exists, connections, polled, fd, backlog,
                   process>>

HandlerReturns ==
    /\ Goto("handler", "dispatch") /\ victim' = NoConn
    /\ UNCHANGED <<flags, batch, doomed, lost, table, peers, process>>

(* A task or a WebSocket callback throws through loop() or poll(): what was  *)
(* left of the batch, and the deletions put off, are forgotten.              *)
CallbackThrows ==
    /\ pc \in {"tasks", "handler"} /\ throws < MaxThrows
    /\ pc' = "idle" /\ batch' = {} /\ doomed' = {} /\ victim' = NoConn
    /\ closing' = FALSE /\ throws' = throws + 1
    /\ UNCHANGED <<terminate, listening, lost, table, peers, owner, foreign>>

DispatchDone == batch = {} /\ Goto("dispatch", "delete") /\ OnlyPc

-----------------------------------------------------------------------------
(* Deletion, at the end of a batch and by shutdown().                        *)

(* cancel() and onDisconnect().                                              *)
BeginDelete(c) ==
    /\ Goto("delete", "disconnecting")
    /\ c \in IF closing THEN connections ELSE doomed
    /\ victim' = c /\ doomed' = doomed \ {c}
    /\ UNCHANGED <<flags, batch, lost, table, peers, process>>

EndDelete ==
    /\ Goto("disconnecting", "delete")
    /\ Finalise(victim) /\ victim' = NoConn
    /\ UNCHANGED <<flags, batch, doomed, lost>>

DeleteDone == ~closing /\ doomed = {} /\ Goto("delete", "check") /\ OnlyPc

(* shutdown() stops listening ...                                            *)
CloseListener ==
    /\ closing /\ doomed = {} /\ Goto("lame", "delete") /\ listening' = FALSE
    /\ UNCHANGED <<closing, terminate, work, table, peers, process>>

ShutdownDone_fromList == closing /\ doomed = {} /\ Goto("delete", "idle") /\ OnlyPc

(* ... and deletes connections until there are none.                         *)
ShutdownDone == closing /\ connections = {} /\ Goto("delete", "idle") /\ OnlyPc

-----------------------------------------------------------------------------
Dispatch(c) == DispatchHangUp(c) \/ DispatchInput(c)

Serve ==
    \/ EnterLoop \/ EnterPoll \/ Iterate \/ ReturnContinue \/ BeginClosing
    \/ CheckLame \/ (\E c \in Conns : KillLame(c)) \/ LameDone
    \/ EpollWait
    \/ AcceptNothing
    \/ \E c \in Conns, f \in Fds : Accept(c, f) \/ AcceptUnpolled(c, f)
    \/ CloseAgain \/ DispatchFault
    \/ \E c \in Conns : Dispatch(c)
    \/ HandlerReturns \/ DispatchDone
    \/ (\E c \in Conns : BeginDelete(c)) \/ EndDelete \/ DeleteDone
    \/ CloseListener \/ ShutdownDone

Next ==
    \/ Serve \/ EpollTimeout \/ CallbackThrows
    \/ \E c \in Conns : CloseConnection(c)
    \/ \E c \in Conns, what \in {"data", "eof", "gone"} : PeerActs(c, what)
    \/ \E f \in Fds : OtherOpens(f) \/ OtherCloses(f)
    \/ ClientConnects \/ Tick \/ Terminate

Spec == Init /\ [][Next]_vars

(* The application calls loop(), or poll() when fd() is readable; nothing    *)
(* obliges epoll to report an error.                                         *)
Driven ==
    /\ PollMode => pc # "idle" \/ Ready # {} \/ terminate
    /\ Serve /\ (pc = "wait" => [who |-> "fault"] \notin batch')

(* The server's thread goes on, epoll reports every socket that is ready in  *)
(* its turn, time passes, and epoll_wait times out when nothing happens.     *)
FairSpec ==
    /\ Spec /\ WF_vars(Driven) /\ WF_vars(EpollTimeout) /\ WF_vars(Tick)
    /\ \A c \in Conns : SF_vars(EpollWait /\ \E e \in batch' : e.who = c)

-----------------------------------------------------------------------------
(* Types; a connection exists if and only if it has a descriptor, and that   *)
(* descriptor is the server's.                                               *)
TypeOK ==
    /\ pc \in {"idle", "check", "tasks", "lame", "wait", "dispatch", "handler",
               "closeAgain", "delete", "disconnecting"}
    /\ closing \in BOOLEAN /\ terminate \in BOOLEAN /\ listening \in BOOLEAN
    /\ batch \subseteq Event /\ doomed \subseteq Conns
    /\ victim \in Conns \cup {NoConn} /\ lost \in Fds \cup {NoFd}
    /\ exists \subseteq Conns /\ heard \subseteq exists /\ shut \subseteq exists
    /\ connections \subseteq Conns /\ polled \subseteq Conns
    /\ fd \in [Conns -> Fds \cup {NoFd}] /\ age \in [Conns -> 0..Timeout]
    /\ sock \in [Conns -> {"quiet", "data", "eof", "gone"}]
    /\ owner \in [Fds -> {"free", "server", "other"}]
    /\ backlog \in BOOLEAN /\ throws \in 0..MaxThrows /\ foreign \in BOOLEAN

(* _connections, the epoll set, the objects and the server's descriptors are *)
(* the same thing: no connection is lost, left open, or polled after its     *)
(* deletion, and no two share a descriptor.                                  *)
TableIsEpollSet ==
    /\ connections = exists /\ polled = exists
    /\ \A c \in Conns : c \in exists <=> fd[c] # NoFd
    /\ ~foreign => /\ {f \in Fds : owner[f] = "server"} = {fd[c] : c \in exists}
                   /\ Cardinality({fd[c] : c \in exists}) = Cardinality(exists)

(* Events still to be dispatched and deletions put off are of connections    *)
(* that are there: nothing uses a deleted one, nothing is deleted twice, and *)
(* "Attempt to delete connection we didn't know about" is never said.        *)
EventsAreLive ==
    /\ \A e \in batch : e.who \in Conns =>
          e.who \in exists \ doomed /\ Cardinality({d \in batch : d.who = e.who}) = 1
    /\ doomed \subseteq exists
    /\ victim # NoConn => victim \in exists

(* onDisconnect() is called when every event of the batch has been           *)
(* processed (the comment in checkAndDispatchEpoll), except those a fault    *)
(* has thrown away.                                                          *)
DisconnectAfterBatch == pc = "disconnecting" => batch = {}

(* The server's view of its connections is the kernel's.                     *)
TableInOrder == TypeOK /\ TableIsEpollSet

(* Why deletions are put off to the end of a batch: nothing in it is of a    *)
(* connection that is gone, and no onDisconnect() comes in the middle of it. *)
BatchIsSafe == EventsAreLive /\ DisconnectAfterBatch

(* After shutdown() every connection has been told and closed.               *)
ShutdownLeavesNothing ==
    pc = "idle" /\ ~listening =>
        exists = {} /\ (~foreign => \A f \in Fds : owner[f] # "server")

(* The server closes no descriptor but its own ("the close of the FD ...     *)
(* until the destructor runs", Connection.cpp).                              *)
ServerClosesItsOwn == ~foreign

(* A connection that is closed by either side is deleted in the end, whether *)
(* the close came from a callback of another or during its own.              *)
HangUpsRemoved == \A c \in Conns :
    c \in shut \/ (c \in exists /\ sock[c] = "gone") ~> c \notin exists

(* A connection never heard of is killed ("If we haven't heard anything ever *)
(* on a connection for this long, kill it", Server.h).                       *)
LameKilled == \A c \in Conns :
    c \in exists \ heard ~> c \notin exists \/ c \in heard
=============================================================================
