----------------------------- MODULE Listening -----------------------------
(* The descriptors of a Server that are not connections (Server.cpp): the    *)
(* epoll, the eventfd and the listening socket, from the constructor through *)
(* startListening() and startListeningUnix(), each of whose system calls may *)
(* fail, to shutdown() and the destructor.                                   *)
(* A descriptor is a number; -1 is none.                                     *)
(* Names ..._<what is wrong> are slips that the checks must notice; no action *)
(* uses them.                                                                *)
EXTENDS Integers, FiniteSets

CONSTANTS
    PortNumbers,    \* ports that the application asks for
    MaxCalls        \* bound: calls of startListening()

VARIABLES
    server,         \* "none", "up" or "destroyed"
    epollFd, eventFd, listenSock,   \* _epollFd, _eventFd, _listenSock
    polled,         \* what the epoll has
    openFds,        \* descriptors the server has opened and not closed
    calls,          \* calls of startListening() so far
    \* history
    accepting,      \* the last startListening() has returned true
    replaced        \* sockets that a later startListening() has replaced

lsvars == <<server, epollFd, eventFd, listenSock, polled, openFds, calls, accepting, replaced>>

ListeningInit ==
    /\ server = "none" /\ epollFd = -1 /\ eventFd = -1 /\ listenSock = -1
    /\ polled = {} /\ openFds = {} /\ calls = 0 /\ accepting = FALSE /\ replaced = {}

(* The kernel gives out the lowest number that is free.                      *)
NewFd == CHOOSE fd \in 1..Cardinality(openFds) + 1 :
            fd \notin openFds /\ \A lower \in 1..fd - 1 : lower \in openFds

(* The constructor: steps is how many of its system calls succeed.           *)
Construct(steps) ==
    /\ server = "none" /\ server' = "up"
    /\ epollFd' = IF steps >= 1 THEN 1 ELSE -1
    /\ eventFd' = IF steps >= 2 THEN 2 ELSE -1
    /\ polled' = IF steps >= 3 THEN {2} ELSE {}
    /\ openFds' = {1, 2} \cap {epollFd', eventFd'}
    /\ UNCHANGED <<listenSock, calls, accepting, replaced>>

Port16(port) == port % 65536

(* The calls after the checks: socket(), those of configureSocket() and      *)
(* makeNonBlocking(), bind(), listen() and epoll_ctl().  steps is how many   *)
(* succeed; a socket that is made is kept, and replaces one there was.       *)
SystemCalls == 5
Listen(steps) ==
    /\ calls' = calls + 1
    /\ listenSock' = IF steps >= 1 THEN NewFd ELSE -1
    /\ openFds' = openFds \cup (IF steps >= 1 THEN {NewFd} ELSE {})
    /\ polled' = polled \cup (IF steps >= SystemCalls THEN {NewFd} ELSE {})
    /\ accepting' = (steps >= SystemCalls)
    /\ replaced' = replaced \cup ({listenSock} \ {-1})
    /\ UNCHANGED <<server, epollFd, eventFd>>

Refuse ==
    /\ calls' = calls + 1 /\ accepting' = FALSE
    /\ UNCHANGED <<server, epollFd, eventFd, listenSock, polled, openFds, replaced>>

StartListening(port, steps) ==
    /\ server = "up" /\ calls < MaxCalls
    /\ IF epollFd = -1 \/ eventFd = -1 \/ port # Port16(port) THEN Refuse ELSE Listen(steps)

(* startListeningUnix() does not ask whether the constructor succeeded: it   *)
(* fails where the epoll is needed.                                          *)
StartListeningUnix(steps) ==
    /\ server = "up" /\ calls < MaxCalls
    /\ epollFd = -1 => steps < SystemCalls
    /\ Listen(steps)

StopListening_keepsNumber ==
    /\ server = "up"
    /\ openFds' = openFds \ {listenSock} /\ polled' = polled \ {listenSock}
    /\ UNCHANGED <<server, epollFd, eventFd, listenSock, calls, accepting, replaced>>

(* shutdown(): the listening socket is closed.  Closing takes a descriptor   *)
(* out of the epoll.                                                         *)
StopListening ==
    /\ server = "up"
    /\ openFds' = openFds \ {listenSock} /\ polled' = polled \ {listenSock}
    /\ listenSock' = -1 /\ accepting' = FALSE
    /\ UNCHANGED <<server, epollFd, eventFd, calls, replaced>>

(* The destructor, with the shutdown() it begins with.                       *)
DestroyServer ==
    /\ server = "up" /\ server' = "destroyed"
    /\ openFds' = openFds \ {listenSock, eventFd, epollFd}
    /\ listenSock' = -1 /\ polled' = {} /\ accepting' = FALSE
    /\ UNCHANGED <<epollFd, eventFd, calls, replaced>>

ListeningNext ==
    \/ \E steps \in 0..3 : Construct(steps)
    \/ \E port \in PortNumbers, steps \in 0..SystemCalls : StartListening(port, steps)
    \/ \E steps \in 0..SystemCalls : StartListeningUnix(steps)
    \/ StopListening
    \/ DestroyServer

ListeningSpec == ListeningInit /\ [][ListeningNext]_lsvars

-----------------------------------------------------------------------------
(* Whichever system calls fail, and in whatever order the server is told to  *)
(* listen and shut down: startListening() has returned true only when the    *)
(* epoll has an open socket that accept() uses; the epoll has no other that  *)
(* is closed; and the destructor leaves no descriptor open, but for sockets  *)
(* that were replaced while they listened.                                   *)
DescriptorsAreKept ==
    /\ accepting => listenSock \in openFds \cap polled
    /\ ({listenSock, epollFd, eventFd} \ {-1} \subseteq openFds \/ server = "destroyed")
    /\ polled \subseteq openFds
    /\ server = "destroyed" => openFds \subseteq replaced
=============================================================================
