----------------------- MODULE ConnectionTableProofs -----------------------
(* Proofs about ConnectionTable for any number of connections, descriptors   *)
(* and events of a batch, and whatever fails.                                *)
EXTENDS ConnectionTable, TLAPS, FiniteSetTheorems

-----------------------------------------------------------------------------
(* The invariant.                                                            *)

Table ==
    /\ connections = exists /\ polled = exists
    /\ \A c \in Conns : c \in exists <=> fd[c] # NoFd

(* Each connection has a descriptor of its own and the server has no others. *)
OneEach ==
    /\ \A c \in exists : owner[fd[c]] = "server"
    /\ \A f \in Fds : owner[f] = "server" => \E c \in exists : fd[c] = f
    /\ \A c, d \in exists : fd[c] = fd[d] => c = d

(* So it is until the server has closed somebody else's descriptor.          *)
Descriptors == ~foreign => OneEach

(* What is put off, and what is being done, is about connections that exist. *)
Events ==
    /\ \A e \in batch : e.who \in Conns => e.who \in exists \ doomed
    /\ \A d, e \in batch : d.who = e.who /\ e.who \in Conns => d = e
    /\ doomed \subseteq exists
    /\ victim # NoConn => victim \in exists
    /\ pc = "disconnecting" => victim \notin doomed

(* Where the server's thread has events, deletions or a callback on hand.    *)
Places ==
    /\ batch # {} => pc \in {"dispatch", "handler", "closeAgain"}
    /\ doomed # {} => pc \in {"lame", "dispatch", "handler", "closeAgain", "delete",
                              "disconnecting"}
    /\ victim # NoConn <=> pc \in {"handler", "disconnecting"}
    /\ pc = "closeAgain" => lost # NoFd

(* Once shutdown() has closed the listener, the thread deletes connections   *)
(* until there are none, and then does nothing more.                         *)
Stopped ==
    ~listening => /\ pc \in {"delete", "disconnecting", "idle"}
                  /\ IF pc = "idle" THEN exists = {} ELSE closing

IInv == TypeOK /\ Table /\ Descriptors /\ Events /\ Places /\ Stopped

-----------------------------------------------------------------------------
(* The actions.                                                              *)

(* The rest of the process, the peers and the clock.                         *)
LEMMA WorldStep ==
    ASSUME IInv,
           \/ \E c \in Conns, what \in {"data", "eof", "gone"} : PeerActs(c, what)
           \/ \E f \in Fds : OtherOpens(f) \/ OtherCloses(f)
           \/ ClientConnects \/ Tick \/ Terminate \/ UNCHANGED vars
           \/ \E c \in Conns : CloseConnection(c)
    PROVE  IInv'
  <1>1. ASSUME NEW c \in Conns, NEW what \in {"data", "eof", "gone"}, PeerActs(c, what)
        PROVE  IInv'
    BY <1>1 DEF PeerActs, flags, work, table, process, IInv, TypeOK, Table, Descriptors, OneEach,
                Events, Places, Stopped
  <1>2. ASSUME NEW f \in Fds, OtherOpens(f) \/ OtherCloses(f)
        PROVE  IInv'
    <2>1. /\ owner[f] # "server" /\ owner' \in [Fds -> {"free", "server", "other"}]
          /\ owner'[f] # "server" /\ \A g \in Fds \ {f} : owner'[g] = owner[g]
      BY <1>2 DEF OtherOpens, OtherCloses, NextFd, IInv, TypeOK
    <2>2. UNCHANGED <<pc, flags, work, table, peers, throws, foreign>>
      BY <1>2 DEF OtherOpens, OtherCloses
    <2>3. TypeOK' /\ Table' /\ Events' /\ Places' /\ Stopped'
      BY <2>1, <2>2 DEF flags, work, table, peers, IInv, TypeOK, Table, Events, Places, Stopped
    <2>4. Descriptors'
      BY <2>1, <2>2 DEF flags, work, table, peers, IInv, TypeOK, Table, Descriptors, OneEach
    <2> QED BY <2>3, <2>4 DEF IInv
  <1>3. CASE ClientConnects \/ Terminate
    <2>1. /\ UNCHANGED <<pc, closing, listening, work, table, process, heard, shut, sock>>
          /\ terminate' \in BOOLEAN /\ backlog' \in BOOLEAN
      BY <1>3 DEF ClientConnects, Terminate, flags, peers, IInv, TypeOK
    <2>2. TypeOK'
      BY <2>1 DEF work, table, process, IInv, TypeOK
    <2>3. Table' /\ Events' /\ Places' /\ Stopped'
      BY <2>1 DEF work, table, process, IInv, Table, Events, Places, Stopped
    <2>4. Descriptors'
      BY <2>1 DEF work, table, process, IInv, Descriptors, OneEach
    <2> QED BY <2>2, <2>3, <2>4 DEF IInv
  <1>4. CASE Tick
    <2>1. /\ age' \in [Conns -> 0..Timeout]
          /\ UNCHANGED <<pc, flags, work, exists, connections, polled, fd, peers, process>>
      BY <1>4, LimitsAreNaturals DEF Tick, IInv, TypeOK
    <2> QED BY <2>1 DEF flags, work, peers, process, IInv, TypeOK, Table, Descriptors, OneEach,
                        Events, Places, Stopped
  <1>5. ASSUME NEW c \in Conns, CloseConnection(c)
        PROVE  IInv'
    BY <1>5 DEF CloseConnection, flags, work, table, process, IInv, TypeOK, Table,
                Descriptors, OneEach, Events, Places, Stopped
  <1>6. CASE UNCHANGED vars
    BY <1>6 DEF vars, flags, work, table, peers, process, IInv, TypeOK, Table, Descriptors, OneEach,
                Events, Places, Stopped
  <1> QED BY <1>1, <1>2, <1>3, <1>4, <1>5, <1>6

(* loop(), poll() and the turns of the loop that touch nothing but pc.       *)
LEMMA TurnStep ==
    ASSUME IInv,
           \/ EnterLoop \/ EnterPoll \/ Iterate \/ ReturnContinue \/ BeginClosing
           \/ LameDone \/ EpollTimeout \/ DispatchDone \/ DeleteDone
           \/ CloseListener \/ ShutdownDone
    PROVE  IInv'
  <1>1. CASE EnterLoop \/ EnterPoll \/ Iterate \/ ReturnContinue
    BY <1>1 DEF EnterLoop, EnterPoll, Iterate, ReturnContinue, Goto, OnlyPc, flags, work,
                table, peers, process, IInv, TypeOK, Table, Descriptors, OneEach, Events, Places,
                Stopped
  <1>2. CASE LameDone \/ EpollTimeout \/ DispatchDone \/ DeleteDone
    <2>1. UNCHANGED <<flags, work, table, peers, process>>
      BY <1>2 DEF LameDone, EpollTimeout, DispatchDone, DeleteDone, OnlyPc
    <2>2. TypeOK' /\ Places' /\ Stopped'
      BY <1>2, <2>1 DEF LameDone, EpollTimeout, DispatchDone, DeleteDone, Goto, flags, work,
                        table, peers, process, IInv, TypeOK, Places, Stopped
    <2>3. Table' /\ Events'
      BY <1>2, <2>1 DEF LameDone, EpollTimeout, DispatchDone, DeleteDone, Goto, work, table,
                        IInv, Table, Events
    <2>4. Descriptors'
      BY <2>1 DEF table, process, IInv, Descriptors, OneEach
    <2> QED BY <2>2, <2>3, <2>4 DEF IInv
  <1>3. CASE BeginClosing \/ CloseListener
    <2>1. UNCHANGED <<terminate, work, table, peers, process>>
      BY <1>3 DEF BeginClosing, CloseListener
    <2>2. TypeOK' /\ Places' /\ Stopped'
      BY <1>3, <2>1 DEF BeginClosing, CloseListener, Goto, work, table, peers, process, IInv,
                        TypeOK, Places, Stopped
    <2>3. Table' /\ Events'
      BY <1>3, <2>1 DEF BeginClosing, CloseListener, Goto, work, table, IInv, Table, Events
    <2>4. Descriptors'
      BY <2>1 DEF table, process, IInv, Descriptors, OneEach
    <2> QED BY <2>2, <2>3, <2>4 DEF IInv
  <1>4. CASE ShutdownDone
    BY <1>4 DEF ShutdownDone, Goto, OnlyPc, flags, work, table, peers, process, IInv, TypeOK,
                Table, Descriptors, OneEach, Events, Places, Stopped
  <1> QED BY <1>1, <1>2, <1>3, <1>4

(* finalise() gives back the one descriptor of a connection that exists, and *)
(* takes the connection out of the table and of the epoll set.               *)
LEMMA FinaliseEnds ==
    ASSUME TypeOK, Table, Descriptors, NEW c \in exists, Finalise(c)
    PROVE  /\ Table' /\ Descriptors' /\ exists' = exists \ {c}
           /\ exists' \subseteq Conns /\ heard' \subseteq exists' /\ shut' \subseteq exists'
           /\ connections' \subseteq Conns /\ polled' \subseteq Conns
           /\ fd' \in [Conns -> Fds \cup {NoFd}] /\ age' \in [Conns -> 0..Timeout]
           /\ sock' \in [Conns -> {"quiet", "data", "eof", "gone"}]
           /\ owner' \in [Fds -> {"free", "server", "other"}]
           /\ UNCHANGED <<backlog, throws, foreign>>
  <1>1. /\ exists' = exists \ {c} /\ polled' = polled \ {c}
        /\ connections' = connections \ {c}
        /\ owner' = [owner EXCEPT ![fd[c]] = "free"]
        /\ fd' = [fd EXCEPT ![c] = NoFd] /\ age' = [age EXCEPT ![c] = 0]
        /\ heard' = heard \ {c} /\ shut' = shut \ {c}
        /\ sock' = [sock EXCEPT ![c] = "quiet"]
        /\ UNCHANGED <<backlog, throws, foreign>>
    BY DEF Finalise, Deleted
  <1>2. /\ c \in Conns /\ fd[c] \in Fds /\ Timeout \in Nat
    BY LimitsAreNaturals DEF TypeOK, Table
  <1>3. Table'
    BY <1>1, <1>2 DEF TypeOK, Table
  <1>4. Descriptors'
    <2> SUFFICES ASSUME OneEach PROVE OneEach'
      BY <1>1 DEF Descriptors
    <2>1. \A d \in exists' : fd'[d] = fd[d] /\ fd[d] \in Fds /\ fd[d] # fd[c]
      BY <1>1, <1>2 DEF TypeOK, Table, OneEach
    <2>2. \A f \in Fds : owner'[f] = IF f = fd[c] THEN "free" ELSE owner[f]
      BY <1>1, <1>2 DEF TypeOK
    <2> QED BY <1>1, <2>1, <2>2 DEF OneEach
  <1> QED BY <1>1, <1>2, <1>3, <1>4 DEF TypeOK

(* The lame check.                                                           *)
LEMMA LameStep ==
    ASSUME IInv, CheckLame \/ \E c \in Conns : KillLame(c)
    PROVE  IInv'
  <1>1. CASE CheckLame
    BY <1>1 DEF CheckLame, Goto, flags, table, peers, process, IInv, TypeOK, Table,
                Descriptors, OneEach, Events, Places, Stopped
  <1>2. ASSUME NEW c \in Conns, KillLame(c) PROVE IInv'
    <2>1. c \in exists /\ pc = "lame" /\ c \in doomed
      BY <1>2 DEF KillLame, IInv, Events
    <2>2. /\ doomed' = doomed \ {c} /\ Finalise(c)
          /\ UNCHANGED <<pc, flags, batch, victim, lost>>
      BY <1>2 DEF KillLame
    <2>3. TypeOK' /\ Table' /\ Descriptors' /\ exists' = exists \ {c}
      BY <2>1, <2>2, FinaliseEnds DEF IInv, TypeOK, flags
    <2>4. Events' /\ Places' /\ Stopped'
      BY <2>1, <2>2, <2>3 DEF IInv, flags, Events, Places, Stopped
    <2> QED BY <2>3, <2>4 DEF IInv
  <1> QED BY <1>1, <1>2

(* epoll_wait reports each connection once, and only those in the table.     *)
LEMMA EpollWaitStep ==
    ASSUME IInv, EpollWait
    PROVE  IInv'
  <1>1. /\ pc = "wait" /\ pc' = "dispatch" /\ batch' \subseteq Ready \cup [who : {"fault"}]
        /\ UNCHANGED <<flags, doomed, victim, lost, table, peers, process>>
    BY DEF EpollWait, Goto
  <1>2. doomed = {} /\ victim = NoConn
    BY <1>1 DEF IInv, Places
  <1>3. \A e \in batch' :
           \/ \E c \in polled : e = [who |-> c, hup |-> HangsUp(c)]
           \/ \E w \in {"listener", "fault"} : e = [who |-> w]
    BY <1>1 DEF Ready
  <1>4. \A c \in polled : HangsUp(c) \in BOOLEAN
    BY DEF HangsUp
  <1>5. batch' \subseteq Event
    BY <1>3, <1>4 DEF Event, IInv, TypeOK
  <1>6. Events'
    <2>1. \A e \in batch' : e.who \in Conns =>
             e.who \in polled /\ e = [who |-> e.who, hup |-> HangsUp(e.who)]
      BY <1>3, ConnsAreNotNames
    <2> QED BY <1>1, <1>2, <2>1 DEF IInv, Table, Events, flags, table
  <1>7. TypeOK' /\ Table' /\ Descriptors' /\ Places' /\ Stopped'
    BY <1>1, <1>2, <1>5 DEF flags, table, peers, process, IInv, TypeOK, Table, Descriptors, OneEach,
                            Places, Stopped
  <1> QED BY <1>6, <1>7 DEF IInv

(* handleAccept() gives the new connection a descriptor nobody has.  When    *)
(* epoll_ctl fails the descriptor is closed twice, and it is only when       *)
(* somebody took it in between that the server's own accounts suffer.        *)
LEMMA AcceptStep ==
    ASSUME IInv,
           \/ AcceptNothing \/ CloseAgain
           \/ \E c \in Conns, f \in Fds : Accept(c, f) \/ AcceptUnpolled(c, f)
    PROVE  IInv'
  <1>1. CASE AcceptNothing
    BY <1>1 DEF AcceptNothing, Take, flags, table, process, IInv, TypeOK, Table, Descriptors,
                OneEach, Events, Places, Stopped
  <1>2. ASSUME NEW c \in Conns, NEW f \in Fds, Accept(c, f) PROVE IInv'
    <2>1. /\ pc = "dispatch" /\ batch' \subseteq batch /\ batch # {}
          /\ c \notin exists /\ owner[f] = "free"
          /\ exists' = exists \cup {c} /\ polled' = polled \cup {c}
          /\ connections' = connections \cup {c}
          /\ fd' = [fd EXCEPT ![c] = f] /\ owner' = [owner EXCEPT ![f] = "server"]
          /\ backlog' = FALSE
          /\ UNCHANGED <<pc, flags, doomed, victim, lost, age, heard, shut, sock, throws,
                         foreign>>
      BY <1>2 DEF Accept, Take, NextFd
    <2>2. f # NoFd
      BY DEF Fds, NoFd
    <2>3. TypeOK' /\ Table'
      BY <2>1, <2>2 DEF flags, IInv, TypeOK, Table
    <2>4. Descriptors'
      <3> SUFFICES ASSUME OneEach PROVE OneEach'
        BY <2>1 DEF IInv, Descriptors
      <3>1. \A d \in exists : fd'[d] = fd[d] /\ fd[d] \in Fds
        BY <2>1 DEF IInv, TypeOK, Table
      <3>2. \A g \in Fds : owner'[g] = IF g = f THEN "server" ELSE owner[g]
        BY <2>1 DEF IInv, TypeOK
      <3>3. fd'[c] = f /\ \A d \in exists : fd[d] # f
        BY <2>1 DEF IInv, TypeOK, OneEach
      <3> QED BY <2>1, <3>1, <3>2, <3>3 DEF OneEach
    <2>5. Events' /\ Places' /\ Stopped'
      BY <2>1 DEF flags, IInv, Events, Places, Stopped
    <2> QED BY <2>3, <2>4, <2>5 DEF IInv
  <1>3. ASSUME NEW c \in Conns, NEW f \in Fds, AcceptUnpolled(c, f) PROVE IInv'
    <2>1. f # NoFd
      BY DEF Fds, NoFd
    <2> QED BY <1>3, <2>1 DEF AcceptUnpolled, Take, flags, table, process, IInv, TypeOK,
                  Table, Descriptors, OneEach, Events, Places, Stopped
  <1>4. CASE CloseAgain
    <2>1. /\ pc = "closeAgain" /\ pc' = "dispatch" /\ lost \in Fds /\ lost' = NoFd
          /\ foreign' = (foreign \/ owner[lost] # "free")
          /\ owner' = [owner EXCEPT ![lost] = "free"]
          /\ UNCHANGED <<flags, batch, doomed, victim, table, peers, throws>>
      BY <1>4 DEF CloseAgain, Goto, IInv, TypeOK, Places
    <2>2. TypeOK' /\ Table' /\ Events' /\ Places' /\ Stopped'
      BY <2>1 DEF flags, table, peers, IInv, TypeOK, Table, Events, Places, Stopped
    <2>3. ~foreign' => owner' = owner
      BY <2>1 DEF IInv, TypeOK
    <2>4. Descriptors'
      BY <2>1, <2>3 DEF table, IInv, Descriptors, OneEach
    <2> QED BY <2>2, <2>4 DEF IInv
  <1> QED BY <1>1, <1>2, <1>3, <1>4

(* The events of a batch.                                                    *)
LEMMA DispatchStep ==
    ASSUME IInv,
           \/ DispatchFault \/ HandlerReturns \/ CallbackThrows
           \/ \E c \in Conns : Dispatch(c)
    PROVE  IInv'
  <1>1. CASE DispatchFault
    BY <1>1 DEF DispatchFault, flags, table, peers, process, IInv, TypeOK, Table,
                Descriptors, OneEach, Events, Places, Stopped
  <1>2. CASE HandlerReturns
    BY <1>2 DEF HandlerReturns, Goto, flags, table, peers, process, IInv, TypeOK, Table,
                Descriptors, OneEach, Events, Places, Stopped
  <1>3. CASE CallbackThrows
    <2>1. throws' \in 0..MaxThrows
      BY <1>3, LimitsAreNaturals DEF CallbackThrows, IInv, TypeOK
    <2> QED BY <1>3, <2>1 DEF CallbackThrows, flags, table, peers, IInv, TypeOK, Table,
                  Descriptors, OneEach, Events, Places, Stopped
  <1>4. ASSUME NEW c \in Conns, DispatchHangUp(c) PROVE IInv'
    <2> DEFINE e == [who |-> c, hup |-> TRUE]
    <2>1. /\ pc = "dispatch" /\ e \in batch /\ batch' = batch \ {e} /\ e.who = c
          /\ doomed' = doomed \cup {c}
          /\ UNCHANGED <<pc, flags, victim, lost, table, peers, process>>
      BY <1>4 DEF DispatchHangUp, Take
    <2> HIDE DEF e
    <2>2. c \in exists /\ \A d \in batch' : d.who # c
      BY <2>1 DEF IInv, Events
    <2>3. Events'
      BY <2>1, <2>2 DEF table, IInv, Events, Places
    <2>4. TypeOK' /\ Table' /\ Descriptors' /\ Places' /\ Stopped'
      BY <2>1, <2>2 DEF flags, table, peers, process, IInv, TypeOK, Table, Descriptors,
                        OneEach, Places, Stopped
    <2> QED BY <2>3, <2>4 DEF IInv
  <1>5. ASSUME NEW c \in Conns, DispatchInput(c) PROVE IInv'
    <2> DEFINE e == [who |-> c, hup |-> FALSE]
    <2>1. pc = "dispatch" /\ e \in batch /\ batch' = batch \ {e} /\ e.who = c
      BY <1>5 DEF DispatchInput, Take
    <2> HIDE DEF e
    <2>2. /\ UNCHANGED <<flags, doomed, lost, exists, connections, polled, fd, backlog,
                         process>>
          /\ \/ UNCHANGED <<pc, victim, age, heard, shut, sock>>
             \/ shut' = shut \cup {c} /\ UNCHANGED <<pc, victim, age, heard, sock>>
             \/ /\ heard' = heard \cup {c} /\ sock' = [sock EXCEPT ![c] = "quiet"]
                /\ age' = [age EXCEPT ![c] = 0]
                /\ pc' = "handler" /\ victim' = c /\ UNCHANGED shut
      BY <1>5 DEF DispatchInput
    <2>3. c \in exists /\ c # NoConn /\ 0 \in 0..Timeout
      BY <2>1, ConnsAreNotNames, LimitsAreNaturals DEF IInv, Events, NoConn
    <2>4. TypeOK'
      BY <2>1, <2>2, <2>3 DEF flags, process, IInv, TypeOK
    <2>5. Table' /\ Descriptors' /\ Stopped'
      BY <2>1, <2>2 DEF flags, process, IInv, Table, Descriptors, OneEach, Stopped
    <2>6. Events' /\ Places'
      BY <2>1, <2>2, <2>3 DEF IInv, Events, Places
    <2> QED BY <2>4, <2>5, <2>6 DEF IInv
  <1> QED BY <1>1, <1>2, <1>3, <1>4, <1>5 DEF Dispatch

(* Deletion, at the end of a batch and by shutdown().                        *)
LEMMA DeleteStep ==
    ASSUME IInv, EndDelete \/ \E c \in Conns : BeginDelete(c)
    PROVE  IInv'
  <1>1. ASSUME NEW c \in Conns, BeginDelete(c) PROVE IInv'
    <2>1. /\ pc = "delete" /\ pc' = "disconnecting" /\ victim' = c
          /\ doomed' = doomed \ {c} /\ c \in connections \cup doomed
          /\ UNCHANGED <<flags, batch, lost, table, peers, process>>
      BY <1>1 DEF BeginDelete, Goto
    <2>2. c \in exists /\ c # NoConn
      BY <2>1, ConnsAreNotNames DEF IInv, Table, Events, NoConn
    <2> QED BY <2>1, <2>2 DEF flags, table, peers, process, IInv, TypeOK, Table, Descriptors,
                  OneEach, Events, Places, Stopped
  <1>2. CASE EndDelete
    <2>1. /\ pc = "disconnecting" /\ pc' = "delete" /\ victim' = NoConn /\ Finalise(victim)
          /\ UNCHANGED <<flags, batch, doomed, lost>>
      BY <1>2 DEF EndDelete, Goto
    <2>2. victim \in exists /\ victim \notin doomed /\ batch = {}
      BY <2>1 DEF IInv, Events, Places
    <2>3. TypeOK' /\ Table' /\ Descriptors' /\ exists' = exists \ {victim}
      BY <2>1, <2>2, FinaliseEnds DEF IInv, TypeOK, flags
    <2>4. Events' /\ Places' /\ Stopped'
      BY <2>1, <2>2, <2>3 DEF flags, IInv, Events, Places, Stopped
    <2> QED BY <2>3, <2>4 DEF IInv
  <1> QED BY <1>1, <1>2

-----------------------------------------------------------------------------
(* The theorems.                                                             *)

(* The invariant holds of every state the server reaches.                    *)
THEOREM Inductive == Spec => []IInv
  <1>1. ASSUME Init PROVE IInv
    <2>1. 0 \in 0..Timeout /\ 0 \in 0..MaxThrows
      BY LimitsAreNaturals
    <2>2. TypeOK
      BY <1>1, <2>1 DEF Init, TypeOK
    <2>3. Table /\ Descriptors
      BY <1>1 DEF Init, Table, Descriptors, OneEach
    <2>4. Events /\ Places /\ Stopped
      BY <1>1 DEF Init, Events, Places, Stopped
    <2> QED BY <2>2, <2>3, <2>4 DEF IInv
  <1>2. ASSUME IInv, [Next]_vars PROVE IInv'
    BY <1>2, WorldStep, TurnStep, LameStep, EpollWaitStep, AcceptStep, DispatchStep,
       DeleteStep DEF Next, Serve
  <1> QED BY <1>1, <1>2, PTL DEF Spec

(* The table of connections, the epoll set, the objects and the descriptors  *)
(* of the server stay one and the same, whatever is accepted, closed, reset, *)
(* thrown or refused; the descriptors until handleAccept() has closed one    *)
(* that was not its own.                                                     *)
THEOREM TableStaysInOrder == Spec => []TableInOrder
  <1>1. IInv => TableInOrder
    <2> SUFFICES ASSUME IInv PROVE TableInOrder
      OBVIOUS
    <2>1. ASSUME ~foreign
          PROVE  /\ {f \in Fds : owner[f] = "server"} = {fd[c] : c \in exists}
                 /\ Cardinality({fd[c] : c \in exists}) = Cardinality(exists)
      <3> DEFINE T == {fd[c] : c \in exists}
                 g == [c \in exists |-> fd[c]]
      <3>1. OneEach /\ \A c \in exists : c \in Conns /\ fd[c] \in Fds
        BY <2>1 DEF IInv, TypeOK, Table, Descriptors
      <3>2. {f \in Fds : owner[f] = "server"} = T
        BY <3>1 DEF OneEach
      <3>3. IsFiniteSet(T)
        <4>1. IsFiniteSet(Fds)
          BY FS_Interval, LimitsAreNaturals DEF Fds
        <4>2. T \in SUBSET Fds
          BY <3>1
        <4> QED BY <4>1, <4>2, FS_Subset
      <3>4. g \in Injection(exists, T) /\ g \in Surjection(exists, T)
        BY <3>1 DEF OneEach, Injection, Surjection, IsInjective
      <3>5. Cardinality(exists) = Cardinality(T)
        BY <3>3, <3>4, FS_Injection
      <3> QED BY <3>2, <3>5
    <2> QED BY <2>1 DEF IInv, Table, TableInOrder, TableIsEpollSet
  <1> QED BY <1>1, Inductive, PTL

(* No event that is still to be dispatched, no deletion that was put off and *)
(* no callback that is running is of a connection that has been deleted, and *)
(* onDisconnect() runs only when the batch is done.                          *)
THEOREM BatchStaysSafe == Spec => []BatchIsSafe
  <1>1. IInv => BatchIsSafe
    <2> SUFFICES ASSUME IInv PROVE BatchIsSafe
      OBVIOUS
    <2>1. ASSUME NEW e \in batch, e.who \in Conns
          PROVE  /\ e.who \in exists \ doomed
                 /\ Cardinality({d \in batch : d.who = e.who}) = 1
      <3>1. {d \in batch : d.who = e.who} = {e}
        BY <2>1 DEF IInv, Events
      <3>2. Cardinality({e}) = 1
        BY FS_Singleton
      <3> QED BY <2>1, <3>1, <3>2, Zenon DEF IInv, Events
    <2>2. EventsAreLive
      BY <2>1 DEF IInv, Events, EventsAreLive
    <2>3. DisconnectAfterBatch
      BY DEF IInv, Places, DisconnectAfterBatch
    <2> QED BY <2>2, <2>3 DEF BatchIsSafe
  <1> QED BY <1>1, Inductive, PTL

(* When loop() or poll() returns after shutdown() there is no connection and *)
(* no descriptor of one left, however the deletions interleave with what the *)
(* application closes meanwhile.                                             *)
THEOREM ShutdownIsComplete == Spec => []ShutdownLeavesNothing
  <1>1. IInv => ShutdownLeavesNothing
    BY DEF IInv, Stopped, Descriptors, OneEach, ShutdownLeavesNothing
  <1> QED BY <1>1, Inductive, PTL
=============================================================================
