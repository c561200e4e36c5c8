------------------------------- MODULE Epoll -------------------------------
(* epoll on Windows (win32/wepoll.c): threads that call epoll_ctl() and      *)
(* epoll_wait() on ports that other threads close, on top of HandleTree,     *)
(* with the port of EpollPort in place of HandleTree's step Work.            *)
(* A critical section of the lock of a port is one step.  epoll_wait() has   *)
(* two.  Between them it reads iocp_handle without the lock and then enters  *)
(* GetQueuedCompletionStatusEx() with what it has read, while other threads  *)
(* change or close the port; and what it has taken there is in its hands and *)
(* in no queue.                                                              *)
(* What the code does when completions of one port are fed to another, or    *)
(* the driver writes to an object that has been freed, is not modelled:      *)
(* undefined says that it has come to that, and nothing happens any more.    *)
(* The AFD driver completes a poll operation when the socket is ready for    *)
(* one of its events or is closed, and says that it failed if it likes.      *)
(* Names ..._<what is wrong> are slips that the checks must notice; no action *)
(* uses them.                                                                *)
EXTENDS HandleTree, EpollPort

CONSTANTS
    Interests,      \* the interest masks the program passes to epoll_ctl()
    Conditions,     \* what its sockets may become ready for
    MaxEvents,      \* maxevents of its calls of epoll_wait()
    MaxFaults       \* bound: system calls that fail

ASSUME InterestsAssumption == Interests \subseteq SUBSET (Known \cup {"ONESHOT"})
ASSUME ConditionsAssumption == Conditions \subseteq DOMAIN Meaning
ASSUME EpollBoundsAssumption == MaxEvents \in Nat \ {0} /\ MaxFaults \in Nat

VARIABLES
    port,           \* the contents of each port
    at,             \* where in port_ctl() and port_wait() a thread is
    timed,          \* whether it waits with a time-out
    waits,          \* the handle it has read, or the port on whose completion
                    \* port it sleeps; None if that has been closed
    taken,          \* completions it has taken and not fed
    told,           \* sockets it reports
    ready,          \* what each socket is ready for
    closed,         \* SOCKETs that are closed
    faults,         \* system calls that failed so far
    stray,          \* for each port, the freed objects the driver still polls for
    undefined

wvars == <<at, timed, waits, taken, told>>
world == <<ready, closed, faults, stray, undefined>>
vars == <<hvars, port, wvars, world>>

Init ==
    /\ HInit
    /\ port = [p \in Ports |-> NewPort]
    /\ at = [t \in Threads |-> "out"]
    /\ timed = [t \in Threads |-> FALSE] /\ waits = [t \in Threads |-> None]
    /\ taken = [t \in Threads |-> <<>>]
    /\ told = [t \in Threads |-> {}]
    /\ ready = [s \in Sockets |-> {}] /\ closed = {} /\ faults = 0
    /\ stray = [p \in Ports |-> {}] /\ undefined = FALSE

-----------------------------------------------------------------------------
(* port__update_events(): all of the queue, or up to a call that fails.      *)
UpdateEvents(ps) ==
    {[port |-> UpdateFirst(ps, n, closed), ok |-> n = Len(ps.updates)] :
        n \in {m \in 0..Len(ps.updates) :
                  m < Len(ps.updates) => faults < MaxFaults /\ MayFail(ps, ps.updates[m + 1])}}

UpdateEventsIfPolling(ps) ==
    IF ps.polling > 0 THEN UpdateEvents(ps) ELSE {[port |-> ps, ok |-> TRUE]}

Here(t) == port[on[t]]
Put(t, u) == port' = [port EXCEPT ![on[t]] = u.port]
Count(u) == faults' = faults + IF u.ok THEN 0 ELSE 1

(* The end of port_ctl() and port_wait().                                    *)
Leave(t) ==
    /\ Work(t)
    /\ at' = [at EXCEPT ![t] = "out"] /\ timed' = [timed EXCEPT ![t] = FALSE]
    /\ waits' = [waits EXCEPT ![t] = None] /\ taken' = [taken EXCEPT ![t] = <<>>]
    /\ UNCHANGED <<ready, closed, stray, undefined>>

(* port__poll() up to where it drops the lock, and what port_wait() does     *)
(* when it comes back with an error instead.                                 *)
PortPoll(t, ps, limited) ==
    \E u \in UpdateEvents(ps) :
        \/ /\ u.ok
           /\ port' = [port EXCEPT ![on[t]] = [u.port EXCEPT !.polling = @ + 1]]
           /\ at' = [at EXCEPT ![t] = "released"] /\ timed' = [timed EXCEPT ![t] = limited]
           /\ waits' = [waits EXCEPT ![t] = None] /\ taken' = [taken EXCEPT ![t] = <<>>]
           /\ UNCHANGED <<hvars, told, world>>
        \/ /\ ~u.ok
           /\ \E v \in UpdateEventsIfPolling(u.port) : Put(t, v)
           /\ faults' = faults + 1
           /\ Leave(t) /\ UNCHANGED told

-----------------------------------------------------------------------------
(* epoll_create(), and the way into the others                               *)
EpollCreate(t) ==
    /\ \E p \in Ports, h \in Handles : PortNew(t, p, h)
    /\ UNCHANGED <<port, wvars, world>>

EpollFindPort(t) ==
    /\ \E h \in Handles : TsTreeFindAndRef(t, h)
    /\ at' = [at EXCEPT ![t] = "entered"]
    /\ UNCHANGED <<port, timed, waits, taken, told, world>>

(* port__ctl_add(): what is no socket is refused, and so is one that the     *)
(* port has.                                                                 *)
PortCtlAdd(t, s, events) ==
    /\ at[t] = "entered"
    /\ IF s \in closed THEN UNCHANGED <<port, faults>>
       ELSE IF ~CanAdd(Here(t), s)
       THEN Put(t, [port |-> SockNew(Here(t), s)]) /\ UNCHANGED faults
       ELSE \E u \in UpdateEventsIfPolling(
                SockSetEvent(SockNew(Here(t), s), ObjFor(Here(t)), events)) :
                Put(t, u) /\ Count(u)
    /\ Leave(t) /\ UNCHANGED told

PortCtlMod(t, s, events) ==
    /\ at[t] = "entered"
    /\ IF Here(t).tree[s] = Nothing THEN UNCHANGED <<port, faults>>
       ELSE \E u \in UpdateEventsIfPolling(SockSetEvent(Here(t), Here(t).tree[s], events)) :
                Put(t, u) /\ Count(u)
    /\ Leave(t) /\ UNCHANGED told

(* Whether cancelling fails in sock__delete(), which does not look.          *)
CancelOutcomes(ps, o) ==
    {fails \in BOOLEAN :
        fails => faults < MaxFaults /\ ~ps.obj[o].deleted /\ CancelMayFail(ps, o)}

PortCtlDel(t, s) ==
    /\ at[t] = "entered"
    /\ IF Here(t).tree[s] = Nothing THEN UNCHANGED <<port, faults>>
       ELSE \E fails \in CancelOutcomes(Here(t), Here(t).tree[s]) :
               LET u == [port |-> SockDelete(Here(t), Here(t).tree[s], FALSE, fails), ok |-> ~fails]
               IN  Put(t, u) /\ Count(u)
    /\ Leave(t) /\ UNCHANGED told

(* port_wait(), with a time-out or without                                   *)
PortWait(t, limited) == at[t] = "entered" /\ PortPoll(t, Here(t), limited)

(* GetQueuedCompletionStatusEx(): its argument is read from the port without *)
(* the lock, ...                                                             *)
LoadHandle(t) ==
    /\ at[t] = "released"
    /\ at' = [at EXCEPT ![t] = "calling"] /\ waits' = [waits EXCEPT ![t] = iocp[on[t]]]
    /\ UNCHANGED <<hvars, port, timed, taken, told, world>>

(* ... and the kernel takes it for whatever completion port has it now.      *)
EnterWait(t) ==
    /\ at[t] = "calling" /\ waits[t] # None
    /\ \E q \in Ports :
          /\ iocp[q] = waits[t]
          /\ waits' = [waits EXCEPT ![t] = q]
    /\ at' = [at EXCEPT ![t] = "asleep"]
    /\ UNCHANGED <<hvars, port, timed, taken, told, world>>

(* It takes what there is, up to maxevents, ...                              *)
TakeCompletions(t) ==
    /\ at[t] = "asleep" /\ waits[t] = on[t] /\ Here(t).done # <<>>
    /\ LET n == IF Len(Here(t).done) < MaxEvents THEN Len(Here(t).done) ELSE MaxEvents
       IN  /\ taken' = [taken EXCEPT ![t] = SubSeq(Here(t).done, 1, n)]
           /\ port' = [port EXCEPT ![on[t]].done = SubSeq(@, n + 1, Len(@))]
    /\ at' = [at EXCEPT ![t] = "woken"] /\ waits' = [waits EXCEPT ![t] = None]
    /\ UNCHANGED <<hvars, timed, told, world>>

(* ... be it what is meant for another port, ...                             *)
Astray(t) == at[t] = "asleep" /\ waits[t] # None /\ waits[t] # on[t]

TakeAnothers(t) ==
    /\ Astray(t) /\ port[waits[t]].done # <<>>
    /\ undefined' = TRUE
    /\ UNCHANGED <<hvars, port, wvars, ready, closed, faults, stray>>

(* ... or it fails: there is no completion port of that handle, or no more,  *)
(* or its time is over.                                                      *)
WaitFails(t) ==
    /\ \/ at[t] = "calling" /\ (waits[t] = None \/ \A q \in Ports : iocp[q] # waits[t])
       \/ at[t] = "asleep" /\ (waits[t] = None \/ timed[t])
    /\ \E u \in UpdateEventsIfPolling([Here(t) EXCEPT !.polling = @ - 1]) : Put(t, u) /\ Count(u)
    /\ Leave(t) /\ UNCHANGED told

(* port__feed_events() and the rest of the loop of port_wait()               *)
FeedEvents(t) ==
    /\ at[t] = "woken"
    /\ LET r == FeedAll([Here(t) EXCEPT !.polling = @ - 1], taken[t])
       IN  \/ /\ r.told # {} \/ timed[t]
              /\ told' = [told EXCEPT ![t] = r.told]
              /\ \E u \in UpdateEventsIfPolling(r.port) : Put(t, u) /\ Count(u)
              /\ Leave(t)
           \/ /\ r.told = {}
              /\ PortPoll(t, r.port, timed[t])

EpollUnref(t) ==
    /\ ReflockUnref(t)
    /\ told' = [told EXCEPT ![t] = {}]
    /\ UNCHANGED <<port, at, timed, waits, taken, world>>

(* epoll_close()                                                             *)
EpollClose(t) ==
    /\ \E h \in Handles : TsTreeDelAndRef(t, h)
    /\ UNCHANGED <<port, wvars, world>>

(* port_close(): whoever sleeps on the completion port is told that it is    *)
(* closed.                                                                   *)
EpollPortClose(t) ==
    /\ PortClose(t)
    /\ waits' = [u \in Threads |->
                    IF at[u] = "asleep" /\ waits[u] = on[t] THEN None ELSE waits[u]]
    /\ UNCHANGED <<port, at, timed, taken, told, world>>

EpollCloseStep(t) ==
    /\ \/ TsTreeAdd(t) \/ ReflockUnrefAndDestroy(t) \/ ReflockPoison(t)
       \/ \E s \in Threads : KeyedEvent(t, s)
    /\ UNCHANGED <<port, wvars, world>>

(* One object of port_delete().  A poll operation that could not be          *)
(* cancelled, now or by an earlier epoll_ctl(), stays with the driver.       *)
EpollDeleteSocket(t) ==
    /\ pc[t] = "delete"
    /\ \E o \in NextToDelete(Here(t)) : \E fails \in CancelOutcomes(Here(t), o) :
          /\ Put(t, [port |-> SockForceDelete(Here(t), o, fails)])
          /\ Count([ok |-> ~fails])
          /\ stray' = [stray EXCEPT ![on[t]] =
                          @ \cup IF SockDelete(Here(t), o, TRUE, fails).poll[o].at = "kernel"
                                 THEN {o} ELSE {}]
    /\ UNCHANGED <<hvars, wvars, ready, closed, undefined>>

(* The rest of it: the poll groups, whose devices are closed, which ends     *)
(* what is still with the driver; and the port.                              *)
EpollDelete(t) ==
    /\ PortDelete(t) /\ NextToDelete(Here(t)) = {}
    /\ port' = [port EXCEPT ![on[t]] = NewPort]
    /\ undefined' = (stray[on[t]] # {}) /\ stray' = [stray EXCEPT ![on[t]] = {}]
    /\ UNCHANGED <<wvars, ready, closed, faults>>

-----------------------------------------------------------------------------
(* The sockets and the AFD driver                                            *)
Done(ps, o, res) ==
    [ps EXCEPT !.poll[o] = [at |-> "done", set |-> res], !.done = Append(@, o)]

PollCompletes(p, o) ==
    /\ port[p].poll[o].at = "kernel"
    /\ LET res == port[p].poll[o].set \cap ready[port[p].obj[o].sock]
       IN  res # {} /\ port' = [port EXCEPT ![p] = Done(@, o, res)]
    /\ UNCHANGED <<hvars, wvars, world>>

PollFails(p, o) ==
    /\ port[p].poll[o].at = "kernel" /\ faults < MaxFaults
    /\ \E res \in {{"FAILED"}, {}} : port' = [port EXCEPT ![p] = Done(@, o, res)]
    /\ faults' = faults + 1
    /\ UNCHANGED <<hvars, wvars, ready, closed, stray, undefined>>

SocketCondition(s) ==
    /\ s \notin closed
    /\ \E now \in SUBSET Conditions : ready' = [ready EXCEPT ![s] = now]
    /\ UNCHANGED <<hvars, port, wvars, closed, faults, stray, undefined>>

(* closesocket(): every poll operation on it completes.                      *)
CloseSocket(s) ==
    /\ s \notin closed /\ closed' = closed \cup {s} /\ ready' = [ready EXCEPT ![s] = {}]
    /\ port' = [p \in Ports |->
          LET hit == {o \in Objs : port[p].poll[o].at = "kernel" /\ port[p].obj[o].sock = s}
          IN  FoldLeft(LAMBDA ps, o : Done(ps, o, {"LOCAL_CLOSE"}), port[p], SetToSeq(hit))]
    /\ UNCHANGED <<hvars, wvars, faults, stray, undefined>>

(* socket() or accept() returns the same SOCKET again.                       *)
SocketAgain(s) ==
    /\ s \in closed /\ closed' = closed \ {s}
    /\ UNCHANGED <<hvars, port, wvars, ready, faults, stray, undefined>>

Calls(t) ==
    \/ EpollCreate(t) \/ EpollFindPort(t) \/ EpollClose(t)

Inside(t) ==
    \/ \E limited \in BOOLEAN : PortWait(t, limited)
    \/ \E s \in Sockets, events \in Interests : PortCtlAdd(t, s, events) \/ PortCtlMod(t, s, events)
    \/ \E s \in Sockets : PortCtlDel(t, s)

Steps(t) ==
    \/ LoadHandle(t) \/ EnterWait(t) \/ TakeCompletions(t) \/ TakeAnothers(t)
    \/ WaitFails(t) \/ FeedEvents(t) \/ EpollUnref(t)
    \/ EpollPortClose(t) \/ EpollCloseStep(t) \/ EpollDeleteSocket(t) \/ EpollDelete(t)

Next == ~undefined /\
    \/ \E t \in Threads : Calls(t) \/ Inside(t) \/ Steps(t)
    \/ \E p \in Ports, o \in Objs : PollCompletes(p, o) \/ PollFails(p, o)
    \/ \E s \in Sockets : SocketCondition(s) \/ CloseSocket(s) \/ SocketAgain(s)

Spec == Init /\ [][Next]_vars

(* A thread inside wepoll goes on, and the driver completes what is ready.   *)
(* What the program calls, and what its sockets do, is up to them.           *)
Fairness ==
    /\ \A t \in Threads : WF_vars(~undefined /\ (Inside(t) \/ Steps(t)))
    /\ \A p \in Ports, o \in Objs : WF_vars(~undefined /\ PollCompletes(p, o))

FairSpec == Spec /\ Fairness

-----------------------------------------------------------------------------
(* Types of a port and of the threads in it.                                 *)
TypeOK ==
    /\ HTypeOK
    /\ at \in [Threads -> {"out", "entered", "released", "calling", "asleep", "woken"}]
    /\ timed \in [Threads -> BOOLEAN] /\ waits \in [Threads -> Ports \cup Handles \cup {None}]
    /\ taken \in [Threads -> Seq(Objs)] /\ told \in [Threads -> SUBSET Sockets]
    /\ ready \in [Sockets -> SUBSET Conditions] /\ closed \subseteq Sockets
    /\ faults \in 0..MaxFaults /\ stray \in [Ports -> SUBSET Objs] /\ undefined \in BOOLEAN
    /\ \A t \in Threads : at[t] # "out" <=> pc[t] = "inside"
    /\ \A p \in Ports :
          /\ port[p].obj \in [Objs -> [sock : Sockets \cup {Nothing},
                 events : SUBSET (Known \cup {"ONESHOT"}),
                 pending : SUBSET (Known \cup {"ONESHOT"}),
                 status : {"IDLE", "PENDING", "CANCELLED"},
                 deleted : BOOLEAN, group : Groups \cup {Nothing}]]
          /\ port[p].tree \in [Sockets -> Objs \cup {Nothing}]
          /\ port[p].updates \in Seq(Objs) /\ port[p].deletedQ \subseteq Objs
          /\ port[p].polling = Cardinality({t \in Threads :
                 on[t] = p /\ at[t] \in {"released", "calling", "asleep", "woken"}})

InHands(p) == UNION {ToSet(taken[t]) : t \in {u \in Threads : on[u] = p}}

(* A completion is for an object that has not been freed, wherever it is:    *)
(* with the driver, in the completion port or in the hands of a thread; an   *)
(* object without one is not waited for.  Only port_delete() frees an object *)
(* that the driver still polls for, and only after a call to cancel that     *)
(* failed, although sock__delete() says: "If the poll request still needs to *)
(* complete, the sock_state object can't be free()d yet."                    *)
CompletionsHaveOwners == \A p \in Ports :
    /\ \A o \in Objs :
          /\ port[p].poll[o].at # "none" => o \in Live(port[p])
          /\ o \in ToSet(port[p].done) \cup InHands(p) <=> port[p].poll[o].at = "done"
          /\ o \in Live(port[p]) =>
                (port[p].poll[o].at = "none" <=> port[p].obj[o].status = "IDLE")
    /\ stray[p] # {} => faults > 0 /\ \E t \in Threads : pc[t] = "delete" /\ on[t] = p

(* Nothing a socket is watched for is forgotten: the poll operation in       *)
(* flight covers it, or the object is in the update queue, or a completion   *)
(* is coming that will put it there.                                         *)
NoLostInterest == \A p \in Ports : \A o \in Live(port[p]) :
    LET it == port[p].obj[o] IN
    ~it.deleted =>
        \/ it.events \cap Known \subseteq it.pending /\ it.status = "PENDING"
        \/ o \in ToSet(port[p].updates)
        \/ it.status = "CANCELLED"

(* While a thread sleeps in epoll_wait(), the update queue is empty when the *)
(* lock is free, so that what others change reaches the driver at once; and  *)
(* so the error of a time-out is not overwritten by the updates at the end   *)
(* of port_wait(), which tests GetLastError() after them.                    *)
SleepersAreUpdated == faults = 0 =>
    \A p \in Ports : port[p].polling > 0 => port[p].updates = <<>>

(* What a socket is watched for is never forgotten between port_ctl(), the   *)
(* update queue and the driver, and a thread that sleeps in port_wait() does *)
(* so with the driver told of all of it.                                     *)
InterestIsServed == NoLostInterest /\ SleepersAreUpdated

(* The socket tree and the queues hold objects that live, each as it should: *)
(* every SOCKET once, deleted ones in the deleted queue alone.               *)
TreeAndQueues == \A p \in Ports :
    /\ \A s \in Sockets : port[p].tree[s] # Nothing =>
          port[p].obj[port[p].tree[s]].sock = s /\ ~port[p].obj[port[p].tree[s]].deleted
    /\ \A o \in Live(port[p]) :
          IF port[p].obj[o].deleted THEN o \in port[p].deletedQ
          ELSE port[p].tree[port[p].obj[o].sock] = o
    /\ ToSet(port[p].updates) \cup port[p].deletedQ \subseteq Live(port[p])
    /\ ToSet(port[p].updates) \cap port[p].deletedQ = {}

(* A poll group counts the objects that use it and is never overfull, and    *)
(* groups with room come last in the queue, where poll_group_acquire() looks.*)
PollGroupsInOrder == \A p \in Ports :
    /\ \A g \in Groups :
          /\ port[p].size[g] = Cardinality({o \in Objs : port[p].obj[o].group = g})
          /\ port[p].size[g] <= MaxGroupSize
    /\ \A i \in 1..Len(port[p].groups) - 1 :
          port[p].size[port[p].groups[i + 1]] = MaxGroupSize =>
              port[p].size[port[p].groups[i]] = MaxGroupSize

(* What port_delete() leaves when its loops are over: the assertions there   *)
(* and in poll_group_delete(), and no object that nobody frees.              *)
PortDeletesClean == \A t \in Threads : pc[t] = "delete" =>
    LET ps == Here(t) IN
    NextToDelete(ps) = {} =>
        ps.updates = <<>> /\ Live(ps) = {} /\ \A g \in Groups : ps.size[g] = 0

(* The structure of a port whenever its lock is free, and while it is being  *)
(* deleted: tree, queues and poll groups agree with the objects that live,   *)
(* so that port_delete() leaves nothing behind.                              *)
PortInOrder == TypeOK /\ TreeAndQueues /\ PollGroupsInOrder /\ PortDeletesClean

(* epoll_close() returns, although others sleep in epoll_wait() on the port, *)
(* or are about to; unless one of them, who had read the handle before the   *)
(* port was closed, sleeps on the completion port that has it since.         *)
CloseReturns == \A t \in Threads :
    pc[t] = "close" ~>
        pc[t] = "idle" \/ undefined \/ \E u \in Threads : on[u] = on[t] /\ Astray(u)

(* A socket that stays ready for what it is watched for is reported again    *)
(* and again as long as threads come to sleep in epoll_wait(), without a     *)
(* time-out and on the completion port of their port.                        *)
Watched(p, s) ==
    /\ port[p].tree[s] # Nothing
    /\ LET events == port[p].obj[port[p].tree[s]].events
       IN  "ONESHOT" \notin events /\ events \cap AfdToEpoll(ready[s] \cap EpollToAfd(events)) # {}

ReadyIsReported == \A p \in Ports, s \in Sockets :
    (/\ <>[](Watched(p, s) /\ faults = 0)
     /\ []<>(\E t \in Threads : at[t] = "asleep" /\ ~timed[t] /\ on[t] = p /\ waits[t] = p))
        => []<>(\E t \in Threads : s \in told[t])
=============================================================================
