----------------------------- MODULE EpollPort -----------------------------
(* What is inside an epoll port on Windows (win32/wepoll.c): the sockets it  *)
(* watches, the poll operations it has submitted for them, its queues and    *)
(* its poll groups.  Every operation runs with the lock of the port held;    *)
(* it is given here as a function from the port before to the port after.    *)
(* Module Epoll says who calls what when.                                    *)
(* Names ..._<what is wrong> are slips that the checks must notice; no action *)
(* uses them.                                                                *)
EXTENDS Naturals, SequencesExt

CONSTANTS
    Sockets,        \* SOCKETs of the program
    Objs,           \* sock_state_t objects the allocator can hand out
    Groups,         \* poll_group_t objects
    MaxGroupSize,   \* POLL_GROUP__MAX_GROUP_SIZE
    Nothing

ASSUME ObjsAssumption == IsFiniteSet(Objs)
ASSUME MaxGroupSizeAssumption == MaxGroupSize \in Nat \ {0}
ASSUME NothingAssumption == Nothing \notin Sockets \cup Objs \cup Groups

-----------------------------------------------------------------------------
(* Event masks.  Sets of the flags in the comment of wepoll.h; ONESHOT is a  *)
(* flag of the interest and no event.                                        *)
Known == {"IN", "PRI", "OUT", "ERR", "HUP", "RDNORM", "RDBAND", "WRNORM", "WRBAND", "MSG", "RDHUP"}

EpollToAfd(events) ==
    LET wants(some) == events \cap some # {}
    IN  {"LOCAL_CLOSE"}
        \cup (IF wants({"IN", "RDNORM"}) THEN {"RECEIVE", "ACCEPT"} ELSE {})
        \cup (IF wants({"PRI", "RDBAND"}) THEN {"RECEIVE_EXPEDITED"} ELSE {})
        \cup (IF wants({"OUT", "WRNORM", "WRBAND"}) THEN {"SEND"} ELSE {})
        \cup (IF wants({"IN", "RDNORM", "RDHUP"}) THEN {"DISCONNECT"} ELSE {})
        \cup (IF wants({"HUP"}) THEN {"ABORT"} ELSE {})
        \cup (IF wants({"ERR"}) THEN {"CONNECT_FAIL"} ELSE {})

Meaning == [RECEIVE           |-> {"IN", "RDNORM"},
            ACCEPT            |-> {"IN", "RDNORM"},
            RECEIVE_EXPEDITED |-> {"PRI", "RDBAND"},
            SEND              |-> {"OUT", "WRNORM", "WRBAND"},
            DISCONNECT        |-> {"IN", "RDNORM", "RDHUP"},
            ABORT             |-> {"HUP"},
            CONNECT_FAIL      |-> {"IN", "OUT", "ERR", "RDNORM", "WRNORM", "RDHUP"}]

AfdToEpoll(afd) == UNION {Meaning[a] : a \in afd \cap DOMAIN Meaning}

-----------------------------------------------------------------------------
(* A port: sock_state_t objects and the socket tree that finds them, the     *)
(* update and the deleted queue, the poll groups (a queue too) with their    *)
(* sizes, the poll operations, the completions posted and not yet taken, and *)
(* the number of threads that sleep on it.                                   *)
FreeObj == [sock |-> Nothing, events |-> {}, pending |-> {}, status |-> "IDLE",
            deleted |-> FALSE, group |-> Nothing]
NoPoll == [at |-> "none", set |-> {}]

NewPort == [obj |-> [o \in Objs |-> FreeObj], tree |-> [s \in Sockets |-> Nothing],
            updates |-> <<>>, deletedQ |-> {},
            groups |-> <<>>, size |-> [g \in Groups |-> 0],
            poll |-> [o \in Objs |-> NoPoll], done |-> <<>>, polling |-> 0]

Live(ps) == {o \in Objs : ps.obj[o].sock # Nothing}

(* A queue node is in one queue at most; removing it does not ask which.     *)
IsEnqueued(ps, o) == o \in ps.deletedQ \/ o \in ToSet(ps.updates)
QueueRemove(ps, o) == [ps EXCEPT !.updates = RemoveFirst(@, o), !.deletedQ = @ \ {o}]

RequestSocketUpdate(ps, o) ==
    IF IsEnqueued(ps, o) THEN ps ELSE [ps EXCEPT !.updates = Append(@, o)]

AddDeletedSocket(ps, o) ==
    IF IsEnqueued(ps, o) THEN ps ELSE [ps EXCEPT !.deletedQ = @ \cup {o}]

-----------------------------------------------------------------------------
(* Poll groups: the last one of the queue is used while it has room.         *)
HasRoom(ps) == ps.groups # <<>> /\ ps.size[Last(ps.groups)] < MaxGroupSize

GroupAcquired(ps) ==
    IF HasRoom(ps) THEN Last(ps.groups) ELSE CHOOSE g \in Groups : g \notin ToSet(ps.groups)

Acquire_leavesFullLast(ps) ==
    LET g == GroupAcquired(ps)
    IN  [ps EXCEPT !.groups = IF HasRoom(ps) THEN @ ELSE Append(@, g), !.size[g] = @ + 1]

PollGroupAcquire(ps) ==
    LET g == GroupAcquired(ps)
        queue == IF HasRoom(ps) THEN ps.groups ELSE Append(ps.groups, g)
    IN  [ps EXCEPT !.size[g] = @ + 1,
                   !.groups = IF ps.size[g] + 1 = MaxGroupSize
                              THEN <<g>> \o RemoveFirst(queue, g) ELSE queue]

PollGroupRelease(ps, g) ==
    [ps EXCEPT !.size[g] = @ - 1, !.groups = Append(RemoveFirst(@, g), g)]

-----------------------------------------------------------------------------
(* Cancelling: NtCancelIoFileEx() completes what is still in the kernel.  It *)
(* is not called for what is not, and so cannot fail for that.               *)
CancelMayFail(ps, o) == ps.obj[o].status = "PENDING" /\ ps.poll[o].at = "kernel"

CancelPoll(ps, o) ==
    LET cancelled == [ps EXCEPT !.obj[o].status = "CANCELLED", !.obj[o].pending = {}]
    IN  IF ps.poll[o].at = "kernel"
        THEN [cancelled EXCEPT !.poll[o] = [at |-> "done", set |-> {"CANCELLED"}],
                               !.done = Append(@, o)]
        ELSE cancelled

SockFree(ps, o) ==
    [PollGroupRelease(QueueRemove(ps, o), ps.obj[o].group) EXCEPT !.obj[o] = FreeObj]

SockDelete_freesAtOnce(ps, o, force, fails) ==
    SockFree([ps EXCEPT !.tree[ps.obj[o].sock] = Nothing], o)

(* sock__delete(): an object whose poll operation has not completed is       *)
(* cancelled and kept, unless the port itself is going.  That cancelling     *)
(* fails is not noticed; the object is then deleted with its poll pending.   *)
SockDelete(ps, o, force, fails) ==
    LET quiet == IF ps.obj[o].status = "PENDING" /\ ~fails THEN CancelPoll(ps, o) ELSE ps
        gone  == IF ps.obj[o].deleted THEN ps
                 ELSE [QueueRemove(quiet, o) EXCEPT !.tree[ps.obj[o].sock] = Nothing,
                                                    !.obj[o].deleted = TRUE]
    IN  IF force \/ gone.obj[o].status = "IDLE" THEN SockFree(gone, o)
        ELSE AddDeletedSocket(gone, o)

(* sock_new(): fails without memory for a group, and then for an object, or  *)
(* when the tree has the socket already; the group has been acquired then,   *)
(* and perhaps created.                                                      *)
ObjFor(ps) == CHOOSE o \in Objs : o \notin Live(ps)
CanAcquire(ps) == HasRoom(ps) \/ \E g \in Groups : g \notin ToSet(ps.groups)
CanAdd(ps, s) == CanAcquire(ps) /\ Objs # Live(ps) /\ ps.tree[s] = Nothing

SockNew(ps, s) ==
    LET g == GroupAcquired(ps)
        o == ObjFor(ps)
    IN  CASE CanAdd(ps, s) ->
                [PollGroupAcquire(ps) EXCEPT !.tree[s] = o,
                                             !.obj[o] = [FreeObj EXCEPT !.sock = s, !.group = g]]
          [] CanAcquire(ps) /\ ~CanAdd(ps, s) -> PollGroupRelease(PollGroupAcquire(ps), g)
          [] OTHER -> ps

SockSetEvent_onlyIfIdle(ps, o, events) ==
    LET set == [ps EXCEPT !.obj[o].events = events \cup {"ERR", "HUP"}]
    IN  IF ps.obj[o].status = "IDLE" THEN RequestSocketUpdate(set, o) ELSE set

SockSetEvent(ps, o, events) ==
    LET set == [ps EXCEPT !.obj[o].events = events \cup {"ERR", "HUP"}]
    IN  IF (set.obj[o].events \cap Known) \ ps.obj[o].pending # {}
        THEN RequestSocketUpdate(set, o) ELSE set

(* sock_update(): brings the poll operation in line with the interest.       *)
(* closed are the sockets that are no sockets any more.                      *)
SockUpdate(ps, o, closed) ==
    LET it == ps.obj[o]
        covered == it.events \cap Known \subseteq it.pending
    IN  CASE it.status = "PENDING" /\ covered  -> QueueRemove(ps, o)
          [] it.status = "PENDING" /\ ~covered -> QueueRemove(CancelPoll(ps, o), o)
          [] it.status = "CANCELLED"           -> QueueRemove(ps, o)
          [] it.status = "IDLE" /\ it.sock \in closed -> SockDelete(ps, o, FALSE, FALSE)
          [] OTHER ->
                [QueueRemove(ps, o) EXCEPT
                    !.obj[o].status = "PENDING", !.obj[o].pending = it.events,
                    !.poll[o] = [at |-> "kernel", set |-> EpollToAfd(it.events)]]

(* The first n of the update queue; port__update_events() does them all,     *)
(* unless submitting or cancelling fails for one and it gives up there.      *)
UpdateFirst(ps, n, closed) ==
    FoldLeft(LAMBDA before, o : SockUpdate(before, o, closed), ps, SubSeq(ps.updates, 1, n))

MayFail(ps, o) ==
    ps.obj[o].status = "IDLE" \/
        (CancelMayFail(ps, o) /\ ~(ps.obj[o].events \cap Known \subseteq ps.obj[o].pending))

FeedEvent_keepsStatus(ps, o) == [port |-> [ps EXCEPT !.poll[o] = NoPoll], told |-> {}]

(* sock_feed_event(): one completion; told is what it reports, if anything.  *)
FeedEvent(ps, o) ==
    LET res  == ps.poll[o].set
        idle == [ps EXCEPT !.obj[o].status = "IDLE", !.obj[o].pending = {}, !.poll[o] = NoPoll]
        told == (IF "CANCELLED" \in res THEN {} ELSE IF "FAILED" \in res THEN {"ERR"}
                 ELSE AfdToEpoll(res)) \cap ps.obj[o].events
        next == RequestSocketUpdate(idle, o)
    IN  IF ps.obj[o].deleted \/ "LOCAL_CLOSE" \in res
        THEN [port |-> SockDelete(idle, o, FALSE, FALSE), told |-> {}]
        ELSE IF told = {} THEN [port |-> next, told |-> {}]
        ELSE [port |-> IF "ONESHOT" \in ps.obj[o].events
                       THEN [next EXCEPT !.obj[o].events = {}] ELSE next,
              told |-> {ps.obj[o].sock}]

(* port__feed_events()                                                       *)
FeedAll(ps, completions) ==
    FoldLeft(LAMBDA before, o : LET r == FeedEvent(before.port, o)
                                IN  [port |-> r.port, told |-> before.told \cup r.told],
             [port |-> ps, told |-> {}], completions)

-----------------------------------------------------------------------------
(* port_delete() frees by force, first what is in the tree, then what is in  *)
(* the deleted queue.  The completion port is closed: what has completed for *)
(* an object is never taken, and goes with it.                               *)
InTreeOf(ps) == {o \in Objs : \E s \in Sockets : ps.tree[s] = o}

NextToDelete(ps) == IF InTreeOf(ps) # {} THEN InTreeOf(ps) ELSE ps.deletedQ

SockForceDelete(ps, o, fails) ==
    [SockDelete(ps, o, TRUE, fails) EXCEPT !.poll[o] = NoPoll, !.done = RemoveFirst(@, o)]
=============================================================================
