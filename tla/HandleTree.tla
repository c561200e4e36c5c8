---------------------------- MODULE HandleTree ----------------------------
(* Life and death of epoll ports on Windows (win32/wepoll.c).  Any thread    *)
(* may call epoll_create, epoll_ctl, epoll_wait and epoll_close with the     *)
(* same handle at the same time.  The handle tree, under its SRW lock, turns *)
(* a handle into a port and takes a reference in one step; the reflock of    *)
(* the port makes epoll_close() wait until every reference has been dropped. *)
(* A reflock is one word: a reference count, and a flag that the last one    *)
(* out reads.  Each Interlocked operation on it is a step of its own.        *)
(* Module Epoll puts the port in place of the step Work.                     *)
(* Names ..._<what is wrong> are slips that the checks must notice; no action *)
(* uses them.                                                                *)
EXTENDS Naturals, FiniteSets

CONSTANTS
    Threads,        \* threads of the program
    Ports,          \* port_state_t objects the allocator can hand out
    Handles,        \* values CreateIoCompletionPort() can return
    None

ASSUME ThreadsAssumption == IsFiniteSet(Threads)
ASSUME NoneAssumption == None \notin Ports \cup Handles

VARIABLES
    handles,        \* epoll__handle_tree: what port a handle stands for
    allocated,      \* the ports that are not freed
    iocp,           \* iocp_handle of each port
    refs,           \* its reflock: references
    destroy,        \* ... and the flag: "no", "DESTROY" or "POISON"
    pc,             \* where each thread is
    on              \* the port it works on

hvars == <<handles, allocated, iocp, refs, destroy, pc, on>>

HInit ==
    /\ handles = [h \in Handles |-> None]
    /\ allocated = {}
    /\ iocp = [p \in Ports |-> None]
    /\ refs = [p \in Ports |-> 0]
    /\ destroy = [p \in Ports |-> "no"]
    /\ pc = [t \in Threads |-> "idle"]
    /\ on = [t \in Threads |-> None]

Goto(t, place) == pc' = [pc EXCEPT ![t] = place]
Return(t) == Goto(t, "idle") /\ on' = [on EXCEPT ![t] = None]

-----------------------------------------------------------------------------
(* epoll_create(): port_new() makes a completion port, whose handle is none  *)
(* of those that are open now, and only then is the tree told of it.         *)
PortNew(t, p, h) ==
    /\ pc[t] = "idle" /\ p \notin allocated
    /\ \A q \in Ports : iocp[q] # h
    /\ allocated' = allocated \cup {p}
    /\ iocp' = [iocp EXCEPT ![p] = h]
    /\ refs' = [refs EXCEPT ![p] = 0] /\ destroy' = [destroy EXCEPT ![p] = "no"]
    /\ Goto(t, "add") /\ on' = [on EXCEPT ![t] = p]
    /\ UNCHANGED handles

(* ts_tree_add() refuses a handle that the tree has; "This should never      *)
(* happen", and the port is then deleted with its completion port open.      *)
TsTreeAdd(t) ==
    /\ pc[t] = "add"
    /\ IF handles[iocp[on[t]]] = None
       THEN handles' = [handles EXCEPT ![iocp[on[t]]] = on[t]] /\ Return(t)
       ELSE Goto(t, "refused") /\ UNCHANGED <<handles, on>>
    /\ UNCHANGED <<allocated, iocp, refs, destroy>>

(* epoll_ctl() and epoll_wait(): ts_tree_find_and_ref()                      *)
TsTreeFindAndRef(t, h) ==
    /\ pc[t] = "idle" /\ handles[h] # None
    /\ refs' = [refs EXCEPT ![handles[h]] = @ + 1]
    /\ Goto(t, "inside") /\ on' = [on EXCEPT ![t] = handles[h]]
    /\ UNCHANGED <<handles, allocated, iocp, destroy>>

(* port_ctl() and port_wait()                                                *)
Work(t) ==
    /\ pc[t] = "inside" /\ Goto(t, "unref")
    /\ UNCHANGED <<handles, allocated, iocp, refs, destroy, on>>

ReflockUnref_forgetsToSignal(t) ==
    /\ pc[t] = "unref"
    /\ refs' = [refs EXCEPT ![on[t]] = @ - 1]
    /\ Return(t)
    /\ UNCHANGED <<handles, allocated, iocp, destroy>>

(* reflock_unref(): the last one out of a lock that is being destroyed       *)
(* signals; NtReleaseKeyedEvent() blocks until the event is waited for.      *)
ReflockUnref(t) ==
    /\ pc[t] = "unref"
    /\ refs' = [refs EXCEPT ![on[t]] = @ - 1]
    /\ IF refs[on[t]] = 1 /\ destroy[on[t]] = "DESTROY"
       THEN Goto(t, "signal") /\ UNCHANGED on
       ELSE Return(t)
    /\ UNCHANGED <<handles, allocated, iocp, destroy>>

TsTreeDelAndRef_keepsHandle(t, h) ==
    /\ pc[t] = "idle" /\ handles[h] # None
    /\ refs' = [refs EXCEPT ![handles[h]] = @ + 1]
    /\ Goto(t, "close") /\ on' = [on EXCEPT ![t] = handles[h]]
    /\ UNCHANGED <<handles, allocated, iocp, destroy>>

(* epoll_close(): ts_tree_del_and_ref(), after which nobody finds the port   *)
TsTreeDelAndRef(t, h) ==
    /\ pc[t] = "idle" /\ handles[h] # None
    /\ handles' = [handles EXCEPT ![h] = None]
    /\ refs' = [refs EXCEPT ![handles[h]] = @ + 1]
    /\ Goto(t, "close") /\ on' = [on EXCEPT ![t] = handles[h]]
    /\ UNCHANGED <<allocated, iocp, destroy>>

(* port_close(): from here the kernel may give the handle to another port,   *)
(* and a thread that sleeps in epoll_wait() is woken.                        *)
PortClose(t) ==
    /\ pc[t] = "close"
    /\ iocp' = [iocp EXCEPT ![on[t]] = None]
    /\ Goto(t, "destroy")
    /\ UNCHANGED <<handles, allocated, refs, destroy, on>>

ReflockUnrefAndDestroy_neverWaits(t) ==
    /\ pc[t] = "destroy"
    /\ refs' = [refs EXCEPT ![on[t]] = @ - 1]
    /\ destroy' = [destroy EXCEPT ![on[t]] = "DESTROY"]
    /\ Goto(t, "poison")
    /\ UNCHANGED <<handles, allocated, iocp, on>>

(* reflock_unref_and_destroy(): one InterlockedAdd, then the wait if others  *)
(* hold references, then one InterlockedExchange.                            *)
ReflockUnrefAndDestroy(t) ==
    /\ pc[t] = "destroy"
    /\ refs' = [refs EXCEPT ![on[t]] = @ - 1]
    /\ destroy' = [destroy EXCEPT ![on[t]] = "DESTROY"]
    /\ Goto(t, IF refs[on[t]] > 1 THEN "await" ELSE "poison")
    /\ UNCHANGED <<handles, allocated, iocp, on>>

(* The keyed event: one release lets one wait on the same address go on.     *)
KeyedEvent(t, s) ==
    /\ pc[t] = "await" /\ pc[s] = "signal" /\ on[s] = on[t]
    /\ pc' = [pc EXCEPT ![t] = "poison", ![s] = "idle"]
    /\ on' = [on EXCEPT ![s] = None]
    /\ UNCHANGED <<handles, allocated, iocp, refs, destroy>>

ReflockPoison(t) ==
    /\ pc[t] = "poison"
    /\ destroy' = [destroy EXCEPT ![on[t]] = "POISON"]
    /\ Goto(t, "delete")
    /\ UNCHANGED <<handles, allocated, iocp, refs, on>>

(* port_delete(): everything of the port is freed, and the port itself.      *)
PortDelete(t) ==
    /\ pc[t] = "delete"
    /\ allocated' = allocated \ {on[t]}
    /\ Return(t)
    /\ UNCHANGED <<handles, iocp, refs, destroy>>

HStep(t) ==
    \/ TsTreeAdd(t) \/ Work(t) \/ ReflockUnref(t)
    \/ PortClose(t) \/ ReflockUnrefAndDestroy(t) \/ ReflockPoison(t) \/ PortDelete(t)
    \/ \E s \in Threads : KeyedEvent(t, s)

HCall(t) ==
    \/ \E p \in Ports, h \in Handles : PortNew(t, p, h)
    \/ \E h \in Handles : TsTreeFindAndRef(t, h) \/ TsTreeDelAndRef(t, h)

HNext == \E t \in Threads : HCall(t) \/ HStep(t)

HSpec == HInit /\ [][HNext]_hvars

-----------------------------------------------------------------------------
Holding == {"inside", "unref", "close", "destroy"}  \* with a counted reference
Places == Holding \cup {"idle", "add", "refused", "signal", "await", "poison", "delete"}
Holders(p) == {t \in Threads : pc[t] \in Holding /\ on[t] = p}
Destroyers(p) == {t \in Threads : pc[t] \in {"await", "poison", "delete"} /\ on[t] = p}
ActiveOn(p) == {t \in Threads : pc[t] # "idle" /\ on[t] = p}

(* Types of the handle tree, the reflocks and the threads.                   *)
HTypeOK ==
    /\ handles \in [Handles -> Ports \cup {None}]
    /\ allocated \subseteq Ports
    /\ iocp \in [Ports -> Handles \cup {None}]
    /\ refs \in [Ports -> Nat]
    /\ destroy \in [Ports -> {"no", "DESTROY", "POISON"}]
    /\ pc \in [Threads -> Places]
    /\ on \in [Threads -> Ports \cup {None}]

(* No thread works on a port that has been freed; "After "destroy" returns,  *)
(* the calling thread may assume that no other threads have a reference".    *)
NoUseAfterFree == \A t \in Threads :
    /\ pc[t] # "idle" => on[t] \in allocated
    /\ pc[t] \in {"poison", "delete"} => ActiveOn(on[t]) = {t}

(* The assertions of reflock_ref(), reflock_unref() and of                   *)
(* reflock_unref_and_destroy(): nobody can reach a lock that is being        *)
(* destroyed but those who are leaving it, and it is empty when poisoned;    *)
(* and that of port_delete(): the completion port is closed by then.         *)
ReflockAsserts ==
    /\ \A h \in Handles : handles[h] # None => destroy[handles[h]] = "no"
    /\ \A t \in Threads :
          /\ pc[t] \in {"inside", "unref"} => destroy[on[t]] \in {"no", "DESTROY"}
          /\ pc[t] \in {"close", "destroy"} => destroy[on[t]] = "no"
          /\ pc[t] \in Holding => refs[on[t]] > 0
          /\ pc[t] = "poison" => refs[on[t]] = 0 /\ destroy[on[t]] = "DESTROY"
          /\ pc[t] = "delete" => iocp[on[t]] = None

(* "This should never happen": the tree never has the handle of a new port,  *)
(* although handles are used again while older calls are still under way.    *)
AddSucceeds == \A t \in Threads : pc[t] # "refused"

(* The handle in the tree is the one of the port, and the port lives.        *)
TreeIsCurrent == \A h \in Handles :
    handles[h] # None => handles[h] \in allocated /\ iocp[handles[h]] = h

(* Handles that are used again never meet what is left of their last port:   *)
(* epoll_create() finds its handle free, and epoll_ctl() and epoll_wait()    *)
(* reach the port that was given the handle last, and only while it lives.   *)
HandlesAreCurrent == AddSucceeds /\ TreeIsCurrent
=============================================================================
