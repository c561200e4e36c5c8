---------------------------- MODULE EpollProofs ----------------------------
(* Epoll implements HandleTree: what epoll_ctl() and epoll_wait() do inside  *)
(* a port, however long they sleep there, is to the handle tree and to the   *)
(* reflock one step between a reference taken and a reference dropped.  So   *)
(* what is proved of HandleTree holds of Epoll.                              *)
(* And every port stays in order: module EpollPortProofs says what each of   *)
(* its operations makes of one, and here they are put together with the      *)
(* completions that threads have in their hands while others use the port,   *)
(* and with the threads that sleep on it.                                    *)
EXTENDS Epoll, EpollPortProofs

-----------------------------------------------------------------------------
(* HandleTree: its inductive invariant, for any threads, ports and handles.  *)

Closing == {"close", "destroy", "await", "poison", "delete"}

(* A thread works on a port that lives, and an idle one on none.             *)
Placed == \A t \in Threads : IF pc[t] = "idle" THEN on[t] = None ELSE on[t] \in allocated

(* A reflock counts the references that are held.                            *)
Counted == \A p \in Ports : refs[p] = Cardinality(Holders(p))

(* One thread closes a port; and the one that makes it, or has waited for    *)
(* the others to leave it, has it for itself.                                *)
OneCloser == \A t, u \in Threads :
    pc[t] \in Closing /\ pc[u] \in Closing /\ on[t] = on[u] => t = u
Alone == \A t, u \in Threads :
    pc[t] \in {"add", "refused", "poison", "delete"} /\ on[u] = on[t] => u = t

(* The flag of a reflock says how far the destruction has come.              *)
Flags == \A t \in Threads :
    /\ pc[t] \in {"add", "refused", "close", "destroy"} => destroy[on[t]] = "no"
    /\ pc[t] \in {"await", "poison", "signal"} => destroy[on[t]] = "DESTROY"
    /\ pc[t] \in {"inside", "unref"} => destroy[on[t]] # "POISON"

(* The thread that signals is the last one out, and the only one.            *)
LastOut == \A t \in Threads : pc[t] = "signal" =>
    /\ refs[on[t]] = 0
    /\ \A u \in Threads : pc[u] = "signal" /\ on[u] = on[t] => u = t

(* A port in the tree lives, has that handle, and nobody makes or closes it. *)
InTree == \A h \in Handles : handles[h] # None =>
    /\ handles[h] \in allocated /\ iocp[handles[h]] = h /\ destroy[handles[h]] = "no"
    /\ \A t \in Threads : on[t] = handles[h] => pc[t] \in {"inside", "unref"}

(* Open completion ports have handles of their own.                          *)
OwnHandles ==
    /\ \A p, q \in Ports : iocp[p] = iocp[q] /\ iocp[p] # None => p = q
    /\ \A t \in Threads :
          /\ pc[t] \in {"destroy", "await", "poison", "delete"} => iocp[on[t]] = None
          /\ pc[t] = "add" => iocp[on[t]] # None

Uncounted ==
    /\ HTypeOK /\ Placed /\ OneCloser /\ Alone /\ Flags /\ LastOut /\ InTree /\ OwnHandles
    /\ AddSucceeds

HInv == Uncounted /\ Counted

-----------------------------------------------------------------------------
(* Counting the threads that hold a reference.                               *)

(* The holders of a port are finitely many.                                  *)
LEMMA HoldersFinite == \A p : IsFiniteSet(Holders(p))
  <1> SUFFICES ASSUME NEW p PROVE IsFiniteSet(Holders(p))
    OBVIOUS
  <1>1. Holders(p) \in SUBSET Threads
    BY DEF Holders
  <1> QED BY <1>1, ThreadsAssumption, FS_Subset

(* Who holds a reference is counted, so that the count is positive.          *)
LEMMA HolderCounts ==
    ASSUME HInv, NEW t \in Threads, pc[t] \in Holding
    PROVE  /\ on[t] \in Ports /\ refs[on[t]] \in Nat \ {0}
           /\ refs[on[t]] = 1 => Holders(on[t]) = {t}
  <1>1. on[t] \in Ports /\ t \in Holders(on[t]) /\ IsFiniteSet(Holders(on[t]))
    BY HoldersFinite DEF HInv, Uncounted, HTypeOK, Placed, Holders, Holding
  <1>2. Cardinality(Holders(on[t])) = refs[on[t]] /\ refs[on[t]] \in Nat
    BY <1>1 DEF HInv, Uncounted, HTypeOK, Counted
  <1>3. refs[on[t]] # 0
    BY <1>1, <1>2, FS_EmptySet
  <1>4. refs[on[t]] = 1 => \E x : Holders(on[t]) = {x}
    BY <1>1, <1>2, FS_Singleton
  <1> QED BY <1>1, <1>2, <1>3, <1>4

(* Nobody holds a reference that is not counted.                             *)
LEMMA NoCountNoHolder ==
    ASSUME HInv, NEW t \in Threads, refs[on[t]] = 0, on[t] \in Ports
    PROVE  \A u \in Threads : on[u] = on[t] => pc[u] \notin Holding
  BY HolderCounts

(* A reference taken,                                                        *)
LEMMA CountUp ==
    ASSUME Counted, refs \in [Ports -> Nat], NEW p \in Ports, NEW t, t \notin Holders(p),
           refs' = [refs EXCEPT ![p] = @ + 1], Holders(p)' = Holders(p) \cup {t},
           \A q \in Ports : q # p => Holders(q)' = Holders(q)
    PROVE  Counted'
  <1>1. Cardinality(Holders(p)') = Cardinality(Holders(p)) + 1
    BY HoldersFinite, FS_AddElement
  <1>2. ASSUME NEW q \in Ports PROVE refs'[q] = Cardinality(Holders(q)')
    BY <1>1 DEF Counted
  <1> QED BY <1>2 DEF Counted

(* ... one dropped,                                                          *)
LEMMA CountDown ==
    ASSUME Counted, refs \in [Ports -> Nat], NEW p \in Ports, NEW t, t \in Holders(p),
           refs' = [refs EXCEPT ![p] = @ - 1], Holders(p)' = Holders(p) \ {t},
           \A q \in Ports : q # p => Holders(q)' = Holders(q)
    PROVE  Counted'
  <1>1. Cardinality(Holders(p)') = Cardinality(Holders(p)) - 1
    BY HoldersFinite, FS_RemoveElement
  <1>2. ASSUME NEW q \in Ports PROVE refs'[q] = Cardinality(Holders(q)')
    BY <1>1 DEF Counted
  <1> QED BY <1>2 DEF Counted

(* ... and a step that does neither.                                         *)
LEMMA CountSame ==
    ASSUME Counted, refs' = refs, \A q \in Ports : Holders(q)' = Holders(q)
    PROVE  Counted'
  BY DEF Counted

-----------------------------------------------------------------------------
(* Every step keeps the invariant.                                           *)

(* What a step does to the tree, the flags and the places of the threads.    *)
LEMMA UncountedStep ==
    ASSUME HInv, HNext
    PROVE  Uncounted'
  <1> USE NoneAssumption DEF HInv, Uncounted, HTypeOK, Placed, OneCloser, Alone, Flags, LastOut,
                             InTree, OwnHandles, AddSucceeds, Places, Holding, Closing
  <1>1. ASSUME NEW t \in Threads, NEW p \in Ports, NEW h \in Handles, PortNew(t, p, h) PROVE Uncounted'
    BY <1>1 DEF PortNew, Goto
  <1>2. ASSUME NEW t \in Threads, TsTreeAdd(t) PROVE Uncounted'
    BY <1>2 DEF TsTreeAdd, Goto, Return
  <1>3. ASSUME NEW t \in Threads, NEW h \in Handles, TsTreeFindAndRef(t, h) PROVE Uncounted'
    BY <1>3 DEF TsTreeFindAndRef, Goto
  <1>4. ASSUME NEW t \in Threads, NEW h \in Handles, TsTreeDelAndRef(t, h) PROVE Uncounted'
    BY <1>4 DEF TsTreeDelAndRef, Goto
  <1>5. ASSUME NEW t \in Threads, Work(t) PROVE Uncounted'
    BY <1>5 DEF Work, Goto
  <1>6. ASSUME NEW t \in Threads, ReflockUnref(t) PROVE Uncounted'
    <2>1. refs[on[t]] \in Nat \ {0}
      BY <1>6, HolderCounts DEF ReflockUnref
    <2> QED BY <1>6, <2>1 DEF ReflockUnref, Goto, Return
  <1>7. ASSUME NEW t \in Threads, PortClose(t) PROVE Uncounted'
    BY <1>7 DEF PortClose, Goto
  <1>8. ASSUME NEW t \in Threads, ReflockUnrefAndDestroy(t) PROVE Uncounted'
    <2>1. /\ refs[on[t]] \in Nat \ {0}
          /\ refs[on[t]] = 1 => Holders(on[t]) = {t}
      BY <1>8, HolderCounts DEF ReflockUnrefAndDestroy
    <2>2. refs[on[t]] = 1 => \A u \in Threads : on[u] = on[t] => u = t
      BY <1>8, <2>1 DEF ReflockUnrefAndDestroy, Holders
    <2> QED BY <1>8, <2>1, <2>2 DEF ReflockUnrefAndDestroy, Goto
  <1>9. ASSUME NEW t \in Threads, NEW s \in Threads, KeyedEvent(t, s) PROVE Uncounted'
    <2>1. \A u \in Threads : on[u] = on[t] => pc[u] \notin Holding
      BY <1>9, NoCountNoHolder DEF KeyedEvent
    <2>2. \A u \in Threads : on[u] = on[t] => u = t \/ u = s
      BY <1>9, <2>1 DEF KeyedEvent
    <2> QED BY <1>9, <2>2 DEF KeyedEvent
  <1>10. ASSUME NEW t \in Threads, ReflockPoison(t) PROVE Uncounted'
    BY <1>10 DEF ReflockPoison, Goto
  <1>11. ASSUME NEW t \in Threads, PortDelete(t) PROVE Uncounted'
    BY <1>11 DEF PortDelete, Goto, Return
  <1> QED BY <1>1, <1>2, <1>3, <1>4, <1>5, <1>6, <1>7, <1>8, <1>9, <1>10, <1>11 DEF HNext, HCall, HStep

(* What a step does to the counts.                                           *)
LEMMA CountedStep ==
    ASSUME HInv, HNext
    PROVE  Counted'
  <1>0. Counted /\ refs \in [Ports -> Nat] /\ pc \in [Threads -> Places]
        /\ on \in [Threads -> Ports \cup {None}] /\ handles \in [Handles -> Ports \cup {None}]
    BY DEF HInv, Uncounted, HTypeOK
  <1> USE DEF Holders, Holding
  <1>1. ASSUME NEW t \in Threads, NEW p \in Ports, NEW h \in Handles, PortNew(t, p, h)
        PROVE  Counted'
    <2>1. Holders(p) = {} /\ Holders(p)' = {} /\ \A q \in Ports : Holders(q)' = Holders(q)
      BY <1>0, <1>1, NoneAssumption DEF PortNew, Goto, HInv, Uncounted, Placed
    <2>2. refs'[p] = 0 /\ \A q \in Ports : q # p => refs'[q] = refs[q]
      BY <1>0, <1>1 DEF PortNew
    <2> HIDE DEF Holders
    <2>3. Cardinality(Holders(p)') = 0
      BY <2>1, FS_EmptySet
    <2> QED BY <1>0, <2>1, <2>2, <2>3 DEF Counted
  <1>2. ASSUME NEW t \in Threads, NEW h \in Handles, NEW place \in {"inside", "close"},
               pc[t] = "idle", handles[h] # None, Goto(t, place),
               on' = [on EXCEPT ![t] = handles[h]],
               refs' = [refs EXCEPT ![handles[h]] = @ + 1]
        PROVE  Counted'
    <2>1. PICK p \in Ports : p = handles[h]
      BY <1>0, <1>2
    <2>2. /\ t \notin Holders(p) /\ Holders(p)' = Holders(p) \cup {t}
          /\ \A q \in Ports : q # p => Holders(q)' = Holders(q)
      BY <1>0, <1>2, <2>1 DEF Goto
    <2> HIDE DEF Holders
    <2> QED BY <1>0, <1>2, <2>1, <2>2, CountUp
  <1>3. ASSUME NEW t \in Threads, pc[t] \in {"unref", "destroy"},
               pc'[t] \notin Holding, \A u \in Threads : u # t => pc'[u] = pc[u] /\ on'[u] = on[u],
               refs' = [refs EXCEPT ![on[t]] = @ - 1]
        PROVE  Counted'
    <2>1. PICK p \in Ports : p = on[t]
      BY <1>3, HolderCounts
    <2>2. /\ t \in Holders(p) /\ Holders(p)' = Holders(p) \ {t}
          /\ \A q \in Ports : q # p => Holders(q)' = Holders(q)
      BY <1>3, <2>1
    <2> HIDE DEF Holders
    <2> QED BY <1>0, <1>3, <2>1, <2>2, CountDown
  <1>4. ASSUME NEW t \in Threads, TsTreeAdd(t) \/ Work(t) \/ PortClose(t) \/ ReflockPoison(t) \/
                                  PortDelete(t) \/ \E s \in Threads : KeyedEvent(t, s)
        PROVE  Counted'
    <2>1. refs' = refs /\ \A q \in Ports : Holders(q)' = Holders(q)
      BY <1>0, <1>4 DEF TsTreeAdd, Work, PortClose, ReflockPoison, PortDelete, KeyedEvent,
                        Goto, Return
    <2> QED BY <1>0, <2>1, CountSame
  <1>5. ASSUME NEW t \in Threads, ReflockUnref(t) PROVE Counted'
    BY <1>0, <1>3, <1>5 DEF ReflockUnref, Goto, Return
  <1>6. ASSUME NEW t \in Threads, ReflockUnrefAndDestroy(t) PROVE Counted'
    BY <1>0, <1>3, <1>6 DEF ReflockUnrefAndDestroy, Goto
  <1>7. ASSUME NEW t \in Threads, NEW h \in Handles,
               TsTreeFindAndRef(t, h) \/ TsTreeDelAndRef(t, h)
        PROVE  Counted'
    BY <1>2, <1>7 DEF TsTreeFindAndRef, TsTreeDelAndRef
  <1> QED BY <1>1, <1>4, <1>5, <1>6, <1>7 DEF HNext, HCall, HStep

-----------------------------------------------------------------------------
(* The theorems.                                                             *)

(* In every reachable state the tree, the counts, the flags and the places   *)
(* of the threads fit together, for any number of threads that call          *)
(* epoll_create(), epoll_ctl(), epoll_wait() and epoll_close().              *)
THEOREM HandleTreeInvariant == HSpec => []HInv
  <1>1. HInit => HInv
    <2> SUFFICES ASSUME HInit PROVE HInv
      OBVIOUS
    <2>1. \A p \in Ports : Holders(p) = {}
      BY DEF HInit, Holders, Holding
    <2>2. Counted
      BY <2>1, FS_EmptySet DEF HInit, Counted
    <2>3. Uncounted
      BY NoneAssumption DEF HInit, Uncounted, HTypeOK, Placed, OneCloser, Alone, Flags, LastOut,
            InTree, OwnHandles, AddSucceeds, Places, Holding, Closing
    <2> QED BY <2>2, <2>3 DEF HInv
  <1>2. HInv /\ [HNext]_hvars => HInv'
    <2> SUFFICES ASSUME HInv, [HNext]_hvars PROVE HInv'
      OBVIOUS
    <2>1. CASE HNext
      BY <2>1, UncountedStep, CountedStep DEF HInv
    <2>2. CASE UNCHANGED hvars
      BY <2>2 DEF hvars, HInv, Uncounted, Counted, Holders, HTypeOK, Placed, OneCloser, Alone,
            Flags, LastOut, InTree, OwnHandles, AddSucceeds
    <2> QED BY <2>1, <2>2
  <1> QED BY <1>1, <1>2, PTL DEF HSpec

(* No thread uses a port that another has freed, and the one that destroys   *)
(* a port has it for itself before it frees it.                              *)
THEOREM PortsAreSafe == HSpec => []NoUseAfterFree
  <1>1. HInv => NoUseAfterFree
    BY DEF HInv, Uncounted, Placed, Alone, NoUseAfterFree, ActiveOn
  <1> QED BY <1>1, HandleTreeInvariant, PTL

(* The assertions of the reflock and of port_delete() hold.                  *)
THEOREM ReflockAssertsHold == HSpec => []ReflockAsserts
  <1>1. HInv => ReflockAsserts
    <2> SUFFICES ASSUME HInv PROVE ReflockAsserts
      OBVIOUS
    <2>1. \A t \in Threads : pc[t] \in Holding => refs[on[t]] > 0
      BY HolderCounts
    <2>2. ASSUME NEW t \in Threads, pc[t] = "poison" PROVE refs[on[t]] = 0
      <3>1. Holders(on[t]) = {} /\ on[t] \in Ports
        BY <2>2 DEF HInv, Uncounted, HTypeOK, Placed, Alone, Holders, Holding
      <3> QED BY <3>1, FS_EmptySet DEF HInv, Counted
    <2> QED BY <2>1, <2>2, NoneAssumption DEF HInv, Uncounted, HTypeOK, Placed, Flags, InTree, OwnHandles,
              ReflockAsserts, Holding
  <1> QED BY <1>1, HandleTreeInvariant, PTL

(* "This should never happen" never happens: no handle of a new port is in   *)
(* the tree, and what is there is current.                                   *)
THEOREM HandlesAreFresh == HSpec => []HandlesAreCurrent
  <1>1. HInv => HandlesAreCurrent
    BY DEF HInv, Uncounted, InTree, TreeIsCurrent, HandlesAreCurrent
  <1> QED BY <1>1, HandleTreeInvariant, PTL

-----------------------------------------------------------------------------
(* Epoll, to the handle tree.                                                *)

(* What epoll_ctl() and epoll_wait() do with a reference.                    *)
LEMMA InsideSteps ==
    ASSUME NEW t \in Threads, Inside(t)
    PROVE  Work(t) \/ UNCHANGED hvars
  <1>1. ASSUME NEW s \in Sockets, NEW events \in Interests,
               PortCtlAdd(t, s, events) \/ PortCtlMod(t, s, events)
        PROVE  Work(t)
    BY <1>1 DEF PortCtlAdd, PortCtlMod, Leave
  <1>2. ASSUME NEW s \in Sockets, PortCtlDel(t, s) PROVE Work(t)
    BY <1>2 DEF PortCtlDel, Leave
  <1>3. ASSUME NEW limited, PortWait(t, limited) PROVE Work(t) \/ UNCHANGED hvars
    BY <1>3 DEF PortWait, PortPoll, Leave
  <1> QED BY <1>1, <1>2, <1>3 DEF Inside

(* The other steps of a thread.                                              *)
LEMMA OtherSteps ==
    ASSUME NEW t \in Threads, Calls(t) \/ Steps(t)
    PROVE  HCall(t) \/ HStep(t) \/ UNCHANGED hvars
  <1>1. CASE Calls(t)
    BY <1>1 DEF Calls, EpollCreate, EpollFindPort, EpollClose, HCall
  <1>2. CASE LoadHandle(t) \/ EnterWait(t) \/ TakeCompletions(t) \/ TakeAnothers(t) \/ EpollDeleteSocket(t)
    BY <1>2 DEF LoadHandle, EnterWait, TakeCompletions, TakeAnothers, EpollDeleteSocket
  <1>3. CASE WaitFails(t)
    BY <1>3 DEF WaitFails, Leave, HStep
  <1>4. CASE FeedEvents(t)
    <2>1. ASSUME NEW ps, NEW limited, PortPoll(t, ps, limited) PROVE Work(t) \/ UNCHANGED hvars
      BY <2>1 DEF PortPoll, Leave
    <2>2. Work(t) \/ UNCHANGED hvars
      BY <1>4, <2>1 DEF FeedEvents, Leave
    <2> QED BY <2>2 DEF HStep
  <1>5. CASE EpollUnref(t) \/ EpollPortClose(t) \/ EpollCloseStep(t) \/ EpollDelete(t)
    BY <1>5 DEF EpollUnref, EpollPortClose, EpollCloseStep, EpollDelete, HStep
  <1> QED BY <1>1, <1>2, <1>3, <1>4, <1>5 DEF Steps

(* A thread in a port, asleep or not, is to the handle tree a thread that    *)
(* holds a reference: every behaviour of Epoll is one of HandleTree.         *)
THEOREM EpollImplementsHandleTree == Spec => HSpec
  <1>1. Init => HInit
    BY DEF Init
  <1>2. [Next]_vars => [HNext]_hvars
    <2> SUFFICES ASSUME [Next]_vars PROVE HNext \/ UNCHANGED hvars
      OBVIOUS
    <2>1. ASSUME NEW t \in Threads, Calls(t) \/ Inside(t) \/ Steps(t)
          PROVE  HNext \/ UNCHANGED hvars
      BY <2>1, InsideSteps, OtherSteps DEF HNext, HStep
    <2>2. ASSUME NEW p \in Ports, NEW o \in Objs, PollCompletes(p, o) \/ PollFails(p, o)
          PROVE  UNCHANGED hvars
      BY <2>2 DEF PollCompletes, PollFails
    <2>3. ASSUME NEW s \in Sockets, SocketCondition(s) \/ CloseSocket(s) \/ SocketAgain(s)
          PROVE  UNCHANGED hvars
      BY <2>3 DEF SocketCondition, CloseSocket, SocketAgain
    <2>4. CASE UNCHANGED vars
      BY <2>4 DEF vars
    <2> QED BY <2>1, <2>2, <2>3, <2>4 DEF Next
  <1> QED BY <1>1, <1>2, PTL DEF Spec, HSpec

(* epoll_close() frees no port that a thread is in, be it asleep in          *)
(* epoll_wait(), and nobody else is in it when it is freed.                  *)
THEOREM EpollPortsAreSafe == Spec => []NoUseAfterFree
  BY EpollImplementsHandleTree, PortsAreSafe, PTL

(* No assertion of the reflock and of port_delete()'s handle fails.          *)
THEOREM EpollReflockAsserts == Spec => []ReflockAsserts
  BY EpollImplementsHandleTree, ReflockAssertsHold, PTL

(* epoll_create() is never told that its new handle is in the tree, and the  *)
(* tree holds no handle of a port that is closed or freed.                   *)
THEOREM EpollHandlesAreFresh == Spec => []HandlesAreCurrent
  BY EpollImplementsHandleTree, HandlesAreFresh, PTL

-----------------------------------------------------------------------------
(* The inductive invariant.                                                  *)

Waiting == {"released", "calling", "asleep", "woken"}
Sleepers(p) == {t \in Threads : at[t] \in Waiting /\ on[t] = p}

WTypeOK ==
    /\ at \in [Threads -> {"out", "entered"} \cup Waiting]
    /\ taken \in [Threads -> Seq(Objs)] /\ told \in [Threads -> SUBSET Sockets]
    /\ ready \in [Sockets -> SUBSET Conditions] /\ closed \subseteq Sockets
    /\ faults \in 0..MaxFaults
    /\ port \in [Ports -> PortStates]

(* A thread is in a port while it holds its reference for that, and has      *)
(* completions in its hands only between taking and feeding them.            *)
InsideHolds == \A t \in Threads :
    /\ at[t] # "out" <=> pc[t] = "inside"
    /\ taken[t] # <<>> => at[t] = "woken"

(* No completion is in the hands of two threads, or twice in one's.          *)
HandsApart ==
    /\ \A t \in Threads : Once(taken[t])
    /\ \A t, u \in Threads : t # u /\ on[t] = on[u] =>
          ToSet(taken[t]) \cap ToSet(taken[u]) = {}

(* Every port is in order with what is in the hands of its threads, and      *)
(* knows how many of them sleep.                                             *)
PortsOK == \A p \in Ports :
    /\ PortOK(port[p], InHands(p), Nothing)
    /\ port[p].polling = Cardinality(Sleepers(p))

(* The driver polls for no object that is deleted, while no call to cancel   *)
(* fails.                                                                    *)
PollsAttached == faults = 0 => \A p \in Ports : Attached(port[p])

PInv ==
    WTypeOK /\ InsideHolds /\ HandsApart /\ PortsOK /\ SleepersAreUpdated /\ PollsAttached

-----------------------------------------------------------------------------
(* Hands and sleepers.                                                       *)

(* What the other threads in the port of t have in their hands.              *)
OtherHands(t) == UNION {ToSet(taken[u]) : u \in {v \in Threads : v # t /\ on[v] = on[t]}}

(* The threads that sleep on a port are finitely many.                       *)
LEMMA SleepersFinite == \A p : IsFiniteSet(Sleepers(p)) /\ Cardinality(Sleepers(p)) \in Nat
  <1> SUFFICES ASSUME NEW p PROVE IsFiniteSet(Sleepers(p))
    BY FS_CardinalityType
  <1>1. Sleepers(p) \in SUBSET Threads
    BY DEF Sleepers
  <1> QED BY <1>1, ThreadsAssumption, FS_Subset

(* A set that an element is put into, or taken out of.                       *)
LEMMA CountOne ==
    ASSUME NEW S, IsFiniteSet(S), NEW e
    PROVE  /\ Cardinality(S \cup {e}) = Cardinality(S) + 1 - (IF e \in S THEN 1 ELSE 0)
           /\ Cardinality(S \ {e}) = Cardinality(S) - (IF e \in S THEN 1 ELSE 0)
  <1>1. Cardinality(S) \in Nat
    BY FS_CardinalityType
  <1>2. CASE e \in S
    <2>1. Cardinality(S \cup {e}) = Cardinality(S)
      <3>1. S \cup {e} = S
        BY <1>2
      <3> QED BY <3>1, Zenon
    <2>2. Cardinality(S \ {e}) = Cardinality(S) - 1
      BY <1>2, FS_RemoveElement
    <2> QED BY <1>1, <1>2, <2>1, <2>2
  <1>3. CASE e \notin S
    <2>1. Cardinality(S \ {e}) = Cardinality(S)
      <3>1. S \ {e} = S
        BY <1>3
      <3> QED BY <3>1, Zenon
    <2>2. Cardinality(S \cup {e}) = Cardinality(S) + 1
      BY <1>3, FS_AddElement
    <2> QED BY <1>1, <1>3, <2>1, <2>2
  <1> QED BY <1>2, <1>3

(* Empty hands hold nothing.                                                 *)
LEMMA EmptyHands == ToSet(<<>>) = {}
  BY DEF ToSet

(* What is in hands of threads in a port: this thread's and the others', and *)
(* nothing in both.                                                          *)
LEMMA HandsSplit ==
    ASSUME NEW t \in Threads, HandsApart
    PROVE  /\ InHands(on[t]) = OtherHands(t) \cup ToSet(taken[t])
           /\ OtherHands(t) \cap ToSet(taken[t]) = {}
           /\ taken[t] = <<>> => InHands(on[t]) = OtherHands(t)
  <1>1. InHands(on[t]) = OtherHands(t) \cup ToSet(taken[t])
    BY DEF InHands, OtherHands
  <1>2. OtherHands(t) \cap ToSet(taken[t]) = {}
    BY DEF OtherHands, HandsApart
  <1> QED BY <1>1, <1>2, EmptyHands

(* A step of a thread in its port: it goes to place, with have in its hands, *)
(* and leaves the port as x.                                                 *)
LEMMA InPortStep ==
    ASSUME PInv, HTypeOK, NEW t \in Threads, pc[t] = "inside", on[t] \in Ports,
           NEW place \in {"out", "entered"} \cup Waiting, NEW have \in Seq(Objs), NEW x,
           at' = [at EXCEPT ![t] = place], taken' = [taken EXCEPT ![t] = have], on' = on,
           IF place = "out" THEN pc' = [pc EXCEPT ![t] = "unref"] ELSE pc' = pc,
           port' = [port EXCEPT ![on[t]] = x],
           told' \in [Threads -> SUBSET Sockets], ready' = ready, closed' = closed,
           faults' \in 0..MaxFaults, faults' >= faults,
           Once(have), have # <<>> => place = "woken",
           OtherHands(t) \cap ToSet(have) = {},
           PortOK(x, OtherHands(t) \cup ToSet(have), Nothing),
           x.polling = port[on[t]].polling + (IF place \in Waiting THEN 1 ELSE 0)
                                           - (IF at[t] \in Waiting THEN 1 ELSE 0),
           faults' = 0 /\ x.polling > 0 => x.updates = <<>>,
           faults' = 0 => Attached(x)
    PROVE  PInv'
  <1> DEFINE p == on[t]
  <1>1. /\ pc \in [Threads -> Places] /\ on \in [Threads -> Ports \cup {None}]
        /\ at \in [Threads -> {"out", "entered"} \cup Waiting] /\ taken \in [Threads -> Seq(Objs)]
        /\ port \in [Ports -> PortStates] /\ faults \in Nat
    BY DEF PInv, WTypeOK, HTypeOK
  <1>2. /\ at'[t] = place /\ taken'[t] = have /\ port'[p] = x
        /\ \A u \in Threads \ {t} : at'[u] = at[u] /\ taken'[u] = taken[u] /\ pc'[u] = pc[u]
        /\ \A q \in Ports \ {p} : port'[q] = port[q]
    BY <1>1
  <1>3. pc'[t] = "inside" <=> place # "out"
    BY <1>1
  <1>4. WTypeOK'
    <2>1. x \in PortStates
      BY DEF PortOK
    <2>2. /\ at' \in [Threads -> {"out", "entered"} \cup Waiting]
          /\ taken' \in [Threads -> Seq(Objs)] /\ port' \in [Ports -> PortStates]
      BY <1>1, <2>1
    <2> QED BY <2>2 DEF PInv, WTypeOK
  <1>5. InsideHolds'
    BY <1>2, <1>3 DEF PInv, InsideHolds
  <1>6. HandsApart'
    <2>1. \A u \in Threads \ {t} : on[u] = on[t] => ToSet(taken[u]) \cap ToSet(have) = {}
      BY DEF OtherHands
    <2>2. \A u \in Threads : Once(taken'[u])
      BY <1>2 DEF PInv, HandsApart
    <2> SUFFICES ASSUME NEW u \in Threads, NEW v \in Threads, u # v, on[u] = on[v]
                 PROVE  ToSet(taken'[u]) \cap ToSet(taken'[v]) = {}
      BY <2>2 DEF HandsApart
    <2>3. CASE u = t
      <3>1. v \in Threads \ {t} /\ on[v] = on[t]
        BY <2>3
      <3> QED BY <1>2, <2>1, <2>3, <3>1
    <2>4. CASE v = t
      <3>1. u \in Threads \ {t} /\ on[u] = on[t]
        BY <2>4
      <3> QED BY <1>2, <2>1, <2>4, <3>1
    <2>5. CASE u # t /\ v # t
      BY <1>2, <2>5 DEF PInv, HandsApart
    <2> QED BY <2>3, <2>4, <2>5
  <1>7. InHands(p)' = OtherHands(t) \cup ToSet(have)
    BY <1>2 DEF InHands, OtherHands
  <1>8. \A q \in Ports \ {p} : InHands(q)' = InHands(q)
    BY <1>2 DEF InHands
  <1>9. \A q \in Ports \ {p} : Sleepers(q)' = Sleepers(q)
    BY <1>2 DEF Sleepers
  <1>10. x.polling = Cardinality(Sleepers(p)')
    <2>1. IsFiniteSet(Sleepers(p)) /\ port[p].polling = Cardinality(Sleepers(p))
      BY SleepersFinite DEF PInv, PortsOK
    <2>2. t \in Sleepers(p) <=> at[t] \in Waiting
      BY DEF Sleepers
    <2>3. Sleepers(p)' = IF place \in Waiting THEN Sleepers(p) \cup {t} ELSE Sleepers(p) \ {t}
      BY <1>2 DEF Sleepers
    <2>4. /\ Cardinality(Sleepers(p) \cup {t}) =
                Cardinality(Sleepers(p)) + 1 - (IF t \in Sleepers(p) THEN 1 ELSE 0)
          /\ Cardinality(Sleepers(p) \ {t}) =
                Cardinality(Sleepers(p)) - (IF t \in Sleepers(p) THEN 1 ELSE 0)
          /\ Cardinality(Sleepers(p)) \in Nat
      BY <2>1, CountOne, FS_CardinalityType
    <2>5. CASE place \in Waiting
      <3>1. Cardinality(Sleepers(p)') = Cardinality(Sleepers(p) \cup {t})
        BY <2>3, <2>5
      <3> QED BY <2>1, <2>2, <2>4, <2>5, <3>1
    <2>6. CASE place \notin Waiting
      <3>1. Cardinality(Sleepers(p)') = Cardinality(Sleepers(p) \ {t})
        BY <2>3, <2>6
      <3> QED BY <2>1, <2>2, <2>4, <2>6, <3>1
    <2> QED BY <2>5, <2>6
  <1>11. PortsOK'
    <2> SUFFICES ASSUME NEW q \in Ports
                 PROVE  PortOK(port[q], InHands(q), Nothing)' /\ (port[q].polling = Cardinality(Sleepers(q)))'
      BY DEF PortsOK
    <2>1. CASE q = p
      <3>1. PortOK(port'[q], InHands(q)', Nothing)
        BY <1>2, <1>7, <2>1
      <3>2. port'[q].polling = Cardinality(Sleepers(q)')
        BY <1>2, <1>10, <2>1
      <3> QED BY <3>1, <3>2
    <2>2. CASE q # p
      <3>1. PortOK(port[q], InHands(q), Nothing) /\ port[q].polling = Cardinality(Sleepers(q))
        BY DEF PInv, PortsOK
      <3>2. port'[q] = port[q] /\ InHands(q)' = InHands(q) /\ Sleepers(q)' = Sleepers(q)
        BY <1>2, <1>8, <1>9, <2>2
      <3> QED BY <3>1, <3>2
    <2> QED BY <2>1, <2>2
  <1>12. SleepersAreUpdated'
    <2> SUFFICES ASSUME faults' = 0, NEW q \in Ports, port'[q].polling > 0
                 PROVE  port'[q].updates = <<>>
      BY DEF SleepersAreUpdated
    <2>1. faults = 0
      BY <1>1
    <2> QED BY <1>2, <2>1 DEF PInv, SleepersAreUpdated
  <1>13. PollsAttached'
    <2> SUFFICES ASSUME faults' = 0, NEW q \in Ports PROVE Attached(port'[q])
      BY DEF PollsAttached, Attached
    <2>1. faults = 0
      BY <1>1
    <2> QED BY <1>2, <2>1 DEF PInv, PollsAttached
  <1> QED BY <1>4, <1>5, <1>6, <1>11, <1>12, <1>13 DEF PInv

-----------------------------------------------------------------------------
(* What the steps of a thread in its port make of it.                        *)

(* port__update_events(), to the end or up to a call that fails.             *)
LEMMA EventsUpdated ==
    ASSUME NEW ps, NEW hands, PortOK(ps, hands, Nothing), faults \in Nat, NEW u \in UpdateEvents(ps)
    PROVE  /\ PortOK(u.port, hands, Nothing) /\ u.port.polling = ps.polling
           /\ u.ok \in BOOLEAN
           /\ u.ok => u.port.updates = <<>>
           /\ ~u.ok => faults < MaxFaults
           /\ Attached(ps) => Attached(u.port)
  <1>1. PICK n \in 0..Len(ps.updates) :
           /\ n < Len(ps.updates) => faults < MaxFaults
           /\ u = [port |-> UpdateFirst(ps, n, closed), ok |-> n = Len(ps.updates)]
    BY DEF UpdateEvents
  <1>2. /\ u.port = UpdateFirst(ps, n, closed) /\ u.ok \in BOOLEAN
        /\ u.ok <=> n = Len(ps.updates)
    <2>1. u.ok = (n = Len(ps.updates))
      BY <1>1
    <2>2. u.ok \in BOOLEAN /\ (u.ok <=> n = Len(ps.updates))
      BY <2>1, Zenon
    <2> QED BY <1>1, <2>2
  <1>3. Len(ps.updates) \in Nat
    BY DEF PortOK, PortStates
  <1>4. /\ PortOK(u.port, hands, Nothing) /\ u.port.polling = ps.polling
        /\ n = Len(ps.updates) => u.port.updates = <<>>
        /\ Attached(ps) => Attached(u.port)
    BY <1>2, UpdatedFirst
  <1> QED BY <1>1, <1>2, <1>3, <1>4

(* ... which port_ctl() and port_wait() ask for when threads sleep.          *)
LEMMA EventsUpdatedIfPolling ==
    ASSUME NEW ps, NEW hands, PortOK(ps, hands, Nothing), faults \in Nat,
           NEW u \in UpdateEventsIfPolling(ps)
    PROVE  /\ PortOK(u.port, hands, Nothing) /\ u.port.polling = ps.polling
           /\ u.ok \in BOOLEAN
           /\ u.ok /\ u.port.polling > 0 => u.port.updates = <<>>
           /\ ~u.ok => faults < MaxFaults
           /\ Attached(ps) => Attached(u.port)
  <1>1. CASE ps.polling > 0
    BY <1>1, EventsUpdated DEF UpdateEventsIfPolling
  <1>2. CASE ~(ps.polling > 0)
    <2>1. u = [port |-> ps, ok |-> TRUE]
      BY <1>2 DEF UpdateEventsIfPolling
    <2>2. u.port = ps /\ u.ok = TRUE
      BY <2>1
    <2> QED BY <1>2, <2>2
  <1> QED BY <1>1, <1>2

(* A thread that leaves its port as x.                                       *)
LEMMA Leaves ==
    ASSUME PInv, HTypeOK, NEW t \in Threads, on[t] \in Ports, Leave(t), NEW x,
           port' = [port EXCEPT ![on[t]] = x], told' \in [Threads -> SUBSET Sockets],
           faults' \in 0..MaxFaults, faults' >= faults,
           PortOK(x, OtherHands(t), Nothing),
           x.polling = port[on[t]].polling - (IF at[t] \in Waiting THEN 1 ELSE 0),
           faults' = 0 /\ x.polling > 0 => x.updates = <<>>,
           faults' = 0 => Attached(x)
    PROVE  PInv'
  <1>1. /\ pc[t] = "inside" /\ pc' = [pc EXCEPT ![t] = "unref"] /\ on' = on
        /\ at' = [at EXCEPT ![t] = "out"] /\ taken' = [taken EXCEPT ![t] = <<>>]
        /\ ready' = ready /\ closed' = closed
    BY DEF Leave, Work, Goto
  <1> DEFINE place == "out"
             have == <<>>
  <1>2. /\ place \in {"out", "entered"} \cup Waiting /\ place \notin Waiting /\ have \in Seq(Objs)
        /\ Once(have) /\ OtherHands(t) \cap ToSet(have) = {}
        /\ OtherHands(t) \cup ToSet(have) = OtherHands(t)
    BY EmptyHands DEF Waiting, Once
  <1>3. /\ at' = [at EXCEPT ![t] = place] /\ taken' = [taken EXCEPT ![t] = have]
        /\ IF place = "out" THEN pc' = [pc EXCEPT ![t] = "unref"] ELSE pc' = pc
        /\ have # <<>> => place = "woken"
    BY <1>1
  <1>4. PortOK(x, OtherHands(t) \cup ToSet(have), Nothing)
    BY <1>2
  <1>5. port[on[t]].polling \in Int
    BY DEF PInv, WTypeOK, PortStates
  <1>6. x.polling = port[on[t]].polling + (IF place \in Waiting THEN 1 ELSE 0)
                                        - (IF at[t] \in Waiting THEN 1 ELSE 0)
    BY <1>2, <1>5
  <1> HIDE DEF place, have
  <1> QED BY <1>1, <1>2, <1>3, <1>4, <1>6, InPortStep

(* port__poll() up to where it drops the lock, with ps the port it finds.    *)
LEMMA Polls ==
    ASSUME PInv, HTypeOK, NEW t \in Threads, on[t] \in Ports, at[t] # "out", NEW ps,
           NEW limited, PortPoll(t, ps, limited),
           PortOK(ps, OtherHands(t), Nothing), faults = 0 => Attached(ps),
           ps.polling = port[on[t]].polling - (IF at[t] \in Waiting THEN 1 ELSE 0)
    PROVE  PInv'
  <1> DEFINE place == "released"
  <1>1. PICK u \in UpdateEvents(ps) :
        \/ /\ u.ok
           /\ port' = [port EXCEPT ![on[t]] = [u.port EXCEPT !.polling = @ + 1]]
           /\ at' = [at EXCEPT ![t] = place] /\ taken' = [taken EXCEPT ![t] = <<>>]
           /\ UNCHANGED <<hvars, told, world>>
        \/ /\ ~u.ok
           /\ \E v \in UpdateEventsIfPolling(u.port) : Put(t, v)
           /\ faults' = faults + 1
           /\ Leave(t) /\ UNCHANGED told
    BY DEF PortPoll
  <1>2. /\ faults \in Nat /\ faults \in 0..MaxFaults /\ MaxFaults \in Nat
        /\ told \in [Threads -> SUBSET Sockets] /\ port[on[t]].polling \in Int
        /\ pc[t] = "inside"
    BY EpollBoundsAssumption DEF PInv, WTypeOK, InsideHolds, PortStates
  <1>3. /\ PortOK(u.port, OtherHands(t), Nothing) /\ u.port.polling = ps.polling
        /\ u.ok \in BOOLEAN
        /\ u.ok => u.port.updates = <<>>
        /\ ~u.ok => faults < MaxFaults
        /\ Attached(ps) => Attached(u.port)
    BY <1>2, EventsUpdated
  <1>4. CASE /\ u.ok
             /\ port' = [port EXCEPT ![on[t]] = [u.port EXCEPT !.polling = @ + 1]]
             /\ at' = [at EXCEPT ![t] = place] /\ taken' = [taken EXCEPT ![t] = <<>>]
             /\ UNCHANGED <<hvars, told, world>>
    <2> DEFINE x == [u.port EXCEPT !.polling = @ + 1]
               have == <<>>
    <2>1. u.port \in PortStates /\ u.port.polling \in Int
      BY <1>3 DEF PortOK, PortStates
    <2>2. /\ x \in PortStates /\ x.polling = u.port.polling + 1 /\ x.updates = u.port.updates
          /\ SameButPolling(u.port, x)
      <3> DEFINE was == u.port
                 n == was.polling + 1
      <3>1. x = [was EXCEPT !.polling = n] /\ was \in PortStates /\ n \in Int
        BY <2>1
      <3> HIDE DEF was, n, x
      <3>2. x \in PortStates /\ x.polling = n
        BY <3>1 DEF PortStates
      <3>3. SameButPolling(was, x)
        BY <3>1 DEF PortStates, SameButPolling
      <3> QED BY <3>2, <3>3 DEF was, n, SameButPolling
    <2> HIDE DEF x
    <2>3. PortOK(x, OtherHands(t), Nothing)
      BY <1>3, <2>2, SameButPollingKeeps
    <2>4. /\ have \in Seq(Objs) /\ Once(have) /\ OtherHands(t) \cap ToSet(have) = {}
          /\ OtherHands(t) \cup ToSet(have) = OtherHands(t)
      BY EmptyHands DEF Once
    <2>5. /\ port' = [port EXCEPT ![on[t]] = x] /\ taken' = [taken EXCEPT ![t] = have]
          /\ on' = on /\ pc' = pc /\ told' = told /\ ready' = ready /\ closed' = closed
          /\ faults' = faults /\ at' = [at EXCEPT ![t] = place]
      BY <1>4 DEF x, hvars, world
    <2>6. /\ place \in {"out", "entered"} \cup Waiting /\ place \in Waiting /\ place # "out"
          /\ have # <<>> => place = "woken"
      BY DEF Waiting
    <2>7. x.polling = port[on[t]].polling + (IF place \in Waiting THEN 1 ELSE 0)
                                          - (IF at[t] \in Waiting THEN 1 ELSE 0)
      BY <1>2, <1>3, <2>2, <2>6
    <2>8. x.updates = <<>>
      BY <1>3, <1>4, <2>2
    <2>9. PortOK(x, OtherHands(t) \cup ToSet(have), Nothing)
      BY <2>3, <2>4
    <2>10. faults' \in 0..MaxFaults /\ faults' >= faults /\ told' \in [Threads -> SUBSET Sockets]
      BY <1>2, <2>5
    <2>11. faults' = 0 => Attached(x)
      <3>1. Attached(u.port) => Attached(x)
        BY <2>2 DEF SameButPolling, Attached
      <3> QED BY <1>3, <2>5, <3>1
    <2> HIDE DEF have, place
    <2> QED BY <1>2, <2>4, <2>5, <2>6, <2>7, <2>8, <2>9, <2>10, <2>11, InPortStep
  <1>5. CASE /\ ~u.ok
             /\ \E v \in UpdateEventsIfPolling(u.port) : Put(t, v)
             /\ faults' = faults + 1
             /\ Leave(t) /\ UNCHANGED told
    <2>1. PICK v \in UpdateEventsIfPolling(u.port) : Put(t, v)
      BY <1>5
    <2>2. PortOK(v.port, OtherHands(t), Nothing) /\ v.port.polling = u.port.polling
      BY <1>2, <1>3, EventsUpdatedIfPolling
    <2>3. /\ port' = [port EXCEPT ![on[t]] = v.port] /\ told' \in [Threads -> SUBSET Sockets]
          /\ faults' \in 0..MaxFaults /\ faults' >= faults /\ faults' # 0
      <3>1. port' = [port EXCEPT ![on[t]] = v.port] /\ told' = told
        BY <1>5, <2>1 DEF Put
      <3>2. faults' = faults + 1 /\ faults < MaxFaults
        BY <1>3, <1>5
      <3> QED BY <1>2, <3>1, <3>2
    <2>4. v.port.polling = port[on[t]].polling - (IF at[t] \in Waiting THEN 1 ELSE 0)
      BY <1>3, <2>2
    <2> QED BY <1>5, <2>2, <2>3, <2>4, Leaves
  <1> QED BY <1>1, <1>4, <1>5

(* The port of a thread that has nothing in its hands.                       *)
LEMMA EmptyHanded ==
    ASSUME PInv, NEW t \in Threads, on[t] \in Ports, at[t] # "woken"
    PROVE  /\ PortOK(Here(t), OtherHands(t), Nothing) /\ taken[t] = <<>>
           /\ faults = 0 => Attached(Here(t))
  <1>1. taken[t] = <<>>
    BY DEF PInv, InsideHolds
  <1>2. InHands(on[t]) = OtherHands(t)
    BY <1>1, HandsSplit DEF PInv
  <1>3. PortOK(port[on[t]], InHands(on[t]), Nothing)
    BY DEF PInv, PortsOK
  <1>4. faults = 0 => Attached(port[on[t]])
    BY DEF PInv, PollsAttached
  <1> QED BY <1>1, <1>2, <1>3, <1>4 DEF Here

(* What is known of a state by its types.                                    *)
LEMMA StateTypes ==
    ASSUME PInv
    PROVE  /\ faults \in Nat /\ MaxFaults \in Nat /\ faults \in 0..MaxFaults /\ faults >= faults
           /\ told \in [Threads -> SUBSET Sockets]
           /\ port \in [Ports -> PortStates]
           /\ \A p \in Ports : port[p].polling \in Int
  BY EpollBoundsAssumption DEF PInv, WTypeOK, PortStates

(* The port is put back and its faults counted on the way out.               *)
LEMMA LeavesUpdated ==
    ASSUME PInv, HTypeOK, NEW t \in Threads, on[t] \in Ports, Leave(t),
           told' \in [Threads -> SUBSET Sockets],
           NEW ps, NEW u \in UpdateEventsIfPolling(ps), Put(t, u), Count(u),
           PortOK(ps, OtherHands(t), Nothing), faults = 0 => Attached(ps),
           ps.polling = port[on[t]].polling - (IF at[t] \in Waiting THEN 1 ELSE 0)
    PROVE  PInv'
  <1>1. /\ PortOK(u.port, OtherHands(t), Nothing) /\ u.port.polling = ps.polling
        /\ u.ok \in BOOLEAN
        /\ u.ok /\ u.port.polling > 0 => u.port.updates = <<>>
        /\ ~u.ok => faults < MaxFaults
        /\ Attached(ps) => Attached(u.port)
    BY StateTypes, EventsUpdatedIfPolling
  <1>2. /\ faults' \in 0..MaxFaults /\ faults' >= faults
        /\ faults' = 0 => u.ok
    <2>1. CASE u.ok
      BY <2>1, StateTypes DEF Count
    <2>2. CASE ~u.ok
      BY <1>1, <2>2, StateTypes DEF Count
    <2> QED BY <2>1, <2>2
  <1>3. port' = [port EXCEPT ![on[t]] = u.port]
    BY DEF Put
  <1>4. faults' = 0 /\ u.port.polling > 0 => u.port.updates = <<>>
    BY <1>1, <1>2
  <1>5. u.port.polling = port[on[t]].polling - (IF at[t] \in Waiting THEN 1 ELSE 0)
    BY <1>1
  <1>6. faults' = 0 => Attached(u.port)
    BY <1>1, <1>2, StateTypes
  <1> QED BY <1>1, <1>2, <1>3, <1>4, <1>5, <1>6, Leaves

(* The port is put back without faults.                                      *)
LEMMA LeavesQuietly ==
    ASSUME PInv, HTypeOK, NEW t \in Threads, on[t] \in Ports, Leave(t), UNCHANGED <<told, faults>>,
           at[t] = "entered", NEW x, port' = [port EXCEPT ![on[t]] = x],
           PortOK(x, OtherHands(t), Nothing), x.polling = port[on[t]].polling,
           ToSet(x.updates) \subseteq ToSet(port[on[t]].updates), faults = 0 => Attached(x)
    PROVE  PInv'
  <1>1. at[t] \notin Waiting
    BY DEF Waiting
  <1>2. x.polling = port[on[t]].polling - (IF at[t] \in Waiting THEN 1 ELSE 0)
    BY <1>1, StateTypes
  <1>3. faults' = 0 /\ x.polling > 0 => x.updates = <<>>
    <2> SUFFICES ASSUME faults' = 0, x.polling > 0 PROVE x.updates = <<>>
      OBVIOUS
    <2>1. port[on[t]].updates = <<>>
      BY DEF PInv, SleepersAreUpdated
    <2>2. ToSet(x.updates) = {}
      BY <2>1, EmptyHands
    <2>3. x.updates \in Seq(Objs)
      BY DEF PortOK, PortStates
    <2> QED BY <2>2, <2>3, EmptyQueue
  <1>4. faults' \in 0..MaxFaults /\ faults' >= faults /\ told' \in [Threads -> SUBSET Sockets]
    BY StateTypes
  <1>5. faults' = 0 => Attached(x)
    OBVIOUS
  <1> QED BY <1>2, <1>3, <1>4, <1>5, Leaves

(* port_ctl()                                                                *)
LEMMA CtlStep ==
    ASSUME PInv, HTypeOK, NEW t \in Threads, on[t] \in Ports, NEW s \in Sockets,
           NEW events \in Masks,
           PortCtlAdd(t, s, events) \/ PortCtlMod(t, s, events) \/ PortCtlDel(t, s)
    PROVE  PInv'
  <1> DEFINE ps == Here(t)
             hands == OtherHands(t)
  <1>1. /\ at[t] = "entered" /\ at[t] \notin Waiting /\ Leave(t) /\ told' = told
        /\ told' \in [Threads -> SUBSET Sockets]
    BY StateTypes DEF PortCtlAdd, PortCtlMod, PortCtlDel, Waiting
  <1>2. /\ PortOK(ps, hands, Nothing) /\ ps = port[on[t]] /\ ps.polling \in Int
        /\ faults = 0 => Attached(ps)
    BY <1>1, EmptyHanded, StateTypes DEF Here
  <1>4. CASE UNCHANGED <<port, faults>>
    <2>1. port' = [port EXCEPT ![on[t]] = port[on[t]]]
      BY <1>4, StateTypes
    <2>2. UNCHANGED <<told, faults>>
      BY <1>1, <1>4
    <2> QED BY <1>1, <1>2, <2>1, <2>2, LeavesQuietly
  <1> HIDE DEF ps, hands
  <1>5. ASSUME NEW x, PortOK(x, hands, Nothing), x.polling = ps.polling,
               Attached(ps) => Attached(x), NEW u \in UpdateEventsIfPolling(x), Put(t, u), Count(u)
        PROVE  PInv'
    <2>1. x.polling = port[on[t]].polling - (IF at[t] \in Waiting THEN 1 ELSE 0)
      BY <1>1, <1>2, <1>5
    <2>2. faults = 0 => Attached(x)
      BY <1>2, <1>5
    <2> QED BY <1>1, <1>5, <2>1, <2>2, LeavesUpdated DEF hands
  <1>6. ASSUME NEW x, PortOK(x, hands, Nothing), x.polling = ps.polling,
               ToSet(x.updates) \subseteq ToSet(ps.updates), Attached(ps) => Attached(x),
               port' = [port EXCEPT ![on[t]] = x], UNCHANGED faults
        PROVE  PInv'
    <2>1. UNCHANGED <<told, faults>> /\ (faults = 0 => Attached(x))
      BY <1>1, <1>2, <1>6
    <2> QED BY <1>1, <1>2, <1>6, <2>1, LeavesQuietly DEF hands
  <1>7. CASE PortCtlAdd(t, s, events)
    <2>1. CASE s \in closed
      BY <1>4, <1>7, <2>1 DEF PortCtlAdd
    <2>2. CASE s \notin closed /\ ~CanAdd(ps, s)
      <3> DEFINE x == SockNew(ps, s)
      <3>1. Put(t, [port |-> x]) /\ UNCHANGED faults
        BY <1>7, <2>2 DEF PortCtlAdd, ps
      <3>2. port' = [port EXCEPT ![on[t]] = x]
        BY <3>1 DEF Put
      <3>3. /\ PortOK(x, hands, Nothing) /\ x.polling = ps.polling /\ x.updates = ps.updates
            /\ Attached(ps) => Attached(x)
        BY <1>2, <2>2, SockRefused
      <3> HIDE DEF x
      <3> QED BY <1>6, <3>1, <3>2, <3>3
    <2>3. CASE s \notin closed /\ CanAdd(ps, s)
      <3> DEFINE x == SockNew(ps, s)
                 o == ObjFor(ps)
                 y == SockSetEvent(x, o, events)
      <3>1. PICK u \in UpdateEventsIfPolling(y) : Put(t, u) /\ Count(u)
        BY <1>7, <2>3 DEF PortCtlAdd, ps
      <3>2. /\ o \in Live(x) /\ ~x.obj[o].deleted
            /\ PortOK(x, hands, o) /\ x.polling = ps.polling
            /\ Attached(ps) => Attached(x)
        BY <1>2, <2>3, SockAdded
      <3> HIDE DEF x, o
      <3>3. /\ PortOK(y, hands, Nothing) /\ y.polling = x.polling
            /\ Attached(x) => Attached(y)
        BY <3>2, InterestSet
      <3> HIDE DEF y
      <3> QED BY <1>5, <3>1, <3>2, <3>3
    <2> QED BY <2>1, <2>2, <2>3
  <1>8. CASE PortCtlMod(t, s, events)
    <2>1. CASE ps.tree[s] = Nothing
      BY <1>4, <1>8, <2>1 DEF PortCtlMod, ps
    <2>2. CASE ps.tree[s] # Nothing
      <3> DEFINE o == ps.tree[s]
                 y == SockSetEvent(ps, o, events)
      <3>1. PICK u \in UpdateEventsIfPolling(y) : Put(t, u) /\ Count(u)
        BY <1>8, <2>2 DEF PortCtlMod, ps
      <3>2. o \in Live(ps) /\ ~ps.obj[o].deleted
        BY <1>2, <2>2, TreeFinds
      <3> HIDE DEF o
      <3>3. /\ PortOK(y, hands, Nothing) /\ y.polling = ps.polling
            /\ Attached(ps) => Attached(y)
        BY <1>2, <3>2, InterestSet
      <3> HIDE DEF y
      <3> QED BY <1>5, <3>1, <3>3
    <2> QED BY <2>1, <2>2
  <1>9. CASE PortCtlDel(t, s)
    <2>1. CASE ps.tree[s] = Nothing
      BY <1>4, <1>9, <2>1 DEF PortCtlDel, ps
    <2>2. CASE ps.tree[s] # Nothing
      <3> DEFINE o == ps.tree[s]
      <3>1. PICK fails \in CancelOutcomes(ps, o) :
               LET u == [port |-> SockDelete(ps, o, FALSE, fails), ok |-> ~fails]
               IN  Put(t, u) /\ Count(u)
        BY <1>9, <2>2 DEF PortCtlDel, ps
      <3> DEFINE x == SockDelete(ps, o, FALSE, fails)
      <3>2. fails \in BOOLEAN /\ (fails => faults < MaxFaults)
        BY DEF CancelOutcomes
      <3>3. port' = [port EXCEPT ![on[t]] = x]
        BY <3>1 DEF Put
      <3>4. o \in Live(ps)
        BY <1>2, <2>2, TreeFinds
      <3> HIDE DEF o
      <3>5. /\ PortOK(x, hands, Nothing) /\ x.polling = ps.polling
            /\ ToSet(x.updates) = ToSet(ps.updates) \ {o}
            /\ ~fails /\ Attached(ps) => Attached(x)
        <4>1. PortOK(ps, hands, Nothing) \/ PortOK(ps, hands, o)
          BY <1>2
        <4> QED BY <3>2, <3>4, <4>1, SockDeleted
      <3>6. ToSet(x.updates) \subseteq ToSet(ps.updates)
        BY <3>5
      <3>7. faults' = faults + IF ~fails THEN 0 ELSE 1
        BY <3>1 DEF Count
      <3> HIDE DEF x
      <3>8. CASE ~fails
        <4>1. UNCHANGED faults
          BY <3>7, <3>8, StateTypes
        <4> QED BY <1>6, <3>3, <3>5, <3>6, <3>8, <4>1
      <3>9. CASE fails
        <4>1. faults' \in 0..MaxFaults /\ faults' >= faults /\ faults' # 0
          BY <3>2, <3>7, <3>9, StateTypes
        <4>2. x.polling = port[on[t]].polling - (IF at[t] \in Waiting THEN 1 ELSE 0)
          BY <1>1, <1>2, <3>5
        <4> QED BY <1>1, <3>3, <3>5, <4>1, <4>2, Leaves DEF hands
      <3> QED BY <3>2, <3>8, <3>9
    <2> QED BY <2>1, <2>2
  <1> QED BY <1>7, <1>8, <1>9

-----------------------------------------------------------------------------
(* Completions on their way through the hands of a thread.                   *)

(* A queue that is cut in two.                                               *)
LEMMA QueueSplit ==
    ASSUME NEW S, NEW q \in Seq(S), Once(q), NEW n \in 0..Len(q)
    PROVE  LET a == SubSeq(q, 1, n)
               b == SubSeq(q, n + 1, Len(q)) IN
           /\ a \in Seq(S) /\ b \in Seq(S) /\ Once(a) /\ Once(b)
           /\ ToSet(a) \cup ToSet(b) = ToSet(q) /\ ToSet(a) \cap ToSet(b) = {}
  <1> DEFINE a == SubSeq(q, 1, n)
             b == SubSeq(q, n + 1, Len(q))
  <1>1. Len(q) \in Nat /\ n \in Nat /\ n <= Len(q)
    OBVIOUS
  <1>2. /\ a \in Seq(S) /\ Len(a) = n /\ \A i \in 1..n : a[i] = q[i]
        /\ b \in Seq(S) /\ Len(b) = Len(q) - n /\ \A i \in 1..Len(q) - n : b[i] = q[n + i]
    BY <1>1
  <1> HIDE DEF a, b
  <1>3. /\ \A i \in 1..n : i \in 1..Len(q)
        /\ \A i \in 1..Len(q) - n : n + i \in 1..Len(q) /\ n + i > n
        /\ \A i \in 1..Len(q) : i <= n => i \in 1..n
        /\ \A i \in 1..Len(q) : i > n => i - n \in 1..Len(q) - n /\ n + (i - n) = i
    BY <1>1
  <1>4. Once(a)
    BY <1>2, <1>3 DEF Once
  <1>5. Once(b)
    <2> SUFFICES ASSUME NEW i \in 1..Len(b), NEW j \in 1..Len(b), b[i] = b[j] PROVE i = j
      BY DEF Once
    <2>1. i \in 1..Len(q) - n /\ j \in 1..Len(q) - n
      BY <1>2
    <2>2. q[n + i] = q[n + j] /\ n + i \in 1..Len(q) /\ n + j \in 1..Len(q)
      BY <1>2, <1>3, <2>1
    <2>3. n + i = n + j
      BY <2>2 DEF Once
    <2> QED BY <1>1, <2>1, <2>3
  <1>6. ToSet(a) = {a[i] : i \in 1..n} /\ ToSet(b) = {b[i] : i \in 1..Len(q) - n}
    <2>1. \A x \in Seq(S) : ToSet(x) = {x[i] : i \in 1..Len(x)}
      BY DEF ToSet
    <2>2. 1..Len(a) = 1..n /\ 1..Len(b) = 1..Len(q) - n
      BY <1>2
    <2> QED BY <1>2, <2>1, <2>2
  <1>7. ToSet(q) = {q[i] : i \in 1..Len(q)}
    BY DEF ToSet
  <1>8. ToSet(a) \cup ToSet(b) \subseteq ToSet(q)
    BY <1>2, <1>3, <1>6, <1>7
  <1>9. ToSet(q) \subseteq ToSet(a) \cup ToSet(b)
    <2> SUFFICES ASSUME NEW i \in 1..Len(q) PROVE q[i] \in ToSet(a) \cup ToSet(b)
      BY <1>7
    <2>1. CASE i <= n
      BY <1>2, <1>3, <1>6, <2>1
    <2>2. CASE i > n
      <3>1. b[i - n] = q[i] /\ i - n \in 1..Len(q) - n
        BY <1>2, <1>3, <2>2
      <3> QED BY <1>6, <3>1
    <2> QED BY <1>1, <2>1, <2>2
  <1>10. ToSet(a) \cap ToSet(b) = {}
    <2> SUFFICES ASSUME NEW i \in 1..n, NEW j \in 1..Len(q) - n, a[i] = b[j] PROVE FALSE
      BY <1>6
    <2>1. q[i] = q[n + j] /\ i \in 1..Len(q) /\ n + j \in 1..Len(q) /\ n + j > n
      BY <1>2, <1>3
    <2>2. i = n + j
      BY <2>1 DEF Once
    <2> QED BY <1>1, <2>1, <2>2
  <1> QED BY <1>2, <1>4, <1>5, <1>8, <1>9, <1>10 DEF a, b

(* GetQueuedCompletionStatusEx() moves completions from the port to a thread.*)
LEMMA CompletionsTaken ==
    ASSUME NEW ps, NEW hands, PortOK(ps, hands, Nothing), NEW n \in 0..Len(ps.done)
    PROVE  LET have == SubSeq(ps.done, 1, n)
               r    == [ps EXCEPT !.done = SubSeq(@, n + 1, Len(@))] IN
           /\ have \in Seq(Objs) /\ Once(have) /\ hands \cap ToSet(have) = {}
           /\ PortOK(r, hands \cup ToSet(have), Nothing)
           /\ r.polling = ps.polling /\ r.updates = ps.updates
           /\ Attached(ps) => Attached(r)
  <1> DEFINE have == SubSeq(ps.done, 1, n)
             rest == SubSeq(ps.done, n + 1, Len(ps.done))
             r == [ps EXCEPT !.done = rest]
             all == hands \cup ToSet(have)
  <1>1. ps \in PortStates /\ ps.done \in Seq(Objs) /\ Once(ps.done)
    BY DEF PortOK, PortStates
  <1>2. /\ have \in Seq(Objs) /\ rest \in Seq(Objs) /\ Once(have) /\ Once(rest)
        /\ ToSet(have) \cup ToSet(rest) = ToSet(ps.done) /\ ToSet(have) \cap ToSet(rest) = {}
    BY <1>1, QueueSplit
  <1> HIDE DEF have, rest
  <1>3. ToSet(have) \subseteq Objs
    BY <1>2 DEF ToSet
  <1>4. hands \cap ToSet(have) = {}
    BY <1>2, <1>3 DEF PortOK, ObjOK
  <1>5. /\ r \in PortStates /\ r.done = rest
        /\ r.updates = ps.updates /\ r.deletedQ = ps.deletedQ /\ r.tree = ps.tree /\ r.obj = ps.obj
        /\ r.poll = ps.poll /\ r.groups = ps.groups /\ r.size = ps.size /\ r.polling = ps.polling
    BY <1>1, <1>2 DEF PortStates
  <1> HIDE DEF r
  <1>6. ASSUME NEW p \in Objs PROVE ObjOK(r, all, p)
    <2>1. ObjOK(ps, hands, p)
      BY DEF PortOK
    <2>2. /\ p \in ToSet(r.done) \cup all <=> p \in ToSet(ps.done) \cup hands
          /\ p \in all => p \notin ToSet(r.done)
      <3>1. p \in hands => p \notin ToSet(ps.done)
        BY <2>1 DEF ObjOK
      <3> QED BY <1>2, <1>5, <3>1
    <2> HIDE DEF all
    <2> QED BY <1>5, <2>1, <2>2 DEF ObjOK
  <1>7. \A p \in Objs \ {Nothing} : Served(r, p)
    BY <1>5 DEF PortOK, Served
  <1>8. GroupShape(r) /\ GroupCounts(r)
    BY <1>5, SameGroups DEF PortOK
  <1>9. PortOK(r, all, Nothing)
    <2>1. Once(r.updates) /\ Once(r.done)
      BY <1>2, <1>5 DEF PortOK
    <2> QED BY <1>5, <1>6, <1>7, <1>8, <2>1 DEF PortOK
  <1>10. Attached(ps) => Attached(r)
    BY <1>5 DEF Attached
  <1> QED BY <1>2, <1>4, <1>5, <1>9, <1>10 DEF have, rest, r

(* A thread with completions in its hands has the port in order with those   *)
(* of the others.                                                            *)
LEMMA HandsFull ==
    ASSUME PInv, NEW t \in Threads, on[t] \in Ports
    PROVE  /\ PortOK(Here(t), InHands(on[t]), Nothing) /\ Here(t) = port[on[t]]
           /\ Here(t) \in PortStates /\ Here(t).polling \in Int
           /\ taken[t] \in Seq(Objs) /\ Once(taken[t]) /\ ToSet(taken[t]) \subseteq InHands(on[t])
           /\ InHands(on[t]) \ ToSet(taken[t]) = OtherHands(t)
           /\ faults = 0 => Attached(Here(t))
  <1>1. /\ PortOK(Here(t), InHands(on[t]), Nothing) /\ Here(t) = port[on[t]]
        /\ faults = 0 => Attached(Here(t))
    BY DEF PInv, PortsOK, PollsAttached, Here
  <1>2. Here(t) \in PortStates /\ Here(t).polling \in Int
    BY <1>1 DEF PortOK, PortStates
  <1>3. taken[t] \in Seq(Objs) /\ Once(taken[t])
    BY DEF PInv, WTypeOK, HandsApart
  <1>4. /\ InHands(on[t]) = OtherHands(t) \cup ToSet(taken[t])
        /\ OtherHands(t) \cap ToSet(taken[t]) = {}
    BY HandsSplit DEF PInv
  <1>5. /\ ToSet(taken[t]) \subseteq InHands(on[t])
        /\ InHands(on[t]) \ ToSet(taken[t]) = OtherHands(t)
    BY <1>4
  <1> QED BY <1>1, <1>2, <1>3, <1>5

(* GetQueuedCompletionStatusEx() returns with completions.                   *)
LEMMA TakeStep ==
    ASSUME PInv, HTypeOK, NEW t \in Threads, on[t] \in Ports, TakeCompletions(t)
    PROVE  PInv'
  <1> DEFINE ps == Here(t)
             n == IF Len(ps.done) < MaxEvents THEN Len(ps.done) ELSE MaxEvents
             have == SubSeq(ps.done, 1, n)
             x == [ps EXCEPT !.done = SubSeq(@, n + 1, Len(@))]
             place == "woken"
  <1>1. /\ at[t] = "asleep"
        /\ taken' = [taken EXCEPT ![t] = have]
        /\ port' = [port EXCEPT ![on[t]].done = SubSeq(@, n + 1, Len(@))]
        /\ at' = [at EXCEPT ![t] = place]
        /\ UNCHANGED <<hvars, told, world>>
    BY DEF TakeCompletions
  <1>2. port' = [port EXCEPT ![on[t]] = x]
    BY <1>1, StateTypes DEF Here
  <1>4. /\ PortOK(ps, OtherHands(t), Nothing) /\ ps = port[on[t]] /\ ps.polling \in Int
        /\ faults = 0 => Attached(ps)
    BY <1>1, EmptyHanded, HandsFull
  <1>5. Len(ps.done) \in Nat /\ n \in 0..Len(ps.done)
    <2>1. Len(ps.done) \in Nat
      BY <1>4 DEF PortOK, PortStates
    <2> HIDE DEF ps
    <2> QED BY <2>1, EpollBoundsAssumption
  <1> HIDE DEF n, ps
  <1>6. /\ have \in Seq(Objs) /\ Once(have) /\ OtherHands(t) \cap ToSet(have) = {}
        /\ PortOK(x, OtherHands(t) \cup ToSet(have), Nothing)
        /\ x.polling = ps.polling /\ x.updates = ps.updates
        /\ Attached(ps) => Attached(x)
    BY <1>4, <1>5, CompletionsTaken
  <1> HIDE DEF have, x
  <1>7. /\ place = "woken" /\ place \in Waiting /\ at[t] \in Waiting
        /\ place \in {"out", "entered"} \cup Waiting /\ place # "out" /\ pc[t] = "inside"
    BY <1>1 DEF Waiting, PInv, InsideHolds
  <1> HIDE DEF place
  <1>8. /\ on' = on /\ pc' = pc /\ told' = told /\ ready' = ready /\ closed' = closed
        /\ faults' = faults
    BY <1>1 DEF hvars, world
  <1>9. x.polling = port[on[t]].polling + (IF place \in Waiting THEN 1 ELSE 0)
                                        - (IF at[t] \in Waiting THEN 1 ELSE 0)
    BY <1>4, <1>6, <1>7
  <1>10. faults' = 0 /\ x.polling > 0 => x.updates = <<>>
    BY <1>4, <1>6, <1>8 DEF PInv, SleepersAreUpdated
  <1>11. /\ faults' \in 0..MaxFaults /\ faults' >= faults /\ told' \in [Threads -> SUBSET Sockets]
         /\ faults' = 0 => Attached(x)
    BY <1>4, <1>6, <1>8, StateTypes
  <1> QED BY <1>1, <1>2, <1>6, <1>7, <1>8, <1>9, <1>10, <1>11, InPortStep

(* A port on which one thread less sleeps.                                   *)
LEMMA OneSleepsLess ==
    ASSUME NEW ps, NEW hands, PortOK(ps, hands, Nothing)
    PROVE  LET x == [ps EXCEPT !.polling = @ - 1] IN
           PortOK(x, hands, Nothing) /\ x.polling = ps.polling - 1 /\ (Attached(ps) => Attached(x))
  <1> DEFINE n == ps.polling - 1
             x == [ps EXCEPT !.polling = n]
  <1>1. ps \in PortStates /\ n \in Int
    BY DEF PortOK, PortStates
  <1> HIDE DEF n
  <1>2. x \in PortStates /\ x.polling = n
    BY <1>1 DEF PortStates
  <1>3. SameButPolling(ps, x)
    BY <1>1 DEF PortStates, SameButPolling
  <1> HIDE DEF x
  <1>4. PortOK(x, hands, Nothing)
    BY <1>2, <1>3, SameButPollingKeeps
  <1>5. Attached(ps) => Attached(x)
    BY <1>3 DEF SameButPolling, Attached
  <1> QED BY <1>2, <1>4, <1>5 DEF x, n

(* ... or fails, and the thread leaves.                                      *)
LEMMA FailStep ==
    ASSUME PInv, HTypeOK, NEW t \in Threads, on[t] \in Ports, WaitFails(t)
    PROVE  PInv'
  <1> DEFINE x == [Here(t) EXCEPT !.polling = @ - 1]
  <1>1. /\ at[t] \in {"calling", "asleep"} /\ Leave(t) /\ told' = told
    BY DEF WaitFails
  <1>2. PICK u \in UpdateEventsIfPolling(x) : Put(t, u) /\ Count(u)
    BY DEF WaitFails
  <1>3. at[t] \in Waiting /\ at[t] # "woken"
    BY <1>1 DEF Waiting
  <1>4. /\ PortOK(Here(t), OtherHands(t), Nothing) /\ Here(t) = port[on[t]]
        /\ Here(t).polling \in Int /\ (faults = 0 => Attached(Here(t)))
    BY <1>3, EmptyHanded, HandsFull
  <1>5. /\ PortOK(x, OtherHands(t), Nothing) /\ x.polling = Here(t).polling - 1
        /\ faults = 0 => Attached(x)
    BY <1>4, OneSleepsLess
  <1> HIDE DEF x
  <1>6. x.polling = port[on[t]].polling - (IF at[t] \in Waiting THEN 1 ELSE 0)
    BY <1>3, <1>4, <1>5
  <1>7. told' \in [Threads -> SUBSET Sockets]
    BY <1>1, StateTypes
  <1> QED BY <1>1, <1>2, <1>5, <1>6, <1>7, LeavesUpdated

(* port__feed_events(): the thread reports sockets, or sleeps again.         *)
LEMMA FeedStep ==
    ASSUME PInv, HTypeOK, NEW t \in Threads, on[t] \in Ports, FeedEvents(t)
    PROVE  PInv'
  <1> DEFINE x == [Here(t) EXCEPT !.polling = @ - 1]
             r == FeedAll(x, taken[t])
  <1>1. /\ at[t] = "woken"
        /\ \/ /\ told' = [told EXCEPT ![t] = r.told]
              /\ \E u \in UpdateEventsIfPolling(r.port) : Put(t, u) /\ Count(u)
              /\ Leave(t)
           \/ PortPoll(t, r.port, timed[t])
    BY DEF FeedEvents
  <1>2. at[t] \in Waiting /\ at[t] # "out"
    BY <1>1 DEF Waiting
  <1>3. /\ PortOK(Here(t), InHands(on[t]), Nothing) /\ Here(t) = port[on[t]]
        /\ Here(t).polling \in Int
        /\ taken[t] \in Seq(Objs) /\ Once(taken[t]) /\ ToSet(taken[t]) \subseteq InHands(on[t])
        /\ InHands(on[t]) \ ToSet(taken[t]) = OtherHands(t)
        /\ faults = 0 => Attached(Here(t))
    BY HandsFull
  <1>4. /\ PortOK(x, InHands(on[t]), Nothing) /\ x.polling = Here(t).polling - 1
        /\ Attached(Here(t)) => Attached(x)
    BY <1>3, OneSleepsLess
  <1> HIDE DEF x
  <1>5. /\ PortOK(r.port, InHands(on[t]) \ ToSet(taken[t]), Nothing)
        /\ r.port.polling = x.polling /\ r.told \subseteq Sockets
        /\ Attached(x) => Attached(r.port)
    BY <1>3, <1>4, AllFed
  <1> HIDE DEF r
  <1>6. PortOK(r.port, OtherHands(t), Nothing) /\ (faults = 0 => Attached(r.port))
    BY <1>3, <1>4, <1>5
  <1>7. r.port.polling = port[on[t]].polling - (IF at[t] \in Waiting THEN 1 ELSE 0)
    BY <1>2, <1>3, <1>4, <1>5
  <1>8. CASE /\ told' = [told EXCEPT ![t] = r.told]
             /\ \E u \in UpdateEventsIfPolling(r.port) : Put(t, u) /\ Count(u)
             /\ Leave(t)
    <2>1. PICK u \in UpdateEventsIfPolling(r.port) : Put(t, u) /\ Count(u)
      BY <1>8
    <2>2. told' \in [Threads -> SUBSET Sockets]
      BY <1>5, <1>8, StateTypes
    <2> DEFINE ps == r.port
    <2> HIDE DEF ps
    <2>3. /\ u \in UpdateEventsIfPolling(ps) /\ PortOK(ps, OtherHands(t), Nothing)
          /\ faults = 0 => Attached(ps)
          /\ ps.polling = port[on[t]].polling - (IF at[t] \in Waiting THEN 1 ELSE 0)
      BY <1>6, <1>7, <2>1 DEF ps
    <2> QED BY <1>8, <2>1, <2>2, <2>3, LeavesUpdated
  <1>9. CASE PortPoll(t, r.port, timed[t])
    <2> DEFINE ps == r.port
    <2> HIDE DEF ps
    <2>1. /\ PortPoll(t, ps, timed[t]) /\ PortOK(ps, OtherHands(t), Nothing)
          /\ faults = 0 => Attached(ps)
          /\ ps.polling = port[on[t]].polling - (IF at[t] \in Waiting THEN 1 ELSE 0)
      BY <1>6, <1>7, <1>9 DEF ps
    <2> QED BY <1>2, <2>1, Polls
  <1> QED BY <1>1, <1>8, <1>9

(* port_wait() up to where it first drops the lock.                          *)
LEMMA WaitStep ==
    ASSUME PInv, HTypeOK, NEW t \in Threads, on[t] \in Ports, NEW limited, PortWait(t, limited)
    PROVE  PInv'
  <1> DEFINE ps == Here(t)
  <1>1. /\ at[t] \notin Waiting /\ at[t] # "out" /\ at[t] # "woken"
        /\ PortPoll(t, ps, limited)
    BY DEF PortWait, Waiting
  <1>2. /\ PortOK(ps, OtherHands(t), Nothing) /\ ps = port[on[t]] /\ ps.polling \in Int
        /\ faults = 0 => Attached(ps)
    BY <1>1, EmptyHanded, HandsFull
  <1> HIDE DEF ps
  <1>3. ps.polling = port[on[t]].polling - (IF at[t] \in Waiting THEN 1 ELSE 0)
    BY <1>1, <1>2
  <1> QED BY <1>1, <1>2, <1>3, Polls

(* A thread between the lock and its sleep reads the handle, and goes to     *)
(* sleep: nothing happens to the port.                                       *)
LEMMA CallStep ==
    ASSUME PInv, HTypeOK, NEW t \in Threads, on[t] \in Ports, LoadHandle(t) \/ EnterWait(t)
    PROVE  PInv'
  <1> DEFINE ps == Here(t)
             have == <<>>
  <1>1. PICK place \in {"calling", "asleep"} : at' = [at EXCEPT ![t] = place]
    BY DEF LoadHandle, EnterWait
  <1>2. /\ at[t] \in Waiting /\ at[t] # "woken" /\ at[t] # "out" /\ UNCHANGED <<hvars, port, taken, told, world>>
    BY DEF LoadHandle, EnterWait, Waiting
  <1>3. /\ PortOK(ps, OtherHands(t), Nothing) /\ taken[t] = <<>> /\ ps = port[on[t]]
        /\ ps.polling \in Int /\ (faults = 0 => Attached(ps))
    BY <1>2, EmptyHanded, HandsFull
  <1>4. /\ have \in Seq(Objs) /\ Once(have) /\ OtherHands(t) \cap ToSet(have) = {}
        /\ OtherHands(t) \cup ToSet(have) = OtherHands(t)
    BY EmptyHands DEF Once
  <1>5. /\ port' = [port EXCEPT ![on[t]] = ps] /\ taken' = [taken EXCEPT ![t] = have]
    BY <1>2, <1>3, StateTypes DEF PInv, WTypeOK
  <1>6. /\ on' = on /\ pc' = pc /\ told' = told /\ ready' = ready /\ closed' = closed
        /\ faults' = faults
    BY <1>2 DEF hvars, world
  <1>7. /\ place \in {"out", "entered"} \cup Waiting /\ place \in Waiting /\ place # "out"
        /\ have # <<>> => place = "woken"
    BY <1>1 DEF Waiting
  <1>8. pc[t] = "inside"
    BY <1>2 DEF PInv, InsideHolds
  <1>9. faults' = 0 /\ ps.polling > 0 => ps.updates = <<>>
    BY <1>3, <1>6 DEF PInv, SleepersAreUpdated
  <1>10. /\ faults' \in 0..MaxFaults /\ faults' >= faults /\ told' \in [Threads -> SUBSET Sockets]
         /\ faults' = 0 => Attached(ps)
    BY <1>3, <1>6, StateTypes
  <1> HIDE DEF ps, have
  <1>11. ps.polling = port[on[t]].polling + (IF place \in Waiting THEN 1 ELSE 0)
                                          - (IF at[t] \in Waiting THEN 1 ELSE 0)
    BY <1>2, <1>3, <1>7
  <1>12. PortOK(ps, OtherHands(t) \cup ToSet(have), Nothing)
    BY <1>3, <1>4
  <1> QED BY <1>1, <1>4, <1>5, <1>6, <1>7, <1>8, <1>9, <1>10, <1>11, <1>12, InPortStep

-----------------------------------------------------------------------------
(* Steps of threads outside the ports.                                       *)

(* A port as port_new() makes it is in order.                                *)
LEMMA NewPortOK ==
    /\ PortOK(NewPort, {}, Nothing) /\ NewPort.polling = 0 /\ NewPort.updates = <<>>
    /\ Attached(NewPort)
  <1>1. /\ NewPort.obj = [o \in Objs |-> FreeObj] /\ NewPort.tree = [s \in Sockets |-> Nothing]
        /\ NewPort.updates = <<>> /\ NewPort.deletedQ = {} /\ NewPort.groups = <<>>
        /\ NewPort.size = [g \in Groups |-> 0] /\ NewPort.poll = [o \in Objs |-> NoPoll]
        /\ NewPort.done = <<>> /\ NewPort.polling = 0
    BY DEF NewPort
  <1>2. NewPort \in PortStates
    BY AfdTypes DEF NewPort, PortStates
  <1>3. ASSUME NEW p \in Objs PROVE ObjOK(NewPort, {}, p) /\ Served(NewPort, p)
    <2>1. /\ NewPort.obj[p] = FreeObj /\ NewPort.poll[p].at = "none"
          /\ \A s \in Sockets : NewPort.tree[s] # p
          /\ p \notin ToSet(NewPort.updates) /\ p \notin ToSet(NewPort.done)
      BY <1>1, EmptyHands, NothingAssumption DEF NoPoll
    <2>2. /\ FreeObj.sock = Nothing /\ FreeObj.group = Nothing /\ FreeObj.status = "IDLE"
          /\ FreeObj.pending = {}
      BY DEF FreeObj
    <2> QED BY <1>1, <2>1, <2>2 DEF ObjOK, Served
  <1>4. GroupShape(NewPort)
    <2>1. 0 <= MaxGroupSize /\ 0 # MaxGroupSize /\ Len(<<>>) = 0
      BY MaxGroupSizeAssumption
    <2> QED BY <1>1, <2>1 DEF GroupShape, Once
  <1>5. GroupCounts(NewPort)
    <2> SUFFICES ASSUME NEW g \in Groups
                 PROVE  NewPort.size[g] = Cardinality(Users(NewPort, g))
      BY DEF GroupCounts
    <2>1. Users(NewPort, g) = {}
      BY <1>1, NothingAssumption DEF Users, FreeObj
    <2> QED BY <1>1, <2>1, FS_EmptySet
  <1>6. Once(NewPort.updates) /\ Once(NewPort.done)
    BY <1>1 DEF Once
  <1>7. Attached(NewPort)
    BY <1>1 DEF Attached, NoPoll
  <1> QED BY <1>1, <1>2, <1>3, <1>4, <1>5, <1>6, <1>7 DEF PortOK

(* Threads in a port stay there; others may come, and a port that nobody is  *)
(* in may be made new.                                                       *)
LEMMA OutsideStep ==
    ASSUME PInv, HTypeOK,
           at' \in [Threads -> {"out", "entered"} \cup Waiting], taken' = taken,
           told' \in [Threads -> SUBSET Sockets], ready' = ready, closed' = closed, faults' = faults,
           \A t \in Threads :
              /\ at[t] # "out" => at'[t] = at[t] /\ on'[t] = on[t]
              /\ at[t] = "out" => at'[t] \in {"out", "entered"}
              /\ at'[t] # "out" <=> pc'[t] = "inside",
           port' \in [Ports -> PortStates],
           \A p \in Ports : \/ port'[p] = port[p]
                            \/ port'[p] = NewPort /\ \A t \in Threads : on[t] = p => at[t] = "out"
    PROVE  PInv'
  <1>1. \A t \in Threads : taken[t] # <<>> => at[t] = "woken"
    BY DEF PInv, InsideHolds
  <1>2. \A t \in Threads : taken[t] # <<>> => on'[t] = on[t] /\ at'[t] = at[t]
    BY <1>1
  <1>3. \A t \in Threads : ToSet(taken[t]) # {} => on'[t] = on[t]
    BY <1>2, EmptyHands
  <1>4. WTypeOK'
    BY DEF PInv, WTypeOK
  <1>5. InsideHolds'
    BY <1>1, <1>2 DEF InsideHolds
  <1>6. HandsApart'
    <2> SUFFICES ASSUME NEW t \in Threads, NEW u \in Threads, t # u, on'[t] = on'[u]
                 PROVE  ToSet(taken[t]) \cap ToSet(taken[u]) = {}
      BY DEF PInv, HandsApart
    <2>1. CASE ToSet(taken[t]) # {} /\ ToSet(taken[u]) # {}
      <3>1. on[t] = on[u]
        BY <1>3, <2>1
      <3> QED BY <3>1 DEF PInv, HandsApart
    <2> QED BY <2>1
  <1>7. \A p : InHands(p)' = InHands(p)
    <2> SUFFICES ASSUME NEW p PROVE InHands(p)' = InHands(p)
      OBVIOUS
    <2>1. /\ InHands(p)' = UNION {ToSet(taken[t]) : t \in {u \in Threads : on'[u] = p}}
          /\ InHands(p) = UNION {ToSet(taken[t]) : t \in {u \in Threads : on[u] = p}}
      BY DEF InHands
    <2>2. \A x : x \in InHands(p)' <=> \E t \in Threads : on'[t] = p /\ x \in ToSet(taken[t])
      BY <2>1
    <2>3. \A x : x \in InHands(p) <=> \E t \in Threads : on[t] = p /\ x \in ToSet(taken[t])
      BY <2>1
    <2>4. \A x : x \in InHands(p)' <=> x \in InHands(p)
      BY <1>3, <2>2, <2>3
    <2> QED BY <2>4
  <1>8. \A p : Sleepers(p)' = Sleepers(p)
    BY DEF Sleepers, Waiting
  <1>9. PortsOK'
    <2> SUFFICES ASSUME NEW p \in Ports
                 PROVE  /\ PortOK(port'[p], InHands(p)', Nothing)
                        /\ port'[p].polling = Cardinality(Sleepers(p)')
      BY DEF PortsOK
    <2>1. PortOK(port[p], InHands(p), Nothing) /\ port[p].polling = Cardinality(Sleepers(p))
      BY DEF PInv, PortsOK
    <2>2. CASE port'[p] = port[p]
      <3>1. InHands(p)' = InHands(p) /\ Sleepers(p)' = Sleepers(p)
        BY <1>7, <1>8
      <3> QED BY <2>1, <2>2, <3>1
    <2>3. CASE port'[p] = NewPort /\ \A t \in Threads : on[t] = p => at[t] = "out"
      <3>1. Sleepers(p) = {}
        BY <2>3 DEF Sleepers, Waiting
      <3>2. \A t \in Threads : on[t] = p => taken[t] = <<>>
        BY <1>1, <2>3
      <3>3. InHands(p) = {}
        BY <3>2, EmptyHands DEF InHands
      <3>4. InHands(p)' = {} /\ Sleepers(p)' = {}
        BY <1>7, <1>8, <3>1, <3>3
      <3>5. Cardinality(Sleepers(p)') = 0
        BY <3>4, FS_EmptySet
      <3> QED BY <2>3, <3>4, <3>5, NewPortOK
    <2> QED BY <2>2, <2>3
  <1>10. SleepersAreUpdated'
    <2> SUFFICES ASSUME faults = 0, NEW p \in Ports, port'[p].polling > 0
                 PROVE  port'[p].updates = <<>>
      BY DEF SleepersAreUpdated
    <2>1. port[p].polling > 0 => port[p].updates = <<>>
      BY DEF PInv, SleepersAreUpdated
    <2> QED BY <2>1, NewPortOK
  <1>11. PollsAttached'
    <2> SUFFICES ASSUME faults = 0, NEW p \in Ports PROVE Attached(port'[p])
      BY DEF PollsAttached, Attached
    <2>1. Attached(port[p])
      BY DEF PInv, PollsAttached
    <2> QED BY <2>1, NewPortOK
  <1> QED BY <1>4, <1>5, <1>6, <1>9, <1>10, <1>11 DEF PInv

(* epoll_create(), reflock_unref() and epoll_close() up to port_delete(): no *)
(* thread enters or leaves a port in them, and one that is in it stays.      *)
LEMMA OutsidePorts ==
    ASSUME PInv, HInv, HTypeOK', NEW t \in Threads,
           EpollCreate(t) \/ EpollUnref(t) \/ EpollClose(t) \/ EpollPortClose(t) \/ EpollCloseStep(t)
    PROVE  PInv'
  <1>1. HTypeOK /\ pc \in [Threads -> Places] /\ on \in [Threads -> Ports \cup {None}]
    BY DEF HInv, Uncounted, HTypeOK
  <1>2. at' = at /\ taken' = taken /\ port' = port /\ ready' = ready /\ closed' = closed
        /\ faults' = faults
    BY DEF EpollCreate, EpollUnref, EpollClose, EpollPortClose, EpollCloseStep, wvars, world
  <1>3. told' \in [Threads -> SUBSET Sockets]
    BY StateTypes DEF EpollCreate, EpollUnref, EpollClose, EpollPortClose, EpollCloseStep, wvars
  <1>4. \A u \in Threads : at[u] # "out" <=> pc[u] = "inside"
    BY DEF PInv, InsideHolds
  <1>5. \A u \in Threads : /\ pc'[u] = "inside" <=> pc[u] = "inside"
                           /\ pc[u] = "inside" => on'[u] = on[u]
    <2>1. CASE EpollCreate(t)
      BY <1>1, <2>1 DEF EpollCreate, PortNew, Goto
    <2>2. CASE EpollUnref(t)
      BY <1>1, <2>2 DEF EpollUnref, ReflockUnref, Goto, Return
    <2>3. CASE EpollClose(t)
      BY <1>1, <2>3 DEF EpollClose, TsTreeDelAndRef, Goto
    <2>4. CASE EpollCloseStep(t)
      BY <1>1, <2>4 DEF EpollCloseStep, TsTreeAdd, ReflockUnrefAndDestroy,
                        ReflockPoison, KeyedEvent, Goto, Return
    <2>5. CASE EpollPortClose(t)
      BY <1>1, <2>5 DEF EpollPortClose, PortClose, Goto
    <2> QED BY <2>1, <2>2, <2>3, <2>4, <2>5
  <1>6. /\ at' \in [Threads -> {"out", "entered"} \cup Waiting]
        /\ port' \in [Ports -> PortStates]
        /\ \A p \in Ports : port'[p] = port[p]
    BY <1>2 DEF PInv, WTypeOK
  <1>7. \A u \in Threads : /\ at[u] # "out" => at'[u] = at[u] /\ on'[u] = on[u]
                           /\ at[u] = "out" => at'[u] \in {"out", "entered"}
                           /\ at'[u] # "out" <=> pc'[u] = "inside"
    BY <1>2, <1>4, <1>5
  <1> QED BY <1>1, <1>2, <1>3, <1>6, <1>7, OutsideStep

(* epoll_ctl() and epoll_wait() on their way in.                             *)
LEMMA FindStep ==
    ASSUME PInv, HInv, NEW t \in Threads, EpollFindPort(t)
    PROVE  PInv'
  <1>1. HTypeOK /\ pc \in [Threads -> Places] /\ on \in [Threads -> Ports \cup {None}]
    BY DEF HInv, Uncounted, HTypeOK
  <1>2. PICK h \in Handles : TsTreeFindAndRef(t, h)
    BY DEF EpollFindPort
  <1>3. /\ at' = [at EXCEPT ![t] = "entered"] /\ taken' = taken /\ port' = port /\ told' = told
        /\ ready' = ready /\ closed' = closed /\ faults' = faults
    BY DEF EpollFindPort, world
  <1>4. /\ pc[t] = "idle" /\ pc' = [pc EXCEPT ![t] = "inside"]
        /\ \A u \in Threads \ {t} : on'[u] = on[u]
    BY <1>1, <1>2 DEF TsTreeFindAndRef, Goto
  <1>5. \A u \in Threads : at[u] # "out" <=> pc[u] = "inside"
    BY DEF PInv, InsideHolds
  <1>6. /\ at \in [Threads -> {"out", "entered"} \cup Waiting] /\ port \in [Ports -> PortStates]
        /\ told' \in [Threads -> SUBSET Sockets]
    BY <1>3, StateTypes DEF PInv, WTypeOK
  <1>7. /\ at' \in [Threads -> {"out", "entered"} \cup Waiting]
        /\ port' \in [Ports -> PortStates] /\ \A p \in Ports : port'[p] = port[p]
    BY <1>3, <1>6
  <1>8. \A u \in Threads : /\ at[u] # "out" => at'[u] = at[u] /\ on'[u] = on[u]
                           /\ at[u] = "out" => at'[u] \in {"out", "entered"}
                           /\ at'[u] # "out" <=> pc'[u] = "inside"
    BY <1>1, <1>3, <1>4, <1>5, <1>6
  <1> QED BY <1>1, <1>3, <1>6, <1>7, <1>8, OutsideStep

(* The ports change, but for the number of threads that sleep on them and    *)
(* the updates these wait for, and no thread moves.                          *)
LEMMA OutsideWorld ==
    ASSUME PInv, UNCHANGED <<hvars, wvars>>,
           ready' \in [Sockets -> SUBSET Conditions], closed' \subseteq Sockets,
           faults' \in 0..MaxFaults, faults' >= faults,
           port' \in [Ports -> PortStates],
           \A p \in Ports : /\ PortOK(port'[p], InHands(p), Nothing)
                            /\ port'[p].polling = port[p].polling
                            /\ port'[p].updates = port[p].updates \/ port[p].polling = 0
                            /\ faults' = 0 /\ Attached(port[p]) => Attached(port'[p])
    PROVE  PInv'
  <1>1. at' = at /\ taken' = taken /\ told' = told /\ pc' = pc /\ on' = on
    BY DEF wvars, hvars
  <1>2. \A p : InHands(p)' = InHands(p) /\ Sleepers(p)' = Sleepers(p)
    BY <1>1 DEF InHands, Sleepers
  <1>3. WTypeOK'
    BY <1>1 DEF PInv, WTypeOK
  <1>4. InsideHolds' /\ HandsApart'
    BY <1>1 DEF PInv, InsideHolds, HandsApart
  <1>5. PortsOK'
    <2> SUFFICES ASSUME NEW p \in Ports
                 PROVE  /\ PortOK(port'[p], InHands(p)', Nothing)
                        /\ port'[p].polling = Cardinality(Sleepers(p)')
      BY DEF PortsOK
    <2>1. port[p].polling = Cardinality(Sleepers(p))
      BY DEF PInv, PortsOK
    <2>2. InHands(p)' = InHands(p) /\ Sleepers(p)' = Sleepers(p)
      BY <1>2
    <2> QED BY <2>1, <2>2
  <1>6. SleepersAreUpdated'
    <2> SUFFICES ASSUME faults' = 0, NEW p \in Ports, port'[p].polling > 0
                 PROVE  port'[p].updates = <<>>
      BY DEF SleepersAreUpdated
    <2>1. faults = 0 /\ port[p].polling > 0
      BY StateTypes
    <2> QED BY <2>1 DEF PInv, SleepersAreUpdated
  <1>7. PollsAttached'
    <2> SUFFICES ASSUME faults' = 0, NEW p \in Ports PROVE Attached(port'[p])
      BY DEF PollsAttached, Attached
    <2>1. faults = 0
      BY StateTypes
    <2> QED BY <2>1 DEF PInv, PollsAttached
  <1> QED BY <1>3, <1>4, <1>5, <1>6, <1>7 DEF PInv

(* A thread in port_delete() is alone on the port, so that no completion is  *)
(* in hands and nobody sleeps.                                               *)
LEMMA AloneToDelete ==
    ASSUME PInv, HInv, NEW t \in Threads, pc[t] = "delete"
    PROVE  /\ on[t] \in Ports /\ InHands(on[t]) = {}
           /\ PortOK(port[on[t]], {}, Nothing) /\ port[on[t]].polling = 0
           /\ faults = 0 => Attached(port[on[t]])
  <1> DEFINE p == on[t]
  <1>1. p \in Ports
    BY DEF HInv, Uncounted, HTypeOK, Placed
  <1>2. \A u \in Threads : on[u] = p => at[u] = "out" /\ taken[u] = <<>>
    <2>1. \A u \in Threads : on[u] = p => pc[u] = "delete"
      BY DEF HInv, Uncounted, Alone
    <2> QED BY <2>1 DEF PInv, InsideHolds
  <1>3. InHands(p) = {} /\ Sleepers(p) = {}
    BY <1>2, EmptyHands DEF InHands, Sleepers, Waiting
  <1>4. /\ PortOK(port[p], InHands(p), Nothing) /\ port[p].polling = Cardinality(Sleepers(p))
        /\ faults = 0 => Attached(port[p])
    BY <1>1 DEF PInv, PortsOK, PollsAttached
  <1>5. PortOK(port[p], {}, Nothing) /\ port[p].polling = 0
    BY <1>3, <1>4, FS_EmptySet
  <1> QED BY <1>1, <1>3, <1>4, <1>5

(* port_delete() frees an object.                                            *)
LEMMA DeleteSocketStep ==
    ASSUME PInv, HInv, NEW t \in Threads, EpollDeleteSocket(t)
    PROVE  PInv'
  <1> DEFINE p == on[t]
  <1>1. pc[t] = "delete" /\ UNCHANGED <<hvars, wvars, ready, closed>>
    BY DEF EpollDeleteSocket
  <1>5. p \in Ports /\ InHands(p) = {} /\ PortOK(port[p], {}, Nothing) /\ port[p].polling = 0
    BY <1>1, AloneToDelete
  <1>6. PICK o \in NextToDelete(port[p]) : \E fails \in CancelOutcomes(port[p], o) :
           port' = [port EXCEPT ![p] = SockForceDelete(port[p], o, fails)] /\ Count([ok |-> ~fails])
    BY DEF EpollDeleteSocket, Put, Here
  <1>14. PICK fails \in CancelOutcomes(port[p], o) :
           port' = [port EXCEPT ![p] = SockForceDelete(port[p], o, fails)] /\ Count([ok |-> ~fails])
    BY <1>6
  <1> DEFINE r == SockForceDelete(port[p], o, fails)
  <1>7. fails \in BOOLEAN /\ (fails => faults < MaxFaults)
    BY DEF CancelOutcomes
  <1>8. o \in Live(port[p])
    BY <1>5, NextLives
  <1> HIDE DEF p
  <1>9. /\ PortOK(r, {}, Nothing) /\ r.polling = port[p].polling
        /\ Attached(port[p]) => Attached(r)
    BY <1>5, <1>7, <1>8, SockForceDeleted
  <1>10. port' = [port EXCEPT ![p] = r]
    BY <1>14
  <1> HIDE DEF r
  <1>11. faults' \in 0..MaxFaults /\ faults' >= faults
    <2>1. faults' = faults + IF ~fails THEN 0 ELSE 1
      BY <1>14 DEF Count
    <2>2. CASE fails
      BY <1>7, <2>1, <2>2, StateTypes
    <2>3. CASE ~fails
      BY <2>1, <2>3, StateTypes
    <2> QED BY <1>7, <2>2, <2>3
  <1>12. /\ port' \in [Ports -> PortStates]
         /\ \A q \in Ports : /\ PortOK(port'[q], InHands(q), Nothing)
                             /\ port'[q].polling = port[q].polling
                             /\ port'[q].updates = port[q].updates \/ port[q].polling = 0
                             /\ faults' = 0 /\ Attached(port[q]) => Attached(port'[q])
    <2>1. port'[p] = r /\ \A q \in Ports \ {p} : port'[q] = port[q]
      BY <1>5, <1>10, StateTypes
    <2>2. \A q \in Ports : PortOK(port[q], InHands(q), Nothing)
      BY DEF PInv, PortsOK
    <2>3. r \in PortStates
      BY <1>9 DEF PortOK
    <2>4. port' \in [Ports -> PortStates]
      BY <1>10, <2>3, StateTypes
    <2>5. /\ PortOK(port'[p], InHands(p), Nothing) /\ port'[p].polling = port[p].polling
          /\ Attached(port[p]) => Attached(port'[p])
      BY <1>5, <1>9, <2>1
    <2> QED BY <1>5, <2>1, <2>2, <2>4, <2>5
  <1>13. ready' \in [Sockets -> SUBSET Conditions] /\ closed' \subseteq Sockets
    BY <1>1 DEF PInv, WTypeOK
  <1> QED BY <1>1, <1>11, <1>12, <1>13, OutsideWorld

(* port_delete(): the thread is alone on the port.                           *)
LEMMA DeleteStep ==
    ASSUME PInv, HInv, NEW t \in Threads, EpollDelete(t)
    PROVE  PInv'
  <1>1. HTypeOK /\ pc \in [Threads -> Places] /\ on \in [Threads -> Ports \cup {None}]
    BY DEF HInv, Uncounted, HTypeOK
  <1>2. /\ pc[t] = "delete" /\ pc' = [pc EXCEPT ![t] = "idle"] /\ on' = [on EXCEPT ![t] = None]
        /\ port' = [port EXCEPT ![on[t]] = NewPort]
        /\ at' = at /\ taken' = taken /\ told' = told
        /\ ready' = ready /\ closed' = closed /\ faults' = faults
    BY DEF EpollDelete, PortDelete, Return, Goto, wvars, world
  <1>3. \A u \in Threads : at[u] # "out" <=> pc[u] = "inside"
    BY DEF PInv, InsideHolds
  <1>4. \A u \in Threads : on[u] = on[t] => at[u] = "out"
    BY <1>2, <1>3 DEF HInv, Uncounted, Alone
  <1>5. /\ at' \in [Threads -> {"out", "entered"} \cup Waiting] /\ port \in [Ports -> PortStates]
        /\ told' \in [Threads -> SUBSET Sockets]
    BY <1>2, StateTypes DEF PInv, WTypeOK
  <1>6. NewPort \in PortStates
    BY NewPortOK DEF PortOK
  <1>7. port' \in [Ports -> PortStates]
    BY <1>2, <1>5, <1>6
  <1>8. \A p \in Ports : \/ port'[p] = port[p]
                         \/ port'[p] = NewPort /\ \A u \in Threads : on[u] = p => at[u] = "out"
    BY <1>2, <1>4, <1>5
  <1>9. \A u \in Threads : /\ at[u] # "out" => at'[u] = at[u] /\ on'[u] = on[u]
                           /\ at[u] = "out" => at'[u] \in {"out", "entered"}
                           /\ at'[u] # "out" <=> pc'[u] = "inside"
    BY <1>1, <1>2, <1>3
  <1> QED BY <1>1, <1>2, <1>5, <1>7, <1>8, <1>9, OutsideStep

(* A step in which nothing of all this changes.                              *)
LEMMA PortsUntouched ==
    ASSUME PInv, UNCHANGED <<hvars, port, wvars, ready, closed, faults>>
    PROVE  PInv'
  BY DEF hvars, wvars, PInv, WTypeOK, InsideHolds, HandsApart, PortsOK, SleepersAreUpdated,
         PollsAttached, InHands, Sleepers

(* Every step of a thread keeps the invariant.                               *)
LEMMA ThreadStep ==
    ASSUME PInv, HInv, HTypeOK', NEW t \in Threads, Calls(t) \/ Inside(t) \/ Steps(t)
    PROVE  PInv'
  <1>1. HTypeOK /\ allocated \subseteq Ports
    BY DEF HInv, Uncounted, HTypeOK
  <1>2. at[t] # "out" => on[t] \in Ports
    BY <1>1 DEF HInv, Uncounted, Placed, PInv, InsideHolds
  <1>3. CASE Calls(t)
    BY <1>3, OutsidePorts, FindStep DEF Calls
  <1>4. CASE Inside(t)
    <2>1. ASSUME NEW s \in Sockets, NEW events \in Interests,
                 PortCtlAdd(t, s, events) \/ PortCtlMod(t, s, events)
          PROVE  PInv'
      <3>1. at[t] # "out"
        BY <2>1 DEF PortCtlAdd, PortCtlMod
      <3>2. events \in Masks
        BY InterestsAssumption DEF Masks
      <3> QED BY <1>1, <1>2, <2>1, <3>1, <3>2, CtlStep
    <2>2. ASSUME NEW s \in Sockets, PortCtlDel(t, s) PROVE PInv'
      <3>1. at[t] # "out"
        BY <2>2 DEF PortCtlDel
      <3>2. {} \in Masks
        BY DEF Masks
      <3> QED BY <1>1, <1>2, <2>2, <3>1, <3>2, CtlStep
    <2>3. ASSUME NEW limited \in BOOLEAN, PortWait(t, limited) PROVE PInv'
      <3>1. at[t] # "out"
        BY <2>3 DEF PortWait
      <3> QED BY <1>1, <1>2, <2>3, <3>1, WaitStep
    <2> QED BY <1>4, <2>1, <2>2, <2>3 DEF Inside
  <1>5. CASE LoadHandle(t) \/ EnterWait(t) \/ TakeCompletions(t) \/ WaitFails(t) \/ FeedEvents(t)
    <2>1. on[t] \in Ports
      BY <1>2, <1>5 DEF LoadHandle, EnterWait, TakeCompletions, WaitFails, FeedEvents
    <2> QED BY <1>1, <1>5, <2>1, CallStep, TakeStep, FailStep, FeedStep
  <1>6. CASE EpollUnref(t) \/ EpollPortClose(t) \/ EpollCloseStep(t)
    BY <1>6, OutsidePorts
  <1>7. CASE EpollDeleteSocket(t) \/ EpollDelete(t)
    BY <1>7, DeleteSocketStep, DeleteStep
  <1>8. CASE TakeAnothers(t)
    BY <1>8, PortsUntouched DEF TakeAnothers
  <1> QED BY <1>3, <1>4, <1>5, <1>6, <1>7, <1>8 DEF Steps

-----------------------------------------------------------------------------
(* The driver and the sockets.                                               *)

(* A poll operation that is with the driver completes.                       *)
LEMMA DoneType ==
    ASSUME NEW ps \in PortStates, NEW o \in Objs, NEW res \in SUBSET AfdFlags
    PROVE  Done(ps, o, res) \in PortStates
  <1>1. [at |-> "done", set |-> res] \in PollStates
    BY DEF PollStates
  <1>2. Append(ps.done, o) \in Seq(Objs)
    BY DEF PortStates
  <1>3. [ps EXCEPT !.poll[o] = [at |-> "done", set |-> res]] \in PortStates
    BY <1>1 DEF PortStates
  <1> QED BY <1>2, <1>3 DEF Done, PortStates

(* ... and nothing else of the port changes.                                 *)
LEMMA OneDone ==
    ASSUME NEW ps, NEW hands, PortOK(ps, hands, Nothing), NEW o \in Objs,
           ps.poll[o].at = "kernel", NEW res \in SUBSET AfdFlags
    PROVE  LET r == Done(ps, o, res) IN
           /\ PortOK(r, hands, Nothing) /\ r.polling = ps.polling /\ r.updates = ps.updates
           /\ \A p \in Objs \ {o} : r.poll[p] = ps.poll[p]
           /\ Attached(ps) => Attached(r)
  <1> DEFINE r == Done(ps, o, res)
             now == [at |-> "done", set |-> res]
  <1>1. /\ ps \in PortStates /\ ObjOK(ps, hands, o) /\ Once(ps.updates) /\ Once(ps.done)
        /\ GroupShape(ps) /\ GroupCounts(ps) /\ Served(ps, o)
    BY NothingAssumption DEF PortOK
  <1>2. r \in PortStates
    BY <1>1, DoneType
  <1>3. /\ r.obj = ps.obj /\ r.tree = ps.tree /\ r.updates = ps.updates /\ r.deletedQ = ps.deletedQ
        /\ r.groups = ps.groups /\ r.size = ps.size /\ r.polling = ps.polling
        /\ r.done = Append(ps.done, o) /\ r.poll = [ps.poll EXCEPT ![o] = now]
    BY <1>1 DEF Done, PortStates
  <1>4. /\ r.poll[o].at = "done" /\ \A p \in Objs \ {o} : r.poll[p] = ps.poll[p]
    BY <1>1, <1>3 DEF PortStates
  <1> HIDE DEF r
  <1>5. o \notin ToSet(ps.done) /\ o \notin hands
    BY <1>1 DEF ObjOK
  <1>6. Once(r.done) /\ ToSet(r.done) = ToSet(ps.done) \cup {o}
    <2>1. ps.done \in Seq(Objs)
      BY <1>1 DEF PortStates
    <2> QED BY <1>1, <1>3, <1>5, <2>1, AppendOnce
  <1>7. ObjOK(r, hands, o)
    BY <1>1, <1>3, <1>4, <1>5, <1>6 DEF ObjOK
  <1>8. Frame(ps, r, o)
    BY <1>3, <1>4, <1>6 DEF Frame
  <1>9. GroupShape(r) /\ GroupCounts(r)
    BY <1>1, <1>3, SameGroups
  <1>10. Served(r, o)
    BY <1>1, <1>3 DEF Served
  <1>11. PortOK(r, hands, Nothing)
    <2>1. hands \ {o} = hands \ {o} /\ (PortOK(ps, hands, Nothing) \/ PortOK(ps, hands, o))
          /\ Once(r.updates)
      BY <1>1, <1>3
    <2> QED BY <1>2, <1>6, <1>7, <1>8, <1>9, <1>10, <2>1, OneObject
  <1>12. Attached(ps) => Attached(r)
    BY <1>4, <1>8, FrameAttached
  <1> QED BY <1>3, <1>4, <1>11, <1>12 DEF r

(* closesocket(), one poll operation at a time.                              *)
Closed(ps, hit) == FoldLeft(LAMBDA x, o : Done(x, o, {"LOCAL_CLOSE"}), ps, SetToSeq(hit))
CloseRun(ps, hit, seq, run) ==
    /\ run[0] = ps /\ run[Len(seq)] = Closed(ps, hit)
    /\ \A k \in 1..Len(seq) : run[k] = Done(run[k - 1], seq[k], {"LOCAL_CLOSE"})

(* closesocket() goes through the poll operations in some order, each once.  *)
LEMMA CloseRuns ==
    ASSUME NEW ps \in PortStates, NEW hit \in SUBSET Objs
    PROVE  \E seq, run :
              seq \in Seq(Objs) /\ Once(seq) /\ ToSet(seq) = hit /\ CloseRun(ps, hit, seq, run)
  <1> DEFINE seq == SetToSeq(hit)
             n == Cardinality(hit)
             res == {"LOCAL_CLOSE"}
             F == [x \in PortStates \X Objs |-> Done(x[1], x[2], res)]
  <1>0. IsFiniteSet(hit) /\ res \in SUBSET AfdFlags
    BY ObjsAssumption, FS_Subset DEF AfdFlags
  <1>1. n \in Nat
    BY <1>0, FS_CardinalityType
  <1>2. seq \in [1..n -> Objs] /\ seq \in Seq(Objs) /\ Len(seq) = n
        /\ Once(seq) /\ ToSet(seq) = hit
    <2>1. /\ seq \in [1..n -> hit] /\ Len(seq) = n /\ Once(seq)
          /\ ToSet(seq) = hit
      BY <1>0, SetAsSeq
    <2> HIDE DEF seq, n
    <2> QED BY <1>0, <1>1, <2>1
  <1> HIDE DEF res
  <1>3. F \in [PortStates \X Objs -> PortStates]
    BY <1>0, DoneType
  <1>4. \A x \in PortStates, o \in Objs : F[<<x, o>>] = Done(x, o, res)
    OBVIOUS
  <1> HIDE DEF seq, n, F
  <1>5. PICK f : IsFold(f, PortStates, F, ps, seq, n)
    BY <1>1, <1>2, <1>3, FoldExists
  <1> DEFINE G == CHOOSE g : g = [s \in SUBSET (DOMAIN seq) |->
                        IF s = {} THEN ps ELSE Done(g[s \ {Max(s)}], seq[Max(s)], res)]
  <1>6. \E g : g = [s \in SUBSET (DOMAIN seq) |->
                        IF s = {} THEN ps ELSE Done(g[s \ {Max(s)}], seq[Max(s)], res)]
    <2>1. DOMAIN seq = 1..n
      BY <1>2
    <2>2. ASSUME NEW s \in SUBSET (1..n), s # {}
          PROVE  f[s] = Done(f[s \ {Max(s)}], seq[Max(s)], res)
      <3>1. Max(s) \in s
        BY <1>1, <2>2, MaxIsIn
      <3>2. f[s \ {Max(s)}] \in PortStates /\ seq[Max(s)] \in Objs
        BY <1>2, <1>5, <3>1 DEF IsFold
      <3> QED BY <1>4, <1>5, <2>2, <3>2 DEF IsFold
    <2>3. f = [s \in SUBSET (1..n) |->
                   IF s = {} THEN ps ELSE Done(f[s \ {Max(s)}], seq[Max(s)], res)]
      BY <1>5, <2>2 DEF IsFold
    <2> QED BY <2>1, <2>3
  <1>7. G = [s \in SUBSET (DOMAIN seq) |->
                  IF s = {} THEN ps ELSE Done(G[s \ {Max(s)}], seq[Max(s)], res)]
    BY <1>6, Zenon
  <1>8. Closed(ps, hit) = G[1..n]
    BY <1>2 DEF Closed, FoldLeft, MapThenFoldSet, seq, res
  <1> HIDE DEF G
  <1> DEFINE run == [k \in 0..n |-> G[1..k]]
  <1>9. run[0] = ps /\ run[n] = Closed(ps, hit)
    <2>1. 1..0 = {} /\ {} \in SUBSET (DOMAIN seq) /\ n \in 0..n
      BY <1>1
    <2>2. G[{}] = ps
      BY <1>7, <2>1
    <2> QED BY <1>1, <1>8, <2>1, <2>2
  <1>10. ASSUME NEW k \in 1..n PROVE run[k] = Done(run[k - 1], seq[k], res)
    <2>1. 1..k \in SUBSET (1..n) /\ 1..k # {} /\ k \in Nat /\ k >= 1
      <3>1. k \in Nat /\ k >= 1 /\ k <= n /\ k \in 1..k
        BY <1>1
      <3>2. \A j \in 1..k : j \in 1..n
        BY <1>1, <3>1
      <3> QED BY <3>1, <3>2
    <2>2. Max(1..k) = k
      BY <2>1, MaxOfInterval
    <2>3. (1..k) \ {k} = 1..k - 1
      BY <2>1
    <2>4. G[1..k] = Done(G[1..k - 1], seq[k], res)
      <3>1. DOMAIN seq = 1..n
        BY <1>2
      <3>2. G[1..k] = Done(G[(1..k) \ {Max(1..k)}], seq[Max(1..k)], res)
        BY <1>7, <2>1, <3>1
      <3> QED BY <2>2, <2>3, <3>2
    <2>5. run[k] = G[1..k] /\ run[k - 1] = G[1..k - 1]
      BY <1>1
    <2> QED BY <1>2, <2>4, <2>5
  <1> HIDE DEF run
  <1>11. CloseRun(ps, hit, seq, run)
    BY <1>2, <1>9, <1>10 DEF CloseRun, res
  <1> QED BY <1>2, <1>11

(* ... and leaves the port in order.                                         *)
LEMMA AllClosed ==
    ASSUME NEW ps, NEW hands, PortOK(ps, hands, Nothing), NEW hit \in SUBSET Objs,
           \A o \in hit : ps.poll[o].at = "kernel"
    PROVE  LET r == Closed(ps, hit) IN
           /\ PortOK(r, hands, Nothing) /\ r.polling = ps.polling /\ r.updates = ps.updates
           /\ Attached(ps) => Attached(r)
  <1>1. PICK seq, run : seq \in Seq(Objs) /\ Once(seq) /\ ToSet(seq) = hit /\ CloseRun(ps, hit, seq, run)
    BY CloseRuns DEF PortOK
  <1> DEFINE n == Len(seq)
             Fine(x, k) == /\ PortOK(x, hands, Nothing)
                           /\ x.polling = ps.polling /\ x.updates = ps.updates
                           /\ Attached(ps) => Attached(x)
                           /\ \A i \in k + 1..n : x.poll[seq[i]].at = "kernel"
             K == {k \in 0..n : Fine(run[k], k)}
  <1>2. n \in Nat /\ \A i \in 1..n : seq[i] \in hit
    BY <1>1 DEF ToSet
  <1>3. 0 \in K
    <2>1. run[0] = ps /\ 0 \in 0..n
      BY <1>1, <1>2 DEF CloseRun
    <2> QED BY <1>2, <2>1
  <1>4. ASSUME NEW k \in 1..n, k - 1 \in K PROVE k \in K
    <2> DEFINE x == run[k - 1]
               y == run[k]
               o == seq[k]
    <2>1. k \in 0..n /\ (k - 1) + 1 = k /\ k \in (k - 1) + 1..n /\ o \in Objs
      BY <1>2
    <2>2. y = Done(x, o, {"LOCAL_CLOSE"})
      BY <1>1 DEF CloseRun
    <2>3. Fine(x, k - 1)
      BY <1>4
    <2>4. x.poll[o].at = "kernel"
      BY <2>1, <2>3
    <2>5. \A i \in k + 1..n : i \in (k - 1) + 1..n /\ seq[i] \in Objs \ {o}
      <3>1. \A i \in k + 1..n : i \in 1..n /\ i # k /\ i \in (k - 1) + 1..n
        BY <1>2
      <3> QED BY <1>1, <1>2, <3>1 DEF Once
    <2>6. {"LOCAL_CLOSE"} \in SUBSET AfdFlags
      BY DEF AfdFlags
    <2>7. PortOK(x, hands, Nothing)
      BY <2>3
    <2> HIDE DEF x, y, o
    <2>8. /\ PortOK(y, hands, Nothing) /\ y.polling = x.polling /\ y.updates = x.updates
          /\ \A p \in Objs \ {o} : y.poll[p] = x.poll[p]
          /\ Attached(x) => Attached(y)
      BY <2>1, <2>2, <2>4, <2>6, <2>7, OneDone
    <2>9. Fine(y, k)
      BY <2>3, <2>5, <2>8
    <2> HIDE DEF Fine
    <2> QED BY <2>1, <2>9 DEF y
  <1> HIDE DEF K
  <1>5. n \in K
    <2>1. \A k \in 0..n : k \in K
      BY <1>2, <1>3, <1>4, RunInduction
    <2>2. n \in 0..n
      BY <1>2
    <2> QED BY <2>1, <2>2
  <1>6. run[n] = Closed(ps, hit)
    BY <1>1 DEF CloseRun
  <1> QED BY <1>5, <1>6 DEF K

(* One poll operation completes, with what is ready or with a failure.       *)
LEMMA PollStep ==
    ASSUME PInv, NEW p \in Ports, NEW o \in Objs, PollCompletes(p, o) \/ PollFails(p, o)
    PROVE  PInv'
  <1>1. /\ port[p].poll[o].at = "kernel" /\ UNCHANGED <<hvars, wvars>>
        /\ ready' = ready /\ closed' = closed
        /\ faults' \in 0..MaxFaults /\ faults' >= faults
    BY StateTypes DEF PollCompletes, PollFails, world
  <1>2. PortOK(port[p], InHands(p), Nothing) /\ port[p] \in PortStates
    BY DEF PInv, PortsOK, PortOK
  <1>3. PICK res \in SUBSET AfdFlags : port' = [port EXCEPT ![p] = Done(@, o, res)]
    <2>1. CASE PollCompletes(p, o)
      <3> DEFINE res == port[p].poll[o].set \cap ready[port[p].obj[o].sock]
      <3>1. port' = [port EXCEPT ![p] = Done(@, o, res)]
        BY <2>1 DEF PollCompletes
      <3>2. port[p].poll[o] \in PollStates
        BY <1>2 DEF PortStates
      <3>3. port[p].poll[o].set \in SUBSET AfdFlags
        BY <3>2 DEF PollStates
      <3>4. res \in SUBSET AfdFlags
        BY <3>3
      <3> QED BY <3>1, <3>4
    <2>2. CASE PollFails(p, o)
      <3>1. {"FAILED"} \in SUBSET AfdFlags /\ {} \in SUBSET AfdFlags
        BY DEF AfdFlags
      <3> QED BY <2>2, <3>1 DEF PollFails
    <2> QED BY <2>1, <2>2
  <1> DEFINE r == Done(port[p], o, res)
  <1>4. /\ PortOK(r, InHands(p), Nothing) /\ r.polling = port[p].polling
        /\ r.updates = port[p].updates /\ (Attached(port[p]) => Attached(r))
    BY <1>1, <1>2, OneDone
  <1> HIDE DEF r
  <1>5. port' = [port EXCEPT ![p] = r]
    BY <1>3 DEF r
  <1>6. r \in PortStates
    BY <1>4 DEF PortOK
  <1>7. /\ port' \in [Ports -> PortStates]
        /\ \A q \in Ports : /\ PortOK(port'[q], InHands(q), Nothing)
                            /\ port'[q].polling = port[q].polling
                            /\ port'[q].updates = port[q].updates
                            /\ Attached(port[q]) => Attached(port'[q])
    <2>1. port'[p] = r /\ \A q \in Ports \ {p} : port'[q] = port[q]
      BY <1>5, StateTypes
    <2>2. \A q \in Ports : PortOK(port[q], InHands(q), Nothing)
      BY DEF PInv, PortsOK
    <2>3. port' \in [Ports -> PortStates]
      BY <1>5, <1>6, StateTypes
    <2> QED BY <1>4, <2>1, <2>2, <2>3
  <1>8. ready' \in [Sockets -> SUBSET Conditions] /\ closed' \subseteq Sockets
    BY <1>1 DEF PInv, WTypeOK
  <1> QED BY <1>1, <1>7, <1>8, OutsideWorld

(* A socket becomes ready, is closed, or is there again.                     *)
LEMMA SocketStep ==
    ASSUME PInv, NEW s \in Sockets, SocketCondition(s) \/ CloseSocket(s) \/ SocketAgain(s)
    PROVE  PInv'
  <1>1. /\ UNCHANGED <<hvars, wvars>> /\ faults' = faults
        /\ faults' \in 0..MaxFaults /\ faults' >= faults
    BY StateTypes DEF SocketCondition, CloseSocket, SocketAgain
  <1>2. ready \in [Sockets -> SUBSET Conditions] /\ closed \subseteq Sockets
    BY DEF PInv, WTypeOK
  <1>3. ready' \in [Sockets -> SUBSET Conditions] /\ closed' \subseteq Sockets
    BY <1>2 DEF SocketCondition, CloseSocket, SocketAgain
  <1>4. \A p \in Ports : PortOK(port[p], InHands(p), Nothing)
    BY DEF PInv, PortsOK
  <1>5. CASE SocketCondition(s) \/ SocketAgain(s)
    <2>1. port' = port
      BY <1>5 DEF SocketCondition, SocketAgain
    <2>2. port' \in [Ports -> PortStates]
      BY <2>1, StateTypes
    <2>3. \A p \in Ports : /\ PortOK(port'[p], InHands(p), Nothing)
                           /\ port'[p].polling = port[p].polling
                           /\ port'[p].updates = port[p].updates
                           /\ Attached(port[p]) => Attached(port'[p])
      BY <1>4, <2>1
    <2> QED BY <1>1, <1>3, <2>2, <2>3, OutsideWorld
  <1>6. CASE CloseSocket(s)
    <2> DEFINE Hit(p) == {o \in Objs : port[p].poll[o].at = "kernel" /\ port[p].obj[o].sock = s}
    <2>1. port' = [p \in Ports |-> Closed(port[p], Hit(p))]
      BY <1>6 DEF CloseSocket, Closed
    <2>2. ASSUME NEW p \in Ports
          PROVE  LET r == Closed(port[p], Hit(p)) IN
                 /\ PortOK(r, InHands(p), Nothing) /\ r.polling = port[p].polling
                 /\ r.updates = port[p].updates /\ (Attached(port[p]) => Attached(r))
      <3>1. Hit(p) \in SUBSET Objs /\ \A o \in Hit(p) : port[p].poll[o].at = "kernel"
        OBVIOUS
      <3>2. PortOK(port[p], InHands(p), Nothing)
        BY <1>4
      <3> HIDE DEF Hit
      <3> QED BY <3>1, <3>2, AllClosed
    <2> HIDE DEF Hit
    <2>3. \A p \in Ports : /\ PortOK(port'[p], InHands(p), Nothing)
                           /\ port'[p].polling = port[p].polling
                           /\ port'[p].updates = port[p].updates
                           /\ Attached(port[p]) => Attached(port'[p])
      BY <2>1, <2>2
    <2>4. port' \in [Ports -> PortStates]
      <3>1. \A p \in Ports : Closed(port[p], Hit(p)) \in PortStates
        BY <2>2 DEF PortOK
      <3> QED BY <2>1, <3>1
    <2> QED BY <1>1, <1>3, <2>3, <2>4, OutsideWorld
  <1> QED BY <1>5, <1>6

-----------------------------------------------------------------------------
(* What port_delete() leaves with the driver.                                *)

STypeOK ==
    /\ timed \in [Threads -> BOOLEAN] /\ waits \in [Threads -> Ports \cup Handles \cup {None}]
    /\ stray \in [Ports -> SUBSET Objs] /\ undefined \in BOOLEAN

(* A freed object that the driver still polls for takes a failure, and a     *)
(* thread that is in the middle of port_delete().                            *)
Strayed(p) == stray[p] # {} => faults > 0 /\ \E t \in Threads : pc[t] = "delete" /\ on[t] = p

SInv == STypeOK /\ \A p \in Ports : Strayed(p)

EInv == PInv /\ SInv

(* The steps of a thread that leave all of this alone.                       *)
Ordinary(t) ==
    \/ Calls(t) \/ Inside(t) \/ LoadHandle(t) \/ EnterWait(t) \/ TakeCompletions(t)
    \/ WaitFails(t) \/ FeedEvents(t) \/ EpollUnref(t) \/ EpollPortClose(t) \/ EpollCloseStep(t)

(* The variables that a step in epoll_wait() sets.                           *)
WaitVars(t, limit, wait) ==
    /\ timed' = [timed EXCEPT ![t] = limit] /\ waits' = [waits EXCEPT ![t] = wait]
    /\ stray' = stray /\ undefined' = undefined

(* Where they lead, they keep the types.                                     *)
LEMMA WaitTypes ==
    ASSUME STypeOK, NEW t \in Threads, NEW limit \in BOOLEAN, NEW wait \in Ports \cup Handles \cup {None},
           WaitVars(t, limit, wait)
    PROVE  STypeOK' /\ stray' = stray
  BY DEF STypeOK, WaitVars

(* ... and so does what port__poll() does.                                   *)
LEMMA PollTypes ==
    ASSUME STypeOK, NEW t \in Threads, NEW ps, NEW limit \in BOOLEAN, PortPoll(t, ps, limit)
    PROVE  STypeOK' /\ stray' = stray
  <1>1. WaitVars(t, limit, None) \/ WaitVars(t, FALSE, None)
    BY DEF PortPoll, Leave, world, WaitVars
  <1> QED BY <1>1, WaitTypes

(* The types of an ordinary step.                                            *)
LEMMA OrdinaryTypes ==
    ASSUME STypeOK, PInv, HInv, NEW t \in Threads, Ordinary(t)
    PROVE  STypeOK' /\ stray' = stray
  <1>1. ASSUME Leave(t) PROVE STypeOK' /\ stray' = stray
    <2>1. WaitVars(t, FALSE, None)
      BY <1>1 DEF Leave, WaitVars
    <2> QED BY <2>1, WaitTypes
  <1>2. ASSUME UNCHANGED <<timed, waits, stray, undefined>> PROVE STypeOK' /\ stray' = stray
    BY <1>2 DEF STypeOK
  <1>3. CASE Calls(t) \/ EpollUnref(t) \/ EpollCloseStep(t)
    <2>1. UNCHANGED <<timed, waits, stray, undefined>>
      BY <1>3 DEF Calls, EpollCreate, EpollFindPort, EpollClose, EpollUnref, EpollCloseStep,
                  wvars, world
    <2> QED BY <1>2, <2>1
  <1>4. CASE Inside(t)
    <2>1. ASSUME NEW limit \in BOOLEAN, PortWait(t, limit) PROVE STypeOK' /\ stray' = stray
      BY <2>1, PollTypes DEF PortWait
    <2>2. Leave(t) \/ \E limit \in BOOLEAN : PortWait(t, limit)
      BY <1>4 DEF Inside, PortCtlAdd, PortCtlMod, PortCtlDel
    <2> QED BY <1>1, <2>1, <2>2
  <1>5. CASE LoadHandle(t)
    <2>1. on[t] \in Ports /\ iocp[on[t]] \in Handles \cup {None}
      <3>1. pc[t] = "inside"
        BY <1>5 DEF LoadHandle, PInv, InsideHolds
      <3> QED BY <3>1 DEF HInv, Uncounted, HTypeOK, Placed
    <2>2. waits' = [waits EXCEPT ![t] = iocp[on[t]]] /\ UNCHANGED <<timed, stray, undefined>>
      BY <1>5 DEF LoadHandle, world
    <2> QED BY <2>1, <2>2 DEF STypeOK
  <1>6. CASE EnterWait(t)
    <2>1. PICK q \in Ports : waits' = [waits EXCEPT ![t] = q]
      BY <1>6 DEF EnterWait
    <2>2. UNCHANGED <<timed, stray, undefined>>
      BY <1>6 DEF EnterWait, world
    <2> QED BY <2>1, <2>2 DEF STypeOK
  <1>7. CASE TakeCompletions(t)
    <2>1. waits' = [waits EXCEPT ![t] = None] /\ UNCHANGED <<timed, stray, undefined>>
      BY <1>7 DEF TakeCompletions, world
    <2> QED BY <2>1 DEF STypeOK
  <1>8. CASE WaitFails(t)
    BY <1>1, <1>8 DEF WaitFails
  <1>9. CASE FeedEvents(t)
    <2>1. timed[t] \in BOOLEAN
      BY DEF STypeOK
    <2>2. PICK ps : Leave(t) \/ PortPoll(t, ps, timed[t])
      BY <1>9 DEF FeedEvents
    <2> QED BY <1>1, <2>1, <2>2, PollTypes
  <1>10. CASE EpollPortClose(t)
    <2>1. /\ UNCHANGED <<timed, stray, undefined>>
          /\ waits' = [u \in Threads |->
                 IF at[u] = "asleep" /\ waits[u] = on[t] THEN None ELSE waits[u]]
      BY <1>10 DEF EpollPortClose, world
    <2> QED BY <2>1 DEF STypeOK
  <1> QED BY <1>3, <1>4, <1>5, <1>6, <1>7, <1>8, <1>9, <1>10 DEF Ordinary

(* Failures are counted and never forgotten.                                 *)
LEMMA FaultsStay ==
    ASSUME PInv, NEW t \in Threads, Ordinary(t), faults > 0
    PROVE  faults' > 0
  <1>1. faults \in Nat
    BY StateTypes
  <1>2. ASSUME NEW u, Count(u) PROVE faults' > 0
    BY <1>1, <1>2 DEF Count
  <1>3. ASSUME NEW ps, NEW limit, PortPoll(t, ps, limit) PROVE faults' > 0
    <2>1. faults' = faults \/ faults' = faults + 1
      BY <1>3 DEF PortPoll, world
    <2> QED BY <1>1, <2>1
  <1>4. CASE Calls(t) \/ EpollUnref(t) \/ EpollCloseStep(t) \/ EpollPortClose(t) \/ LoadHandle(t)
                \/ EnterWait(t) \/ TakeCompletions(t)
    BY <1>4 DEF Calls, EpollCreate, EpollFindPort, EpollClose, EpollUnref, EpollCloseStep,
                EpollPortClose, LoadHandle, EnterWait, TakeCompletions, world
  <1>5. CASE Inside(t)
    <2>1. \/ faults' = faults \/ \E u : Count(u)
          \/ \E limit \in BOOLEAN : PortWait(t, limit)
      BY <1>5 DEF Inside, PortCtlAdd, PortCtlMod, PortCtlDel
    <2> QED BY <1>2, <1>3, <2>1 DEF PortWait
  <1>6. CASE WaitFails(t)
    BY <1>2, <1>6 DEF WaitFails
  <1>7. CASE FeedEvents(t)
    <2>1. (\E u : Count(u)) \/ \E ps : PortPoll(t, ps, timed[t])
      BY <1>7 DEF FeedEvents
    <2> QED BY <1>2, <1>3, <2>1
  <1> QED BY <1>4, <1>5, <1>6, <1>7 DEF Ordinary

(* A thread in port_delete() stays there, whatever the others do.            *)
LEMMA DeletersStay ==
    ASSUME PInv, HInv, NEW t \in Threads, Ordinary(t), NEW u \in Threads, pc[u] = "delete"
    PROVE  pc'[u] = "delete" /\ on'[u] = on[u]
  <1>1. pc \in [Threads -> Places] /\ on \in [Threads -> Ports \cup {None}]
    BY DEF HInv, Uncounted, HTypeOK
  <1>2. ASSUME UNCHANGED hvars PROVE pc'[u] = "delete" /\ on'[u] = on[u]
    BY <1>2 DEF hvars
  <1>3. ASSUME Work(t) PROVE pc'[u] = "delete" /\ on'[u] = on[u]
    BY <1>1, <1>3 DEF Work, Goto
  <1>4. CASE Calls(t)
    BY <1>1, <1>4 DEF Calls, EpollCreate, PortNew, EpollFindPort, TsTreeFindAndRef, EpollClose,
                      TsTreeDelAndRef, Goto
  <1>5. CASE Inside(t)
    BY <1>2, <1>3, <1>5, InsideSteps
  <1>6. CASE LoadHandle(t) \/ EnterWait(t) \/ TakeCompletions(t)
    BY <1>2, <1>6 DEF LoadHandle, EnterWait, TakeCompletions
  <1>7. CASE WaitFails(t)
    BY <1>3, <1>7 DEF WaitFails, Leave
  <1>8. CASE FeedEvents(t)
    <2>1. ASSUME NEW ps, NEW limited, PortPoll(t, ps, limited) PROVE Work(t) \/ UNCHANGED hvars
      BY <2>1 DEF PortPoll, Leave
    <2>2. Work(t) \/ UNCHANGED hvars
      BY <1>8, <2>1 DEF FeedEvents, Leave
    <2> QED BY <1>2, <1>3, <2>2
  <1>9. CASE EpollUnref(t)
    BY <1>1, <1>9 DEF EpollUnref, ReflockUnref, Goto, Return
  <1>10. CASE EpollPortClose(t)
    BY <1>1, <1>10 DEF EpollPortClose, PortClose, Goto
  <1>11. CASE EpollCloseStep(t)
    BY <1>1, <1>11 DEF EpollCloseStep, TsTreeAdd, ReflockUnrefAndDestroy, ReflockPoison,
                       KeyedEvent, Goto, Return
  <1> QED BY <1>4, <1>5, <1>6, <1>7, <1>8, <1>9, <1>10, <1>11 DEF Ordinary

(* So an ordinary step keeps the invariant,                                  *)
LEMMA OrdinaryStep ==
    ASSUME EInv, HInv, NEW t \in Threads, Ordinary(t)
    PROVE  SInv'
  <1>1. STypeOK' /\ stray' = stray
    BY OrdinaryTypes DEF EInv, SInv
  <1>2. ASSUME NEW p \in Ports, stray'[p] # {}
        PROVE  faults' > 0 /\ \E u \in Threads : pc'[u] = "delete" /\ on'[u] = p
    <2>1. faults > 0
      BY <1>1, <1>2 DEF EInv, SInv, Strayed
    <2>2. PICK u \in Threads : pc[u] = "delete" /\ on[u] = p
      BY <1>1, <1>2 DEF EInv, SInv, Strayed
    <2>3. pc'[u] = "delete" /\ on'[u] = p
      BY <2>2, DeletersStay DEF EInv
    <2>4. faults' > 0
      BY <2>1, FaultsStay DEF EInv
    <2> QED BY <2>3, <2>4
  <1> QED BY <1>1, <1>2 DEF SInv, Strayed

(* ... and so does one object of port_delete(), which strays only if a call  *)
(* to cancel fails, now or before,                                           *)
LEMMA StrayStep ==
    ASSUME EInv, HInv, NEW t \in Threads, EpollDeleteSocket(t)
    PROVE  SInv'
  <1> DEFINE p == on[t]
             ps == port[p]
  <1>1. pc[t] = "delete" /\ UNCHANGED <<hvars, timed, waits, undefined>>
    BY DEF EpollDeleteSocket, wvars
  <1>2. p \in Ports /\ faults \in Nat
    BY <1>1, StateTypes, AloneToDelete DEF EInv
  <1>3. PortOK(ps, {}, Nothing) /\ (faults = 0 => Attached(ps))
    BY <1>1, AloneToDelete DEF EInv
  <1>4. PICK o \in NextToDelete(ps) : \E fails \in CancelOutcomes(ps, o) :
           /\ Count([ok |-> ~fails])
           /\ stray' = [stray EXCEPT ![p] =
                  @ \cup IF SockDelete(ps, o, TRUE, fails).poll[o].at = "kernel" THEN {o} ELSE {}]
    BY DEF EpollDeleteSocket, Here
  <1>5. PICK fails \in CancelOutcomes(ps, o) :
           /\ Count([ok |-> ~fails])
           /\ stray' = [stray EXCEPT ![p] =
                  @ \cup IF SockDelete(ps, o, TRUE, fails).poll[o].at = "kernel" THEN {o} ELSE {}]
    BY <1>4
  <1>6. fails \in BOOLEAN
    BY DEF CancelOutcomes
  <1>7. o \in Live(ps) /\ o \in Objs
    BY <1>3, NextLives DEF Live
  <1>8. ~fails /\ Attached(ps) => SockDelete(ps, o, TRUE, fails).poll[o].at # "kernel"
    <2> HIDE DEF ps, p
    <2> QED BY <1>3, <1>6, <1>7, SockForceDeleted
  <1> DEFINE new == IF SockDelete(ps, o, TRUE, fails).poll[o].at = "kernel" THEN {o} ELSE {}
  <1>9. stray' = [stray EXCEPT ![p] = @ \cup new] /\ new \in SUBSET Objs
        /\ (new # {} => fails \/ ~Attached(ps))
    BY <1>5, <1>6, <1>7, <1>8
  <1>10. faults' = faults + (IF ~fails THEN 0 ELSE 1)
    BY <1>5 DEF Count
  <1>11. faults > 0 \/ new # {} => faults' > 0
    <2> HIDE DEF new, ps, p
    <2>1. new # {} => fails \/ faults > 0
      <3>1. ~Attached(ps) => faults > 0
        BY <1>2, <1>3
      <3> QED BY <1>9, <3>1
    <2> QED BY <1>2, <1>6, <1>10, <2>1
  <1> HIDE DEF new, ps
  <1>12. STypeOK'
    BY <1>1, <1>2, <1>9 DEF EInv, SInv, STypeOK
  <1>13. ASSUME NEW q \in Ports, stray'[q] # {}
         PROVE  faults' > 0 /\ \E u \in Threads : pc'[u] = "delete" /\ on'[u] = q
    <2>1. pc' = pc /\ on' = on /\ stray \in [Ports -> SUBSET Objs]
      BY <1>1 DEF hvars, EInv, SInv, STypeOK
    <2>2. CASE q = p
      <3>1. stray[p] # {} \/ new # {}
        BY <1>2, <1>9, <1>13, <2>1, <2>2
      <3>2. stray[p] # {} => faults > 0
        BY <1>2 DEF EInv, SInv, Strayed
      <3> QED BY <1>1, <1>11, <2>1, <2>2, <3>1, <3>2
    <2>3. CASE q # p
      <3>1. stray[q] # {}
        BY <1>9, <1>13, <2>1, <2>3
      <3>2. faults > 0 /\ \E u \in Threads : pc[u] = "delete" /\ on[u] = q
        BY <3>1 DEF EInv, SInv, Strayed
      <3> QED BY <1>11, <2>1, <3>2
    <2> QED BY <2>2, <2>3
  <1> QED BY <1>12, <1>13 DEF SInv, Strayed

(* ... and its end, which leaves nothing.                                    *)
LEMMA StrayEnds ==
    ASSUME EInv, HInv, NEW t \in Threads, EpollDelete(t)
    PROVE  SInv'
  <1>1. /\ pc[t] = "delete" /\ pc' = [pc EXCEPT ![t] = "idle"] /\ on' = [on EXCEPT ![t] = None]
        /\ stray' = [stray EXCEPT ![on[t]] = {}] /\ undefined' \in BOOLEAN
        /\ timed' = timed /\ waits' = waits /\ faults' = faults
    BY DEF EpollDelete, PortDelete, Return, Goto, wvars
  <1>2. /\ stray \in [Ports -> SUBSET Objs] /\ pc \in [Threads -> Places]
        /\ on \in [Threads -> Ports \cup {None}]
    BY DEF EInv, SInv, STypeOK, HInv, Uncounted, HTypeOK
  <1>3. STypeOK'
    BY <1>1, <1>2 DEF EInv, SInv, STypeOK
  <1>4. ASSUME NEW q \in Ports, stray'[q] # {}
        PROVE  faults' > 0 /\ \E u \in Threads : pc'[u] = "delete" /\ on'[u] = q
    <2>1. q # on[t] /\ stray[q] # {}
      BY <1>1, <1>2, <1>4
    <2>2. faults > 0
      BY <2>1 DEF EInv, SInv, Strayed
    <2>3. PICK u \in Threads : pc[u] = "delete" /\ on[u] = q
      BY <2>1 DEF EInv, SInv, Strayed
    <2>4. u # t
      BY <2>1, <2>3
    <2>5. pc'[u] = "delete" /\ on'[u] = q
      BY <1>1, <1>2, <2>3, <2>4
    <2> QED BY <1>1, <2>2, <2>5
  <1> QED BY <1>3, <1>4 DEF SInv, Strayed

(* Nor do the driver and the sockets disturb it.                             *)
LEMMA WorldStep ==
    ASSUME EInv, UNCHANGED <<hvars, wvars, stray>>, undefined' \in BOOLEAN, faults' >= faults,
           faults' \in Nat
    PROVE  SInv'
  <1>1. faults > 0 => faults' > 0
    BY StateTypes DEF EInv
  <1> QED BY <1>1 DEF EInv, SInv, STypeOK, Strayed, hvars, wvars

(* All of it.                                                                *)
LEMMA StrayInvariant ==
    ASSUME EInv, HInv, Next
    PROVE  SInv'
  <1>1. undefined \in BOOLEAN /\ faults \in Nat
    BY StateTypes DEF EInv, SInv, STypeOK
  <1>2. ASSUME NEW t \in Threads, Calls(t) \/ Inside(t) \/ Steps(t) PROVE SInv'
    <2>1. CASE Ordinary(t)
      BY <2>1, OrdinaryStep
    <2>2. CASE EpollDeleteSocket(t) \/ EpollDelete(t)
      BY <2>2, StrayStep, StrayEnds
    <2>3. CASE TakeAnothers(t)
      BY <1>1, <2>3, WorldStep DEF TakeAnothers
    <2> QED BY <1>2, <2>1, <2>2, <2>3 DEF Steps, Ordinary
  <1>3. ASSUME NEW p \in Ports, NEW o \in Objs, PollCompletes(p, o) \/ PollFails(p, o) PROVE SInv'
    <2>1. /\ UNCHANGED <<hvars, wvars, stray>> /\ undefined' = undefined
          /\ faults' = faults \/ faults' = faults + 1
      BY <1>3 DEF PollCompletes, PollFails, world
    <2>2. faults' >= faults /\ faults' \in Nat
      BY <1>1, <2>1
    <2> QED BY <1>1, <2>1, <2>2, WorldStep
  <1>4. ASSUME NEW s \in Sockets, SocketCondition(s) \/ CloseSocket(s) \/ SocketAgain(s) PROVE SInv'
    <2>1. UNCHANGED <<hvars, wvars, stray>> /\ undefined' = undefined /\ faults' = faults
      BY <1>4 DEF SocketCondition, CloseSocket, SocketAgain
    <2>2. faults' >= faults /\ faults' \in Nat
      BY <1>1, <2>1
    <2> QED BY <1>1, <2>1, <2>2, WorldStep
  <1> QED BY <1>2, <1>3, <1>4 DEF Next

-----------------------------------------------------------------------------
(* The theorems about ports.                                                 *)

(* The handle tree and the reflocks are as HandleTree has them.              *)
LEMMA TreeInvariant == Spec => []HInv
  BY EpollImplementsHandleTree, HandleTreeInvariant, PTL

(* In every reachable state every port is in order with the completions that *)
(* threads have taken from it and with the threads that sleep on it, be they *)
(* about to; and what port_delete() frees is not polled for, unless a call   *)
(* to cancel has failed.                                                     *)
THEOREM EpollInvariant == Spec => []EInv
  <1>1. Init => EInv
    <2> SUFFICES ASSUME Init PROVE EInv
      OBVIOUS
    <2>1. /\ \A t \in Threads : at[t] = "out" /\ taken[t] = <<>> /\ pc[t] = "idle"
          /\ \A p \in Ports : port[p] = NewPort
      BY DEF Init, HInit
    <2>2. WTypeOK
      <3>1. NewPort \in PortStates
        BY NewPortOK DEF PortOK
      <3> QED BY <3>1, EpollBoundsAssumption DEF Init, WTypeOK
    <2>3. InsideHolds /\ HandsApart
      BY <2>1, EmptyHands DEF InsideHolds, HandsApart, Once
    <2>4. PortsOK
      <3> SUFFICES ASSUME NEW p \in Ports
                   PROVE  /\ PortOK(port[p], InHands(p), Nothing)
                          /\ port[p].polling = Cardinality(Sleepers(p))
        BY DEF PortsOK
      <3>1. InHands(p) = {}
        BY <2>1, EmptyHands DEF InHands
      <3>2. Sleepers(p) = {}
        BY <2>1 DEF Sleepers, Waiting
      <3>3. Cardinality(Sleepers(p)) = 0
        BY <3>2, FS_EmptySet
      <3> QED BY <2>1, <3>1, <3>3, NewPortOK
    <2>5. SleepersAreUpdated /\ PollsAttached
      BY <2>1, NewPortOK DEF SleepersAreUpdated, PollsAttached
    <2>6. SInv
      <3>1. STypeOK /\ \A p \in Ports : stray[p] = {}
        BY DEF Init, STypeOK
      <3> QED BY <3>1 DEF SInv, Strayed
    <2> QED BY <2>2, <2>3, <2>4, <2>5, <2>6 DEF PInv, EInv
  <1>2. HInv /\ HInv' /\ EInv /\ [Next]_vars => EInv'
    <2> SUFFICES ASSUME HInv, HInv', EInv, [Next]_vars PROVE EInv'
      OBVIOUS
    <2>1. HTypeOK'
      BY DEF HInv, Uncounted
    <2>2. CASE UNCHANGED vars
      <3>1. UNCHANGED <<hvars, port, wvars, ready, closed, faults, stray, undefined>>
        BY <2>2 DEF vars, world
      <3>2. PInv'
        BY <3>1, PortsUntouched DEF EInv
      <3>3. faults' >= faults /\ faults' \in Nat /\ undefined' \in BOOLEAN
        BY <3>1, StateTypes DEF EInv, SInv, STypeOK
      <3>4. SInv'
        BY <3>1, <3>3, WorldStep
      <3> QED BY <3>2, <3>4 DEF EInv
    <2>3. CASE Next
      <3>1. PInv'
        BY <2>1, <2>3, ThreadStep, PollStep, SocketStep DEF EInv, Next
      <3> QED BY <2>3, <3>1, StrayInvariant DEF EInv
    <2> QED BY <2>2, <2>3
  <1> QED BY <1>1, <1>2, TreeInvariant, PTL DEF Spec

(* Every completion, be it with the driver, in the completion port or in the *)
(* hands of a thread, is for an object that has not been freed; only a       *)
(* thread in port_delete() frees one that the driver polls for, and only     *)
(* after a call to cancel that failed.                                       *)
THEOREM CompletionsKeepOwners == Spec => []CompletionsHaveOwners
  <1>1. EInv => CompletionsHaveOwners
    <2> SUFFICES ASSUME EInv, NEW p \in Ports
                 PROVE  /\ \A o \in Objs :
                              /\ port[p].poll[o].at # "none" => o \in Live(port[p])
                              /\ o \in ToSet(port[p].done) \cup InHands(p)
                                    <=> port[p].poll[o].at = "done"
                              /\ o \in Live(port[p]) =>
                                    (port[p].poll[o].at = "none" <=> port[p].obj[o].status = "IDLE")
                        /\ stray[p] # {} =>
                              faults > 0 /\ \E t \in Threads : pc[t] = "delete" /\ on[t] = p
      BY DEF CompletionsHaveOwners
    <2>1. ASSUME NEW o \in Objs
          PROVE  /\ port[p].poll[o].at # "none" => o \in Live(port[p])
                 /\ o \in ToSet(port[p].done) \cup InHands(p) <=> port[p].poll[o].at = "done"
                 /\ o \in Live(port[p]) =>
                       (port[p].poll[o].at = "none" <=> port[p].obj[o].status = "IDLE")
      <3>1. ObjOK(port[p], InHands(p), o)
        BY DEF EInv, PInv, PortsOK, PortOK
      <3> QED BY <3>1 DEF ObjOK, Live
    <2>2. Strayed(p)
      BY DEF EInv, SInv
    <2> QED BY <2>1, <2>2 DEF Strayed
  <1> QED BY <1>1, EpollInvariant, PTL

(* No interest is lost between port_ctl(), the update queue and the driver,  *)
(* and who sleeps in port_wait() does so with the driver told of all of it.  *)
THEOREM InterestStaysServed == Spec => []InterestIsServed
  <1>1. EInv => InterestIsServed
    <2> SUFFICES ASSUME PInv PROVE NoLostInterest
      BY DEF EInv, PInv, InterestIsServed
    <2> SUFFICES ASSUME NEW p \in Ports, NEW o \in Live(port[p]), ~port[p].obj[o].deleted
                 PROVE  \/ /\ port[p].obj[o].events \cap Known \subseteq port[p].obj[o].pending
                           /\ port[p].obj[o].status = "PENDING"
                        \/ o \in ToSet(port[p].updates)
                        \/ port[p].obj[o].status = "CANCELLED"
      BY DEF NoLostInterest
    <2>1. Served(port[p], o)
      BY NothingAssumption DEF PInv, PortsOK, PortOK, Live
    <2> QED BY <2>1 DEF Served, Live
  <1> QED BY <1>1, EpollInvariant, PTL

(* What the parts of PortInOrder follow from.                                *)
LEMMA TypesHold ==
    ASSUME PInv, SInv, HTypeOK
    PROVE  TypeOK
  <1>1. /\ at \in [Threads -> {"out", "entered", "released", "calling", "asleep", "woken"}]
        /\ taken \in [Threads -> Seq(Objs)] /\ told \in [Threads -> SUBSET Sockets]
        /\ ready \in [Sockets -> SUBSET Conditions] /\ closed \subseteq Sockets
        /\ faults \in 0..MaxFaults
    BY DEF PInv, WTypeOK, Waiting
  <1>2. \A t \in Threads : at[t] # "out" <=> pc[t] = "inside"
    BY DEF PInv, InsideHolds
  <1>3. ASSUME NEW p \in Ports
        PROVE  /\ port[p].obj \in [Objs -> [sock : Sockets \cup {Nothing},
                     events : SUBSET (Known \cup {"ONESHOT"}),
                     pending : SUBSET (Known \cup {"ONESHOT"}),
                     status : {"IDLE", "PENDING", "CANCELLED"},
                     deleted : BOOLEAN, group : Groups \cup {Nothing}]]
               /\ port[p].tree \in [Sockets -> Objs \cup {Nothing}]
               /\ port[p].updates \in Seq(Objs) /\ port[p].deletedQ \subseteq Objs
               /\ port[p].polling = Cardinality({t \in Threads :
                      on[t] = p /\ at[t] \in {"released", "calling", "asleep", "woken"}})
    <2>1. port[p] \in PortStates
      BY StateTypes
    <2>2. /\ port[p].obj \in [Objs -> ObjStates] /\ port[p].tree \in [Sockets -> Objs \cup {Nothing}]
          /\ port[p].updates \in Seq(Objs) /\ port[p].deletedQ \subseteq Objs
      BY <2>1 DEF PortStates
    <2>3. port[p].polling = Cardinality({t \in Threads :
              on[t] = p /\ at[t] \in {"released", "calling", "asleep", "woken"}})
      <3>1. port[p].polling = Cardinality(Sleepers(p))
        BY DEF PInv, PortsOK
      <3>2. Sleepers(p) = {t \in Threads :
                on[t] = p /\ at[t] \in {"released", "calling", "asleep", "woken"}}
        BY DEF Sleepers, Waiting
      <3> QED BY <3>1, <3>2
    <2> QED BY <2>2, <2>3 DEF ObjStates, Masks
  <1>4. /\ timed \in [Threads -> BOOLEAN] /\ waits \in [Threads -> Ports \cup Handles \cup {None}]
        /\ stray \in [Ports -> SUBSET Objs] /\ undefined \in BOOLEAN
    BY DEF SInv, STypeOK
  <1> QED BY <1>1, <1>2, <1>3, <1>4 DEF TypeOK

(* The tree and the queues.                                                  *)
LEMMA TreesHold ==
    ASSUME PInv
    PROVE  TreeAndQueues
  <1> SUFFICES ASSUME NEW p \in Ports
               PROVE  LET ps == port[p] IN
                      /\ \A s \in Sockets : ps.tree[s] # Nothing =>
                            ps.obj[ps.tree[s]].sock = s /\ ~ps.obj[ps.tree[s]].deleted
                      /\ \A o \in Live(ps) : IF ps.obj[o].deleted THEN o \in ps.deletedQ
                                             ELSE ps.tree[ps.obj[o].sock] = o
                      /\ ToSet(ps.updates) \cup ps.deletedQ \subseteq Live(ps)
                      /\ ToSet(ps.updates) \cap ps.deletedQ = {}
    BY DEF TreeAndQueues
  <1> DEFINE ps == port[p]
  <1>1. ps \in PortStates /\ \A o \in Objs : ObjOK(ps, InHands(p), o)
    BY DEF PInv, PortsOK, PortOK
  <1> HIDE DEF ps
  <1>2. /\ ps.tree \in [Sockets -> Objs \cup {Nothing}]
        /\ ps.updates \in Seq(Objs) /\ ps.deletedQ \subseteq Objs
    BY <1>1 DEF PortStates
  <1>3. \A s \in Sockets : ps.tree[s] # Nothing =>
            ps.obj[ps.tree[s]].sock = s /\ ~ps.obj[ps.tree[s]].deleted
    BY <1>1, <1>2 DEF ObjOK
  <1>4. \A o \in Live(ps) : IF ps.obj[o].deleted THEN o \in ps.deletedQ
                            ELSE ps.tree[ps.obj[o].sock] = o
    BY <1>1 DEF ObjOK, Live
  <1>5. ToSet(ps.updates) \subseteq Objs
    BY <1>2 DEF ToSet
  <1>6. ToSet(ps.updates) \cup ps.deletedQ \subseteq Live(ps)
    BY <1>1, <1>2, <1>5 DEF ObjOK, Live
  <1>7. ToSet(ps.updates) \cap ps.deletedQ = {}
    BY <1>1, <1>5 DEF ObjOK
  <1> QED BY <1>3, <1>4, <1>6, <1>7 DEF ps

(* The poll groups.                                                          *)
LEMMA GroupsHold ==
    ASSUME PInv
    PROVE  PollGroupsInOrder
  <1> SUFFICES ASSUME NEW p \in Ports
               PROVE  LET ps == port[p] IN
                      /\ \A g \in Groups :
                            /\ ps.size[g] = Cardinality({o \in Objs : ps.obj[o].group = g})
                            /\ ps.size[g] <= MaxGroupSize
                      /\ \A i \in 1..Len(ps.groups) - 1 :
                            ps.size[ps.groups[i + 1]] = MaxGroupSize =>
                                ps.size[ps.groups[i]] = MaxGroupSize
    BY DEF PollGroupsInOrder
  <1> DEFINE ps == port[p]
  <1>1. GroupShape(ps) /\ GroupCounts(ps)
    BY DEF PInv, PortsOK, PortOK
  <1> HIDE DEF ps
  <1>2. \A g \in Groups : /\ ps.size[g] = Cardinality({o \in Objs : ps.obj[o].group = g})
                          /\ ps.size[g] <= MaxGroupSize
    BY <1>1 DEF GroupShape, GroupCounts, Users
  <1>3. ASSUME NEW i \in 1..Len(ps.groups) - 1, ps.size[ps.groups[i + 1]] = MaxGroupSize
        PROVE  ps.size[ps.groups[i]] = MaxGroupSize
    <2>1. Len(ps.groups) \in Nat
      BY <1>1 DEF GroupShape
    <2>2. i \in 1..Len(ps.groups) /\ i + 1 \in 1..Len(ps.groups) /\ i < i + 1
      BY <2>1
    <2> QED BY <1>1, <1>3, <2>2 DEF GroupShape
  <1> QED BY <1>2, <1>3 DEF ps

(* port_delete(), whose loops are over.                                      *)
LEMMA DeletesHold ==
    ASSUME PInv, HInv
    PROVE  PortDeletesClean
  <1> SUFFICES ASSUME NEW t \in Threads, pc[t] = "delete", NextToDelete(port[on[t]]) = {}
               PROVE  /\ port[on[t]].updates = <<>> /\ Live(port[on[t]]) = {}
                      /\ \A g \in Groups : port[on[t]].size[g] = 0
    BY DEF PortDeletesClean, Here
  <1>1. on[t] \in Ports
    BY DEF HInv, Uncounted, HTypeOK, Placed
  <1>2. PortOK(port[on[t]], InHands(on[t]), Nothing)
    BY <1>1 DEF PInv, PortsOK
  <1> QED BY <1>2, NothingLeft

(* The tree, the queues and the poll groups of a port agree with the objects *)
(* that live, and port_delete() leaves nothing behind, so that its           *)
(* assertions hold.                                                          *)
THEOREM PortsStayInOrder == Spec => []PortInOrder
  <1>1. EInv /\ HInv => PortInOrder
    BY TypesHold, TreesHold, GroupsHold, DeletesHold DEF EInv, HInv, Uncounted, PortInOrder
  <1> QED BY <1>1, EpollInvariant, TreeInvariant, PTL
=============================================================================
