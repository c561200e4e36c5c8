-------------------------- MODULE EpollPortProofs --------------------------
(* Proofs about EpollPort: what each operation makes of a port.              *)
EXTENDS EpollPort, FoldProofs

-----------------------------------------------------------------------------
(* Queues, in which a node is once at most.                                  *)

Once(q) == \A i, j \in 1..Len(q) : q[i] = q[j] => i = j

(* Removing a node leaves the others as they are.                            *)
LEMMA RemoveFirstShape ==
    ASSUME NEW S, NEW q \in Seq(S), NEW e
    PROVE  /\ RemoveFirst(q, e) \in Seq(S)
           /\ \/ RemoveFirst(q, e) = q /\ e \notin ToSet(q)
              \/ \E m \in 1..Len(q) :
                    /\ q[m] = e /\ Len(RemoveFirst(q, e)) = Len(q) - 1
                    /\ \A i \in 1..Len(q) - 1 :
                          RemoveFirst(q, e)[i] = q[IF i < m THEN i ELSE i + 1]
  <1>1. CASE ~\E i \in 1..Len(q) : q[i] = e
    BY <1>1 DEF RemoveFirst, ToSet
  <1>2. CASE \E i \in 1..Len(q) : q[i] = e
    <2> DEFINE I == {i \in 1..Len(q) : q[i] = e}
               m == Min(I)
    <2>1. m \in I
      <3>1. I \in SUBSET Nat /\ I # {}
        BY <1>2
      <3> HIDE DEF I
      <3>2. \E x \in I : \A y \in I : x <= y
        BY <3>1, LeastNumber
      <3> QED BY <3>2, Zenon DEF Min
    <2>2. RemoveFirst(q, e) = SubSeq(q, 1, m - 1) \o SubSeq(q, m + 1, Len(q))
      <3>1. SelectInSeq(q, LAMBDA v : v = e) = m
        BY <1>2 DEF SelectInSeq
      <3> QED BY <1>2, <3>1 DEF RemoveFirst, RemoveAt
    <2>3. m \in 1..Len(q) /\ q[m] = e
      BY <2>1
    <2> HIDE DEF m
    <2> DEFINE a == SubSeq(q, 1, m - 1)
               b == SubSeq(q, m + 1, Len(q))
    <2>4. /\ a \in Seq(S) /\ Len(a) = m - 1 /\ \A i \in 1..m - 1 : a[i] = q[i]
          /\ b \in Seq(S) /\ Len(b) = Len(q) - m /\ \A i \in 1..Len(q) - m : b[i] = q[m + i]
      BY <2>3
    <2> HIDE DEF a, b
    <2>5. /\ a \o b \in Seq(S) /\ Len(a \o b) = Len(q) - 1
          /\ \A i \in 1..Len(q) - 1 : (a \o b)[i] = IF i <= Len(a) THEN a[i] ELSE b[i - Len(a)]
      <3>1. /\ a \in Seq(S) /\ b \in Seq(S) /\ Len(a) + Len(b) = Len(q) - 1
        BY <2>3, <2>4
      <3>2. /\ a \o b \in Seq(S) /\ Len(a \o b) = Len(a) + Len(b)
            /\ \A i \in 1..Len(a) + Len(b) :
                  (a \o b)[i] = IF i <= Len(a) THEN a[i] ELSE b[i - Len(a)]
        BY <3>1
      <3> QED BY <3>1, <3>2
    <2>6. \A i \in 1..Len(q) - 1 : (a \o b)[i] = q[IF i < m THEN i ELSE i + 1]
      <3> SUFFICES ASSUME NEW i \in 1..Len(q) - 1
                   PROVE  (a \o b)[i] = q[IF i < m THEN i ELSE i + 1]
        OBVIOUS
      <3>1. CASE i < m
        BY <2>3, <2>4, <2>5, <3>1
      <3>2. CASE ~(i < m)
        <4>1. i - Len(a) \in 1..Len(q) - m /\ ~(i <= Len(a)) /\ m + (i - Len(a)) = i + 1
          BY <2>3, <2>4, <3>2
        <4> QED BY <2>4, <2>5, <3>2, <4>1
      <3> QED BY <3>1, <3>2
    <2> QED BY <2>2, <2>3, <2>5, <2>6 DEF a, b
  <1> QED BY <1>1, <1>2

(* Removing a node from a queue in which nodes are once: it is gone, the     *)
(* others are once and in the order they were in.                            *)
LEMMA RemoveFirstOnce ==
    ASSUME NEW S, NEW q \in Seq(S), NEW e, Once(q)
    PROVE  /\ RemoveFirst(q, e) \in Seq(S) /\ Once(RemoveFirst(q, e))
           /\ ToSet(RemoveFirst(q, e)) = ToSet(q) \ {e}
           /\ \A i, j \in 1..Len(RemoveFirst(q, e)) : i < j =>
                 \E a, b \in 1..Len(q) :
                    a < b /\ RemoveFirst(q, e)[i] = q[a] /\ RemoveFirst(q, e)[j] = q[b]
  <1> DEFINE r == RemoveFirst(q, e)
  <1>1. r \in Seq(S)
    BY RemoveFirstShape
  <1>2. CASE r = q /\ e \notin ToSet(q)
    BY <1>1, <1>2
  <1>3. ASSUME NEW m \in 1..Len(q), q[m] = e, Len(r) = Len(q) - 1,
               \A i \in 1..Len(q) - 1 : r[i] = q[IF i < m THEN i ELSE i + 1]
        PROVE  /\ Once(r) /\ ToSet(r) = ToSet(q) \ {e}
               /\ \A i, j \in 1..Len(r) : i < j =>
                     \E a, b \in 1..Len(q) : a < b /\ r[i] = q[a] /\ r[j] = q[b]
    <2> HIDE DEF r
    <2> DEFINE at(i) == IF i < m THEN i ELSE i + 1
    <2>1. Len(q) \in Nat
      OBVIOUS
    <2>2. \A i \in 1..Len(r) : at(i) \in 1..Len(q) /\ at(i) # m /\ r[i] = q[at(i)]
      BY <1>3, <2>1
    <2>3. \A i, j \in 1..Len(r) : i < j => at(i) < at(j)
      BY <1>3, <2>1
    <2>4. Once(r)
      <3> SUFFICES ASSUME NEW i \in 1..Len(r), NEW j \in 1..Len(r), r[i] = r[j] PROVE i = j
        BY DEF Once
      <3>1. at(i) = at(j)
        BY <2>2 DEF Once
      <3> QED BY <1>3, <3>1
    <2>5. ToSet(r) \subseteq ToSet(q) \ {e}
      <3> SUFFICES ASSUME NEW i \in 1..Len(r) PROVE r[i] \in ToSet(q) \ {e}
        BY <1>1 DEF ToSet, r
      <3>1. q[at(i)] # e
        BY <1>3, <2>2 DEF Once
      <3> QED BY <2>2, <3>1 DEF ToSet
    <2>6. ToSet(q) \ {e} \subseteq ToSet(r)
      <3> SUFFICES ASSUME NEW i \in 1..Len(q), q[i] # e PROVE q[i] \in ToSet(r)
        BY DEF ToSet
      <3>1. CASE i < m
        <4>1. i \in 1..Len(q) - 1 /\ r[i] = q[i]
          BY <1>3, <2>1, <3>1
        <4> QED BY <1>1, <1>3, <4>1 DEF ToSet, r
      <3>2. CASE i > m
        <4>1. i - 1 \in 1..Len(q) - 1 /\ r[i - 1] = q[i]
          BY <1>3, <2>1, <3>2
        <4> QED BY <1>1, <1>3, <4>1 DEF ToSet, r
      <3> QED BY <1>3, <3>1, <3>2
    <2>7. \A i, j \in 1..Len(r) : i < j =>
             \E a, b \in 1..Len(q) : a < b /\ r[i] = q[a] /\ r[j] = q[b]
      BY <2>2, <2>3
    <2> QED BY <2>4, <2>5, <2>6, <2>7
  <1> QED BY <1>1, <1>2, <1>3, RemoveFirstShape

-----------------------------------------------------------------------------
(* Types.  Operations are applied here to any port of these types, as the    *)
(* folds need it; the invariants below say what the ports really are.        *)

Masks == SUBSET (Known \cup {"ONESHOT"})
AfdFlags == DOMAIN Meaning \cup {"LOCAL_CLOSE", "CANCELLED", "FAILED"}
ObjStates == [sock : Sockets \cup {Nothing}, events : Masks, pending : Masks,
              status : {"IDLE", "PENDING", "CANCELLED"}, deleted : BOOLEAN,
              group : Groups \cup {Nothing}]
PollStates == [at : {"none", "kernel", "done"}, set : SUBSET AfdFlags]
PortStates == [obj : [Objs -> ObjStates], tree : [Sockets -> Objs \cup {Nothing}],
               updates : Seq(Objs), deletedQ : SUBSET Objs,
               groups : Seq(Groups \cup {Nothing}), size : [Groups -> Int],
               poll : [Objs -> PollStates], done : Seq(Objs), polling : Int]

(* Types of event masks and of what is free.                                 *)
LEMMA AfdTypes ==
    /\ \A events : EpollToAfd(events) \in SUBSET AfdFlags
    /\ NoPoll \in PollStates /\ FreeObj \in ObjStates
    /\ [at |-> "done", set |-> {"CANCELLED"}] \in PollStates
    /\ [at |-> "done", set |-> {"LOCAL_CLOSE"}] \in PollStates
  <1>1. DOMAIN Meaning = {"RECEIVE", "ACCEPT", "RECEIVE_EXPEDITED", "SEND", "DISCONNECT",
                          "ABORT", "CONNECT_FAIL"}
    BY DEF Meaning
  <1>2. \A events : EpollToAfd(events) \in SUBSET AfdFlags
    BY <1>1 DEF EpollToAfd, AfdFlags
  <1>3. NoPoll \in PollStates /\ FreeObj \in ObjStates
    BY DEF NoPoll, PollStates, FreeObj, ObjStates, Masks
  <1>4. /\ [at |-> "done", set |-> {"CANCELLED"}] \in PollStates
        /\ [at |-> "done", set |-> {"LOCAL_CLOSE"}] \in PollStates
    BY DEF PollStates, AfdFlags
  <1> QED BY <1>2, <1>3, <1>4

(* The queues.                                                               *)
LEMMA QueueTypes ==
    ASSUME NEW ps \in PortStates, NEW o \in Objs
    PROVE  /\ QueueRemove(ps, o) \in PortStates
           /\ RequestSocketUpdate(ps, o) \in PortStates
           /\ AddDeletedSocket(ps, o) \in PortStates
  <1>1. ps.updates \in Seq(Objs) /\ ps.deletedQ \in SUBSET Objs
    BY DEF PortStates
  <1>2. RemoveFirst(ps.updates, o) \in Seq(Objs)
    BY <1>1, RemoveFirstShape
  <1>3. QueueRemove(ps, o) \in PortStates
    BY <1>1, <1>2 DEF QueueRemove, PortStates
  <1>4. Append(ps.updates, o) \in Seq(Objs)
    BY <1>1
  <1>5. RequestSocketUpdate(ps, o) \in PortStates
    BY <1>4 DEF RequestSocketUpdate, PortStates
  <1>6. AddDeletedSocket(ps, o) \in PortStates
    BY <1>1 DEF AddDeletedSocket, PortStates
  <1> QED BY <1>3, <1>5, <1>6

(* Poll operations that are cancelled or have completed.                     *)
LEMMA CancelPollType ==
    ASSUME NEW ps \in PortStates, NEW o \in Objs
    PROVE  CancelPoll(ps, o) \in PortStates
  <1> DEFINE c == [ps EXCEPT !.obj[o].status = "CANCELLED", !.obj[o].pending = {}]
  <1>0. ps.obj[o] \in ObjStates
    BY DEF PortStates
  <1>1. [ps.obj[o] EXCEPT !.status = "CANCELLED"] \in ObjStates
    BY <1>0 DEF ObjStates
  <1>2. [[ps.obj[o] EXCEPT !.status = "CANCELLED"] EXCEPT !.pending = {}] \in ObjStates
    BY <1>1 DEF ObjStates, Masks
  <1>3. c \in PortStates
    BY <1>2 DEF PortStates, ObjStates, Masks
  <1>4. Append(c.done, o) \in Seq(Objs)
    BY <1>3 DEF PortStates
  <1> HIDE DEF c
  <1>5. [c EXCEPT !.poll[o] = [at |-> "done", set |-> {"CANCELLED"}],
                  !.done = Append(@, o)] \in PortStates
    BY <1>3, <1>4, AfdTypes DEF PortStates
  <1> QED BY <1>3, <1>5 DEF CancelPoll, c

(* Objects that are freed or deleted.                                        *)
LEMMA SockFreeType ==
    ASSUME NEW ps \in PortStates, NEW o \in Objs
    PROVE  SockFree(ps, o) \in PortStates
  <1> DEFINE q == QueueRemove(ps, o)
             g == ps.obj[o].group
  <1>1. q \in PortStates /\ g \in Groups \cup {Nothing}
    <2>1. ps.obj[o] \in ObjStates
      BY DEF PortStates
    <2> QED BY <2>1, QueueTypes DEF ObjStates
  <1> HIDE DEF q, g
  <1>2. Append(RemoveFirst(q.groups, g), g) \in Seq(Groups \cup {Nothing})
    <2>1. q.groups \in Seq(Groups \cup {Nothing})
      BY <1>1 DEF PortStates
    <2>2. RemoveFirst(q.groups, g) \in Seq(Groups \cup {Nothing})
      BY <2>1, RemoveFirstShape
    <2> QED BY <1>1, <2>2
  <1>3. PollGroupRelease(q, g) \in PortStates
    <2>1. [q.size EXCEPT ![g] = q.size[g] - 1] \in [Groups -> Int]
      <3>1. q.size \in [Groups -> Int]
        BY <1>1 DEF PortStates
      <3>2. g \in Groups => q.size[g] - 1 \in Int
        BY <3>1
      <3> QED BY <3>1, <3>2
    <2>2. [q EXCEPT !.size = [q.size EXCEPT ![g] = q.size[g] - 1]] \in PortStates
      BY <1>1, <2>1 DEF PortStates
    <2> QED BY <1>2, <2>2 DEF PollGroupRelease, PortStates
  <1>4. [PollGroupRelease(q, g) EXCEPT !.obj[o] = FreeObj] \in PortStates
    BY <1>3, AfdTypes DEF PortStates
  <1> QED BY <1>4 DEF SockFree, q, g

(* sock__delete(), whatever the port is like.                                *)
LEMMA SockDeleteType ==
    ASSUME NEW ps \in PortStates, NEW o \in Objs, NEW force \in BOOLEAN, NEW fails \in BOOLEAN
    PROVE  SockDelete(ps, o, force, fails) \in PortStates
  <1> DEFINE quiet == IF ps.obj[o].status = "PENDING" /\ ~fails THEN CancelPoll(ps, o) ELSE ps
             s == ps.obj[o].sock
             q == QueueRemove(quiet, o)
             gone == IF ps.obj[o].deleted THEN ps
                     ELSE [q EXCEPT !.tree[s] = Nothing, !.obj[o].deleted = TRUE]
  <1>1. quiet \in PortStates
    BY CancelPollType
  <1> HIDE DEF quiet
  <1>2. q \in PortStates
    BY <1>1, QueueTypes
  <1> HIDE DEF q
  <1>3. [q.obj[o] EXCEPT !.deleted = TRUE] \in ObjStates
    <2>1. q.obj[o] \in ObjStates
      BY <1>2 DEF PortStates
    <2> QED BY <2>1 DEF ObjStates
  <1>4. [q EXCEPT !.tree[s] = Nothing, !.obj[o].deleted = TRUE] \in PortStates
    BY <1>2, <1>3 DEF PortStates
  <1>5. gone \in PortStates
    BY <1>4
  <1>6. SockDelete(ps, o, force, fails) = IF force \/ gone.obj[o].status = "IDLE"
                                          THEN SockFree(gone, o) ELSE AddDeletedSocket(gone, o)
    BY DEF SockDelete, q, quiet
  <1> HIDE DEF gone
  <1> QED BY <1>5, <1>6, SockFreeType, QueueTypes

(* sock_update(), whatever the port is like.                                 *)
LEMMA SockUpdateType ==
    ASSUME NEW ps \in PortStates, NEW o \in Objs, NEW gone
    PROVE  SockUpdate(ps, o, gone) \in PortStates
  <1> DEFINE it == ps.obj[o]
             q == QueueRemove(ps, o)
             submitted == [q EXCEPT !.obj[o].status = "PENDING", !.obj[o].pending = it.events,
                                    !.poll[o] = [at |-> "kernel", set |-> EpollToAfd(it.events)]]
  <1>1. q \in PortStates /\ QueueRemove(CancelPoll(ps, o), o) \in PortStates
    BY QueueTypes, CancelPollType
  <1>2. SockDelete(ps, o, FALSE, FALSE) \in PortStates
    BY SockDeleteType
  <1>3. submitted \in PortStates
    <2> HIDE DEF q
    <2>1. it \in ObjStates /\ q.obj[o] \in ObjStates
      BY <1>1 DEF PortStates
    <2>2. [q.obj[o] EXCEPT !.status = "PENDING"] \in ObjStates
      BY <2>1 DEF ObjStates
    <2>3. it.events \in Masks
      BY <2>1 DEF ObjStates
    <2>4. [[q.obj[o] EXCEPT !.status = "PENDING"] EXCEPT !.pending = it.events] \in ObjStates
      BY <2>2, <2>3 DEF ObjStates
    <2>5. [at |-> "kernel", set |-> EpollToAfd(it.events)] \in PollStates
      BY AfdTypes DEF PollStates
    <2> HIDE DEF it
    <2> QED BY <1>1, <2>4, <2>5 DEF PortStates
  <1>4. SockUpdate(ps, o, gone) \in {q, QueueRemove(CancelPoll(ps, o), o),
                                     SockDelete(ps, o, FALSE, FALSE), submitted}
    BY DEF SockUpdate
  <1> QED BY <1>1, <1>2, <1>3, <1>4

(* What is fed leaves a port, and sockets to report.                         *)
FedStates == [port : PortStates, told : SUBSET (Sockets \cup {Nothing})]

(* sock_feed_event(), whatever the port is like.                             *)
LEMMA FeedEventType ==
    ASSUME NEW ps \in PortStates, NEW o \in Objs
    PROVE  FeedEvent(ps, o) \in FedStates
  <1> DEFINE idle == [ps EXCEPT !.obj[o].status = "IDLE", !.obj[o].pending = {}, !.poll[o] = NoPoll]
             next == RequestSocketUpdate(idle, o)
             once == [next EXCEPT !.obj[o].events = {}]
  <1>1. idle \in PortStates
    <2>1. ps.obj[o] \in ObjStates
      BY DEF PortStates
    <2>2. [ps.obj[o] EXCEPT !.status = "IDLE"] \in ObjStates
      BY <2>1 DEF ObjStates
    <2>3. [[ps.obj[o] EXCEPT !.status = "IDLE"] EXCEPT !.pending = {}] \in ObjStates
      BY <2>2 DEF ObjStates, Masks
    <2> QED BY <2>3, AfdTypes DEF PortStates
  <1>2. next \in PortStates /\ SockDelete(idle, o, FALSE, FALSE) \in PortStates
    <2> HIDE DEF idle
    <2> QED BY <1>1, QueueTypes, SockDeleteType
  <1>3. once \in PortStates
    <2> HIDE DEF next
    <2>1. next.obj[o] \in ObjStates
      BY <1>2 DEF PortStates
    <2>2. [next.obj[o] EXCEPT !.events = {}] \in ObjStates
      BY <2>1 DEF ObjStates, Masks
    <2> QED BY <1>2, <2>2 DEF PortStates
  <1>4. ps.obj[o].sock \in Sockets \cup {Nothing}
    <2>1. ps.obj[o] \in ObjStates
      BY DEF PortStates
    <2> QED BY <2>1 DEF ObjStates
  <1> HIDE DEF idle, next, once
  <1>5. \E p \in PortStates, t \in SUBSET (Sockets \cup {Nothing}) :
           FeedEvent(ps, o) = [port |-> p, told |-> t]
    <2> DEFINE s == ps.obj[o].sock
    <2>1. FeedEvent(ps, o) \in {[port |-> SockDelete(idle, o, FALSE, FALSE), told |-> {}],
                                [port |-> next, told |-> {}], [port |-> next, told |-> {s}],
                                [port |-> once, told |-> {s}]}
      BY DEF FeedEvent, idle, next, once
    <2>2. {} \in SUBSET (Sockets \cup {Nothing}) /\ {s} \in SUBSET (Sockets \cup {Nothing})
      BY <1>4
    <2> HIDE DEF s
    <2> QED BY <1>2, <1>3, <2>1, <2>2
  <1> QED BY <1>5 DEF FedStates

-----------------------------------------------------------------------------
(* The folds as runs: the port after each of the steps.                      *)

UpdateRun(ps, n, gone, run) ==
    /\ run[0] = ps /\ run[n] = UpdateFirst(ps, n, gone)
    /\ \A k \in 1..n : run[k] = SockUpdate(run[k - 1], ps.updates[k], gone)

(* port__update_events() goes through the queue in order.                    *)
LEMMA UpdateRuns ==
    ASSUME NEW ps \in PortStates, NEW n \in 0..Len(ps.updates), NEW gone
    PROVE  \E run : UpdateRun(ps, n, gone, run)
  <1> DEFINE seq == SubSeq(ps.updates, 1, n)
             F == [x \in PortStates \X Objs |-> SockUpdate(x[1], x[2], gone)]
  <1>1. ps.updates \in Seq(Objs) /\ n \in Nat
    BY DEF PortStates
  <1>2. seq \in [1..n -> Objs] /\ \A k \in 1..n : seq[k] = ps.updates[k]
    <2>1. /\ seq \in Seq(Objs) /\ Len(seq) = n
          /\ \A k \in 1..n : seq[k] = ps.updates[k]
      BY <1>1
    <2> HIDE DEF seq
    <2> QED BY <1>1, <2>1
  <1>3. F \in [PortStates \X Objs -> PortStates]
    BY SockUpdateType
  <1>4. \A x \in PortStates, o \in Objs : F[<<x, o>>] = SockUpdate(x, o, gone)
    OBVIOUS
  <1> HIDE DEF seq, F
  <1>5. PICK f : IsFold(f, PortStates, F, ps, seq, n)
    BY <1>1, <1>2, <1>3, FoldExists
  <1> DEFINE G == CHOOSE g : g = [s \in SUBSET (DOMAIN seq) |->
                        IF s = {} THEN ps ELSE SockUpdate(g[s \ {Max(s)}], seq[Max(s)], gone)]
  <1>6. \E g : g = [s \in SUBSET (DOMAIN seq) |->
                        IF s = {} THEN ps ELSE SockUpdate(g[s \ {Max(s)}], seq[Max(s)], gone)]
    <2>1. DOMAIN seq = 1..n
      BY <1>2
    <2>2. ASSUME NEW s \in SUBSET (1..n), s # {}
          PROVE  f[s] = SockUpdate(f[s \ {Max(s)}], seq[Max(s)], gone)
      <3>1. Max(s) \in s
        BY <1>1, <2>2, MaxIsIn
      <3>2. f[s \ {Max(s)}] \in PortStates /\ seq[Max(s)] \in Objs
        BY <1>2, <1>5, <3>1 DEF IsFold
      <3> QED BY <1>4, <1>5, <2>2, <3>2 DEF IsFold
    <2>3. f = [s \in SUBSET (1..n) |->
                   IF s = {} THEN ps ELSE SockUpdate(f[s \ {Max(s)}], seq[Max(s)], gone)]
      BY <1>5, <2>2 DEF IsFold
    <2> QED BY <2>1, <2>3
  <1>7. G = [s \in SUBSET (DOMAIN seq) |->
                  IF s = {} THEN ps ELSE SockUpdate(G[s \ {Max(s)}], seq[Max(s)], gone)]
    BY <1>6, Zenon
  <1>8. UpdateFirst(ps, n, gone) = G[1..n]
    BY <1>2 DEF UpdateFirst, FoldLeft, MapThenFoldSet, seq
  <1> HIDE DEF G
  <1> DEFINE run == [k \in 0..n |-> G[1..k]]
  <1>9. run[0] = ps /\ run[n] = UpdateFirst(ps, n, gone)
    <2>1. 1..0 = {} /\ {} \in SUBSET (DOMAIN seq) /\ n \in 0..n
      BY <1>1
    <2>2. G[{}] = ps
      BY <1>7, <2>1
    <2> QED BY <1>1, <1>8, <2>1, <2>2
  <1>10. ASSUME NEW k \in 1..n PROVE run[k] = SockUpdate(run[k - 1], ps.updates[k], gone)
    <2>1. 1..k \in SUBSET (1..n) /\ 1..k # {} /\ k \in Nat /\ k >= 1
      <3>1. k \in Nat /\ k >= 1 /\ k <= n /\ k \in 1..k
        BY <1>1
      <3>2. \A j \in 1..k : j \in 1..n
        BY <1>1, <3>1
      <3> QED BY <3>1, <3>2
    <2>2. Max(1..k) = k
      BY <2>1, MaxOfInterval
    <2>3. (1..k) \ {k} = 1..k - 1
      BY <2>1
    <2>4. G[1..k] = SockUpdate(G[1..k - 1], seq[k], gone)
      <3>1. DOMAIN seq = 1..n
        BY <1>2
      <3>2. G[1..k] = SockUpdate(G[(1..k) \ {Max(1..k)}], seq[Max(1..k)], gone)
        BY <1>7, <2>1, <3>1
      <3> QED BY <2>2, <2>3, <3>2
    <2>5. run[k] = G[1..k] /\ run[k - 1] = G[1..k - 1]
      BY <1>1
    <2> QED BY <1>2, <2>4, <2>5
  <1> HIDE DEF run
  <1> QED BY <1>9, <1>10 DEF UpdateRun

(* The port and what it has told after a completion.                         *)
FeedNext(before, o) ==
    LET r == FeedEvent(before.port, o)
    IN  [port |-> r.port, told |-> before.told \cup r.told]

FeedRun(ps, seq, run) ==
    /\ run[0] = [port |-> ps, told |-> {}] /\ run[Len(seq)] = FeedAll(ps, seq)
    /\ \A k \in 1..Len(seq) : run[k] = FeedNext(run[k - 1], seq[k])

(* One completion more.                                                      *)
LEMMA FeedNextType ==
    ASSUME NEW x \in FedStates, NEW o \in Objs
    PROVE  FeedNext(x, o) \in FedStates
  <1>1. x.port \in PortStates /\ x.told \in SUBSET (Sockets \cup {Nothing})
    BY DEF FedStates
  <1> DEFINE r == FeedEvent(x.port, o)
  <1>2. r \in FedStates
    BY <1>1, FeedEventType
  <1> HIDE DEF r
  <1>3. r.port \in PortStates /\ r.told \in SUBSET (Sockets \cup {Nothing})
    BY <1>2 DEF FedStates
  <1> QED BY <1>1, <1>3 DEF FeedNext, FedStates, r

(* port__feed_events() goes through the completions in order.                *)
LEMMA FeedRuns ==
    ASSUME NEW ps \in PortStates, NEW seq \in Seq(Objs)
    PROVE  \E run : FeedRun(ps, seq, run)
  <1> DEFINE n == Len(seq)
             base == [port |-> ps, told |-> {}]
             F == [x \in FedStates \X Objs |-> FeedNext(x[1], x[2])]
  <1>1. n \in Nat /\ base \in FedStates
    BY DEF FedStates
  <1>2. seq \in [1..n -> Objs]
    OBVIOUS
  <1>3. F \in [FedStates \X Objs -> FedStates]
    BY FeedNextType
  <1>4. \A x \in FedStates, o \in Objs : F[<<x, o>>] = FeedNext(x, o)
    OBVIOUS
  <1> HIDE DEF n, base, F
  <1>5. PICK f : IsFold(f, FedStates, F, base, seq, n)
    BY <1>1, <1>2, <1>3, FoldExists
  <1> DEFINE G == CHOOSE g : g = [s \in SUBSET (DOMAIN seq) |->
                        IF s = {} THEN base ELSE FeedNext(g[s \ {Max(s)}], seq[Max(s)])]
  <1>6. \E g : g = [s \in SUBSET (DOMAIN seq) |->
                        IF s = {} THEN base ELSE FeedNext(g[s \ {Max(s)}], seq[Max(s)])]
    <2>1. DOMAIN seq = 1..n
      BY <1>2
    <2>2. ASSUME NEW s \in SUBSET (1..n), s # {}
          PROVE  f[s] = FeedNext(f[s \ {Max(s)}], seq[Max(s)])
      <3>1. Max(s) \in s
        BY <1>1, <2>2, MaxIsIn
      <3>2. f[s \ {Max(s)}] \in FedStates /\ seq[Max(s)] \in Objs
        BY <1>2, <1>5, <3>1 DEF IsFold
      <3> QED BY <1>4, <1>5, <2>2, <3>2 DEF IsFold
    <2>3. f = [s \in SUBSET (1..n) |->
                   IF s = {} THEN base ELSE FeedNext(f[s \ {Max(s)}], seq[Max(s)])]
      BY <1>5, <2>2 DEF IsFold
    <2> QED BY <2>1, <2>3
  <1>7. G = [s \in SUBSET (DOMAIN seq) |->
                  IF s = {} THEN base ELSE FeedNext(G[s \ {Max(s)}], seq[Max(s)])]
    BY <1>6, Zenon
  <1>8. FeedAll(ps, seq) = G[1..n]
    BY <1>2 DEF FeedAll, base, FoldLeft, MapThenFoldSet, FeedNext
  <1> HIDE DEF G
  <1> DEFINE run == [k \in 0..n |-> G[1..k]]
  <1>9. run[0] = base /\ run[n] = FeedAll(ps, seq)
    <2>1. 1..0 = {} /\ {} \in SUBSET (DOMAIN seq) /\ n \in 0..n
      BY <1>1
    <2>2. G[{}] = base
      BY <1>7, <2>1
    <2> QED BY <1>1, <1>8, <2>1, <2>2
  <1>10. ASSUME NEW k \in 1..n PROVE run[k] = FeedNext(run[k - 1], seq[k])
    <2>1. 1..k \in SUBSET (1..n) /\ 1..k # {} /\ k \in Nat /\ k >= 1
      <3>1. k \in Nat /\ k >= 1 /\ k <= n /\ k \in 1..k
        BY <1>1
      <3>2. \A j \in 1..k : j \in 1..n
        BY <1>1, <3>1
      <3> QED BY <3>1, <3>2
    <2>2. Max(1..k) = k
      BY <2>1, MaxOfInterval
    <2>3. (1..k) \ {k} = 1..k - 1
      BY <2>1
    <2>4. G[1..k] = FeedNext(G[1..k - 1], seq[k])
      <3>1. DOMAIN seq = 1..n
        BY <1>2
      <3>2. G[1..k] = FeedNext(G[(1..k) \ {Max(1..k)}], seq[Max(1..k)])
        BY <1>7, <2>1, <3>1
      <3> QED BY <2>2, <2>3, <3>2
    <2>5. run[k] = G[1..k] /\ run[k - 1] = G[1..k - 1]
      BY <1>1
    <2> QED BY <1>2, <2>4, <2>5
  <1> HIDE DEF run
  <1> QED BY <1>9, <1>10 DEF FeedRun, n, base

(* A finite set as a sequence.                                               *)
LEMMA SetAsSeq ==
    ASSUME NEW S, IsFiniteSet(S)
    PROVE  /\ SetToSeq(S) \in Seq(S) /\ Len(SetToSeq(S)) = Cardinality(S)
           /\ SetToSeq(S) \in [1..Cardinality(S) -> S]
           /\ Once(SetToSeq(S)) /\ ToSet(SetToSeq(S)) = S
  <1> DEFINE n == Cardinality(S)
             q == SetToSeq(S)
  <1>1. n \in Nat /\ ExistsBijection(1..n, S)
    BY FS_CardinalityType
  <1>2. \E f \in [1..n -> S] : IsInjective(f)
    BY <1>1 DEF ExistsBijection, Bijection, Injection
  <1>3. q \in [1..n -> S] /\ IsInjective(q)
    BY <1>2, Zenon DEF SetToSeq
  <1>4. Cardinality(1..n) = n
    BY <1>1, FS_Interval
  <1> HIDE DEF q
  <1>5. q \in Injection(1..n, S)
    BY <1>3 DEF Injection
  <1>6. q \in Surjection(1..n, S)
    BY <1>4, <1>5, FS_Injection
  <1>7. q \in Seq(S) /\ Len(q) = n /\ DOMAIN q = 1..n
    BY <1>1, <1>3
  <1>8. Once(q)
    BY <1>3, <1>7 DEF Once, IsInjective
  <1>9. ToSet(q) = S
    BY <1>3, <1>6, <1>7 DEF Surjection, ToSet
  <1> QED BY <1>3, <1>7, <1>8, <1>9 DEF q

-----------------------------------------------------------------------------
(* The invariant of a port, object by object.  hands are the objects whose   *)
(* completion a thread has taken and not fed.                                *)

(* The tree, the queues, the driver and the object say the same of it.       *)
ObjOK(ps, hands, p) ==
    LET it == ps.obj[p] IN
    /\ it.sock = Nothing =>
          /\ it.group = Nothing /\ ps.poll[p].at = "none"
          /\ p \notin ToSet(ps.updates) /\ p \notin ps.deletedQ
    /\ it.sock # Nothing =>
          /\ it.group # Nothing
          /\ IF it.deleted THEN p \in ps.deletedQ /\ p \notin ToSet(ps.updates)
             ELSE ps.tree[it.sock] = p /\ p \notin ps.deletedQ
          /\ ps.poll[p].at = "none" <=> it.status = "IDLE"
    /\ \A s \in Sockets : ps.tree[s] = p => it.sock = s /\ ~it.deleted
    /\ it.status # "PENDING" => it.pending = {}
    /\ p \in ToSet(ps.done) \cup hands <=> ps.poll[p].at = "done"
    /\ p \in hands => p \notin ToSet(ps.done)

(* What it is watched for is with the driver, or on its way there.           *)
Served(ps, p) ==
    LET it == ps.obj[p] IN
    it.sock # Nothing /\ ~it.deleted =>
        \/ it.events \cap Known \subseteq it.pending /\ it.status = "PENDING"
        \/ p \in ToSet(ps.updates)
        \/ it.status = "CANCELLED"

(* The queue of the poll groups, full ones first.                            *)
GroupShape(ps) ==
    /\ ps.groups \in Seq(Groups) /\ Once(ps.groups)
    /\ \A g \in Groups : /\ ps.size[g] <= MaxGroupSize
                         /\ g \notin ToSet(ps.groups) => ps.size[g] = 0
    /\ \A i, j \in 1..Len(ps.groups) :
          i < j /\ ps.size[ps.groups[j]] = MaxGroupSize =>
              ps.size[ps.groups[i]] = MaxGroupSize

Users(ps, g) == {o \in Objs : ps.obj[o].group = g}
GroupCounts(ps) == \A g \in Groups : ps.size[g] = Cardinality(Users(ps, g))

(* unserved is an object that may be in between: Nothing, if none is.        *)
PortOK(ps, hands, unserved) ==
    /\ ps \in PortStates
    /\ \A p \in Objs : ObjOK(ps, hands, p)
    /\ \A p \in Objs \ {unserved} : Served(ps, p)
    /\ Once(ps.updates) /\ Once(ps.done)
    /\ GroupShape(ps) /\ GroupCounts(ps)

(* An operation on one object leaves the others as they are.                 *)
Frame(ps, r, o) ==
    \A p \in Objs \ {o} :
        /\ r.obj[p] = ps.obj[p] /\ r.poll[p] = ps.poll[p]
        /\ p \in ToSet(r.updates) <=> p \in ToSet(ps.updates)
        /\ p \in r.deletedQ <=> p \in ps.deletedQ
        /\ p \in ToSet(r.done) <=> p \in ToSet(ps.done)
        /\ \A s \in Sockets : r.tree[s] = p <=> ps.tree[s] = p

(* What is known of the others is kept.                                      *)
LEMMA FrameKeeps ==
    ASSUME NEW ps, NEW r, NEW o, Frame(ps, r, o), NEW hands, NEW hands2, NEW p \in Objs \ {o},
           p \in hands2 <=> p \in hands, ps \in PortStates
    PROVE  /\ ObjOK(ps, hands, p) => ObjOK(r, hands2, p)
           /\ Served(ps, p) => Served(r, p)
  <1>1. ps.obj[p].sock \in Sockets \cup {Nothing}
    <2>1. ps.obj[p] \in ObjStates
      BY DEF PortStates
    <2> QED BY <2>1 DEF ObjStates
  <1>2. /\ r.obj[p] = ps.obj[p] /\ r.poll[p] = ps.poll[p]
        /\ p \in ToSet(r.updates) <=> p \in ToSet(ps.updates)
        /\ p \in r.deletedQ <=> p \in ps.deletedQ
        /\ p \in ToSet(r.done) <=> p \in ToSet(ps.done)
        /\ \A s \in Sockets : r.tree[s] = p <=> ps.tree[s] = p
    BY DEF Frame
  <1> QED BY <1>1, <1>2 DEF ObjOK, Served

(* What the driver polls for has not been cancelled or deleted: so it is as  *)
(* long as no call to cancel fails.                                          *)
Attached(ps) == \A p \in Objs :
    ps.poll[p].at = "kernel" => ps.obj[p].status = "PENDING" /\ ~ps.obj[p].deleted

(* It is so of the others.                                                   *)
LEMMA FrameAttached ==
    ASSUME NEW ps, NEW r, NEW o, Frame(ps, r, o), Attached(ps),
           r.poll[o].at = "kernel" => r.obj[o].status = "PENDING" /\ ~r.obj[o].deleted
    PROVE  Attached(r)
  BY DEF Frame, Attached

(* So it is enough to look at that object.                                   *)
LEMMA OneObject ==
    ASSUME NEW ps, NEW r \in PortStates, NEW o \in Objs, Frame(ps, r, o),
           NEW hands, NEW hands2, hands2 \ {o} = hands \ {o},
           PortOK(ps, hands, Nothing) \/ PortOK(ps, hands, o),
           ObjOK(r, hands2, o), Once(r.updates), Once(r.done), GroupShape(r), GroupCounts(r)
    PROVE  /\ PortOK(r, hands2, o)
           /\ Served(r, o) => PortOK(r, hands2, Nothing)
  <1>1. ASSUME NEW p \in Objs \ {o} PROVE ObjOK(r, hands2, p) /\ Served(r, p)
    <2>1. /\ ps \in PortStates /\ ObjOK(ps, hands, p) /\ (p \in hands2 <=> p \in hands)
      BY DEF PortOK
    <2>2. Served(ps, p)
      BY NothingAssumption DEF PortOK
    <2> QED BY <2>1, <2>2, FrameKeeps
  <1>2. \A p \in Objs : ObjOK(r, hands2, p)
    BY <1>1
  <1> QED BY <1>1, <1>2 DEF PortOK

(* The groups do not change where no object changes its group.               *)
LEMMA SameGroups ==
    ASSUME NEW ps, NEW r, r.groups = ps.groups, r.size = ps.size,
           \A p \in Objs : r.obj[p].group = ps.obj[p].group
    PROVE  /\ GroupShape(ps) => GroupShape(r)
           /\ GroupCounts(ps) => GroupCounts(r)
  <1>1. \A g : Users(r, g) = Users(ps, g)
    BY DEF Users
  <1> QED BY <1>1 DEF GroupShape, GroupCounts

-----------------------------------------------------------------------------
(* The queues of sockets.                                                    *)

(* What the types say of an object.                                          *)
LEMMA ObjType ==
    ASSUME NEW ps \in PortStates, NEW o \in Objs
    PROVE  /\ ps.obj[o] \in ObjStates /\ ps.poll[o] \in PollStates
           /\ ps.obj[o].sock \in Sockets \cup {Nothing}
           /\ ps.obj[o].group \in Groups \cup {Nothing}
           /\ ps.obj[o].status \in {"IDLE", "PENDING", "CANCELLED"}
           /\ ps.obj[o].deleted \in BOOLEAN
           /\ ps.poll[o].at \in {"none", "kernel", "done"}
  <1>1. ps.obj[o] \in ObjStates /\ ps.poll[o] \in PollStates
    BY DEF PortStates
  <1> QED BY <1>1 DEF ObjStates, PollStates

(* A node that is taken out of whichever queue it is in.                     *)
LEMMA QueueRemoved ==
    ASSUME NEW ps \in PortStates, NEW o \in Objs, Once(ps.updates)
    PROVE  LET r == QueueRemove(ps, o) IN
           /\ r \in PortStates /\ Once(r.updates) /\ ToSet(r.updates) = ToSet(ps.updates) \ {o}
           /\ r.deletedQ = ps.deletedQ \ {o}
           /\ r.obj = ps.obj /\ r.tree = ps.tree /\ r.groups = ps.groups /\ r.size = ps.size
           /\ r.poll = ps.poll /\ r.done = ps.done /\ r.polling = ps.polling
  <1>1. ps.updates \in Seq(Objs)
    BY DEF PortStates
  <1>2. Once(RemoveFirst(ps.updates, o)) /\ ToSet(RemoveFirst(ps.updates, o)) = ToSet(ps.updates) \ {o}
    BY <1>1, RemoveFirstOnce
  <1>3. QueueRemove(ps, o).updates = RemoveFirst(ps.updates, o)
    BY DEF QueueRemove, PortStates
  <1>4. QueueRemove(ps, o) \in PortStates
    BY QueueTypes
  <1> QED BY <1>2, <1>3, <1>4 DEF QueueRemove, PortStates

(* A node that is not in a queue may be put at its end.                      *)
LEMMA AppendOnce ==
    ASSUME NEW S, NEW q \in Seq(S), NEW o \in S, Once(q), o \notin ToSet(q)
    PROVE  /\ Append(q, o) \in Seq(S) /\ Once(Append(q, o))
           /\ ToSet(Append(q, o)) = ToSet(q) \cup {o}
  <1> DEFINE r == Append(q, o)
  <1>1. /\ r \in Seq(S) /\ Len(r) = Len(q) + 1 /\ r[Len(q) + 1] = o
        /\ \A i \in 1..Len(q) : r[i] = q[i]
    OBVIOUS
  <1> HIDE DEF r
  <1>2. Len(q) \in Nat /\ \A i \in 1..Len(q) : q[i] # o
    BY DEF ToSet
  <1>3. Once(r)
    BY <1>1, <1>2 DEF Once
  <1>4. ToSet(r) = ToSet(q) \cup {o}
    <2>1. \A i \in 1..Len(r) : r[i] \in ToSet(q) \cup {o}
      BY <1>1, <1>2 DEF ToSet
    <2>2. \A i \in 1..Len(q) : q[i] \in ToSet(r)
      BY <1>1, <1>2 DEF ToSet
    <2>3. o \in ToSet(r)
      BY <1>1, <1>2 DEF ToSet
    <2>4. ToSet(r) \subseteq ToSet(q) \cup {o}
      BY <1>1, <2>1 DEF ToSet
    <2>5. ToSet(q) \subseteq ToSet(r)
      BY <2>2 DEF ToSet
    <2> QED BY <2>3, <2>4, <2>5
  <1> QED BY <1>1, <1>3, <1>4 DEF r

(* port_request_socket_update().                                             *)
LEMMA UpdateRequested ==
    ASSUME NEW ps \in PortStates, NEW o \in Objs, Once(ps.updates), o \notin ps.deletedQ
    PROVE  LET r == RequestSocketUpdate(ps, o) IN
           /\ r \in PortStates /\ Once(r.updates) /\ ToSet(r.updates) = ToSet(ps.updates) \cup {o}
           /\ r.deletedQ = ps.deletedQ
           /\ r.obj = ps.obj /\ r.tree = ps.tree /\ r.groups = ps.groups /\ r.size = ps.size
           /\ r.poll = ps.poll /\ r.done = ps.done /\ r.polling = ps.polling
  <1>1. ps.updates \in Seq(Objs)
    BY DEF PortStates
  <1>2. RequestSocketUpdate(ps, o) \in PortStates
    BY QueueTypes
  <1>3. CASE o \in ToSet(ps.updates)
    BY <1>2, <1>3 DEF RequestSocketUpdate, IsEnqueued
  <1>4. CASE o \notin ToSet(ps.updates)
    <2>1. RequestSocketUpdate(ps, o) = [ps EXCEPT !.updates = Append(@, o)]
      BY <1>4 DEF RequestSocketUpdate, IsEnqueued
    <2>2. /\ Once(Append(ps.updates, o))
          /\ ToSet(Append(ps.updates, o)) = ToSet(ps.updates) \cup {o}
      BY <1>1, <1>4, AppendOnce
    <2> QED BY <1>2, <2>1, <2>2 DEF PortStates
  <1> QED BY <1>3, <1>4

(* A poll operation that is cancelled while the driver has it completes.     *)
LEMMA PollCancelled ==
    ASSUME NEW ps \in PortStates, NEW o \in Objs, Once(ps.done),
           o \in ToSet(ps.done) => ps.poll[o].at = "done"
    PROVE  LET r == CancelPoll(ps, o) IN
           /\ r \in PortStates /\ Once(r.done)
           /\ r.updates = ps.updates /\ r.deletedQ = ps.deletedQ /\ r.tree = ps.tree
           /\ r.groups = ps.groups /\ r.size = ps.size /\ r.polling = ps.polling
           /\ r.obj[o].status = "CANCELLED" /\ r.obj[o].sock = ps.obj[o].sock
           /\ r.obj[o].deleted = ps.obj[o].deleted /\ r.obj[o].group = ps.obj[o].group
           /\ r.obj[o].pending = {}
           /\ r.poll[o].at = IF ps.poll[o].at = "kernel" THEN "done" ELSE ps.poll[o].at
           /\ ToSet(r.done) = ToSet(ps.done) \cup (IF ps.poll[o].at = "kernel" THEN {o} ELSE {})
           /\ \A p \in Objs \ {o} : r.obj[p] = ps.obj[p] /\ r.poll[p] = ps.poll[p]
  <1> DEFINE c == [ps EXCEPT !.obj[o].status = "CANCELLED", !.obj[o].pending = {}]
             d == [c EXCEPT !.poll[o] = [at |-> "done", set |-> {"CANCELLED"}],
                            !.done = Append(@, o)]
             r == CancelPoll(ps, o)
  <1>0. r \in PortStates
    BY CancelPollType
  <1>1. /\ c.updates = ps.updates /\ c.deletedQ = ps.deletedQ /\ c.tree = ps.tree
        /\ c.groups = ps.groups /\ c.size = ps.size /\ c.polling = ps.polling
        /\ c.poll = ps.poll /\ c.done = ps.done
        /\ \A p \in Objs \ {o} : c.obj[p] = ps.obj[p]
    BY DEF PortStates
  <1>2. /\ c.obj[o].status = "CANCELLED" /\ c.obj[o].sock = ps.obj[o].sock
        /\ c.obj[o].deleted = ps.obj[o].deleted /\ c.obj[o].group = ps.obj[o].group
        /\ c.obj[o].pending = {}
    <2>1. ps.obj[o] \in ObjStates
      BY ObjType
    <2>2. c.obj[o] = [[ps.obj[o] EXCEPT !.status = "CANCELLED"] EXCEPT !.pending = {}]
      BY DEF PortStates
    <2>3. \A it \in ObjStates : LET u == [[it EXCEPT !.status = "CANCELLED"] EXCEPT !.pending = {}] IN
             /\ u.status = "CANCELLED" /\ u.sock = it.sock /\ u.deleted = it.deleted
             /\ u.group = it.group /\ u.pending = {}
      BY DEF ObjStates
    <2> HIDE DEF c
    <2> QED BY <2>1, <2>2, <2>3
  <1>3. DOMAIN c = DOMAIN ps /\ c.poll \in [Objs -> PollStates] /\ c.done \in Seq(Objs)
    BY <1>1 DEF PortStates
  <1>4. DOMAIN ps = {"obj", "tree", "updates", "deletedQ", "groups", "size", "poll", "done",
                     "polling"}
    BY DEF PortStates
  <1> HIDE DEF c
  <1>5. CASE ps.poll[o].at # "kernel"
    <2>1. r = c
      BY <1>5 DEF CancelPoll, c
    <2> QED BY <1>0, <1>1, <1>2, <1>5, <2>1
  <1>6. CASE ps.poll[o].at = "kernel"
    <2>1. r = d
      BY <1>6 DEF CancelPoll, c
    <2>2. /\ d.updates = c.updates /\ d.deletedQ = c.deletedQ /\ d.tree = c.tree
          /\ d.groups = c.groups /\ d.size = c.size /\ d.polling = c.polling
          /\ d.obj = c.obj /\ d.done = Append(c.done, o)
          /\ \A p \in Objs \ {o} : d.poll[p] = c.poll[p]
          /\ d.poll[o].at = "done"
      BY <1>3, <1>4
    <2>3. /\ Once(Append(ps.done, o))
          /\ ToSet(Append(ps.done, o)) = ToSet(ps.done) \cup {o}
      BY <1>1, <1>3, <1>6, AppendOnce
    <2> HIDE DEF d, r
    <2> QED BY <1>0, <1>1, <1>2, <1>6, <2>1, <2>2, <2>3 DEF r
  <1> QED BY <1>5, <1>6

-----------------------------------------------------------------------------
(* The poll groups.                                                          *)

(* poll_group_release(): the group has room now and goes to the end.         *)
LEMMA GroupReleased ==
    ASSUME NEW ps \in PortStates, NEW g \in Groups, GroupShape(ps), ps.size[g] > 0
    PROVE  LET r == PollGroupRelease(ps, g) IN
           /\ GroupShape(r) /\ r.size = [ps.size EXCEPT ![g] = @ - 1]
           /\ r.updates = ps.updates /\ r.deletedQ = ps.deletedQ /\ r.tree = ps.tree
           /\ r.obj = ps.obj /\ r.poll = ps.poll /\ r.done = ps.done /\ r.polling = ps.polling
  <1> DEFINE q == RemoveFirst(ps.groups, g)
             t == Append(q, g)
             r == PollGroupRelease(ps, g)
  <1>1. /\ r.size = [ps.size EXCEPT ![g] = @ - 1] /\ r.groups = t
        /\ r.updates = ps.updates /\ r.deletedQ = ps.deletedQ /\ r.tree = ps.tree
        /\ r.obj = ps.obj /\ r.poll = ps.poll /\ r.done = ps.done /\ r.polling = ps.polling
    BY DEF PollGroupRelease, PortStates
  <1>2. ps.size \in [Groups -> Int] /\ ps.groups \in Seq(Groups) /\ g \in ToSet(ps.groups)
    BY DEF PortStates, GroupShape
  <1>3. /\ q \in Seq(Groups) /\ Once(q) /\ ToSet(q) = ToSet(ps.groups) \ {g}
        /\ \A i, j \in 1..Len(q) : i < j =>
              \E a, b \in 1..Len(ps.groups) :
                 a < b /\ q[i] = ps.groups[a] /\ q[j] = ps.groups[b]
    <2>1. ps.groups \in Seq(Groups) /\ Once(ps.groups)
      BY DEF GroupShape
    <2> DEFINE all == ps.groups
    <2>2. q = RemoveFirst(all, g) /\ all \in Seq(Groups) /\ Once(all)
      BY <2>1
    <2> HIDE DEF q, all
    <2>3. /\ q \in Seq(Groups) /\ Once(q) /\ ToSet(q) = ToSet(all) \ {g}
          /\ \A i, j \in 1..Len(q) : i < j =>
                \E a, b \in 1..Len(all) : a < b /\ q[i] = all[a] /\ q[j] = all[b]
      BY <2>2, RemoveFirstOnce
    <2> QED BY <2>3 DEF all
  <1> HIDE DEF q, r
  <1>4. t \in Seq(Groups) /\ Once(t) /\ ToSet(t) = ToSet(ps.groups)
    <2>1. g \notin ToSet(q) /\ q \in Seq(Groups) /\ Once(q)
      BY <1>3
    <2>2. t \in Seq(Groups) /\ Once(t) /\ ToSet(t) = ToSet(q) \cup {g}
      BY <2>1, AppendOnce
    <2> QED BY <1>2, <1>3, <2>2
  <1>5. /\ Len(q) \in Nat /\ Len(t) = Len(q) + 1 /\ t[Len(q) + 1] = g
        /\ \A i \in 1..Len(q) : t[i] = q[i] /\ q[i] # g /\ q[i] \in Groups
    <2>1. /\ Len(q) \in Nat /\ Len(t) = Len(q) + 1 /\ t[Len(q) + 1] = g
          /\ \A i \in 1..Len(q) : t[i] = q[i] /\ q[i] \in Groups
      BY <1>3
    <2>2. \A i \in 1..Len(q) : q[i] \in ToSet(q)
      BY <1>3 DEF ToSet
    <2> QED BY <1>3, <2>1, <2>2
  <1> HIDE DEF t
  <1>6. r.size[g] < MaxGroupSize /\ \A h \in Groups \ {g} : r.size[h] = ps.size[h]
    <2>1. ps.size[g] \in Int /\ ps.size[g] <= MaxGroupSize
      BY <1>2 DEF GroupShape
    <2> QED BY <1>1, <1>2, <2>1, MaxGroupSizeAssumption
  <1>7. \A h \in Groups : /\ r.size[h] <= MaxGroupSize
                          /\ h \notin ToSet(t) => r.size[h] = 0
    <2> SUFFICES ASSUME NEW h \in Groups
                 PROVE  /\ r.size[h] <= MaxGroupSize
                        /\ h \notin ToSet(t) => r.size[h] = 0
      OBVIOUS
    <2>1. CASE h = g
      <3>1. r.size[g] \in Int
        BY <1>1, <1>2
      <3> QED BY <1>2, <1>4, <1>6, <2>1, <3>1, MaxGroupSizeAssumption
    <2>2. CASE h # g
      BY <1>4, <1>6, <2>2 DEF GroupShape
    <2> QED BY <2>1, <2>2
  <1>8. ASSUME NEW i \in 1..Len(t), NEW j \in 1..Len(t), i < j, r.size[t[j]] = MaxGroupSize
        PROVE  r.size[t[i]] = MaxGroupSize
    <2>1. t[j] # g
      BY <1>6, <1>8, <1>1, <1>2, MaxGroupSizeAssumption
    <2>2. i \in 1..Len(q) /\ j \in 1..Len(q)
      BY <1>5, <1>8, <2>1
    <2>3. PICK a \in 1..Len(ps.groups), b \in 1..Len(ps.groups) :
             a < b /\ q[i] = ps.groups[a] /\ q[j] = ps.groups[b]
      BY <1>3, <1>8, <2>2
    <2>4. ps.size[ps.groups[b]] = MaxGroupSize
      BY <1>5, <1>6, <1>8, <2>2, <2>3
    <2>5. ps.size[ps.groups[a]] = MaxGroupSize
      BY <2>3, <2>4 DEF GroupShape
    <2> QED BY <1>5, <1>6, <2>2, <2>3, <2>5
  <1>9. GroupShape(r)
    BY <1>1, <1>4, <1>7, <1>8 DEF GroupShape
  <1> QED BY <1>1, <1>9 DEF r

(* A node that goes to the front of a queue.                                 *)
LEMMA PutFirst ==
    ASSUME NEW S, NEW q \in Seq(S), NEW e \in S, Once(q), e \notin ToSet(q)
    PROVE  LET t == <<e>> \o q IN
           /\ t \in Seq(S) /\ Once(t) /\ ToSet(t) = ToSet(q) \cup {e}
           /\ Len(t) = Len(q) + 1 /\ t[1] = e /\ \A i \in 2..Len(t) : t[i] = q[i - 1]
  <1> DEFINE t == <<e>> \o q
  <1>1. t \in Seq(S) /\ Len(t) = Len(q) + 1 /\ t[1] = e /\ \A i \in 2..Len(t) : t[i] = q[i - 1]
    OBVIOUS
  <1>2. Len(q) \in Nat /\ \A i \in 1..Len(q) : q[i] # e
    BY DEF ToSet
  <1> HIDE DEF t
  <1>3. \A i \in 1..Len(t) : i # 1 => i \in 2..Len(t) /\ i - 1 \in 1..Len(q)
    BY <1>1, <1>2
  <1>4. Once(t)
    <2> SUFFICES ASSUME NEW i \in 1..Len(t), NEW j \in 1..Len(t), t[i] = t[j] PROVE i = j
      BY DEF Once
    <2>1. CASE i = 1 \/ j = 1
      BY <1>1, <1>2, <1>3, <2>1
    <2>2. CASE i # 1 /\ j # 1
      <3>1. q[i - 1] = q[j - 1] /\ i - 1 \in 1..Len(q) /\ j - 1 \in 1..Len(q)
        BY <1>1, <1>3, <2>2
      <3>2. i - 1 = j - 1
        BY <3>1 DEF Once
      <3> QED BY <3>2
    <2> QED BY <2>1, <2>2
  <1>5. ToSet(t) \subseteq ToSet(q) \cup {e}
    <2> SUFFICES ASSUME NEW i \in 1..Len(t) PROVE t[i] \in ToSet(q) \cup {e}
      BY <1>1 DEF ToSet
    <2> QED BY <1>1, <1>3 DEF ToSet
  <1>6. ToSet(q) \cup {e} \subseteq ToSet(t)
    <2>1. 1 \in 1..Len(t)
      BY <1>1, <1>2
    <2>2. ASSUME NEW i \in 1..Len(q) PROVE q[i] \in ToSet(t)
      <3>1. i + 1 \in 2..Len(t) /\ i + 1 \in 1..Len(t) /\ (i + 1) - 1 = i
        BY <1>1, <1>2
      <3>2. t[i + 1] = q[i]
        BY <1>1, <3>1
      <3> QED BY <1>1, <3>1, <3>2 DEF ToSet
    <2>3. e \in ToSet(t)
      BY <1>1, <2>1 DEF ToSet
    <2> QED BY <2>2, <2>3 DEF ToSet
  <1> QED BY <1>1, <1>4, <1>5, <1>6 DEF t

(* poll_group_acquire(): a group with room is found last or made, and goes   *)
(* to the front when it is full.                                             *)
LEMMA GroupTaken ==
    ASSUME NEW ps \in PortStates, GroupShape(ps), CanAcquire(ps)
    PROVE  LET r == PollGroupAcquire(ps)
               g == GroupAcquired(ps) IN
           /\ g \in Groups /\ GroupShape(r) /\ r.size = [ps.size EXCEPT ![g] = @ + 1]
           /\ r.updates = ps.updates /\ r.deletedQ = ps.deletedQ /\ r.tree = ps.tree
           /\ r.obj = ps.obj /\ r.poll = ps.poll /\ r.done = ps.done /\ r.polling = ps.polling
  <1> DEFINE r == PollGroupAcquire(ps)
             g == GroupAcquired(ps)
             all == ps.groups
             q == IF HasRoom(ps) THEN all ELSE Append(all, g)
             t == IF ps.size[g] + 1 = MaxGroupSize THEN <<g>> \o RemoveFirst(q, g) ELSE q
  <1>1. /\ r.size = [ps.size EXCEPT ![g] = @ + 1] /\ r.groups = t
        /\ r.updates = ps.updates /\ r.deletedQ = ps.deletedQ /\ r.tree = ps.tree
        /\ r.obj = ps.obj /\ r.poll = ps.poll /\ r.done = ps.done /\ r.polling = ps.polling
    BY DEF PollGroupAcquire, PortStates
  <1>2. /\ ps.size \in [Groups -> Int] /\ all \in Seq(Groups) /\ Once(all) /\ Len(all) \in Nat
        /\ \A h \in Groups : h \notin ToSet(all) => ps.size[h] = 0
        /\ \A i, j \in 1..Len(all) : i < j /\ ps.size[all[j]] = MaxGroupSize =>
              ps.size[all[i]] = MaxGroupSize
    BY DEF PortStates, GroupShape
  <1> DEFINE Queue == /\ g \in Groups /\ ps.size[g] < MaxGroupSize
                      /\ q \in Seq(Groups) /\ Once(q) /\ Len(q) \in Nat
                      /\ Len(q) >= 1 /\ g = q[Len(q)]
                      /\ ToSet(q) = ToSet(all) \cup {g}
                      /\ \A i, j \in 1..Len(q) : i < j /\ ps.size[q[j]] = MaxGroupSize =>
                            ps.size[q[i]] = MaxGroupSize
  <1>3. ASSUME HasRoom(ps) PROVE Queue
    <2>1. q = all /\ g = Last(all) /\ all # <<>> /\ ps.size[Last(all)] < MaxGroupSize
      BY <1>3 DEF HasRoom, GroupAcquired
    <2>2. Len(all) >= 1 /\ g = all[Len(all)] /\ g \in Groups /\ g \in ToSet(all)
      <3>1. Last(all) = all[Len(all)] /\ Len(all) # 0
        BY <1>2, <2>1 DEF Last
      <3> QED BY <1>2, <2>1, <3>1 DEF ToSet
    <2> HIDE DEF q, g, all
    <2> QED BY <1>2, <2>1, <2>2
  <1>4. ASSUME ~HasRoom(ps) PROVE Queue
    <2>1. \E h \in Groups : h \notin ToSet(all)
      BY <1>4 DEF CanAcquire
    <2>2. g \in Groups /\ g \notin ToSet(all) /\ q = Append(all, g)
      BY <1>4, <2>1 DEF GroupAcquired
    <2> HIDE DEF g, q, all
    <2>3. /\ q \in Seq(Groups) /\ Once(q) /\ ToSet(q) = ToSet(all) \cup {g}
      BY <1>2, <2>2, AppendOnce
    <2>4. /\ Len(q) = Len(all) + 1 /\ q[Len(q)] = g
          /\ \A i \in 1..Len(all) : q[i] = all[i]
      BY <1>2, <2>2
    <2>5. ps.size[g] = 0 /\ 0 < MaxGroupSize
      BY <1>2, <2>2, MaxGroupSizeAssumption
    <2>6. ASSUME NEW i \in 1..Len(q), NEW j \in 1..Len(q), i < j, ps.size[q[j]] = MaxGroupSize
          PROVE  ps.size[q[i]] = MaxGroupSize
      <3>1. j # Len(q)
        BY <2>4, <2>5, <2>6
      <3>2. i \in 1..Len(all) /\ j \in 1..Len(all)
        BY <1>2, <2>4, <2>6, <3>1
      <3> QED BY <1>2, <2>4, <2>6, <3>2
    <2> QED BY <1>2, <2>2, <2>3, <2>4, <2>5, <2>6
  <1>5. Queue
    BY <1>3, <1>4
  <1> HIDE DEF g, q
  <1>6. /\ r.size \in [Groups -> Int] /\ r.size[g] = ps.size[g] + 1 /\ ps.size[g] \in Int
        /\ \A h \in Groups \ {g} : r.size[h] = ps.size[h]
    BY <1>1, <1>2, <1>5
  <1> HIDE DEF r, all
  <1>7. ASSUME ps.size[g] + 1 # MaxGroupSize PROVE GroupShape(r)
    <2>1. t = q
      BY <1>7
    <2>2. r.size[g] < MaxGroupSize
      BY <1>5, <1>6, <1>7, MaxGroupSizeAssumption
    <2>3. ASSUME NEW i \in 1..Len(q), NEW j \in 1..Len(q), i < j, r.size[q[j]] = MaxGroupSize
          PROVE  r.size[q[i]] = MaxGroupSize
      <3>1. q[j] \in Groups /\ q[i] \in Groups /\ q[j] # g
        BY <1>5, <1>6, <2>2, <2>3, MaxGroupSizeAssumption
      <3>2. ps.size[q[i]] = MaxGroupSize
        BY <1>5, <1>6, <2>3, <3>1
      <3>3. q[i] # g
        BY <1>5, <3>2, MaxGroupSizeAssumption
      <3> QED BY <1>6, <3>1, <3>2, <3>3
    <2>4. \A h \in Groups : r.size[h] <= MaxGroupSize /\ (h \notin ToSet(q) => r.size[h] = 0)
      <3> SUFFICES ASSUME NEW h \in Groups
                   PROVE  r.size[h] <= MaxGroupSize /\ (h \notin ToSet(q) => r.size[h] = 0)
        OBVIOUS
      <3>1. CASE h = g
        <4>1. r.size[g] \in Int /\ r.size[g] <= MaxGroupSize
          BY <1>5, <1>6, <2>2, MaxGroupSizeAssumption
        <4> QED BY <1>5, <3>1, <4>1
      <3>2. CASE h # g
        <4>1. h \notin ToSet(q) => h \notin ToSet(all)
          BY <1>5
        <4>2. r.size[h] = ps.size[h] /\ ps.size[h] <= MaxGroupSize
          BY <1>6, <3>2 DEF GroupShape
        <4> QED BY <1>2, <4>1, <4>2
      <3> QED BY <3>1, <3>2
    <2>5. r.groups = q /\ q \in Seq(Groups) /\ Once(q)
      BY <1>1, <1>5, <2>1
    <2> HIDE DEF t, Queue
    <2> QED BY <2>3, <2>4, <2>5 DEF GroupShape
  <1>8. ASSUME ps.size[g] + 1 = MaxGroupSize PROVE GroupShape(r)
    <2> DEFINE x == RemoveFirst(q, g)
    <2>1. /\ x \in Seq(Groups) /\ Once(x) /\ ToSet(x) = ToSet(q) \ {g}
          /\ \A i, j \in 1..Len(x) : i < j =>
                \E a, b \in 1..Len(q) : a < b /\ x[i] = q[a] /\ x[j] = q[b]
      BY <1>5, RemoveFirstOnce
    <2> HIDE DEF x
    <2>2. t = <<g>> \o x
      BY <1>8 DEF x
    <2> HIDE DEF t
    <2>3. g \in Groups /\ g \notin ToSet(x)
      BY <1>5, <2>1
    <2>4. /\ t \in Seq(Groups) /\ Once(t) /\ ToSet(t) = ToSet(x) \cup {g}
          /\ Len(t) = Len(x) + 1 /\ t[1] = g /\ \A i \in 2..Len(t) : t[i] = x[i - 1]
      BY <2>1, <2>2, <2>3, PutFirst
    <2>5. ASSUME NEW i \in 1..Len(t), NEW j \in 1..Len(t), i < j, r.size[t[j]] = MaxGroupSize
          PROVE  r.size[t[i]] = MaxGroupSize
      <3>1. CASE i = 1
        BY <1>6, <1>8, <2>4, <3>1
      <3>2. CASE i # 1
        <4>1. /\ Len(x) \in Nat /\ i - 1 \in 1..Len(x) /\ j - 1 \in 1..Len(x) /\ i - 1 < j - 1
              /\ i \in 2..Len(t) /\ j \in 2..Len(t)
          BY <2>1, <2>4, <2>5, <3>2
        <4>2. PICK a \in 1..Len(q), b \in 1..Len(q) :
                 a < b /\ x[i - 1] = q[a] /\ x[j - 1] = q[b]
          BY <2>1, <4>1
        <4>3. /\ t[i] = x[i - 1] /\ t[j] = x[j - 1]
              /\ t[i] \in ToSet(x) /\ t[j] \in ToSet(x)
          BY <2>1, <2>4, <4>1 DEF ToSet
        <4>4. t[i] \in Groups \ {g} /\ t[j] \in Groups \ {g}
          BY <2>1, <2>3, <2>4, <4>3
        <4>5. ps.size[q[b]] = MaxGroupSize
          BY <1>6, <2>5, <4>2, <4>3, <4>4
        <4>6. ps.size[q[a]] = MaxGroupSize
          BY <1>5, <4>2, <4>5
        <4> QED BY <1>6, <4>2, <4>3, <4>4, <4>6
      <3> QED BY <3>1, <3>2
    <2>6. \A h \in Groups : r.size[h] <= MaxGroupSize /\ (h \notin ToSet(t) => r.size[h] = 0)
      <3> SUFFICES ASSUME NEW h \in Groups
                   PROVE  r.size[h] <= MaxGroupSize /\ (h \notin ToSet(t) => r.size[h] = 0)
        OBVIOUS
      <3>1. CASE h = g
        BY <1>6, <1>8, <2>4, <3>1, MaxGroupSizeAssumption
      <3>2. CASE h # g
        <4>1. h \notin ToSet(t) => h \notin ToSet(all)
          BY <1>5, <2>1, <2>4, <3>2
        <4>2. r.size[h] = ps.size[h] /\ ps.size[h] <= MaxGroupSize
          BY <1>6, <3>2 DEF GroupShape
        <4> QED BY <1>2, <4>1, <4>2
      <3> QED BY <3>1, <3>2
    <2> QED BY <1>1, <2>4, <2>5, <2>6 DEF GroupShape
  <1>9. GroupShape(r) /\ g \in Groups
    BY <1>5, <1>7, <1>8
  <1> QED BY <1>1, <1>9 DEF r, g

(* The sizes of the groups are what is counted.                              *)
LEMMA UsersCounted ==
    ASSUME NEW ps, GroupCounts(ps), NEW g \in Groups
    PROVE  /\ IsFiniteSet(Users(ps, g)) /\ ps.size[g] \in Nat
           /\ \A o \in Objs : ps.obj[o].group = g => ps.size[g] > 0
  <1>1. IsFiniteSet(Users(ps, g))
    <2>1. Users(ps, g) \in SUBSET Objs
      BY DEF Users
    <2> QED BY <2>1, ObjsAssumption, FS_Subset
  <1>2. ps.size[g] = Cardinality(Users(ps, g))
    BY DEF GroupCounts
  <1>3. Cardinality(Users(ps, g)) \in Nat
    BY <1>1, FS_CardinalityType
  <1>4. ASSUME NEW o \in Objs, ps.obj[o].group = g PROVE ps.size[g] > 0
    <2>1. Users(ps, g) # {}
      BY <1>4 DEF Users
    <2>2. Cardinality(Users(ps, g)) # 0
      BY <1>1, <2>1, FS_EmptySet
    <2> QED BY <1>2, <1>3, <2>2
  <1> QED BY <1>1, <1>2, <1>3, <1>4

(* An object that joins a group, or leaves one.                              *)
LEMMA CountJoined ==
    ASSUME NEW ps \in PortStates, NEW r, NEW o \in Objs, NEW g \in Groups, GroupCounts(ps),
           ps.obj[o].group = Nothing, r.obj[o].group = g,
           \A p \in Objs \ {o} : r.obj[p].group = ps.obj[p].group,
           r.size = [ps.size EXCEPT ![g] = @ + 1]
    PROVE  GroupCounts(r)
  <1> SUFFICES ASSUME NEW h \in Groups PROVE r.size[h] = Cardinality(Users(r, h))
    BY DEF GroupCounts
  <1>1. ps.size \in [Groups -> Int] /\ ps.size[h] = Cardinality(Users(ps, h)) /\ h # Nothing
    BY NothingAssumption DEF PortStates, GroupCounts
  <1>2. CASE h = g
    <2>1. Users(r, g) = Users(ps, g) \cup {o} /\ o \notin Users(ps, g)
      BY <1>1, <1>2 DEF Users
    <2>2. IsFiniteSet(Users(ps, g))
      BY UsersCounted
    <2>3. Cardinality(Users(ps, g) \cup {o}) = Cardinality(Users(ps, g)) + 1
      BY <2>1, <2>2, FS_AddElement
    <2> QED BY <1>1, <1>2, <2>1, <2>3
  <1>3. CASE h # g
    <2>1. Users(r, h) = Users(ps, h)
      BY <1>1, <1>3 DEF Users
    <2> QED BY <1>1, <1>3, <2>1
  <1> QED BY <1>2, <1>3

(* ... and one that leaves it.                                               *)
LEMMA CountLeft ==
    ASSUME NEW ps \in PortStates, NEW r, NEW o \in Objs, NEW g \in Groups, GroupCounts(ps),
           ps.obj[o].group = g, r.obj[o].group = Nothing,
           \A p \in Objs \ {o} : r.obj[p].group = ps.obj[p].group,
           r.size = [ps.size EXCEPT ![g] = @ - 1]
    PROVE  GroupCounts(r)
  <1> SUFFICES ASSUME NEW h \in Groups PROVE r.size[h] = Cardinality(Users(r, h))
    BY DEF GroupCounts
  <1>1. ps.size \in [Groups -> Int] /\ ps.size[h] = Cardinality(Users(ps, h)) /\ h # Nothing
    BY NothingAssumption DEF PortStates, GroupCounts
  <1>2. CASE h = g
    <2>1. Users(r, g) = Users(ps, g) \ {o} /\ o \in Users(ps, g)
      BY <1>1, <1>2 DEF Users
    <2>2. IsFiniteSet(Users(ps, g))
      BY UsersCounted
    <2>3. Cardinality(Users(ps, g) \ {o}) = Cardinality(Users(ps, g)) - 1
      BY <2>1, <2>2, FS_RemoveElement
    <2> QED BY <1>1, <1>2, <2>1, <2>3
  <1>3. CASE h # g
    <2>1. Users(r, h) = Users(ps, h)
      BY <1>1, <1>3 DEF Users
    <2> QED BY <1>1, <1>3, <2>1
  <1> QED BY <1>2, <1>3

-----------------------------------------------------------------------------
(* Objects that are freed and deleted.                                       *)

(* An object that is freed leaves its group and its queue.                   *)
LEMMA Freed ==
    ASSUME NEW ps \in PortStates, NEW o \in Objs, Once(ps.updates),
           GroupShape(ps), GroupCounts(ps), ps.obj[o].group \in Groups
    PROVE  LET r == SockFree(ps, o) IN
           /\ r \in PortStates /\ Once(r.updates) /\ ToSet(r.updates) = ToSet(ps.updates) \ {o}
           /\ r.deletedQ = ps.deletedQ \ {o} /\ r.tree = ps.tree /\ r.poll = ps.poll
           /\ r.done = ps.done /\ r.polling = ps.polling
           /\ r.obj[o] = FreeObj /\ \A p \in Objs \ {o} : r.obj[p] = ps.obj[p]
           /\ GroupShape(r) /\ GroupCounts(r)
  <1> DEFINE g == ps.obj[o].group
             q == QueueRemove(ps, o)
             x == PollGroupRelease(q, g)
             r == SockFree(ps, o)
  <1>1. r \in PortStates
    BY SockFreeType
  <1>2. /\ q \in PortStates /\ Once(q.updates) /\ ToSet(q.updates) = ToSet(ps.updates) \ {o}
        /\ q.deletedQ = ps.deletedQ \ {o}
        /\ q.obj = ps.obj /\ q.tree = ps.tree /\ q.groups = ps.groups /\ q.size = ps.size
        /\ q.poll = ps.poll /\ q.done = ps.done /\ q.polling = ps.polling
    BY QueueRemoved
  <1> HIDE DEF q
  <1>3. GroupShape(q) /\ GroupCounts(q)
    BY <1>2, SameGroups
  <1>4. g \in Groups /\ q.size[g] > 0
    BY <1>2, UsersCounted
  <1> HIDE DEF g
  <1>5. /\ GroupShape(x) /\ x.size = [q.size EXCEPT ![g] = @ - 1]
        /\ x.updates = q.updates /\ x.deletedQ = q.deletedQ /\ x.tree = q.tree
        /\ x.obj = q.obj /\ x.poll = q.poll /\ x.done = q.done /\ x.polling = q.polling
    BY <1>2, <1>3, <1>4, GroupReleased
  <1>6. DOMAIN x = {"obj", "tree", "updates", "deletedQ", "groups", "size", "poll", "done",
                    "polling"}
    <2>1. DOMAIN q = {"obj", "tree", "updates", "deletedQ", "groups", "size", "poll", "done",
                      "polling"}
      BY <1>2 DEF PortStates
    <2> QED BY <2>1 DEF PollGroupRelease
  <1> HIDE DEF x
  <1>7. /\ r = [x EXCEPT !.obj[o] = FreeObj] /\ ps.obj \in [Objs -> ObjStates]
    BY DEF SockFree, x, q, g, PortStates
  <1> HIDE DEF r
  <1>8. /\ r.updates = x.updates /\ r.deletedQ = x.deletedQ /\ r.tree = x.tree
        /\ r.poll = x.poll /\ r.done = x.done /\ r.polling = x.polling
        /\ r.groups = x.groups /\ r.size = x.size
        /\ r.obj = [ps.obj EXCEPT ![o] = FreeObj]
    BY <1>2, <1>5, <1>6, <1>7
  <1>9. r.obj[o] = FreeObj /\ \A p \in Objs \ {o} : r.obj[p] = ps.obj[p]
    BY <1>7, <1>8
  <1>10. GroupShape(r)
    BY <1>5, <1>8 DEF GroupShape
  <1>11. GroupCounts(r)
    <2>1. r.obj[o].group = Nothing /\ r.size = [ps.size EXCEPT ![g] = @ - 1] /\ ps.obj[o].group = g
      BY <1>2, <1>5, <1>8, <1>9 DEF FreeObj, g
    <2> QED BY <1>4, <1>9, <2>1, CountLeft
  <1> QED BY <1>1, <1>2, <1>5, <1>8, <1>9, <1>10, <1>11 DEF r

(* What sock__delete() makes of an object before it looks whether its poll   *)
(* operation has completed.                                                  *)
Gone(ps, o, fails) ==
    IF ps.obj[o].deleted THEN ps
    ELSE [QueueRemove(IF ps.obj[o].status = "PENDING" /\ ~fails THEN CancelPoll(ps, o) ELSE ps, o)
             EXCEPT !.tree[ps.obj[o].sock] = Nothing, !.obj[o].deleted = TRUE]

(* sock__delete() after that: freed, or kept for its completion.             *)
LEMMA DeleteIsGone ==
    ASSUME NEW ps, NEW o, NEW force, NEW fails
    PROVE  SockDelete(ps, o, force, fails) = IF force \/ Gone(ps, o, fails).obj[o].status = "IDLE"
                                             THEN SockFree(Gone(ps, o, fails), o)
                                             ELSE AddDeletedSocket(Gone(ps, o, fails), o)
  BY DEF SockDelete, Gone

(* What sock__delete() has done by then: the poll operation is cancelled,    *)
(* unless that fails, and the object is in no tree and no update queue.      *)
GoneOK(ps, r, o, fails) ==
    LET was == ps.obj[o]
        cancels == ~was.deleted /\ was.status = "PENDING" /\ ~fails
        completes == cancels /\ ps.poll[o].at = "kernel" IN
    /\ r \in PortStates /\ Once(r.updates) /\ Once(r.done)
    /\ r.groups = ps.groups /\ r.size = ps.size /\ r.polling = ps.polling
    /\ r.obj[o].group = was.group /\ r.obj[o].sock = was.sock /\ r.obj[o].deleted
    /\ r.obj[o].status = IF cancels THEN "CANCELLED" ELSE was.status
    /\ r.obj[o].pending = IF cancels THEN {} ELSE was.pending
    /\ r.poll[o].at = IF completes THEN "done" ELSE ps.poll[o].at
    /\ ToSet(r.done) = ToSet(ps.done) \cup (IF completes THEN {o} ELSE {})
    /\ ToSet(r.updates) = IF was.deleted THEN ToSet(ps.updates) ELSE ToSet(ps.updates) \ {o}
    /\ r.deletedQ = IF was.deleted THEN ps.deletedQ ELSE ps.deletedQ \ {o}
    /\ r.tree = IF was.deleted THEN ps.tree ELSE [ps.tree EXCEPT ![was.sock] = Nothing]
    /\ \A p \in Objs \ {o} : r.obj[p] = ps.obj[p] /\ r.poll[p] = ps.poll[p]

(* That is what it has done.                                                 *)
LEMMA GoneIs ==
    ASSUME NEW ps \in PortStates, NEW o \in Objs, NEW fails \in BOOLEAN,
           Once(ps.updates), Once(ps.done), o \in ToSet(ps.done) => ps.poll[o].at = "done"
    PROVE  GoneOK(ps, Gone(ps, o, fails), o, fails)
  <1> DEFINE r == Gone(ps, o, fails)
             was == ps.obj[o]
             c == IF was.status = "PENDING" /\ ~fails THEN CancelPoll(ps, o) ELSE ps
             q == QueueRemove(c, o)
             cancels == ~was.deleted /\ was.status = "PENDING" /\ ~fails
             completes == cancels /\ ps.poll[o].at = "kernel"
  <1>1. was.deleted \in BOOLEAN
    BY ObjType
  <1>2. CASE was.deleted
    BY <1>2 DEF Gone, GoneOK
  <1>3. CASE ~was.deleted
    <2>1. /\ c \in PortStates /\ Once(c.done) /\ Once(c.updates)
          /\ c.updates = ps.updates /\ c.deletedQ = ps.deletedQ /\ c.tree = ps.tree
          /\ c.groups = ps.groups /\ c.size = ps.size /\ c.polling = ps.polling
          /\ c.obj[o].status = IF cancels THEN "CANCELLED" ELSE was.status
          /\ c.obj[o].pending = IF cancels THEN {} ELSE was.pending
          /\ c.obj[o].sock = was.sock /\ c.obj[o].group = was.group
          /\ c.poll[o].at = IF completes THEN "done" ELSE ps.poll[o].at
          /\ ToSet(c.done) = ToSet(ps.done) \cup (IF completes THEN {o} ELSE {})
          /\ \A p \in Objs \ {o} : c.obj[p] = ps.obj[p] /\ c.poll[p] = ps.poll[p]
      <3>1. CASE was.status = "PENDING" /\ ~fails
        <4>1. c = CancelPoll(ps, o)
          BY <3>1
        <4> HIDE DEF c, was
        <4>2. was = ps.obj[o]
          BY DEF was
        <4>3. cancels /\ (completes <=> ps.poll[o].at = "kernel")
          BY <1>3, <3>1
        <4> HIDE DEF cancels, completes
        <4> QED BY <4>1, <4>2, <4>3, PollCancelled, ZenonT(60)
      <3>2. CASE ~(was.status = "PENDING" /\ ~fails)
        BY <3>2
      <3> QED BY <3>1, <3>2
    <2> HIDE DEF c
    <2>2. /\ q \in PortStates /\ Once(q.updates) /\ ToSet(q.updates) = ToSet(c.updates) \ {o}
          /\ q.deletedQ = c.deletedQ \ {o}
          /\ q.obj = c.obj /\ q.tree = c.tree /\ q.groups = c.groups /\ q.size = c.size
          /\ q.poll = c.poll /\ q.done = c.done /\ q.polling = c.polling
      BY <2>1, QueueRemoved
    <2> HIDE DEF q
    <2> DEFINE s == was.sock
    <2>3. r = [q EXCEPT !.tree[s] = Nothing, !.obj[o].deleted = TRUE]
      BY <1>3 DEF Gone, q, c
    <2>4. q.obj[o] \in ObjStates
      BY <2>2, ObjType
    <2> HIDE DEF s, r
    <2>5. r \in PortStates
      <3>1. [q.obj[o] EXCEPT !.deleted = TRUE] \in ObjStates
        BY <2>4 DEF ObjStates
      <3> QED BY <2>2, <2>3, <3>1 DEF PortStates
    <2>6. /\ r.tree = [q.tree EXCEPT ![s] = Nothing]
          /\ r.obj[o] = [q.obj[o] EXCEPT !.deleted = TRUE]
          /\ \A p \in Objs \ {o} : r.obj[p] = q.obj[p]
          /\ r.updates = q.updates /\ r.deletedQ = q.deletedQ /\ r.groups = q.groups
          /\ r.size = q.size /\ r.poll = q.poll /\ r.done = q.done /\ r.polling = q.polling
      BY <2>2, <2>3 DEF PortStates
    <2>7. /\ r.obj[o].group = q.obj[o].group /\ r.obj[o].sock = q.obj[o].sock
          /\ r.obj[o].deleted /\ r.obj[o].status = q.obj[o].status
          /\ r.obj[o].pending = q.obj[o].pending
      BY <2>4, <2>6 DEF ObjStates
    <2> HIDE DEF was, cancels, completes
    <2>8. ~ps.obj[o].deleted /\ s = was.sock
      BY <1>3 DEF was, s
    <2>9. /\ r.tree = [ps.tree EXCEPT ![was.sock] = Nothing]
          /\ ToSet(r.updates) = ToSet(ps.updates) \ {o} /\ r.deletedQ = ps.deletedQ \ {o}
          /\ Once(r.updates) /\ Once(r.done)
          /\ r.groups = ps.groups /\ r.size = ps.size /\ r.polling = ps.polling
          /\ \A p \in Objs \ {o} : r.obj[p] = ps.obj[p] /\ r.poll[p] = ps.poll[p]
      BY <2>1, <2>2, <2>6, <2>8
    <2>10. /\ r.obj[o].group = was.group /\ r.obj[o].sock = was.sock /\ r.obj[o].deleted
           /\ r.obj[o].status = IF cancels THEN "CANCELLED" ELSE was.status
           /\ r.obj[o].pending = IF cancels THEN {} ELSE was.pending
           /\ r.poll[o].at = IF completes THEN "done" ELSE ps.poll[o].at
           /\ ToSet(r.done) = ToSet(ps.done) \cup (IF completes THEN {o} ELSE {})
      BY <2>1, <2>2, <2>6, <2>7
    <2> QED BY <2>5, <2>8, <2>9, <2>10 DEF was, cancels, completes, r, GoneOK
  <1> QED BY <1>1, <1>2, <1>3

(* The frame of an operation that changes the tree at the socket of its      *)
(* object alone.                                                             *)
LEMMA FrameFrom ==
    ASSUME NEW ps \in PortStates, NEW r, NEW o \in Objs, NEW hands, ObjOK(ps, hands, o),
           \A p \in Objs \ {o} : r.obj[p] = ps.obj[p] /\ r.poll[p] = ps.poll[p],
           ToSet(r.updates) \ {o} = ToSet(ps.updates) \ {o},
           r.deletedQ \ {o} = ps.deletedQ \ {o}, ToSet(r.done) \ {o} = ToSet(ps.done) \ {o},
           \/ r.tree = ps.tree
           \/ /\ ~ps.obj[o].deleted /\ ps.obj[o].sock # Nothing
              /\ r.tree = [ps.tree EXCEPT ![ps.obj[o].sock] = Nothing]
    PROVE  Frame(ps, r, o)
  <1> SUFFICES ASSUME NEW p \in Objs \ {o}
               PROVE  \A s \in Sockets : r.tree[s] = p <=> ps.tree[s] = p
    BY DEF Frame
  <1>1. CASE r.tree = ps.tree
    BY <1>1
  <1>2. ASSUME ~ps.obj[o].deleted, ps.obj[o].sock # Nothing,
               r.tree = [ps.tree EXCEPT ![ps.obj[o].sock] = Nothing]
        PROVE  \A s \in Sockets : r.tree[s] = p <=> ps.tree[s] = p
    <2>1. ps.tree[ps.obj[o].sock] = o
      BY <1>2 DEF ObjOK
    <2>2. ps.tree \in [Sockets -> Objs \cup {Nothing}]
      BY DEF PortStates
    <2>3. p # Nothing
      BY NothingAssumption
    <2> SUFFICES ASSUME NEW s \in Sockets PROVE r.tree[s] = p <=> ps.tree[s] = p
      OBVIOUS
    <2>4. CASE s = ps.obj[o].sock
      BY <1>2, <2>1, <2>2, <2>3, <2>4
    <2>5. CASE s # ps.obj[o].sock
      BY <1>2, <2>2, <2>5
    <2> QED BY <2>4, <2>5
  <1> QED BY <1>1, <1>2

(* An object that has left the tree is nowhere in it.                        *)
LEMMA TreeLeft ==
    ASSUME NEW ps \in PortStates, NEW hands, NEW o \in Objs, ObjOK(ps, hands, o), NEW tree,
           ps.obj[o].sock # Nothing,
           tree = IF ps.obj[o].deleted THEN ps.tree ELSE [ps.tree EXCEPT ![ps.obj[o].sock] = Nothing]
    PROVE  \A s \in Sockets : tree[s] # o
  <1> DEFINE k == ps.obj[o].sock
  <1>1. ps.tree \in [Sockets -> Objs \cup {Nothing}] /\ Nothing # o
    BY NothingAssumption DEF PortStates
  <1>2. \A s \in Sockets : ps.tree[s] = o => k = s /\ ~ps.obj[o].deleted
    BY DEF ObjOK
  <1>3. CASE ps.obj[o].deleted
    BY <1>2, <1>3
  <1>4. CASE ~ps.obj[o].deleted
    <2>1. tree = [ps.tree EXCEPT ![k] = Nothing]
      BY <1>4
    <2> HIDE DEF k
    <2>2. \A s \in Sockets : tree[s] = IF s = k THEN Nothing ELSE ps.tree[s]
      BY <1>1, <2>1
    <2> QED BY <1>1, <1>2, <2>2
  <1> QED BY <1>3, <1>4

(* A socket that the port has is deleted: at once, or, if its poll operation *)
(* is still out, when that comes back.                                       *)
LEMMA SockDeleted ==
    ASSUME NEW ps, NEW hands, NEW o \in Live(ps), NEW fails \in BOOLEAN,
           PortOK(ps, hands, Nothing) \/ PortOK(ps, hands, o)
    PROVE  LET r == SockDelete(ps, o, FALSE, fails) IN
           /\ PortOK(r, hands, Nothing) /\ Frame(ps, r, o) /\ r.polling = ps.polling
           /\ ToSet(r.updates) = ToSet(ps.updates) \ {o}
           /\ o \notin Live(r) \/ r.obj[o].deleted
           /\ ~fails /\ Attached(ps) => Attached(r)
  <1> DEFINE r == SockDelete(ps, o, FALSE, fails)
             x == Gone(ps, o, fails)
             was == ps.obj[o]
             cancels == ~was.deleted /\ was.status = "PENDING" /\ ~fails
             completes == cancels /\ ps.poll[o].at = "kernel"
  <1>1. /\ o \in Objs /\ was.sock # Nothing /\ ps \in PortStates
        /\ Once(ps.updates) /\ Once(ps.done) /\ ObjOK(ps, hands, o)
        /\ GroupShape(ps) /\ GroupCounts(ps)
    BY DEF PortOK, Live
  <1>2. /\ was \in ObjStates /\ was.sock \in Sockets /\ was.group \in Groups
        /\ was.status \in {"IDLE", "PENDING", "CANCELLED"} /\ was.deleted \in BOOLEAN
        /\ ps.poll[o].at \in {"none", "kernel", "done"}
    <2>1. was.group # Nothing
      BY <1>1 DEF ObjOK
    <2> QED BY <1>1, <2>1, ObjType
  <1>3. /\ IF was.deleted THEN o \in ps.deletedQ /\ o \notin ToSet(ps.updates)
           ELSE ps.tree[was.sock] = o /\ o \notin ps.deletedQ
        /\ ps.poll[o].at = "none" <=> was.status = "IDLE"
        /\ \A s \in Sockets : ps.tree[s] = o => was.sock = s /\ ~was.deleted
        /\ was.status # "PENDING" => was.pending = {}
        /\ o \in ToSet(ps.done) \cup hands <=> ps.poll[o].at = "done"
        /\ o \in hands => o \notin ToSet(ps.done)
    BY <1>1 DEF ObjOK
  <1>4. /\ x \in PortStates /\ Once(x.updates) /\ Once(x.done)
        /\ x.groups = ps.groups /\ x.size = ps.size /\ x.polling = ps.polling
        /\ x.obj[o].group = was.group /\ x.obj[o].sock = was.sock /\ x.obj[o].deleted
        /\ x.obj[o].status = IF cancels THEN "CANCELLED" ELSE was.status
        /\ x.obj[o].pending = IF cancels THEN {} ELSE was.pending
        /\ x.poll[o].at = IF completes THEN "done" ELSE ps.poll[o].at
        /\ ToSet(x.done) = ToSet(ps.done) \cup (IF completes THEN {o} ELSE {})
        /\ ToSet(x.updates) = IF was.deleted THEN ToSet(ps.updates) ELSE ToSet(ps.updates) \ {o}
        /\ x.deletedQ = IF was.deleted THEN ps.deletedQ ELSE ps.deletedQ \ {o}
        /\ x.tree = IF was.deleted THEN ps.tree ELSE [ps.tree EXCEPT ![was.sock] = Nothing]
        /\ \A p \in Objs \ {o} : x.obj[p] = ps.obj[p] /\ x.poll[p] = ps.poll[p]
    <2>1. o \in ToSet(ps.done) => ps.poll[o].at = "done"
      BY <1>3
    <2>2. GoneOK(ps, x, o, fails)
      BY <1>1, <2>1, GoneIs
    <2> HIDE DEF x
    <2> QED BY <2>2 DEF GoneOK
  <1>5. r = IF x.obj[o].status = "IDLE" THEN SockFree(x, o) ELSE AddDeletedSocket(x, o)
    BY DeleteIsGone
  <1> HIDE DEF x
  <1>6. GroupShape(x) /\ GroupCounts(x)
    BY <1>1, <1>4, SameGroups
  <1>7. ps.tree \in [Sockets -> Objs \cup {Nothing}] /\ Nothing \notin Objs
    BY <1>1, NothingAssumption DEF PortStates
  <1>8. \A s \in Sockets : x.tree[s] # o
    <2>1. x.tree = IF was.deleted THEN ps.tree ELSE [ps.tree EXCEPT ![was.sock] = Nothing]
      BY <1>4
    <2> QED BY <1>1, <2>1, TreeLeft
  <1> HIDE DEF r
  <1>9. ASSUME x.obj[o].status = "IDLE"
        PROVE  /\ r \in PortStates /\ Once(r.updates) /\ Once(r.done)
               /\ GroupShape(r) /\ GroupCounts(r) /\ r.polling = ps.polling
               /\ ObjOK(r, hands, o) /\ Served(r, o) /\ Frame(ps, r, o)
               /\ ToSet(r.updates) = ToSet(ps.updates) \ {o} /\ o \notin Live(r)
               /\ r.poll[o].at # "kernel"
    <2>1. r = SockFree(x, o)
      BY <1>5, <1>9
    <2>2. /\ r \in PortStates /\ Once(r.updates) /\ ToSet(r.updates) = ToSet(x.updates) \ {o}
          /\ r.deletedQ = x.deletedQ \ {o} /\ r.tree = x.tree /\ r.poll = x.poll
          /\ r.done = x.done /\ r.polling = x.polling
          /\ r.obj[o] = FreeObj /\ \A p \in Objs \ {o} : r.obj[p] = x.obj[p]
          /\ GroupShape(r) /\ GroupCounts(r)
      <3>1. x \in PortStates /\ Once(x.updates) /\ o \in Objs /\ x.obj[o].group \in Groups
        BY <1>1, <1>2, <1>4
      <3> QED BY <1>6, <2>1, <3>1, Freed
    <2>3. ps.poll[o].at = "none" /\ ~completes /\ x.poll[o].at = "none"
      BY <1>3, <1>4, <1>9
    <2>4. r.obj[o].sock = Nothing /\ r.obj[o].group = Nothing /\ r.obj[o].pending = {}
      BY <2>2 DEF FreeObj
    <2>5. ToSet(r.updates) = ToSet(ps.updates) \ {o} /\ o \notin r.deletedQ /\ ToSet(r.done) = ToSet(ps.done)
      BY <1>4, <2>2, <2>3
    <2>6. ObjOK(r, hands, o)
      BY <1>3, <1>4, <1>8, <2>2, <2>3, <2>4, <2>5 DEF ObjOK
    <2>7. Served(r, o) /\ o \notin Live(r)
      BY <2>4 DEF Served, Live
    <2>8. Frame(ps, r, o)
      <3>1. r.deletedQ \ {o} = ps.deletedQ \ {o}
        BY <1>4, <2>2
      <3>2. \A p \in Objs \ {o} : r.obj[p] = ps.obj[p] /\ r.poll[p] = ps.poll[p]
        BY <1>4, <2>2
      <3>3. r.tree = ps.tree \/ (~was.deleted /\ r.tree = [ps.tree EXCEPT ![was.sock] = Nothing])
        BY <1>2, <1>4, <2>2
      <3> QED BY <1>1, <2>5, <3>1, <3>2, <3>3, FrameFrom
    <2> QED BY <1>4, <2>2, <2>3, <2>5, <2>6, <2>7, <2>8
  <1>10. ASSUME x.obj[o].status # "IDLE"
         PROVE  /\ r \in PortStates /\ Once(r.updates) /\ Once(r.done)
                /\ GroupShape(r) /\ GroupCounts(r) /\ r.polling = ps.polling
                /\ ObjOK(r, hands, o) /\ Served(r, o) /\ Frame(ps, r, o)
                /\ ToSet(r.updates) = ToSet(ps.updates) \ {o} /\ r.obj[o].deleted
                /\ ~fails /\ Attached(ps) => r.poll[o].at # "kernel"
    <2>1. r = AddDeletedSocket(x, o)
      BY <1>5, <1>10
    <2>2. /\ r \in PortStates /\ r.updates = x.updates /\ r.deletedQ = x.deletedQ \cup {o}
          /\ r.tree = x.tree /\ r.poll = x.poll /\ r.done = x.done /\ r.polling = x.polling
          /\ r.groups = x.groups /\ r.size = x.size /\ r.obj = x.obj
      <3>1. r \in PortStates
        BY <1>1, <1>4, <2>1, QueueTypes
      <3>2. o \notin ToSet(x.updates)
        BY <1>2, <1>3, <1>4
      <3>3. CASE o \in x.deletedQ
        BY <2>1, <3>1, <3>3 DEF AddDeletedSocket, IsEnqueued
      <3>4. CASE o \notin x.deletedQ
        <4>1. r = [x EXCEPT !.deletedQ = @ \cup {o}]
          BY <2>1, <3>2, <3>4 DEF AddDeletedSocket, IsEnqueued
        <4> QED BY <1>4, <3>1, <4>1 DEF PortStates
      <3> QED BY <3>3, <3>4
    <2>3. /\ r.poll[o].at = "none" <=> r.obj[o].status = "IDLE"
          /\ o \in ToSet(r.done) \cup hands <=> r.poll[o].at = "done"
          /\ o \in hands => o \notin ToSet(r.done)
      <3>1. CASE completes
        BY <1>3, <1>4, <2>2, <3>1
      <3>2. CASE ~completes
        <4>1. r.poll[o].at = ps.poll[o].at /\ ToSet(r.done) = ToSet(ps.done)
          BY <1>4, <2>2, <3>2
        <4>2. r.obj[o].status # "IDLE" /\ was.status # "IDLE"
          BY <1>4, <1>10, <2>2
        <4> QED BY <1>3, <4>1, <4>2
      <3> QED BY <3>1, <3>2
    <2>4. r.obj[o].sock # Nothing /\ r.obj[o].group # Nothing /\ r.obj[o].deleted
      BY <1>1, <1>2, <1>4, <2>2, NothingAssumption
    <2>5. ToSet(r.updates) = ToSet(ps.updates) \ {o} /\ o \in r.deletedQ
      BY <1>2, <1>3, <1>4, <2>2
    <2>6. ObjOK(r, hands, o)
      <3>1. r.obj[o].status # "PENDING" => r.obj[o].pending = {}
        BY <1>2, <1>3, <1>4, <2>2
      <3> QED BY <1>8, <2>2, <2>3, <2>4, <2>5, <3>1 DEF ObjOK
    <2>7. Served(r, o)
      BY <2>4 DEF Served
    <2>8. Frame(ps, r, o)
      <3>1. r.deletedQ \ {o} = ps.deletedQ \ {o} /\ ToSet(r.done) \ {o} = ToSet(ps.done) \ {o}
        BY <1>4, <2>2
      <3>2. \A p \in Objs \ {o} : r.obj[p] = ps.obj[p] /\ r.poll[p] = ps.poll[p]
        BY <1>4, <2>2
      <3>3. r.tree = ps.tree \/ (~was.deleted /\ r.tree = [ps.tree EXCEPT ![was.sock] = Nothing])
        BY <1>2, <1>4, <2>2
      <3>4. ToSet(r.updates) \ {o} = ToSet(ps.updates) \ {o}
        BY <2>5
      <3> QED BY <1>1, <3>1, <3>2, <3>3, <3>4, FrameFrom
    <2>9. GroupShape(r) /\ GroupCounts(r)
      BY <1>6, <2>2, SameGroups
    <2>10. ASSUME ~fails, Attached(ps) PROVE r.poll[o].at # "kernel"
      <3>1. ps.poll[o].at = "kernel" => was.status = "PENDING" /\ ~was.deleted
        BY <1>1, <2>10 DEF Attached
      <3>2. r.poll[o].at = IF completes THEN "done" ELSE ps.poll[o].at
        BY <1>4, <2>2
      <3> QED BY <2>10, <3>1, <3>2
    <2> QED BY <1>4, <2>2, <2>4, <2>5, <2>6, <2>7, <2>8, <2>9, <2>10
  <1>11. /\ r \in PortStates /\ Once(r.updates) /\ Once(r.done)
         /\ GroupShape(r) /\ GroupCounts(r) /\ r.polling = ps.polling
         /\ ObjOK(r, hands, o) /\ Served(r, o) /\ Frame(ps, r, o)
         /\ ToSet(r.updates) = ToSet(ps.updates) \ {o} /\ (o \notin Live(r) \/ r.obj[o].deleted)
         /\ ~fails /\ Attached(ps) => r.poll[o].at # "kernel"
    BY <1>9, <1>10
  <1>12. PortOK(r, hands, Nothing)
    BY <1>1, <1>11, OneObject
  <1>13. ~fails /\ Attached(ps) => Attached(r)
    BY <1>11, FrameAttached
  <1> QED BY <1>11, <1>12, <1>13 DEF r

(* sock_update() takes a socket out of the update queue, with the driver     *)
(* told of its interest, or about to be when the cancelled operation is back.*)
LEMMA SockUpdated ==
    ASSUME NEW ps, NEW hands, PortOK(ps, hands, Nothing), NEW o \in ToSet(ps.updates), NEW gone
    PROVE  LET r == SockUpdate(ps, o, gone) IN
           /\ PortOK(r, hands, Nothing) /\ r.polling = ps.polling
           /\ ToSet(r.updates) = ToSet(ps.updates) \ {o}
           /\ Attached(ps) => Attached(r)
  <1> DEFINE r == SockUpdate(ps, o, gone)
             it == ps.obj[o]
             covered == it.events \cap Known \subseteq it.pending
             Good(x) == /\ PortOK(x, hands, Nothing) /\ x.polling = ps.polling
                        /\ ToSet(x.updates) = ToSet(ps.updates) \ {o}
                        /\ Attached(ps) => Attached(x)
  <1>1. /\ o \in Objs /\ ps \in PortStates
        /\ Once(ps.updates) /\ Once(ps.done) /\ ObjOK(ps, hands, o)
        /\ GroupShape(ps) /\ GroupCounts(ps)
    <2>1. ps \in PortStates
      BY DEF PortOK
    <2>2. ps.updates \in Seq(Objs)
      BY <2>1 DEF PortStates
    <2>3. o \in Objs
      BY <2>2 DEF ToSet
    <2> QED BY <2>3 DEF PortOK
  <1>2. /\ it \in ObjStates /\ ps.poll[o] \in PollStates
        /\ it.status \in {"IDLE", "PENDING", "CANCELLED"} /\ it.deleted \in BOOLEAN
    BY <1>1, ObjType
  <1>3. /\ it.sock # Nothing /\ it.group # Nothing /\ ~it.deleted
        /\ ps.tree[it.sock] = o /\ o \notin ps.deletedQ
        /\ ps.poll[o].at = "none" <=> it.status = "IDLE"
        /\ \A s \in Sockets : ps.tree[s] = o => it.sock = s /\ ~it.deleted
        /\ it.status # "PENDING" => it.pending = {}
        /\ o \in ToSet(ps.done) \cup hands <=> ps.poll[o].at = "done"
        /\ o \in hands => o \notin ToSet(ps.done)
    BY <1>1 DEF ObjOK
  <1>12. Attached(ps) /\ ps.poll[o].at = "kernel" => it.status = "PENDING"
    BY <1>1 DEF Attached
  <1> HIDE DEF covered
  \* The object and its poll operation in x decide about all of x.
  <1>4. ASSUME NEW x \in PortStates, Once(x.updates), Once(x.done),
               ToSet(x.updates) = ToSet(ps.updates) \ {o},
               x.deletedQ = ps.deletedQ \ {o}, x.tree = ps.tree, x.polling = ps.polling,
               x.groups = ps.groups, x.size = ps.size,
               \A p \in Objs \ {o} : x.obj[p] = ps.obj[p] /\ x.poll[p] = ps.poll[p],
               x.obj[o].sock = it.sock, x.obj[o].deleted = it.deleted, x.obj[o].group = it.group,
               x.poll[o].at = "none" <=> x.obj[o].status = "IDLE",
               x.obj[o].status # "PENDING" => x.obj[o].pending = {},
               o \in ToSet(x.done) \cup hands <=> x.poll[o].at = "done",
               o \in hands => o \notin ToSet(x.done),
               ToSet(x.done) \ {o} = ToSet(ps.done) \ {o},
               \/ x.obj[o].events \cap Known \subseteq x.obj[o].pending /\ x.obj[o].status = "PENDING"
               \/ x.obj[o].status = "CANCELLED",
               Attached(ps) /\ x.poll[o].at = "kernel" => x.obj[o].status = "PENDING"
        PROVE  Good(x)
    <2>1. ObjOK(x, hands, o)
      BY <1>1, <1>3, <1>4 DEF ObjOK
    <2>2. Served(x, o)
      BY <1>4 DEF Served
    <2>3. Frame(ps, x, o)
      <3>1. ToSet(x.updates) \ {o} = ToSet(ps.updates) \ {o} /\ x.deletedQ \ {o} = ps.deletedQ \ {o}
        BY <1>4
      <3> QED BY <1>1, <1>4, <3>1, FrameFrom
    <2>4. GroupShape(x) /\ GroupCounts(x)
      <3>1. \A p \in Objs : x.obj[p].group = ps.obj[p].group
        BY <1>4
      <3> QED BY <1>1, <1>4, <3>1, SameGroups
    <2>5. PortOK(x, hands, Nothing)
      BY <1>1, <1>4, <2>1, <2>2, <2>3, <2>4, OneObject
    <2>6. Attached(ps) => Attached(x)
      BY <1>3, <1>4, <2>3, FrameAttached
    <2> QED BY <1>4, <2>5, <2>6
  <1> DEFINE q == QueueRemove(ps, o)
  <1>5. /\ q \in PortStates /\ Once(q.updates) /\ ToSet(q.updates) = ToSet(ps.updates) \ {o}
        /\ q.deletedQ = ps.deletedQ \ {o}
        /\ q.obj = ps.obj /\ q.tree = ps.tree /\ q.groups = ps.groups /\ q.size = ps.size
        /\ q.poll = ps.poll /\ q.done = ps.done /\ q.polling = ps.polling
    BY <1>1, QueueRemoved
  <1>6. ASSUME it.status = "PENDING" /\ covered PROVE Good(r)
    <2>1. r = q
      BY <1>6 DEF SockUpdate, covered
    <2> HIDE DEF q, r, Good, it
    <2> QED BY <1>1, <1>3, <1>4, <1>5, <1>6, <1>12, <2>1 DEF covered, it
  <1>7. ASSUME it.status = "CANCELLED" PROVE Good(r)
    <2>1. r = q
      BY <1>7 DEF SockUpdate
    <2> HIDE DEF q, r, Good, it
    <2> QED BY <1>1, <1>3, <1>4, <1>5, <1>7, <1>12, <2>1 DEF it
  <1>8. ASSUME it.status = "PENDING" /\ ~covered PROVE Good(r)
    <2> DEFINE c == CancelPoll(ps, o)
               x == QueueRemove(c, o)
    <2>1. r = x
      BY <1>8 DEF SockUpdate, covered
    <2>2. o \in ToSet(ps.done) => ps.poll[o].at = "done"
      BY <1>3
    <2>3. /\ c \in PortStates /\ Once(c.done)
          /\ c.updates = ps.updates /\ c.deletedQ = ps.deletedQ /\ c.tree = ps.tree
          /\ c.groups = ps.groups /\ c.size = ps.size /\ c.polling = ps.polling
          /\ c.obj[o].status = "CANCELLED" /\ c.obj[o].pending = {} /\ c.obj[o].sock = it.sock
          /\ c.obj[o].deleted = it.deleted /\ c.obj[o].group = it.group
          /\ c.poll[o].at = IF ps.poll[o].at = "kernel" THEN "done" ELSE ps.poll[o].at
          /\ ToSet(c.done) = ToSet(ps.done) \cup (IF ps.poll[o].at = "kernel" THEN {o} ELSE {})
          /\ \A p \in Objs \ {o} : c.obj[p] = ps.obj[p] /\ c.poll[p] = ps.poll[p]
      BY <1>1, <2>2, PollCancelled
    <2> HIDE DEF c
    <2>4. /\ x \in PortStates /\ Once(x.updates) /\ ToSet(x.updates) = ToSet(c.updates) \ {o}
          /\ x.deletedQ = c.deletedQ \ {o}
          /\ x.obj = c.obj /\ x.tree = c.tree /\ x.groups = c.groups /\ x.size = c.size
          /\ x.poll = c.poll /\ x.done = c.done /\ x.polling = c.polling
      BY <1>1, <2>3, QueueRemoved
    <2> HIDE DEF x, r
    <2>5. /\ x.poll[o].at = "none" <=> x.obj[o].status = "IDLE"
          /\ o \in ToSet(x.done) \cup hands <=> x.poll[o].at = "done"
          /\ o \in hands => o \notin ToSet(x.done)
          /\ ToSet(x.done) \ {o} = ToSet(ps.done) \ {o}
          /\ x.poll[o].at # "kernel"
      <3>1. CASE ps.poll[o].at = "kernel"
        BY <1>3, <2>3, <2>4, <3>1
      <3>2. CASE ps.poll[o].at # "kernel"
        <4>1. ps.poll[o].at # "none" /\ x.poll[o].at = ps.poll[o].at /\ ToSet(x.done) = ToSet(ps.done)
          BY <1>3, <1>8, <2>3, <2>4, <3>2
        <4>2. x.obj[o].status # "IDLE"
          BY <2>3, <2>4
        <4> QED BY <1>3, <3>2, <4>1, <4>2
      <3> QED BY <3>1, <3>2
    <2>6. /\ x.obj[o].sock = it.sock /\ x.obj[o].deleted = it.deleted /\ x.obj[o].group = it.group
          /\ x.obj[o].status = "CANCELLED" /\ x.obj[o].pending = {}
          /\ \A p \in Objs \ {o} : x.obj[p] = ps.obj[p] /\ x.poll[p] = ps.poll[p]
          /\ x \in PortStates /\ Once(x.updates) /\ Once(x.done)
          /\ ToSet(x.updates) = ToSet(ps.updates) \ {o} /\ x.deletedQ = ps.deletedQ \ {o}
          /\ x.tree = ps.tree /\ x.groups = ps.groups /\ x.size = ps.size /\ x.polling = ps.polling
      BY <2>3, <2>4
    <2> HIDE DEF Good, it
    <2> QED BY <1>4, <2>1, <2>5, <2>6
  <1>9. ASSUME it.status = "IDLE" /\ it.sock \in gone PROVE Good(r)
    <2>1. r = SockDelete(ps, o, FALSE, FALSE)
      BY <1>9 DEF SockUpdate
    <2>2. o \in Live(ps)
      BY <1>1, <1>3 DEF Live
    <2> HIDE DEF r
    <2>3. FALSE \in BOOLEAN /\ ~FALSE
      OBVIOUS
    <2> QED BY <2>1, <2>2, <2>3, SockDeleted
  <1>10. ASSUME it.status = "IDLE" /\ it.sock \notin gone PROVE Good(r)
    <2> DEFINE x == [q EXCEPT !.obj[o].status = "PENDING", !.obj[o].pending = it.events,
                              !.poll[o] = [at |-> "kernel", set |-> EpollToAfd(it.events)]]
    <2>1. r = x
      BY <1>10 DEF SockUpdate
    <2>2. r \in PortStates
      BY <1>1, SockUpdateType
    <2>3. /\ x.updates = q.updates /\ x.deletedQ = q.deletedQ /\ x.tree = q.tree
          /\ x.groups = q.groups /\ x.size = q.size /\ x.done = q.done /\ x.polling = q.polling
          /\ x.poll[o].at = "kernel"
          /\ x.obj[o] = [[q.obj[o] EXCEPT !.status = "PENDING"] EXCEPT !.pending = it.events]
          /\ \A p \in Objs \ {o} : x.obj[p] = q.obj[p] /\ x.poll[p] = q.poll[p]
      <3> HIDE DEF q
      <3> QED BY <1>1, <1>5 DEF PortStates
    <2> HIDE DEF x, r, q, it
    <2>4. it \in ObjStates /\ q.obj[o] = it
      BY <1>2, <1>5 DEF it
    <2>5. /\ x.obj[o].sock = it.sock /\ x.obj[o].deleted = it.deleted
          /\ x.obj[o].group = it.group /\ x.obj[o].status = "PENDING"
          /\ x.obj[o].events = it.events /\ x.obj[o].pending = it.events
      BY <2>3, <2>4 DEF ObjStates
    <2>6. o \notin ToSet(x.done) \cup hands
      BY <1>3, <1>5, <1>10, <2>3
    <2>7. x \in PortStates
      BY <2>1, <2>2
    <2> HIDE DEF Good
    <2>8. /\ Once(x.updates) /\ Once(x.done) /\ ToSet(x.updates) = ToSet(ps.updates) \ {o}
          /\ x.deletedQ = ps.deletedQ \ {o} /\ x.tree = ps.tree /\ x.polling = ps.polling
          /\ x.groups = ps.groups /\ x.size = ps.size /\ x.done = ps.done
          /\ \A p \in Objs \ {o} : x.obj[p] = ps.obj[p] /\ x.poll[p] = ps.poll[p]
      BY <1>1, <1>5, <2>3
    <2>9. /\ x.poll[o].at = "none" <=> x.obj[o].status = "IDLE"
          /\ o \in ToSet(x.done) \cup hands <=> x.poll[o].at = "done"
          /\ x.obj[o].events \cap Known \subseteq x.obj[o].pending
      BY <2>3, <2>5, <2>6
    <2> QED BY <1>4, <2>1, <2>5, <2>6, <2>7, <2>8, <2>9, SMTT(30)
  <1> HIDE DEF r, it
  <1>11. Good(r)
    BY <1>2, <1>6, <1>7, <1>8, <1>9, <1>10
  <1> QED BY <1>11 DEF r

(* A queue without nodes is empty.                                           *)
LEMMA EmptyQueue ==
    ASSUME NEW S, NEW q \in Seq(S), ToSet(q) = {}
    PROVE  q = <<>>
  <1>1. Len(q) \in Nat
    OBVIOUS
  <1>2. Len(q) = 0
    <2> SUFFICES ASSUME Len(q) # 0 PROVE FALSE
      OBVIOUS
    <2>1. 1 \in 1..Len(q)
      BY <1>1
    <2>2. q[1] \in ToSet(q)
      BY <2>1 DEF ToSet
    <2> QED BY <2>2
  <1> QED BY <1>2

(* port__update_events() leaves the port in order, wherever it stops, and    *)
(* the update queue empty if it comes to the end of it.                      *)
LEMMA UpdatedFirst ==
    ASSUME NEW ps, NEW hands, PortOK(ps, hands, Nothing), NEW n \in 0..Len(ps.updates), NEW gone
    PROVE  LET r == UpdateFirst(ps, n, gone) IN
           /\ PortOK(r, hands, Nothing) /\ r.polling = ps.polling
           /\ n = Len(ps.updates) => r.updates = <<>>
           /\ Attached(ps) => Attached(r)
  <1> DEFINE u == ps.updates
             Rest(k) == {u[i] : i \in k + 1..Len(u)}
  <1>1. ps \in PortStates /\ u \in Seq(Objs) /\ Once(u) /\ Len(u) \in Nat /\ n \in Nat /\ n <= Len(u)
    BY DEF PortOK, PortStates
  <1>2. PICK run : UpdateRun(ps, n, gone, run)
    BY <1>1, UpdateRuns
  <1> DEFINE Fine(x, k) == /\ PortOK(x, hands, Nothing) /\ x.polling = ps.polling
                           /\ ToSet(x.updates) = Rest(k)
                           /\ Attached(ps) => Attached(x)
             K == {k \in 0..n : Fine(run[k], k)}
  <1>3. 0 \in K
    <2>1. run[0] = ps /\ 0 \in 0..n
      BY <1>1, <1>2 DEF UpdateRun
    <2>2. ToSet(u) = Rest(0)
      BY <1>1 DEF ToSet
    <2> QED BY <2>1, <2>2
  <1>4. ASSUME NEW k \in 1..n, k - 1 \in K PROVE k \in K
    <2> DEFINE x == run[k - 1]
               y == run[k]
    <2>1. /\ k \in Nat /\ k >= 1 /\ k <= Len(u) /\ (k - 1) + 1 = k /\ k \in 0..n
          /\ k \in (k - 1) + 1..Len(u) /\ u[k] \in Objs
      BY <1>1
    <2>2. y = SockUpdate(x, u[k], gone)
      BY <1>2 DEF UpdateRun
    <2>3. Fine(x, k - 1)
      BY <1>4
    <2>4. u[k] \in ToSet(x.updates)
      BY <2>1, <2>3
    <2> HIDE DEF x, y, u
    <2>5. /\ PortOK(y, hands, Nothing) /\ y.polling = x.polling
          /\ ToSet(y.updates) = ToSet(x.updates) \ {u[k]}
          /\ Attached(x) => Attached(y)
      BY <2>2, <2>3, <2>4, SockUpdated
    <2>6. Rest(k - 1) \ {u[k]} = Rest(k)
      <3>1. \A i \in k + 1..Len(u) : i \in (k - 1) + 1..Len(u) /\ u[i] # u[k]
        BY <1>1, <2>1 DEF Once
      <3>2. \A i \in (k - 1) + 1..Len(u) : i = k \/ i \in k + 1..Len(u)
        BY <1>1, <2>1
      <3> QED BY <3>1, <3>2
    <2>7. Fine(y, k)
      BY <2>3, <2>5, <2>6
    <2> HIDE DEF Fine
    <2> QED BY <2>1, <2>7 DEF y
  <1> HIDE DEF K
  <1>5. n \in K
    <2>1. \A k \in 0..n : k \in K
      BY <1>1, <1>3, <1>4, RunInduction
    <2>2. n \in 0..n
      BY <1>1
    <2> QED BY <2>1, <2>2
  <1> DEFINE r == UpdateFirst(ps, n, gone)
  <1>6. run[n] = r
    BY <1>2 DEF UpdateRun
  <1> HIDE DEF r
  <1>7. Fine(r, n)
    BY <1>5, <1>6 DEF K
  <1>8. n = Len(u) => r.updates = <<>>
    <2>1. r.updates \in Seq(Objs)
      BY <1>7 DEF PortOK, PortStates
    <2>2. n = Len(u) => Rest(n) = {}
      BY <1>1
    <2> HIDE DEF u
    <2> QED BY <1>7, <2>1, <2>2, EmptyQueue
  <1> QED BY <1>7, <1>8 DEF r

-----------------------------------------------------------------------------
(* Sockets that are added, and interests that are set.                       *)

(* The fields of a port that poll_group_acquire() and poll_group_release()   *)
(* leave alone.                                                              *)
SameButGroups(ps, r) ==
    /\ r.updates = ps.updates /\ r.deletedQ = ps.deletedQ /\ r.tree = ps.tree /\ r.obj = ps.obj
    /\ r.poll = ps.poll /\ r.done = ps.done /\ r.polling = ps.polling

(* What does not depend on the groups is kept.                               *)
LEMMA SameButGroupsKeeps ==
    ASSUME NEW ps, NEW r \in PortStates, NEW hands, NEW o, PortOK(ps, hands, o),
           SameButGroups(ps, r), GroupShape(r), GroupCounts(r)
    PROVE  PortOK(r, hands, o)
  BY DEF SameButGroups, PortOK, ObjOK, Served

(* poll_group_acquire() keeps the types of a port.                           *)
LEMMA GroupTakenType ==
    ASSUME NEW ps \in PortStates, GroupShape(ps), CanAcquire(ps)
    PROVE  PollGroupAcquire(ps) \in PortStates
  <1> DEFINE r == PollGroupAcquire(ps)
             g == GroupAcquired(ps)
  <1>1. GroupShape(r) /\ g \in Groups /\ r.size = [ps.size EXCEPT ![g] = @ + 1]
    BY GroupTaken
  <1>2. r.groups \in Seq(Groups \cup {Nothing})
    <2>1. r.groups \in Seq(Groups)
      BY <1>1 DEF GroupShape
    <2>2. Seq(Groups) \subseteq Seq(Groups \cup {Nothing})
      OBVIOUS
    <2> QED BY <2>1, <2>2
  <1>3. r.size \in [Groups -> Int]
    <2>1. ps.size \in [Groups -> Int]
      BY DEF PortStates
    <2> HIDE DEF r, g
    <2> QED BY <1>1, <2>1
  <1>4. \E gs, sz : r = [ps EXCEPT !.size = sz, !.groups = gs]
    BY DEF PollGroupAcquire, PortStates
  <1>5. PICK gs, sz : r = [ps EXCEPT !.size = sz, !.groups = gs]
    BY <1>4
  <1> HIDE DEF r, g
  <1>6. r.size = sz /\ r.groups = gs
    BY <1>5 DEF PortStates
  <1>7. r \in PortStates
    BY <1>2, <1>3, <1>5, <1>6 DEF PortStates
  <1> QED BY <1>7 DEF r

(* sock_new() with a group, an object and a place in the tree.               *)
LEMMA SockAdded ==
    ASSUME NEW ps, NEW hands, PortOK(ps, hands, Nothing), NEW s \in Sockets, CanAdd(ps, s)
    PROVE  LET r == SockNew(ps, s)
               o == ObjFor(ps) IN
           /\ o \in Live(r) /\ ~r.obj[o].deleted
           /\ PortOK(r, hands, o) /\ r.polling = ps.polling
           /\ Attached(ps) => Attached(r)
  <1> DEFINE r == SockNew(ps, s)
             o == ObjFor(ps)
             g == GroupAcquired(ps)
             a == PollGroupAcquire(ps)
             new == [FreeObj EXCEPT !.sock = s, !.group = g]
  <1>1. /\ ps \in PortStates /\ GroupShape(ps) /\ GroupCounts(ps)
        /\ Once(ps.updates) /\ Once(ps.done)
        /\ CanAcquire(ps) /\ Objs # Live(ps) /\ ps.tree[s] = Nothing /\ s # Nothing
    BY NothingAssumption DEF PortOK, CanAdd
  <1>2. o \in Objs /\ o \notin Live(ps)
    <2>1. \E p \in Objs : p \notin Live(ps)
      BY <1>1 DEF Live
    <2> QED BY <2>1 DEF ObjFor
  <1> HIDE DEF o
  <1>3. /\ ps.obj[o].sock = Nothing /\ ps.obj[o].group = Nothing /\ ps.poll[o].at = "none"
        /\ o \notin ToSet(ps.updates) /\ o \notin ps.deletedQ
        /\ \A k \in Sockets : ps.tree[k] # o
        /\ o \notin ToSet(ps.done) \cup hands
    <2>1. ObjOK(ps, hands, o) /\ ps.obj[o].sock = Nothing
      BY <1>2 DEF PortOK, Live
    <2>2. \A k \in Sockets : k # Nothing
      BY NothingAssumption
    <2> QED BY <2>1, <2>2 DEF ObjOK
  <1>4. /\ a \in PortStates /\ g \in Groups /\ GroupShape(a) /\ a.size = [ps.size EXCEPT ![g] = @ + 1]
        /\ SameButGroups(ps, a)
    BY <1>1, GroupTaken, GroupTakenType DEF SameButGroups
  <1> HIDE DEF g, a
  <1>5. r = [a EXCEPT !.tree[s] = o, !.obj[o] = new]
    BY <1>1 DEF SockNew, CanAdd, a, o, g
  <1>6. /\ new \in ObjStates /\ new.sock = s /\ new.group = g /\ new.status = "IDLE"
        /\ new.pending = {} /\ new.deleted = FALSE
    <2>1. FreeObj \in ObjStates
      BY AfdTypes
    <2>2. new = [[FreeObj EXCEPT !.sock = s] EXCEPT !.group = g]
      OBVIOUS
    <2>3. [FreeObj EXCEPT !.sock = s] \in ObjStates
      BY <2>1 DEF ObjStates
    <2>4. new \in ObjStates
      BY <1>4, <2>2, <2>3 DEF ObjStates
    <2>5. /\ new.sock = s /\ new.group = g /\ new.status = FreeObj.status
          /\ new.pending = FreeObj.pending /\ new.deleted = FreeObj.deleted
      BY <2>1 DEF ObjStates
    <2> HIDE DEF new
    <2> QED BY <2>4, <2>5 DEF FreeObj
  <1> HIDE DEF new, r
  <1>7. r \in PortStates
    BY <1>2, <1>4, <1>5, <1>6 DEF PortStates
  <1>8. /\ r.tree = [ps.tree EXCEPT ![s] = o] /\ r.obj = [ps.obj EXCEPT ![o] = new]
        /\ r.updates = ps.updates /\ r.deletedQ = ps.deletedQ /\ r.groups = a.groups
        /\ r.size = a.size /\ r.poll = ps.poll /\ r.done = ps.done /\ r.polling = ps.polling
    BY <1>4, <1>5 DEF PortStates, SameButGroups
  <1>9. /\ ps.tree \in [Sockets -> Objs \cup {Nothing}] /\ ps.obj \in [Objs -> ObjStates]
        /\ Nothing \notin Objs /\ g # Nothing
    BY <1>1, <1>4, NothingAssumption DEF PortStates
  <1>10. r.obj[o] = new /\ \A p \in Objs \ {o} : r.obj[p] = ps.obj[p]
    BY <1>2, <1>8, <1>9
  <1>11. \A k \in Sockets : r.tree[k] = IF k = s THEN o ELSE ps.tree[k]
    BY <1>8, <1>9
  <1>12. ObjOK(r, hands, o)
    <2>1. \A k \in Sockets : r.tree[k] = o => k = s
      BY <1>3, <1>11
    <2> QED BY <1>1, <1>3, <1>6, <1>8, <1>9, <1>10, <1>11, <2>1 DEF ObjOK
  <1>13. Frame(ps, r, o)
    <2>1. \A p \in Objs \ {o}, k \in Sockets : r.tree[k] = p <=> ps.tree[k] = p
      BY <1>1, <1>9, <1>11
    <2> QED BY <1>8, <1>10, <2>1 DEF Frame
  <1>14. GroupShape(r)
    BY <1>4, <1>8 DEF GroupShape
  <1>15. GroupCounts(r)
    <2>1. r.size = [ps.size EXCEPT ![g] = @ + 1] /\ r.obj[o].group = g
      BY <1>4, <1>6, <1>8, <1>10
    <2>2. \A p \in Objs \ {o} : r.obj[p].group = ps.obj[p].group
      BY <1>10
    <2> QED BY <1>1, <1>2, <1>3, <1>4, <2>1, <2>2, CountJoined
  <1>16. PortOK(r, hands, o)
    BY <1>1, <1>2, <1>7, <1>8, <1>12, <1>13, <1>14, <1>15, OneObject
  <1>17. Attached(ps) => Attached(r)
    BY <1>3, <1>8, <1>13, FrameAttached
  <1> QED BY <1>1, <1>2, <1>6, <1>8, <1>10, <1>16, <1>17 DEF Live, r, o

(* sock_new() without one of them: the port is as it was.                    *)
LEMMA SockRefused ==
    ASSUME NEW ps, NEW hands, PortOK(ps, hands, Nothing), NEW s \in Sockets, ~CanAdd(ps, s)
    PROVE  LET r == SockNew(ps, s) IN
           /\ PortOK(r, hands, Nothing) /\ r.polling = ps.polling /\ r.updates = ps.updates
           /\ Attached(ps) => Attached(r)
  <1> DEFINE r == SockNew(ps, s)
             g == GroupAcquired(ps)
             a == PollGroupAcquire(ps)
             x == PollGroupRelease(a, g)
  <1>1. ps \in PortStates /\ GroupShape(ps) /\ GroupCounts(ps)
    BY DEF PortOK
  <1>2. CASE ~CanAcquire(ps)
    BY <1>2 DEF SockNew
  <1>3. CASE CanAcquire(ps)
    <2>1. r = x
      BY <1>3 DEF SockNew
    <2>2. /\ a \in PortStates /\ g \in Groups /\ GroupShape(a)
          /\ a.size = [ps.size EXCEPT ![g] = @ + 1] /\ SameButGroups(ps, a)
      BY <1>1, <1>3, GroupTaken, GroupTakenType DEF SameButGroups
    <2> HIDE DEF a, g, r
    <2>3. ps.size \in [Groups -> Int] /\ ps.size[g] \in Nat
      BY <1>1, <2>2, UsersCounted DEF PortStates
    <2>4. a.size[g] > 0
      BY <2>2, <2>3
    <2>5. /\ GroupShape(x) /\ x.size = [a.size EXCEPT ![g] = @ - 1] /\ SameButGroups(a, x)
      BY <2>2, <2>4, GroupReleased DEF SameButGroups
    <2>6. x.size = ps.size
      <3>1. a.size \in [Groups -> Int] /\ a.size[g] = ps.size[g] + 1
            /\ \A h \in Groups \ {g} : a.size[h] = ps.size[h]
        BY <2>2, <2>3
      <3> QED BY <2>2, <2>3, <2>5, <3>1
    <2>7. x \in PortStates
      <3>1. \E gs, sz : x = [a EXCEPT !.size = sz, !.groups = gs]
        BY DEF PollGroupRelease
      <3>2. PICK gs, sz : x = [a EXCEPT !.size = sz, !.groups = gs]
        BY <3>1
      <3>3. x.size = sz /\ x.groups = gs
        BY <2>2, <3>2 DEF PortStates
      <3>4. gs \in Seq(Groups \cup {Nothing}) /\ sz \in [Groups -> Int]
        <4>1. gs \in Seq(Groups)
          BY <2>5, <3>3 DEF GroupShape
        <4>2. Seq(Groups) \subseteq Seq(Groups \cup {Nothing})
          OBVIOUS
        <4> QED BY <2>3, <2>6, <3>3, <4>1, <4>2
      <3> HIDE DEF x
      <3> QED BY <2>2, <3>2, <3>4 DEF PortStates
    <2> HIDE DEF x
    <2>8. SameButGroups(ps, x)
      BY <2>2, <2>5 DEF SameButGroups
    <2>9. GroupCounts(x)
      BY <1>1, <2>6, <2>8 DEF GroupCounts, Users, SameButGroups
    <2>10. PortOK(x, hands, Nothing)
      BY <2>5, <2>7, <2>8, <2>9, SameButGroupsKeeps
    <2>11. Attached(ps) => Attached(x)
      BY <2>8 DEF SameButGroups, Attached
    <2> QED BY <2>1, <2>8, <2>10, <2>11 DEF SameButGroups, r
  <1> QED BY <1>2, <1>3

(* What the object of a socket and its poll operation become decides about   *)
(* the port, where nothing else changes.                                     *)
LEMMA OnlyObject ==
    ASSUME NEW ps, NEW hands, NEW o \in Live(ps),
           PortOK(ps, hands, Nothing) \/ PortOK(ps, hands, o),
           NEW x \in PortStates, NEW hands2, hands2 \ {o} = hands \ {o},
           Once(x.updates), ToSet(x.updates) \ {o} = ToSet(ps.updates) \ {o},
           ps.obj[o].deleted => o \notin ToSet(x.updates),
           x.deletedQ = ps.deletedQ, x.tree = ps.tree, x.done = ps.done,
           x.groups = ps.groups, x.size = ps.size,
           \A p \in Objs \ {o} : x.obj[p] = ps.obj[p] /\ x.poll[p] = ps.poll[p],
           x.obj[o].sock = ps.obj[o].sock, x.obj[o].deleted = ps.obj[o].deleted,
           x.obj[o].group = ps.obj[o].group,
           x.poll[o].at = "none" <=> x.obj[o].status = "IDLE",
           x.obj[o].status # "PENDING" => x.obj[o].pending = {},
           o \in ToSet(ps.done) \cup hands2 <=> x.poll[o].at = "done",
           o \in hands2 => o \notin ToSet(ps.done)
    PROVE  /\ PortOK(x, hands2, o)
           /\ Served(x, o) => PortOK(x, hands2, Nothing)
  <1>1. /\ o \in Objs /\ ps.obj[o].sock # Nothing /\ ps \in PortStates
        /\ Once(ps.updates) /\ Once(ps.done) /\ ObjOK(ps, hands, o)
        /\ GroupShape(ps) /\ GroupCounts(ps)
    BY DEF PortOK, Live
  <1>2. ObjOK(x, hands2, o)
    <2>1. /\ ps.obj[o].group # Nothing
          /\ IF ps.obj[o].deleted THEN o \in ps.deletedQ
             ELSE ps.tree[ps.obj[o].sock] = o /\ o \notin ps.deletedQ
          /\ \A s \in Sockets : ps.tree[s] = o => ps.obj[o].sock = s /\ ~ps.obj[o].deleted
      BY <1>1 DEF ObjOK
    <2> QED BY <1>1, <2>1 DEF ObjOK
  <1>3. Frame(ps, x, o)
    BY <1>1, FrameFrom
  <1>4. GroupShape(x) /\ GroupCounts(x)
    <2>1. \A p \in Objs : x.obj[p].group = ps.obj[p].group
      OBVIOUS
    <2> QED BY <1>1, <2>1, SameGroups
  <1>5. Once(x.done)
    BY <1>1
  <1> QED BY <1>1, <1>2, <1>3, <1>4, <1>5, OneObject

(* sock_set_event(): the interest is covered by the operation in flight, or  *)
(* the socket is in the update queue.                                        *)
LEMMA InterestSet ==
    ASSUME NEW ps, NEW hands, NEW o \in Live(ps), ~ps.obj[o].deleted, NEW events \in Masks,
           PortOK(ps, hands, Nothing) \/ PortOK(ps, hands, o)
    PROVE  LET r == SockSetEvent(ps, o, events) IN
           /\ PortOK(r, hands, Nothing) /\ r.polling = ps.polling
           /\ Attached(ps) => Attached(r)
  <1> DEFINE r == SockSetEvent(ps, o, events)
             mask == events \cup {"ERR", "HUP"}
             x == [ps EXCEPT !.obj[o].events = mask]
             y == RequestSocketUpdate(x, o)
             Good(z) == /\ PortOK(z, hands, Nothing) /\ z.polling = ps.polling
                        /\ Attached(ps) => Attached(z)
  <1>1. /\ o \in Objs /\ ps.obj[o].sock # Nothing /\ ps \in PortStates
        /\ Once(ps.updates) /\ Once(ps.done) /\ ObjOK(ps, hands, o)
    BY DEF PortOK, Live
  <1>2. /\ ps.obj[o] \in ObjStates /\ o \notin ps.deletedQ
        /\ ps.poll[o].at = "none" <=> ps.obj[o].status = "IDLE"
        /\ ps.obj[o].status # "PENDING" => ps.obj[o].pending = {}
        /\ o \in ToSet(ps.done) \cup hands <=> ps.poll[o].at = "done"
        /\ o \in hands => o \notin ToSet(ps.done)
    BY <1>1, ObjType DEF ObjOK
  <1>3. mask \in Masks /\ "ERR" \in mask \cap Known
    BY DEF Masks, Known
  <1> HIDE DEF mask
  <1>4. [ps.obj[o] EXCEPT !.events = mask] \in ObjStates
    BY <1>2, <1>3 DEF ObjStates
  <1>5. /\ x \in PortStates
        /\ x.updates = ps.updates /\ x.deletedQ = ps.deletedQ /\ x.tree = ps.tree
        /\ x.groups = ps.groups /\ x.size = ps.size /\ x.done = ps.done
        /\ x.polling = ps.polling /\ x.poll = ps.poll
        /\ x.obj[o] = [ps.obj[o] EXCEPT !.events = mask]
        /\ \A p \in Objs \ {o} : x.obj[p] = ps.obj[p]
    BY <1>1, <1>4 DEF PortStates
  <1> HIDE DEF x
  <1>6. /\ x.obj[o].sock = ps.obj[o].sock /\ x.obj[o].deleted = ps.obj[o].deleted
        /\ x.obj[o].group = ps.obj[o].group /\ x.obj[o].status = ps.obj[o].status
        /\ x.obj[o].pending = ps.obj[o].pending /\ x.obj[o].events = mask
    BY <1>2, <1>5 DEF ObjStates
  <1>7. r = IF (mask \cap Known) \ ps.obj[o].pending # {} THEN y ELSE x
    BY <1>6 DEF SockSetEvent, x, mask
  <1> HIDE DEF r
  <1>8. ASSUME (mask \cap Known) \ ps.obj[o].pending # {} PROVE Good(r)
    <2>1. r = y
      BY <1>7, <1>8
    <2>2. /\ y \in PortStates /\ Once(y.updates) /\ ToSet(y.updates) = ToSet(ps.updates) \cup {o}
          /\ y.deletedQ = ps.deletedQ
          /\ y.obj = x.obj /\ y.tree = ps.tree /\ y.groups = ps.groups /\ y.size = ps.size
          /\ y.poll = ps.poll /\ y.done = ps.done /\ y.polling = ps.polling
      <3>1. o \notin x.deletedQ /\ Once(x.updates)
        BY <1>1, <1>2, <1>5
      <3> QED BY <1>1, <1>5, <3>1, UpdateRequested
    <2> HIDE DEF y
    <2>3. Served(y, o)
      BY <2>2 DEF Served
    <2>4. \A p \in Objs \ {o} : y.obj[p] = ps.obj[p] /\ y.poll[p] = ps.poll[p]
      BY <1>5, <2>2
    <2>5. ToSet(y.updates) \ {o} = ToSet(ps.updates) \ {o}
      BY <2>2
    <2>6. /\ y.obj[o].sock = ps.obj[o].sock /\ y.obj[o].deleted = ps.obj[o].deleted
          /\ y.obj[o].group = ps.obj[o].group
          /\ y.poll[o].at = "none" <=> y.obj[o].status = "IDLE"
          /\ y.obj[o].status # "PENDING" => y.obj[o].pending = {}
          /\ o \in ToSet(ps.done) \cup hands <=> y.poll[o].at = "done"
      BY <1>2, <1>6, <2>2
    <2>7. PortOK(y, hands, Nothing)
      BY <1>2, <2>2, <2>3, <2>4, <2>5, <2>6, OnlyObject
    <2>8. ASSUME Attached(ps) PROVE Attached(y)
      <3>1. ASSUME NEW p \in Objs, y.poll[p].at = "kernel"
            PROVE  y.obj[p].status = "PENDING" /\ ~y.obj[p].deleted
        <4>1. ps.poll[p].at = "kernel"
          BY <2>2, <3>1
        <4>2. ps.obj[p].status = "PENDING" /\ ~ps.obj[p].deleted
          BY <2>8, <4>1 DEF Attached
        <4>3. CASE p = o
          BY <1>6, <2>2, <4>2, <4>3
        <4>4. CASE p # o
          BY <2>4, <4>2, <4>4
        <4> QED BY <4>3, <4>4
      <3> QED BY <3>1 DEF Attached
    <2> QED BY <2>1, <2>2, <2>7, <2>8
  <1>9. ASSUME (mask \cap Known) \ ps.obj[o].pending = {} PROVE Good(r)
    <2>1. r = x
      BY <1>7, <1>9
    <2>2. ps.obj[o].status = "PENDING"
      BY <1>2, <1>3, <1>9
    <2>3. Served(x, o)
      BY <1>6, <1>9, <2>2 DEF Served
    <2>4. /\ Once(x.updates) /\ ToSet(x.updates) \ {o} = ToSet(ps.updates) \ {o}
          /\ \A p \in Objs \ {o} : x.obj[p] = ps.obj[p] /\ x.poll[p] = ps.poll[p]
      BY <1>1, <1>5
    <2>5. /\ x.poll[o].at = "none" <=> x.obj[o].status = "IDLE"
          /\ x.obj[o].status # "PENDING" => x.obj[o].pending = {}
          /\ o \in ToSet(ps.done) \cup hands <=> x.poll[o].at = "done"
      BY <1>2, <1>5, <1>6
    <2>6. PortOK(x, hands, Nothing)
      BY <1>2, <1>5, <1>6, <2>3, <2>4, <2>5, OnlyObject
    <2>7. ASSUME Attached(ps) PROVE Attached(x)
      <3>1. ASSUME NEW p \in Objs, x.poll[p].at = "kernel"
            PROVE  x.obj[p].status = "PENDING" /\ ~x.obj[p].deleted
        <4>1. ps.poll[p].at = "kernel"
          BY <1>5, <3>1
        <4>2. ps.obj[p].status = "PENDING" /\ ~ps.obj[p].deleted
          BY <2>7, <4>1 DEF Attached
        <4>3. CASE p = o
          BY <1>6, <4>2, <4>3
        <4>4. CASE p # o
          BY <2>4, <4>2, <4>4
        <4> QED BY <4>3, <4>4
      <3> QED BY <3>1 DEF Attached
    <2> QED BY <1>5, <2>1, <2>6, <2>7
  <1> QED BY <1>8, <1>9 DEF r

(* What the tree finds is a socket that has not been deleted.                *)
LEMMA TreeFinds ==
    ASSUME NEW ps, NEW hands, NEW u, PortOK(ps, hands, u), NEW s \in Sockets,
           ps.tree[s] # Nothing
    PROVE  ps.tree[s] \in Live(ps) /\ ~ps.obj[ps.tree[s]].deleted
  <1>1. ps.tree[s] \in Objs
    BY DEF PortOK, PortStates
  <1>2. ObjOK(ps, hands, ps.tree[s])
    BY <1>1 DEF PortOK
  <1>3. s # Nothing
    BY NothingAssumption
  <1> QED BY <1>1, <1>2, <1>3 DEF ObjOK, Live

-----------------------------------------------------------------------------
(* Completions that are fed.                                                 *)

(* sock_feed_event() takes one completion out of the hands of the thread:    *)
(* the socket is idle and in the update queue again, or goes.                *)
LEMMA EventFed ==
    ASSUME NEW ps, NEW hands, PortOK(ps, hands, Nothing), NEW o \in hands, o \in Objs
    PROVE  LET r == FeedEvent(ps, o).port IN
           /\ PortOK(r, hands \ {o}, Nothing) /\ r.polling = ps.polling
           /\ Attached(ps) => Attached(r)
           /\ FeedEvent(ps, o).told \subseteq Sockets
  <1> DEFINE r == FeedEvent(ps, o).port
             left == hands \ {o}
             idle == [ps EXCEPT !.obj[o].status = "IDLE", !.obj[o].pending = {}, !.poll[o] = NoPoll]
             gone == SockDelete(idle, o, FALSE, FALSE)
             next == RequestSocketUpdate(idle, o)
             once == [next EXCEPT !.obj[o].events = {}]
             it == ps.obj[o]
             Good(z) == /\ PortOK(z, left, Nothing) /\ z.polling = ps.polling
                        /\ Attached(ps) => Attached(z)
  <1>1. /\ ps \in PortStates /\ Once(ps.updates) /\ Once(ps.done) /\ ObjOK(ps, hands, o)
        /\ it \in ObjStates
    BY ObjType DEF PortOK
  <1>2. /\ ps.poll[o].at = "done" /\ o \notin ToSet(ps.done) /\ it.sock # Nothing
        /\ it.deleted => o \notin ToSet(ps.updates)
        /\ ~it.deleted => o \notin ps.deletedQ
    BY <1>1 DEF ObjOK
  <1>3. o \in Live(ps)
    BY <1>2 DEF Live
  <1>4. /\ idle.updates = ps.updates /\ idle.deletedQ = ps.deletedQ /\ idle.tree = ps.tree
        /\ idle.groups = ps.groups /\ idle.size = ps.size /\ idle.done = ps.done
        /\ idle.polling = ps.polling /\ idle.poll[o] = NoPoll
        /\ idle.obj[o] = [[it EXCEPT !.status = "IDLE"] EXCEPT !.pending = {}]
        /\ \A p \in Objs \ {o} : idle.obj[p] = ps.obj[p] /\ idle.poll[p] = ps.poll[p]
    BY <1>1 DEF PortStates
  <1>5. idle \in PortStates
    <2>1. [it EXCEPT !.status = "IDLE"] \in ObjStates
      BY <1>1 DEF ObjStates
    <2>2. [[it EXCEPT !.status = "IDLE"] EXCEPT !.pending = {}] \in ObjStates
      BY <2>1 DEF ObjStates, Masks
    <2> QED BY <1>1, <2>2, AfdTypes DEF PortStates
  <1> HIDE DEF it
  <1>6. /\ idle.obj[o].sock = it.sock /\ idle.obj[o].deleted = it.deleted
        /\ idle.obj[o].group = it.group /\ idle.obj[o].status = "IDLE"
        /\ idle.obj[o].pending = {} /\ idle.obj[o].events = it.events
        /\ idle.poll[o].at = "none"
    <2>1. idle.poll[o].at = "none"
      BY <1>4 DEF NoPoll
    <2> HIDE DEF idle
    <2> QED BY <1>1, <1>4, <2>1 DEF ObjStates
  <1> HIDE DEF idle
  <1>7. /\ Once(idle.updates) /\ ToSet(idle.updates) \ {o} = ToSet(ps.updates) \ {o}
        /\ left \ {o} = hands \ {o} /\ o \notin left
    BY <1>1, <1>4
  <1>8. PortOK(idle, left, o)
    <2>1. /\ o \in ToSet(ps.done) \cup left <=> idle.poll[o].at = "done"
          /\ idle.poll[o].at = "none" <=> idle.obj[o].status = "IDLE"
          /\ idle.obj[o].status # "PENDING" => idle.obj[o].pending = {}
          /\ o \in left => o \notin ToSet(ps.done)
          /\ idle.obj[o].sock = ps.obj[o].sock /\ idle.obj[o].deleted = ps.obj[o].deleted
          /\ idle.obj[o].group = ps.obj[o].group
      BY <1>2, <1>6, <1>7 DEF it
    <2>2. ps.obj[o].deleted => o \notin ToSet(idle.updates)
      BY <1>2, <1>4 DEF it
    <2> HIDE DEF left
    <2>3. /\ Once(idle.updates) /\ ToSet(idle.updates) \ {o} = ToSet(ps.updates) \ {o}
          /\ idle.deletedQ = ps.deletedQ /\ idle.tree = ps.tree /\ idle.done = ps.done
          /\ idle.groups = ps.groups /\ idle.size = ps.size
          /\ \A p \in Objs \ {o} : idle.obj[p] = ps.obj[p] /\ idle.poll[p] = ps.poll[p]
      BY <1>4, <1>7
    <2>4. left \ {o} = hands \ {o}
      BY <1>7
    <2> QED BY <1>3, <1>5, <2>1, <2>2, <2>3, <2>4, OnlyObject
  <1>9. o \in Live(idle)
    BY <1>2, <1>6 DEF Live
  <1>15. Attached(ps) => Attached(idle)
    BY <1>4, <1>6 DEF Attached
  <1>10. Good(gone)
    <2>1. FALSE \in BOOLEAN /\ ~FALSE
      OBVIOUS
    <2>2. /\ PortOK(gone, left, Nothing) /\ gone.polling = idle.polling
          /\ Attached(idle) => Attached(gone)
      BY <1>8, <1>9, <2>1, SockDeleted
    <2> QED BY <1>4, <1>15, <2>2
  <1>11. ASSUME ~it.deleted PROVE Good(next) /\ Good(once)
    <2>1. /\ next \in PortStates /\ Once(next.updates)
          /\ ToSet(next.updates) = ToSet(idle.updates) \cup {o}
          /\ next.deletedQ = idle.deletedQ
          /\ next.obj = idle.obj /\ next.tree = idle.tree /\ next.groups = idle.groups
          /\ next.size = idle.size
          /\ next.poll = idle.poll /\ next.done = idle.done /\ next.polling = idle.polling
      BY <1>2, <1>4, <1>5, <1>7, <1>11, UpdateRequested
    <2> HIDE DEF next
    <2>2. /\ once.updates = next.updates /\ once.deletedQ = next.deletedQ /\ once.tree = next.tree
          /\ once.groups = next.groups /\ once.size = next.size /\ once.poll = next.poll
          /\ once.done = next.done /\ once.polling = next.polling
          /\ once.obj[o] = [next.obj[o] EXCEPT !.events = {}]
          /\ \A p \in Objs \ {o} : once.obj[p] = next.obj[p]
      BY <2>1 DEF PortStates
    <2>3. next.obj[o] \in ObjStates
      BY <2>1, ObjType
    <2>4. once \in PortStates
      <3>1. [next.obj[o] EXCEPT !.events = {}] \in ObjStates
        BY <2>3 DEF ObjStates, Masks
      <3> QED BY <2>1, <3>1 DEF PortStates
    <2>5. /\ once.obj[o].sock = next.obj[o].sock /\ once.obj[o].deleted = next.obj[o].deleted
          /\ once.obj[o].group = next.obj[o].group /\ once.obj[o].status = next.obj[o].status
          /\ once.obj[o].pending = next.obj[o].pending
      BY <2>2, <2>3 DEF ObjStates
    <2> HIDE DEF once
    <2>6. ASSUME NEW z \in PortStates,
                 z.updates = next.updates, z.deletedQ = next.deletedQ, z.tree = next.tree,
                 z.groups = next.groups, z.size = next.size, z.poll = next.poll,
                 z.done = next.done, z.polling = next.polling,
                 \A p \in Objs \ {o} : z.obj[p] = next.obj[p],
                 z.obj[o].sock = next.obj[o].sock, z.obj[o].deleted = next.obj[o].deleted,
                 z.obj[o].group = next.obj[o].group, z.obj[o].status = next.obj[o].status,
                 z.obj[o].pending = next.obj[o].pending
          PROVE  Good(z)
      <3>1. Served(z, o)
        BY <2>1, <2>6 DEF Served
      <3>2. /\ Once(z.updates) /\ ToSet(z.updates) \ {o} = ToSet(ps.updates) \ {o}
            /\ z.deletedQ = ps.deletedQ /\ z.tree = ps.tree /\ z.done = ps.done
            /\ z.groups = ps.groups /\ z.size = ps.size /\ z.polling = ps.polling
            /\ \A p \in Objs \ {o} : z.obj[p] = ps.obj[p] /\ z.poll[p] = ps.poll[p]
        BY <1>4, <2>1, <2>6
      <3>3. /\ z.obj[o].sock = it.sock /\ z.obj[o].deleted = it.deleted
            /\ z.obj[o].group = it.group
            /\ z.poll[o].at = "none" <=> z.obj[o].status = "IDLE"
            /\ z.obj[o].status # "PENDING" => z.obj[o].pending = {}
            /\ o \in ToSet(ps.done) \cup left <=> z.poll[o].at = "done"
            /\ o \in left => o \notin ToSet(ps.done)
        BY <1>2, <1>6, <1>7, <2>1, <2>6
      <3>4. ~ps.obj[o].deleted
        BY <1>11 DEF it
      <3>6. Attached(ps) => Attached(z)
        <4>1. z.poll = idle.poll /\ \A p \in Objs \ {o} : z.obj[p] = idle.obj[p]
          BY <2>1, <2>6
        <4> QED BY <1>6, <1>15, <4>1 DEF Attached
      <3> HIDE DEF left
      <3>5. PortOK(z, left, Nothing)
        BY <1>3, <1>7, <3>1, <3>2, <3>3, <3>4, OnlyObject DEF it
      <3> QED BY <3>2, <3>5, <3>6
    <2> HIDE DEF Good
    <2>7. Good(next)
      BY <2>1, <2>6
    <2>8. Good(once)
      <3>1. \A p \in Objs \ {o} : once.obj[p] = next.obj[p]
        BY <2>2
      <3> QED BY <2>2, <2>4, <2>5, <2>6, <3>1
    <2> QED BY <2>7, <2>8
  <1>12. r = gone \/ (~it.deleted /\ r \in {next, once})
    BY DEF FeedEvent, idle, next, once, gone, it
  <1> HIDE DEF r, gone, next, once
  <1>13. Good(r)
    BY <1>10, <1>11, <1>12
  <1>14. FeedEvent(ps, o).told \subseteq Sockets
    <2>1. FeedEvent(ps, o).told \in {{}, {it.sock}}
      BY DEF FeedEvent, it
    <2>2. it.sock \in Sockets
      BY <1>1, <1>2 DEF ObjStates
    <2> QED BY <2>1, <2>2
  <1> QED BY <1>13, <1>14 DEF r, left

(* port__feed_events() leaves the port in order and nothing in the hands of  *)
(* the thread.                                                               *)
LEMMA AllFed ==
    ASSUME NEW ps, NEW hands, PortOK(ps, hands, Nothing),
           NEW seq \in Seq(Objs), Once(seq), ToSet(seq) \subseteq hands
    PROVE  LET r == FeedAll(ps, seq) IN
           /\ PortOK(r.port, hands \ ToSet(seq), Nothing) /\ r.port.polling = ps.polling
           /\ r.told \subseteq Sockets
           /\ Attached(ps) => Attached(r.port)
  <1> DEFINE n == Len(seq)
             Fed(k) == {seq[i] : i \in 1..k}
             Fine(x, k) == /\ PortOK(x.port, hands \ Fed(k), Nothing)
                           /\ x.port.polling = ps.polling /\ x.told \subseteq Sockets
                           /\ Attached(ps) => Attached(x.port)
  <1>1. ps \in PortStates /\ n \in Nat
    BY DEF PortOK
  <1>2. PICK run : FeedRun(ps, seq, run)
    BY <1>1, FeedRuns
  <1> DEFINE K == {k \in 0..n : Fine(run[k], k)}
  <1>3. 0 \in K
    <2>1. run[0] = [port |-> ps, told |-> {}] /\ 0 \in 0..n
      BY <1>1, <1>2 DEF FeedRun
    <2>2. run[0].port = ps /\ run[0].told = {} /\ hands \ Fed(0) = hands
      BY <2>1
    <2> QED BY <2>1, <2>2
  <1>4. ASSUME NEW k \in 1..n, k - 1 \in K PROVE k \in K
    <2> DEFINE x == run[k - 1]
               y == run[k]
               left == hands \ Fed(k - 1)
    <2>1. k \in Nat /\ k >= 1 /\ k <= n /\ k \in 0..n /\ k \in 1..n /\ seq[k] \in Objs
      BY <1>1
    <2>2. y = FeedNext(x, seq[k])
      BY <1>2 DEF FeedRun
    <2>3. Fine(x, k - 1)
      BY <1>4
    <2>4. seq[k] \in left
      <3>1. \A i \in 1..k - 1 : i \in 1..Len(seq) /\ i # k
        BY <1>1, <2>1
      <3>2. \A i \in 1..k - 1 : seq[i] # seq[k]
        BY <2>1, <3>1 DEF Once
      <3>3. seq[k] \in hands
        BY DEF ToSet
      <3> QED BY <3>2, <3>3
    <2>5. left \ {seq[k]} = hands \ Fed(k)
      <3>1. \A i \in 1..k : i = k \/ i \in 1..k - 1
        BY <2>1
      <3>2. k \in 1..k /\ \A i \in 1..k - 1 : i \in 1..k
        BY <2>1
      <3> QED BY <3>1, <3>2
    <2> DEFINE e == FeedEvent(x.port, seq[k])
    <2>6. y.port = e.port /\ y.told = x.told \cup e.told
      BY <2>2 DEF FeedNext
    <2>7. PortOK(x.port, left, Nothing)
      BY <2>3
    <2> HIDE DEF x, y, left
    <2>8. /\ PortOK(e.port, left \ {seq[k]}, Nothing) /\ e.port.polling = x.port.polling
          /\ e.told \subseteq Sockets
          /\ Attached(x.port) => Attached(e.port)
      BY <2>1, <2>4, <2>7, EventFed
    <2> HIDE DEF e
    <2>9. Fine(y, k)
      BY <2>3, <2>5, <2>6, <2>8
    <2> HIDE DEF Fine
    <2> QED BY <2>1, <2>9 DEF y
  <1> HIDE DEF K
  <1>5. n \in K
    <2>1. \A k \in 0..n : k \in K
      BY <1>1, <1>3, <1>4, RunInduction
    <2>2. n \in 0..n
      BY <1>1
    <2> QED BY <2>1, <2>2
  <1>6. Fed(n) = ToSet(seq)
    BY DEF ToSet
  <1>7. run[n] = FeedAll(ps, seq)
    BY <1>2 DEF FeedRun
  <1> QED BY <1>5, <1>6, <1>7 DEF K

-----------------------------------------------------------------------------
(* port_delete().                                                            *)

(* sock__delete() by force frees the object, with its operation or without,  *)
(* and what has completed for it goes with the completion port.              *)
LEMMA SockForceDeleted ==
    ASSUME NEW ps, PortOK(ps, {}, Nothing), NEW o \in Live(ps), NEW fails \in BOOLEAN
    PROVE  LET r == SockForceDelete(ps, o, fails) IN
           /\ PortOK(r, {}, Nothing) /\ r.polling = ps.polling
           /\ ToSet(r.updates) = ToSet(ps.updates) \ {o}
           /\ Attached(ps) => Attached(r)
           /\ ~fails /\ Attached(ps) => SockDelete(ps, o, TRUE, fails).poll[o].at # "kernel"
  <1> DEFINE was == ps.obj[o]
             x == Gone(ps, o, fails)
             f == SockFree(x, o)
             r == SockForceDelete(ps, o, fails)
             completes == ~was.deleted /\ was.status = "PENDING" /\ ~fails /\ ps.poll[o].at = "kernel"
  <1>1. /\ o \in Objs /\ was.sock # Nothing /\ ps \in PortStates
        /\ Once(ps.updates) /\ Once(ps.done) /\ ObjOK(ps, {}, o)
        /\ GroupShape(ps) /\ GroupCounts(ps)
    BY DEF PortOK, Live
  <1>2. was.group \in Groups /\ was.sock \in Sockets /\ was.deleted \in BOOLEAN
    <2>1. was.group # Nothing
      BY <1>1 DEF ObjOK
    <2> QED BY <1>1, <2>1, ObjType
  <1>3. /\ o \in ToSet(ps.done) => ps.poll[o].at = "done"
        /\ was.deleted => o \notin ToSet(ps.updates)
    BY <1>1 DEF ObjOK
  <1>4. /\ x \in PortStates /\ Once(x.updates) /\ Once(x.done)
        /\ x.groups = ps.groups /\ x.size = ps.size /\ x.polling = ps.polling
        /\ x.obj[o].group = was.group
        /\ x.poll[o].at = IF completes THEN "done" ELSE ps.poll[o].at
        /\ ToSet(x.done) = ToSet(ps.done) \cup (IF completes THEN {o} ELSE {})
        /\ ToSet(x.updates) = IF was.deleted THEN ToSet(ps.updates) ELSE ToSet(ps.updates) \ {o}
        /\ x.deletedQ = IF was.deleted THEN ps.deletedQ ELSE ps.deletedQ \ {o}
        /\ x.tree = IF was.deleted THEN ps.tree ELSE [ps.tree EXCEPT ![was.sock] = Nothing]
        /\ \A p \in Objs \ {o} : x.obj[p] = ps.obj[p] /\ x.poll[p] = ps.poll[p]
    <2>1. GoneOK(ps, x, o, fails)
      BY <1>1, <1>3, GoneIs
    <2> HIDE DEF x
    <2> QED BY <2>1 DEF GoneOK
  <1>5. SockDelete(ps, o, TRUE, fails) = f
    BY DeleteIsGone
  <1>18. ASSUME ~fails, Attached(ps) PROVE x.poll[o].at # "kernel"
    <2>1. ps.poll[o].at = "kernel" => was.status = "PENDING" /\ ~was.deleted
      BY <1>1, <1>18 DEF Attached
    <2> HIDE DEF x, was
    <2> QED BY <1>4, <1>18, <2>1
  <1> HIDE DEF x, was, completes
  <1>6. GroupShape(x) /\ GroupCounts(x)
    <2>1. \A p \in Objs : x.obj[p].group = ps.obj[p].group
      BY <1>4 DEF was
    <2> QED BY <1>1, <1>4, <2>1, SameGroups
  <1>7. \A s \in Sockets : x.tree[s] # o
    <2>1. x.tree = IF was.deleted THEN ps.tree ELSE [ps.tree EXCEPT ![was.sock] = Nothing]
      BY <1>4
    <2> QED BY <1>1, <2>1, TreeLeft DEF was
  <1>8. /\ f \in PortStates /\ Once(f.updates) /\ ToSet(f.updates) = ToSet(x.updates) \ {o}
        /\ f.deletedQ = x.deletedQ \ {o} /\ f.tree = x.tree /\ f.poll = x.poll
        /\ f.done = x.done /\ f.polling = x.polling
        /\ f.obj[o] = FreeObj /\ \A p \in Objs \ {o} : f.obj[p] = x.obj[p]
        /\ GroupShape(f) /\ GroupCounts(f)
    <2>1. x.obj[o].group \in Groups
      BY <1>2, <1>4
    <2> QED BY <1>1, <1>4, <1>6, <2>1, Freed
  <1>9. r = [f EXCEPT !.poll[o] = NoPoll, !.done = RemoveFirst(@, o)]
    BY <1>5 DEF SockForceDelete
  <1> HIDE DEF f, r
  <1>10. /\ r \in PortStates /\ r.poll[o] = NoPoll /\ \A p \in Objs \ {o} : r.poll[p] = f.poll[p]
         /\ r.obj = f.obj /\ r.tree = f.tree /\ r.updates = f.updates /\ r.deletedQ = f.deletedQ
         /\ r.groups = f.groups /\ r.size = f.size /\ r.polling = f.polling
         /\ Once(r.done) /\ ToSet(r.done) = ToSet(f.done) \ {o}
    <2>1. /\ RemoveFirst(f.done, o) \in Seq(Objs) /\ Once(RemoveFirst(f.done, o))
          /\ ToSet(RemoveFirst(f.done, o)) = ToSet(f.done) \ {o}
      <3>1. f.done \in Seq(Objs) /\ Once(f.done)
        BY <1>4, <1>8 DEF PortStates
      <3> QED BY <3>1, RemoveFirstOnce
    <2>2. r \in PortStates
      BY <1>1, <1>8, <1>9, <2>1, AfdTypes DEF PortStates
    <2>3. /\ r.poll = [f.poll EXCEPT ![o] = NoPoll] /\ r.done = RemoveFirst(f.done, o)
          /\ r.obj = f.obj /\ r.tree = f.tree /\ r.updates = f.updates /\ r.deletedQ = f.deletedQ
          /\ r.groups = f.groups /\ r.size = f.size /\ r.polling = f.polling
      BY <1>8, <1>9 DEF PortStates
    <2>4. r.poll[o] = NoPoll /\ \A p \in Objs \ {o} : r.poll[p] = f.poll[p]
      BY <1>1, <1>8, <2>3 DEF PortStates
    <2> QED BY <2>1, <2>2, <2>3, <2>4
  <1>11. /\ r.obj[o].sock = Nothing /\ r.obj[o].group = Nothing /\ r.obj[o].pending = {}
         /\ r.poll[o].at = "none"
    BY <1>8, <1>10 DEF FreeObj, NoPoll
  <1>12. ToSet(r.updates) = ToSet(ps.updates) \ {o}
    BY <1>3, <1>4, <1>8, <1>10
  <1>13. ObjOK(r, {}, o)
    <2>1. o \notin r.deletedQ /\ o \notin ToSet(r.done) /\ \A s \in Sockets : r.tree[s] # o
      BY <1>7, <1>8, <1>10
    <2> QED BY <1>11, <1>12, <2>1 DEF ObjOK
  <1>14. Frame(ps, r, o)
    <2>1. r.deletedQ \ {o} = ps.deletedQ \ {o}
      BY <1>4, <1>8, <1>10
    <2>2. ToSet(r.done) \ {o} = ToSet(ps.done) \ {o}
      BY <1>4, <1>8, <1>10
    <2>3. \A p \in Objs \ {o} : r.obj[p] = ps.obj[p] /\ r.poll[p] = ps.poll[p]
      BY <1>4, <1>8, <1>10
    <2>4. r.tree = ps.tree \/ (~was.deleted /\ r.tree = [ps.tree EXCEPT ![was.sock] = Nothing])
      BY <1>2, <1>4, <1>8, <1>10
    <2>5. ToSet(r.updates) \ {o} = ToSet(ps.updates) \ {o}
      BY <1>12
    <2> QED BY <1>1, <2>1, <2>2, <2>3, <2>4, <2>5, FrameFrom DEF was
  <1>15. GroupShape(r) /\ GroupCounts(r)
    BY <1>8, <1>10, SameGroups
  <1>16. Served(r, o)
    BY <1>11 DEF Served
  <1>17. PortOK(r, {}, Nothing)
    BY <1>1, <1>8, <1>10, <1>13, <1>14, <1>15, <1>16, OneObject
  <1>19. Attached(ps) => Attached(r)
    BY <1>11, <1>14, FrameAttached
  <1>20. ~fails /\ Attached(ps) => SockDelete(ps, o, TRUE, fails).poll[o].at # "kernel"
    BY <1>5, <1>8, <1>18
  <1> QED BY <1>4, <1>8, <1>10, <1>12, <1>17, <1>19, <1>20 DEF r

(* What is in the tree or in the deleted queue is an object that lives.      *)
LEMMA NextLives ==
    ASSUME NEW ps, NEW hands, PortOK(ps, hands, Nothing), NEW o \in NextToDelete(ps)
    PROVE  o \in Live(ps)
  <1>1. o \in Objs
    BY DEF NextToDelete, InTreeOf, PortOK, PortStates
  <1>2. (\E s \in Sockets : ps.tree[s] = o) \/ o \in ps.deletedQ
    BY DEF NextToDelete, InTreeOf
  <1>3. ObjOK(ps, hands, o)
    BY <1>1 DEF PortOK
  <1> QED BY <1>1, <1>2, <1>3, NothingAssumption DEF ObjOK, Live

(* When neither holds one, no object lives: the update queue and the poll    *)
(* groups are empty.                                                         *)
LEMMA NothingLeft ==
    ASSUME NEW ps, NEW hands, PortOK(ps, hands, Nothing), NextToDelete(ps) = {}
    PROVE  ps.updates = <<>> /\ Live(ps) = {} /\ \A g \in Groups : ps.size[g] = 0
  <1>1. InTreeOf(ps) = {} /\ ps.deletedQ = {}
    BY DEF NextToDelete
  <1>2. ps \in PortStates /\ \A p \in Objs : ObjOK(ps, hands, p)
    BY DEF PortOK
  <1>3. ASSUME NEW p \in Objs PROVE ps.obj[p].sock = Nothing
    <2>1. ps.obj[p].sock \in Sockets \cup {Nothing} /\ ps.obj[p].deleted \in BOOLEAN
      BY <1>2, ObjType
    <2>2. \A s \in Sockets : ps.tree[s] # p
      BY <1>1 DEF InTreeOf
    <2> QED BY <1>1, <1>2, <2>1, <2>2 DEF ObjOK
  <1>4. ps.updates = <<>>
    <2>1. ps.updates \in Seq(Objs)
      BY <1>2 DEF PortStates
    <2>2. ToSet(ps.updates) \subseteq Objs
      BY <2>1 DEF ToSet
    <2>3. ToSet(ps.updates) = {}
      BY <1>2, <1>3, <2>2 DEF ObjOK
    <2> QED BY <2>1, <2>3, EmptyQueue
  <1>5. ASSUME NEW g \in Groups PROVE ps.size[g] = 0
    <2>1. Users(ps, g) = {}
      BY <1>2, <1>3, NothingAssumption DEF Users, ObjOK
    <2>2. ps.size[g] = Cardinality(Users(ps, g))
      BY DEF PortOK, GroupCounts
    <2> QED BY <2>1, <2>2, FS_EmptySet
  <1> QED BY <1>3, <1>4, <1>5 DEF Live

(* The fields of a port but the number of threads that sleep on it.          *)
SameButPolling(ps, r) ==
    /\ r.updates = ps.updates /\ r.deletedQ = ps.deletedQ /\ r.tree = ps.tree /\ r.obj = ps.obj
    /\ r.poll = ps.poll /\ r.done = ps.done /\ r.groups = ps.groups /\ r.size = ps.size

(* A port is in order, however many threads sleep on it.                     *)
LEMMA SameButPollingKeeps ==
    ASSUME NEW ps, NEW r \in PortStates, NEW hands, NEW o, PortOK(ps, hands, o),
           SameButPolling(ps, r)
    PROVE  PortOK(r, hands, o)
  BY DEF SameButPolling, PortOK, ObjOK, Served, GroupShape, GroupCounts, Users
=============================================================================
