----------------------------- MODULE TaskQueue -----------------------------
(* What Server::execute() promises, with no thread, lock or event fd in      *)
(* sight: tasks are taken in the order they were posted, each at most once,  *)
(* and the queue closes only when everything posted before it was told to    *)
(* stop has been taken.  A task that throws may take some of its successors  *)
(* down with it.  EventLoop is shown to implement this module.               *)
EXTENDS Sequences, Naturals, Functions

CONSTANTS Tasks,      \* every task that can be posted, each at most once
          Throwing    \* the tasks that exit by an exception

VARIABLES
    queue,      \* posted and not yet taken, oldest first
    done,       \* taken, in the order they were taken
    lost,       \* the tasks in done that were dropped without being run
    owed,       \* posted before the stop
    stopping,   \* the queue was told to stop
    closed      \* nothing is taken any more

vars == <<queue, done, lost, owed, stopping, closed>>

Init == /\ queue = <<>> /\ done = <<>>
        /\ lost = {} /\ owed = {}
        /\ stopping = FALSE /\ closed = FALSE

Post(t) ==
    /\ t \notin Range(queue) \cup Range(done)
    /\ queue' = Append(queue, t)
    /\ owed' = IF stopping THEN owed ELSE owed \cup {t}
    /\ UNCHANGED <<done, lost, stopping, closed>>

Run ==
    /\ ~closed /\ queue # <<>>
    /\ Head(queue) \notin Throwing
    /\ done' = Append(done, Head(queue))
    /\ queue' = Tail(queue)
    /\ UNCHANGED <<lost, owed, stopping, closed>>

(* The head of the queue throws and the n - 1 tasks behind it are dropped.   *)
Fail(n) ==
    /\ ~closed
    /\ Head(queue) \in Throwing
    /\ done' = done \o SubSeq(queue, 1, n)
    /\ queue' = SubSeq(queue, n + 1, Len(queue))
    /\ lost' = lost \cup {queue[i] : i \in 2..n}
    /\ UNCHANGED <<owed, stopping, closed>>

Stop == stopping' = TRUE /\ UNCHANGED <<queue, done, lost, owed, closed>>

Close ==
    /\ stopping /\ owed \cap Range(queue) = {}
    /\ closed' = TRUE
    /\ UNCHANGED <<queue, done, lost, owed, stopping>>

Next == \/ \E t \in Tasks : Post(t)
        \/ Run
        \/ \E n \in 1..Len(queue) : Fail(n)
        \/ Stop
        \/ Close

Spec == Init /\ [][Next]_vars
=============================================================================
