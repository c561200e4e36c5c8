----------------------------- MODULE EventLoop -----------------------------
(* The thread structure of seasocks::Server (Server.cpp): any thread may     *)
(* call execute() and terminate(); one thread, the server's, runs loop(), or *)
(* has poll() called by an application that watches fd().  They share a list *)
(* of tasks under a mutex, an eventfd that wakes the epoll set, and two      *)
(* atomic flags.  Connections are only a source of callbacks here.           *)
EXTENDS Sequences, Naturals, Functions

CONSTANTS
    Callers,    \* the application's other threads
    Server,     \* the server's thread
    Tasks,      \* the functions passed to execute(), one call for each
    Throwing,   \* the tasks that exit by an exception
    CallbacksThrow  \* and whether the callbacks of a connection may do so

ASSUME ServerIsNotACaller == Server \notin Callers
ASSUME ThrowingTasks == Throwing \subseteq Tasks
ASSUME CallbacksMayThrow == CallbacksThrow \in BOOLEAN

Threads == Callers \cup {Server}

(* What one epoll_wait can report besides the eventfd: an event on a         *)
(* connection, and one that makes the server give up (EPOLLERR or EPOLLHUP   *)
(* on the listening socket).                                                 *)
Sources == {"pipe", "connection", "fault"}

VARIABLES
    pollMode,         \* the application calls poll(0) on fd(), and not loop()
    pending,          \* _pendingExecutables
    batch,            \* what is left of runExecutables' local copy
    wake,             \* the eventfd's counter is not zero
    terminate,        \* _terminate
    expectedTerminate,\* _expectedTerminate
    listening,        \* _listenSock # -1
    call,             \* per thread: where it is within execute() or terminate()
    pc,               \* where the server's thread is
    ready,            \* the events of this epoll_wait still to be dispatched
    closing,          \* processEventQueue is the one after the loop
    result,           \* what loop() or poll() returned, until it is called again
    \* history: read by the properties, never by an action
    past,             \* the tasks taken out of a batch, in order
    lost,             \* those of past that were dropped unrun
    early,            \* the tasks queued while _terminate was false
    faulted,          \* the server gave up by itself
    abandoned         \* an exception has left poll() with _terminate set

shared  == <<pending, wake, terminate, expectedTerminate>>
history == <<past, lost, early, faulted, abandoned>>
vars == <<pollMode, pending, batch, wake, terminate, expectedTerminate, listening, call,
          pc, ready, closing, result, past, lost, early, faulted, abandoned>>

Posted == Range(pending) \cup Range(batch) \cup Range(past)

(* The server's thread is inside application code.                           *)
InCallback == pc \in {"task", "handler", "disconnecting"}

Init ==
    /\ pending = <<>> /\ batch = <<>>
    /\ pollMode \in BOOLEAN
    /\ wake = FALSE
    /\ terminate = FALSE /\ expectedTerminate = FALSE
    /\ listening = TRUE
    /\ call = [th \in Threads |-> "none"]
    /\ pc = "idle" /\ ready = {} /\ closing = FALSE /\ result = "none"
    /\ past = <<>> /\ lost = {} /\ early = {} /\ faulted = FALSE /\ abandoned = FALSE

-----------------------------------------------------------------------------
(* execute() and terminate(), by any thread.                                 *)

CanCall(th) == call[th] = "none" /\ (th = Server => InCallback)

(* Variants named ..._<what is wrong> are slips the checks must notice; no    *)
(* action uses them.                                                         *)
Push_front(th, t) ==
    /\ CanCall(th)
    /\ t \notin Posted
    /\ pending' = <<t>> \o pending
    /\ early' = IF terminate THEN early ELSE early \cup {t}
    /\ call' = [call EXCEPT ![th] = "signal"]
    /\ UNCHANGED <<pollMode, batch, wake, terminate, expectedTerminate, listening, pc,
                   ready, closing, result, past, lost, faulted, abandoned>>

(* execute(): push under the mutex; the eventfd is written after the unlock. *)
Push(th, t) ==
    /\ CanCall(th)
    /\ t \notin Posted
    /\ pending' = Append(pending, t)
    /\ early' = IF terminate THEN early ELSE early \cup {t}
    /\ call' = [call EXCEPT ![th] = "signal"]
    /\ UNCHANGED <<pollMode, batch, wake, terminate, expectedTerminate, listening, pc,
                   ready, closing, result, past, lost, faulted, abandoned>>

Expect_forgotten(th) ==
    /\ CanCall(th)
    /\ call' = [call EXCEPT ![th] = "terminate"]
    /\ UNCHANGED <<pollMode, shared, batch, listening, pc, ready, closing, result, history>>

(* terminate(): first _expectedTerminate, then _terminate, then the eventfd. *)
Expect(th) ==
    /\ CanCall(th)
    /\ expectedTerminate' = TRUE
    /\ call' = [call EXCEPT ![th] = "terminate"]
    /\ UNCHANGED <<pollMode, pending, batch, wake, terminate, listening, pc, ready,
                   closing, result, history>>

SetTerminate_silent(th) ==
    /\ call[th] = "terminate"
    /\ terminate' = TRUE
    /\ call' = [call EXCEPT ![th] = "none"]
    /\ UNCHANGED <<pollMode, pending, batch, wake, expectedTerminate, listening, pc,
                   ready, closing, result, history>>

SetTerminate(th) ==
    /\ call[th] = "terminate"
    /\ terminate' = TRUE
    /\ call' = [call EXCEPT ![th] = "signal"]
    /\ UNCHANGED <<pollMode, pending, batch, wake, expectedTerminate, listening, pc,
                   ready, closing, result, history>>

(* The write to the eventfd that ends both calls.                            *)
Signal(th) ==
    /\ call[th] = "signal"
    /\ wake' = TRUE
    /\ call' = [call EXCEPT ![th] = "none"]
    /\ UNCHANGED <<pollMode, pending, batch, terminate, expectedTerminate, listening, pc,
                   ready, closing, result, history>>

-----------------------------------------------------------------------------
(* The server's thread.                                                      *)

(* A step of the server that moves it to another place.                      *)
At(from) == pc = from /\ call[Server] = "none"

(* loop() or poll() on a server that is not listening returns an error.      *)
NotInitialised ==
    /\ At("idle") /\ ~listening
    /\ result' = "error"
    /\ UNCHANGED <<pollMode, shared, batch, listening, call, pc, ready, closing, history>>

EnterLoop ==
    /\ ~pollMode /\ At("idle") /\ listening
    /\ pc' = "check" /\ result' = "none"
    /\ UNCHANGED <<pollMode, shared, batch, listening, call, ready, closing, history>>

(* The application may call poll() at any time; Spec below makes it do so    *)
(* only when fd() is readable.                                               *)
EnterPoll ==
    /\ pollMode /\ At("idle") /\ listening
    /\ pc' = "process" /\ result' = "none"
    /\ UNCHANGED <<pollMode, shared, batch, listening, call, ready, closing, history>>

(* while (!_terminate) in loop().                                            *)
Iterate ==
    /\ ~pollMode /\ At("check") /\ ~terminate
    /\ pc' = "process"
    /\ UNCHANGED <<pollMode, shared, batch, listening, call, ready, closing, result, history>>

(* if (!_terminate) return Continue in poll().                               *)
ReturnContinue ==
    /\ pollMode /\ At("check") /\ ~terminate
    /\ pc' = "idle" /\ result' = "continue"
    /\ UNCHANGED <<pollMode, shared, batch, listening, call, ready, closing, history>>

BeginClosing_noLastRun ==
    /\ At("check") /\ terminate
    /\ pc' = "shutdown" /\ closing' = TRUE
    /\ UNCHANGED <<pollMode, shared, batch, listening, call, ready, result, history>>

(* _terminate is set: the last processEventQueue, then shutdown.             *)
BeginClosing ==
    /\ At("check") /\ terminate
    /\ pc' = "process" /\ closing' = TRUE
    /\ UNCHANGED <<pollMode, shared, batch, listening, call, ready, result, history>>

SwapPending_oneTask ==
    /\ At("process")
    /\ batch' = IF pending = <<>> THEN <<>> ELSE <<Head(pending)>>
    /\ pending' = IF pending = <<>> THEN <<>> ELSE Tail(pending)
    /\ pc' = "run"
    /\ UNCHANGED <<pollMode, wake, terminate, expectedTerminate, listening, call, ready,
                   closing, result, history>>

(* runExecutables: swap the list out under the mutex ...                     *)
SwapPending ==
    /\ At("process")
    /\ batch' = pending /\ pending' = <<>>
    /\ pc' = "run"
    /\ UNCHANGED <<pollMode, wake, terminate, expectedTerminate, listening, call, ready,
                   closing, result, history>>

StartTask_unguarded ==
    /\ At("run")
    /\ pc' = "task"
    /\ UNCHANGED <<pollMode, shared, batch, listening, call, ready, closing, result, history>>

(* ... and run its tasks one by one outside it.                              *)
StartTask ==
    /\ At("run") /\ batch # <<>>
    /\ pc' = "task"
    /\ UNCHANGED <<pollMode, shared, batch, listening, call, ready, closing, result, history>>

FinishTask ==
    /\ At("task") /\ Head(batch) \notin Throwing
    /\ past' = Append(past, Head(batch))
    /\ batch' = Tail(batch)
    /\ pc' = "run"
    /\ UNCHANGED <<pollMode, shared, listening, call, ready, closing, result, lost, early,
                   faulted, abandoned>>

(* An exception leaves loop() or poll(): nothing catches it on the way.  The *)
(* application may call again.                                               *)
Throw ==
    /\ pc' = "idle" /\ closing' = FALSE /\ result' = "threw"
    /\ abandoned' = (abandoned \/ (pollMode /\ terminate))

(* Out of a task, through runExecutables and processEventQueue, whose local  *)
(* copy goes with it.                                                        *)
ThrowTask ==
    /\ At("task") /\ Head(batch) \in Throwing
    /\ Throw
    /\ past' = past \o batch
    /\ lost' = lost \cup Range(Tail(batch))
    /\ batch' = <<>>
    /\ UNCHANGED <<pollMode, shared, listening, call, ready, early, faulted>>

BatchDone ==
    /\ At("run") /\ batch = <<>>
    /\ pc' = IF closing THEN "shutdown" ELSE "wait"
    /\ UNCHANGED <<pollMode, shared, batch, listening, call, ready, closing, result, history>>

(* epoll_wait is level triggered: it reports the eventfd whenever it is      *)
(* readable, together with whatever else has happened.                       *)
EpollWait ==
    /\ At("wait")
    /\ \E S \in SUBSET {"connection", "fault"} :
          ready' = S \cup (IF wake THEN {"pipe"} ELSE {})
    /\ ready' # {}
    /\ pc' = "dispatch"
    /\ UNCHANGED <<pollMode, shared, batch, listening, call, closing, result, history>>

(* epoll_wait's timeout (500 ms in loop(), none in poll(0)), or EINTR.       *)
EpollTimeout ==
    /\ At("wait") /\ ~wake
    /\ pc' = "dispatch"
    /\ UNCHANGED <<pollMode, shared, batch, listening, call, ready, closing, result, history>>

DispatchPipe ==
    /\ At("dispatch") /\ "pipe" \in ready
    /\ ready' = ready \ {"pipe"}
    /\ pc' = "drain"
    /\ UNCHANGED <<pollMode, shared, batch, listening, call, closing, result, history>>

(* handlePipe: read until the eventfd would block.                           *)
DrainRead ==
    /\ At("drain") /\ wake
    /\ wake' = FALSE
    /\ UNCHANGED <<pollMode, pending, terminate, expectedTerminate, batch, listening,
                   call, pc, ready, closing, result, history>>

DrainEmpty ==
    /\ At("drain") /\ ~wake
    /\ pc' = "dispatch"
    /\ UNCHANGED <<pollMode, shared, batch, listening, call, ready, closing, result, history>>

(* A connection event may run application code: onData, handle(), onConnect. *)
DispatchConnection ==
    /\ At("dispatch") /\ "connection" \in ready
    /\ ready' = ready \ {"connection"}
    /\ pc' = "handler"
    /\ UNCHANGED <<pollMode, shared, batch, listening, call, closing, result, history>>

HandlerReturns ==
    /\ At("handler")
    /\ pc' = "dispatch"
    /\ UNCHANGED <<pollMode, shared, batch, listening, call, ready, closing, result, history>>

(* Out of onData, handle() or onConnect, through checkAndDispatchEpoll: the  *)
(* rest of its events are not dispatched, and poll() does not come to its    *)
(* test of _terminate.                                                       *)
ThrowHandler ==
    /\ At("handler") /\ CallbacksThrow
    /\ Throw
    /\ ready' = {}
    /\ UNCHANGED <<pollMode, shared, batch, listening, call, past, lost, early, faulted>>

(* An unexpected event on the listening socket: the rest of the batch of     *)
(* events is skipped.                                                        *)
DispatchFault ==
    /\ At("dispatch") /\ "fault" \in ready
    /\ terminate' = TRUE /\ faulted' = TRUE
    /\ ready' = {}
    /\ UNCHANGED <<pollMode, pending, wake, expectedTerminate, batch, listening, call, pc,
                   closing, result, past, lost, early, abandoned>>

DispatchDone ==
    /\ At("dispatch") /\ ready = {}
    /\ pc' = "check"
    /\ UNCHANGED <<pollMode, shared, batch, listening, call, ready, closing, result, history>>

(* shutdown: close the listening socket, then delete the connections, whose  *)
(* onDisconnect is application code too.                                     *)
CloseListener ==
    /\ At("shutdown")
    /\ listening' = FALSE
    /\ pc' = "disconnecting"
    /\ UNCHANGED <<pollMode, shared, batch, call, ready, closing, result, history>>

ReturnTerminated ==
    /\ At("disconnecting")
    /\ pc' = "idle" /\ closing' = FALSE
    /\ result' = IF expectedTerminate THEN "terminated" ELSE "error"
    /\ UNCHANGED <<pollMode, shared, batch, listening, call, ready, history>>

-----------------------------------------------------------------------------
Call(th) == SetTerminate(th) \/ Signal(th)

(* Every step the server's thread takes of its own accord.                   *)
Serve ==
    \/ EnterLoop \/ Iterate \/ ReturnContinue \/ BeginClosing
    \/ SwapPending \/ StartTask \/ FinishTask \/ ThrowTask \/ BatchDone
    \/ DispatchPipe \/ DrainRead \/ DrainEmpty
    \/ DispatchConnection \/ HandlerReturns \/ ThrowHandler
    \/ DispatchFault \/ DispatchDone
    \/ CloseListener \/ ReturnTerminated

Next ==
    \/ \E th \in Threads : \/ \E t \in Tasks : Push(th, t)
                           \/ Expect(th)
                           \/ Call(th)
    \/ Serve
    \/ EnterPoll \/ NotInitialised \/ EpollWait \/ EpollTimeout

Spec == Init /\ [][Next]_vars

(* A call once begun is finished, no thread calls terminate() for ever, and  *)
(* the server's thread is scheduled (so callbacks return).  loop() gets no   *)
(* help from the timeout of its epoll_wait.  poll(0) never blocks in it, and *)
(* the application calls poll(0) when fd() is readable: Server.h asks no     *)
(* more of it.                                                               *)
Fairness ==
    /\ <>[][\A th \in Threads : ~Expect(th)]_vars
    /\ \A th \in Threads : WF_vars(Call(th))
    /\ WF_vars(Serve)
    /\ WF_vars(wake /\ EpollWait)
    /\ WF_vars(pollMode /\ EpollTimeout)
    /\ WF_vars(wake /\ EnterPoll)

FairSpec == Spec /\ Fairness

-----------------------------------------------------------------------------
(* Types, and that a task is running only when the batch holds it and events *)
(* are left over only while they are being dispatched.                       *)
TypeOK ==
    /\ pending \in Seq(Tasks) /\ batch \in Seq(Tasks) /\ past \in Seq(Tasks)
    /\ pollMode \in BOOLEAN
    /\ wake \in BOOLEAN /\ terminate \in BOOLEAN /\ expectedTerminate \in BOOLEAN
    /\ listening \in BOOLEAN /\ closing \in BOOLEAN
    /\ faulted \in BOOLEAN /\ abandoned \in BOOLEAN
    /\ call \in [Threads -> {"none", "terminate", "signal"}]
    /\ pc \in {"idle", "check", "process", "run", "task", "wait", "dispatch",
               "drain", "handler", "shutdown", "disconnecting"}
    /\ ready \subseteq Sources
    /\ result \in {"none", "continue", "terminated", "error", "threw"}
    /\ lost \subseteq Tasks /\ early \subseteq Tasks
    /\ pc = "task" => batch # <<>>
    /\ ready # {} => pc \in {"dispatch", "drain", "handler"}

Signalling == \E th \in Threads : call[th] = "signal"

(* The server's thread sleeps: in loop()'s epoll_wait, or in an application  *)
(* that waits for fd() to become readable before it calls poll() again.      *)
Asleep == pc = "wait" \/ (pollMode /\ pc = "idle" /\ listening)

(* A task in _pendingExecutables never waits for an epoll_wait that nothing  *)
(* is about to end: execute() pushes before it writes the eventfd, and every *)
(* drain of the eventfd is followed by a swap of the list before the next    *)
(* epoll_wait.                                                               *)
NoTaskLeftAsleep == pc = "wait" /\ pending # <<>> => wake \/ Signalling

(* terminate() is never lost: once _terminate is set no sleep begins that    *)
(* the eventfd will not end, although handlePipe may drain the wake-up of    *)
(* the very call that set it.  Only an exception that leaves poll() once     *)
(* _terminate is set can lose it, since poll() then does not come to its     *)
(* test, or to its shutdown(), and its caller calls it again only when fd()  *)
(* is readable.                                                              *)
TerminateWakes == Asleep /\ terminate => wake \/ Signalling \/ abandoned

(* Whatever was queued before _terminate was set has been taken by the time  *)
(* the listening socket is closed: loop() and poll() process the queue once  *)
(* more after they have seen the flag.                                       *)
EarlyTasksTaken == ~listening => early \subseteq Range(past)

(* A shutdown that nobody but terminate() caused is never reported as an     *)
(* error: _expectedTerminate is set before _terminate.                       *)
ErrorMeansFault == [][ReturnTerminated /\ result' = "error" => faulted]_vars

(* loop() and poll() implement the promise of execute(): tasks leave in the  *)
(* order they were queued, once each, and none of those queued before        *)
(* terminate() is left behind.                                               *)
Promise == INSTANCE TaskQueue WITH
    queue <- batch \o pending, done <- past, owed <- early,
    stopping <- terminate, closed <- ~listening

ImplementsPromise == Promise!Spec

(* A queued task is eventually taken unless the server is told to stop.      *)
TasksTaken == \A t \in Tasks :
    t \in Range(pending) ~> t \in Range(past) \/ terminate

(* Under loop() it is.                                                       *)
TasksTakenByLoop == \A t \in Tasks :
    ~pollMode /\ t \in Range(pending) ~> t \in Range(past) \/ terminate

(* terminate() ends loop(), and a poll() driven by fd() unless an exception  *)
(* leaves it with the flag set: the server's thread stops listening and      *)
(* disconnects everyone.                                                     *)
TerminateEnds == terminate ~> ~listening \/ abandoned
=============================================================================
