-------------------------- MODULE EventLoopProofs --------------------------
(* Proofs about EventLoop for any number of threads and tasks.               *)
EXTENDS EventLoop, TLAPS, SequenceTheorems

-----------------------------------------------------------------------------
(* Facts about sequences.                                                    *)

(* Adding to the end of a list adds one element to what it holds:            *)
(* emplace_back in execute().                                                *)
LEMMA RangeAppend ==
    ASSUME NEW S, NEW s \in Seq(S), NEW e \in S
    PROVE  Range(Append(s, e)) = Range(s) \cup {e}
  <1>1. \A i \in DOMAIN Append(s, e) : Append(s, e)[i] \in Range(s) \cup {e}
    BY DEF Range
  <1>2. \A i \in DOMAIN s : Append(s, e)[i] = s[i] /\ i \in DOMAIN Append(s, e)
    OBVIOUS
  <1>3. Append(s, e)[Len(s) + 1] = e /\ Len(s) + 1 \in DOMAIN Append(s, e)
    OBVIOUS
  <1> QED BY <1>1, <1>2, <1>3 DEF Range

(* Taking the head of a list off leaves the rest of what it held.            *)
LEMMA RangeHeadTail ==
    ASSUME NEW S, NEW s \in Seq(S), s # <<>>
    PROVE  /\ Head(s) \in S /\ Tail(s) \in Seq(S)
           /\ Range(s) = {Head(s)} \cup Range(Tail(s))
  <1>1. Head(s) \in S /\ Tail(s) \in Seq(S) /\ Head(s) = s[1] /\ 1 \in DOMAIN s
    OBVIOUS
  <1>2. \A i \in DOMAIN s : i = 1 \/ (i - 1 \in DOMAIN Tail(s) /\ Tail(s)[i - 1] = s[i])
    OBVIOUS
  <1>3. \A i \in DOMAIN Tail(s) : i + 1 \in DOMAIN s /\ Tail(s)[i] = s[i + 1]
    OBVIOUS
  <1>4. Range(s) \subseteq {Head(s)} \cup Range(Tail(s))
    <2> SUFFICES ASSUME NEW i \in DOMAIN s PROVE s[i] \in {Head(s)} \cup Range(Tail(s))
      BY DEF Range
    <2> QED BY <1>1, <1>2 DEF Range
  <1>5. Range(Tail(s)) \subseteq Range(s) /\ Head(s) \in Range(s)
    BY <1>1, <1>3 DEF Range
  <1> QED BY <1>1, <1>4, <1>5

(* A list just swapped out holds nothing.                                    *)
LEMMA RangeEmpty == Range(<<>>) = {}
  BY DEF Range

-----------------------------------------------------------------------------
(* Type correctness.                                                         *)

(* The variables keep their types, a running task heads the batch, and no    *)
(* event outlives the dispatch that found it: what each handler of the       *)
(* server's thread may assume of the others.                                 *)
THEOREM TypeCorrect == Spec => []TypeOK
  <1>0. <<>> \in Seq(Tasks)
    OBVIOUS
  <1>1. Init => TypeOK
    <2> SUFFICES ASSUME Init PROVE TypeOK
      OBVIOUS
    <2>1. call \in [Threads -> {"none", "terminate", "signal"}]
      BY DEF Init
    <2> QED BY <1>0, <2>1 DEF Init, TypeOK
  <1>2. TypeOK /\ [Next]_vars => TypeOK'
    <2> SUFFICES ASSUME TypeOK, [Next]_vars PROVE TypeOK'
      OBVIOUS
    <2> USE DEF TypeOK, At, shared, history
    <2>1. ASSUME NEW th \in Threads, NEW t \in Tasks, Push(th, t) PROVE TypeOK'
      BY <2>1 DEF Push
    <2>2. ASSUME NEW th \in Threads, Expect(th) PROVE TypeOK'
      BY <2>2 DEF Expect
    <2>3. ASSUME NEW th \in Threads, Call(th) PROVE TypeOK'
      <3>1. call' \in [Threads -> {"none", "terminate", "signal"}]
        BY <2>3 DEF Call, SetTerminate, Signal
      <3>2. CASE SetTerminate(th)
        BY <3>1, <3>2 DEF SetTerminate
      <3>3. CASE Signal(th)
        BY <3>1, <3>3 DEF Signal
      <3> QED BY <2>3, <3>2, <3>3 DEF Call
    <2>4. CASE EnterLoop \/ Iterate \/ ReturnContinue \/ BeginClosing
      <3>1. CASE EnterLoop \/ BeginClosing
        BY <3>1 DEF EnterLoop, BeginClosing
      <3>2. CASE Iterate \/ ReturnContinue
        BY <3>2 DEF Iterate, ReturnContinue
      <3> QED BY <2>4, <3>1, <3>2
    <2>5. CASE SwapPending \/ StartTask \/ BatchDone
      <3>1. CASE SwapPending
        BY <1>0, <3>1 DEF SwapPending
      <3>2. CASE StartTask
        BY <3>2 DEF StartTask
      <3>3. CASE BatchDone
        BY <3>3 DEF BatchDone
      <3> QED BY <2>5, <3>1, <3>2, <3>3
    <2>6. CASE FinishTask
      <3>1. Head(batch) \in Tasks /\ Tail(batch) \in Seq(Tasks)
        BY <2>6, RangeHeadTail DEF FinishTask
      <3> QED BY <2>6, <3>1 DEF FinishTask
    <2>7. CASE ThrowTask
      <3>1. Tail(batch) \in Seq(Tasks)
        BY <2>7, RangeHeadTail DEF ThrowTask
      <3>2. Range(Tail(batch)) \subseteq Tasks
        BY <3>1, RangeOfSeq
      <3>3. past \o batch \in Seq(Tasks)
        OBVIOUS
      <3> QED BY <1>0, <2>7, <3>2, <3>3 DEF ThrowTask, Throw
    <2>8. CASE EpollWait
      BY <2>8 DEF EpollWait, Sources
    <2>9. CASE DispatchPipe \/ DrainRead \/ DrainEmpty \/ EpollTimeout
      <3>1. CASE DispatchPipe
        BY <3>1 DEF DispatchPipe
      <3>2. CASE DrainRead
        BY <3>2 DEF DrainRead
      <3>3. CASE DrainEmpty \/ EpollTimeout
        BY <3>3 DEF DrainEmpty, EpollTimeout
      <3> QED BY <2>9, <3>1, <3>2, <3>3
    <2>10. CASE DispatchConnection \/ HandlerReturns \/ DispatchFault \/ DispatchDone
      <3>1. CASE DispatchConnection
        BY <3>1 DEF DispatchConnection
      <3>2. CASE DispatchFault
        BY <3>2 DEF DispatchFault
      <3>3. CASE HandlerReturns \/ DispatchDone
        BY <3>3 DEF HandlerReturns, DispatchDone
      <3> QED BY <2>10, <3>1, <3>2, <3>3
    <2>11. CASE ThrowHandler \/ CloseListener \/ ReturnTerminated
      <3>1. CASE ThrowHandler
        BY <3>1 DEF ThrowHandler, Throw
      <3>2. CASE CloseListener \/ ReturnTerminated
        BY <3>2 DEF CloseListener, ReturnTerminated
      <3> QED BY <2>11, <3>1, <3>2
    <2>12. CASE EnterPoll \/ NotInitialised
      BY <2>12 DEF EnterPoll, NotInitialised
    <2>13. CASE UNCHANGED vars
      BY <2>13 DEF vars
    <2> QED
      BY <2>1, <2>2, <2>3, <2>4, <2>5, <2>6, <2>7, <2>8, <2>9, <2>10, <2>11,
         <2>12, <2>13 DEF Next, Serve
  <1> QED BY <1>1, <1>2, PTL DEF Spec

-----------------------------------------------------------------------------
(* The inductive invariant.                                                  *)

(* Where the flags may stand in each phase of loop() and poll().             *)
Phases ==
    /\ closing => terminate /\ pc \in {"process", "run", "task", "shutdown", "disconnecting"}
    /\ pc \in {"shutdown", "disconnecting"} => closing
    /\ ~listening => terminate /\ pc \in {"disconnecting", "idle"}
    /\ pc = "disconnecting" => ~listening
    /\ pc \notin {"run", "task"} => batch = <<>>

(* From a swap of the list to the next drain of the eventfd, a task in the   *)
(* list has its wake-up in the eventfd or on its way there.                  *)
TaskWake ==
    pc \in {"run", "task", "wait"} /\ pending # <<>> => wake \/ Signalling

(* From the test of _terminate to the next drain, so has terminate().        *)
TerminateWake ==
    /\ terminate /\ ~closing
    /\ pc \in {"process", "run", "task", "wait"} \/ (pollMode /\ pc = "idle" /\ listening)
    => wake \/ Signalling \/ abandoned

(* Where the tasks queued before _terminate are.                             *)
EarlyWhere ==
    /\ early \subseteq Posted
    /\ closing /\ pc # "process" => early \subseteq Range(past) \cup Range(batch)
    /\ ~listening => early \subseteq Range(past)

(* Tasks in the list have not been swapped out before.                       *)
ListIsNew == (Range(past) \cup Range(batch)) \cap Range(pending) = {}

(* Who set _terminate.                                                       *)
Blame ==
    /\ \A th \in Threads : call[th] = "terminate" => expectedTerminate
    /\ terminate => expectedTerminate \/ faulted

IInv == Phases /\ TaskWake /\ EarlyWhere /\ ListIsNew /\ Blame

-----------------------------------------------------------------------------
(* Every step preserves it, one part at a time.                              *)

(* What holds at each place of the server's thread is kept by every step of  *)
(* any thread.                                                               *)
LEMMA PhasesStep == TypeOK /\ Phases /\ [Next]_vars => Phases'
  <1> SUFFICES ASSUME TypeOK, Phases, [Next]_vars PROVE Phases'
    OBVIOUS
  <1> USE DEF TypeOK, Phases, At, shared, history
  <1>1. CASE \E th \in Threads : \E t \in Tasks : Push(th, t)
    BY <1>1 DEF Push
  <1>2. CASE \E th \in Threads : Expect(th) \/ Call(th)
    BY <1>2 DEF Expect, Call, SetTerminate, Signal
  <1>3. CASE EnterLoop \/ EnterPoll \/ NotInitialised
    BY <1>3 DEF EnterLoop, EnterPoll, NotInitialised
  <1>4. CASE Iterate \/ ReturnContinue \/ BeginClosing
    BY <1>4 DEF Iterate, ReturnContinue, BeginClosing
  <1>5. CASE SwapPending \/ StartTask \/ BatchDone
    BY <1>5 DEF SwapPending, StartTask, BatchDone
  <1>6. CASE FinishTask
    BY <1>6 DEF FinishTask
  <1>7. CASE ThrowTask \/ ThrowHandler
    BY <1>7 DEF ThrowTask, ThrowHandler, Throw
  <1>8. CASE EpollWait \/ EpollTimeout \/ DispatchPipe \/ DrainRead \/ DrainEmpty
    BY <1>8 DEF EpollWait, EpollTimeout, DispatchPipe, DrainRead, DrainEmpty
  <1>9. CASE DispatchConnection \/ HandlerReturns \/ DispatchFault \/ DispatchDone
    BY <1>9 DEF DispatchConnection, HandlerReturns, DispatchFault, DispatchDone
  <1>10. CASE CloseListener \/ ReturnTerminated
    BY <1>10 DEF CloseListener, ReturnTerminated
  <1>11. CASE UNCHANGED vars
    BY <1>11 DEF vars
  <1> QED
    BY <1>1, <1>2, <1>3, <1>4, <1>5, <1>6, <1>7, <1>8, <1>9, <1>10, <1>11
    DEF Next, Serve

(* A step that leaves call and the eventfd alone keeps a wake-up under way.  *)
LEMMA WakeKept ==
    ASSUME UNCHANGED <<call, wake>>
    PROVE  (wake \/ Signalling)' = (wake \/ Signalling)
  BY DEF Signalling

(* execute() has its own write to the eventfd still ahead of it when it has  *)
(* pushed its task.                                                          *)
LEMMA PushWakes ==
    ASSUME TypeOK, NEW th \in Threads, NEW t \in Tasks, Push(th, t)
    PROVE  (wake \/ Signalling)'
  <1>1. call'[th] = "signal"
    BY DEF Push, TypeOK
  <1> QED BY <1>1 DEF Signalling

(* The later steps of execute() and terminate() leave the eventfd written or *)
(* about to be.                                                              *)
LEMMA CallWakes ==
    ASSUME TypeOK, NEW th \in Threads, Call(th)
    PROVE  (wake \/ Signalling)'
  <1>1. CASE Signal(th)
    BY <1>1 DEF Signal
  <1>2. CASE SetTerminate(th)
    <2>1. call'[th] = "signal"
      BY <1>2 DEF SetTerminate, TypeOK
    <2> QED BY <2>1 DEF Signalling
  <1> QED BY <1>1, <1>2 DEF Call

(* terminate()'s first step takes no wake-up away.                           *)
LEMMA ExpectKeepsWake ==
    ASSUME TypeOK, NEW th \in Threads, Expect(th), wake \/ Signalling
    PROVE  (wake \/ Signalling)'
  <1>1. wake' = wake /\ \A u \in Threads : call[u] = "signal" => call'[u] = "signal"
    BY DEF Expect, CanCall, TypeOK
  <1> QED BY <1>1 DEF Signalling

(* No step makes loop() sleep with a task queued and no wake-up: processing  *)
(* the queue always comes between a drain of the eventfd and an epoll_wait.  *)
LEMMA TaskWakeStep == TypeOK /\ Phases /\ TaskWake /\ [Next]_vars => TaskWake'
  <1> SUFFICES ASSUME TypeOK, Phases, TaskWake, [Next]_vars,
                      pc' \in {"run", "task", "wait"}, pending' # <<>>
               PROVE  (wake \/ Signalling)'
    BY DEF TaskWake
  <1> USE DEF At, shared, history
  <1>1. ASSUME NEW th \in Threads, NEW t \in Tasks, Push(th, t)
        PROVE  (wake \/ Signalling)'
    BY <1>1, PushWakes
  <1>2. ASSUME NEW th \in Threads, Expect(th) PROVE (wake \/ Signalling)'
    BY <1>2, ExpectKeepsWake DEF TaskWake, Expect
  <1>3. ASSUME NEW th \in Threads, Call(th) PROVE (wake \/ Signalling)'
    BY <1>3, CallWakes
  <1>4. CASE StartTask \/ FinishTask \/ BatchDone
    <2>1. pc \in {"run", "task", "wait"} /\ pending' = pending /\ UNCHANGED <<call, wake>>
      BY <1>4 DEF StartTask, FinishTask, BatchDone
    <2> QED BY <2>1, WakeKept DEF TaskWake
  <1>5. CASE UNCHANGED vars
    <2>1. pc' = pc /\ pending' = pending /\ UNCHANGED <<call, wake>>
      BY <1>5 DEF vars
    <2> QED BY <2>1, WakeKept DEF TaskWake
  <1>6. ~SwapPending
    BY DEF SwapPending
  <1>7. ~(EnterLoop \/ Iterate \/ ReturnContinue \/ BeginClosing)
    BY DEF EnterLoop, Iterate, ReturnContinue, BeginClosing
  <1>8. ~(DispatchPipe \/ DrainRead \/ DrainEmpty \/ EpollWait \/ EpollTimeout)
    BY DEF DispatchPipe, DrainRead, DrainEmpty, EpollWait, EpollTimeout
  <1>9. ~(DispatchConnection \/ HandlerReturns \/ DispatchFault \/ DispatchDone)
    BY DEF DispatchConnection, HandlerReturns, DispatchFault, DispatchDone
  <1>10. ~(CloseListener \/ ReturnTerminated \/ EnterPoll \/ NotInitialised)
    BY DEF CloseListener, ReturnTerminated, EnterPoll, NotInitialised
  <1>11. ~(ThrowTask \/ ThrowHandler)
    BY DEF ThrowTask, ThrowHandler, Throw
  <1> QED
    BY <1>1, <1>2, <1>3, <1>4, <1>5, <1>6, <1>7, <1>8, <1>9, <1>10, <1>11 DEF Next, Serve

(* loop() or poll(), once chosen, stays chosen, and an exception that has    *)
(* left poll() stays in the history.                                         *)
LEMMA ModeKept == TypeOK /\ [Next]_vars
                  => pollMode' = pollMode /\ (abandoned => abandoned')
  BY DEF Next, Serve, Call, Push, Expect, SetTerminate, Signal, NotInitialised, EnterLoop,
         EnterPoll, Iterate, ReturnContinue, BeginClosing, SwapPending, StartTask, FinishTask,
         Throw, ThrowTask, BatchDone, EpollWait, EpollTimeout, DispatchPipe, DrainRead,
         DrainEmpty, DispatchConnection, HandlerReturns, ThrowHandler, DispatchFault,
         DispatchDone, CloseListener, ReturnTerminated, vars, history, TypeOK

(* No step makes a server sleep through _terminate: between a drain of the   *)
(* eventfd and the next sleep the flag is looked at.                         *)
LEMMA TerminateWakeStep ==
    TypeOK /\ Phases /\ TerminateWake /\ [Next]_vars => TerminateWake'
  <1> DEFINE Listens(m, p, l) == p \in {"process", "run", "task", "wait"} \/ (m /\ p = "idle" /\ l)
  <1> SUFFICES ASSUME TypeOK, Phases, TerminateWake, [Next]_vars,
                      terminate', ~closing', Listens(pollMode, pc', listening')
               PROVE  (wake \/ Signalling \/ abandoned)'
    BY ModeKept DEF TerminateWake
  <1>0. pollMode' = pollMode /\ (abandoned => abandoned')
    BY ModeKept
  <1> USE DEF At, shared, history
  <1>1. ASSUME NEW th \in Threads, NEW t \in Tasks, Push(th, t)
        PROVE  (wake \/ Signalling)'
    BY <1>1, PushWakes
  <1>2. ASSUME NEW th \in Threads, Expect(th)
        PROVE  (wake \/ Signalling \/ abandoned)'
    <2>1. wake \/ Signalling \/ abandoned
      BY <1>2 DEF TerminateWake, Expect
    <2> QED BY <1>0, <1>2, <2>1, ExpectKeepsWake
  <1>3. ASSUME NEW th \in Threads, Call(th) PROVE (wake \/ Signalling)'
    BY <1>3, CallWakes
  <1>4. CASE SwapPending \/ StartTask \/ FinishTask \/ BatchDone \/ EnterPoll
    <2>1. UNCHANGED <<call, wake, terminate, closing, listening>>
      BY <1>4 DEF SwapPending, StartTask, FinishTask, BatchDone, EnterPoll
    <2>2. Listens(pollMode, pc, listening)
      BY <1>4 DEF SwapPending, StartTask, FinishTask, BatchDone, EnterPoll
    <2>3. wake \/ Signalling \/ abandoned
      BY <2>1, <2>2 DEF TerminateWake
    <2> QED BY <1>0, <2>1, <2>3, WakeKept
  <1>5. CASE ThrowTask \/ ThrowHandler
    <2>1. pollMode /\ terminate /\ abandoned'
      BY <1>5 DEF ThrowTask, ThrowHandler, Throw
    <2> QED BY <2>1
  <1>6. CASE UNCHANGED vars
    <2>1. /\ terminate /\ ~closing /\ Listens(pollMode, pc, listening)
          /\ UNCHANGED <<call, wake>>
      BY <1>6 DEF vars
    <2> QED BY <1>0, <2>1, WakeKept DEF TerminateWake
  <1>7. ~(EnterLoop \/ Iterate \/ ReturnContinue \/ BeginClosing)
    BY DEF EnterLoop, Iterate, ReturnContinue, BeginClosing
  <1>8. ~(DispatchPipe \/ DrainRead \/ DrainEmpty \/ EpollWait \/ EpollTimeout)
    BY DEF DispatchPipe, DrainRead, DrainEmpty, EpollWait, EpollTimeout
  <1>9. ~(DispatchConnection \/ HandlerReturns \/ DispatchFault \/ DispatchDone)
    BY DEF DispatchConnection, HandlerReturns, DispatchFault, DispatchDone
  <1>10. ~(CloseListener \/ ReturnTerminated)
    <2>1. ASSUME CloseListener PROVE FALSE
      <3>1. pc' = "disconnecting"
        BY <2>1 DEF CloseListener
      <3> QED BY <3>1
    <2>2. ASSUME ReturnTerminated PROVE FALSE
      <3>1. pc' = "idle" /\ listening' = listening /\ ~listening
        BY <2>2 DEF ReturnTerminated, Phases
      <3> QED BY <3>1
    <2> QED BY <2>1, <2>2
  <1>11. ~NotInitialised
    <2> SUFFICES ASSUME NotInitialised PROVE FALSE
      OBVIOUS
    <2>1. pc' = "idle" /\ listening' = listening /\ ~listening
      BY DEF NotInitialised
    <2> QED BY <2>1
  <1> QED
    BY <1>1, <1>2, <1>3, <1>4, <1>5, <1>6, <1>7, <1>8, <1>9, <1>10, <1>11
    DEF Next, Serve

(* _terminate is only ever set after _expectedTerminate, or by a fault.      *)
LEMMA BlameStep == TypeOK /\ Blame /\ [Next]_vars => Blame'
  <1> SUFFICES ASSUME TypeOK, Blame, [Next]_vars PROVE Blame'
    OBVIOUS
  <1> USE DEF TypeOK, Blame, shared, history
  <1>1. ASSUME NEW th \in Threads, NEW t \in Tasks, Push(th, t) PROVE Blame'
    BY <1>1 DEF Push
  <1>2. ASSUME NEW th \in Threads, Expect(th) PROVE Blame'
    BY <1>2 DEF Expect
  <1>3. ASSUME NEW th \in Threads, Call(th) PROVE Blame'
    BY <1>3 DEF Call, SetTerminate, Signal
  <1>4. CASE DispatchFault
    BY <1>4 DEF DispatchFault
  <1>5. UNCHANGED <<call, terminate, expectedTerminate, faulted>> => Blame'
    OBVIOUS
  <1>6. EnterLoop \/ Iterate \/ ReturnContinue \/ BeginClosing \/ SwapPending
        => UNCHANGED <<call, terminate, expectedTerminate, faulted>>
    BY DEF EnterLoop, Iterate, ReturnContinue, BeginClosing, SwapPending
  <1>7. StartTask \/ FinishTask \/ ThrowTask \/ ThrowHandler \/ BatchDone \/ DispatchPipe
        \/ DrainRead \/ DrainEmpty
        => UNCHANGED <<call, terminate, expectedTerminate, faulted>>
    BY DEF StartTask, FinishTask, ThrowTask, ThrowHandler, BatchDone, DispatchPipe,
           DrainRead, DrainEmpty
  <1>8. DispatchConnection \/ HandlerReturns \/ DispatchDone \/ CloseListener
        \/ ReturnTerminated => UNCHANGED <<call, terminate, expectedTerminate, faulted>>
    BY DEF DispatchConnection, HandlerReturns, DispatchDone, CloseListener, ReturnTerminated
  <1>9. EnterPoll \/ NotInitialised \/ EpollWait \/ EpollTimeout \/ UNCHANGED vars
        => UNCHANGED <<call, terminate, expectedTerminate, faulted>>
    BY DEF EnterPoll, NotInitialised, EpollWait, EpollTimeout, vars
  <1> QED
    BY <1>1, <1>2, <1>3, <1>4, <1>5, <1>6, <1>7, <1>8, <1>9 DEF Next, Serve

(* Where tasks go: the list only grows by new ones and only a swap, which    *)
(* finds the batch empty, takes any out of it.                               *)
LEMMA TasksStep ==
    ASSUME TypeOK, Phases, EarlyWhere, ListIsNew, [Next]_vars
    PROVE  EarlyWhere' /\ ListIsNew'
  <1> USE DEF shared, history, Posted, EarlyWhere, ListIsNew
  <1>1. ASSUME NEW th \in Threads, NEW t \in Tasks, Push(th, t)
        PROVE  EarlyWhere' /\ ListIsNew'
    <2>1. Range(pending') = Range(pending) \cup {t}
      BY <1>1, RangeAppend DEF Push, TypeOK
    <2>2. t \notin Range(past) \cup Range(batch)
      BY <1>1 DEF Push
    <2>3. closing \/ ~listening => early' = early
      BY <1>1 DEF Push, Phases
    <2>4. early' \subseteq early \cup {t} /\ UNCHANGED <<past, batch, closing, listening, pc>>
      BY <1>1 DEF Push
    <2> QED BY <2>1, <2>2, <2>3, <2>4
  <1>2. CASE SwapPending
    <2>1. Range(batch') = Range(pending) /\ Range(pending') = {} /\ Range(batch) = {}
      BY <1>2, RangeEmpty DEF SwapPending, At, Phases
    <2>2. UNCHANGED <<past, early, closing, listening>>
      BY <1>2 DEF SwapPending
    <2>3. listening
      BY <1>2 DEF SwapPending, At, Phases
    <2> QED BY <2>1, <2>2, <2>3
  <1>3. CASE FinishTask
    <2>1. Range(batch) = {Head(batch)} \cup Range(Tail(batch)) /\ Head(batch) \in Tasks
      BY <1>3, RangeHeadTail DEF FinishTask, At, TypeOK
    <2>2. Range(past') = Range(past) \cup {Head(batch)}
      BY <1>3, <2>1, RangeAppend DEF FinishTask, TypeOK
    <2>3. /\ UNCHANGED <<pending, early, closing, listening>>
          /\ batch' = Tail(batch) /\ pc = "task"
      BY <1>3 DEF FinishTask, At
    <2>4. listening
      BY <2>3 DEF Phases
    <2> QED BY <2>1, <2>2, <2>3, <2>4
  <1>4. CASE ThrowTask
    <2>1. Range(past') = Range(past) \cup Range(batch) /\ Range(batch') = {}
      BY <1>4, RangeConcatenation, RangeEmpty DEF ThrowTask, TypeOK
    <2>2. UNCHANGED <<pending, early, listening>> /\ ~closing' /\ pc = "task"
      BY <1>4 DEF ThrowTask, Throw, At
    <2>3. listening
      BY <2>2 DEF Phases
    <2> QED BY <2>1, <2>2, <2>3
  <1>5. CASE CloseListener
    <2>1. closing /\ Range(batch) = {} /\ pc = "shutdown"
      BY <1>5, RangeEmpty DEF CloseListener, At, Phases
    <2>2. UNCHANGED <<past, batch, pending, early, closing>>
      BY <1>5 DEF CloseListener
    <2> QED BY <2>1, <2>2
  <1>6. CASE BeginClosing
    <2>1. UNCHANGED <<past, batch, pending, early, listening>> /\ pc' = "process"
      BY <1>6 DEF BeginClosing
    <2> QED BY <2>1
  <1>7. CASE ReturnTerminated \/ ThrowHandler
    <2>1. UNCHANGED <<past, batch, pending, early, listening>> /\ ~closing'
      BY <1>7 DEF ReturnTerminated, ThrowHandler, Throw
    <2> QED BY <2>1
  <1> DEFINE Still == /\ UNCHANGED <<past, batch, pending, early, listening, closing>>
                      /\ closing /\ pc = "process" => pc' = "process"
  <1>8. Still => EarlyWhere' /\ ListIsNew'
    OBVIOUS
  <1>9. \A th \in Threads : Expect(th) \/ Call(th) => Still
    BY DEF Expect, Call, SetTerminate, Signal
  <1>10. EnterLoop \/ EnterPoll \/ NotInitialised \/ Iterate \/ ReturnContinue => Still
    BY DEF EnterLoop, EnterPoll, NotInitialised, Iterate, ReturnContinue, At
  <1>11. StartTask \/ BatchDone \/ EpollWait \/ EpollTimeout \/ DispatchPipe => Still
    BY DEF StartTask, BatchDone, EpollWait, EpollTimeout, DispatchPipe, At
  <1>12. DrainRead \/ DrainEmpty \/ DispatchConnection \/ HandlerReturns => Still
    BY DEF DrainRead, DrainEmpty, DispatchConnection, HandlerReturns, At
  <1>13. DispatchFault \/ DispatchDone \/ UNCHANGED vars => Still
    BY DEF DispatchFault, DispatchDone, At, vars
  <1> HIDE DEF Still
  <1> QED
    BY <1>1, <1>2, <1>3, <1>4, <1>5, <1>6, <1>7, <1>8, <1>9, <1>10, <1>11,
       <1>12, <1>13 DEF Next, Serve

-----------------------------------------------------------------------------
(* The theorems.                                                             *)

(* IInv holds in every reachable state.                                      *)
THEOREM Inductive == Spec => []IInv
  <1>1. Init => IInv
    BY RangeEmpty DEF Init, IInv, Phases, TaskWake, EarlyWhere, ListIsNew, Blame
  <1>2. TypeOK /\ IInv /\ [Next]_vars => IInv'
    BY PhasesStep, TaskWakeStep, TasksStep, BlameStep DEF IInv
  <1> QED BY <1>1, <1>2, TypeCorrect, PTL DEF Spec

(* No epoll_wait begins on a task in _pendingExecutables without a wake-up    *)
(* under way, whatever the interleaving of execute() calls with the swap of  *)
(* the list, the epoll_wait and the drain of the eventfd.                    *)
THEOREM LoopNeverLeavesATask == Spec => []NoTaskLeftAsleep
  <1>1. IInv => NoTaskLeftAsleep
    BY DEF IInv, TaskWake, NoTaskLeftAsleep
  <1> QED BY <1>1, Inductive, PTL

(* terminate() reaches a sleeping loop(), and a poll() that is called only   *)
(* when fd() is readable, unless an exception leaves it with the flag set.   *)
THEOREM TerminateIsHeard == Spec => []TerminateWakes
  <1>1. Init => TerminateWake
    BY DEF Init, TerminateWake
  <1>2. TerminateWake /\ Phases => TerminateWakes
    BY DEF TerminateWake, TerminateWakes, Asleep, Phases
  <1>3. TypeOK /\ Phases /\ TerminateWake /\ [Next]_vars => TerminateWake'
    BY TerminateWakeStep
  <1> QED BY <1>1, <1>2, <1>3, TypeCorrect, Inductive, PTL DEF Spec, IInv

(* The queue is processed once more after _terminate is seen, so a task      *)
(* queued before it is never left behind.                                    *)
THEOREM NoEarlyTaskLeft == Spec => []EarlyTasksTaken
  <1>1. IInv => EarlyTasksTaken
    BY DEF IInv, EarlyWhere, EarlyTasksTaken
  <1> QED BY <1>1, Inductive, PTL

(* loop() and poll() report an error only for a shutdown the server began    *)
(* by itself.                                                                *)
THEOREM ErrorsAreFaults == Spec => ErrorMeansFault
  <1>1. IInv /\ [Next]_vars => [ReturnTerminated /\ result' = "error" => faulted]_vars
    BY DEF IInv, Blame, Phases, ReturnTerminated, At
  <1> QED BY <1>1, Inductive, PTL DEF Spec, ErrorMeansFault

-----------------------------------------------------------------------------
(* The refinement of TaskQueue.                                              *)

(* Posting to the list posts to the batch and the list taken together.       *)
LEMMA AppendToConcat ==
    ASSUME NEW S, NEW s \in Seq(S), NEW t \in Seq(S), NEW e \in S
    PROVE  s \o Append(t, e) = Append(s \o t, e)
  OBVIOUS

(* Taking the first of the batch takes the first of batch and list together. *)
LEMMA HeadTailOfConcat ==
    ASSUME NEW S, NEW s \in Seq(S), NEW t \in Seq(S), s # <<>>
    PROVE  /\ s \o t # <<>> /\ Head(s \o t) = Head(s)
           /\ Tail(s \o t) = Tail(s) \o t
  <1>1. s \o t # <<>> /\ Head(s \o t) = Head(s)
    OBVIOUS
  <1>2. Tail(s \o t) \in Seq(S) /\ Tail(s) \o t \in Seq(S)
    BY <1>1
  <1>3. Len(Tail(s \o t)) = Len(Tail(s) \o t)
    BY <1>1
  <1>4. \A i \in 1..Len(Tail(s \o t)) : Tail(s \o t)[i] = (Tail(s) \o t)[i]
    BY <1>1
  <1>5. Tail(s \o t) = Tail(s) \o t
    BY <1>2, <1>3, <1>4, SeqEqual
  <1> QED BY <1>1, <1>5

(* A concatenation cut where its parts meet.                                 *)
LEMMA CutConcat ==
    ASSUME NEW S, NEW s \in Seq(S), NEW t \in Seq(S), s # <<>>
    PROVE  /\ Len(s) \in 1..Len(s \o t)
           /\ SubSeq(s \o t, 1, Len(s)) = s
           /\ SubSeq(s \o t, Len(s) + 1, Len(s \o t)) = t
           /\ {(s \o t)[i] : i \in 2..Len(s)} = Range(Tail(s))
  <1>1. Len(s) \in 1..Len(s \o t)
    OBVIOUS
  <1>2. SubSeq(s \o t, 1, Len(s)) = s
    <2>1. SubSeq(s \o t, 1, Len(s)) = SubSeq(s, 1, Len(s))
      BY SubSeqOfConcat1
    <2> QED BY <2>1, SubSeqFull
  <1>3. SubSeq(s \o t, Len(s) + 1, Len(s \o t)) = t
    <2> DEFINE u == SubSeq(s \o t, Len(s) + 1, Len(s \o t))
    <2>1. u \in Seq(S)
      OBVIOUS
    <2>2. Len(u) = Len(t)
      OBVIOUS
    <2>3. \A i \in 1..Len(t) : u[i] = t[i]
      OBVIOUS
    <2> HIDE DEF u
    <2>4. u = t
      BY <2>1, <2>2, <2>3, SeqEqual
    <2> QED BY <2>4 DEF u
  <1>4. {(s \o t)[i] : i \in 2..Len(s)} = Range(Tail(s))
    <2>1. \A i \in 2..Len(s) : i - 1 \in DOMAIN Tail(s) /\ (s \o t)[i] = Tail(s)[i - 1]
      OBVIOUS
    <2>2. \A i \in DOMAIN Tail(s) : i + 1 \in 2..Len(s) /\ (s \o t)[i + 1] = Tail(s)[i]
      OBVIOUS
    <2>3. {(s \o t)[i] : i \in 2..Len(s)} \subseteq Range(Tail(s))
      BY <2>1 DEF Range
    <2>4. Range(Tail(s)) \subseteq {(s \o t)[i] : i \in 2..Len(s)}
      BY <2>2 DEF Range
    <2> QED BY <2>3, <2>4
  <1> QED BY <1>1, <1>2, <1>3, <1>4

(* Every step of loop() or poll() is one of TaskQueue's or leaves the queue  *)
(* as it was: execute() posts, a task that returns is taken, one that throws *)
(* takes the rest of its batch with it, and shutdown closes the queue with   *)
(* none of the tasks owed still in it.                                       *)
THEOREM RefinesTaskQueue == Spec => ImplementsPromise
  <1>1. Init => Promise!Init
    BY DEF Init, Promise!Init
  <1>2. TypeOK /\ IInv /\ [Next]_vars => [Promise!Next]_(Promise!vars)
    <2> SUFFICES ASSUME TypeOK, IInv, [Next]_vars
                 PROVE  Promise!Next \/ UNCHANGED Promise!vars
      OBVIOUS
    <2> USE DEF shared, history
    <2>0. batch \in Seq(Tasks) /\ pending \in Seq(Tasks) /\ past \in Seq(Tasks)
      BY DEF TypeOK
    <2> DEFINE Same(q) == Promise!Range(q) = Range(q)
    <2>a. Same(batch \o pending) /\ Same(past)
      BY DEF Promise!Range, Range
    <2>1. ASSUME NEW th \in Threads, NEW t \in Tasks, Push(th, t)
          PROVE  Promise!Post(t)
      <3>1. (batch \o pending)' = Append(batch \o pending, t)
        BY <2>0, <2>1, AppendToConcat DEF Push
      <3>2. t \notin Range(batch \o pending) \cup Range(past)
        BY <2>0, <2>1, RangeConcatenation DEF Push, Posted
      <3> QED BY <2>1, <2>a, <3>1, <3>2 DEF Push, Promise!Post
    <2>2. ASSUME NEW th \in Threads, SetTerminate(th)
          PROVE  Promise!Stop
      BY <2>2 DEF SetTerminate, Promise!Stop
    <2>3. CASE DispatchFault
      <3>1. Promise!Stop
        BY <2>3 DEF DispatchFault, Promise!Stop
      <3> QED BY <3>1 DEF Promise!Next
    <2>4. CASE FinishTask
      <3>1. batch # <<>> /\ listening
        BY <2>4 DEF FinishTask, At, TypeOK, IInv, Phases
      <3>2. /\ batch \o pending # <<>> /\ Head(batch \o pending) = Head(batch)
            /\ Tail(batch \o pending) = (batch \o pending)'
        BY <2>0, <2>4, <3>1, HeadTailOfConcat DEF FinishTask
      <3>3. Promise!Run
        BY <2>4, <3>1, <3>2 DEF FinishTask, Promise!Run
      <3> QED BY <3>3 DEF Promise!Next
    <2>5. CASE ThrowTask
      <3>1. batch # <<>> /\ listening
        BY <2>5 DEF ThrowTask, At, TypeOK, IInv, Phases
      <3> DEFINE n == Len(batch)
      <3>2. /\ n \in 1..Len(batch \o pending)
            /\ SubSeq(batch \o pending, 1, n) = batch
            /\ SubSeq(batch \o pending, n + 1, Len(batch \o pending)) = pending
            /\ {(batch \o pending)[i] : i \in 2..n} = Range(Tail(batch))
        BY <2>0, <3>1, CutConcat
      <3>3. Head(batch \o pending) = Head(batch)
        BY <2>0, <3>1, HeadTailOfConcat
      <3>4. (batch \o pending)' = pending
        <4>1. (batch \o pending)' = <<>> \o pending
          BY <2>5 DEF ThrowTask
        <4> QED BY <2>0, <4>1, ConcatEmptySeq
      <3> HIDE DEF n
      <3>5. Promise!Fail(n)
        BY <2>5, <3>1, <3>2, <3>3, <3>4 DEF ThrowTask, Promise!Fail
      <3> QED BY <3>2, <3>5 DEF Promise!Next
    <2>6. CASE CloseListener
      <3>1. /\ terminate /\ batch = <<>> /\ early \subseteq Range(past)
            /\ Range(past) \cap Range(pending) = {}
        BY <2>6, RangeEmpty DEF CloseListener, At, IInv, Phases, EarlyWhere, ListIsNew
      <3>2. Range(batch \o pending) = Range(pending)
        BY <2>0, <3>1, ConcatEmptySeq
      <3>3. Promise!Close
        BY <2>6, <2>a, <3>1, <3>2 DEF CloseListener, Promise!Close
      <3> QED BY <3>3 DEF Promise!Next
    <2>7. CASE SwapPending
      <3>1. batch = <<>>
        BY <2>7 DEF SwapPending, At, IInv, Phases
      <3>2. (batch \o pending)' = batch \o pending
        <4>1. (batch \o pending)' = pending \o <<>>
          BY <2>7 DEF SwapPending
        <4> QED BY <2>0, <3>1, <4>1, ConcatEmptySeq
      <3> QED BY <2>7, <3>2 DEF SwapPending, Promise!vars
    <2> DEFINE Still == UNCHANGED <<batch, pending, past, lost, early, terminate, listening>>
    <2>8. Still => UNCHANGED Promise!vars
      BY DEF Promise!vars
    <2>9. \A th \in Threads : Expect(th) \/ Signal(th) => Still
      BY DEF Expect, Signal
    <2>10. EnterLoop \/ EnterPoll \/ NotInitialised \/ Iterate \/ ReturnContinue
           \/ BeginClosing => Still
      BY DEF EnterLoop, EnterPoll, NotInitialised, Iterate, ReturnContinue, BeginClosing
    <2>11. StartTask \/ BatchDone \/ EpollWait \/ EpollTimeout \/ DispatchPipe => Still
      BY DEF StartTask, BatchDone, EpollWait, EpollTimeout, DispatchPipe
    <2>12. DrainRead \/ DrainEmpty \/ DispatchConnection \/ HandlerReturns => Still
      BY DEF DrainRead, DrainEmpty, DispatchConnection, HandlerReturns
    <2>13. ThrowHandler \/ DispatchDone \/ ReturnTerminated \/ UNCHANGED vars => Still
      BY DEF ThrowHandler, DispatchDone, ReturnTerminated, vars
    <2> HIDE DEF Still
    <2>14. (\E th \in Threads : (\E t \in Tasks : Push(th, t)) \/ SetTerminate(th))
           => Promise!Next
      BY <2>1, <2>2 DEF Promise!Next
    <2> QED
      BY <2>3, <2>4, <2>5, <2>6, <2>7, <2>8, <2>9, <2>10, <2>11, <2>12, <2>13, <2>14
      DEF Next, Serve, Call
  <1> QED BY <1>1, <1>2, TypeCorrect, Inductive, PTL DEF Spec, ImplementsPromise, Promise!Spec
=============================================================================
