---------------------------- MODULE MCEventLoop ----------------------------
(* EventLoop on two application threads and a handful of tasks.              *)
EXTENDS EventLoop

CONSTANTS c1, c2, server, t1, t2, t3

MCCallers1 == {c1}
MCCallers2 == {c1, c2}
MCTasks2 == {t1, t2}
MCTasks3 == {t1, t2, t3}
MCThrowing == {t3}
=============================================================================
