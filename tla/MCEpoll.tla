------------------------------ MODULE MCEpoll ------------------------------
(* Epoll for TLC, in two scenes: what two threads do inside of one port,     *)
(* where a system call fails or sockets are closed; and what three do to two *)
(* ports, of which one may get the handle that the other had, with one       *)
(* object and where none of that happens.                                    *)
EXTENDS Epoll

CONSTANTS
    ThirdThread,
    SecondPort,
    OnlyObject

VARIABLE scene

MCInterests == {{"IN"}, {"IN", "OUT", "ONESHOT"}}
MCSymmetry == Permutations(Threads \ {ThirdThread})

Cast ==
    \/ /\ scene = "inside"
       /\ pc[ThirdThread] = "idle" /\ SecondPort \notin allocated
       /\ faults = 0 \/ closed = {}
    \/ /\ scene = "ports"
       /\ faults = 0 /\ closed = {} /\ \A s \in Sockets : ready[s] = {}
       /\ \A p \in Ports : \A o \in Live(port[p]) :
             o = OnlyObject /\ "ONESHOT" \notin port[p].obj[o].events /\ ~port[p].obj[o].deleted

MCInit == Init /\ scene \in {"inside", "ports"}
MCNext == Next /\ scene' = scene /\ Cast'
MCSpec == MCInit /\ [][MCNext]_<<vars, scene>>
=============================================================================
