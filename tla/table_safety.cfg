SPECIFICATION Spec
CONSTANTS
    Conns = {c1, c2}
    MaxFd = 3
    Timeout = 1
    MaxEvents = 2
    MaxThrows = 1
    PollMode = TRUE
    EpollFails = TRUE
    OthersOpen = TRUE
INVARIANTS
    TableInOrder
    BatchIsSafe
    ShutdownLeavesNothing
SYMMETRY Symmetry
CHECK_DEADLOCK FALSE
