SPECIFICATION Spec
CONSTANTS
    Conns = {c1}
    MaxFd = 2
    Timeout = 1
    MaxEvents = 2
    MaxThrows = 0
    PollMode = FALSE
    EpollFails = TRUE
    OthersOpen = TRUE
INVARIANT ServerClosesItsOwn
CHECK_DEADLOCK FALSE
