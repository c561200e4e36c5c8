SPECIFICATION FairSpec
CONSTANTS
    Conns = {c1, c2}
    MaxFd = 2
    Timeout = 1
    MaxEvents = 2
    MaxThrows = 0
    PollMode = FALSE
    EpollFails = FALSE
    OthersOpen = FALSE
PROPERTIES HangUpsRemoved LameKilled
CHECK_DEADLOCK FALSE
