SPECIFICATION FairSpec
CONSTANTS
    c1 = c1
    c2 = c2
    server = server
    t1 = t1
    t2 = t2
    t3 = t3
    Callers <- MCCallers2
    Server = server
    Tasks <- MCTasks3
    Throwing <- MCThrowing
    CallbacksThrow = TRUE
INVARIANTS
    TypeOK
    NoTaskLeftAsleep
    TerminateWakes
    EarlyTasksTaken
PROPERTIES
    ErrorMeansFault
    ImplementsPromise
    TasksTakenByLoop
    TerminateEnds
