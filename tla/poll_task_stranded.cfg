SPECIFICATION FairSpec
CONSTANTS
    c1 = c1
    c2 = c2
    server = server
    t1 = t1
    t2 = t2
    t3 = t3
    Callers <- MCCallers1
    Server = server
    Tasks <- MCTasks2
    Throwing = {}
    CallbacksThrow = FALSE
PROPERTIES
    TasksTaken
