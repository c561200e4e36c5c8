SPECIFICATION MCSpec
CONSTANTS
    Threads = {t1, t2, t3}
    ThirdThread = t3
    Ports = {p1, p2}
    SecondPort = p2
    Handles = {h1}
    None = None
    Sockets = {s1}
    Objs = {o1, o2}
    OnlyObject = o1
    Groups = {g1, g2}
    MaxGroupSize = 1
    Nothing = Nothing
    Interests <- MCInterests
    Conditions = {"RECEIVE"}
    MaxEvents = 1
    MaxFaults = 1
SYMMETRY MCSymmetry
INVARIANTS
    NoUseAfterFree
    ReflockAsserts
    HandlesAreCurrent
    CompletionsHaveOwners
    InterestIsServed
    PortInOrder
\* Every object may be in use, or the program may call nothing any more.
CHECK_DEADLOCK FALSE
