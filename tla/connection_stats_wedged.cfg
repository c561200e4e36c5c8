SPECIFICATION FairSpec
CONSTANTS
    Kinds = {"get", "stats"}
    FrameKinds = {}
    MaxRequests = 2
    MaxFrames = 0
\* The client may never send again.
CHECK_DEADLOCK FALSE
PROPERTIES
    AnsweredInTheEnd
