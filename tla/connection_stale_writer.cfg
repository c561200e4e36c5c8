SPECIFICATION Spec
CONSTANTS
    Kinds = {"get"}
    FrameKinds = {}
    MaxRequests = 1
    MaxFrames = 0
\* The client may never send again.
CHECK_DEADLOCK FALSE
INVARIANTS
    WriterKnowsConnection
