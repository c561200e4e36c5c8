SPECIFICATION FairSpec
CONSTANTS
    Kinds <- RequestKinds
    FrameKinds = {"text", "ping", "close", "fragment"}
    MaxRequests = 2
    MaxFrames = 3
\* The client may never send again.
CHECK_DEADLOCK FALSE
INVARIANTS
    ResponsesInStep
    RepliesInOrder
    FramesOnce
    SocketLife

    
