SPECIFICATION PartsSpec
CONSTANTS
    BufferSize = 4
    KernelSize = 2
    MaxWrite = 3
    MaxBytes = 7
    EpollFails = TRUE
    Streams <- MCStreams
    MaxMessage = 140
    ReadSize = 140
    SendLengths = {0, 125, 126, 65535, 65536, 16777217}
    MaxKey = 6
    B = 12
    WordSize = 192
    Pieces = {0, 1, 3, 4, 11, 12, 13, 25}
    MaxMessageSize = 40
    FileSizes = {0, 1, 4}
    RangeHeaders <- MCRangeHeaders
    PieceSize = 2
    Pages <- MCPages
    PathNames <- MCPathNames
    MaxHandlers = 2
    Texts <- MCTexts
    Segments <- MCSegments
    Malformed <- MCMalformed
    PayloadSizes = {0, 1, 2, 5}
    StreamBuffer = 2
    MaxPayload = 5
    Strings <- MCStrings
    MapKeys <- MCKeys
    Numbers = {16}
    Reals = {1234567}
    Shown <- MCShown
    Bare = {44}
    MaxItems = 2
    MaxPieces = 2
    PortNumbers = {80, 65616}
    MaxCalls = 3
    Clients <- MCClients
    MaxHead = 26
    ClientBufferSize = 4
    HeadReadSize = 24
    Threads = {t1, t2, t3}
    ThirdThread = t3
    Ports = {p1, p2}
    SecondPort = p2
    Handles = {h1}
    None = None
    Sockets = {s1}
    Objs = {o1}
    Groups = {g1}
    MaxGroupSize = 1
    Nothing = Nothing
    Interests <- MCInterests
    Conditions = {"RECEIVE"}
    MaxEvents = 1
    MaxFaults = 0
INVARIANTS
    StreamIsPrefix
    BufferBounded
    CloseWhenEmptyDelivers
    FramesReadBack
    TreeIsSearchable
    DigestsWhateverTheCuts
    BodyIsWhatWasAsked
    PagesAreFound
    BodyEndsWhereItSays
    JsonReadsBack
    DescriptorsAreKept
    RequestsWhateverTheCuts
PROPERTIES
    CloseWhenEmptyCloses
    WaitingLeaves
    CloseReturns
    ReadyIsReported
CHECK_DEADLOCK FALSE
