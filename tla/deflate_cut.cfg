SPECIFICATION HybiSpec
CONSTANTS
    Streams <- MCStreams
    MaxMessage = 140
    ReadSize = 140
    SendLengths = {1}
INVARIANT DeflatedWhateverTheCuts
CHECK_DEADLOCK FALSE
