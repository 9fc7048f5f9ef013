CONSTANTS
    MaxUp = 2
    MaxDown = 1
    Window = 1
    BlockSize = 32768
    MinBlock = 256
    SkipWindow = 1024
    MaxEmptyReads = 2
    Blocks = {255, 256, 32768}
    Encodings = {1, 230, 231, 280, 29491, 29492, 40000}
    Ports = {1, 2}
    RequestedPort = 0
    MaxReplies = 1
SPECIFICATION FairSocks
INVARIANTS CleanEndIsComplete OnlyFaultsCut FramesDecode DatagramsExact
PROPERTIES EndReaches RelaysReturn BacksOff SourcePinned AssociationEnds
CHECK_DEADLOCK FALSE
