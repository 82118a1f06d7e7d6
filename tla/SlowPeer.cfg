SPECIFICATION FairSpec
CONSTANTS
    c1 = c1
    c2 = c2
    NoSocket = NoSocket
    Sockets <- OneSocket
    CorkSize = 1
    RoomSize = 1
    MaxBackpressure = 1
    MaxFrame = 1
    MaxFrames = 6
    MaxReplies = 3
    Overlap = FALSE
INVARIANTS BackpressureBounded
PROPERTIES EveryCloseEnds
CHECK_DEADLOCK FALSE
