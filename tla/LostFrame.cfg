SPECIFICATION Spec
CONSTANTS
    c1 = c1
    c2 = c2
    NoSocket = NoSocket
    Sockets <- OneSocket
    CorkSize = 3
    RoomSize = 2
    MaxBackpressure = 1
    MaxFrame = 2
    MaxFrames = 4
    MaxReplies = 3
    Overlap = FALSE
INVARIANTS EveryFrameKept
CHECK_DEADLOCK FALSE
