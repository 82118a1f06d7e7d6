SPECIFICATION Spec
CONSTANTS
    c1 = c1
    c2 = c2
    NoSocket = NoSocket
    Sockets <- TwoSockets
    CorkSize = 3
    RoomSize = 2
    MaxBackpressure = 1
    MaxFrame = 2
    MaxFrames = 3
    MaxReplies = 3
    Overlap = FALSE
SYMMETRY SocketSymmetry
INVARIANTS TypeOK FramesWhole AcceptedIsKept
CHECK_DEADLOCK FALSE
