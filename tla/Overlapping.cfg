SPECIFICATION Spec
CONSTANTS
    c1 = c1
    c2 = c2
    NoSocket = NoSocket
    Sockets <- TwoSockets
    CorkSize = 4
    RoomSize = 2
    MaxBackpressure = 1
    MaxFrame = 1
    MaxFrames = 3
    MaxReplies = 2
    Overlap = TRUE
PROPERTIES OneCorked
CHECK_DEADLOCK FALSE
