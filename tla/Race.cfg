SPECIFICATION Spec
CONSTANTS
  c1 = c1
  c2 = c2
  NoSocket = NoSocket
  Sockets <- TwoSockets
  CorkSize = 3
  RoomSize = 1
  MaxBackpressure = 1
  MaxFrame = 1
  MaxFrames = 3
  MaxReplies = 2
  Overlap = TRUE
SYMMETRY SocketSymmetry
INVARIANTS BufferedIsPolled CloseEventOnce
CHECK_DEADLOCK FALSE
