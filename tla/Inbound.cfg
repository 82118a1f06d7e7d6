SPECIFICATION Spec
CONSTANTS
    MaxSegments = 2
    HttpStreams <- Requests
    Program <- AllRoutes
    HandlerOf <- Routed
    MaxFallback = 4
    ReplySize = 2
    FrameStreams <- Frames
    MaxPayload = 7
    Candidates <- SomeRoutes
    Urls <- SomeUrls
INVARIANTS RoutedRight BodiesWhole FallbackBounded AnsweredOrAborted IdleHasTimeout AnswersWhole StateFits Understood
CHECK_DEADLOCK FALSE
