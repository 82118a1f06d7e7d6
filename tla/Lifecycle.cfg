SPECIFICATION Spec
CONSTANTS
    Files <- SomeFiles
    Deferrers <- HubAndLoop
    Owner = "ws"
    MaxDeferred = 3
INVARIANTS PortsReported SurvivesClients NoWakeupLost
PROPERTIES DeferRelay EveryClientServed EveryCallbackRuns
CHECK_DEADLOCK FALSE
