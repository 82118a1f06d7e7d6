SPECIFICATION FairSpec
CONSTANTS
    btc = btc
    eth = eth
    Symbols <- TwoSymbols
    MaxUpdates = 2
    MaxExtras = 1
    IsTest = TRUE
    Resync = TRUE
    NumConns = 1
    MaxOpens = 1
PROPERTIES RelaySpec EveryUpdatePublished EverySubscriberLearns
