SPECIFICATION Spec
CONSTANTS
    btc = btc
    eth = eth
    Symbols <- TwoSymbols
    MaxUpdates = 2
    MaxExtras = 0
    IsTest = FALSE
    Resync = FALSE
    NumConns = 1
    MaxOpens = 1
PROPERTIES UpdatesCarryNews
