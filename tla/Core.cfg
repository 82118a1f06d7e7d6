SPECIFICATION Spec
CONSTANTS
    btc = btc
    eth = eth
    Symbols <- TwoSymbols
    MaxUpdates = 2
    MaxExtras = 0
    IsTest = FALSE
    Resync = FALSE
    NumConns = 2
    MaxOpens = 3
SYMMETRY SymbolSymmetry
INVARIANTS TypeOK IndexAgrees AnnouncedBeforeData NoSymbolMissed Contiguous
