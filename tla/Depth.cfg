SPECIFICATION Spec
CONSTANTS
    Symbols = {btc, eth}
    Books <- SomeBooks
    LevelCount = 2
    Slots = {s1, s2}
    MaxPushes = 3
    ValueRange = 8192
    BaseRange = 16
    IntDigits = 3
    IntMin <- IntEnd
    Tolerance = 20
    InitTolerance = 5
    Limit = 5
    Decimals <- SomeDecimals
    Texts <- SomeTexts
    Doubles <- SomeDoubles
    Leftovers <- SomeLeftovers
    MaxCalculations = 2
    Units = 4
SYMMETRY Symmetry
INVARIANTS EntriesFreeAtExit SumsRight ArithmeticRight RoundsDown ConversionsNear
CHECK_DEADLOCK FALSE
