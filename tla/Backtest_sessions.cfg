SPECIFICATION Spec
CONSTANTS
    Symbols = {SPY, QQQ}
    MaxPositions = 2
    Sessions = 2
    Close = 9
    CloseoutBuffer = 1
    RowMinutes = {1, 5, 6}
    Bars <- FewBars
    Impact = 1
    InitialCash = 10
    MaxEntries = 2
    Cooldown = 2
    MaxHolding = 3
    StopLoss = 1
    TakeProfit = 1
CHECK_DEADLOCK FALSE
INVARIANT BooksAgree
INVARIANT NeverFails
INVARIANT FundsCovered
INVARIANT FlatByCloseout
INVARIANT CooldownHonoured
PROPERTY NoLookAhead
PROPERTY ReplayEnds
