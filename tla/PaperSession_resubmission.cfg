SPECIFICATION Spec
CONSTANTS
    SPY = SPY
    QQQ = QQQ
    s1 = s1
    Symbols = {SPY, QQQ}
    FirstStatuses <- Begins
    EndStatuses <- Ends
    StrategyIds = {s1}
    Listing <- PairListing
    Lifecycle <- AllObserving
    Bars <- PairBars
    LotSize = 1
    MaxEntries = 2
    MaxPositions = 3
    EntryDelay = 1
    MaxFeedAge = 2
    MaxClockAge = 1
    ClockSkew <- NoSkew
    CloseoutAt = 6
    Horizon = 4
    MaxCrashes = 1
INVARIANT OneOrderPerSignal
CHECK_DEADLOCK FALSE
