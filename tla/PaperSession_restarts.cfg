SPECIFICATION Spec
CONSTANTS
    SPY = SPY
    QQQ = QQQ
    s1 = s1
    Symbols = {SPY}
    FirstStatuses <- Begins
    EndStatuses <- Ends
    StrategyIds = {s1}
    Listing <- SoloListing
    Lifecycle <- AllObserving
    Bars <- TwoBars
    LotSize = 2
    MaxEntries = 1
    MaxPositions = 3
    EntryDelay = 1
    MaxFeedAge = 2
    MaxClockAge = 1
    ClockSkew <- SlowBroker
    CloseoutAt = 6
    Horizon = 6
    MaxCrashes = 1
INVARIANT EntryCountIsExact
 
INVARIANT OneOpenEntryPerSymbol
PROPERTY CleanStartKnowsOpenOrders
PROPERTY ApprovalIsTimely
CHECK_DEADLOCK FALSE
