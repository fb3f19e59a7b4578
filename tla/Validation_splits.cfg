SPECIFICATION ViewsSpec
CONSTANTS
    Totals = {10, 11, 12, 13, 14, 15, 16, 17, 18, 19, 20, 23, 29, 35}
    Lengths = {0, 1, 2, 3, 4, 5, 6, 7, 8, 9, 10, 11, 12}
    Sizes = {1, 2, 3}
    MaxWindows = 8
    MaxSlots = 20
    Strategies = {s1, s2}
    MaxViews = 4
CHECK_DEADLOCK FALSE
INVARIANT SplitIsExact
INVARIANT WindowsWalkForward
INVARIANT FinalTestIsOneUse
