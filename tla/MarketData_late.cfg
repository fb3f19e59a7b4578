SPECIFICATION Spec
CONSTANTS
    Symbols = {spy}
    Width = 2
    Minutes = 3
    ReorderWindow = 1
    StaleAfter = 2
    MaxTime = 4
    MaxStarts = 1
INVARIANT CompletedBarIsJudged
\* The stream ends with the clock, and the process after its last start.
CHECK_DEADLOCK FALSE
