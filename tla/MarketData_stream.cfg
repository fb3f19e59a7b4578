SPECIFICATION Spec
CONSTANTS
    Symbols = {spy}
    Width = 2
    Minutes = 5
    ReorderWindow = 2
    StaleAfter = 1
    MaxTime = 6
    MaxStarts = 2
INVARIANT AggregateIsComplete
INVARIANT MemoryIsLedger
INVARIANT EntryUsesItsBar
\* The stream ends with the clock, and the process after its last start.
CHECK_DEADLOCK FALSE
