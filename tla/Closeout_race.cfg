SPECIFICATION FairSpec
CONSTANTS
    Symbols = {spy}
    Callers = {one, other}
    FirstStatuses = {"accepted", "rejected"}
    EndStatuses = {"cancelled"}
    MaxShares = 1
    MaxCalls = 3
    MaxCancelPolls = 1
    MaxExitAttempts = 2
    MaxFlatPolls = 2
INVARIANT NeverOversold
INVARIANT VerdictsAgree
INVARIANT ClosedMeansNoWorkingBuy
PROPERTY ClosedExposureIsLateFill
PROPERTY CloseoutEnds
\* The closeout is over when the calls of the bound are made.
CHECK_DEADLOCK FALSE
