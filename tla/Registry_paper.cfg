SPECIFICATION FairSpec
CONSTANTS
    s1 = s1
    s2 = s2
    Strategies = {s1, s2}
    Requests <- PaperRequests
    Capacity <- OnePlace
    Callers = {c1, c2}
    Nobody = Nobody
INVARIANT CapacityHolds
INVARIANT ChecksStayTrue
INVARIANT ShadowIsValidated
PROPERTY LedgerSpec
PROPERTY CommittedIsNeverRefused
