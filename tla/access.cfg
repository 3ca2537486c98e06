SPECIFICATION SpecEither
CONSTANTS
    r1 = r1 r2 = r2 e1 = e1 e2 = e2 n1 = n1 n2 = n2
    Requests <- TwoRequests
    MaxFaults = 3
    Emails = {e1, e2}
    SalesRows = {n1, n2}
    MaxUid = 3
    MaxRuns = 3
CHECK_DEADLOCK FALSE
INVARIANTS AccessIsWhole ExitZeroIsUsable
PROPERTY SuccessIsWhole
