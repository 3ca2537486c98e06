SPECIFICATION Spec
CONSTANTS
    c1 = c1 c2 = c2 s1 = s1 s2 = s2 p1 = p1 p2 = p2 p3 = p3
    t1 = t1 t2 = t2 t3 = t3 i1 = i1 i2 = i2 r1 = r1 r2 = r2
    Admin = Admin Nobody = Nobody
    Identities <- TwoIdentities
    Tokens <- ThreeTokens
    MaxTokens = 1
    Requests <- TwoRequests
    Leads <- FourLeads
    FirstLeads <- ThreeLeads
    CustomerOf <- Owners
    Fits <- Bands
    Sales <- TwoSales
    Projects <- ThreeProjects
    MaxAttempts = 1
    QueuePage = 8
    DocRank <- Ranks
    PageSize = 1
    RevealLimit = 1
    Shifts <- AllShifts
    MaxMoves = 4
SYMMETRY Alike
CHECK_DEADLOCK FALSE
INVARIANTS OptOutHolds AttemptsAreCapped RevealsAreAccounted WalkIsComplete TokensAreCapped
PROPERTY ReadsOnlyDeepen
