SPECIFICATION Spec
CONSTANTS
    l1 = l1 l2 = l2 s1 = s1 s2 = s2 s3 = s3 r1 = r1 r2 = r2 r3 = r3
    Leads <- OneLead
    Sales <- ThreeSales
    Steady <- TwoSales
    Rank <- RankThree
    Preferred = s2
    Requests <- ThreeRequests
    Asked <- Mixed
    Admin = Admin
    Nobody = Nobody
SYMMETRY RequestSymmetry
CHECK_DEADLOCK FALSE
INVARIANTS RoutedOnceEach ExpiredMeansTried CallIsAnnouncedOnce
PROPERTIES FormerOwnersAreInert ImplementsCustody
