SPECIFICATION FairSpec
CONSTANTS
    l1 = l1 l2 = l2 w1 = w1 w2 = w2
    Leads <- TwoLeads
    Workers <- TwoWorkers
    Sweeper = Sweeper
    MaxVersion <- OneAndThree
    Batch = 2
    Rejected <- First
    Nobody = Nobody
CHECK_DEADLOCK FALSE
INVARIANT NothingIsForgotten
PROPERTY Converges
