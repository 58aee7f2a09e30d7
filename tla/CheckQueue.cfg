SPECIFICATION FairSpec
CONSTANTS
    w1 = w1
    w2 = w2
    m1 = m1
    c1 = c1
    c2 = c2
    None = None
    Workers <- TwoWorkers
    Masters <- OneMaster
    Checks <- TwoChecks
    Bad <- OneBad
    nBatchSize = 2
INVARIANTS
    Accounting
    WaitIsExact
    CleanStart
PROPERTIES
    WaitReturns
