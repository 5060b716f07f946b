SPECIFICATION Spec
CONSTANTS
    w1 = w1
    w2 = w2
    m = m
    c1 = c1
    c2 = c2
    c3 = c3
    c4 = c4
    Worker <- TwoWorkers
    Master = m
    Check <- FewChecks
    Bad <- OneBad
    nBatchSize = 2
    MaxBlocks = 2
    ShutdownWhileConnecting = TRUE
CHECK_DEADLOCK FALSE
PROPERTIES
    QuitReturns
