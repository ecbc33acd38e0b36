CONSTANTS
    w1 = w1
    w2 = w2
    Worker = {w1, w2}
    Master = Master
    nBatchSize = 2
    MaxChecks = 4
SPECIFICATION Spec
INVARIANTS TypeOK VerdictExact NoCheckOutlives QueueUnusedAtStart
PROPERTY WaitReturns
