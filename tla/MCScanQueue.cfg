SPECIFICATION FairSpec
CONSTANTS
    f1 = f1
    f2 = f2
    w1 = w1
    w2 = w2
    NoWorker = NoWorker
    Files <- MCFiles
    Workers <- MCWorkers
    MaxAttempts = 2
PROPERTY EventuallySettled
CHECK_DEADLOCK FALSE
