SPECIFICATION Spec
CONSTANTS
    f1 = f1
    f2 = f2
    w1 = w1
    w2 = w2
    r1 = r1
    r2 = r2
    c1 = c1
    NoWorker = NoWorker
    NoRun = NoRun
    Files = {f1}
    Malicious = {}
    CreatedAt <- MCCreatedAt
    Workers <- MCWorkers
    MaxAttempts = 2
    StaleAfter = 2
    RetryDelay <- MCRetryDelay
    Horizon = 2
    Runs <- MCRuns
    Checks <- MCChecks
    Lease = 1
    Interval = 2
    RetryGap = 1
SYMMETRY MCRunSymmetry
PROPERTIES
    ImplementsQueue
    ReleaseNeedsFreshMatch
    FixityNeverUnblocks
