SPECIFICATION Spec
CONSTANTS
    l1 = l1
    l2 = l2
    c1 = c1
    r1 = r1
    r2 = r2
    Leases <- MCLeases
    Legacy <- MCLegacy
    Claimers <- MCClaimers
    Runs <- MCRuns
    Ttl = 1
    Margin = 0
    StaleRun = 2
    Backoff <- MCBackoff
    MaxAttempts = 2
    SlowClaims = FALSE
    Horizon = 3
SYMMETRY MCRunSymmetry
INVARIANTS
    TypeOK
    ClaimedKeepsObject
    NothingLeaked
PROPERTY ImplementsCustody
CHECK_DEADLOCK FALSE
