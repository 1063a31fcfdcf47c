SPECIFICATION Spec
CONSTANTS
    l1 = l1
    l2 = l2
    c1 = c1
    r1 = r1
    r2 = r2
    Leases = {l1}
    Legacy = {}
    Claimers <- MCClaimers
    Runs = {r1}
    Ttl = 1
    Margin = 0
    StaleRun = 2
    Backoff <- MCBackoff
    MaxAttempts = 2
    SlowClaims = TRUE
    Horizon = 2
INVARIANT ClaimedKeepsObject
CHECK_DEADLOCK FALSE
