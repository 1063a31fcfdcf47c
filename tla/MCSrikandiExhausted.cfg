SPECIFICATION Spec
CONSTANTS
    k1 = k1
    p1 = p1
    p2 = p2
    d1 = d1
    d2 = d2
    Nobody = Nobody
    NoContent = NoContent
    Keys = {k1}
    Payloads <- MCPayloads
    Versions = {"v1", "v2"}
    Dispatchers <- MCDispatchers
    MaxAttempts = 2
    MaxCrashes = 2
    MaxManual = 1
    MaxDeploys = 1
INVARIANT AttemptsWithinLimit
CHECK_DEADLOCK FALSE
