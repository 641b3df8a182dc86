SPECIFICATION Spec
CONSTANTS
    Requests = {r1, r2}
    MaxFailedAttempts = 2
    LockDuration = 1
    AccessTTL = 1
    IDTTL = 1
    MfaTTL = 1
    Leeway = 1
    CodesPerBatch = 1
    Horizon = 3
    MaxSecrets = 2
    MaxBatches = 1
    MaxCount = 3
INVARIANT CodeIsSingleUse
