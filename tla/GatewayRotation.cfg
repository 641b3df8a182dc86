SPECIFICATION Spec
CONSTANTS
    Requests = {r1, r2}
    c1 = c1
    c2 = c2
    p1 = p1
    Clients = {c1, c2}
    Proxies = {p1}
    Unit = 2
    Rate = 1
    Burst = 4
    TTL = 1
    MaxKeys = 1
    AccessTTL = 2
    Leeway = 1
    LastKey = 3
    Paths <- MCPaths
    Spoofs <- MCSpoofs
    Horizon = 3
INVARIANT RotationIsInvisible
CHECK_DEADLOCK FALSE
