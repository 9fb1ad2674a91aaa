\* Two connections, two ids, two callers; session requests only.
SPECIFICATION TransportSpec
VIEW TransportWithoutOut
CHECK_DEADLOCK FALSE
CONSTANTS
    None = None
    Timeout = 1
    MaxTime = 1
    MaxLag = 0
    Levels = {}
    MaxAttempts = 1
    RequiredDelay = 0
    LockoutDuration = 0
    Certs = {}
    CertInfo <- MCCertInfo
    MaxDraws = 0
    Clients = {c1, c2}
    MaxConns = 2
    Callers = {p1, p2}
    MaxCalls = 3
INVARIANTS
    ReturnsOwnAnswer
    ChainVerifies
    TamperEvident
PROPERTIES
    OwnerConnectionIsolation
