SPECIFICATION SpecH
CONSTANTS
    None = None
    Timeout = 2
    MaxTime = 3
    MaxLag = 1
    Levels = {}
    MaxAttempts = 2
    RequiredDelay = 1
    LockoutDuration = 2
    Certs = {"tester"}
    CertInfo <- MCCertInfo
    MaxDraws = 1
    Clients = {c1}
PROPERTY
    FullAccessIsMutual
