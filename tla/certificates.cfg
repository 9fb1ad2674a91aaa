\* 0x29 alone: one connection, every kind of certificate, replayed challenges.
SPECIFICATION Spec
VIEW WithoutOut
CONSTANTS
    None = None
    Timeout = 2
    MaxTime = 3
    MaxLag = 1
    Levels = {}
    MaxAttempts = 2
    RequiredDelay = 1
    LockoutDuration = 2
    Certs = {"tester", "expired", "future", "forged", "rsa"}
    CertInfo <- MCCertInfo
    MaxDraws = 2
    Clients = {c1}
PROPERTIES
    TrustedCertsOnly
    NonceSingleUse
