\* 0x27 alone: both levels, one connection; a second lockout can begin at MaxTime.
SPECIFICATION Spec
VIEW WithoutOut
CONSTANTS
    None = None
    Timeout = 2
    MaxTime = 7
    MaxLag = 1
    Levels = {"CALIBRATION", "ECU_PROGRAMMING"}
    MaxAttempts = 2
    RequiredDelay = 2
    LockoutDuration = 3
    Certs = {}
    CertInfo <- MCCertInfo
    MaxDraws = 0
    Clients = {c1}
INVARIANTS
    LockoutIffMaxed
    NoSeedWhileBlocked
PROPERTIES
    LockoutServed
    FailuresSpaced
    LimitsAttempts
