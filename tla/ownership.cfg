\* Two connections, one 0x27 level and one certificate.
SPECIFICATION Spec
VIEW WithoutOut
CONSTANTS
    None = None
    Timeout = 2
    MaxTime = 4
    MaxLag = 1
    Levels = {"CALIBRATION"}
    MaxAttempts = 2
    RequiredDelay = 1
    LockoutDuration = 2
    Certs = {"tester"}
    CertInfo <- MCCertInfo
    MaxDraws = 1
    Clients = {c1, c2}
INVARIANTS
    TypeOK
    ExclusiveMechanism
    OwnedWhileElevated
PROPERTIES
    OwnerIsolation
    LeasesSession
