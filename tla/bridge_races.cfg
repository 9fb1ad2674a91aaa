\* Two pages that log in and out at the same time.
SPECIFICATION BridgeSpec
VIEW BridgeWithoutOut
CHECK_DEADLOCK FALSE
CONSTANTS
    None = None
    Timeout = 1
    MaxTime = 1
    MaxLag = 0
    Levels = {}
    MaxAttempts = 1
    RequiredDelay = 0
    LockoutDuration = 1
    Certs = {"tester"}
    CertInfo <- BridgeCertInfo
    MaxDraws = 6
    Clients = {c1}
    MaxPages = 2
    KeptPages = {}
    Commands <- RaceCommands
    MaxCmds = 3
    MayTimeOut = FALSE
INVARIANTS
    NewestEntryShown
PROPERTIES
    OwnProof
