SPECIFICATION BridgeSpecH
CHECK_DEADLOCK FALSE
CONSTANTS
    None = None
    Timeout = 2
    MaxTime = 2
    MaxLag = 0
    Levels = {"CALIBRATION"}
    MaxAttempts = 2
    RequiredDelay = 0
    LockoutDuration = 1
    Certs = {"tester", "expired"}
    CertInfo <- BridgeCertInfo
    MaxDraws = 2
    Clients = {c1}
    MaxPages = 1
    KeptPages = {}
    Commands <- AllCommands
    MaxCmds = 1
    MayTimeOut = FALSE
INVARIANT
    IdleSessionEnds
