\* Two pages, calls that time out: what must happen in the end.
SPECIFICATION BridgeSpec
VIEW BridgeWithoutOut
CHECK_DEADLOCK FALSE
CONSTANTS
    None = None
    Timeout = 1
    MaxTime = 0
    MaxLag = 0
    Levels = {"CALIBRATION"}
    MaxAttempts = 1
    RequiredDelay = 0
    LockoutDuration = 1
    Certs = {}
    CertInfo <- BridgeCertInfo
    MaxDraws = 4
    Clients = {c1}
    MaxPages = 2
    KeptPages <- OldPages
    Commands <- PageCommands
    MaxCmds = 2
    MayTimeOut = TRUE
PROPERTIES
    CommandsFinish
    BadgesConverge
