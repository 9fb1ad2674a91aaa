\* One page, every command, calls that time out; five reach the end of a nonce replay.
SPECIFICATION BridgeSpec
VIEW BridgeWithoutOut
CHECK_DEADLOCK FALSE
CONSTANTS
    None = None
    Timeout = 2
    MaxTime = 2
    MaxLag = 0
    Levels = {"CALIBRATION"}
    MaxAttempts = 2
    RequiredDelay = 0
    LockoutDuration = 1
    Certs = {"tester", "expired"}
    CertInfo <- BridgeCertInfo
    MaxDraws = 10
    Clients = {c1}
    MaxPages = 1
    KeptPages <- OldPages
    Commands <- AllCommands
    MaxCmds = 5
    MayTimeOut = TRUE
INVARIANTS
    NewestEntryShown
