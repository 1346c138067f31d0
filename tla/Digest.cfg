SPECIFICATION FairSpec
CONSTANTS
    Path <- LoginPaths
    MaxNonce = 4
    NoAuth = NoAuth
    ChecksUri = TRUE
    Faults = {"network", "status", "challenge"}
PROPERTIES StaleHeaderHeals SnapshotsRecover
