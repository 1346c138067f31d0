SPECIFICATION Spec
CONSTANTS
    NCh = 2
    Layout = {"1x1", "2x2"}
    Single = "1x1"
    Capacity <- OneGrid
    Faults = {"xid", "login", "key", "play", "stop", "zero", "window"}
    MaxLost = 2
    UseZero = TRUE
INVARIANTS TypeOK PreviewWindowExists NoOrphanPreview LoginScreenOwnsNothing SlotsDistinct StreamsOwned
PROPERTY ProtocolSpec
