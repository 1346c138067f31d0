SPECIFICATION FairSpec
CONSTANTS
    NCh = 3
    Layout = {"1x1", "2x2", "3x3"}
    Single = "1x1"
    Capacity <- TwoGrids
    Faults = {"play", "window"}
    MaxLost = 0
    UseZero = FALSE
INVARIANTS CameraInItsSlot SlotsFitLayout NoStuckStream SlotsStream
PROPERTIES  PendingStarts
