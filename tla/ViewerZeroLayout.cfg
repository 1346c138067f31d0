SPECIFICATION Spec
CONSTANTS
    NCh = 2
    Layout = {"1x1", "2x2"}
    Single = "1x1"
    Capacity <- OneGrid
    Faults = {}
    MaxLost = 0
    UseZero = TRUE
INVARIANT SlotsFitLayout
