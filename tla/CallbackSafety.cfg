SPECIFICATION Spec
CONSTANTS
    Chan = {c1, c2}
    MaxStarts = 3
    MaxLost = 1
    QCap = 1
    FCap = 1
    Ports = 1
    Faults = {"login", "play", "stop", "open"}
    SdkWaits = FALSE
SYMMETRY Symmetric
INVARIANTS TypeOK OpenedWithHeader EntriesMatch PreviewsOwned
PROPERTY LiveViewSpec
