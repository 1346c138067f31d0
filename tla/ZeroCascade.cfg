SPECIFICATION Spec
CONSTANTS
    Urls <- TwoUrls
    Probed <- SomeProbes
    Devices <- Recorders
    Handle = {g1, g2}
    NoHandle = NoHandle
    Faults = {"config", "stop"}
SYMMETRY Symmetric
INVARIANT NothingSkipped
PROPERTY ProtocolSpec
