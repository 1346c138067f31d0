SPECIFICATION Spec
CONSTANTS
    Host = {h1, h2}
    DefaultHost = h1
    Cert = {f1, f2}
    NoCert = NoCert
    NoFile = NoFile
    NoText = NoText
    NoNumber = NoNumber
    MaxChannels = 2
    Lists <- SomeLists
    Faults = {"input", "check", "device", "disk", "crash"}
SYMMETRY Symmetric
INVARIANTS TypeOK HttpsPinned PinsAccepted ConnectionRemembered NumbersDistinct ChannelsAsListed
