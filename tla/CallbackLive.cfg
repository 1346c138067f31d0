SPECIFICATION FairSpec
CONSTANTS
    Chan = {c1, c2}
    MaxStarts = 2
    MaxLost = 1
    QCap = 1
    FCap = 1
    Ports = 1
    Faults = {"stop"}
    SdkWaits = TRUE
PROPERTY HandlersReturn
