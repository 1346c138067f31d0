SPECIFICATION Spec
CONSTANTS
    Chan = {c1}
    MaxStarts = 1
    Methods = {"rtsp"}
    FCap = 1
    Ticks = 1
    Ports = 1
    Faults = {"end"}
INVARIANT EndsWhenTold
