SPECIFICATION FairSpec
CONSTANTS
    Chan = {c1, c2}
    MaxStarts = 3
    Methods = {"snapshot", "rtsp", "playctrl"}
    FCap = 1
    Ticks = 1
    Ports = 1
    Faults = {"library", "connect", "text", "end", "decode"}
INVARIANTS WorkersOwned LoginScreenIdle
PROPERTIES LiveViewSpec HandlersReturn RetriesHappen
