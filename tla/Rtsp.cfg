SPECIFICATION FairSpec
CONSTANTS
    Announced = "video"
    MaxNonce = 2
    MaxFrames = 3
    Faults <- AllFaults
    NoNonce = NoNonce
INVARIANTS AnswersMatch StreamAligned
PROPERTIES StaleNonceHeals StopEnds
CHECK_DEADLOCK FALSE
