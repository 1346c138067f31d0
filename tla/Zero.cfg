SPECIFICATION Spec
CONSTANTS
    Ids <- ThreeIds
    Errors <- Known
    Sizes = {1, 4}
    Large = 5
    Small = 1
    Period = 3
    MaxPackets = 8
INVARIANTS EveryIdTried InOrder
CHECK_DEADLOCK FALSE
