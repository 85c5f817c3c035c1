CONSTANTS
    Words = 6
    Lens = {0, 3}
    MaxMessages = 3
    MaxFaults = 1
SPECIFICATION Spec
INVARIANTS
    RingSound
    InterruptInHand
PROPERTIES
    InOrder
    EveryMessageArrives
CHECK_DEADLOCK FALSE
