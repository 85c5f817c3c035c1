CONSTANTS
    PoolLen = 2
    Words = 5
    Lens = {2, 3}
    MaxPackets = 3
    MaxFaults = 1
    MaxStops = 1
SPECIFICATION Spec
INVARIANTS
    TypeOK
    StreamWhole
    PoolSound
PROPERTIES
    EveryPacketLeaves
CHECK_DEADLOCK FALSE
