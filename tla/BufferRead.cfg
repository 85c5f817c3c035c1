CONSTANTS
    Readers = {r1, r2}
    Samples <- Mixed
    Starts <- AllOrAfter
    MaxCounts = {0, 2}
    MaxSamples = 3
    Nobody = Nobody
SPECIFICATION ReadSpec
INVARIANTS
    ReadTypeOK
    SentInOrder
    NothingSkipped
PROPERTIES
    ReadsEnd
