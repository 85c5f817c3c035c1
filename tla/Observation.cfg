CONSTANTS
    trigger = trigger
    boolean = boolean
    numeric = numeric
    Trigger = trigger
    None = None
    Types <- TwoTypes
    Stamps <- TwoStamps
    MaxCount = 2
    Periods <- TwoPeriods
    LongAgo = 3
SPECIFICATION Spec
INVARIANTS
    BufferSound
    PendingHasTimer
    FileCoversBuffer
PROPERTIES
    BackedUp
