CONSTANTS
    tooLarge = tooLarge
    None = None
    Nan = Nan
    Periods <- ShortAndLong
    BadPeriods <- ZeroAndTooLarge
    MaxMessages = 3
SPECIFICATION Spec
INVARIANTS
    TimerFollows
    Follows
PROPERTIES
    Delivers
