CONSTANTS
    Samples <- PushedSamples
    LowLimits <- OneLow
    HighLimits <- OneHigh
    Changes <- OneChange
    Periods <- OnePeriod
    Transforms <- ThreeTransforms
    Counts <- NoneOrTwo
    Overrides <- OneOverride
    Defaults <- OneDefault
    One = 2
    W = 3
    Forever = 2
    Nan = Nan
    Off = Off
SPECIFICATION Spec
CONSTRAINT
    Bounded
INVARIANTS
    Throttled
    ExtremeIsSample
    MeanBetween
PROPERTIES
    Tracks
