CONSTANTS
    pm1 = pm1
    pm25 = pm25
    Items <- TwoItems
    Second = 3
    MinIntervalBetweenPublish = 2
    MaxIntervalBetweenPublish = 2
    TimeToStale = 2
    Elapsed <- EarlyAndLate
    Forever = 8
SPECIFICATION PubSpec
INVARIANTS
    PublishForced
    RecordedIsScheduled
PROPERTIES
    DeferredIsPublished
