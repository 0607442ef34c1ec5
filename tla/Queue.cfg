SPECIFICATION Spec
CONSTANTS
    Count = 2
    MaxBatchSize = 2
    BatchTimeout = 1
    MaxRetries = 1
    RetryDelay = 0
    Delays <- ShortDelays
    HasDeadLetters = TRUE
    Retentions = {2, Never}
    Never = Never
    LeaseTime = 2
    DeliveryTimeout = 1
    OthersMax = 1
    WakeMax = 1
    SleepAfter = 1
    Faults = {"crash", "dead letters"}
INVARIANT TypeOK
INVARIANT DeliveriesAreBounded
PROPERTY PromiseKept
PROPERTY TimesAreKept
