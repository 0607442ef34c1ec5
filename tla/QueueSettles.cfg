SPECIFICATION FairSpec
CONSTANTS
    Count = 2
    MaxBatchSize = 2
    BatchTimeout = 1
    MaxRetries = 1
    RetryDelay = 0
    Delays <- NoDelay
    HasDeadLetters = TRUE
    Retentions = {Never}
    Never = Never
    LeaseTime = 2
    DeliveryTimeout = 1
    OthersMax = 0
    WakeMax = 0
    SleepAfter = 1
    Faults = {"crash"}
PROPERTY MessagesSettle
