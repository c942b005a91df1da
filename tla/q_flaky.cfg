SPECIFICATION FairSpec
CONSTANTS
    d1 = d1
    d2 = d2
    w1 = w1
    w2 = w2
    Ids <- OneId
    Workers <- TwoWorkers
    MaxAttempts = 2
    BatchLimit = 2
    BaseRetryDelay = 1
    MaxRetryDelay = 1
    RequestTimeout = 1
    StaleInFlight = 2
    DestinationsMayChange = TRUE
    MaxTime = 2
    MaxCrashes = 0
    MaxDbErrors = 0
    MaxReplays = 1
INVARIANTS
    DeliveredWasAcknowledged
    DeadLetterIsListed
PROPERTY
    AcceptedIsSettled
