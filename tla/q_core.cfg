SPECIFICATION Spec
CONSTANTS
    d1 = d1
    d2 = d2
    w1 = w1
    w2 = w2
    Ids <- OneId
    Workers <- TwoWorkers
    MaxAttempts = 2
    BatchLimit = 2
    BaseRetryDelay = 1
    MaxRetryDelay = 1
    RequestTimeout = 1
    StaleInFlight = 2
    DestinationsMayChange = FALSE
    MaxTime = 4
    MaxCrashes = 1
    MaxDbErrors = 1
    MaxReplays = 1
SYMMETRY Symmetry
INVARIANTS
    TypeOK
    Custody
    SendBound
    OneEntryPerDeath
    DrainLeavesNothingInFlight
PROPERTY
    ImplementsAtLeastOnce
