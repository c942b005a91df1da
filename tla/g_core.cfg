SPECIFICATION FairSpec
CONSTANTS
    j1 = j1
    j2 = j2
    t1 = t1
    t2 = t2
    h1 = h1
    h2 = h2
    Jobs <- OneJob
    Tasks <- TwoTasks
    Handlers <- OneHandler
    MaxAttempts = 2
    BatchSize = 2
    MaxConcurrent = 2
    RetryBase = 1
    RetryMax = 1
    DeliveryTimeout = 1
    Visibility = 1
    MaxTime = 4
    MaxCrashes = 2
    MaxDbErrors = 1
    MaxRequeues = 2
INVARIANTS
    TypeOK
    LeaseOutlivesTask
    DeadAfterMaxAttempts
PROPERTIES
    ImplementsAtLeastOnce
    AcceptedIsSettled
