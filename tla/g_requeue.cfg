SPECIFICATION Spec
CONSTANTS
    j1 = j1
    j2 = j2
    t1 = t1
    t2 = t2
    h1 = h1
    h2 = h2
    Jobs <- OneJob
    Tasks <- TwoTasks
    Handlers <- TwoHandlers
    MaxAttempts = 2
    BatchSize = 2
    MaxConcurrent = 2
    RetryBase = 1
    RetryMax = 1
    DeliveryTimeout = 1
    Visibility = 1
    MaxTime = 3
    MaxCrashes = 0
    MaxDbErrors = 0
    MaxRequeues = 1
PROPERTY
    OnlyDeadLettersAreRequeued
