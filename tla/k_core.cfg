SPECIFICATION FairSpec
CONSTANTS
    j1 = j1
    j2 = j2
    w1 = w1
    w2 = w2
    Jobs <- TwoJobs
    Workers <- TwoWorkers
    MaxAttempts = 2
    ClaimLimit = 2
    BaseDelay = 1
    MaxDelay = 1
    MaxTime = 1
    MaxKills = 1
    MaxDbErrors = 1
    MaxRequeues = 1
INVARIANTS
    TypeOK
    ClaimIsExclusive
    AttemptsCountSends
    DeadAfterMaxAttempts
PROPERTIES
    ImplementsAtLeastOnce
    AcceptedIsSettled
