SPECIFICATION FairSpec
CONSTANTS
    j1 = j1
    j2 = j2
    w1 = w1
    w2 = w2
    Jobs <- OneJob
    Workers <- OneWorker
    MaxAttempts = 2
    ClaimLimit = 2
    BaseDelay = 1
    MaxDelay = 1
    MaxTime = 1
    MaxKills = 1
    MaxDbErrors = 0
    MaxRequeues = 0
PROPERTY
    CrashedJobIsRetried
