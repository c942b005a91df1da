SPECIFICATION Spec
CONSTANTS
    p1 = p1
    p2 = p2
    h1 = h1
    h2 = h2
    Payloads <- OnePayload
    Handlers <- OneHandler
    MaxAttempts = 2
    FetchLimit = 2
    RetryBase = 1
    RetryMax = 1
    MaxJobs = 2
    MaxTime = 2
    MaxCrashes = 1
    MaxDbErrors = 0
INVARIANT
    DeadLetterLeftTheQueue
