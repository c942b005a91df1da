SPECIFICATION FairSpec
CONSTANTS
    c1 = c1
    c2 = c2
    c3 = c3
    c4 = c4
    k1 = k1
    t1 = t1
    NoKey = NoKey
    NoToken = NoToken
    Clients = {c1, c2, c3, c4}
    Keys = {k1}
    Tokens = {t1}
    ApiKeys = {t1}
    Request <- Requests
    Buckets <- TwoBuckets
    Ids <- ThreeIds
    Answers <- ThreeAnswers
    HmacConfigured = TRUE
    AllowPrivate = FALSE
    Limit = 2
    Window = 2
    MaxDelay = 1
    MaxFaults = 1
INVARIANTS
    TypeOK
    AnswersNameTheRow
    SubmittedNeverOvercounts
    WindowBound
    VerdictIsNearlyExact
PROPERTIES
    ImplementsSubmitOnce
    EveryClientIsAnswered
