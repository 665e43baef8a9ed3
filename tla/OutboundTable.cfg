SPECIFICATION FairSpec
CONSTANTS
    q1 = q1  w1 = w1  w2 = w2  NoWorker = NoWorker
    QueueIds <- MCOneId
    Workers <- MCWorkers
    BodyOf <- MCSharedBody
    MaxAttempts = 2
    Ttl = 2
    AckTimeout = 1
    ClaimDuration = 1
    BatchSize = 1
    Backoffs <- MCDelays
    AckRetryDelay = 1
    MaxTime = 4
    LastEnqueue = 1
    MaxReplays = 1
INVARIANTS RowChecks DeliveredWasReceived AttemptBudget
PROPERTIES KeepsPromise EventuallySettled
