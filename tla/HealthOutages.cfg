SPECIFICATION FairSpec
CONSTANTS
    LeaseSeconds = 6
    RENEWAL_MARGIN_SECONDS = 2
    PollInterval = 1
    MaxSkew = 0
    MaxLost = 3
    AnswersGetLost = TRUE
    PoolTimeout = 3
    READY_STALE_SECONDS = 3
    LIVE_STALE_SECONDS = 10
    LivenessPeriod = 2
    FailureThreshold = 2
    MaxRequests = 1
    MaxKernelOutages = 1
    MaxDatabaseOutages = 1
    KernelOutageLimit = 7
    DatabaseOutageLimit = 4
INVARIANTS
    TypeOK
    ReadyMeansRecentPass
    StuckLoopIsReplaced
PROPERTIES
    LockoutEndsAfterFirstPass
