SPECIFICATION Spec
CONSTANTS
    LeaseSeconds = 12
    RENEWAL_MARGIN_SECONDS = 4
    PollInterval = 1
    MaxSkew = 0
    MaxLost = 6
    AnswersGetLost = FALSE
    PoolTimeout = 6
    READY_STALE_SECONDS = 6
    LIVE_STALE_SECONDS = 30
    LivenessPeriod = 2
    FailureThreshold = 3
    MaxRequests = 2
    MaxKernelOutages = 0
    MaxDatabaseOutages = 1
    KernelOutageLimit = 1
    DatabaseOutageLimit = 14
INVARIANTS
    DatabaseNeverTriggersRestart
