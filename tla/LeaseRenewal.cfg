SPECIFICATION RunSpec
CONSTANTS
    LeaseSeconds = 60
    RENEWAL_MARGIN_SECONDS = 20
    PollInterval = 5
    MaxPass = 1
    MaxSkew = 1
    MaxLost = 2
    AnswersGetLost = TRUE
    RouteCount = 2
    CLAIM_LEASE_SECONDS = 19
    MaxHiccups = 1
INVARIANTS
    TypeOK
    LeaseKeptInStep
    OlderRoutesTakeOneTurn
    HeartbeatKeepsBeating
    
PROPERTIES
    RenewsLateInTheLease
