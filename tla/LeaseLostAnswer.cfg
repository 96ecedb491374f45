SPECIFICATION Spec
CONSTANTS
    LeaseSeconds = 60
    RENEWAL_MARGIN_SECONDS = 20
    PollInterval = 5
    MaxPass = 0
    MaxSkew = 0
    MaxLost = 1
    AnswersGetLost = TRUE
INVARIANTS
    LeaseNeverLapses
