SPECIFICATION FairSpec
\* Once every process runs and the faults are used up, startup is over.
CHECK_DEADLOCK FALSE
CONSTANTS
    Pod = {p1, p2}
    ActionCount = 3
    MaxFaults = 2
INVARIANTS
    TypeOK
    StartedIsReady
    DuplicatesAreBounded
PROPERTIES
    EveryPodStarts
