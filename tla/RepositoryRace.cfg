SPECIFICATION Spec
CONSTANTS
    Caller = {c1, c2}
    RequestId = {r1, r2, r3}
    DocumentId = {d1, d2, d3}
    Text = {t1, t2}
    ContentType = {plain}
    Blank = Blank
    None = None
SYMMETRY Symmetry
INVARIANTS
    TypeOK
    VersionHistory
    AppendsNeverCollide
    OneOperationPerVersion
    OutcomeIsRecorded
PROPERTIES
    MutationClaimedOnce
    ImplementsPromise
    
    PutIsReadable
