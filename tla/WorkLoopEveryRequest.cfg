SPECIFICATION Spec
CONSTANTS
    Worker = {w1, w2}
    RouteCount = 2
    Request <- EveryRequest
    RequestId = {r1, r2, r3, r4, r5, r6}
    DocumentId = {d1, d2}
    Text = {t1, TextPlain}
    Blank = Blank
    None = None
    TextPlain = TextPlain
    NotUuid = NotUuid
    r1 = r1
    r2 = r2
    r3 = r3
    r4 = r4
    r5 = r5
    r6 = r6
    t1 = t1
    d1 = d1
    MaxFaults = 2
    MaxClaims = 3
SYMMETRY Symmetry
INVARIANTS
    TypeOK
    CompletedOnlyAfterSuccess
    DocumentsWereRequested
    ReportsAreTrue
PROPERTIES
    NoMutationAfterCompletion
    ImplementsDelivery
