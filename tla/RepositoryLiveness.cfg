SPECIFICATION FairSpec
CONSTANTS
    Caller = {c1, c2}
    RequestId = {r1, r2}
    DocumentId = {d1, d2, d3}
    Text = {t1}
    ContentType = {plain}
    Blank = Blank
    None = None
PROPERTIES
    CallsReturn
