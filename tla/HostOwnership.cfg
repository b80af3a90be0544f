CONSTANTS
    None = None
    h1 = h1
    h2 = h2
    r1 = r1
    r2 = r2
    w1 = w1
    w2 = w2
    a = a
    b = b
    c = c
    Proc = {p1, p2}
    Host = {h1, h2}
    Repo = {r1, r2}
    Herdr <- Panes
    Serves <- Together
    Legacy <- Version1
    MaxCalls = 3
    MaxDeaths = 1
    MaxTries = 2
    MaxRevision = 3
SPECIFICATION Spec
SYMMETRY Symmetry
INVARIANTS
    TypeOK
    RegisteredIsOwned
    UnsettledIsExplained
PROPERTIES
    OthersAreKept
    ReplacedIsArchived
CHECK_DEADLOCK FALSE
