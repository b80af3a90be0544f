CONSTANTS
    Proc = {p1, p2}
    Task = {t1, t2}
    ClaimId = {c1, c2}
    None = None
    CasAttempts = 2
    MaxCrashes = 1
SPECIFICATION FairSpec
INVARIANTS
    TypeOK
    LiveClaimIsIndexed
    FencesAreUnique
    FileFollowsIndex
PROPERTIES
    ClaimEndsOnce
    ImplementsRegister
    CallsReturn
    LockIsFreed
CHECK_DEADLOCK FALSE
