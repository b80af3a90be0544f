CONSTANTS
    Proc = {1, 2, 3}
    Dead = {d}
    None = None
    Attempts = 2
    MaxCrashes = 1
SPECIFICATION Spec
INVARIANTS
    TypeOK
    LossIsReported
    StaleLockGoes
CHECK_DEADLOCK FALSE
