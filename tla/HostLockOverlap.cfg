CONSTANTS
    Proc = {1, 2, 3}
    Dead = {d}
    None = None
    Attempts = 2
    MaxCrashes = 0
SPECIFICATION Spec
INVARIANTS
    MutualExclusion
CHECK_DEADLOCK FALSE
