CONSTANTS
    None = None
    Starter = {s1}
    Takeover = s0
    Release = {1, 2}
    Slot = {p1, p2}
    MaxStarts = 0
    MaxStops = 0
    MaxUpgrades = 1
    MaxCrashes = 0
    MaxFaults = 0
SPECIFICATION Spec
INVARIANT NoRunnerDuringMigration
CHECK_DEADLOCK FALSE
