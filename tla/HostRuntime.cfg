CONSTANTS
    None = None
    Starter = {s1}
    Takeover = s0
    Release = {1, 2}
    Slot = {p1, p2}
    MaxStarts = 1
    MaxStops = 1
    MaxUpgrades = 1
    MaxCrashes = 1
    MaxFaults = 1
SPECIFICATION FairSpec
INVARIANTS
    TypeOK
    ServiceIsRecorded
    MigrationIsAlone
    CurrentServes
PROPERTIES
    NeverDowngraded
    
CHECK_DEADLOCK FALSE
