CONSTANTS
    None = None
    MaxGen = 2
    MaxCommands = 1
    MaxCrashes = 1
    MaxFaults = 1
SPECIFICATION Spec
INVARIANTS
    RequestStatusIsValid
CHECK_DEADLOCK FALSE
