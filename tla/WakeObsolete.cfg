CONSTANTS
    e1 = e1
    w1 = w1
    w2 = w2
    None = None
    Event = {e1}
    Worker = {w1, w2}
    MaxGen = 2
    MaxCrashes = 0
    MaxExpiries = 0
    MaxRebinds = 0
    MaxFaults = 0
    DiesInCas = FALSE
SYMMETRY Workers
SPECIFICATION Spec
INVARIANTS ObsoleteDoesNotBlock
CHECK_DEADLOCK FALSE
