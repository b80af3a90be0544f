CONSTANTS
    e1 = e1
    w1 = w1
    w2 = w2
    w3 = w3
    None = None
    Event = {e1}
    Worker = {w1, w2, w3}
    MaxGen = 1
    MaxCrashes = 2
    MaxExpiries = 1
    MaxRebinds = 0
    MaxFaults = 1
    DiesInCas = FALSE
SPECIFICATION FairSpec
ACTION_CONSTRAINT InTurn
PROPERTIES QueuedIsDecided DeliveredIsConsumed
CHECK_DEADLOCK FALSE
