CONSTANTS
    e1 = e1
    w1 = w1
    w2 = w2
    w3 = w3
    None = None
    Event = {e1}
    Worker = {w1, w2, w3}
    MaxGen = 2
    MaxCrashes = 1
    MaxExpiries = 1
    MaxRebinds = 1
    MaxFaults = 2
    DiesInCas = TRUE
SYMMETRY Workers
SPECIFICATION Spec
INVARIANTS TypeOK SentIsNeverReopened ReceiptIsOfTheMessage
PROPERTIES TakeoverHasNewerToken ImplementsWakeOnce
CHECK_DEADLOCK FALSE
