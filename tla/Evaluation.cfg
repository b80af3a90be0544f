CONSTANTS
    None = None
    Proc = {p1, p2}
    Accepting = {p1}
    Requirements = {"UNSTARTED"}
    FailsAt = {"running", "await", "ready", "readPause", "update", "settle", "wake"}
    MaxCommands = 1
    MaxDeaths = 1
SPECIFICATION FairSpec
INVARIANTS
    TypeOK
    OneDecision
    EffectsFollowDecision
    PauseFollowsEvaluation
PROPERTIES
    Converges
\* A delivered wake that nobody consumes stops the evaluations.
CHECK_DEADLOCK FALSE
