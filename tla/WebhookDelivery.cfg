SPECIFICATION Spec
CONSTANTS
    w1 = w1
    w2 = w2
    Hooks = {w1, w2}
    Events = {"created", "critical"}
    Wanted <- MCWanted
    Malformed = {w2}
    Dispatches = {d1, d2}
    MaxAttempts = 3
    NoHook = NoHook
    MayCrash = TRUE
INVARIANTS
    TypeOK
    LogBoundsReceipts
    CountIsTrue
PROPERTIES
    EveryDispatchEnds
    Implements
