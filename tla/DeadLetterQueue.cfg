SPECIFICATION MCSpec
CONSTANTS
    Stored = {r1, r2}
    Requests = {q1, q2, q3}
    NoRecord = NoRecord
    Workers = 2
    MayCrash = TRUE
SYMMETRY Symmetry
INVARIANTS
    TypeOK
    RetryCountBounds
    SettledIsNotPending
    RetryCountExact
PROPERTIES
    SuccessRefreshesGauge
