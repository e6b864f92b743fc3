SPECIFICATION Spec
CONSTANTS
    a1 = a1
    a2 = a2
    a3 = a3
    i1 = i1
    i2 = i2
    Alerts <- MCAlerts
    Seeds <- MCSeeds
    SeedAlerts <- MCSeedAlerts
    Attribute <- MCAttribute
    EventId <- MCEventId
    Requests = {q1, q2, q3}
    Calls <- OverlapCalls
    Workers = 2
    OldAlerts = {a2, a3}
    Aging = {"incidents"}
    MayCrash = TRUE
    MayFail = TRUE
SYMMETRY RequestSymmetry
INVARIANTS
    TypeOK
    ClosedIncidentsAreDated
    RowsResolve
    RecordsAreTrue
    TallyNeverExceedsMarks
PROPERTIES
    NoAlertOrphaned
