SPECIFICATION FairSpec
CONSTANTS
    a1 = a1
    a2 = a2
    a3 = a3
    i1 = i1
    i2 = i2
    Alerts <- MCAlerts
    Seeds <- MCSeeds
    SeedAlerts <- MCSeedAlerts
    Attribute <- MCAttribute
    EventId <- MCEventId
    Requests = {q1, q2}
    Calls <- OverlapCalls
    Workers = 2
    OldAlerts = {}
    Aging = {"incidents"}
    MayCrash = FALSE
    MayFail = FALSE
PROPERTIES
    CommittedIsAudited
