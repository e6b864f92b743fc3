SPECIFICATION Spec
CONSTANTS
    analyst = analyst
    admin = admin
    Clients <- MCClients
    Limit <- MCLimit
    Percent <- MCPercent
    BurstCap = 3
    Window = 3
    MaxTime = 6
    MaxArrivals = 7
INVARIANTS
    TypeOK
    WindowBound
PROPERTIES
    ActsAsOneWindow
