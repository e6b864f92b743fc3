SPECIFICATION Spec
CONSTANTS
    ip1 = ip1
    t1 = t1
    t2 = t2
    Tasks = {t1, t2}
    IPs = {ip1}
    NoIP = NoIP
    Configured = {"abuseipdb", "virustotal", "geoip"}
    TTL = 2
    MaxTime = 2
    Incidents <- MCIncidents
    Baselines <- MCBaselines
SYMMETRY Symmetry
INVARIANTS
    AnyFeedCounts
    RaceCostsNoVerdict
    MoreEvidenceScoresMore
