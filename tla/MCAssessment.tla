---------------------------- MODULE MCAssessment ---------------------------
(***************************************************************************)
(* Incidents that lie below, about and above the deviations of a baseline, *)
(* of which each pair is comparable only in part.                          *)
(***************************************************************************)
EXTENDS Assessment, TLC

CONSTANTS ip1, t1, t2

Facts(level, n, hosts, critical) ==
    [level |-> level, alerts |-> n, hosts |-> hosts, critical |-> critical, privileged |-> FALSE]
Of(evidence, ips, eventTypes) ==
    [evidence |-> evidence, sourceIps |-> ips, eventTypes |-> eventTypes]

MCIncidents ==
    {Of(Facts(5, 1, 1, FALSE), {}, {}), Of(Facts(12, 9, 2, TRUE), {ip1}, {"brute_force", "unknown"}),
     Of(Facts(15, 12, 4, TRUE), {ip1}, {"malware"})}

MCBaselines == {[incidents |-> 12, mean |-> 12000, deviation |-> 3000]}

Symmetry == Permutations(Tasks)
=============================================================================
