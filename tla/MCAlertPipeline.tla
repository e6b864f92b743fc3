-------------------------- MODULE MCAlertPipeline --------------------------
(* Payloads with texts of one and of two pieces.                            *)
EXTENDS AlertPipeline, TLC

Rule(id, groups, words) == [id |-> id, groups |-> groups, words |-> words]
Ssh == Rule("5710", {"ssh"}, {"brute"})
Virus == Rule("5710", {}, {"virus"})
Text(rule, agent, data, predecoder, wall, zone) ==
    [rule |-> rule, agent |-> agent, data |-> data, predecoder |-> predecoder,
     wall |-> wall, zone |-> zone]
Absent == [name \in {} |-> None]
Agent(host) == [name |-> host]

\* The first and the third have one fingerprint although their types differ and their
\* addresses come from different fields.  The third names no zone; the second may be
\* anything that can be sent, and as an alert has a host with a separator.
MCRaw == <<Text(Ssh, Agent("web"), [srcip |-> "10.1", user |-> "root"], Absent, 7, "utc"),
           Text(Ssh, Absent, [hostname |-> "web|a", srcip |-> "10.1"], [user |-> "root"], 9, None),
           Text(Virus, Agent("web"), [srcip |-> "gateway", src_ip |-> "10.1", username |-> "root"],
                Absent, 9, None)>>
MCShape == <<{"alert"}, Shapes, {"alert"}>>

MCPieces ==
    [v \in {None, "5710", "10.1", "web", "web|a", "root"} |->
        CASE v = None -> <<"">>
          [] v = "web|a" -> <<"web", "a">>
          [] OTHER -> <<v>>]
MCFinger == [i \in Payloads |-> N!Fingerprint(Normalised[i])]
MCFingerprints == {MCFinger[i] : i \in Payloads}
\* Alerts are as similar as their numbers are close, so that chains occur.
MCSimilarity == [i \in Payloads |-> [j \in Payloads |-> IF i > j THEN 10 - (i - j) ELSE 10 - (j - i)]]
MCRaises(before, batch) == ~C!Correlates(before, batch)
Symmetry == Permutations(Calls)
=============================================================================
