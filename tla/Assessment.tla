----------------------------- MODULE Assessment ----------------------------
(***************************************************************************)
(* The assessment of an incident: enrich_incident(), map_incident() and    *)
(* score_incident(), one after the other, for incidents on different       *)
(* threads that share the cache of the enrichment engine.                  *)
(***************************************************************************)
EXTENDS Enrichment, Scoring

CONSTANTS
    Incidents,  \* what is known of incidents: [evidence, sourceIps, eventTypes]
    Baselines   \* what get_historical_baseline may return

ASSUME AssessmentAssumption ==
    /\ Incidents \subseteq [evidence : Evidence, sourceIps : SUBSET IPs, eventTypes : SUBSET STRING]
    /\ Baselines \subseteq Baseline

VARIABLES
    incident,  \* the incident of each task
    result     \* what scoring made of it

vars == <<now, cache, task, intel, incident, result>>

NoIncident == [evidence |-> "none"]
NoResult == [score |-> 0, severity |-> 0, threat |-> FALSE]

Init ==
    /\ EnrichmentInit
    /\ incident = [t \in Tasks |-> NoIncident]
    /\ result = [t \in Tasks |-> NoResult]

Begin(t, i) ==
    /\ Enrich(t, i.sourceIps)
    /\ incident' = [incident EXCEPT ![t] = i]
    /\ UNCHANGED result

Enriching(t) == EnrichStep(t) /\ UNCHANGED <<incident, result>>

\* An incident without event types, whose alerts have none either, keeps its technique.
ScoreIncident(t, b) ==
    LET i == incident[t]
        score == Score(i.evidence, ThreatHit(t), b)
    IN  /\ Enriched(t)
        /\ task' = [task EXCEPT ![t].pc = "done"]
        /\ \E technique \in IF i.eventTypes = {} THEN {"none"} ELSE PrimaryTechniques(i.eventTypes) :
               result' = [result EXCEPT ![t] =
                   [score |-> Rounded(score), severity |-> Severity(score), threat |-> ThreatHit(t),
                    baseline |-> b, technique |-> technique]]
        /\ UNCHANGED <<now, cache, intel, incident>>

Passing == Tick /\ UNCHANGED <<incident, result>>

Finished == (\A t \in Tasks : task[t].pc = "done") /\ UNCHANGED vars

Next ==
    \/ \E t \in Tasks : \/ \E i \in Incidents : Begin(t, i)
                        \/ Enriching(t)
                        \/ \E b \in Baselines : ScoreIncident(t, b)
    \/ Passing \/ Finished

Spec == Init /\ [][Next]_vars

-----------------------------------------------------------------------------
(* Properties *)

Done == {t \in Tasks : task[t].pc = "done"}

\* An incident is scored as a threat exactly when AbuseIPDB or VirusTotal called one of
\* its addresses malicious, although in the merge one feed hides the other, the flag
\* follows only one of them, and answers come from the cache or not at all.
AnyFeedCounts ==
    \A t \in Done :
        result[t].threat <=> \E ip \in IPs, f \in Keyed : intel[t][ip][f] = "malicious"

\* Two tasks that evict the same entry cost the feeds behind a key no answer: the one
\* that finds it gone starts again.  (GeoIP and ASN do lose theirs.)
RaceCostsNoVerdict ==
    \A t \in Tasks, ip \in IPs, f \in Keyed : intel[t][ip][f] # "missing key"

\* Whatever order tasks run in and whatever the feeds and the cache give them, an
\* incident with at least the evidence of another, and a threat if that is one, does
\* not score less against the same baseline, nor gets a lower severity.
MoreEvidenceScoresMore ==
    \A t, u \in Done :
        /\ AtLeast(incident[t].evidence, incident[u].evidence)
        /\ result[u].threat => result[t].threat
        /\ result[t].baseline = result[u].baseline
        => /\ result[t].score >= result[u].score
           /\ result[t].severity >= result[u].severity
=============================================================================
