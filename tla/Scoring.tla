------------------------------ MODULE Scoring ------------------------------
(***************************************************************************)
(* RiskScoringEngine (src/scoring/engine.py) as pure functions, and the    *)
(* MITRE tables that go with them (src/scoring/mitre.py).                  *)
(*                                                                         *)
(* Scores are exact numbers of 300ths of a point, in which every           *)
(* weight, every fraction the code takes of it, and the hundredths of a    *)
(* baseline are whole: 30000 is 100 points, 3 is the hundredth, and 30 the *)
(* tenth of a point that round(score, 1) keeps.                            *)
(***************************************************************************)
EXTENDS Naturals, Integers, Sequences

Point == 300
Full == 100 * Point

Least(a, b) == IF a <= b THEN a ELSE b
Weight(holds, points) == IF holds THEN points * Point ELSE 0

\* What the score is computed from, apart from threat intelligence: the highest rule
\* level, alert_count, the number of affected hosts, and whether the name of one of them
\* is critical and one of the users privileged.
Evidence == [level : Nat, alerts : Nat, hosts : Nat,
             critical : BOOLEAN, privileged : BOOLEAN]

\* (variant whose repeat factor wraps round)
RawWraps(e, threat) ==
    Least(Full, 500 * Least(e.level, 15) + 450 * (e.alerts % 10) + 1000 * Least(e.hosts, 3)
                + Weight(e.critical, 20) + Weight(threat, 20) + Weight(e.privileged, 10))
\* 25 points over 15 levels, 15 over 10 alerts and 10 over 3 hosts.
Raw(e, threat) ==
    Least(Full, 500 * Least(e.level, 15) + 450 * Least(e.alerts, 10) + 1000 * Least(e.hosts, 3)
                + Weight(e.critical, 20) + Weight(threat, 20) + Weight(e.privileged, 10))

\* get_historical_baseline: the incidents of the last 30 days.  (In the code mean and
\* deviation are rounded to hundredths, multiples of 3.)
Baseline == [incidents : Nat, mean : Nat, deviation : Nat]

Rounded(s) == 30 * ((s + 15) \div 30)

\* More than two deviations above the mean: raised by a tenth of the excess in
\* deviations, by three tenths at most.
Raised(s, b) ==
    LET excess == Least(s - b.mean - 2 * b.deviation, 3 * b.deviation)
    IN  Least(Full, (s * (10 * b.deviation + excess)) \div (10 * b.deviation))

Lowered(s) == (9 * s) \div 10

\* normalize_score: the z score is compared with 2 and with -1.5.
Normalized(s, b) ==
    IF b.incidents < 10 \/ b.deviation < Point THEN s
    ELSE Rounded(IF s > b.mean + 2 * b.deviation THEN Raised(s, b)
                 ELSE IF 2 * s + 3 * b.deviation < 2 * b.mean THEN Lowered(s) ELSE s)

Score(e, threat, b) == Normalized(Raw(e, threat), b)

\* _score_to_severity: low, medium, high and critical are 0 to 3.
Severity(s) ==
    CASE s >= 81 * Point -> 3 [] s >= 61 * Point /\ s < 81 * Point -> 2
      [] s >= 31 * Point /\ s < 61 * Point -> 1 [] s < 31 * Point -> 0

\* One body of evidence is at least the other.
AtLeast(e, f) ==
    /\ e.level >= f.level /\ e.alerts >= f.alerts /\ e.hosts >= f.hosts
    /\ f.critical => e.critical
    /\ f.privileged => e.privileged

-----------------------------------------------------------------------------
(* MitreMapper *)

\* MITRE_MAPPING; a technique has one name and one tactic.
Technique ==
    [authentication |-> "T1078", brute_force |-> "T1110", malware |-> "T1204",
     privilege_escalation |-> "T1068", lateral_movement |-> "T1021",
     persistence |-> "T1098", exfiltration |-> "T1041", discovery |-> "T1087",
     collection |-> "T1005", command_and_control |-> "T1071"]

MapEventType(et) == IF et \in DOMAIN Technique THEN Technique[et] ELSE "T1078"

\* map_incident: the technique of the first event type is the incident's own.  The types
\* come out of a set: any of them may be first.
PrimaryTechniques(eventTypes) == {MapEventType(et) : et \in eventTypes}
=============================================================================
