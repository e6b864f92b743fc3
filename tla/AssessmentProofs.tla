-------------------------- MODULE AssessmentProofs -------------------------
(***************************************************************************)
(* For any number of tasks, addresses and incidents, any evidence and any  *)
(* baseline: every feed that calls an address malicious counts, the race   *)
(* of two evictions costs the feeds behind a key no answer, and more       *)
(* evidence never scores less.                                             *)
(***************************************************************************)
EXTENDS Assessment, TLAPS

-----------------------------------------------------------------------------
(* Arithmetic *)

LEMMA DivMono ==
    ASSUME NEW a \in Nat, NEW b \in Nat, NEW n \in Nat \ {0}, a <= b
    PROVE  a \div n <= b \div n
  OBVIOUS

LEMMA DivType ==
    ASSUME NEW a \in Nat, NEW n \in Nat \ {0}
    PROVE  a \div n \in Nat
  OBVIOUS

LEMMA DivTimes ==
    ASSUME NEW a \in Nat, NEW n \in Nat \ {0}
    PROVE  (a * n) \div n = a
  OBVIOUS

LEMMA TimesMono ==
    ASSUME NEW a \in Nat, NEW b \in Nat, NEW c \in Nat, NEW d \in Nat, a <= b, c <= d
    PROVE  a * c \in Nat /\ b * d \in Nat /\ a * c <= b * d
  OBVIOUS

-----------------------------------------------------------------------------
(* The score grows with the evidence *)

\* A raw score is at most 100 points, and no less for more evidence.
LEMMA RawMono ==
    ASSUME NEW e \in Evidence, NEW f \in Evidence, AtLeast(e, f),
           NEW x \in BOOLEAN, NEW y \in BOOLEAN, y => x
    PROVE  Raw(f, y) \in 0..Full /\ Raw(e, x) \in 0..Full /\ Raw(f, y) <= Raw(e, x)
<1>1. /\ e.level \in Nat /\ e.alerts \in Nat /\ e.hosts \in Nat
      /\ f.level \in Nat /\ f.alerts \in Nat /\ f.hosts \in Nat
  BY DEF Evidence
<1>2. /\ Least(f.level, 15) \in Nat /\ Least(e.level, 15) \in Nat
      /\ Least(f.level, 15) <= Least(e.level, 15)
  BY <1>1 DEF AtLeast, Least
<1>3. /\ Least(f.alerts, 10) \in Nat /\ Least(e.alerts, 10) \in Nat
      /\ Least(f.alerts, 10) <= Least(e.alerts, 10)
  BY <1>1 DEF AtLeast, Least
<1>4. /\ Least(f.hosts, 3) \in Nat /\ Least(e.hosts, 3) \in Nat
      /\ Least(f.hosts, 3) <= Least(e.hosts, 3)
  BY <1>1 DEF AtLeast, Least
<1>5. ASSUME NEW p \in BOOLEAN, NEW q \in BOOLEAN, q => p, NEW points \in Nat
      PROVE  Weight(q, points) \in Nat /\ Weight(p, points) \in Nat
             /\ Weight(q, points) <= Weight(p, points)
  <2>1. points * Point \in Nat
    BY DEF Point
  <2> QED
    BY <1>5, <2>1 DEF Weight
<1>6. /\ Weight(f.critical, 20) \in Nat /\ Weight(e.critical, 20) \in Nat
      /\ Weight(f.critical, 20) <= Weight(e.critical, 20)
  <2>1. e.critical \in BOOLEAN /\ f.critical \in BOOLEAN /\ (f.critical => e.critical)
    BY DEF Evidence, AtLeast
  <2> QED
    BY <1>5, <2>1
<1>7. /\ Weight(f.privileged, 10) \in Nat /\ Weight(e.privileged, 10) \in Nat
      /\ Weight(f.privileged, 10) <= Weight(e.privileged, 10)
  <2>1. e.privileged \in BOOLEAN /\ f.privileged \in BOOLEAN /\ (f.privileged => e.privileged)
    BY DEF Evidence, AtLeast
  <2> QED
    BY <1>5, <2>1
<1>8. /\ Weight(y, 20) \in Nat /\ Weight(x, 20) \in Nat
      /\ Weight(y, 20) <= Weight(x, 20)
  BY <1>5
<1> DEFINE lower == 500 * Least(f.level, 15) + 450 * Least(f.alerts, 10)
                    + 1000 * Least(f.hosts, 3) + Weight(f.critical, 20) + Weight(y, 20)
                    + Weight(f.privileged, 10)
           upper == 500 * Least(e.level, 15) + 450 * Least(e.alerts, 10)
                    + 1000 * Least(e.hosts, 3) + Weight(e.critical, 20) + Weight(x, 20)
                    + Weight(e.privileged, 10)
<1>9. lower \in Nat /\ upper \in Nat /\ lower <= upper
  <2> SUFFICES ASSUME NEW a1 \in Nat, NEW a2 \in Nat, NEW a3 \in Nat, NEW a4 \in Nat,
                      NEW a5 \in Nat, NEW a6 \in Nat, NEW b1 \in Nat, NEW b2 \in Nat,
                      NEW b3 \in Nat, NEW b4 \in Nat, NEW b5 \in Nat, NEW b6 \in Nat,
                      a1 <= b1, a2 <= b2, a3 <= b3, a4 <= b4, a5 <= b5, a6 <= b6
               PROVE  LET a == 500 * a1 + 450 * a2 + 1000 * a3 + a4 + a5 + a6
                          b == 500 * b1 + 450 * b2 + 1000 * b3 + b4 + b5 + b6
                      IN  a \in Nat /\ b \in Nat /\ a <= b
    BY <1>2, <1>3, <1>4, <1>6, <1>7, <1>8
  <2> QED
    OBVIOUS
<1>10. Raw(f, y) = Least(Full, lower) /\ Raw(e, x) = Least(Full, upper)
  BY DEF Raw
<1>11. Full \in Nat
  BY DEF Full, Point
<1> HIDE DEF lower, upper
<1>12. ASSUME NEW n \in Nat PROVE Least(Full, n) \in 0..Full
  BY <1>11 DEF Least
<1>13. Least(Full, lower) <= Least(Full, upper)
  BY <1>9, <1>11 DEF Least
<1> QED
  BY <1>9, <1>10, <1>12, <1>13

LEMMA RoundedMono ==
    ASSUME NEW a \in Nat, NEW b \in Nat, a <= b
    PROVE  Rounded(a) \in Nat /\ Rounded(b) \in Nat /\ Rounded(a) <= Rounded(b)
<1>1. (a + 15) \div 30 \in Nat /\ (b + 15) \div 30 \in Nat /\ (a + 15) \div 30 <= (b + 15) \div 30
  BY DivMono, DivType
<1> QED
  BY <1>1 DEF Rounded

LEMMA ScaleIs == Point \in Nat /\ Point > 0 /\ Full \in Nat
  BY DEF Point, Full

LEMMA Within ==
    ASSUME NEW n \in Nat, NEW z \in 0..n
    PROVE  z \in Nat /\ z <= n
  OBVIOUS

LEMMA BaselineIs ==
    ASSUME NEW b \in Baseline
    PROVE  b.mean \in Nat /\ b.deviation \in Nat /\ b.incidents \in Nat
  BY DEF Baseline

\* Far above the mean a score is raised, and the more the higher it is.
LEMMA RaisedMono ==
    ASSUME NEW b \in Baseline, b.deviation >= Point, NEW r \in 0..Full, NEW s \in 0..Full, r <= s,
           r > b.mean + 2 * b.deviation
    PROVE  Raised(r, b) \in Nat /\ Raised(s, b) \in Nat
           /\ r <= Raised(r, b) /\ Raised(r, b) <= Raised(s, b)
<1> DEFINE d == b.deviation
           n == 10 * d
           x == Least(r - b.mean - 2 * d, 3 * d)
           y == Least(s - b.mean - 2 * d, 3 * d)
<1>1. d \in Nat /\ d > 0 /\ b.mean \in Nat /\ r \in Nat /\ s \in Nat
      /\ r <= Full /\ s <= Full /\ Full \in Nat
  <2>1. d \in Nat /\ b.mean \in Nat
    BY BaselineIs, Zenon
  <2>2. d > 0
    <3>1. \A u, v \in Nat : u >= v /\ v > 0 => u > 0
      OBVIOUS
    <3> QED
      BY <2>1, <3>1, ScaleIs, Zenon
  <2>3. r \in Nat /\ s \in Nat /\ r <= Full /\ s <= Full
    BY ScaleIs, Within, Zenon
  <2> QED
    BY <2>1, <2>2, <2>3, ScaleIs, Zenon
<1>2. n \in Nat \ {0} /\ x \in Nat /\ y \in Nat /\ x <= y
  BY <1>1 DEF Least
<1> HIDE DEF n, x, y
<1>3. r * n \in Nat /\ r * (n + x) \in Nat /\ r * n <= r * (n + x)
  BY <1>1, <1>2, TimesMono
<1>4. s * (n + y) \in Nat /\ r * (n + x) <= s * (n + y)
  BY <1>1, <1>2, TimesMono
<1>5. /\ (r * (n + x)) \div n \in Nat /\ (s * (n + y)) \div n \in Nat
      /\ r <= (r * (n + x)) \div n /\ (r * (n + x)) \div n <= (s * (n + y)) \div n
  <2> DEFINE o == r * n
             p == r * (n + x)
             q == s * (n + y)
  <2>1. o \div n = r
    BY <1>1, <1>2, DivTimes
  <2> HIDE DEF o, p, q
  <2>2. /\ o \in Nat /\ p \in Nat /\ q \in Nat /\ n \in Nat \ {0}
        /\ o <= p /\ p <= q
    BY <1>2, <1>3, <1>4 DEF o, p, q
  <2>3. /\ p \div n \in Nat /\ q \div n \in Nat
        /\ o \div n <= p \div n /\ p \div n <= q \div n
    BY <2>2, DivMono, DivType
  <2> QED
    BY <2>1, <2>3 DEF p, q
<1>6. /\ Raised(r, b) = Least(Full, (r * (n + x)) \div n)
      /\ Raised(s, b) = Least(Full, (s * (n + y)) \div n)
  BY DEF Raised, n, x, y
<1> QED
  BY <1>1, <1>5, <1>6 DEF Least

LEMMA LoweredMono ==
    ASSUME NEW r \in Nat, NEW s \in Nat, r <= s
    PROVE  Lowered(r) \in Nat /\ Lowered(s) \in Nat
           /\ Lowered(r) <= r /\ Lowered(r) <= Lowered(s)
<1>1. (9 * r) \div 10 \in Nat /\ (9 * s) \div 10 \in Nat /\ (9 * r) \div 10 <= (9 * s) \div 10
  BY DivMono, DivType
<1>2. (9 * r) \div 10 <= r
  OBVIOUS
<1> QED
  BY <1>1, <1>2 DEF Lowered

\* Neither band boundary of the normalisation lets a higher raw score fall below.
LEMMA NormalizedMono ==
    ASSUME NEW b \in Baseline, NEW r \in 0..Full, NEW s \in 0..Full, r <= s
    PROVE  Normalized(r, b) \in Nat /\ Normalized(s, b) \in Nat
           /\ Normalized(r, b) <= Normalized(s, b)
<1>1. r \in Nat /\ s \in Nat /\ b.mean \in Nat /\ b.deviation \in Nat /\ b.incidents \in Nat
  BY ScaleIs, Within, BaselineIs, Zenon
<1>2. CASE b.incidents < 10 \/ b.deviation < Point
  BY <1>1, <1>2 DEF Normalized
<1>3. CASE ~(b.incidents < 10 \/ b.deviation < Point)
  <2> DEFINE N(z) == IF z > b.mean + 2 * b.deviation THEN Raised(z, b)
                     ELSE IF 2 * z + 3 * b.deviation < 2 * b.mean THEN Lowered(z) ELSE z
  <2>1. b.deviation >= Point
    BY <1>1, <1>3 DEF Point
  <2>2. Lowered(r) \in Nat /\ Lowered(s) \in Nat /\ Lowered(r) <= r /\ Lowered(r) <= Lowered(s)
    BY <1>1, LoweredMono
  <2>3. s > b.mean + 2 * b.deviation => Raised(s, b) \in Nat /\ s <= Raised(s, b)
    BY <1>1, <2>1, RaisedMono
  <2>4. r > b.mean + 2 * b.deviation =>
           Raised(r, b) \in Nat /\ Raised(r, b) <= Raised(s, b)
    BY <1>1, <2>1, RaisedMono
  <2>5. N(r) \in Nat /\ N(s) \in Nat /\ N(r) <= N(s)
    BY <1>1, <2>2, <2>3, <2>4
  <2>6. Normalized(r, b) = Rounded(N(r)) /\ Normalized(s, b) = Rounded(N(s))
    BY <1>3 DEF Normalized
  <2> HIDE DEF N
  <2> QED
    BY <2>5, <2>6, RoundedMono
<1> QED
  BY <1>2, <1>3

LEMMA SeverityMono ==
    ASSUME NEW a \in Nat, NEW b \in Nat, a <= b
    PROVE  Severity(a) <= Severity(b)
  BY DEF Severity, Point

\* Scoring as a whole: score_incident gives more evidence no lower score and no lower severity
\* against the same baseline.
THEOREM ScoreMono ==
    ASSUME NEW e \in Evidence, NEW f \in Evidence, AtLeast(e, f), NEW b \in Baseline,
           NEW x \in BOOLEAN, NEW y \in BOOLEAN, y => x
    PROVE  /\ Rounded(Score(e, x, b)) >= Rounded(Score(f, y, b))
           /\ Severity(Score(e, x, b)) >= Severity(Score(f, y, b))
<1>1. /\ Score(f, y, b) \in Nat /\ Score(e, x, b) \in Nat
      /\ Score(f, y, b) <= Score(e, x, b)
  BY RawMono, NormalizedMono DEF Score
<1>2. /\ Rounded(Score(f, y, b)) \in Nat /\ Rounded(Score(e, x, b)) \in Nat
      /\ Rounded(Score(f, y, b)) <= Rounded(Score(e, x, b))
  BY <1>1, RoundedMono
<1>3. Severity(Score(f, y, b)) <= Severity(Score(e, x, b))
  BY <1>1, SeverityMono
<1>4. \A z \in Nat : Severity(z) \in Nat
  BY DEF Severity, Point
<1> QED
  BY <1>1, <1>2, <1>3, <1>4

-----------------------------------------------------------------------------
(* The tasks *)

IsTask(c) ==
    c = [pc |-> c.pc, todo |-> c.todo, ip |-> c.ip, feed |-> c.feed, attempt |-> c.attempt,
         since |-> c.since]

Shape ==
    /\ task = [t \in Tasks |-> task[t]] /\ \A t \in Tasks : IsTask(task[t])
    /\ intel = [t \in Tasks |-> intel[t]]
    /\ incident = [t \in Tasks |-> incident[t]]
    /\ result = [t \in Tasks |-> result[t]]

\* The result of a task is the score of its incident, for what its feeds have said.
Scored(t) ==
    /\ task[t].pc # "idle" => incident[t] \in Incidents
    /\ task[t].pc = "done" =>
           /\ result[t].baseline \in Baselines
           /\ result[t].threat \in BOOLEAN
           /\ result[t].threat <=> ThreatHit(t)
           /\ LET score == Score(incident[t].evidence, result[t].threat, result[t].baseline)
              IN  result[t].score = Rounded(score) /\ result[t].severity = Severity(score)

Inv == Shape /\ \A t \in Tasks : Scored(t)

LEMMA InvInit == Init => Inv
<1> SUFFICES ASSUME Init PROVE Inv
  OBVIOUS
<1>1. \A t \in Tasks : task[t] = NotCalled
  BY DEF Init, EnrichmentInit
<1>2. NotCalled.pc = "idle" /\ IsTask(NotCalled)
  BY DEF NotCalled, IsTask
<1>3. Shape
  BY <1>1, <1>2 DEF Init, EnrichmentInit, Shape
<1> QED
  BY <1>1, <1>2, <1>3 DEF Inv, Scored

\* A step of one task says nothing of the others' feeds.
LEMMA StepOfOne ==
    ASSUME Inv, NEW t \in Tasks, NEW new, IsTask(new), NEW heard,
           task' = [task EXCEPT ![t] = new], intel' = [intel EXCEPT ![t] = heard],
           incident' = [incident EXCEPT ![t] = incident'[t]],
           result' = [result EXCEPT ![t] = result'[t]],
           Scored(t)'
    PROVE  Inv'
<1>1. task'[t] = new /\ \A u \in Tasks : u # t =>
         task'[u] = task[u] /\ intel'[u] = intel[u] /\ incident'[u] = incident[u]
         /\ result'[u] = result[u]
  BY DEF Inv, Shape
<1>2. Shape'
  BY <1>1 DEF Inv, Shape
<1>3. ASSUME NEW u \in Tasks, u # t PROVE Scored(u)'
  BY <1>1, <1>3 DEF Inv, Scored, ThreatHit, ThreatIntelHit, Reputation
<1> QED
  BY <1>2, <1>3 DEF Inv

LEMMA InvBegin ==
    ASSUME Inv, NEW t \in Tasks, NEW i \in Incidents, Begin(t, i)
    PROVE  Inv'
<1> DEFINE new == Between(i.sourceIps)
<1>1. /\ task' = [task EXCEPT ![t] = new] /\ incident' = [incident EXCEPT ![t] = i]
      /\ UNCHANGED <<intel, result>>
  BY DEF Begin, Enrich
<1>2. IsTask(new) /\ new.pc = "next"
  BY DEF IsTask, Between
<1> HIDE DEF new
<1>3. task'[t] = new /\ incident'[t] = i
  BY <1>1 DEF Inv, Shape
<1>4. Scored(t)'
  BY <1>2, <1>3 DEF Scored
<1>5. /\ intel' = [intel EXCEPT ![t] = intel[t]] /\ result' = [result EXCEPT ![t] = result'[t]]
      /\ incident' = [incident EXCEPT ![t] = incident'[t]]
  BY <1>1, <1>3 DEF Inv, Shape
<1> QED
  BY <1>1, <1>2, <1>4, <1>5, StepOfOne

\* Enriching goes on with a task that is not done, whatever it has heard.
LEMMA InvEnriching ==
    ASSUME Inv, NEW t \in Tasks, Enriching(t)
    PROVE  Inv'
<1> DEFINE c == task[t]
           GoesOn(new, heard) ==
               /\ IsTask(new) /\ new.pc \in Stages
               /\ task' = [task EXCEPT ![t] = new] /\ intel' = [intel EXCEPT ![t] = heard]
<1>1. /\ c.pc \in Stages /\ UNCHANGED <<incident, result>>
  BY DEF Enriching, EnrichStep, EnrichIp, Look, Evict, Ask, Stages
<1>2. /\ IsTask(c) /\ task = [u \in Tasks |-> task[u]]
      /\ intel = [u \in Tasks |-> intel[u]] /\ intel = [intel EXCEPT ![t] = intel[t]]
  BY DEF Inv, Shape
<1>3. ASSUME NEW outcome, Heard(t, outcome)
      PROVE  \E new, heard : GoesOn(new, heard)
  <2>1. PICK heard : intel' = [intel EXCEPT ![t] = heard]
    BY <1>2, <1>3 DEF Heard
  <2>2. PICK new \in {Between(c.todo), Looking(c.todo, c.ip, c.feed + 1, 1, now)} :
           task' = [task EXCEPT ![t] = new]
    BY <1>2, <1>3 DEF Heard
  <2>3. IsTask(new) /\ new.pc \in Stages
    BY <2>2 DEF Between, Looking, IsTask, Stages
  <2> QED
    BY <2>1, <2>2, <2>3
<1>4. ASSUME NEW why, RaisedBy(t, why)
      PROVE  \E new, heard : GoesOn(new, heard)
  <2>1. CASE Heard(t, why)
    BY <1>3, <2>1
  <2>2. CASE /\ task' = [task EXCEPT ![t] = Looking(@.todo, @.ip, @.feed, @.attempt + 1, @.since)]
             /\ UNCHANGED intel
    <3> DEFINE new == Looking(c.todo, c.ip, c.feed, c.attempt + 1, c.since)
    <3>1. task' = [task EXCEPT ![t] = new]
      BY <1>2, <2>2
    <3>2. IsTask(new) /\ new.pc \in Stages
      BY DEF Looking, IsTask, Stages
    <3> HIDE DEF new
    <3> QED
      BY <1>2, <2>2, <3>1, <3>2
  <2> QED
    BY <1>4, <2>1, <2>2 DEF RaisedBy
<1>5. ASSUME NEW stage \in Stages, GoOn(t, stage)
      PROVE  \E new, heard : GoesOn(new, heard)
  <2> DEFINE new == [pc |-> stage, todo |-> c.todo, ip |-> c.ip, feed |-> c.feed,
                     attempt |-> c.attempt, since |-> c.since]
  <2>0. IsTask(c)
    BY <1>2
  <2>1. [c EXCEPT !.pc = stage] = new
    BY <2>0 DEF IsTask
  <2>2. task' = [task EXCEPT ![t] = [c EXCEPT !.pc = stage]] /\ UNCHANGED intel
    BY <1>2, <1>5 DEF GoOn
  <2>3. IsTask(new) /\ new.pc \in Stages
    BY DEF IsTask
  <2> HIDE DEF new
  <2> QED
    BY <1>2, <2>1, <2>2, <2>3
<1>6. ASSUME NEW ip \in IPs, EnrichIp(t, ip)
      PROVE  \E new, heard : GoesOn(new, heard)
  <2> DEFINE new == Looking(c.todo \ {ip}, ip, 1, 1, now)
  <2>1. task' = [task EXCEPT ![t] = new] /\ UNCHANGED intel
    BY <1>2, <1>6 DEF EnrichIp
  <2>2. IsTask(new) /\ new.pc \in Stages
    BY DEF Looking, IsTask, Stages
  <2> HIDE DEF new
  <2> QED
    BY <1>2, <2>1, <2>2
<1>7. PICK new, heard : GoesOn(new, heard)
  <2> HIDE DEF GoesOn
  <2>1. CASE Look(t)
    BY <1>3, <1>5, <2>1 DEF Look, Stages
  <2>2. CASE Evict(t)
    BY <1>4, <1>5, <2>2 DEF Evict, Stages
  <2>3. CASE Ask(t)
    BY <1>3, <1>4, <2>3 DEF Ask
  <2> QED
    BY <1>6, <2>1, <2>2, <2>3 DEF Enriching, EnrichStep
<1>8. task'[t] = new /\ incident[t] \in Incidents
  BY <1>1, <1>7 DEF Inv, Shape, Scored, Stages
<1>9. Scored(t)'
  BY <1>1, <1>7, <1>8 DEF Scored, Stages
<1>10. /\ incident' = [incident EXCEPT ![t] = incident'[t]]
       /\ result' = [result EXCEPT ![t] = result'[t]]
  BY <1>1 DEF Inv, Shape
<1> QED
  BY <1>7, <1>9, <1>10, StepOfOne

LEMMA InvScore ==
    ASSUME Inv, NEW t \in Tasks, NEW b \in Baselines, ScoreIncident(t, b)
    PROVE  Inv'
<1> DEFINE c == task[t]
           score == Score(incident[t].evidence, ThreatHit(t), b)
           new == [pc |-> "done", todo |-> c.todo, ip |-> c.ip, feed |-> c.feed,
                   attempt |-> c.attempt, since |-> c.since]
<1>1. /\ c.pc = "next" /\ IsTask(c) /\ incident[t] \in Incidents
      /\ UNCHANGED <<intel, incident>> /\ intel = [intel EXCEPT ![t] = intel[t]]
      /\ incident = [incident EXCEPT ![t] = incident[t]]
  BY DEF ScoreIncident, Enriched, Inv, Shape, Scored
<1>2. [c EXCEPT !.pc = "done"] = new
  BY <1>1 DEF IsTask
<1>3. task' = [task EXCEPT ![t] = [c EXCEPT !.pc = "done"]]
  BY DEF ScoreIncident, Inv, Shape
<1>4. IsTask(new) /\ new.pc = "done"
  BY DEF IsTask
<1> HIDE DEF new
<1>5. task' = [task EXCEPT ![t] = new]
  BY <1>2, <1>3
<1>6. task'[t] = new
  BY <1>5 DEF Inv, Shape
<1>7. PICK technique : result' = [result EXCEPT ![t] =
         [score |-> Rounded(score), severity |-> Severity(score), threat |-> ThreatHit(t),
          baseline |-> b, technique |-> technique]]
  BY DEF ScoreIncident
<1>8. /\ result'[t].score = Rounded(score) /\ result'[t].severity = Severity(score)
      /\ result'[t].threat = ThreatHit(t) /\ result'[t].baseline = b
      /\ result' = [result EXCEPT ![t] = result'[t]]
  BY <1>7 DEF Inv, Shape
<1>9. ThreatHit(t)' = ThreatHit(t) /\ ThreatHit(t) \in BOOLEAN
  BY <1>1 DEF ThreatHit, ThreatIntelHit, Reputation
<1>10. Scored(t)'
  BY <1>1, <1>4, <1>6, <1>8, <1>9 DEF Scored
<1> QED
  BY <1>1, <1>4, <1>5, <1>8, <1>10, StepOfOne

LEMMA InvNext == Inv /\ [Next]_vars => Inv'
<1> SUFFICES ASSUME Inv, [Next]_vars PROVE Inv'
  OBVIOUS
<1>1. CASE UNCHANGED <<task, intel, incident, result>>
  BY <1>1 DEF Inv, Shape, Scored, ThreatHit, ThreatIntelHit, Reputation
<1>2. CASE Passing \/ Finished \/ UNCHANGED vars
  BY <1>1, <1>2 DEF Passing, Tick, Finished, vars
<1> QED
  BY <1>2, InvBegin, InvEnriching, InvScore DEF Next

LEMMA InvAlways == Spec => []Inv
  BY InvInit, InvNext, PTL DEF Spec

-----------------------------------------------------------------------------
(* What follows *)

\* The flag follows AbuseIPDB alone and the merged reputation prefers VirusTotal; together
\* they miss no verdict, however the lookups of the tasks share the cache.
THEOREM FeedsCount == Spec => []AnyFeedCounts
<1>1. \A t : ThreatHit(t) <=> \E ip \in IPs, f \in Keyed : intel[t][ip][f] = "malicious"
  BY DEF ThreatHit, ThreatIntelHit, Reputation, Keyed, Verdicts
<1>2. Inv => AnyFeedCounts
  BY <1>1 DEF Inv, Scored, AnyFeedCounts, Done
<1> QED
  BY <1>2, InvAlways, PTL

\* The scoring of the engine is monotone, across its cap, its rounding and the bands of
\* its normalisation.
THEOREM ScoringMonotone == Spec => []MoreEvidenceScoresMore
<1>1. ASSUME Inv PROVE MoreEvidenceScoresMore
  <2> SUFFICES ASSUME NEW t \in Done, NEW u \in Done,
                      AtLeast(incident[t].evidence, incident[u].evidence),
                      result[u].threat => result[t].threat,
                      result[t].baseline = result[u].baseline
               PROVE  /\ result[t].score >= result[u].score
                      /\ result[t].severity >= result[u].severity
    BY DEF MoreEvidenceScoresMore
  <2>1. Scored(t) /\ Scored(u) /\ task[t].pc = "done" /\ task[u].pc = "done"
    BY <1>1 DEF Inv, Done
  <2>2. incident[t].evidence \in Evidence /\ incident[u].evidence \in Evidence
    BY <2>1, AssessmentAssumption DEF Scored
  <2>3. result[t].baseline \in Baseline
    BY <2>1, AssessmentAssumption DEF Scored
  <2>4. result[t].threat \in BOOLEAN /\ result[u].threat \in BOOLEAN
    BY <2>1 DEF Scored
  <2> QED
    BY <2>1, <2>2, <2>3, <2>4, ScoreMono DEF Scored
<1> QED
  BY <1>1, InvAlways, PTL

-----------------------------------------------------------------------------
(* The cache and the clock *)

Lookups == Stages \ {"next"}

\* An entry that was stored after a lookup began, or none.
Recent(k, since) == cache[k] = NoEntry \/ cache[k].at >= since

\* A lookup that has found no entry, or is repeated, finds none later that is not recent,
\* and so has none to evict.
Timely(t) ==
    task[t].pc \in Lookups =>
        /\ task[t].ip \in IPs /\ task[t].feed \in 1..4 /\ task[t].attempt \in Nat \ {0}
        /\ task[t].since \in Nat /\ task[t].since <= now /\ now - task[t].since < TTL
        /\ task[t].pc = "asking" \/ task[t].attempt > 1 => Recent(Key(t), task[t].since)
        /\ task[t].pc = "evicting" /\ Feed(t) \in Keyed => task[t].attempt = 1

Typed ==
    /\ now \in Nat
    /\ cache \in [Keys -> Entry \cup {NoEntry}]
    /\ intel \in [Tasks -> [IPs -> [Feeds -> Outcomes]]]

Clock == Typed /\ (\A t \in Tasks : Timely(t)) /\ RaceCostsNoVerdict

LEMMA FeedsAre ==
    /\ DOMAIN FeedOrder = 1..4 /\ Len(FeedOrder) = 4
    /\ \A n \in 1..4 : FeedOrder[n] \in Feeds
  BY DEF FeedOrder, Feeds

LEMMA ClockInit == Init => Clock
<1> SUFFICES ASSUME Init PROVE Clock
  OBVIOUS
<1>1. now \in Nat /\ intel = [t \in Tasks |-> Unasked] /\ \A t \in Tasks : task[t] = NotCalled
  BY DEF Init, EnrichmentInit
<1>2. cache \in [Keys -> Entry \cup {NoEntry}]
  BY DEF Init, EnrichmentInit, Entry
<1>3. intel \in [Tasks -> [IPs -> [Feeds -> Outcomes]]]
  BY <1>1 DEF Unasked, Outcomes
<1>4. \A t \in Tasks : Timely(t)
  BY <1>1 DEF Timely, NotCalled, Lookups, Stages
<1>5. \A t \in Tasks, ip \in IPs, f \in Keyed : intel[t][ip][f] = "unasked"
  BY <1>1, FeedsAre DEF Unasked, Keyed, Feeds, FeedOrder
<1> QED
  BY <1>1, <1>2, <1>3, <1>4, <1>5 DEF Clock, Typed, RaceCostsNoVerdict

\* A lookup may remove the entry of its key or store one as of now.
LEMMA ClockOfOne ==
    ASSUME Shape, Clock, NEW t \in Tasks, UNCHANGED now,
           NEW new, task' = [task EXCEPT ![t] = new], Timely(t)',
           NEW k \in Keys, NEW entry \in {cache[k], NoEntry} \cup [verdict : Verdicts, at : {now}],
           cache' = [cache EXCEPT ![k] = entry],
           intel' \in [Tasks -> [IPs -> [Feeds -> Outcomes]]], RaceCostsNoVerdict'
    PROVE  Clock'
<1>1. now \in Nat /\ entry \in Entry \cup {NoEntry} /\ cache \in [Keys -> Entry \cup {NoEntry}]
  BY DEF Clock, Typed, Entry
<1>2. Typed'
  BY <1>1 DEF Typed
<1>3. ASSUME NEW u \in Tasks, u # t PROVE Timely(u)'
  <2>1. task'[u] = task[u] /\ Key(u)' = Key(u) /\ Feed(u)' = Feed(u) /\ Timely(u)
    BY <1>3 DEF Shape, Clock, Key, Feed
  <2>2. ASSUME task[u].pc \in Lookups, Recent(Key(u), task[u].since)
        PROVE  Recent(Key(u), task[u].since)'
    <3>1. task[u].since <= now /\ task[u].since \in Nat
      BY <2>1, <2>2 DEF Timely
    <3>2. Key(u) \in Keys
      BY <2>1, <2>2, FeedsAre DEF Timely, Key, Feed, Keys
    <3>3. cache'[Key(u)] = cache[Key(u)] \/ cache'[Key(u)] = NoEntry \/ cache'[Key(u)].at = now
      BY <1>1, <3>2
    <3> QED
      BY <1>1, <2>1, <2>2, <3>1, <3>3 DEF Recent
  <2> QED
    BY <2>1, <2>2 DEF Timely
<1> QED
  BY <1>2, <1>3 DEF Clock

\* The answer of a feed behind a key that an eviction elsewhere would have cost.
Lost(t, outcome) == Feed(t) \in Keyed /\ outcome = "missing key"

\* What is heard of a feed.
LEMMA ClockHeard ==
    ASSUME Shape, Clock, NEW t \in Tasks, task[t].pc \in Lookups, UNCHANGED now,
           NEW outcome \in Outcomes, Heard(t, outcome),
           ~Lost(t, outcome),
           NEW k, k = Key(t), NEW entry \in {cache[k], NoEntry} \cup [verdict : Verdicts, at : {now}],
           cache' = [cache EXCEPT ![k] = entry]
    PROVE  Clock'
<1> DEFINE c == task[t]
           new == IF c.feed = 4
                  THEN [pc |-> "next", todo |-> c.todo, ip |-> NoIP, feed |-> 1, attempt |-> 1,
                        since |-> 0]
                  ELSE [pc |-> "looking", todo |-> c.todo, ip |-> c.ip, feed |-> c.feed + 1,
                        attempt |-> 1, since |-> now]
<1>0. now \in Nat /\ now - now < TTL
  BY EnrichmentAssumption DEF Clock, Typed
<1>1. /\ c.ip \in IPs /\ c.feed \in 1..4
      /\ task = [u \in Tasks |-> task[u]]
      /\ intel \in [Tasks -> [IPs -> [Feeds -> Outcomes]]]
  BY DEF Clock, Typed, Timely, Shape
<1>2. Feed(t) \in Feeds /\ Key(t) \in Keys
  BY <1>1, FeedsAre DEF Feed, Key, Keys
<1>3. task' = [task EXCEPT ![t] = new]
  BY <1>1, FeedsAre DEF Heard, Between, Looking
<1>4. task'[t] = new
  BY <1>1, <1>3
<1>5. Timely(t)'
  <2>1. CASE c.feed = 4
    <3>1. task'[t].pc = "next"
      BY <1>4, <2>1
    <3> QED
      BY <3>1 DEF Timely, Lookups
  <2>2. CASE c.feed # 4
    <3>1. /\ task'[t].pc = "looking" /\ task'[t].ip = c.ip /\ task'[t].feed = c.feed + 1
          /\ task'[t].attempt = 1 /\ task'[t].since = now
      BY <1>4, <2>2
    <3>2. c.feed + 1 \in 1..4
      BY <1>1, <2>2
    <3> QED
      BY <1>0, <1>1, <3>1, <3>2 DEF Timely
  <2> QED
    BY <2>1, <2>2
<1>6. intel' = [intel EXCEPT ![t] = [intel[t] EXCEPT ![c.ip] =
                                       [intel[t][c.ip] EXCEPT ![Feed(t)] = outcome]]]
  BY DEF Heard
<1>7. intel' \in [Tasks -> [IPs -> [Feeds -> Outcomes]]]
  BY <1>1, <1>2, <1>6
<1>8. RaceCostsNoVerdict'
  <2> SUFFICES ASSUME NEW u \in Tasks, NEW ip \in IPs, NEW f \in Keyed
               PROVE  intel'[u][ip][f] # "missing key"
    BY DEF RaceCostsNoVerdict
  <2>1. intel[u][ip][f] # "missing key"
    BY DEF Clock, RaceCostsNoVerdict
  <2>2. f \in Feeds
    BY FeedsAre DEF Keyed, Feeds, FeedOrder
  <2>3. CASE u = t
    <3>1. intel'[t] = [intel[t] EXCEPT ![c.ip] = [intel[t][c.ip] EXCEPT ![Feed(t)] = outcome]]
      BY <1>1, <1>6
    <3>2. intel'[t][ip] = IF ip = c.ip THEN [intel[t][c.ip] EXCEPT ![Feed(t)] = outcome]
                          ELSE intel[t][ip]
      BY <1>1, <3>1
    <3>3. intel[t][c.ip] \in [Feeds -> Outcomes]
      BY <1>1
    <3> QED
      BY <2>1, <2>2, <2>3, <3>2, <3>3 DEF Lost
  <2>4. CASE u # t
    BY <1>1, <1>6, <2>1, <2>4
  <2> QED
    BY <2>3, <2>4
<1> HIDE DEF new
<1> QED
  BY <1>2, <1>3, <1>5, <1>7, <1>8, ClockOfOne

\* Where an exception leaves a lookup: at the entry to delete, or at the answer.
RaisedFrom(t, why, entry) ==
    \/ task[t].pc = "evicting" /\ why = "missing key" /\ entry = NoEntry
    \/ task[t].pc = "asking" /\ why = "unreadable"

\* A lookup that is repeated.
LEMMA ClockRaised ==
    ASSUME Shape, Clock, NEW t \in Tasks, task[t].pc \in {"evicting", "asking"}, UNCHANGED now,
           NEW k, k = Key(t), NEW entry \in {cache[k], NoEntry},
           NEW why, RaisedBy(t, why), RaisedFrom(t, why, entry),
           cache' = [cache EXCEPT ![k] = entry]
    PROVE  Clock'
<1> DEFINE c == task[t]
           new == [pc |-> "looking", todo |-> c.todo, ip |-> c.ip, feed |-> c.feed,
                   attempt |-> c.attempt + 1, since |-> c.since]
<1>0. /\ c.pc \in Lookups /\ why \in Outcomes
  BY DEF RaisedFrom, Lookups, Stages, Outcomes, Silences
<1>1. /\ Timely(t)
      /\ task = [u \in Tasks |-> task[u]]
      /\ cache \in [Keys -> Entry \cup {NoEntry}]
      /\ intel \in [Tasks -> [IPs -> [Feeds -> Outcomes]]] /\ RaceCostsNoVerdict
  BY DEF Clock, Typed, Shape
<1>2. Key(t) \in Keys
  BY <1>0, <1>1, FeedsAre DEF Timely, Key, Keys, Feed
<1>3. CASE Heard(t, why)
  <2>1. ASSUME Feed(t) \in Keyed, why = "missing key" PROVE FALSE
    <3>1. c.attempt = 1 /\ Attempts(Feed(t)) = 2
      BY <1>0, <1>1, <2>1 DEF Timely, Attempts, RaisedFrom
    <3>2. task' = [task EXCEPT ![t] = Looking(@.todo, @.ip, @.feed, @.attempt + 1, @.since)]
          /\ UNCHANGED intel
      BY <3>1 DEF RaisedBy
    <3>3. intel' = [intel EXCEPT ![t][c.ip][Feed(t)] = why]
      BY <1>3 DEF Heard
    <3>4. c.ip \in IPs /\ Feed(t) \in Feeds
      BY <1>0, <1>1, FeedsAre DEF Timely, Feed
    <3>5. intel'[t][c.ip][Feed(t)] = why
      BY <1>0, <1>1, <3>3, <3>4
    <3> QED
      BY <1>0, <1>1, <2>1, <3>2, <3>4, <3>5 DEF RaceCostsNoVerdict
  <2>2. ~Lost(t, why)
    BY <2>1 DEF Lost
  <2> QED
    BY <1>0, <1>1, <1>3, <2>2, ClockHeard
<1>4. CASE task' = [task EXCEPT ![t] = Looking(@.todo, @.ip, @.feed, @.attempt + 1, @.since)]
           /\ UNCHANGED intel
  <2>1. task' = [task EXCEPT ![t] = new] /\ task'[t] = new
    BY <1>0, <1>1, <1>4 DEF Looking
  <2>2. Key(t)' = Key(t)
    BY <2>1 DEF Key, Feed
  <2>3. cache'[Key(t)] = entry
    BY <1>0, <1>1, <1>2
  <2>4. entry = NoEntry \/ entry.at >= c.since
    BY <1>0, <1>1 DEF RaisedFrom, Timely, Recent
  <2>5. Timely(t)'
    BY <1>0, <1>1, <2>1, <2>2, <2>3, <2>4 DEF Timely, Recent
  <2> HIDE DEF new
  <2>6. RaceCostsNoVerdict'
    BY <1>0, <1>1, <1>4 DEF RaceCostsNoVerdict
  <2> QED
    BY <1>0, <1>1, <1>2, <1>4, <2>1, <2>5, <2>6, ClockOfOne
<1> QED
  BY <1>3, <1>4 DEF RaisedBy

LEMMA ClockGoOn ==
    ASSUME Shape, Clock, NEW t \in Tasks, task[t].pc \in Lookups, UNCHANGED now,
           NEW stage \in {"evicting", "asking"}, GoOn(t, stage),
           NEW k, k = Key(t), NEW entry \in {cache[k], NoEntry},
           cache' = [cache EXCEPT ![k] = entry],
           stage = "asking" => entry = NoEntry,
           stage = "evicting" => task[t].attempt = 1 \/ Feed(t) \notin Keyed
    PROVE  Clock'
<1> DEFINE c == task[t]
           new == [pc |-> stage, todo |-> c.todo, ip |-> c.ip, feed |-> c.feed,
                   attempt |-> c.attempt, since |-> c.since]
<1>1. /\ Timely(t) /\ IsTask(c) /\ task = [u \in Tasks |-> task[u]]
      /\ cache \in [Keys -> Entry \cup {NoEntry}]
      /\ intel \in [Tasks -> [IPs -> [Feeds -> Outcomes]]] /\ RaceCostsNoVerdict
  BY DEF Clock, Typed, Shape
<1>2. Key(t) \in Keys
  BY <1>1, FeedsAre DEF Timely, Key, Keys, Feed
<1>3. [c EXCEPT !.pc = stage] = new
  <2>1. PICK d : d = c
    OBVIOUS
  <2>2. IsTask(d)
    BY <1>1, <2>1
  <2>3. [d EXCEPT !.pc = stage] = [pc |-> stage, todo |-> d.todo, ip |-> d.ip, feed |-> d.feed,
                                   attempt |-> d.attempt, since |-> d.since]
    BY <2>2 DEF IsTask
  <2> QED
    BY <2>1, <2>3
<1>4. task' = [task EXCEPT ![t] = new] /\ UNCHANGED intel
  BY <1>1, <1>3 DEF GoOn
<1>5. task'[t] = new
  BY <1>1, <1>4
<1>6. Key(t)' = Key(t) /\ Feed(t)' = Feed(t)
  BY <1>5 DEF Key, Feed
<1>7. cache'[Key(t)] = entry
  BY <1>1, <1>2
<1>8. c.attempt \in Nat \ {0} /\ (c.attempt > 1 => Recent(Key(t), c.since))
  BY <1>1 DEF Timely
<1>9. Timely(t)'
  <2>0. stage \in Lookups
    BY DEF Lookups, Stages
  <2>1. /\ task'[t].pc = stage /\ task'[t].ip = c.ip /\ task'[t].feed = c.feed
        /\ task'[t].attempt = c.attempt /\ task'[t].since = c.since
    BY <1>5
  <2>2. stage = "asking" \/ c.attempt > 1 => Recent(Key(t), task[t].since)'
    BY <1>1, <1>6, <1>7, <1>8, <2>1 DEF Recent
  <2> HIDE DEF new
  <2> QED
    BY <1>1, <1>6, <2>0, <2>1, <2>2 DEF Timely
<1>10. RaceCostsNoVerdict'
  BY <1>1, <1>4 DEF RaceCostsNoVerdict
<1> HIDE DEF new
<1> QED
  BY <1>1, <1>2, <1>4, <1>9, <1>10, ClockOfOne

LEMMA ClockLook ==
    ASSUME Shape, Clock, NEW t \in Tasks, Look(t)
    PROVE  Clock'
<1> DEFINE c == task[t]
           f == Feed(t)
           k == Key(t)
<1>1. /\ c.pc = "looking" /\ c.pc \in Lookups /\ UNCHANGED <<now, cache>> /\ Timely(t)
      /\ cache \in [Keys -> Entry \cup {NoEntry}] /\ now \in Nat
  BY DEF Look, Lookups, Stages, Clock, Typed
<1>2. k \in Keys
  BY <1>1, FeedsAre DEF Timely, Key, Keys, Feed
<1>3. cache[k] \in Entry \cup {NoEntry} /\ cache' = [cache EXCEPT ![k] = cache[k]]
  BY <1>1, <1>2
<1>4. ASSUME NEW outcome \in Outcomes, outcome # "missing key", Heard(t, outcome) PROVE Clock'
  BY <1>1, <1>3, <1>4, ClockHeard DEF Lost
<1>5. CASE Heard(t, "unconfigured")
  BY <1>4, <1>5 DEF Outcomes, Silences
<1>6. CASE Fresh(k) /\ Heard(t, cache[k].verdict)
  <2>1. cache[k].verdict \in Verdicts
    BY <1>3, <1>6 DEF Fresh, Stored, Entry
  <2> QED
    BY <1>4, <1>6, <2>1 DEF Outcomes, Verdicts
<1>7. CASE Stored(k) /\ ~Fresh(k) /\ GoOn(t, "evicting")
  <2>1. ~Recent(k, c.since)
    BY <1>1, <1>3, <1>7, EnrichmentAssumption DEF Recent, Stored, Fresh, Timely, Entry
  <2>2. c.attempt = 1
    BY <1>1, <2>1 DEF Timely
  <2> QED
    BY <1>1, <1>3, <1>7, <2>2, ClockGoOn
<1>8. CASE ~Stored(k) /\ GoOn(t, "asking")
  BY <1>1, <1>3, <1>8, ClockGoOn DEF Stored
<1> QED
  BY <1>5, <1>6, <1>7, <1>8 DEF Look

LEMMA ClockEvict ==
    ASSUME Shape, Clock, NEW t \in Tasks, Evict(t)
    PROVE  Clock'
<1>1. /\ task[t].pc \in Lookups /\ task[t].pc = "evicting" /\ UNCHANGED now
      /\ cache' = [cache EXCEPT ![Key(t)] = NoEntry]
  BY DEF Evict, Lookups, Stages
<1>2. CASE GoOn(t, "asking")
  BY <1>1, <1>2, ClockGoOn
<1>3. CASE RaisedBy(t, "missing key")
  BY <1>1, <1>3, ClockRaised DEF RaisedFrom
<1> QED
  BY <1>2, <1>3 DEF Evict

LEMMA ClockAsk ==
    ASSUME Shape, Clock, NEW t \in Tasks, Ask(t)
    PROVE  Clock'
<1>1. /\ task[t].pc \in Lookups /\ task[t].pc = "asking" /\ UNCHANGED now
      /\ Timely(t) /\ cache \in [Keys -> Entry \cup {NoEntry}]
  BY DEF Ask, Lookups, Stages, Clock, Typed
<1>2. Key(t) \in Keys
  BY <1>1, FeedsAre DEF Timely, Key, Keys, Feed
<1>3. ASSUME NEW verdict \in Reputations(Feed(t)), Heard(t, verdict),
             cache' = [cache EXCEPT ![Key(t)] = [verdict |-> verdict, at |-> now]]
      PROVE  Clock'
  <2>1. verdict \in Verdicts /\ verdict \in Outcomes /\ verdict # "missing key"
    BY <1>3 DEF Reputations, Verdicts, Outcomes
  <2>2. [verdict |-> verdict, at |-> now] \in [verdict : Verdicts, at : {now}]
    BY <2>1
  <2> QED
    BY <1>1, <1>3, <2>1, <2>2, ClockHeard DEF Lost
<1>4. CASE UNCHANGED cache
  <2>1. cache' = [cache EXCEPT ![Key(t)] = cache[Key(t)]]
    BY <1>1, <1>2, <1>4
  <2>2. CASE Heard(t, "failed")
    BY <1>1, <2>1, <2>2, ClockHeard DEF Lost, Outcomes, Silences
  <2>3. CASE RaisedBy(t, "unreadable")
    BY <1>1, <2>1, <2>3, ClockRaised DEF RaisedFrom
  <2> QED
    BY <1>3, <2>2, <2>3 DEF Ask
<1> QED
  BY <1>3, <1>4 DEF Ask

\* A task that begins, goes to its next address or is done.
LEMMA ClockStart ==
    ASSUME Shape, Clock, NEW t \in Tasks, NEW new, task' = [task EXCEPT ![t] = new],
           UNCHANGED <<now, cache, intel>>,
           \/ new.pc \notin Lookups
           \/ \E ip \in IPs : new = Looking(new.todo, ip, 1, 1, now)
    PROVE  Clock'
<1>1. task'[t] = new /\ \A u \in Tasks : u # t => task'[u] = task[u]
  BY DEF Shape
<1>2. Typed' /\ RaceCostsNoVerdict' /\ now \in Nat
  BY DEF Clock, Typed, RaceCostsNoVerdict
<1>3. Timely(t)'
  BY <1>1, <1>2, EnrichmentAssumption DEF Timely, Looking
<1>4. ASSUME NEW u \in Tasks, u # t PROVE Timely(u)'
  BY <1>1, <1>4 DEF Clock, Timely, Recent, Key, Feed
<1> QED
  BY <1>2, <1>3, <1>4 DEF Clock

LEMMA ClockNext == Inv /\ Clock /\ [Next]_vars => Clock'
<1> SUFFICES ASSUME Shape, Clock, [Next]_vars PROVE Clock'
  BY DEF Inv
<1>1. ASSUME NEW t \in Tasks, NEW i \in Incidents, Begin(t, i) PROVE Clock'
  <2>1. Between(i.sourceIps).pc \notin Lookups
    BY DEF Between, Lookups
  <2> QED
    BY <1>1, <2>1, ClockStart DEF Begin, Enrich
<1>2. ASSUME NEW t \in Tasks, Enriching(t) PROVE Clock'
  <2>1. ASSUME NEW ip \in IPs, EnrichIp(t, ip) PROVE Clock'
    <3> DEFINE new == Looking(task[t].todo \ {ip}, ip, 1, 1, now)
    <3>1. task' = [task EXCEPT ![t] = new] /\ UNCHANGED <<now, cache, intel>>
      BY <2>1 DEF EnrichIp, Shape
    <3>2. new = Looking(new.todo, ip, 1, 1, now)
      BY DEF Looking
    <3> HIDE DEF new
    <3> QED
      BY <3>1, <3>2, ClockStart
  <2> QED
    BY <1>2, <2>1, ClockLook, ClockEvict, ClockAsk DEF Enriching, EnrichStep
<1>3. ASSUME NEW t \in Tasks, NEW b \in Baselines, ScoreIncident(t, b) PROVE Clock'
  <2> DEFINE new == [task[t] EXCEPT !.pc = "done"]
  <2>1. task' = [task EXCEPT ![t] = new] /\ UNCHANGED <<now, cache, intel>>
    BY <1>3 DEF ScoreIncident, Shape
  <2>2. new.pc = "done"
    BY DEF Shape, IsTask
  <2>3. new.pc \notin Lookups
    BY <2>2 DEF Lookups, Stages
  <2> HIDE DEF new
  <2> QED
    BY <2>1, <2>3, ClockStart
<1>4. CASE Passing
  <2>1. now' = now + 1 /\ UNCHANGED <<cache, task, intel>> /\ now \in Nat
    BY <1>4 DEF Passing, Tick, Clock, Typed
  <2>2. ASSUME NEW t \in Tasks PROVE Timely(t)'
    <3>1. task[t].pc \in Lookups => now + 1 - task[t].since < TTL
      BY <1>4 DEF Passing, Tick, Lookups
    <3> QED
      BY <2>1, <3>1 DEF Clock, Timely, Recent, Key, Feed
  <2>3. Typed'
    BY <2>1 DEF Clock, Typed
  <2>4. RaceCostsNoVerdict'
    BY <2>1 DEF Clock, RaceCostsNoVerdict
  <2> QED
    BY <2>2, <2>3, <2>4 DEF Clock
<1>5. CASE Finished \/ UNCHANGED vars
  <2>1. UNCHANGED <<now, cache, task, intel>>
    BY <1>5 DEF Finished, vars
  <2> QED
    BY <2>1 DEF Clock, Typed, Timely, Recent, Key, Feed, RaceCostsNoVerdict
<1> QED
  BY <1>1, <1>2, <1>3, <1>4, <1>5 DEF Next

\* The TTL of the cache and the time limits of the requests are what makes the second attempt
\* of a feed behind a key enough: TTLCache.get deletes an entry that another thread may just
\* have deleted, but whatever that lookup finds the second time is too young to delete.
THEOREM RaceHarmless == Spec => []RaceCostsNoVerdict
<1>1. Clock => RaceCostsNoVerdict
  BY DEF Clock
<1>2. Init => Clock
  BY ClockInit
<1>3. Inv /\ Clock /\ [Next]_vars => Clock'
  BY ClockNext
<1> QED
  BY <1>1, <1>2, <1>3, InvAlways, PTL DEF Spec
=============================================================================
