--------------------------- MODULE IncidentStore ---------------------------
(***************************************************************************)
(* The incident tables of the database and the API handlers that change    *)
(* them (src/api/routes/incidents.py), together with the retention job     *)
(* (scripts/cleanup.py) and the false-positive statistics of the           *)
(* correlation engine (src/correlation/engine.py).                         *)
(*                                                                         *)
(* A handler runs on a worker thread with a database session of its own.   *)
(* It reads rows (each SELECT sees what is committed at that moment),      *)
(* computes new values from what it read, and flushes and commits them in  *)
(* one transaction; it may then commit a feedback row and an audit row in  *)
(* transactions of their own.  Each of these is an action here, so the     *)
(* handlers of different requests interleave between any two of them.      *)
(* A flush writes only the columns whose value the handler changed, finds  *)
(* rows by primary key, and fails when a row it updates is gone or a       *)
(* foreign key does not resolve; the whole transaction then rolls back.    *)
(***************************************************************************)
EXTENDS Integers, FiniteSets, Sequences

CONSTANTS
    Alerts,      \* primary keys of the alerts table
    Seeds,       \* incidents that exist when the run begins
    SeedAlerts,  \* SeedAlerts[i]: the alerts seed incident i is linked to
    Attribute,   \* Attribute[a]: the host / user / source IP of alert a
    EventId,     \* EventId[a]: the event_id column of alert a
    Requests,    \* API requests; each is handled once
    Calls,       \* the calls a request may carry
    Workers,     \* size of the thread pool that runs the handlers
    OldAlerts,   \* the alerts that pass the retention period during the run
    Aging,       \* which of the incidents and audit_logs tables hold old rows
    MayCrash,    \* whether the server process may be killed
    MayFail      \* whether the database may fail a transaction

\* The incident a split creates gets a fresh uuid: it is named by its request.
IncidentIds == Seeds \cup Requests

\* The body of a PUT is a raw dict: status may be any text, of which "other" stands for
\* those that no code compares with.
Statuses == {"open", "investigating", "resolved", "false_positive", "merged", "other"}
NoStatus == "unchanged"    \* a PUT whose body has no status field
Rules == {"auto", "merge", "split"}
AuditActions == {"false_positive", "update_incident", "delete_incident",
                 "merge_incidents", "split_incident", "feedback"}

IncidentRow == [status : Statuses, alertCount : Int,
                scope : SUBSET {Attribute[a] : a \in Alerts}, closed : BOOLEAN]
LinkRow == [alert : Alerts, incident : IncidentIds, rule : Rules,
            path : Seq(IncidentIds)]
StatRow == [fp : Nat, total : Nat, weight : 1..10]

UpdateCalls == [op : {"update"}, target : IncidentIds,
                status : Statuses \cup {NoStatus}]
PlainCalls == [op : {"delete", "note"}, target : IncidentIds]
MergeCalls == [op : {"merge"}, ids : Seq(IncidentIds)]
SplitCalls == [op : {"split"}, target : IncidentIds, alerts : SUBSET Alerts]

ASSUME StoreAssumption ==
    /\ SeedAlerts \in [Seeds -> SUBSET Alerts]
    /\ \A i \in Seeds : IsFiniteSet(SeedAlerts[i])
    /\ Seeds \cap Requests = {}
    /\ IsFiniteSet(Seeds) /\ IsFiniteSet(Requests)
    /\ Calls \subseteq UpdateCalls \cup PlainCalls \cup MergeCalls \cup SplitCalls
    /\ Workers \in Nat \ {0}
    /\ OldAlerts \subseteq Alerts
    /\ Aging \subseteq {"incidents", "audit_logs"}
    /\ MayCrash \in BOOLEAN /\ MayFail \in BOOLEAN

\* alerts.id is generated on insert, alerts.event_id comes from the sender.
ASSUME EventIdAssumption == {EventId[a] : a \in Alerts} \cap Alerts = {}

VARIABLES
    alerts,      \* alerts table: the primary keys present
    incidents,   \* incidents table: a function from the ids present to rows
    links,       \* incident_alerts table: a set of rows
    stats,       \* correlation_rule_stats table: a function from rule names
    feedback,    \* analyst_feedback table: rows [request, incident]
    audit,       \* audit_logs table: rows [request, action]
    pc,          \* progress of each request
    call,        \* the call each request carries
    seen,        \* the incident rows the request's session has loaded
    rows,        \* the link rows its session has loaded
    pending,     \* the incidents whose links it has still to load
    counted,     \* the running total_alerts of a merge
    seenStats    \* the statistics rows its session has loaded

tables == <<alerts, incidents, links, stats, feedback, audit>>
sessions == <<pc, call, seen, rows, pending, counted, seenStats>>
vars == <<alerts, incidents, links, stats, feedback, audit,
          pc, call, seen, rows, pending, counted, seenStats>>

(***************************************************************************)
(* "loading": lazy collections are still to be read.  "ready": everything  *)
(* is read and the new values are computed.  "committed": the change is    *)
(* durable.  "recorded": the feedback row (or the first audit row of a     *)
(* false positive) is durable too.  "rejected" is a 400 or 404, "aborted"  *)
(* a rollback (500), "interrupted" a 500 or a crash after the change had   *)
(* been committed.                                                         *)
(***************************************************************************)
Running == {"loading", "ready", "committed", "recorded"}
Ended == {"done", "rejected", "aborted", "interrupted"}
Applied == {"committed", "recorded", "done", "interrupted"}

Op(q) == call[q].op
Ready(q, op) == pc[q] = "ready" /\ Op(q) = op
IsMark(c) == c.op = "update" /\ c.status = "false_positive"
Target(c) == IF c.op = "merge" THEN c.ids[1] ELSE c.target
Named(c) == IF c.op = "merge" THEN {c.ids[k] : k \in DOMAIN c.ids} ELSE {c.target}

LinksOf(i) == {l \in links : l.incident = i}
AlertsIn(L) == {l.alert : l \in L}
Linked(i) == AlertsIn(LinksOf(i))
Scope(A) == {Attribute[a] : a \in A}

\* Only the columns the handler changed are written: a column set to the value
\* that was read keeps whatever the row holds by now.
Column(read, set, stored) == IF set = read THEN stored ELSE set

Flush(read, set, stored) ==
    [status     |-> Column(read.status, set.status, stored.status),
     alertCount |-> Column(read.alertCount, set.alertCount, stored.alertCount),
     scope      |-> Column(read.scope, set.scope, stored.scope),
     closed     |-> Column(read.closed, set.closed, stored.closed)]

-----------------------------------------------------------------------------
(* The values the handlers compute from the rows they have read *)

Closing(status) == status \in {"resolved", "false_positive"}

\* (variant that forgets closed_at for a false positive)
UndatedFalsePositive(row, status) ==
    [row EXCEPT !.status = IF status = NoStatus THEN @ ELSE status,
                !.closed = @ \/ status = "resolved"]
\* PUT /incidents/{id}: closing a case stamps closed_at, reopening keeps it.
UpdatedRow(row, status) ==
    [row EXCEPT !.status = IF status = NoStatus THEN @ ELSE status,
                !.closed = @ \/ Closing(status)]

\* (variant that leaves the master row as it was)
MergedRowKeepsMaster(q) == seen[q][call[q].ids[1]]
\* POST /incidents/merge: counts are added, scopes united.
MergedRow(q) ==
    [seen[q][call[q].ids[1]] EXCEPT
        !.alertCount = counted[q],
        !.scope = UNION {seen[q][i].scope : i \in Named(call[q])}]

\* (variant that takes incident_id for alert_id)
CopyOfIncident(row, i, rule, q) ==
    [alert |-> row.incident, incident |-> i, rule |-> rule, path |-> Append(row.path, q)]
\* A copy of a link row for incident i.  The history of a row (the seed incident,
\* then the requests that copied it) stands for its generated primary key.
Copy(row, i, rule, q) ==
    [alert |-> row.alert, incident |-> i, rule |-> rule, path |-> Append(row.path, q)]

\* POST /incidents/{id}/split: the rows to move, and the new rows of both sides.
Moved(q) == {r \in rows[q] : r.alert \in call[q].alerts}

\* (variant that deletes by alert id whatever is linked at the commit)
RemovedByAlert(q) ==
    {l \in links : l.incident = call[q].target /\ l.alert \in call[q].alerts}
\* The rows a split deletes: those it loaded, by primary key.
Removed(q) == Moved(q)

\* The recalculation selects alerts by event_id, but is given alert ids.
AlertsByEventId(ids) == {a \in alerts : EventId[a] \in ids}

RemainingRow(q) ==
    [seen[q][call[q].target] EXCEPT
        !.alertCount = @ - Cardinality(Moved(q)),
        !.scope = Scope(AlertsByEventId(AlertsIn(rows[q] \ Moved(q))))]
SplitOffRow(q) ==
    [status |-> "open", alertCount |-> Cardinality(Moved(q)),
     scope |-> Scope(AlertsByEventId(AlertsIn(Moved(q)))), closed |-> FALSE]

\* (variants: the total is forgotten; the first mark only creates the row)
MarkedFpOnly(stat) == [stat EXCEPT !.fp = @ + 1]
MarkedLate(stat) ==
    IF stat.total = 0 THEN [stat EXCEPT !.total = 1]
    ELSE [stat EXCEPT !.fp = @ + 1, !.total = @ + 1]
\* record_false_positive: weights are in tenths, 1 is the floor of 0.1.
Marked(stat) ==
    LET fp == stat.fp + 1  total == stat.total + 1
    IN  [fp |-> fp, total |-> total,
         weight |-> IF 2 * fp > total /\ stat.weight > 1
                    THEN stat.weight - 1 ELSE stat.weight]
FreshStat == [fp |-> 0, total |-> 0, weight |-> 10]

FlushStat(read, set, stored) ==
    [fp     |-> Column(read.fp, set.fp, stored.fp),
     total  |-> Column(read.total, set.total, stored.total),
     weight |-> Column(read.weight, set.weight, stored.weight)]

-----------------------------------------------------------------------------
Nothing == [x \in {} |-> {}]

SeedLinks(i) ==
    {[alert |-> a, incident |-> i, rule |-> "auto", path |-> <<i>>] : a \in SeedAlerts[i]}

Init ==
    /\ alerts = Alerts
    /\ incidents = [i \in Seeds |->
            [status |-> "open", alertCount |-> Cardinality(SeedAlerts[i]),
             scope |-> Scope(SeedAlerts[i]), closed |-> FALSE]]
    /\ links = UNION {SeedLinks(i) : i \in Seeds}
    /\ stats = Nothing
    /\ feedback = {} /\ audit = {}
    /\ pc = [q \in Requests |-> "idle"]
    /\ call \in [Requests -> Calls]
    /\ seen = [q \in Requests |-> Nothing]
    /\ rows = [q \in Requests |-> {}]
    /\ pending = [q \in Requests |-> <<>>]
    /\ counted = [q \in Requests |-> 0]
    /\ seenStats = [q \in Requests |-> Nothing]

-----------------------------------------------------------------------------
(* Reading *)

\* A commit or a rollback expires what the session has loaded.  The links a false
\* positive was charged for are kept: the properties below refer to them.
Advance(q, to) ==
    /\ pc' = [pc EXCEPT ![q] = to]
    /\ seen' = [seen EXCEPT ![q] = Nothing]
    /\ rows' = [rows EXCEPT ![q] = IF IsMark(call[q]) THEN @ ELSE {}]
    /\ counted' = [counted EXCEPT ![q] = 0]
    /\ seenStats' = [seenStats EXCEPT ![q] = Nothing]
    /\ UNCHANGED <<call, pending>>

\* The incidents whose link rows the handler of call c iterates over.
Collections(c) ==
    CASE c.op = "merge" -> Tail(c.ids)
      [] c.op = "split" \/ IsMark(c) -> <<c.target>>
      [] OTHER -> <<>>

Found(c) == Named(c) \subseteq DOMAIN incidents
WellFormed(c) ==
    c.op = "merge" => Len(c.ids) >= 2 /\ Cardinality(Named(c)) = Len(c.ids)

Free == Cardinality({q \in Requests : pc[q] \in Running}) < Workers

\* A worker picks the request up and selects the incidents it names.
Load(q) ==
    /\ pc[q] = "idle" /\ Free
    /\ WellFormed(call[q]) /\ Found(call[q])
    /\ pc' = [pc EXCEPT ![q] = IF Collections(call[q]) = <<>> THEN "ready" ELSE "loading"]
    /\ seen' = [seen EXCEPT ![q] = [i \in Named(call[q]) |-> incidents[i]]]
    /\ pending' = [pending EXCEPT ![q] = Collections(call[q])]
    /\ counted' = [counted EXCEPT ![q] =
            IF Op(q) = "merge" THEN incidents[Target(call[q])].alertCount ELSE 0]
    /\ UNCHANGED <<tables, call, rows, seenStats>>

Reject(q) ==
    /\ pc[q] = "idle" /\ Free
    /\ ~(WellFormed(call[q]) /\ Found(call[q]))
    /\ Advance(q, "rejected")
    /\ UNCHANGED tables

\* incident.alerts is a lazy collection: one SELECT per incident, on first use.
\* The loop of a merge adds up alert_count as it goes from incident to incident.
\* A split that names no linked alert ends here with a 400.
AfterLinks(q, loaded) ==
    CASE Tail(pending[q]) # <<>> \/ IsMark(call[q]) -> "loading"
      [] Op(q) = "split" /\ AlertsIn(loaded) \cap call[q].alerts = {} -> "rejected"
      [] OTHER -> "ready"

LoadLinks(q) ==
    /\ pc[q] = "loading" /\ pending[q] # <<>>
    /\ LET loaded == rows[q] \cup LinksOf(Head(pending[q]))
           next == AfterLinks(q, loaded)
       IN  /\ rows' = [rows EXCEPT ![q] = IF next = "rejected" THEN {} ELSE loaded]
           /\ pc' = [pc EXCEPT ![q] = next]
    /\ pending' = [pending EXCEPT ![q] = Tail(@)]
    /\ counted' = [counted EXCEPT ![q] =
            IF Op(q) = "merge" THEN @ + seen[q][Head(pending[q])].alertCount ELSE @]
    /\ UNCHANGED <<tables, call, seen, seenStats>>

RuleNames(q) == {r.rule : r \in rows[q]}

\* record_false_positive selects the statistics row of every rule it will charge.  These
\* are a SELECT each; one step stands for them, as no rule's row depends on another's.
LoadStats(q) ==
    /\ pc[q] = "loading" /\ pending[q] = <<>>
    /\ seenStats' = [seenStats EXCEPT ![q] =
                        [r \in RuleNames(q) \cap DOMAIN stats |-> stats[r]]]
    /\ pc' = [pc EXCEPT ![q] = "ready"]
    /\ UNCHANGED <<tables, call, seen, rows, pending, counted>>

-----------------------------------------------------------------------------
(* Flush and commit *)

\* Every handler that changes an incident also stamps updated_at, so the UPDATE is
\* always sent; it must find its row.  A DELETE that finds none only warns.
NoStaleRow(q) ==
    Op(q) \in {"update", "merge", "split"} => Named(call[q]) \subseteq DOMAIN incidents

\* (variant: PRAGMA foreign_keys left off)
NoForeignKeys(q) == TRUE
ForeignKeysResolve(q) ==
    /\ Op(q) = "merge" => AlertsIn(rows[q]) \subseteq alerts
    /\ Op(q) = "split" => AlertsIn(Moved(q)) \subseteq alerts
    /\ Op(q) = "note" => call[q].target \in DOMAIN incidents

\* rule_name is unique: a row that was missing must still be missing.
RuleNamesUnique(q) ==
    IsMark(call[q]) => (RuleNames(q) \ DOMAIN seenStats[q]) \cap DOMAIN stats = {}

Commits(q) == NoStaleRow(q) /\ ForeignKeysResolve(q) /\ RuleNamesUnique(q)

CommitUpdate(q) ==
    LET i == call[q].target  read == seen[q][i]
    IN  /\ Ready(q, "update") /\ Commits(q)
        /\ incidents' = [incidents EXCEPT
                ![i] = Flush(read, UpdatedRow(read, call[q].status), @)]
        /\ stats' =
             IF ~IsMark(call[q]) THEN stats
             ELSE [r \in DOMAIN stats \cup RuleNames(q) |->
                     IF r \notin RuleNames(q) THEN stats[r]
                     ELSE IF r \notin DOMAIN seenStats[q] THEN Marked(FreshStat)
                     ELSE FlushStat(seenStats[q][r], Marked(seenStats[q][r]), stats[r])]
        /\ Advance(q, "committed")
        /\ UNCHANGED <<alerts, links, feedback, audit>>

CommitDelete(q) ==
    LET i == call[q].target
    IN  /\ Ready(q, "delete")
        /\ incidents' = [j \in DOMAIN incidents \ {i} |-> incidents[j]]
        /\ links' = links \ LinksOf(i)
        /\ feedback' = {f \in feedback : f.incident # i}
        /\ Advance(q, "committed")
        /\ UNCHANGED <<alerts, stats, audit>>

CommitMerge(q) ==
    LET ids == call[q].ids
        master == ids[1]
        set == [i \in Named(call[q]) |->
                  IF i = master THEN MergedRow(q)
                  ELSE [seen[q][i] EXCEPT !.status = "merged"]]
    IN  /\ Ready(q, "merge") /\ Commits(q)
        /\ incidents' = [i \in DOMAIN incidents |->
                IF i \in Named(call[q]) THEN Flush(seen[q][i], set[i], incidents[i])
                ELSE incidents[i]]
        /\ links' = links \cup {Copy(r, master, "merge", q) : r \in rows[q]}
        /\ Advance(q, "committed")
        /\ UNCHANGED <<alerts, stats, feedback, audit>>

CommitSplit(q) ==
    LET i == call[q].target
    IN  /\ Ready(q, "split") /\ Commits(q)
        /\ incidents' = [j \in DOMAIN incidents \cup {q} |->
                IF j = q THEN SplitOffRow(q)
                ELSE IF j = i THEN Flush(seen[q][i], RemainingRow(q), incidents[i])
                ELSE incidents[j]]
        /\ links' = (links \ Removed(q)) \cup {Copy(r, q, "split", q) : r \in Moved(q)}
        /\ Advance(q, "committed")
        /\ UNCHANGED <<alerts, stats, feedback, audit>>

\* POST /incidents/{id}/feedback.
CommitNote(q) ==
    /\ Ready(q, "note") /\ Commits(q)
    /\ feedback' = feedback \cup {[request |-> q, incident |-> call[q].target]}
    /\ Advance(q, "committed")
    /\ UNCHANGED <<alerts, incidents, links, stats, audit>>

RolledBack(q) ==
    pc[q] = "ready" /\ ((Op(q) # "delete" /\ ~Commits(q)) \/ MayFail)

\* (variant that audits before it knows the outcome)
AbortAudited(q) ==
    /\ RolledBack(q)
    /\ Advance(q, "aborted")
    /\ audit' = audit \cup {[request |-> q, action |-> "false_positive"]}
    /\ UNCHANGED <<alerts, incidents, links, stats, feedback>>
Abort(q) ==
    /\ RolledBack(q)
    /\ Advance(q, "aborted")
    /\ UNCHANGED tables

-----------------------------------------------------------------------------
(* After the commit: the feedback row of a merge or split, the audit row *)

\* The ORM objects expired with the commit: the handler reads the incident whose id
\* it writes again, and the feedback row refers to its incident.
FeedbackPossible(q) ==
    /\ Target(call[q]) \in DOMAIN incidents
    /\ Op(q) = "split" => q \in DOMAIN incidents

RecordFeedback(q) ==
    /\ pc[q] = "committed" /\ Op(q) \in {"merge", "split"} /\ FeedbackPossible(q)
    /\ feedback' = feedback \cup {[request |-> q, incident |-> Target(call[q])]}
    /\ Advance(q, "recorded")
    /\ UNCHANGED <<alerts, incidents, links, stats, audit>>

\* A false positive is audited twice, first under its own name.
AuditFalsePositive(q) ==
    /\ pc[q] = "committed" /\ IsMark(call[q])
    /\ audit' = audit \cup {[request |-> q, action |-> "false_positive"]}
    /\ Advance(q, "recorded")
    /\ UNCHANGED <<alerts, incidents, links, stats, feedback>>

AuditName(q) ==
    CASE Op(q) = "update" -> "update_incident"
      [] Op(q) = "delete" -> "delete_incident"
      [] Op(q) = "merge" -> "merge_incidents"
      [] Op(q) = "split" -> "split_incident"
      [] Op(q) = "note" -> "feedback"

AuditDue(q) ==
    pc[q] = (IF Op(q) \in {"merge", "split"} \/ IsMark(call[q])
             THEN "recorded" ELSE "committed")

\* The id in the audit row of a merge or split is read from the expired object.
AuditPossible(q) ==
    /\ Op(q) = "merge" => Target(call[q]) \in DOMAIN incidents
    /\ Op(q) = "split" => q \in DOMAIN incidents

Audit(q) ==
    /\ AuditDue(q) /\ AuditPossible(q)
    /\ audit' = audit \cup {[request |-> q, action |-> AuditName(q)]}
    /\ Advance(q, "done")
    /\ UNCHANGED <<alerts, incidents, links, stats, feedback>>

\* _log_audit swallows whatever the insertion raises, but leaves the session unusable:
\* a delete returns a constant, a merge or split ids that it may or may not have at hand,
\* the others read an expired row and raise.  The row of the false positive comes before
\* another commit, which raises.
AfterLostAudit(q) ==
    CASE Op(q) = "delete" -> {"done"}
      [] Op(q) \in {"merge", "split"} -> {"done", "interrupted"}
      [] OTHER -> {"interrupted"}

LoseAudit(q) ==
    /\ MayFail
    /\ (AuditDue(q) /\ AuditPossible(q)) \/ (pc[q] = "committed" /\ IsMark(call[q]))
    /\ \E to \in AfterLostAudit(q) : Advance(q, to)
    /\ UNCHANGED tables

\* (variant that gives up where the audit row is due)
InterruptAtAudit(q) ==
    /\ AuditDue(q)
    /\ Advance(q, "interrupted")
    /\ UNCHANGED tables
Interrupt(q) ==
    /\ \/ /\ pc[q] = "committed" /\ Op(q) \in {"merge", "split"}
          /\ ~FeedbackPossible(q) \/ MayFail
       \/ AuditDue(q) /\ ~AuditPossible(q)
    /\ Advance(q, "interrupted")
    /\ UNCHANGED tables

-----------------------------------------------------------------------------
(* The retention job and the death of the server *)

Purgeable(i) == Closing(incidents[i].status) /\ incidents[i].closed

\* run_cleanup: one transaction; deleting a parent row deletes its link rows and
\* feedback rows, and leaves alert_count alone.
Cleanup(expired, old, aged) ==
    /\ expired \cup old \cup aged # {}
    /\ alerts' = alerts \ expired
    /\ incidents' = [i \in DOMAIN incidents \ old |-> incidents[i]]
    /\ links' = {l \in links : l.alert \notin expired /\ l.incident \notin old}
    /\ feedback' = {f \in feedback : f.incident \notin old}
    /\ audit' = audit \ aged
    /\ UNCHANGED <<stats, sessions>>

RunCleanup ==
    \E expired \in SUBSET (alerts \cap OldAlerts),
       old \in SUBSET {i \in DOMAIN incidents : "incidents" \in Aging /\ Purgeable(i)},
       aged \in SUBSET {e \in audit : "audit_logs" \in Aging} :
        Cleanup(expired, old, aged)

Crash ==
    /\ MayCrash
    /\ \E q \in Requests : pc[q] \in Running
    /\ pc' = [q \in Requests |->
                CASE pc[q] \in {"loading", "ready"} -> "aborted"
                  [] pc[q] \in {"committed", "recorded"} -> "interrupted"
                  [] OTHER -> pc[q]]
    /\ UNCHANGED <<tables, call, seen, rows, pending, counted, seenStats>>

-----------------------------------------------------------------------------
Start(q) == Load(q) \/ Reject(q)

Handle(q) ==
    \/ LoadLinks(q) \/ LoadStats(q)
    \/ CommitUpdate(q) \/ CommitDelete(q) \/ CommitMerge(q) \/ CommitSplit(q)
    \/ CommitNote(q) \/ Abort(q)
    \/ RecordFeedback(q) \/ AuditFalsePositive(q) \/ Audit(q) \/ LoseAudit(q) \/ Interrupt(q)

Quiescent == /\ \A q \in Requests : pc[q] \in Ended
             /\ UNCHANGED vars

Next == \/ \E q \in Requests : Start(q) \/ Handle(q)
        \/ RunCleanup
        \/ Crash
        \/ Quiescent

Spec == Init /\ [][Next]_vars

\* A handler that has been given a thread keeps running; nothing says that a
\* waiting request is ever picked up, that the job runs, or that the server dies.
FairSpec == Spec /\ \A q \in Requests : WF_vars(Handle(q))

-----------------------------------------------------------------------------
(* Properties *)

IsTable(t, Keys, Row) == DOMAIN t \subseteq Keys /\ t \in [DOMAIN t -> Row]

TablesOK ==
    /\ alerts \subseteq Alerts
    /\ IsTable(incidents, IncidentIds, IncidentRow)
    /\ links \subseteq LinkRow
    /\ IsTable(stats, Rules, StatRow)
    /\ feedback \subseteq [request : Requests, incident : IncidentIds]
    /\ audit \subseteq [request : Requests, action : AuditActions]

SessionsOK ==
    /\ pc \in [Requests -> {"idle"} \cup Running \cup Ended]
    /\ call \in [Requests -> Calls]
    /\ DOMAIN seen = Requests
    /\ \A q \in Requests : IsTable(seen[q], IncidentIds, IncidentRow)
    /\ rows \in [Requests -> SUBSET LinkRow]
    /\ pending \in [Requests -> Seq(IncidentIds)]
    /\ counted \in [Requests -> Int]
    /\ DOMAIN seenStats = Requests
    /\ \A q \in Requests : IsTable(seenStats[q], Rules, StatRow)

\* Every table and every session holds rows of its own shape: no weight leaves
\* 0.1..1.0, and every key is that of an alert, or of an incident that was seeded or
\* split off.  (A status may be any text: PUT does not check it.)
TypeOK == TablesOK /\ SessionsOK

\* A closed incident has its closed_at set, or the retention job would keep it
\* for ever, however the column-wise writes of overlapping requests combine.
ClosedIncidentsAreDated ==
    \A i \in DOMAIN incidents :
        Closing(incidents[i].status) => incidents[i].closed

\* No link or feedback row ever refers to a row that is gone, although handlers
\* insert rows for incidents and alerts they read some transactions ago.
RowsResolve ==
    /\ \A l \in links : l.incident \in DOMAIN incidents /\ l.alert \in alerts
    /\ \A f \in feedback : f.incident \in DOMAIN incidents

\* What the audit trail and the feedback table say of a request did happen: no
\* rejected or rolled-back request leaves a row in either.
RecordsAreTrue ==
    \A e \in audit \cup feedback : pc[e.request] \in Applied

\* The recorded false positives of a rule never exceed the incidents linked by
\* that rule which were really marked (lost updates may make them fewer), and
\* weight and rate are computed over the same number of incidents.
Marks(r) == {q \in Requests :
                pc[q] \in Applied /\ IsMark(call[q]) /\ r \in RuleNames(q)}
TallyNeverExceedsMarks ==
    \A r \in DOMAIN stats :
        stats[r].fp <= Cardinality(Marks(r)) /\ stats[r].total = stats[r].fp

\* Served one at a time, every mark is counted once for each rule of the incident.
TallyIsExact ==
    \A r \in Rules :
        (IF r \in DOMAIN stats THEN stats[r].fp ELSE 0) = Cardinality(Marks(r))

\* Merging and splitting move alerts between incidents and never out of all of
\* them, in whatever order overlapping handlers commit: an alert that is still
\* stored loses its last link only when an incident is deleted or purged.
NoAlertOrphaned ==
    [][\A a \in AlertsIn(links) \cap alerts' :
          a \in AlertsIn(links') \/ ~(DOMAIN incidents \subseteq DOMAIN incidents')]_vars

\* Served one at a time, the alert_count column of every incident is the number of its
\* link rows, through any chain of merges (which add the columns) and splits (which count
\* the rows they move), until an alert is purged, be it under a handler that has loaded its
\* links.  Then the column, which the retention job leaves alone, is never below.
AlertCountIsLinkCount ==
    \A i \in DOMAIN incidents :
        /\ incidents[i].alertCount >= Cardinality(LinksOf(i))
        /\ alerts = Alerts => incidents[i].alertCount = Cardinality(LinksOf(i))

\* Served one at a time, every handler acts at once and completely on the status and scope
\* of incidents and on who holds which alerts, whatever it reads in how many steps, is
\* purged under it or killed after.
Ledger == INSTANCE IncidentLedger WITH
    Ids <- IncidentIds, Statuses <- Statuses, Expiring <- OldAlerts,
    Closed <- {s \in Statuses : Closing(s)},
    SeedScopes <- [i \in Seeds |-> Scope(SeedAlerts[i])],
    status <- [i \in DOMAIN incidents |-> incidents[i].status],
    scope <- [i \in DOMAIN incidents |-> incidents[i].scope],
    holds <- [i \in DOMAIN incidents |-> Linked(i)]
ActsAtOnce == Ledger!Spec

\* Served one at a time, a merge leaves the master holding every alert and every
\* attribute of the incidents it absorbs.
MergeAbsorbs ==
    [][\A q \in Requests : Op(q) = "merge" /\ pc[q] = "ready" /\ pc'[q] = "committed" =>
          LET master == call[q].ids[1]
          IN  \A i \in Named(call[q]) :
                /\ Linked(i) \subseteq {l.alert : l \in {m \in links' : m.incident = master}}
                /\ incidents[i].scope \subseteq incidents'[master].scope]_vars

\* With server and database up, a change that has been committed is audited in the end.
\* Only a merge or split may find that the incident whose id it has to read again has
\* been deleted since.
Audited(q) == \E e \in audit : e.request = q /\ e.action = AuditName(q)
CommittedIsAudited ==
    \A q \in Requests :
        pc[q] = "committed" ~>
            \/ Audited(q)
            \/ Op(q) \in {"merge", "split"} /\ ~(FeedbackPossible(q) /\ AuditPossible(q))
=============================================================================
