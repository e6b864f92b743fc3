------------------------------ MODULE Analysis -----------------------------
(***************************************************************************)
(* What analysts and the AI engine write on one incident: POST /analyze,   *)
(* /incidents/{id}/ai-override and PUT /incidents/{id}                     *)
(* (src/api/routes/incidents.py) over AIAnalysisEngine and its providers   *)
(* (src/ai).  A request reads the row, may wait for a provider, and        *)
(* commits the columns that it changed; requests overlap at will.          *)
(***************************************************************************)
EXTENDS Naturals, FiniteSets

CONSTANTS
    Requests,   \* API requests; each is handled once
    Texts,      \* values of a column
    Null,       \* NULL
    Overrides,  \* bodies of overrides: functions from columns to texts
    KeySet,     \* whether an OpenAI key is configured
    Default,    \* the technique the rules fall back on
    AiMode      \* the provider of requests that name none

Providers == {"rule", "openai", "local"}

ASSUME AnalysisAssumption ==
    /\ Null \notin Texts /\ Default \in Texts
    /\ KeySet \in BOOLEAN
    /\ AiMode \in Providers

\* The columns that requests overwrite.  ai_summary, recommended_actions and
\* ai_confidence are assigned whenever root_cause is, and stand for nothing of their own.
Columns == {"root_cause", "mitre_technique_id", "severity"}

ASSUME OverrideAssumption == Overrides \subseteq UNION {[C -> Texts] : C \in SUBSET Columns}

VARIABLES
    row,       \* the columns of the incident
    request,   \* the requests
    feedback,  \* rows of analyst_feedback
    touched    \* history: the columns others have changed since a request read the row

vars == <<row, request, feedback, touched>>

Nothing == [c \in {} |-> Null]
NotCalled == [pc |-> "idle", op |-> "none", provider |-> "none", seen |-> Nothing, set |-> Nothing]
Stages == {"asking", "ready", "recording"}

Init ==
    /\ row = [c \in Columns |-> Null]
    /\ request = [q \in Requests |-> NotCalled]
    /\ feedback = {}
    /\ touched = [q \in Requests |-> {}]

Bodies(op) ==
    CASE op = "override" -> Overrides [] op = "update" -> [{"severity"} -> Texts]

\* An override or an update: the body names the columns.
Load(q, op, body) ==
    /\ request[q].pc = "idle" /\ body \in Bodies(op)
    /\ request' = [request EXCEPT ![q] = [pc |-> "ready", op |-> op, provider |-> "none",
                                          seen |-> row, set |-> body]]
    /\ UNCHANGED <<row, feedback, touched>>

\* An analysis with the named provider, or the configured one, or for a name that is
\* none the rules.
Analyze(q, name) ==
    /\ request[q].pc = "idle"
    /\ request' = [request EXCEPT ![q] =
           [pc |-> "asking", op |-> "analyze", provider |-> name, seen |-> row, set |-> Nothing]]
    /\ UNCHANGED <<row, feedback, touched>>

Chosen(name) == IF name = "default" THEN AiMode ELSE IF name \in Providers THEN name ELSE "rule"

\* What an answer assigns: the first technique, if there is one.
Answer(text, technique) ==
    [c \in {"root_cause"} \cup (IF technique = Null THEN {} ELSE {"mitre_technique_id"})
        |-> IF c = "root_cause" THEN text ELSE technique]

\* RuleBasedProvider: the incident's own technique, or T1078.
RuleAnswers(seen) ==
    {Answer(text, IF seen["mitre_technique_id"] = Null THEN Default ELSE seen["mitre_technique_id"]) :
        text \in Texts}

RemoteAnswers == {Answer(text, tech) : text \in Texts, tech \in Texts \cup {Null}}

\* The handler will assign an answer.
Answered(q, answer) ==
    request' = [request EXCEPT ![q] = [pc |-> "ready", op |-> "analyze", provider |-> @.provider,
                                       seen |-> @.seen, set |-> answer]]

\* The call of the provider: the rules answer in its place when it has nothing to say.
Ask(q) ==
    LET provider == Chosen(request[q].provider)
    IN  /\ request[q].pc = "asking"
        /\ \/ \E answer \in RuleAnswers(request[q].seen) : Answered(q, answer)
           \/ /\ provider = "local" \/ (provider = "openai" /\ KeySet)
              /\ \E answer \in RemoteAnswers : Answered(q, answer)
        /\ UNCHANGED <<row, feedback, touched>>

\* (variant: every column that was assigned is written)
AllSet(r) == DOMAIN r.set
\* (variant that only fills empty columns)
Empty(r) == {c \in DOMAIN r.set : r.seen[c] = Null}
\* A column assigned the value that was read is not written.
Dirty(r) == {c \in DOMAIN r.set : r.set[c] # r.seen[c]}

\* The flush.
Write(r) == [c \in Columns |-> IF c \in Dirty(r) THEN r.set[c] ELSE row[c]]

Commit(q) ==
    LET r == request[q]
    IN  /\ r.pc = "ready"
        /\ row' = Write(r)
        /\ request' = [request EXCEPT ![q].pc = IF r.op = "override" THEN "recording" ELSE "done"]
        /\ touched' = [p \in Requests |->
              IF p # q /\ request[p].pc \in Stages
              THEN touched[p] \cup {c \in Columns : row'[c] # row[c]} ELSE touched[p]]
        /\ UNCHANGED feedback

\* The feedback row of an override.  The commit has expired the incident: its new values
\* are read again.
Record(q) ==
    /\ request[q].pc = "recording"
    /\ feedback' = feedback \cup {[request |-> q, previous |-> request[q].seen, new |-> row]}
    /\ request' = [request EXCEPT ![q].pc = "done"]
    /\ UNCHANGED <<row, touched>>

\* The database raises: the override stays without its feedback.
Fail(q) ==
    /\ request[q].pc \in {"ready", "recording"}
    /\ request' = [request EXCEPT ![q].pc = IF @ = "ready" THEN "rolled back" ELSE "unrecorded"]
    /\ UNCHANGED <<row, feedback, touched>>

Finished ==
    (\A q \in Requests : request[q].pc \notin {"idle"} \cup Stages) /\ UNCHANGED vars

Names == Providers \cup {"default", "other"}

Next ==
    \/ \E q \in Requests :
           \/ \E op \in {"override", "update"} : \E body \in Bodies(op) : Load(q, op, body)
           \/ \E name \in Names : Analyze(q, name)
           \/ Ask(q) \/ Commit(q) \/ Record(q) \/ Fail(q)
    \/ Finished

Spec == Init /\ [][Next]_vars

-----------------------------------------------------------------------------
(* Properties *)

\* What the feedback row of an override says has changed was changed by the override, or
\* by another request that committed while it ran; and what the override assigned is
\* there unless another request changed that column.
FeedbackIsExplained ==
    \A f \in feedback : \A c \in Columns \ touched[f.request] :
        f.new[c] = IF c \in DOMAIN request[f.request].set THEN request[f.request].set[c]
                   ELSE f.previous[c]

\* An analysis by the rules never replaces a technique that it has read: it assigns the
\* one it was given, and the flush leaves such a column alone.  An analyst's override of
\* the technique stands even if it was committed while the analysis ran.
ByRules(name) == Chosen(name) = "rule" \/ (Chosen(name) = "openai" /\ ~KeySet)
RulesKeepTechnique ==
    [][\A q \in Requests :
           /\ request[q].op = "analyze" /\ ByRules(request[q].provider)
           /\ request[q].pc = "ready" /\ request'[q].pc = "done"
           /\ request[q].seen["mitre_technique_id"] # Null
           => row'["mitre_technique_id"] = row["mitre_technique_id"]]_vars
=============================================================================
