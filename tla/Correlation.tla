---------------------------- MODULE Correlation ----------------------------
(***************************************************************************)
(* CorrelationEngine.correlate (src/correlation/engine.py) and the vector  *)
(* store of its semantic rule, as pure algorithms on a batch of alerts.    *)
(* An embedding is abstracted to how similar it is to the others.          *)
(***************************************************************************)
EXTENDS Integers, Sequences, FiniteSets

CONSTANTS
    Alert,      \* the alerts that can be in a batch: a function to normalised alerts
    None,       \* an absent field, and the zone of a timestamp that names none
    Enabled,    \* correlation_rules
    Window,     \* correlation_window_minutes, in ticks of the clock
    Minute,     \* ticks in a minute
    Similarity, \* Similarity[a][b]: the cosine of two embeddings
    Threshold   \* correlation_semantic_threshold

Ids == DOMAIN Alert

Named(value) == IF value = None THEN "unknown" ELSE value

\* get_group_key of the five rules that look at one alert.  The time rule formats the
\* wall-clock time, whatever its zone, down to the minute.
Key(rule, a) ==
    CASE rule = "time_based" -> <<"time", (Alert[a].wall - Window) \div Minute>>
      [] rule = "asset_based" -> <<"asset", Named(Alert[a].host)>>
      [] rule = "user_based" -> <<"user", Named(Alert[a].user)>>
      [] rule = "network_based" -> <<"network", Named(Alert[a].source_ip)>>
      [] rule = "rule_based" -> <<"rule", Alert[a].event_type>>

\* (variant of the search that ignores the threshold)
NearestOfAll(store, a) == {b \in store : \A d \in store : Similarity[a][b] >= Similarity[a][d]}
\* VectorStore.search: the stored alerts above the threshold that are most similar.
Nearest(store, a) ==
    {b \in store : /\ Similarity[a][b] >= Threshold
                   /\ \A d \in store : Similarity[a][b] >= Similarity[a][d]}

\* The earlier alerts that are nearest to the n-th; the store has kept all of them.
Near(given, n) ==
    {m \in 1..(n - 1) : given[m] \in Nearest({given[k] : k \in 1..(n - 1)}, given[n])}
First(S) == CHOOSE m \in S : \A k \in S : m <= k

\* The semantic rule over the alerts that an engine has been given, in order: each joins
\* the group of the stored alert it is most similar to (the earliest of equals), or founds
\* one.  Nothing empties the store.
SemanticKeys(given) ==
    LET key[n \in 1..Len(given)] ==
            IF Near(given, n) = {} THEN <<"semantic", given[n]>> ELSE key[First(Near(given, n))]
    IN  key

\* The alerts of each group of a batch, by key, when the engine has seen others before:
\* every alert is in one group of every rule.
Groups(before, batch) ==
    LET keys == SemanticKeys(before \o batch)
        plain == {<<Key(rule, batch[n]), batch[n]>> :
                     rule \in Enabled \ {"semantic_based"}, n \in 1..Len(batch)}
        semantic == IF "semantic_based" \in Enabled
                    THEN {<<keys[Len(before) + n], batch[n]>> : n \in 1..Len(batch)} ELSE {}
        pairs == plain \cup semantic
    IN  [key \in {p[1] : p \in pairs} |-> {p[2] : p \in {q \in pairs : q[1] = key}}]

\* min() and max() of a group's timestamps raise when only some of them have a zone.
Comparable(group) ==
    \A a, b \in group : Alert[a].zone = None <=> Alert[b].zone = None
Correlates(before, batch) ==
    LET groups == Groups(before, batch) IN \A key \in DOMAIN groups : Comparable(groups[key])
=============================================================================
