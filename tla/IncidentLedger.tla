--------------------------- MODULE IncidentLedger ---------------------------
(***************************************************************************)
(* What the routes of incidents promise to a client that is alone: an      *)
(* incident has a status, a scope (the attributes of what it is about) and *)
(* holds alerts, each request acts on that at once or not at all, and      *)
(* beside the requests only the retention job removes anything.            *)
(***************************************************************************)
CONSTANTS
    Seeds,       \* the incidents there are at first
    SeedAlerts,  \* the alerts each of them holds
    SeedScopes,  \* and its scope
    Ids,         \* the incidents there may be
    Statuses,    \* what a request may set the status to
    Closed,      \* those of them that let an incident be purged
    Expiring     \* the alerts that may be purged

VARIABLES
    status,      \* the status of each incident that is there
    scope,       \* its attributes
    holds        \* the alerts it holds

ledger == <<status, scope, holds>>

live == DOMAIN status

Init ==
    /\ status = [i \in Seeds |-> "open"]
    /\ scope = SeedScopes
    /\ holds = SeedAlerts

SetStatus(i, new) ==
    /\ status' = [status EXCEPT ![i] = new]
    /\ UNCHANGED <<scope, holds>>

Delete(i) ==
    /\ status' = [j \in live \ {i} |-> status[j]]
    /\ scope' = [j \in live \ {i} |-> scope[j]]
    /\ holds' = [j \in live \ {i} |-> holds[j]]

\* The master takes over what the others have; they keep it too, but are merged.
Merge(master, others) ==
    /\ status' = [i \in live |-> IF i \in others THEN "merged" ELSE status[i]]
    /\ scope' = [scope EXCEPT ![master] = @ \cup UNION {scope[i] : i \in others}]
    /\ holds' = [holds EXCEPT ![master] = @ \cup UNION {holds[i] : i \in others}]

\* What moves leaves the one and is held by the other, which is new.  Neither gets an
\* attribute that was not there; how many are left is not promised.
Split(i, new, moving) ==
    /\ status' = [j \in live \cup {new} |-> IF j = new THEN "open" ELSE status[j]]
    /\ \E kept \in SUBSET scope[i], given \in SUBSET scope[i] :
          scope' = [j \in live \cup {new} |->
                      IF j = new THEN given ELSE IF j = i THEN kept ELSE scope[j]]
    /\ holds' = [j \in live \cup {new} |->
                    IF j = new THEN moving
                    ELSE IF j = i THEN holds[i] \ moving ELSE holds[j]]

Purge(expired, old) ==
    /\ status' = [i \in live \ old |-> status[i]]
    /\ scope' = [i \in live \ old |-> scope[i]]
    /\ holds' = [i \in live \ old |-> holds[i] \ expired]

Next ==
    \/ \E i \in live :
           \/ \E new \in Statuses : SetStatus(i, new)
           \/ Delete(i)
           \/ \E others \in (SUBSET (live \ {i})) \ {{}} : Merge(i, others)
           \/ \E new \in Ids \ live, moving \in (SUBSET holds[i]) \ {{}} : Split(i, new, moving)
    \/ \E expired \in SUBSET Expiring, old \in SUBSET {i \in live : status[i] \in Closed} :
           Purge(expired, old)

Spec == Init /\ [][Next]_ledger
=============================================================================
