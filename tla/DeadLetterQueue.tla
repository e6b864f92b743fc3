-------------------------- MODULE DeadLetterQueue --------------------------
(***************************************************************************)
(* The dead-letter queue (src/ingestion/dlq.py): a table of payloads that  *)
(* could not be ingested, and the dlq_size gauge of the process.           *)
(*                                                                         *)
(* Each operation opens a session, reads the rows it needs, writes the     *)
(* columns it changed in one commit, and then counts the pending rows in   *)
(* a second session and sets the gauge.  Operations run on the threads of  *)
(* the API's pool and of ingestion, so they interleave between any two of  *)
(* these steps.                                                            *)
(***************************************************************************)
EXTENDS Integers, FiniteSets

CONSTANTS
    Stored,    \* records that are in the table, pending, when the run begins
    Requests,  \* operations; each runs once, and add() names its record by it
    NoRecord,  \* an id that no record has
    Workers,   \* how many operations may be in progress at once
    MayCrash   \* whether the process may be killed

ASSUME QueueAssumption ==
    /\ Stored \cap Requests = {} /\ NoRecord \notin Stored \cup Requests
    /\ IsFiniteSet(Stored) /\ IsFiniteSet(Requests)
    /\ Workers \in Nat /\ MayCrash \in BOOLEAN

Ids == Stored \cup Requests
Record == [status : {"pending", "retried", "discarded"}, retries : Nat]
Operations == {"add", "retry", "discard", "retry_all"}

VARIABLES
    queue,      \* the rows of dead_letter_queue, by primary key
    gauge,      \* the dlq_size gauge
    pc,         \* how far an operation is, or what became of it
    call,       \* [op, target] of an operation
    seen,       \* the rows an operation read
    counted,    \* the pending rows an operation counted
    committed   \* the operations whose commit took effect

vars == <<queue, gauge, pc, call, seen, counted, committed>>

Stages == {"loaded", "committed", "counted"}
Outcomes == {"ok", "not_found", "failed", "lost"}
Busy == {q \in Requests : pc[q] \in Stages}

Pending == {r \in DOMAIN queue : queue[r].status = "pending"}

\* The rows an operation queries for.
Wanted(c) ==
    CASE c.op = "add" -> {} [] c.op = "retry_all" -> Pending [] OTHER -> {c.target}

\* Assigning a column the value that was read does not write the column.
Assigned(row, old, value) == IF old.status = value THEN row.status ELSE value

\* (variant: discard counts as a retry)
DiscardCounts(row, old, op) ==
    [status |-> Assigned(row, old, IF op = "discard" THEN "discarded" ELSE "retried"),
     retries |-> old.retries + 1]
\* (variant: a retry puts the record back)
RetryRequeues(row, old, op) ==
    IF op = "discard" THEN [row EXCEPT !.status = Assigned(row, old, "discarded")]
    ELSE [status |-> Assigned(row, old, "pending"), retries |-> old.retries + 1]
\* (variant: a retry counts only once)
RetryCountsOnce(row, old, op) ==
    IF op = "discard" THEN [row EXCEPT !.status = Assigned(row, old, "discarded")]
    ELSE [status |-> Assigned(row, old, "retried"), retries |-> 1]
\* What a commit makes of a row, given the row the operation had read.
Changed(row, old, op) ==
    IF op = "discard" THEN [row EXCEPT !.status = Assigned(row, old, "discarded")]
    ELSE [status |-> Assigned(row, old, "retried"), retries |-> old.retries + 1]

\* (variant with a status the column does not list)
NewRecordFiled == [status |-> "new", retries |-> 0]
NewRecord == [status |-> "pending", retries |-> 0]

\* The table after the commit: add() inserts a row, the others write those they read.
Written(q) ==
    IF call[q].op = "add"
    THEN [r \in DOMAIN queue \cup {q} |-> IF r = q THEN NewRecord ELSE queue[r]]
    ELSE [r \in DOMAIN queue |->
            IF r \in DOMAIN seen[q] THEN Changed(queue[r], seen[q][r], call[q].op) ELSE queue[r]]

-----------------------------------------------------------------------------
Idle == [op |-> "add", target |-> NoRecord]

Init ==
    /\ queue = [r \in Stored |-> NewRecord]
    /\ gauge = 0
    /\ pc = [q \in Requests |-> "idle"]
    /\ call = [q \in Requests |-> Idle]
    /\ seen = [q \in Requests |-> <<>>]
    /\ counted = [q \in Requests |-> 0]
    /\ committed = {}

\* The operation opens its session and runs its query.
Begin(q, c) ==
    /\ pc[q] = "idle" /\ Cardinality(Busy) < Workers
    /\ call' = [call EXCEPT ![q] = c]
    /\ IF Wanted(c) \subseteq DOMAIN queue
       THEN /\ pc' = [pc EXCEPT ![q] = "loaded"]
            /\ seen' = [seen EXCEPT ![q] = [r \in Wanted(c) |-> queue[r]]]
       ELSE /\ pc' = [pc EXCEPT ![q] = "not_found"]
            /\ UNCHANGED seen
    /\ UNCHANGED <<queue, gauge, counted, committed>>

\* (variant where discard does not update the gauge)
CommitUnpublished(q) ==
    /\ pc[q] = "loaded"
    /\ queue' = Written(q)
    /\ pc' = [pc EXCEPT ![q] = IF call[q].op = "discard" THEN "ok" ELSE "committed"]
    /\ committed' = committed \cup {q}
    /\ UNCHANGED <<gauge, call, seen, counted>>
Commit(q) ==
    /\ pc[q] = "loaded"
    /\ queue' = Written(q)
    /\ pc' = [pc EXCEPT ![q] = "committed"]
    /\ committed' = committed \cup {q}
    /\ UNCHANGED <<gauge, call, seen, counted>>

\* _update_metrics: the query ...
Count(q) ==
    /\ pc[q] = "committed"
    /\ counted' = [counted EXCEPT ![q] = Cardinality(Pending)]
    /\ pc' = [pc EXCEPT ![q] = "counted"]
    /\ UNCHANGED <<queue, gauge, call, seen, committed>>

\* ... and the assignment.
Publish(q) ==
    /\ pc[q] = "counted"
    /\ gauge' = counted[q]
    /\ pc' = [pc EXCEPT ![q] = "ok"]
    /\ UNCHANGED <<queue, call, seen, counted, committed>>

\* The database raises in the commit, which is rolled back, or in the count.  add()
\* still returns the id, retry() and discard() return False, retry_all raises.
Fail(q) ==
    /\ pc[q] \in {"loaded", "committed"}
    /\ pc' = [pc EXCEPT ![q] = "failed"]
    /\ UNCHANGED <<queue, gauge, call, seen, counted, committed>>

\* The process is killed and restarted: its gauge starts at zero.
Crash ==
    /\ MayCrash /\ Busy # {}
    /\ pc' = [q \in Requests |-> IF q \in Busy THEN "lost" ELSE pc[q]]
    /\ gauge' = 0
    /\ UNCHANGED <<queue, call, seen, counted, committed>>

\* Clients only know the ids of records that were added.
Calls == [op : {"add", "retry_all"}, target : {NoRecord}]
            \cup [op : {"retry", "discard"}, target : DOMAIN queue \cup {NoRecord}]

Finished == (\A q \in Requests : pc[q] \in Outcomes) /\ UNCHANGED vars

Next ==
    \/ \E q \in Requests :
           \/ \E c \in Calls : Begin(q, c)
           \/ Commit(q) \/ Count(q) \/ Publish(q) \/ Fail(q)
    \/ Crash
    \/ Finished

Spec == Init /\ [][Next]_vars

-----------------------------------------------------------------------------
(* Properties *)

\* Every row has one of the three statuses, and was read or written as a whole.
TypeOK ==
    /\ DOMAIN queue \subseteq Ids /\ \A r \in DOMAIN queue : queue[r] \in Record
    /\ gauge \in Nat
    /\ pc \in [Requests -> {"idle"} \cup Stages \cup Outcomes]
    /\ call \in [Requests -> [op : Operations, target : Ids \cup {NoRecord}]]
    /\ \A q \in Requests : /\ DOMAIN seen[q] \subseteq DOMAIN queue
                           /\ \A r \in DOMAIN seen[q] : seen[q][r] \in Record
    /\ counted \in [Requests -> Nat]
    /\ committed \subseteq Requests

\* The operations that retried record r.
Retries(r) == {q \in committed : call[q].op \in {"retry", "retry_all"} /\ r \in DOMAIN seen[q]}

\* Overlapping retries of a record may lose increments of retry_count but not all of
\* them, and nothing but a retry increments it.
RetryCountBounds ==
    \A r \in DOMAIN queue :
        /\ queue[r].retries <= Cardinality(Retries(r))
        /\ queue[r].retries = 0 <=> Retries(r) = {}

\* A record that an operator retried or discarded is never offered as pending again,
\* whatever else was in progress, also when the operator was told it had failed.
SettledIsNotPending ==
    \A q \in committed : DOMAIN seen[q] \cap Pending = {}
=============================================================================
