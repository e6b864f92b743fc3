------------------------------ MODULE Intake -------------------------------
(***************************************************************************)
(* Calls of the ingestion service (src/ingestion/service.py) and of the    *)
(* handler of POST /alerts/ingest: a call takes payloads from its source,  *)
(* normalises them or files them in the dead-letter queue, and the alerts  *)
(* then pass deduplication on their way to correlation; those of the       *)
(* handler go to the alerts table instead.                                 *)
(*                                                                         *)
(* Payloads are numbered in the order in which they reach the sources, so  *)
(* that payload i is also the message at offset i - 1 of the Kafka topic,  *)
(* which has one partition and one consumer at a time.                     *)
(***************************************************************************)
EXTENDS Deduplication, FiniteSets, Sequences

CONSTANTS
    Calls,       \* calls; each is made once
    Sources,     \* the sources that are configured
    Length,      \* how many payloads will ever arrive
    Shape,       \* what a payload may be
    Finger,      \* the fingerprint of the alert in a payload
    Raises(_, _), \* correlate() raises when, after these alerts, it is given this batch
    BatchSize,   \* batch_size
    MaxAttempts, \* stop_after_attempt
    Workers,     \* how many calls may be in progress at once
    MayCrash     \* whether the process may be killed

Payloads == 1..Length
Shapes == {"alert",        \* a JSON object that normalises
           "invalid",      \* a JSON object that does not
           "scalar",       \* JSON that is neither an object nor a list
           "garbled",      \* text that is not JSON
           "undecodable"}  \* bytes that are not UTF-8
AllSources == {"kafka", "http", "file", "post"}

ASSUME IntakeAssumption ==
    /\ Sources \subseteq AllSources
    /\ Length \in Nat
    /\ Shape \in [Payloads -> SUBSET Shapes]
    /\ Finger \in [Payloads -> Fingerprints]
    /\ IsFiniteSet(Calls)
    /\ BatchSize \in Nat \ {0} /\ MaxAttempts \in Nat \ {0} /\ Workers \in Nat
    /\ MayCrash \in BOOLEAN

VARIABLES
    log,        \* the payloads that the sources hold
    committed,  \* the offset committed for the consumer group, or NoOffset
    call,       \* the calls
    correlated, \* the alerts that the correlation engine of the process was given, in order
    letters,    \* payloads with a dead-letter record
    unwritten   \* payloads whose dead-letter record could not be written

vars == <<now, expires, log, committed, call, correlated, letters, unwritten>>

NoOffset == -1
arrived == Len(log)
Stages == {"fetching", "fetched", "deduping", "marking", "storing"}
Outcomes == {"done", "raised", "lost"}
Active == {c \in Calls : call[c].pc \in Stages}

Idle == [pc |-> "idle", source |-> "post", pos |-> 0, taken |-> {}, items |-> <<>>,
         kept |-> <<>>, dropped |-> {}]

Init ==
    /\ Fresh
    /\ log = <<>>
    /\ committed = NoOffset
    /\ call = [c \in Calls |-> Idle]
    /\ correlated = <<>>
    /\ letters = {} /\ unwritten = {}

Arrive ==
    /\ arrived < Length
    /\ \E shape \in Shape[arrived + 1] : log' = Append(log, shape)
    /\ UNCHANGED <<now, correlated, expires, committed, call, letters, unwritten>>

\* auto.offset.reset is "latest".
StartOffset == IF committed = NoOffset THEN arrived ELSE committed

Begin(c, source) ==
    /\ call[c].pc = "idle" /\ Cardinality(Active) < Workers
    /\ source = "kafka" => \A d \in Active : call[d].source # "kafka"
    /\ call' = [call EXCEPT ![c].pc = "fetching", ![c].source = source,
                            ![c].pos = IF source = "kafka" THEN StartOffset ELSE 1]
    /\ UNCHANGED <<now, correlated, expires, log, committed, letters, unwritten>>

\* A call that has ended keeps what the properties speak of.
Ended(c, outcome) == [call EXCEPT ![c].pc = outcome, ![c].pos = 0, ![c].items = <<>>]

Fetching(c, sources) == call[c].pc = "fetching" /\ call[c].source \in sources

\* (variant that drops the payloads instead of filing them)
Discard(bad) == UNCHANGED <<letters, unwritten>>
\* DeadLetterQueue.add for each payload; it swallows a failure to write the row.
DeadLetter(bad) ==
    \E failed \in SUBSET bad : /\ letters' = letters \cup (bad \ failed)
                               /\ unwritten' = unwritten \cup failed

(* -- Kafka -------------------------------------------------------------- *)

\* poll() returns a message.  A message that is not JSON goes to the dead letters and
\* does not count; one that is not UTF-8 raises, and closing the consumer commits it.
Poll(c) ==
    LET i == call[c].pos + 1
        took == [call EXCEPT ![c].pos = i, ![c].taken = @ \cup {i}]
    IN  /\ Fetching(c, {"kafka"})
        /\ Len(call[c].items) < BatchSize /\ call[c].pos < arrived
        /\ CASE log[i] = "garbled" ->
                    DeadLetter({i}) /\ call' = took /\ UNCHANGED committed
             [] log[i] = "undecodable" ->
                    /\ call' = [Ended(c, "raised") EXCEPT ![c].taken = @ \cup {i}]
                    /\ committed' = i
                    /\ UNCHANGED <<letters, unwritten>>
             [] OTHER ->
                    /\ call' = [took EXCEPT ![c].items = Append(@, i)]
                    /\ UNCHANGED <<committed, letters, unwritten>>
        /\ UNCHANGED <<now, correlated, expires, log>>

\* The client library commits in the background what poll() has returned.
AutoCommit(c) ==
    /\ Fetching(c, {"kafka"}) /\ call[c].taken # {}
    /\ committed' = call[c].pos
    /\ UNCHANGED <<now, correlated, expires, log, call, letters, unwritten>>

\* (variant: the consumer commits the end of the topic)
CommitsTheEnd(c) == IF call[c].taken # {} THEN arrived ELSE committed
Consumed(c) == IF call[c].taken # {} THEN call[c].pos ELSE committed

\* The batch is full or poll() timed out, which it may do although messages are
\* waiting: the consumer is closed, which commits.
Close(c) ==
    /\ Fetching(c, {"kafka"})
    /\ committed' = Consumed(c)
    /\ call' = [call EXCEPT ![c].pc = "fetched"]
    /\ UNCHANGED <<now, correlated, expires, log, letters, unwritten>>

(* -- The other sources -------------------------------------------------- *)

\* What is not JSON cannot be part of an answer.
WellFormed == {i \in 1..arrived : log[i] \in {"alert", "invalid", "scalar"}}
Objects == {i \in 1..arrived : log[i] \in {"alert", "invalid"}}
Newest == {i \in WellFormed : Cardinality({j \in WellFormed : j > i}) < BatchSize}

\* The n-th smallest element, and the elements in order, of a set of payloads.
Nth(S, n) == CHOOSE i \in S : Cardinality({j \in S : j < i}) = n - 1
NewestFirst(S) == [n \in 1..Cardinality(S) |-> Nth(S, Cardinality(S) + 1 - n)]
OldestFirst(S) == [n \in 1..Cardinality(S) |-> Nth(S, n)]

Received(c, S, items) ==
    call' = [call EXCEPT ![c].pc = "fetched", ![c].taken = S, ![c].items = items]

\* One attempt of an HTTP source: the newest payloads, or an exception.
Fetch(c) ==
    /\ Fetching(c, {"http"})
    /\ \/ Received(c, Newest, NewestFirst(Newest))
       \/ call[c].pos < MaxAttempts /\ call' = [call EXCEPT ![c].pos = @ + 1]
       \/ call[c].pos = MaxAttempts /\ call' = Ended(c, "raised")
    /\ UNCHANGED <<now, correlated, expires, log, committed, letters, unwritten>>

\* ingest_from_local reads every file of its directory in the order of their names,
\* which is taken to be that of their arrival.  One that is not JSON, or neither an object
\* nor a list, is logged and lost.
Read(c) ==
    /\ Fetching(c, {"file"})
    /\ Received(c, 1..arrived, OldestFirst(Objects))
    /\ UNCHANGED <<now, correlated, expires, log, committed, letters, unwritten>>

\* A client of the handler posts a list of objects; anything else is refused.
Post(c) ==
    /\ Fetching(c, {"post"})
    /\ \E S \in SUBSET Objects : Received(c, S, OldestFirst(S))
    /\ UNCHANGED <<now, correlated, expires, log, committed, letters, unwritten>>

(* -- Normalisation, deduplication, hand-over ---------------------------- *)

Good(i) == log[i] = "alert"
Bad(c) == {call[c].items[n] : n \in {m \in 1..Len(call[c].items) : ~Good(call[c].items[m])}}

\* The items that normalise, in their order.
Normalisable(items) ==
    LET good == {n \in 1..Len(items) : Good(items[n])}
    IN  [n \in 1..Cardinality(good) |-> items[Nth(good, n)]]

\* _process_raw_items, the loop of _process_file, and ingest_single for each item.
Process(c) ==
    /\ call[c].pc = "fetched"
    /\ DeadLetter(Bad(c))
    /\ call' = [call EXCEPT
                  ![c].pc = IF call[c].source = "post" THEN "storing" ELSE "deduping",
                  ![c].items = Normalisable(@)]
    /\ UNCHANGED <<now, correlated, expires, log, committed>>

\* (variant that marks an alert before it looks for it)
MarkFirst(c) ==
    LET i == Head(call[c].items) IN
    /\ call[c].pc = "deduping" /\ call[c].items # <<>>
    /\ MarkAsSeen(Finger[i])
    /\ call' = [call EXCEPT ![c].items = Tail(@),
                            ![c].dropped = @ \cup {[item |-> i, at |-> now]}]
    /\ UNCHANGED <<now, correlated, log, committed, letters, unwritten>>
\* deduplicate(): the check of the next alert, which raises when the database does ...
Check(c) ==
    LET i == Head(call[c].items) IN
    /\ call[c].pc = "deduping" /\ call[c].items # <<>>
    /\ \/ /\ IsDuplicate(Finger[i])
          /\ call' = [call EXCEPT ![c].items = Tail(@),
                                  ![c].dropped = @ \cup {[item |-> i, at |-> now]}]
       \/ ~IsDuplicate(Finger[i]) /\ call' = [call EXCEPT ![c].pc = "marking"]
       \/ call' = Ended(c, "raised")
    /\ UNCHANGED <<now, correlated, expires, log, committed, letters, unwritten>>

\* ... and its mark, which may fail without a trace.
Mark(c) ==
    LET i == Head(call[c].items) IN
    /\ call[c].pc = "marking"
    /\ \E marked \in BOOLEAN :
           /\ IF marked THEN MarkAsSeen(Finger[i]) ELSE UNCHANGED expires
           /\ call' = [call EXCEPT
                 ![c].pc = "deduping", ![c].items = Tail(@),
                 ![c].kept = Append(@, [item |-> i, at |-> now, marked |-> marked])]
    /\ UNCHANGED <<now, correlated, log, committed, letters, unwritten>>

Batch(c) == [n \in 1..Len(call[c].kept) |-> call[c].kept[n].item]

\* The alerts that are left are correlated.
HandOver(c) ==
    /\ call[c].pc = "deduping" /\ call[c].items = <<>>
    /\ correlated' = correlated \o Batch(c)
    /\ call' = Ended(c, IF Raises(correlated, Batch(c)) THEN "raised" ELSE "done")
    /\ UNCHANGED <<now, expires, log, committed, letters, unwritten>>

\* ingest_alerts inserts every alert in one commit, which may fail.
Store(c) ==
    /\ call[c].pc = "storing"
    /\ \/ call' = Ended(c, "raised")
       \/ call' = [Ended(c, "done") EXCEPT
             ![c].kept = [n \in 1..Len(call[c].items) |->
                             [item |-> call[c].items[n], at |-> now, marked |-> FALSE]]]
    /\ UNCHANGED <<now, correlated, expires, log, committed, letters, unwritten>>

\* The engine goes with the process.
Crash ==
    /\ MayCrash /\ (Active # {} \/ correlated # <<>>)
    /\ call' = [c \in Calls |-> IF c \in Active THEN Ended(c, "lost")[c] ELSE call[c]]
    /\ correlated' = <<>>
    /\ UNCHANGED <<now, expires, log, committed, letters, unwritten>>

Elapse == Tick /\ UNCHANGED <<log, committed, call, correlated, letters, unwritten>>

Finished == (\A c \in Calls : call[c].pc \in Outcomes) /\ UNCHANGED vars

Next ==
    \/ Arrive \/ Elapse \/ Crash \/ Finished
    \/ \E c \in Calls :
           \/ \E source \in Sources : Begin(c, source)
           \/ Poll(c) \/ AutoCommit(c) \/ Close(c)
           \/ Fetch(c) \/ Read(c) \/ Post(c)
           \/ Process(c) \/ Check(c) \/ Mark(c) \/ HandOver(c) \/ Store(c)

Spec == Init /\ [][Next]_vars

-----------------------------------------------------------------------------
(* Properties *)

Consumers == {c \in Calls : call[c].source = "kafka"}
Polled == UNION {call[c].taken : c \in Consumers}

\* The committed offset never passes a message that no consumer was given, except those
\* that arrived before a consumer that was not killed began: a group that has committed
\* nothing starts at the end of the topic, also after a crash.
NoMessageSkipped ==
    \A i \in 1..committed : i \notin Polled =>
        \A c \in Consumers : call[c].pc # "lost" => \A j \in call[c].taken : i < j

Kept(c) == {call[c].kept[n].item : n \in 1..Len(call[c].kept)}

\* The alerts with a fingerprint that calls let through, with the call.
Entries(f, calls) ==
    UNION {{<<c, call[c].kept[n]>> :
               n \in {m \in 1..Len(call[c].kept) : Finger[call[c].kept[m].item] = f}} :
           c \in calls}
\* Those of which a mark was written, and those that passed deduplication.
Remembered(f) == {r \in Entries(f, Calls) : r[2].marked}
Passed(f) == Entries(f, {c \in Calls : call[c].source # "post"})

\* A call that completed has an alert, a dead letter (written or not) or an earlier
\* alert within the window for every payload it took, whatever the others did.  Only a
\* file that does not hold an object may leave nothing but a line of the log.
NothingVanishes ==
    \A c \in Calls : call[c].pc = "done" => \A i \in call[c].taken :
        \/ i \in letters \cup unwritten \cup Kept(c)
        \/ call[c].source = "file" /\ i \notin Objects
        \/ \E x \in call[c].dropped, r \in Remembered(Finger[i]) :
               x.item = i /\ x.at \in r[2].at..(r[2].at + Window - 1)

\* While no call was killed or raised, what a duplicate was dropped in favour of has
\* reached correlation or is on its way to it.
DropsAreCovered ==
    (\A c \in Calls : call[c].pc \notin {"lost", "raised"}) =>
        \A c \in Calls : \A x \in call[c].dropped :
            \E d \in Active \cup {e \in Calls : call[e].pc = "done"} :
                \E i \in Kept(d) : Finger[i] = Finger[x.item]

\* However often a fingerprint is delivered, also across restarts: of its alerts that
\* pass in any window all but those whose own mark failed are no more than calls can be
\* between their check and their mark at once.  Each failed mark lets one more pass.
DuplicatesBounded ==
    \A f \in Fingerprints : \A t \in 0..MaxTime :
        LET passed == {r \in Passed(f) : r[2].at \in t..(t + Window - 1)}
        IN  Cardinality(passed) <= Workers + Cardinality({r \in passed : ~r[2].marked})
=============================================================================
