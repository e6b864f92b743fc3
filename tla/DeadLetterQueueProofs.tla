----------------------- MODULE DeadLetterQueueProofs -----------------------
(***************************************************************************)
(* For any number of records and of overlapping, failing or killed         *)
(* operations: a settled record is never pending again, and retry_count    *)
(* loses increments but never all of them.  As long as no two operations   *)
(* were in progress at once, it loses none, and the gauge is right.        *)
(***************************************************************************)
EXTENDS MCDeadLetterQueue, FiniteSetTheorems, TLAPS

\* Sessions are functions, and only a committed operation has left the first stages
\* or has a record named after it.
Shape ==
    /\ DOMAIN seen = Requests
    /\ \A q \in Requests : pc[q] \in {"idle", "loaded"} => q \notin committed \cup DOMAIN queue
    /\ \A q \in Requests : call[q].op = "add" => DOMAIN seen[q] = {}

\* What an operation in progress has read may be out of date, but the row has since
\* gained retries and left "pending" only.
Faithful ==
    \A q \in Requests : pc[q] = "loaded" => \A r \in DOMAIN seen[q] :
        /\ seen[q][r].retries <= Cardinality(Retries(r))
        /\ seen[q][r].status # "pending" => queue[r].status # "pending"

Inv == TypeOK /\ Shape /\ Faithful /\ RetryCountBounds /\ SettledIsNotPending

-----------------------------------------------------------------------------
LEMMA RetriesFinite ==
    ASSUME TypeOK, NEW r
    PROVE  IsFiniteSet(Retries(r)) /\ Cardinality(Retries(r)) \in Nat
<1>1. Retries(r) \subseteq Requests /\ IsFiniteSet(Requests)
  BY QueueAssumption DEF Retries, TypeOK
<1> QED
  BY <1>1, FS_Subset, FS_CardinalityType

LEMMA InvInit == Init => Inv
<1> SUFFICES ASSUME Init PROVE Inv
  OBVIOUS
<1>1. /\ \A q \in Requests : seen[q] = <<>> /\ DOMAIN seen[q] = {} /\ pc[q] = "idle"
      /\ committed = {} /\ DOMAIN queue = Stored /\ Stored \cap Requests = {}
      /\ \A r \in Stored : queue[r] = NewRecord
  BY QueueAssumption DEF Init
<1>2. TypeOK
  BY <1>1 DEF Init, TypeOK, Ids, Record, NewRecord, Idle, Operations
<1>3. Shape /\ Faithful /\ SettledIsNotPending
  BY <1>1 DEF Init, Shape, Faithful, SettledIsNotPending
<1>4. RetryCountBounds
  <2>1. \A r \in DOMAIN queue : Retries(r) = {} /\ queue[r].retries = 0
    BY <1>1 DEF Retries, NewRecord
  <2> QED
    BY <2>1, FS_EmptySet DEF RetryCountBounds
<1> QED
  BY <1>2, <1>3, <1>4 DEF Inv

\* An operation reads: what it holds is what the table says now.
LEMMA InvBegin ==
    ASSUME Inv, NEW q \in Requests, NEW c \in Calls, Begin(q, c)
    PROVE  Inv'
<1>1. /\ pc[q] = "idle" /\ call' = [call EXCEPT ![q] = c]
      /\ UNCHANGED <<queue, gauge, counted, committed>>
      /\ DOMAIN seen' = Requests
      /\ \A p \in Requests : p # q => pc'[p] = pc[p] /\ seen'[p] = seen[p] /\ call'[p] = call[p]
      /\ pc' \in [Requests -> {"idle"} \cup Stages \cup Outcomes]
      /\ pc'[q] # "idle"
  BY DEF Begin, Inv, TypeOK, Shape, Stages, Outcomes
<1>2. c \in [op : Operations, target : Ids \cup {NoRecord}]
  BY DEF Calls, Operations, Inv, TypeOK
<1>3. pc'[q] = "loaded" => seen'[q] = [r \in Wanted(c) |-> queue[r]] /\ Wanted(c) \subseteq DOMAIN queue
  BY DEF Begin, Inv, TypeOK, Shape
<1>4. pc'[q] # "loaded" => seen'[q] = seen[q]
  BY DEF Begin, Inv, TypeOK
<1>5. TypeOK'
  <2>1. ASSUME NEW p \in Requests
        PROVE  DOMAIN seen'[p] \subseteq DOMAIN queue /\ \A r \in DOMAIN seen'[p] : seen'[p][r] \in Record
    BY <1>1, <1>3, <1>4 DEF Inv, TypeOK
  <2> QED
    BY <1>1, <1>2, <2>1 DEF Inv, TypeOK
<1>6. \A r : Retries(r)' = Retries(r)
  <2>1. q \notin committed /\ committed \subseteq Requests
    BY <1>1 DEF Inv, Shape, TypeOK
  <2> QED
    BY <1>1, <2>1 DEF Retries
<1>7. RetryCountBounds' /\ SettledIsNotPending'
  BY <1>1, <1>6 DEF Inv, Shape, RetryCountBounds, SettledIsNotPending, TypeOK, Pending
<1>9. Shape'
  <2>1. call'[q] = c /\ (c.op = "add" => Wanted(c) = {} /\ pc'[q] = "loaded")
    BY <1>1 DEF Begin, Wanted, Inv, TypeOK
  <2> QED
    BY <1>1, <1>3, <2>1 DEF Inv, Shape
<1>8. Faithful'
  <2> SUFFICES ASSUME NEW p \in Requests, pc'[p] = "loaded", NEW r \in DOMAIN seen'[p]
               PROVE  /\ seen'[p][r].retries <= Cardinality(Retries(r))
                      /\ seen'[p][r].status # "pending" => queue[r].status # "pending"
    BY <1>1, <1>6 DEF Faithful
  <2>1. CASE p = q
    BY <1>3, <2>1 DEF Inv, RetryCountBounds
  <2>2. CASE p # q
    BY <1>1, <2>2 DEF Inv, Faithful
  <2> QED
    BY <2>1, <2>2
<1> QED
  BY <1>5, <1>7, <1>8, <1>9 DEF Inv

-----------------------------------------------------------------------------
(* A commit *)

\* The new table: add() inserts a row, the others change the rows they have read.
LEMMA CommitRows ==
    ASSUME Inv, NEW q \in Requests, Commit(q)
    PROVE  /\ call[q].op = "add" => /\ DOMAIN queue' = DOMAIN queue \cup {q}
                                    /\ queue'[q] = NewRecord
                                    /\ \A r \in DOMAIN queue : queue'[r] = queue[r]
           /\ call[q].op # "add" => /\ DOMAIN queue' = DOMAIN queue
                                    /\ \A r \in DOMAIN queue : queue'[r] =
                                         IF r \in DOMAIN seen[q]
                                         THEN Changed(queue[r], seen[q][r], call[q].op)
                                         ELSE queue[r]
  BY DEF Commit, Inv, Shape, Written

\* A changed row is a row, is not pending, and counts a retry.
LEMMA ChangedRow ==
    ASSUME NEW row \in Record, NEW old \in Record, NEW op,
           old.status # "pending" => row.status # "pending"
    PROVE  /\ Changed(row, old, op) \in Record
           /\ Changed(row, old, op).status # "pending"
           /\ Changed(row, old, op).retries = IF op = "discard" THEN row.retries ELSE old.retries + 1
<1>1. CASE op = "discard"
  BY <1>1 DEF Changed, Assigned, Record
<1>2. CASE op # "discard"
  BY <1>2 DEF Changed, Assigned, Record
<1> QED
  BY <1>1, <1>2

LEMMA InvCommit ==
    ASSUME Inv, NEW q \in Requests, Commit(q)
    PROVE  Inv'
<1>1. /\ pc[q] = "loaded" /\ pc' = [pc EXCEPT ![q] = "committed"]
      /\ committed' = committed \cup {q} /\ q \notin committed /\ q \notin DOMAIN queue
      /\ UNCHANGED <<gauge, call, seen, counted>>
  BY DEF Commit, Inv, Shape
<1>2. /\ DOMAIN queue \subseteq Ids /\ q \in Ids
      /\ \A r \in DOMAIN queue : queue[r] \in Record
      /\ \A p \in Requests : DOMAIN seen[p] \subseteq DOMAIN queue
                             /\ \A r \in DOMAIN seen[p] : seen[p][r] \in Record
      /\ committed \subseteq Requests /\ call[q].op \in Operations
  BY DEF Inv, TypeOK, Ids
<1>3. ASSUME NEW r \in DOMAIN seen[q], call[q].op # "add"
      PROVE  /\ queue'[r] \in Record /\ queue'[r].status # "pending"
             /\ queue'[r].retries = IF call[q].op = "discard" THEN queue[r].retries
                                    ELSE seen[q][r].retries + 1
  <2>1. r \in DOMAIN queue /\ queue[r] \in Record /\ seen[q][r] \in Record
    BY <1>2
  <2>2. seen[q][r].status # "pending" => queue[r].status # "pending"
    BY <1>1 DEF Inv, Faithful
  <2>3. queue'[r] = Changed(queue[r], seen[q][r], call[q].op)
    BY <1>3, <2>1, CommitRows
  <2> QED
    BY <2>1, <2>2, <2>3, ChangedRow
<1>4. ASSUME NEW r \in DOMAIN queue, call[q].op = "add" \/ r \notin DOMAIN seen[q]
      PROVE  queue'[r] = queue[r]
  BY <1>4, CommitRows
<1>5. NewRecord \in Record /\ NewRecord.retries = 0
  BY DEF NewRecord, Record
<1>6. DOMAIN queue' = DOMAIN queue \cup (IF call[q].op = "add" THEN {q} ELSE {})
      /\ (call[q].op = "add" => queue'[q] = NewRecord)
  BY CommitRows
<1>7. \A r \in DOMAIN queue' : queue'[r] \in Record
  BY <1>2, <1>3, <1>4, <1>5, <1>6
<1>8. \A r \in DOMAIN queue : queue[r].status # "pending" => queue'[r].status # "pending"
  BY <1>3, <1>4
<1>9. TypeOK'
  <2>1. DOMAIN queue' \subseteq Ids /\ DOMAIN queue \subseteq DOMAIN queue'
    BY <1>2, <1>6
  <2>2. pc' \in [Requests -> {"idle"} \cup Stages \cup Outcomes] /\ committed' \subseteq Requests
    BY <1>1 DEF Inv, TypeOK, Stages
  <2> QED
    BY <1>1, <1>7, <2>1, <2>2 DEF Inv, TypeOK
<1>10. Shape'
  BY <1>1, <1>6 DEF Inv, TypeOK, Shape
<1> DEFINE Counts(r) == call[q].op \in {"retry", "retry_all"} /\ r \in DOMAIN seen[q]
<1>11. ASSUME NEW r
       PROVE  /\ Retries(r)' = IF Counts(r) THEN Retries(r) \cup {q} ELSE Retries(r)
              /\ Cardinality(Retries(r)') =
                    IF Counts(r) THEN Cardinality(Retries(r)) + 1 ELSE Cardinality(Retries(r))
              /\ Cardinality(Retries(r)) \in Nat
  <2>1. Retries(r)' = IF Counts(r) THEN Retries(r) \cup {q} ELSE Retries(r)
    BY <1>1 DEF Retries
  <2>2. IsFiniteSet(Retries(r)) /\ Cardinality(Retries(r)) \in Nat /\ q \notin Retries(r)
    BY <1>1, RetriesFinite DEF Inv, Retries
  <2> QED
    BY <2>1, <2>2, FS_AddElement
<1>12. Faithful'
  <2> SUFFICES ASSUME NEW p \in Requests, pc'[p] = "loaded", NEW r \in DOMAIN seen[p]
               PROVE  /\ seen[p][r].retries <= Cardinality(Retries(r)')
                      /\ seen[p][r].status # "pending" => queue'[r].status # "pending"
    BY <1>1 DEF Faithful
  <2>1. pc[p] = "loaded" /\ r \in DOMAIN queue /\ seen[p][r].retries \in Nat
    BY <1>1, <1>2 DEF Inv, TypeOK, Record
  <2>2. seen[p][r].retries <= Cardinality(Retries(r))
        /\ (seen[p][r].status # "pending" => queue[r].status # "pending")
    BY <2>1 DEF Inv, Faithful
  <2> QED
    BY <1>8, <1>11, <2>1, <2>2
<1>13. RetryCountBounds'
  <2> SUFFICES ASSUME NEW r \in DOMAIN queue'
               PROVE  /\ queue'[r].retries <= Cardinality(Retries(r)')
                      /\ queue'[r].retries = 0 <=> Retries(r)' = {}
    BY DEF RetryCountBounds
  <2>1. CASE r \notin DOMAIN queue
    <3>1. queue'[r] = NewRecord /\ r = q /\ ~Counts(r)
      BY <1>2, <1>6, <2>1
    <3>2. Retries(r) = {}
      BY <1>2, <2>1 DEF Retries
    <3> QED
      BY <1>5, <1>11, <3>1, <3>2, FS_EmptySet
  <2>2. CASE r \in DOMAIN queue /\ Counts(r)
    <3>1. queue'[r].retries = seen[q][r].retries + 1
      BY <1>3, <2>2
    <3>2. seen[q][r].retries <= Cardinality(Retries(r)) /\ seen[q][r].retries \in Nat
      BY <1>1, <1>2, <2>2 DEF Inv, Faithful, Record
    <3>3. Retries(r)' # {} /\ Cardinality(Retries(r)') = Cardinality(Retries(r)) + 1
          /\ Cardinality(Retries(r)) \in Nat
      BY <1>11, <2>2
    <3> QED
      BY <3>1, <3>2, <3>3
  <2>3. CASE r \in DOMAIN queue /\ ~Counts(r)
    <3>1. queue'[r].retries = queue[r].retries
      BY <1>2, <1>3, <1>4, <2>3 DEF Operations
    <3>2. Retries(r)' = Retries(r)
      BY <1>11, <2>3
    <3> QED
      BY <2>3, <3>1, <3>2 DEF Inv, RetryCountBounds
  <2> QED
    BY <2>1, <2>2, <2>3
<1>14. SettledIsNotPending'
  <2> SUFFICES ASSUME NEW p \in committed', NEW r \in DOMAIN seen[p]
               PROVE  r \in DOMAIN queue' => queue'[r].status # "pending"
    BY <1>1 DEF SettledIsNotPending, Pending
  <2>1. r \in DOMAIN queue
    BY <1>1, <1>2
  <2>2. CASE p = q /\ call[q].op # "add"
    BY <1>3, <2>2
  <2>3. CASE p \in committed
    <3>1. queue[r].status # "pending"
      BY <2>1, <2>3 DEF Inv, SettledIsNotPending, Pending
    <3> QED
      BY <1>8, <2>1, <3>1
  <2>4. CASE p = q /\ call[q].op = "add"
    BY <2>4 DEF Inv, Shape
  <2> QED
    BY <1>1, <2>2, <2>3, <2>4
<1> QED
  BY <1>9, <1>10, <1>12, <1>13, <1>14 DEF Inv

-----------------------------------------------------------------------------
(* The steps that leave the table alone *)

LEMMA InvQuiet ==
    ASSUME Inv, UNCHANGED <<queue, call, seen, committed>>,
           gauge' \in Nat, counted' \in [Requests -> Nat],
           pc' \in [Requests -> {"idle"} \cup Stages \cup Outcomes],
           \A q \in Requests : pc'[q] \in {"idle", "loaded"} => pc'[q] = pc[q]
    PROVE  Inv'
<1>1. \A r : Retries(r)' = Retries(r)
  BY DEF Retries
<1>2. TypeOK' /\ Shape'
  BY DEF Inv, TypeOK, Shape
<1>3. RetryCountBounds' /\ SettledIsNotPending'
  BY <1>1 DEF Inv, RetryCountBounds, SettledIsNotPending, Pending
<1>4. Faithful'
  BY <1>1 DEF Inv, Faithful
<1> QED
  BY <1>2, <1>3, <1>4 DEF Inv

LEMMA InvStep == Inv /\ [Next]_vars => Inv'
<1> SUFFICES ASSUME Inv, [Next]_vars PROVE Inv'
  OBVIOUS
<1> USE DEF Stages, Outcomes
<1>1. ASSUME NEW q \in Requests, NEW c \in Calls, Begin(q, c) PROVE Inv'
  BY <1>1, InvBegin
<1>2. ASSUME NEW q \in Requests, Commit(q) PROVE Inv'
  BY <1>2, InvCommit
<1>3. ASSUME NEW q \in Requests, Count(q) PROVE Inv'
  <2>1. Cardinality(Pending) \in Nat
    <3>1. Pending \subseteq Ids /\ IsFiniteSet(Ids)
      BY QueueAssumption, FS_Union DEF Pending, Inv, TypeOK, Ids
    <3> QED
      BY <3>1, FS_Subset, FS_CardinalityType
  <2> QED
    BY <1>3, <2>1, InvQuiet DEF Count, Inv, TypeOK
<1>4. ASSUME NEW q \in Requests, Publish(q) PROVE Inv'
  BY <1>4, InvQuiet DEF Publish, Inv, TypeOK
<1>5. ASSUME NEW q \in Requests, Fail(q) PROVE Inv'
  BY <1>5, InvQuiet DEF Fail, Inv, TypeOK
<1>6. CASE Crash
  BY <1>6, InvQuiet DEF Crash, Busy, Inv, TypeOK
<1>7. CASE UNCHANGED vars
  BY <1>7, InvQuiet DEF vars, Inv, TypeOK
<1> QED
  BY <1>1, <1>2, <1>3, <1>4, <1>5, <1>6, <1>7 DEF Next, Finished

LEMMA Invariance == Spec => []Inv
  BY InvInit, InvStep, PTL DEF Spec

-----------------------------------------------------------------------------
(* What follows *)

\* Every row and every session keeps its shape, whatever fails and overlaps.
THEOREM TypeCorrect == Spec => []TypeOK
<1>1. Inv => TypeOK
  BY DEF Inv
<1> QED
  BY <1>1, Invariance, PTL

\* However many retries of a record overlap, retry_count is between one and their
\* number, and it is zero exactly for records that were never retried.
THEOREM RetryCountBounded == Spec => []RetryCountBounds
<1>1. Inv => RetryCountBounds
  BY DEF Inv
<1> QED
  BY <1>1, Invariance, PTL

\* A record that was retried or discarded is not pending again, whatever operations
\* that read it earlier commit later.
THEOREM SettledStays == Spec => []SettledIsNotPending
<1>1. Inv => SettledIsNotPending
  BY DEF Inv
<1> QED
  BY <1>1, Invariance, PTL

-----------------------------------------------------------------------------
(* One operation at a time *)

\* What an operation has read or counted is what the table says.
Current ==
    \A q \in Requests :
        /\ pc[q] = "loaded" => \A r \in DOMAIN seen[q] : seen[q][r] = queue[r]
        /\ pc[q] = "counted" => counted[q] = Cardinality(Pending)

Exact == \A r \in DOMAIN queue : queue[r].retries = Cardinality(Retries(r))

Alone == ~overlapped => Cardinality(Busy) <= 1 /\ Current /\ Exact

LEMMA BusyFinite ==
    IsFiniteSet(Busy) /\ Cardinality(Busy) \in Nat
<1>1. Busy \subseteq Requests /\ IsFiniteSet(Requests)
  BY QueueAssumption DEF Busy
<1> QED
  BY <1>1, FS_Subset, FS_CardinalityType

LEMMA OnlyOneBusy ==
    ASSUME Cardinality(Busy) <= 1, NEW q \in Busy
    PROVE  \A p \in Busy : p = q
<1>1. IsFiniteSet(Busy) /\ Cardinality(Busy) \in Nat
  BY BusyFinite
<1>2. Cardinality(Busy) # 0
  BY <1>1, FS_EmptySet
<1>3. Cardinality(Busy) = 1
  BY <1>1, <1>2
<1>4. \E x : Busy = {x}
  BY <1>1, <1>3, FS_Singleton
<1> QED
  BY <1>4

LEMMA AloneInit == MCInit => Alone
<1> SUFFICES ASSUME MCInit PROVE Alone
  OBVIOUS
<1>1. Init /\ \A q \in Requests : pc[q] = "idle"
  BY DEF MCInit, Init
<1>2. Busy = {}
  BY <1>1 DEF Busy, Stages
<1>3. Current
  BY <1>1 DEF Current
<1>4. Exact
  <2>1. \A r \in DOMAIN queue : Retries(r) = {} /\ queue[r].retries = 0
    BY <1>1 DEF Init, Retries, NewRecord
  <2> QED
    BY <2>1, FS_EmptySet DEF Exact
<1> QED
  BY <1>2, <1>3, <1>4, FS_EmptySet DEF Alone

\* A commit counts its retry on the number that is in the table.
LEMMA ExactCommit ==
    ASSUME Inv, Current, Exact, NEW q \in Requests, Commit(q)
    PROVE  Exact'
<1>1. /\ pc[q] = "loaded" /\ committed' = committed \cup {q}
      /\ q \notin committed /\ q \notin DOMAIN queue
      /\ UNCHANGED <<call, seen>>
  BY DEF Commit, Inv, Shape
<1>2. /\ \A r \in DOMAIN queue : queue[r] \in Record
      /\ \A p \in Requests : DOMAIN seen[p] \subseteq DOMAIN queue
      /\ committed \subseteq Requests /\ call[q].op \in Operations
  BY DEF Inv, TypeOK
<1> DEFINE Counts(r) == call[q].op \in {"retry", "retry_all"} /\ r \in DOMAIN seen[q]
<1>3. ASSUME NEW r
      PROVE  Cardinality(Retries(r)') =
                IF Counts(r) THEN Cardinality(Retries(r)) + 1 ELSE Cardinality(Retries(r))
  <2>1. Retries(r)' = IF Counts(r) THEN Retries(r) \cup {q} ELSE Retries(r)
    BY <1>1 DEF Retries
  <2>2. IsFiniteSet(Retries(r)) /\ q \notin Retries(r)
    BY <1>1, RetriesFinite DEF Inv, Retries
  <2> QED
    BY <2>1, <2>2, FS_AddElement
<1>4. ASSUME NEW r \in DOMAIN queue
      PROVE  queue'[r].retries = IF Counts(r) THEN queue[r].retries + 1 ELSE queue[r].retries
  <2>1. CASE r \in DOMAIN seen[q] /\ call[q].op # "add"
    <3>1. seen[q][r] = queue[r] /\ queue[r] \in Record
      BY <1>1, <1>2, <2>1 DEF Current
    <3>2. queue'[r] = Changed(queue[r], queue[r], call[q].op)
      BY <2>1, <3>1, CommitRows
    <3>3. queue'[r].retries = IF call[q].op = "discard" THEN queue[r].retries
                              ELSE queue[r].retries + 1
      BY <3>1, <3>2, ChangedRow
    <3> QED
      BY <1>2, <2>1, <3>3 DEF Operations
  <2>2. CASE r \notin DOMAIN seen[q] \/ call[q].op = "add"
    <3>1. queue'[r] = queue[r] /\ ~Counts(r)
      BY <2>2, CommitRows
    <3> QED
      BY <3>1
  <2> QED
    BY <2>1, <2>2
<1>5. ASSUME NEW r \in DOMAIN queue', r \notin DOMAIN queue
      PROVE  queue'[r].retries = 0 /\ ~Counts(r) /\ Retries(r) = {}
  <2>1. r = q /\ queue'[r] = NewRecord
    BY <1>5, CommitRows
  <2> QED
    BY <1>2, <1>5, <2>1 DEF NewRecord, Retries
<1>6. \A r \in DOMAIN queue' : queue'[r].retries = Cardinality(Retries(r)')
  BY <1>3, <1>4, <1>5, FS_EmptySet DEF Exact
<1> QED
  BY <1>6 DEF Exact

LEMMA AloneStep == Inv /\ Alone /\ [MCNext]_<<vars, overlapped>> => Alone'
<1> SUFFICES ASSUME Inv, Alone, [MCNext]_<<vars, overlapped>>, ~overlapped' PROVE Alone'
  BY DEF Alone
<1>1. ~overlapped /\ Cardinality(Busy) <= 1 /\ Cardinality(Busy') <= 1
  <2>1. Cardinality(Busy') \in Nat
    <3>1. Busy' \subseteq Requests /\ IsFiniteSet(Requests)
      BY QueueAssumption DEF Busy
    <3> QED
      BY <3>1, FS_Subset, FS_CardinalityType
  <2>2. CASE MCNext
    <3>1. ~overlapped /\ ~(Cardinality(Busy') > 1)
      BY <2>2, Zenon DEF MCNext
    <3>2. Cardinality(Busy') <= 1
      BY <2>1, <3>1
    <3> QED
      BY <3>1, <3>2, Zenon DEF Alone
  <2>3. CASE UNCHANGED <<vars, overlapped>>
    BY <2>3 DEF Alone, Busy, vars
  <2> QED
    BY <2>2, <2>3
<1>2. Current /\ Exact
  BY <1>1 DEF Alone
<1>3. [Next]_vars
  BY DEF MCNext
<1>4. ASSUME UNCHANGED <<queue, call, seen, committed>>,
             \A q \in Requests : pc'[q] \in {"loaded", "counted"} =>
                 pc'[q] = pc[q] /\ counted'[q] = counted[q]
      PROVE  Current' /\ Exact'
  BY <1>2, <1>4 DEF Current, Exact, Retries, Pending
<1>5. ASSUME NEW q \in Requests, NEW c \in Calls, Begin(q, c) PROVE Current' /\ Exact'
  <2>1. /\ pc[q] = "idle" /\ call' = [call EXCEPT ![q] = c]
        /\ UNCHANGED <<queue, counted, committed>> /\ pc'[q] # "counted"
        /\ \A p \in Requests : p # q => pc'[p] = pc[p] /\ seen'[p] = seen[p] /\ call'[p] = call[p]
        /\ pc'[q] = "loaded" => seen'[q] = [r \in Wanted(c) |-> queue[r]]
    BY <1>5 DEF Begin, Inv, TypeOK, Shape
  <2>2. Current'
    BY <1>2, <2>1 DEF Current, Pending
  <2>3. \A r : Retries(r)' = Retries(r)
    <3>1. q \notin committed /\ committed \subseteq Requests
      BY <2>1 DEF Inv, Shape, TypeOK
    <3> QED
      BY <2>1, <3>1 DEF Retries
  <2> QED
    BY <1>2, <2>1, <2>2, <2>3 DEF Exact
<1>6. ASSUME NEW q \in Requests, Commit(q) PROVE Current' /\ Exact'
  <2>1. pc[q] = "loaded" /\ pc' = [pc EXCEPT ![q] = "committed"] /\ pc \in [Requests -> {"idle"} \cup Stages \cup Outcomes]
    BY <1>6 DEF Commit, Inv, TypeOK
  <2>2. \A p \in Requests : p # q => pc[p] \notin Stages
    BY <1>1, <2>1, OnlyOneBusy DEF Busy, Stages
  <2>3. \A p \in Requests : pc'[p] \notin {"loaded", "counted"}
    BY <2>1, <2>2 DEF Stages
  <2>4. Current'
    BY <2>3 DEF Current
  <2> QED
    BY <1>2, <1>6, <2>4, ExactCommit
<1>7. ASSUME NEW q \in Requests, Count(q) PROVE Current' /\ Exact'
  <2>1. /\ pc' = [pc EXCEPT ![q] = "counted"] /\ UNCHANGED <<queue, call, seen, committed>>
        /\ counted' = [counted EXCEPT ![q] = Cardinality(Pending)]
        /\ pc \in [Requests -> {"idle"} \cup Stages \cup Outcomes]
        /\ counted \in [Requests -> Nat]
    BY <1>7 DEF Count, Inv, TypeOK
  <2> QED
    BY <1>2, <2>1 DEF Current, Exact, Retries, Pending
<1>8. ASSUME NEW q \in Requests, Publish(q) \/ Fail(q) PROVE Current' /\ Exact'
  BY <1>4, <1>8 DEF Publish, Fail, Inv, TypeOK
<1>9. CASE Crash
  <2>1. Current' /\ Exact'
    BY <1>4, <1>9 DEF Crash
  <2> QED
    BY <1>1, <2>1 DEF Alone
<1>10. CASE UNCHANGED vars
  <2>1. Current' /\ Exact'
    BY <1>4, <1>10 DEF vars
  <2> QED
    BY <1>1, <2>1 DEF Alone
<1>11. Current' /\ Exact' => Alone'
  BY <1>1 DEF Alone
<1> QED
  BY <1>3, <1>5, <1>6, <1>7, <1>8, <1>9, <1>10, <1>11 DEF Next, Finished

LEMMA AloneAlways == MCSpec => []Inv /\ []Alone
<1>1. MCInit => Inv
  BY InvInit DEF MCInit
<1>2. Inv /\ [MCNext]_<<vars, overlapped>> => Inv'
  <2>1. [MCNext]_<<vars, overlapped>> => [Next]_vars
    BY DEF MCNext
  <2> QED
    BY <2>1, InvStep
<1> QED
  BY <1>1, <1>2, AloneInit, AloneStep, PTL DEF MCSpec

\* As long as no two operations were in progress at once, retry_count is the number of
\* committed retries of a record, also of those that failed after their commit or were
\* killed.
THEOREM RetriesCounted == MCSpec => []RetryCountExact
<1>1. Alone => RetryCountExact
  BY DEF Alone, Exact, RetryCountExact
<1> QED
  BY <1>1, AloneAlways, PTL

\* As long as no two operations were in progress at once, one that reports success
\* leaves the gauge at the number of pending records.
THEOREM GaugeRefreshed == MCSpec => SuccessRefreshesGauge
<1>1. Inv /\ Alone /\ [MCNext]_<<vars, overlapped>> =>
          (~overlapped' => \A q \in Requests :
              pc[q] # "ok" /\ pc'[q] = "ok" => gauge' = Cardinality(Pending'))
  <2> SUFFICES ASSUME Inv, Alone, [MCNext]_<<vars, overlapped>>, ~overlapped',
                      NEW q \in Requests, pc[q] # "ok", pc'[q] = "ok"
               PROVE  gauge' = Cardinality(Pending')
    OBVIOUS
  <2>1. Next
    BY DEF MCNext, vars
  <2>2. ~overlapped
    BY DEF MCNext, vars
  <2>3. Publish(q)
    <3>1. ASSUME NEW p \in Requests, p # q PROVE ~Publish(p)
      BY <3>1 DEF Publish, Inv, TypeOK
    <3>2. \A p \in Requests : ~Commit(p) /\ ~Count(p) /\ ~Fail(p) /\ \A c \in Calls : ~Begin(p, c)
      BY DEF Commit, Count, Fail, Begin, Inv, TypeOK
    <3>3. ~Crash /\ ~Finished
      BY DEF Crash, Finished, vars
    <3> QED
      BY <2>1, <3>1, <3>2, <3>3 DEF Next
  <2>4. pc[q] = "counted" /\ gauge' = counted[q] /\ queue' = queue
    BY <2>3 DEF Publish
  <2>5. counted[q] = Cardinality(Pending)
    BY <2>2, <2>4 DEF Alone, Current
  <2> QED
    BY <2>4, <2>5 DEF Pending
<1> QED
  BY <1>1, AloneAlways, PTL DEF MCSpec, SuccessRefreshesGauge
=============================================================================
