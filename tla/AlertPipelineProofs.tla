------------------------- MODULE AlertPipelineProofs ------------------------
(***************************************************************************)
(* For any payloads, calls, sources and batch size, also when the process  *)
(* is killed: no message of the topic is skipped, no payload vanishes, and *)
(* what is dropped as a duplicate is represented, and more often than once *)
(* per window only after a failed mark or beside a call that overlaps.     *)
(* Groups by asset, user and network lose no alert to that, unless one of  *)
(* its texts holds the separator of the fingerprint; groups by similarity  *)
(* are connected.                                                          *)
(***************************************************************************)
EXTENDS AlertPipeline, FiniteSetTheorems, SequenceTheorems, WellFoundedInduction, TLAPS

-----------------------------------------------------------------------------
(* Sequences and sets *)

Elems(s) == {s[n] : n \in 1..Len(s)}

LEMMA ElemsAppend ==
    ASSUME NEW X, NEW s \in Seq(X), NEW x \in X
    PROVE  Append(s, x) \in Seq(X) /\ Elems(Append(s, x)) = Elems(s) \cup {x}
<1>1. /\ Append(s, x) \in Seq(X) /\ Len(Append(s, x)) = Len(s) + 1 /\ Len(s) \in Nat
      /\ Append(s, x)[Len(s) + 1] = x
      /\ \A n \in 1..Len(s) : Append(s, x)[n] = s[n]
  OBVIOUS
<1> QED
  BY <1>1 DEF Elems

LEMMA ElemsTail ==
    ASSUME NEW X, NEW s \in Seq(X), s # <<>>
    PROVE  /\ Head(s) \in X /\ Tail(s) \in Seq(X)
           /\ Elems(s) = {Head(s)} \cup Elems(Tail(s))
<1>1. /\ Head(s) \in X /\ Head(s) = s[1] /\ Tail(s) \in Seq(X)
      /\ Len(s) \in Nat \ {0} /\ Len(Tail(s)) = Len(s) - 1
      /\ \A n \in 1..Len(Tail(s)) : Tail(s)[n] = s[n + 1]
  OBVIOUS
<1>2. \A n \in 1..Len(s) : n = 1 \/ n - 1 \in 1..Len(Tail(s))
  BY <1>1
<1>3. \A n \in 1..Len(Tail(s)) : n + 1 \in 1..Len(s)
  BY <1>1
<1>4. Elems(s) \subseteq {Head(s)} \cup Elems(Tail(s))
  BY <1>1, <1>2 DEF Elems
<1>5. Elems(Tail(s)) \subseteq Elems(s) /\ Head(s) \in Elems(s)
  BY <1>1, <1>3 DEF Elems
<1> QED
  BY <1>1, <1>4, <1>5

\* How many elements of a set lie before one of them is injective.
LEMMA NthIs ==
    ASSUME NEW S, IsFiniteSet(S), S \subseteq Int
    PROVE  /\ Cardinality(S) \in Nat
           /\ \A n \in 1..Cardinality(S) : Nth(S, n) \in S
           /\ \A i \in S : \E n \in 1..Cardinality(S) : Nth(S, n) = i
<1> DEFINE Before(i) == {j \in S : j < i}
           T == 1..Cardinality(S)
           rank == [i \in S |-> Cardinality(Before(i)) + 1]
<1>1. Cardinality(S) \in Nat
  BY FS_CardinalityType
<1>2. IsFiniteSet(T) /\ Cardinality(T) = Cardinality(S)
  BY <1>1, FS_Interval
<1>3. ASSUME NEW i \in S
      PROVE  /\ IsFiniteSet(Before(i)) /\ Cardinality(Before(i)) \in Nat
             /\ Cardinality(Before(i)) < Cardinality(S)
  <2>1. Before(i) \subseteq S /\ i \in S \ Before(i)
    OBVIOUS
  <2>2. IsFiniteSet(Before(i)) /\ Cardinality(Before(i)) <= Cardinality(S)
        /\ (Cardinality(S) = Cardinality(Before(i)) => S = Before(i))
    BY <2>1, FS_Subset
  <2>3. S # Before(i)
    BY <2>1
  <2>4. Cardinality(Before(i)) \in Nat
    BY <2>2, FS_CardinalityType
  <2> HIDE DEF Before
  <2> QED
    BY <1>1, <2>2, <2>3, <2>4
<1>4. ASSUME NEW i \in S, NEW k \in S, i < k
      PROVE  Cardinality(Before(i)) < Cardinality(Before(k))
  <2>0. \A j \in S : j < i => j < k
    BY <1>4
  <2>1. Before(i) \subseteq Before(k) /\ i \in Before(k) /\ i \notin Before(i)
    <3>1. i < k /\ ~(i < i)
      BY <1>4
    <3> QED
      BY <2>0, <3>1
  <2>2. Cardinality(Before(i)) \in Nat /\ Cardinality(Before(k)) \in Nat /\ IsFiniteSet(Before(k))
    BY <1>3
  <2> HIDE DEF Before
  <2>3. Before(i) # Before(k)
    BY <2>1
  <2>4. /\ Cardinality(Before(i)) <= Cardinality(Before(k))
        /\ Cardinality(Before(k)) = Cardinality(Before(i)) => Before(k) = Before(i)
    BY <2>1, <2>2, FS_Subset
  <2> QED
    BY <2>2, <2>3, <2>4
<1> HIDE DEF Before
<1>5. ASSUME NEW i \in S, NEW k \in S, Cardinality(Before(i)) = Cardinality(Before(k))
      PROVE  i = k
  <2>1. ~(i < k) /\ ~(k < i)
    BY <1>3, <1>4, <1>5
  <2> QED
    BY <2>1
<1>6. rank \in [S -> T]
  BY <1>1, <1>3
<1>7. rank \in Injection(S, T)
  <2>1. \A i, k \in S : rank[i] = rank[k] => i = k
    BY <1>3, <1>5
  <2> QED
    BY <1>6, <2>1 DEF Injection, IsInjective
<1>8. rank \in Surjection(S, T)
  BY <1>2, <1>7, FS_Injection
<1>9. \A n \in T : \E i \in S : rank[i] = n
  BY <1>8 DEF Surjection
<1>10. ASSUME NEW n \in T PROVE Nth(S, n) \in S /\ Cardinality(Before(Nth(S, n))) = n - 1
  <2>1. PICK i \in S : Cardinality(Before(i)) + 1 = n
    BY <1>9
  <2>2. Cardinality(Before(i)) = n - 1
    BY <1>3, <2>1
  <2> QED
    BY <2>2 DEF Nth, Before
<1>11. ASSUME NEW i \in S PROVE \E n \in T : Nth(S, n) = i
  <2> DEFINE n == Cardinality(Before(i)) + 1
  <2>1. n \in T /\ n - 1 = Cardinality(Before(i))
    BY <1>1, <1>3
  <2>2. Nth(S, n) \in S /\ Cardinality(Before(Nth(S, n))) = n - 1
    BY <1>10, <2>1
  <2>3. Nth(S, n) = i
    BY <1>5, <2>1, <2>2
  <2> QED
    BY <2>1, <2>3
<1> QED
  BY <1>1, <1>10, <1>11

LEMMA NewestFirstIs ==
    ASSUME NEW X, NEW S, IsFiniteSet(S), S \subseteq X, S \subseteq Int
    PROVE  NewestFirst(S) \in Seq(X) /\ Elems(NewestFirst(S)) = S
<1> DEFINE k == Cardinality(S)
           s == NewestFirst(S)
<1>1. k \in Nat /\ (\A n \in 1..k : Nth(S, n) \in S) /\ \A i \in S : \E n \in 1..k : Nth(S, n) = i
  BY NthIs
<1>2. s = [n \in 1..k |-> Nth(S, k + 1 - n)]
  BY DEF NewestFirst
<1>3. \A n \in 1..k : k + 1 - n \in 1..k /\ k + 1 - (k + 1 - n) = n
  BY <1>1
<1> HIDE DEF k, s
<1>4. \A n \in 1..k : s[n] = Nth(S, k + 1 - n) /\ s[n] \in S
  BY <1>1, <1>2, <1>3
<1>5. s \in Seq(X) /\ Len(s) = k
  <2>1. s \in [1..k -> X]
    BY <1>2, <1>4
  <2> QED
    BY <1>1, <2>1
<1>6. \A n \in 1..k : s[k + 1 - n] = Nth(S, n)
  BY <1>3, <1>4
<1>7. \A i \in S : \E n \in 1..k : s[n] = i
  BY <1>1, <1>3, <1>6
<1>8. Elems(s) = S
  BY <1>4, <1>5, <1>7 DEF Elems
<1> QED
  BY <1>5, <1>8 DEF s

LEMMA OldestFirstIs ==
    ASSUME NEW X, NEW S, IsFiniteSet(S), S \subseteq X, S \subseteq Int
    PROVE  OldestFirst(S) \in Seq(X) /\ Elems(OldestFirst(S)) = S
<1> DEFINE k == Cardinality(S)
           s == OldestFirst(S)
<1>1. k \in Nat /\ (\A n \in 1..k : Nth(S, n) \in S) /\ \A i \in S : \E n \in 1..k : Nth(S, n) = i
  BY NthIs
<1>2. s = [n \in 1..k |-> Nth(S, n)]
  BY DEF OldestFirst
<1> HIDE DEF k, s
<1>3. \A n \in 1..k : s[n] = Nth(S, n) /\ s[n] \in S
  BY <1>1, <1>2
<1>4. s \in Seq(X) /\ Len(s) = k
  <2>1. s \in [1..k -> X]
    BY <1>2, <1>3
  <2> QED
    BY <1>1, <1>2, <2>1
<1>5. \A i \in S : \E n \in 1..k : s[n] = i
  BY <1>1, <1>3
<1>6. Elems(s) = S
  BY <1>3, <1>4, <1>5 DEF Elems
<1> QED
  BY <1>4, <1>6 DEF s

LEMMA NormalisableIs ==
    ASSUME NEW X, NEW items \in Seq(X)
    PROVE  /\ Normalisable(items) \in Seq(X)
           /\ Elems(Normalisable(items)) = {i \in Elems(items) : Good(i)}
<1> DEFINE good == {n \in 1..Len(items) : Good(items[n])}
           k == Cardinality(good)
           s == Normalisable(items)
<1>1. IsFiniteSet(good) /\ good \subseteq Int /\ good \subseteq 1..Len(items)
  <2>1. Len(items) \in Nat
    OBVIOUS
  <2>2. IsFiniteSet(1..Len(items)) /\ good \in SUBSET (1..Len(items))
    BY <2>1, FS_Interval
  <2> QED
    BY <2>1, <2>2, FS_Subset
<1>2. s = [n \in 1..k |-> items[Nth(good, n)]]
  BY DEF Normalisable
<1>3. /\ \A n \in good : n \in 1..Len(items) /\ items[n] \in X /\ Good(items[n])
      /\ \A n \in 1..Len(items) : Good(items[n]) => n \in good
  OBVIOUS
<1> HIDE DEF good, k, s
<1>4. k \in Nat /\ (\A n \in 1..k : Nth(good, n) \in good)
      /\ \A i \in good : \E n \in 1..k : Nth(good, n) = i
  BY <1>1, NthIs DEF k
<1>5. s \in Seq(X) /\ Len(s) = k /\ \A n \in 1..k : s[n] = items[Nth(good, n)]
  BY <1>2, <1>3, <1>4
<1>6. Elems(s) \subseteq {i \in Elems(items) : Good(i)}
  BY <1>3, <1>4, <1>5 DEF Elems
<1>7. {i \in Elems(items) : Good(i)} \subseteq Elems(s)
  BY <1>3, <1>4, <1>5 DEF Elems
<1> QED
  BY <1>5, <1>6, <1>7 DEF s

-----------------------------------------------------------------------------
(* Types *)

KeptRow == [item : Payloads, at : Nat, marked : BOOLEAN]
DroppedRow == [item : Payloads, at : Nat]
CallRow ==
    [pc : {"idle"} \cup Stages \cup Outcomes, source : AllSources, pos : Nat,
     taken : SUBSET Payloads, items : Seq(Payloads), kept : Seq(KeptRow),
     dropped : SUBSET DroppedRow]

Typed ==
    /\ now \in Nat
    /\ expires \in [Fingerprints -> Nat]
    /\ log \in Seq(Shapes) /\ arrived <= Length
    /\ committed \in Nat \cup {NoOffset}
    /\ call \in [Calls -> CallRow]

\* A step that changes no other call.
Only(c) == call' \in [Calls -> CallRow] /\ \A d \in Calls \ {c} : call'[d] = call[d]

LEMMA TypedInit == Init => Typed
<1> SUFFICES ASSUME Init PROVE Typed
  OBVIOUS
<1>1. Idle \in CallRow
  BY DEF Idle, CallRow, AllSources
<1>2. arrived = 0 /\ log \in Seq(Shapes) /\ 0 <= Length /\ committed = NoOffset
  BY IntakeAssumption DEF Init, arrived
<1>3. now = 0 /\ expires = [f \in Fingerprints |-> 0] /\ call = [c \in Calls |-> Idle]
  BY DEF Init, Fresh
<1> QED
  BY <1>1, <1>2, <1>3 DEF Typed

\* The end of a call.
LEMMA EndedIs ==
    ASSUME Typed, NEW c \in Calls, NEW outcome \in Outcomes
    PROVE  \E new \in CallRow :
              /\ Ended(c, outcome) = [call EXCEPT ![c] = new]
              /\ new.pc = outcome /\ new.source = call[c].source /\ new.taken = call[c].taken
              /\ new.items = <<>> /\ new.kept = call[c].kept /\ new.dropped = call[c].dropped
              /\ new.pos = 0
<1> DEFINE k == call[c]
           new == [k EXCEPT !.pc = outcome, !.pos = 0, !.items = <<>>]
<1>1. k \in CallRow /\ call \in [Calls -> CallRow] /\ <<>> \in Seq(Payloads) /\ 0 \in Nat
      /\ outcome \in {"idle"} \cup Stages \cup Outcomes
  BY DEF Typed
<1>2. new \in CallRow
  BY <1>1 DEF CallRow
<1>3. /\ new.pc = outcome /\ new.source = k.source /\ new.taken = k.taken
      /\ new.items = <<>> /\ new.kept = k.kept /\ new.dropped = k.dropped /\ new.pos = 0
  BY <1>1 DEF CallRow
<1>4. Ended(c, outcome) = [call EXCEPT ![c] = new]
  BY <1>1 DEF Ended
<1> HIDE DEF new
<1> QED
  BY <1>2, <1>3, <1>4

LEMMA OnlyIs ==
    ASSUME call \in [Calls -> CallRow], NEW c \in Calls, NEW new \in CallRow,
           call' = [call EXCEPT ![c] = new]
    PROVE  Only(c) /\ call'[c] = new
  BY DEF Only

LEMMA BeginIs ==
    ASSUME Typed, NEW c \in Calls, NEW source \in Sources, Begin(c, source)
    PROVE  /\ Only(c) /\ call[c].pc = "idle"
           /\ call'[c].pc = "fetching" /\ call'[c].source = source
           /\ call'[c].pos = IF source = "kafka" THEN StartOffset ELSE 1
           /\ call'[c].taken = call[c].taken /\ call'[c].items = call[c].items
           /\ call'[c].kept = call[c].kept /\ call'[c].dropped = call[c].dropped
<1> DEFINE k == call[c]
<1>1. PICK pos : pos = IF source = "kafka" THEN StartOffset ELSE 1
  OBVIOUS
<1>2. pos \in Nat /\ k \in CallRow /\ call \in [Calls -> CallRow]
  BY <1>1 DEF Typed, StartOffset, NoOffset, arrived
<1>3. source \in AllSources /\ "fetching" \in Stages
  BY IntakeAssumption DEF Stages
<1>4. PICK new : new = [k EXCEPT !.pc = "fetching", !.source = source, !.pos = pos]
  OBVIOUS
<1>5. new \in CallRow
  BY <1>2, <1>3, <1>4 DEF CallRow
<1>6. /\ new.pc = "fetching" /\ new.source = source /\ new.pos = pos /\ new.taken = k.taken
      /\ new.items = k.items /\ new.kept = k.kept /\ new.dropped = k.dropped
  BY <1>2, <1>4 DEF CallRow
<1>7. call' = [call EXCEPT ![c] = new] /\ k.pc = "idle"
  BY <1>1, <1>2, <1>4 DEF Begin
<1>8. Only(c) /\ call'[c] = new
  BY <1>2, <1>5, <1>7, OnlyIs
<1> QED
  BY <1>1, <1>6, <1>7, <1>8

LEMMA PollIs ==
    ASSUME Typed, NEW c \in Calls, Poll(c)
    PROVE  /\ Only(c) /\ call[c].pc = "fetching" /\ call[c].source = "kafka"
           /\ call[c].pos \in Nat /\ call[c].pos < arrived /\ call[c].pos + 1 \in 1..arrived
           /\ call[c].pos + 1 \in Payloads
           /\ call'[c].taken = call[c].taken \cup {call[c].pos + 1}
           /\ call'[c].source = "kafka"
           /\ call'[c].kept = call[c].kept /\ call'[c].dropped = call[c].dropped
           /\ \/ /\ log[call[c].pos + 1] = "garbled" /\ DeadLetter({call[c].pos + 1})
                 /\ call'[c].pc = "fetching" /\ call'[c].pos = call[c].pos + 1
                 /\ call'[c].items = call[c].items /\ committed' = committed
              \/ /\ call'[c].pc = "raised" /\ call'[c].pos = 0 /\ call'[c].items = <<>>
                 /\ committed' = call[c].pos + 1
                 /\ letters' = letters /\ unwritten' = unwritten
              \/ /\ log[call[c].pos + 1] \in {"alert", "invalid", "scalar"}
                 /\ call'[c].pc = "fetching" /\ call'[c].pos = call[c].pos + 1
                 /\ call'[c].items = Append(call[c].items, call[c].pos + 1)
                 /\ committed' = committed /\ letters' = letters /\ unwritten' = unwritten
           /\ UNCHANGED <<now, correlated, expires, log>>
<1> DEFINE k == call[c]
           i == k.pos + 1
<1>1. k \in CallRow /\ call \in [Calls -> CallRow] /\ Len(log) \in Nat /\ arrived = Len(log)
      /\ arrived <= Length /\ Length \in Nat
  BY IntakeAssumption DEF Typed, arrived
<1>2. /\ k.pos \in Nat /\ k.pos < arrived /\ i \in 1..arrived /\ i \in Payloads /\ i \in Nat
      /\ log[i] \in Shapes
  <2>1. k.pos \in Nat
    BY <1>1 DEF CallRow
  <2>2. k.pos < arrived
    BY DEF Poll
  <2>3. i \in 1..Len(log)
    BY <1>1, <2>1, <2>2
  <2>4. log[i] \in Shapes
    BY <2>3 DEF Typed
  <2> QED
    BY <1>1, <2>1, <2>2, <2>3, <2>4 DEF Payloads
<1>3. k.pc = "fetching" /\ k.source = "kafka" /\ UNCHANGED <<now, correlated, expires, log>>
  BY DEF Poll, Fetching
<1>4. k.taken \cup {i} \in SUBSET Payloads /\ k.items \in Seq(Payloads)
      /\ Append(k.items, i) \in Seq(Payloads)
  BY <1>1, <1>2, ElemsAppend DEF CallRow
<1>5. PICK took : took = [k EXCEPT !.pos = i, !.taken = @ \cup {i}]
  OBVIOUS
<1>6. /\ took \in CallRow /\ took.pc = "fetching" /\ took.source = "kafka" /\ took.pos = i
      /\ took.taken = k.taken \cup {i} /\ took.items = k.items /\ took.kept = k.kept
      /\ took.dropped = k.dropped
  <2>1. took \in CallRow
    BY <1>1, <1>2, <1>4, <1>5 DEF CallRow
  <2> QED
    BY <1>1, <1>3, <1>5, <2>1 DEF CallRow
<1>7. CASE log[i] = "garbled"
  <2>1. DeadLetter({i}) /\ call' = [call EXCEPT ![c].pos = i, ![c].taken = @ \cup {i}]
        /\ committed' = committed
    BY <1>7 DEF Poll
  <2>2. call' = [call EXCEPT ![c] = took]
    BY <1>1, <1>5, <2>1
  <2>3. Only(c) /\ call'[c] = took
    BY <1>1, <1>6, <2>2, OnlyIs
  <2> QED
    BY <1>2, <1>3, <1>6, <1>7, <2>1, <2>3
<1>8. CASE log[i] = "undecodable"
  <2>1. PICK new \in CallRow :
              /\ Ended(c, "raised") = [call EXCEPT ![c] = new]
              /\ new.pc = "raised" /\ new.source = k.source /\ new.taken = k.taken
              /\ new.items = <<>> /\ new.kept = k.kept /\ new.dropped = k.dropped
              /\ new.pos = 0
    <3>1. "raised" \in Outcomes
      BY DEF Outcomes
    <3> QED
      BY <3>1, EndedIs
  <2>2. call' = [Ended(c, "raised") EXCEPT ![c].taken = @ \cup {i}] /\ committed' = i
        /\ letters' = letters /\ unwritten' = unwritten
    BY <1>8 DEF Poll
  <2>3. PICK last : last = [new EXCEPT !.taken = @ \cup {i}]
    OBVIOUS
  <2>4. /\ last \in CallRow /\ last.pc = "raised" /\ last.source = "kafka" /\ last.pos = 0
        /\ last.taken = k.taken \cup {i} /\ last.items = <<>> /\ last.kept = k.kept
        /\ last.dropped = k.dropped
    <3>1. k.taken = new.taken
      BY <2>1
    <3> HIDE DEF k
    <3>2. last \in CallRow /\ last.taken = k.taken \cup {i}
      BY <1>4, <2>1, <2>3, <3>1 DEF CallRow
    <3>3. /\ last.pc = new.pc /\ last.source = new.source /\ last.pos = new.pos
          /\ last.items = new.items /\ last.kept = new.kept /\ last.dropped = new.dropped
      BY <2>1, <2>3 DEF CallRow
    <3> QED
      BY <1>3, <2>1, <3>2, <3>3
  <2>5. call' = [call EXCEPT ![c] = last]
    BY <1>1, <2>1, <2>2, <2>3
  <2>6. Only(c) /\ call'[c] = last
    BY <1>1, <2>4, <2>5, OnlyIs
  <2> QED
    BY <1>2, <1>3, <2>2, <2>4, <2>6
<1>9. CASE log[i] \notin {"garbled", "undecodable"}
  <2>1. call' = [[call EXCEPT ![c].pos = i, ![c].taken = @ \cup {i}]
                    EXCEPT ![c].items = Append(@, i)]
        /\ committed' = committed /\ letters' = letters /\ unwritten' = unwritten
    BY <1>9 DEF Poll
  <2>2. PICK new : new = [took EXCEPT !.items = Append(@, i)]
    OBVIOUS
  <2>3. /\ new \in CallRow /\ new.pc = "fetching" /\ new.source = "kafka" /\ new.pos = i
        /\ new.taken = k.taken \cup {i} /\ new.items = Append(k.items, i)
        /\ new.kept = k.kept /\ new.dropped = k.dropped
    <3>1. new \in CallRow
      BY <1>4, <1>6, <2>2 DEF CallRow
    <3> QED
      BY <1>6, <2>2, <3>1 DEF CallRow
  <2>4. call' = [call EXCEPT ![c] = new]
    BY <1>1, <1>5, <2>1, <2>2
  <2>5. Only(c) /\ call'[c] = new
    BY <1>1, <2>3, <2>4, OnlyIs
  <2>6. log[i] \in {"alert", "invalid", "scalar"}
    BY <1>2, <1>9 DEF Shapes
  <2> QED
    BY <1>2, <1>3, <2>1, <2>3, <2>5, <2>6
<1> QED
  BY <1>7, <1>8, <1>9

LEMMA CloseIs ==
    ASSUME Typed, NEW c \in Calls, Close(c)
    PROVE  /\ Only(c) /\ call[c].pc = "fetching" /\ call[c].source = "kafka"
           /\ call'[c].pc = "fetched" /\ call'[c].source = call[c].source
           /\ call'[c].pos = call[c].pos
           /\ call'[c].taken = call[c].taken /\ call'[c].items = call[c].items
           /\ call'[c].kept = call[c].kept /\ call'[c].dropped = call[c].dropped
<1> DEFINE k == call[c]
<1>1. k \in CallRow /\ call \in [Calls -> CallRow] /\ "fetched" \in Stages
  BY DEF Typed, Stages
<1>2. PICK new : new = [k EXCEPT !.pc = "fetched"]
  OBVIOUS
<1>3. new \in CallRow
  BY <1>1, <1>2 DEF CallRow
<1>4. /\ new.pc = "fetched" /\ new.source = k.source /\ new.pos = k.pos /\ new.taken = k.taken
      /\ new.items = k.items /\ new.kept = k.kept /\ new.dropped = k.dropped
  BY <1>1, <1>2 DEF CallRow
<1>5. call' = [call EXCEPT ![c] = new] /\ k.pc = "fetching" /\ k.source = "kafka"
  BY <1>1, <1>2 DEF Close, Fetching
<1>6. Only(c) /\ call'[c] = new
  BY <1>1, <1>3, <1>5, OnlyIs
<1> QED
  BY <1>4, <1>5, <1>6

LEMMA ReceivedIs ==
    ASSUME Typed, NEW c \in Calls, NEW S, S \subseteq Payloads, NEW s \in Seq(Payloads),
           Received(c, S, s)
    PROVE  /\ Only(c) /\ call'[c].pc = "fetched" /\ call'[c].source = call[c].source
           /\ call'[c].taken = S /\ call'[c].items = s
           /\ call'[c].kept = call[c].kept /\ call'[c].dropped = call[c].dropped
<1> DEFINE k == call[c]
<1>1. k \in CallRow /\ call \in [Calls -> CallRow] /\ "fetched" \in Stages
  BY DEF Typed, Stages
<1>2. PICK new : new = [k EXCEPT !.pc = "fetched", !.taken = S, !.items = s]
  OBVIOUS
<1>3. new \in CallRow
  BY <1>1, <1>2 DEF CallRow
<1>4. /\ new.pc = "fetched" /\ new.source = k.source /\ new.taken = S
      /\ new.items = s /\ new.kept = k.kept /\ new.dropped = k.dropped
  BY <1>1, <1>2 DEF CallRow
<1>5. call' = [call EXCEPT ![c] = new]
  BY <1>1, <1>2 DEF Received
<1>6. Only(c) /\ call'[c] = new
  BY <1>1, <1>3, <1>5, OnlyIs
<1> QED
  BY <1>4, <1>6

LEMMA EndIs ==
    ASSUME Typed, NEW c \in Calls, NEW outcome \in Outcomes, call' = Ended(c, outcome)
    PROVE  /\ Only(c)
           /\ call'[c].pc = outcome /\ call'[c].source = call[c].source
           /\ call'[c].taken = call[c].taken /\ call'[c].items = <<>>
           /\ call'[c].kept = call[c].kept /\ call'[c].dropped = call[c].dropped
<1>1. PICK new \in CallRow :
              /\ Ended(c, outcome) = [call EXCEPT ![c] = new]
              /\ new.pc = outcome /\ new.source = call[c].source /\ new.taken = call[c].taken
              /\ new.items = <<>> /\ new.kept = call[c].kept /\ new.dropped = call[c].dropped
              /\ new.pos = 0
  BY EndedIs
<1>2. Only(c) /\ call'[c] = new
  BY <1>1, OnlyIs DEF Typed
<1> QED
  BY <1>1, <1>2

\* What the sources that are not Kafka give a call: items of a shape that can be one, and
\* of all that it took only files are missing.
Supplied(c) ==
    /\ call[c].taken \subseteq 1..arrived /\ Elems(call[c].items) \subseteq call[c].taken
    /\ \A i \in Elems(call[c].items) : log[i] \in {"alert", "invalid", "scalar"}
    /\ \A i \in call[c].taken :
           \/ i \in Elems(call[c].items)
           \/ call[c].source = "file" /\ log[i] \notin {"alert", "invalid"}

\* The sources that are not Kafka: another attempt, a failure, or some payloads.
LEMMA ReceiveIs ==
    ASSUME Typed, NEW c \in Calls, Fetch(c) \/ Read(c) \/ Post(c)
    PROVE  /\ Only(c) /\ call[c].pc = "fetching" /\ call[c].source # "kafka"
           /\ call'[c].source = call[c].source
           /\ call'[c].kept = call[c].kept /\ call'[c].dropped = call[c].dropped
           /\ \/ /\ call'[c].pc = "fetching"
                 /\ call'[c].taken = call[c].taken /\ call'[c].items = call[c].items
              \/ /\ call'[c].pc = "raised"
                 /\ call'[c].taken = call[c].taken /\ call'[c].items = <<>>
              \/ call'[c].pc = "fetched" /\ Supplied(c)'
           /\ UNCHANGED <<now, correlated, expires, log, committed, letters, unwritten>>
<1> DEFINE k == call[c]
<1>0. "raised" \in Outcomes /\ "fetching" \in Stages
  BY DEF Outcomes, Stages
<1>1. k \in CallRow /\ call \in [Calls -> CallRow] /\ arrived \in Nat /\ arrived <= Length
      /\ Length \in Nat
  BY IntakeAssumption DEF Typed, arrived
<1>2. k.pc = "fetching" /\ k.source # "kafka"
      /\ UNCHANGED <<now, correlated, expires, log, committed, letters, unwritten>>
  BY DEF Fetch, Read, Post, Fetching
<1>3. ASSUME NEW S \in SUBSET (1..arrived), NEW T \in SUBSET S, T \subseteq WellFormed,
             \A i \in S \ T : k.source = "file" /\ log[i] \notin {"alert", "invalid"},
             Received(c, S, NewestFirst(T)) \/ Received(c, S, OldestFirst(T))
      PROVE  /\ Only(c) /\ call'[c].source = k.source
             /\ call'[c].kept = k.kept /\ call'[c].dropped = k.dropped
             /\ call'[c].pc = "fetched" /\ Supplied(c)'
  <2>1. 1..arrived \subseteq Payloads /\ 1..arrived \subseteq Int
    BY <1>1 DEF Payloads
  <2>2. IsFiniteSet(T)
    <3>1. IsFiniteSet(1..arrived)
      BY <1>1, FS_Interval
    <3> QED
      BY <3>1, FS_Subset
  <2>3. S \subseteq Payloads /\ T \subseteq Payloads /\ T \subseteq Int
    BY <2>1
  <2>4. PICK s \in Seq(Payloads) : Elems(s) = T /\ Received(c, S, s)
    BY <1>3, <2>2, <2>3, NewestFirstIs, OldestFirstIs
  <2>5. /\ Only(c) /\ call'[c].pc = "fetched" /\ call'[c].source = k.source
        /\ call'[c].taken = S /\ call'[c].items = s
        /\ call'[c].kept = k.kept /\ call'[c].dropped = k.dropped
    BY <2>3, <2>4, ReceivedIs
  <2>6. arrived' = arrived /\ log' = log
    BY <1>2 DEF arrived
  <2>7. Elems(call'[c].items) = T
    BY <2>4, <2>5
  <2>8. \A i \in T : log[i] \in {"alert", "invalid", "scalar"}
    BY <1>3 DEF WellFormed
  <2>9. Supplied(c)'
    BY <1>3, <2>5, <2>6, <2>7, <2>8 DEF Supplied
  <2> QED
    BY <2>5, <2>9
<1>4. CASE \E S \in SUBSET WellFormed : Received(c, S, NewestFirst(S)) \/ Received(c, S, OldestFirst(S))
  <2>1. PICK S \in SUBSET WellFormed : Received(c, S, NewestFirst(S)) \/ Received(c, S, OldestFirst(S))
    BY <1>4
  <2>2. S \in SUBSET (1..arrived) /\ S \in SUBSET S /\ S \subseteq WellFormed
    BY DEF WellFormed
  <2>3. /\ Only(c) /\ call'[c].source = k.source
        /\ call'[c].kept = k.kept /\ call'[c].dropped = k.dropped
        /\ call'[c].pc = "fetched" /\ Supplied(c)'
    BY <1>3, <2>1, <2>2
  <2> QED
    BY <1>2, <2>3
<1>5. CASE call' = Ended(c, "raised")
  BY <1>0, <1>2, <1>5, EndIs
<1>6. CASE call' = [call EXCEPT ![c].pos = @ + 1]
  <2>1. PICK new : new = [k EXCEPT !.pos = @ + 1]
    OBVIOUS
  <2>2. k.pos + 1 \in Nat
    BY <1>1 DEF CallRow
  <2>3. new \in CallRow
    BY <1>1, <2>1, <2>2 DEF CallRow
  <2>4. /\ new.pc = k.pc /\ new.source = k.source /\ new.taken = k.taken
        /\ new.items = k.items /\ new.kept = k.kept /\ new.dropped = k.dropped
    BY <1>1, <2>1 DEF CallRow
  <2>5. call' = [call EXCEPT ![c] = new]
    BY <1>1, <1>6, <2>1
  <2>6. Only(c) /\ call'[c] = new
    BY <1>1, <2>3, <2>5, OnlyIs
  <2> QED
    BY <1>2, <2>4, <2>6
<1>7. Newest \subseteq WellFormed /\ Objects \subseteq WellFormed
  BY DEF Newest, Objects, WellFormed
<1>8. CASE Fetch(c)
  BY <1>4, <1>5, <1>6, <1>7, <1>8 DEF Fetch
<1>9. CASE Read(c)
  <2>1. Received(c, 1..arrived, OldestFirst(Objects)) /\ k.source = "file"
    BY <1>9 DEF Read, Fetching
  <2>2. Objects \in SUBSET (1..arrived)
        /\ \A i \in (1..arrived) \ Objects : log[i] \notin {"alert", "invalid"}
    BY DEF Objects
  <2>3. 1..arrived \in SUBSET (1..arrived) /\ Objects \subseteq WellFormed
    BY <1>7
  <2>4. /\ Only(c) /\ call'[c].source = k.source
        /\ call'[c].kept = k.kept /\ call'[c].dropped = k.dropped
        /\ call'[c].pc = "fetched" /\ Supplied(c)'
    BY <1>3, <2>1, <2>2, <2>3
  <2> QED
    BY <1>2, <2>4
<1>10. CASE Post(c)
  <2>1. PICK S \in SUBSET Objects : Received(c, S, OldestFirst(S))
    BY <1>10 DEF Post
  <2>2. S \in SUBSET WellFormed
    BY <1>7
  <2> QED
    BY <1>4, <2>1, <2>2
<1> QED
  BY <1>8, <1>9, <1>10

LEMMA ProcessIs ==
    ASSUME Typed, NEW c \in Calls, Process(c)
    PROVE  /\ Only(c) /\ call[c].pc = "fetched"
           /\ call'[c].pc = IF call[c].source = "post" THEN "storing" ELSE "deduping"
           /\ call'[c].source = call[c].source /\ call'[c].taken = call[c].taken
           /\ Elems(call'[c].items) = {i \in Elems(call[c].items) : Good(i)}
           /\ call'[c].kept = call[c].kept /\ call'[c].dropped = call[c].dropped
           /\ DeadLetter(Bad(c))
           /\ UNCHANGED <<now, correlated, expires, log, committed>>
<1> DEFINE k == call[c]
<1>1. k \in CallRow /\ call \in [Calls -> CallRow] /\ k.items \in Seq(Payloads)
  BY DEF Typed, CallRow
<1>2. PICK pc \in Stages : pc = IF k.source = "post" THEN "storing" ELSE "deduping"
  BY DEF Stages
<1>3. PICK s \in Seq(Payloads) :
         s = Normalisable(k.items) /\ Elems(s) = {i \in Elems(k.items) : Good(i)}
  BY <1>1, NormalisableIs
<1>4. PICK new : new = [k EXCEPT !.pc = pc, !.items = s]
  OBVIOUS
<1>5. new \in CallRow
  BY <1>1, <1>3, <1>4 DEF CallRow
<1>6. /\ new.pc = pc /\ new.source = k.source /\ new.taken = k.taken
      /\ new.items = s /\ new.kept = k.kept /\ new.dropped = k.dropped
  BY <1>1, <1>4 DEF CallRow
<1>7. call' = [call EXCEPT ![c] = new] /\ k.pc = "fetched"
      /\ DeadLetter(Bad(c))
      /\ UNCHANGED <<now, correlated, expires, log, committed>>
  BY <1>1, <1>2, <1>3, <1>4 DEF Process
<1>8. Only(c) /\ call'[c] = new
  BY <1>1, <1>5, <1>7, OnlyIs
<1> QED
  BY <1>2, <1>3, <1>6, <1>7, <1>8

LEMMA CheckIs ==
    ASSUME Typed, NEW c \in Calls, Check(c)
    PROVE  /\ Only(c) /\ call[c].pc = "deduping" /\ call[c].items # <<>>
           /\ call'[c].source = call[c].source /\ call'[c].taken = call[c].taken
           /\ call'[c].kept = call[c].kept /\ Head(call[c].items) \in Payloads
           /\ \/ /\ call'[c].pc = "raised" /\ call'[c].items = <<>>
                 /\ call'[c].dropped = call[c].dropped
              \/ /\ IsDuplicate(Finger[Head(call[c].items)])
                 /\ call'[c].pc = "deduping" /\ call'[c].items = Tail(call[c].items)
                 /\ call'[c].dropped = call[c].dropped
                                         \cup {[item |-> Head(call[c].items), at |-> now]}
              \/ /\ ~IsDuplicate(Finger[Head(call[c].items)])
                 /\ call'[c].pc = "marking" /\ call'[c].items = call[c].items
                 /\ call'[c].dropped = call[c].dropped
           /\ UNCHANGED <<now, correlated, expires, log, committed, letters, unwritten>>
<1> DEFINE k == call[c]
           i == Head(k.items)
<1>1. k \in CallRow /\ call \in [Calls -> CallRow] /\ k.items \in Seq(Payloads) /\ now \in Nat
      /\ k.dropped \in SUBSET DroppedRow /\ "marking" \in Stages
  BY DEF Typed, CallRow, Stages
<1>2. k.pc = "deduping" /\ k.items # <<>>
      /\ UNCHANGED <<now, correlated, expires, log, committed, letters, unwritten>>
  BY DEF Check
<1>3. i \in Payloads /\ Tail(k.items) \in Seq(Payloads)
  BY <1>1, <1>2, ElemsTail
<1>4. ASSUME IsDuplicate(Finger[i]),
             call' = [call EXCEPT ![c].items = Tail(@),
                                  ![c].dropped = @ \cup {[item |-> i, at |-> now]}]
      PROVE  /\ Only(c) /\ call'[c].source = k.source /\ call'[c].taken = k.taken
             /\ call'[c].kept = k.kept /\ call'[c].pc = "deduping"
             /\ call'[c].items = Tail(k.items)
             /\ call'[c].dropped = k.dropped \cup {[item |-> i, at |-> now]}
  <2>1. PICK more : more = k.dropped \cup {[item |-> i, at |-> now]}
    OBVIOUS
  <2>2. more \in SUBSET DroppedRow
    BY <1>1, <1>3, <2>1 DEF DroppedRow
  <2>3. PICK new : new = [k EXCEPT !.items = Tail(@), !.dropped = more]
    OBVIOUS
  <2>4. new \in CallRow
    BY <1>1, <1>3, <2>2, <2>3 DEF CallRow
  <2>5. /\ new.pc = k.pc /\ new.source = k.source /\ new.taken = k.taken
        /\ new.items = Tail(k.items) /\ new.kept = k.kept /\ new.dropped = more
    BY <1>1, <2>3 DEF CallRow
  <2>6. call' = [call EXCEPT ![c] = new]
    BY <1>1, <1>4, <2>1, <2>3
  <2>7. Only(c) /\ call'[c] = new
    BY <1>1, <2>4, <2>6, OnlyIs
  <2> QED
    BY <1>2, <1>3, <2>1, <2>5, <2>7
<1>5. ASSUME ~IsDuplicate(Finger[i]), call' = [call EXCEPT ![c].pc = "marking"]
      PROVE  /\ Only(c) /\ call'[c].source = k.source /\ call'[c].taken = k.taken
             /\ call'[c].kept = k.kept /\ call'[c].pc = "marking"
             /\ call'[c].items = k.items /\ call'[c].dropped = k.dropped
  <2>3. PICK new : new = [k EXCEPT !.pc = "marking"]
    OBVIOUS
  <2>4. new \in CallRow
    BY <1>1, <2>3 DEF CallRow
  <2>5. /\ new.pc = "marking" /\ new.source = k.source /\ new.taken = k.taken
        /\ new.items = k.items /\ new.kept = k.kept /\ new.dropped = k.dropped
    BY <1>1, <2>3 DEF CallRow
  <2>6. call' = [call EXCEPT ![c] = new]
    BY <1>1, <1>5, <2>3
  <2>7. Only(c) /\ call'[c] = new
    BY <1>1, <2>4, <2>6, OnlyIs
  <2> QED
    BY <1>2, <1>3, <2>5, <2>7
<1>6. ASSUME call' = Ended(c, "raised")
      PROVE  /\ Only(c) /\ call'[c].source = k.source /\ call'[c].taken = k.taken
             /\ call'[c].kept = k.kept /\ call'[c].pc = "raised"
             /\ call'[c].items = <<>> /\ call'[c].dropped = k.dropped
  <2>1. "raised" \in Outcomes
    BY DEF Outcomes
  <2> QED
    BY <1>6, <2>1, EndIs
<1>7. \/ /\ IsDuplicate(Finger[i])
         /\ call' = [call EXCEPT ![c].items = Tail(@),
                                 ![c].dropped = @ \cup {[item |-> i, at |-> now]}]
      \/ ~IsDuplicate(Finger[i]) /\ call' = [call EXCEPT ![c].pc = "marking"]
      \/ call' = Ended(c, "raised")
  BY DEF Check
<1> QED
  BY <1>2, <1>3, <1>4, <1>5, <1>6, <1>7

LEMMA MarkIs ==
    ASSUME Typed, NEW c \in Calls, call[c].items # <<>>, Mark(c)
    PROVE  /\ Only(c) /\ call[c].pc = "marking" /\ call'[c].pc = "deduping"
           /\ call'[c].source = call[c].source /\ call'[c].taken = call[c].taken
           /\ call'[c].items = Tail(call[c].items) /\ Head(call[c].items) \in Payloads
           /\ call'[c].dropped = call[c].dropped
           /\ \E marked \in BOOLEAN :
                 /\ call'[c].kept = Append(call[c].kept, [item |-> Head(call[c].items),
                                                          at |-> now, marked |-> marked])
                 /\ marked => MarkAsSeen(Finger[Head(call[c].items)])
                 /\ ~marked => UNCHANGED expires
           /\ UNCHANGED <<now, correlated, log, committed, letters, unwritten>>
<1> DEFINE k == call[c]
           i == Head(k.items)
<1>1. k \in CallRow /\ call \in [Calls -> CallRow] /\ k.items \in Seq(Payloads) /\ now \in Nat
      /\ k.kept \in Seq(KeptRow) /\ "deduping" \in Stages
  BY DEF Typed, CallRow, Stages
<1>2. k.pc = "marking" /\ UNCHANGED <<now, correlated, log, committed, letters, unwritten>>
  BY DEF Mark
<1>3. i \in Payloads /\ Tail(k.items) \in Seq(Payloads)
  BY <1>1, ElemsTail
<1>4. PICK marked \in BOOLEAN :
           /\ IF marked THEN MarkAsSeen(Finger[i]) ELSE UNCHANGED expires
           /\ call' = [call EXCEPT
                 ![c].pc = "deduping", ![c].items = Tail(@),
                 ![c].kept = Append(@, [item |-> i, at |-> now, marked |-> marked])]
  BY DEF Mark
<1>5. PICK row : row = [item |-> i, at |-> now, marked |-> marked]
  OBVIOUS
<1>6. row \in KeptRow
  BY <1>1, <1>3, <1>5 DEF KeptRow
<1>7. PICK more \in Seq(KeptRow) : more = Append(k.kept, row)
  <2>1. Append(k.kept, row) \in Seq(KeptRow)
    BY <1>1, <1>6, ElemsAppend
  <2> QED
    BY <2>1
<1>8. PICK new : new = [k EXCEPT !.pc = "deduping", !.items = Tail(@), !.kept = more]
  OBVIOUS
<1>9. new \in CallRow
  BY <1>1, <1>3, <1>8 DEF CallRow
<1>10. /\ new.pc = "deduping" /\ new.source = k.source /\ new.taken = k.taken
       /\ new.items = Tail(k.items) /\ new.kept = more /\ new.dropped = k.dropped
  BY <1>1, <1>8 DEF CallRow
<1>11. call' = [call EXCEPT ![c] = new]
  BY <1>1, <1>4, <1>5, <1>7, <1>8
<1>12. Only(c) /\ call'[c] = new
  BY <1>1, <1>9, <1>11, OnlyIs
<1>13. (marked => MarkAsSeen(Finger[i])) /\ (~marked => UNCHANGED expires)
  BY <1>4
<1> QED
  BY <1>2, <1>3, <1>5, <1>7, <1>10, <1>12, <1>13

LEMMA HandOverIs ==
    ASSUME Typed, NEW c \in Calls, HandOver(c)
    PROVE  /\ Only(c) /\ call[c].pc = "deduping" /\ call[c].items = <<>>
           /\ call'[c].pc \in {"raised", "done"}
           /\ call'[c].source = call[c].source
           /\ call'[c].taken = call[c].taken /\ call'[c].items = <<>>
           /\ call'[c].kept = call[c].kept /\ call'[c].dropped = call[c].dropped
           /\ UNCHANGED <<now, expires, log, committed, letters, unwritten>>
<1>1. call[c].pc = "deduping" /\ call[c].items = <<>>
      /\ UNCHANGED <<now, expires, log, committed, letters, unwritten>>
  BY DEF HandOver
<1>2. PICK outcome \in {"raised", "done"} : call' = Ended(c, outcome)
  BY DEF HandOver
<1>3. outcome \in Outcomes
  BY DEF Outcomes
<1> QED
  BY <1>1, <1>2, <1>3, EndIs

LEMMA StoreIs ==
    ASSUME Typed, NEW c \in Calls, Store(c)
    PROVE  /\ Only(c) /\ call[c].pc = "storing"
           /\ call'[c].source = call[c].source
           /\ call'[c].taken = call[c].taken /\ call'[c].items = <<>>
           /\ call'[c].dropped = call[c].dropped
           /\ \/ call'[c].pc = "raised" /\ call'[c].kept = call[c].kept
              \/ /\ call'[c].pc = "done"
                 /\ call'[c].kept = [n \in 1..Len(call[c].items) |->
                             [item |-> call[c].items[n], at |-> now, marked |-> FALSE]]
           /\ UNCHANGED <<now, correlated, expires, log, committed, letters, unwritten>>
<1> DEFINE k == call[c]
<1>0. "raised" \in Outcomes /\ "done" \in Outcomes
  BY DEF Outcomes
<1>1. k \in CallRow /\ call \in [Calls -> CallRow] /\ k.items \in Seq(Payloads) /\ now \in Nat
  BY DEF Typed, CallRow
<1>2. k.pc = "storing"
      /\ UNCHANGED <<now, correlated, expires, log, committed, letters, unwritten>>
  BY DEF Store
<1>3. CASE call' = Ended(c, "raised")
  BY <1>0, <1>2, <1>3, EndIs
<1>4. CASE call' = [Ended(c, "done") EXCEPT
             ![c].kept = [n \in 1..Len(k.items) |->
                             [item |-> k.items[n], at |-> now, marked |-> FALSE]]]
  <2>1. PICK new \in CallRow :
              /\ Ended(c, "done") = [call EXCEPT ![c] = new]
              /\ new.pc = "done" /\ new.source = k.source /\ new.taken = k.taken
              /\ new.items = <<>> /\ new.kept = k.kept /\ new.dropped = k.dropped
              /\ new.pos = 0
    BY <1>0, EndedIs
  <2>2. PICK rows : rows = [n \in 1..Len(k.items) |->
                             [item |-> k.items[n], at |-> now, marked |-> FALSE]]
    OBVIOUS
  <2>3. \A n \in 1..Len(k.items) :
           [item |-> k.items[n], at |-> now, marked |-> FALSE] \in KeptRow
    BY <1>1 DEF KeptRow
  <2>4. rows \in Seq(KeptRow)
    BY <1>1, <2>2, <2>3
  <2>5. PICK last : last = [new EXCEPT !.kept = rows]
    OBVIOUS
  <2>6. last \in CallRow
    BY <2>1, <2>4, <2>5 DEF CallRow
  <2>7. /\ last.pc = new.pc /\ last.source = new.source /\ last.taken = new.taken
        /\ last.items = new.items /\ last.kept = rows /\ last.dropped = new.dropped
    BY <2>1, <2>5 DEF CallRow
  <2>8. call' = [call EXCEPT ![c] = last]
    BY <1>1, <1>4, <2>1, <2>2, <2>5
  <2>9. Only(c) /\ call'[c] = last
    BY <1>1, <2>6, <2>8, OnlyIs
  <2> QED
    BY <1>2, <2>1, <2>2, <2>7, <2>9
<1> QED
  BY <1>3, <1>4 DEF Store

LEMMA CrashIs ==
    ASSUME Typed, Crash
    PROVE  /\ call' \in [Calls -> CallRow]
           /\ \A c \in Calls :
                 /\ c \notin Active => call'[c] = call[c]
                 /\ c \in Active => call'[c].pc = "lost" /\ call'[c].items = <<>>
                 /\ call'[c].source = call[c].source /\ call'[c].taken = call[c].taken
                 /\ call'[c].kept = call[c].kept /\ call'[c].dropped = call[c].dropped
           /\ UNCHANGED <<now, expires, log, committed, letters, unwritten>>
<1>1. call \in [Calls -> CallRow] /\ "lost" \in Outcomes
  BY DEF Typed, Outcomes
<1>2. /\ call' = [c \in Calls |-> IF c \in Active THEN Ended(c, "lost")[c] ELSE call[c]]
      /\ UNCHANGED <<now, expires, log, committed, letters, unwritten>>
  BY DEF Crash
<1>3. ASSUME NEW c \in Calls
      PROVE  /\ c \notin Active => call'[c] = call[c]
             /\ c \in Active => call'[c].pc = "lost" /\ call'[c].items = <<>>
             /\ call'[c].source = call[c].source /\ call'[c].taken = call[c].taken
             /\ call'[c].kept = call[c].kept /\ call'[c].dropped = call[c].dropped
             /\ call'[c] \in CallRow
  <2>1. PICK new \in CallRow :
              /\ Ended(c, "lost") = [call EXCEPT ![c] = new]
              /\ new.pc = "lost" /\ new.source = call[c].source /\ new.taken = call[c].taken
              /\ new.items = <<>> /\ new.kept = call[c].kept /\ new.dropped = call[c].dropped
              /\ new.pos = 0
    BY <1>1, EndedIs
  <2>2. Ended(c, "lost")[c] = new
    BY <1>1, <2>1
  <2>3. call'[c] = IF c \in Active THEN new ELSE call[c]
    BY <1>2, <2>2
  <2> QED
    BY <1>1, <2>1, <2>3
<1>4. call' \in [Calls -> CallRow]
  <2>1. DOMAIN call' = Calls /\ call' = [c \in Calls |-> call'[c]]
    BY <1>2
  <2> QED
    BY <1>3, <2>1
<1> QED
  BY <1>2, <1>3, <1>4

-----------------------------------------------------------------------------
(* What a call holds *)

\* Of what a call was given, something is left of every payload.
Settled(c, i) ==
    \/ i \in letters \cup unwritten \cup Kept(c) \cup Elems(call[c].items)
              \cup {x.item : x \in call[c].dropped}
    \/ call[c].source = "file" /\ log[i] \notin {"alert", "invalid"}

Held(c) ==
    /\ call[c].taken \subseteq 1..arrived
    /\ call[c].pc \in {"fetching", "fetched"} => \A i \in Elems(call[c].items) :
           i \in call[c].taken /\ log[i] \in {"alert", "invalid", "scalar"}
    /\ call[c].pc = "idle" => /\ call[c].taken = {} /\ call[c].items = <<>>
                              /\ call[c].dropped = {}
    /\ call[c].pc \in {"idle", "fetching", "fetched", "storing"} => call[c].kept = <<>>
    /\ call[c].pc = "marking" => call[c].items # <<>>
    /\ call[c].pc = "done" => call[c].items = <<>>
    /\ call[c].pc \notin {"raised", "lost"} => \A i \in call[c].taken : Settled(c, i)

\* A duplicate was dropped in favour of an alert that was marked in the window before.
Represented(c) ==
    \A x \in call[c].dropped : \E r \in Remembered(Finger[x.item]) :
        x.at \in r[2].at..(r[2].at + Window - 1)

\* A mark lasts for the window that follows it, and only marks last.
Marks(f) ==
    /\ expires[f] <= now + Window
    /\ \A r \in Remembered(f) : r[2].at <= now /\ r[2].at + Window <= expires[f]
    /\ expires[f] # 0 => \E r \in Remembered(f) : expires[f] = r[2].at + Window

Intact ==
    /\ Typed
    /\ \A c \in Calls : Held(c)
    /\ \A c \in Calls : Represented(c)
    /\ \A f \in Fingerprints : Marks(f)

\* What no step undoes.
Grows ==
    /\ arrived' \in Nat /\ arrived <= arrived' /\ \A i \in 1..arrived : log'[i] = log[i]
    /\ letters \subseteq letters' /\ unwritten \subseteq unwritten'
    /\ \A f \in Fingerprints : Remembered(f) \subseteq Remembered(f)'

LEMMA RememberedIs ==
    ASSUME NEW f, NEW r
    PROVE  r \in Remembered(f) <=>
              \E c \in Calls : \E n \in 1..Len(call[c].kept) :
                 /\ r = <<c, call[c].kept[n]>> /\ call[c].kept[n].marked
                 /\ Finger[call[c].kept[n].item] = f
  BY DEF Remembered, Entries

LEMMA RememberedThen ==
    ASSUME NEW f, NEW r
    PROVE  r \in Remembered(f)' <=>
              \E c \in Calls : \E n \in 1..Len(call'[c].kept) :
                 /\ r = <<c, call'[c].kept[n]>> /\ call'[c].kept[n].marked
                 /\ Finger[call'[c].kept[n].item] = f
  BY DEF Remembered, Entries

LEMMA KeptSame ==
    ASSUME \A d \in Calls : call'[d].kept = call[d].kept
    PROVE  /\ \A f : Remembered(f)' = Remembered(f)
           /\ \A d \in Calls : Kept(d)' = Kept(d)
<1>1. ASSUME NEW f PROVE Remembered(f)' = Remembered(f)
  BY DEF Remembered, Entries
<1>2. ASSUME NEW d \in Calls PROVE Kept(d)' = Kept(d)
  BY DEF Kept
<1> QED
  BY <1>1, <1>2

\* The type of what is remembered.
LEMMA RememberedType ==
    ASSUME Typed, NEW f, NEW r \in Remembered(f)
    PROVE  /\ r[1] \in Calls /\ r[2] \in KeptRow /\ r[2].at \in Nat
           /\ r = <<r[1], r[2]>> /\ Finger[r[2].item] = f
           /\ \E n \in 1..Len(call[r[1]].kept) : call[r[1]].kept[n] = r[2]
<1>1. PICK c \in Calls : \E n \in 1..Len(call[c].kept) :
                 /\ r = <<c, call[c].kept[n]>> /\ call[c].kept[n].marked
                 /\ Finger[call[c].kept[n].item] = f
  BY RememberedIs
<1>2. PICK n \in 1..Len(call[c].kept) :
                 /\ r = <<c, call[c].kept[n]>> /\ call[c].kept[n].marked
                 /\ Finger[call[c].kept[n].item] = f
  BY <1>1
<1>3. call[c].kept \in Seq(KeptRow)
  BY DEF Typed, CallRow
<1>4. call[c].kept[n] \in KeptRow
  BY <1>2, <1>3
<1>5. r[1] = c /\ r[2] = call[c].kept[n]
  BY <1>2
<1> QED
  BY <1>2, <1>4, <1>5 DEF KeptRow

LEMMA DeadLetterIs ==
    ASSUME NEW bad, DeadLetter(bad)
    PROVE  letters \subseteq letters' /\ unwritten \subseteq unwritten'
           /\ bad \subseteq letters' \cup unwritten'
  BY DEF DeadLetter

\* A call that a step leaves alone keeps what it holds.
LEMMA LeftAlone ==
    ASSUME Typed, Grows, NEW d \in Calls, call'[d] = call[d]
    PROVE  (Held(d) => Held(d)') /\ (Represented(d) => Represented(d)')
<1>2. ASSUME Held(d) PROVE Held(d)'
  <2>1. Kept(d)' = Kept(d)
    BY DEF Kept
  <2>2. \A i \in 1..arrived : Settled(d, i) => Settled(d, i)'
    BY <2>1 DEF Settled, Grows
  <2>3. arrived \in Nat
    BY DEF Typed, arrived
  <2>4. call[d].taken \subseteq 1..arrived'
    BY <1>2, <2>3 DEF Held, Grows
  <2>5. \A i \in 1..arrived : log'[i] = log[i]
    BY DEF Grows
  <2>6. \A i \in call[d].taken : log'[i] = log[i] /\ i \in 1..arrived
    BY <1>2, <2>5 DEF Held
  <2> QED
    BY <1>2, <2>2, <2>4, <2>6 DEF Held
<1>3. ASSUME Represented(d) PROVE Represented(d)'
  <2> SUFFICES ASSUME NEW x \in call[d].dropped
               PROVE  \E r \in Remembered(Finger[x.item])' :
                         x.at \in r[2].at..(r[2].at + Window - 1)
    BY DEF Represented
  <2>1. PICK r \in Remembered(Finger[x.item]) : x.at \in r[2].at..(r[2].at + Window - 1)
    BY <1>3 DEF Represented
  <2>2. Finger[x.item] \in Fingerprints
    <3>1. x.item \in Payloads
      BY DEF Typed, CallRow, DroppedRow
    <3> QED
      BY <3>1, IntakeAssumption
  <2> QED
    BY <2>1, <2>2 DEF Grows
<1> QED
  BY <1>2, <1>3

LEMMA MarksLeftAlone ==
    ASSUME NEW f, Marks(f), Remembered(f)' = Remembered(f), UNCHANGED <<now, expires>>
    PROVE  Marks(f)'
  BY DEF Marks

LEMMA IntactBut ==
    ASSUME Intact, NEW c \in Calls, Only(c), Typed', Grows, Held(c)', Represented(c)',
           \A f \in Fingerprints : Marks(f)'
    PROVE  Intact'
<1>1. ASSUME NEW d \in Calls PROVE Held(d)' /\ Represented(d)'
  <2>1. CASE d = c
    BY <2>1
  <2>2. CASE d # c
    BY <2>2, LeftAlone DEF Only, Intact
  <2> QED
    BY <2>1, <2>2
<1> QED
  BY <1>1 DEF Intact

\* A step of a call that lets no alert through.
LEMMA IntactQuietly ==
    ASSUME Intact, NEW c \in Calls, Only(c),
           call'[c].kept = call[c].kept, call'[c].dropped = call[c].dropped,
           UNCHANGED <<now, expires, log>>, committed' \in Nat \cup {NoOffset},
           letters \subseteq letters', unwritten \subseteq unwritten', Held(c)'
    PROVE  Intact'
<1>1. \A d \in Calls : call'[d].kept = call[d].kept
  BY DEF Only
<1>2. (\A f : Remembered(f)' = Remembered(f)) /\ \A d \in Calls : Kept(d)' = Kept(d)
  BY <1>1, KeptSame
<1>3. Typed'
  BY DEF Intact, Typed, Only, arrived
<1>4. Grows
  BY <1>2 DEF Grows, arrived, Intact, Typed
<1>5. Represented(c)'
  <2> SUFFICES ASSUME NEW x \in call[c].dropped
               PROVE  \E r \in Remembered(Finger[x.item])' :
                         x.at \in r[2].at..(r[2].at + Window - 1)
    BY DEF Represented
  <2> QED
    BY <1>2 DEF Intact, Represented
<1>6. ASSUME NEW f \in Fingerprints PROVE Marks(f)'
  BY <1>2, MarksLeftAlone DEF Intact
<1> QED
  BY <1>3, <1>4, <1>5, <1>6, IntactBut

LEMMA IntactInit == Init => Intact
<1> SUFFICES ASSUME Init PROVE Intact
  OBVIOUS
<1>1. \A c \in Calls : call[c] = Idle
  BY DEF Init
<1>2. \A f : Remembered(f) = {}
  BY <1>1 DEF Remembered, Entries, Idle
<1>3. ASSUME NEW c \in Calls PROVE Held(c) /\ Represented(c)
  BY <1>1 DEF Held, Represented, Idle
<1>4. ASSUME NEW f \in Fingerprints PROVE Marks(f)
  BY <1>2, DeduplicationAssumption DEF Marks, Init, Fresh
<1> QED
  BY <1>3, <1>4, TypedInit DEF Intact

LEMMA IntactArrive == Intact /\ Arrive => Intact'
<1> SUFFICES ASSUME Intact, Arrive PROVE Intact'
  OBVIOUS
<1>1. Typed /\ log \in Seq(Shapes) /\ Length \in Nat /\ arrived = Len(log) /\ arrived < Length
      /\ UNCHANGED <<now, correlated, expires, committed, call, letters, unwritten>>
  BY IntakeAssumption DEF Intact, Typed, Arrive, arrived
<1>2. arrived + 1 \in Payloads
  BY <1>1 DEF Payloads
<1>3. PICK shape \in Shapes : log' = Append(log, shape)
  BY <1>2, IntakeAssumption DEF Arrive
<1>4. log' \in Seq(Shapes) /\ Len(log') = Len(log) + 1 /\ \A i \in 1..Len(log) : log'[i] = log[i]
  BY <1>1, <1>3
<1>5. (\A f : Remembered(f)' = Remembered(f)) /\ \A d \in Calls : Kept(d)' = Kept(d)
  BY <1>1, KeptSame
<1>6. Typed'
  BY <1>1, <1>4 DEF Typed, arrived
<1>7. Grows
  BY <1>1, <1>4, <1>5 DEF Grows, arrived
<1>8. ASSUME NEW d \in Calls PROVE Held(d)' /\ Represented(d)'
  BY <1>1, <1>7, LeftAlone DEF Intact
<1>9. ASSUME NEW f \in Fingerprints PROVE Marks(f)'
  BY <1>1, <1>5, MarksLeftAlone DEF Intact
<1> QED
  BY <1>6, <1>8, <1>9 DEF Intact

LEMMA IntactElapse == Intact /\ Elapse => Intact'
<1> SUFFICES ASSUME Intact, Elapse PROVE Intact'
  OBVIOUS
<1>1. Typed /\ now \in Nat /\ now' = now + 1 /\ UNCHANGED <<expires, log, committed, call, letters, unwritten>>
  BY DEF Intact, Typed, Elapse, Tick
<1>5. (\A f : Remembered(f)' = Remembered(f)) /\ \A d \in Calls : Kept(d)' = Kept(d)
  BY <1>1, KeptSame
<1>6. Typed'
  BY <1>1 DEF Typed, arrived
<1>7. Grows
  BY <1>1, <1>5 DEF Grows, arrived, Typed
<1>8. ASSUME NEW d \in Calls PROVE Held(d)' /\ Represented(d)'
  BY <1>1, <1>7, LeftAlone DEF Intact
<1>9. ASSUME NEW f \in Fingerprints PROVE Marks(f)'
  <2>1. expires[f] \in Nat /\ Window \in Nat /\ Marks(f)
    BY <1>1, DeduplicationAssumption DEF Typed, Intact
  <2>2. ASSUME NEW r \in Remembered(f) PROVE r[2].at \in Nat
    BY <1>1, <2>2, RememberedType
  <2> QED
    BY <1>1, <1>5, <2>1, <2>2 DEF Marks
<1> QED
  BY <1>6, <1>8, <1>9 DEF Intact

LEMMA IntactCrash == Intact /\ Crash => Intact'
<1> SUFFICES ASSUME Intact, Crash PROVE Intact'
  OBVIOUS
<1>1. /\ Typed /\ call' \in [Calls -> CallRow]
      /\ \A c \in Calls :
                 /\ c \notin Active => call'[c] = call[c]
                 /\ c \in Active => call'[c].pc = "lost" /\ call'[c].items = <<>>
                 /\ call'[c].source = call[c].source /\ call'[c].taken = call[c].taken
                 /\ call'[c].kept = call[c].kept /\ call'[c].dropped = call[c].dropped
      /\ UNCHANGED <<now, expires, log, committed, letters, unwritten>>
  BY CrashIs DEF Intact
<1>5. (\A f : Remembered(f)' = Remembered(f)) /\ \A d \in Calls : Kept(d)' = Kept(d)
  BY <1>1, KeptSame
<1>6. Typed'
  BY <1>1 DEF Typed, arrived
<1>7. Grows
  BY <1>1, <1>5 DEF Grows, arrived, Typed
<1>8. ASSUME NEW d \in Calls PROVE Held(d)' /\ Represented(d)'
  <2>1. CASE d \notin Active
    BY <1>1, <1>7, <2>1, LeftAlone DEF Intact
  <2>2. CASE d \in Active
    <3>1. Held(d)'
      BY <1>1, <2>2 DEF Intact, Held, arrived
    <3>2. Represented(d)'
      BY <1>1, <1>5, <2>2 DEF Intact, Represented
    <3> QED
      BY <3>1, <3>2
  <2> QED
    BY <2>1, <2>2
<1>9. ASSUME NEW f \in Fingerprints PROVE Marks(f)'
  BY <1>1, <1>5, MarksLeftAlone DEF Intact
<1> QED
  BY <1>6, <1>8, <1>9 DEF Intact

LEMMA IntactBegin ==
    ASSUME Intact, NEW c \in Calls, NEW source \in Sources, Begin(c, source)
    PROVE  Intact'
<1>1. /\ Only(c) /\ call[c].pc = "idle" /\ call'[c].pc = "fetching"
      /\ call'[c].taken = call[c].taken /\ call'[c].items = call[c].items
      /\ call'[c].kept = call[c].kept /\ call'[c].dropped = call[c].dropped
  BY BeginIs DEF Intact
<1>2. UNCHANGED <<now, correlated, expires, log, committed, letters, unwritten>>
      /\ committed \in Nat \cup {NoOffset}
  BY DEF Begin, Intact, Typed
<1>3. Held(c)'
  <2>1. Held(c) /\ arrived' = arrived
    BY <1>2 DEF Intact, arrived
  <2>2. call'[c].taken = {} /\ call'[c].items = <<>> /\ call'[c].kept = <<>>
    BY <1>1, <2>1 DEF Held
  <2>3. Elems(call'[c].items) = {}
    BY <2>2 DEF Elems
  <2> QED
    BY <1>1, <2>2, <2>3 DEF Held
<1> QED
  BY <1>1, <1>2, <1>3, IntactQuietly

LEMMA IntactPoll ==
    ASSUME Intact, NEW c \in Calls, Poll(c)
    PROVE  Intact'
<1> DEFINE k == call[c]
           i == k.pos + 1
<1>1. /\ Typed /\ Only(c) /\ k.pc = "fetching" /\ i \in 1..arrived /\ i \in Nat
      /\ i \in Payloads
      /\ call'[c].taken = k.taken \cup {i}
      /\ call'[c].kept = k.kept /\ call'[c].dropped = k.dropped
      /\ UNCHANGED <<now, correlated, expires, log>>
  <2>1. k.pos \in Nat /\ k.pos < arrived /\ k.pos + 1 \in 1..arrived /\ k.pos + 1 \in Payloads
    BY PollIs DEF Intact
  <2>2. i \in Nat /\ i \in 1..arrived /\ i \in Payloads
    BY <2>1
  <2> QED
    BY <2>2, PollIs DEF Intact
<1>12. call[c].source = "kafka" /\ call'[c].source = "kafka"
  BY PollIs DEF Intact
<1>2. \/ /\ DeadLetter({i}) /\ call'[c].pc = "fetching"
         /\ call'[c].items = k.items /\ committed' = committed
      \/ /\ call'[c].pc = "raised" /\ call'[c].items = <<>> /\ committed' = i
         /\ letters' = letters /\ unwritten' = unwritten
      \/ /\ log[i] \in {"alert", "invalid", "scalar"} /\ call'[c].pc = "fetching"
         /\ call'[c].items = Append(k.items, i)
         /\ committed' = committed /\ letters' = letters /\ unwritten' = unwritten
  BY PollIs DEF Intact
<1>3. letters \subseteq letters' /\ unwritten \subseteq unwritten'
      /\ committed' \in Nat \cup {NoOffset}
  BY <1>1, <1>2, DeadLetterIs DEF Typed
<1>4. arrived' = arrived /\ Held(c) /\ call'[c].taken \subseteq 1..arrived' /\ Kept(c)' = Kept(c)
  BY <1>1 DEF arrived, Intact, Held, Kept
<1>5. k.items \in Seq(Payloads)
  BY <1>1 DEF Typed, CallRow
<1>6. \A j \in k.taken : Settled(c, j)
  BY <1>1, <1>4 DEF Held
<1>7. \A j \in Elems(k.items) : j \in k.taken /\ log[j] \in {"alert", "invalid", "scalar"}
  BY <1>1, <1>4 DEF Held
<1> HIDE DEF i
<1>8. ASSUME call'[c].pc = "raised" PROVE Held(c)'
  BY <1>1, <1>2, <1>4, <1>8 DEF Held
<1>9. ASSUME DeadLetter({i}), call'[c].pc = "fetching", call'[c].items = k.items
      PROVE  Held(c)'
  <2>1. i \in letters' \cup unwritten'
    BY <1>9, DeadLetterIs
  <2>2. Elems(call'[c].items) = Elems(k.items)
    BY <1>9
  <2>3. \A j \in call'[c].taken : Settled(c, j)'
    BY <1>1, <1>3, <1>4, <1>6, <1>12, <2>1, <2>2 DEF Settled
  <2>4. \A j \in Elems(call'[c].items) : j \in call'[c].taken /\ log'[j] \in {"alert", "invalid", "scalar"}
    BY <1>1, <1>7, <2>2
  <2> QED
    BY <1>1, <1>4, <1>9, <2>3, <2>4 DEF Held
<1>10. ASSUME log[i] \in {"alert", "invalid", "scalar"}, call'[c].pc = "fetching",
              call'[c].items = Append(k.items, i)
       PROVE  Held(c)'
  <2>1. Elems(call'[c].items) = Elems(k.items) \cup {i}
    BY <1>1, <1>5, <1>10, ElemsAppend
  <2>3. \A j \in call'[c].taken : Settled(c, j)'
    BY <1>1, <1>3, <1>4, <1>6, <1>12, <2>1 DEF Settled
  <2>4. \A j \in Elems(call'[c].items) : j \in call'[c].taken /\ log'[j] \in {"alert", "invalid", "scalar"}
    BY <1>1, <1>7, <1>10, <2>1
  <2> QED
    BY <1>1, <1>4, <1>10, <2>3, <2>4 DEF Held
<1>11. Held(c)'
  BY <1>2, <1>8, <1>9, <1>10
<1> QED
  BY <1>1, <1>3, <1>11, IntactQuietly

LEMMA IntactAutoCommit ==
    ASSUME Intact, NEW c \in Calls, AutoCommit(c)
    PROVE  Intact'
<1>1. /\ call \in [Calls -> CallRow] /\ committed' = call[c].pos
      /\ UNCHANGED <<now, correlated, expires, log, call, letters, unwritten>>
  BY DEF AutoCommit, Intact, Typed
<1>2. call[c].pos \in Nat
  BY <1>1 DEF CallRow
<1>3. Only(c)
  BY <1>1 DEF Only
<1>4. Held(c)'
  BY <1>1 DEF Intact, Held, Settled, Kept, arrived
<1> QED
  BY <1>1, <1>2, <1>3, <1>4, IntactQuietly

LEMMA IntactClose ==
    ASSUME Intact, NEW c \in Calls, Close(c)
    PROVE  Intact'
<1>1. /\ Only(c) /\ call[c].pc = "fetching" /\ call'[c].pc = "fetched"
      /\ call'[c].taken = call[c].taken /\ call'[c].items = call[c].items
      /\ call'[c].kept = call[c].kept /\ call'[c].dropped = call[c].dropped
      /\ call'[c].source = call[c].source
  BY CloseIs DEF Intact
<1>2. committed' = Consumed(c) /\ UNCHANGED <<now, correlated, expires, log, letters, unwritten>>
  BY DEF Close
<1>3. committed' \in Nat \cup {NoOffset}
  BY <1>2 DEF Intact, Typed, CallRow, Consumed
<1>4. Held(c)'
  <2>1. Kept(c)' = Kept(c) /\ arrived' = arrived /\ Held(c)
    BY <1>1, <1>2 DEF Kept, Intact, arrived
  <2>2. \A i : Settled(c, i)' <=> Settled(c, i)
    BY <1>1, <1>2, <2>1 DEF Settled
  <2> QED
    BY <1>1, <1>2, <2>1, <2>2 DEF Held
<1> QED
  BY <1>1, <1>2, <1>3, <1>4, IntactQuietly

LEMMA IntactReceive ==
    ASSUME Intact, NEW c \in Calls, Fetch(c) \/ Read(c) \/ Post(c)
    PROVE  Intact'
<1>1. /\ Only(c) /\ call[c].pc = "fetching" /\ call'[c].source = call[c].source
      /\ call'[c].kept = call[c].kept /\ call'[c].dropped = call[c].dropped
      /\ UNCHANGED <<now, correlated, expires, log, committed, letters, unwritten>>
      /\ committed \in Nat \cup {NoOffset} /\ Held(c)
  BY ReceiveIs DEF Intact, Typed
<1>2. \/ /\ call'[c].pc = "fetching"
         /\ call'[c].taken = call[c].taken /\ call'[c].items = call[c].items
      \/ /\ call'[c].pc = "raised"
         /\ call'[c].taken = call[c].taken /\ call'[c].items = <<>>
      \/ call'[c].pc = "fetched" /\ Supplied(c)'
  BY ReceiveIs DEF Intact
<1>3. Kept(c)' = Kept(c) /\ arrived' = arrived
  BY <1>1 DEF Kept, arrived
<1>4. ASSUME call'[c].pc = "fetching",
             call'[c].taken = call[c].taken, call'[c].items = call[c].items
      PROVE  Held(c)'
  <2>1. \A i : Settled(c, i)' <=> Settled(c, i)
    BY <1>1, <1>3, <1>4 DEF Settled
  <2> QED
    BY <1>1, <1>3, <1>4, <2>1 DEF Held
<1>5. ASSUME call'[c].pc = "raised",
             call'[c].taken = call[c].taken, call'[c].items = <<>>
      PROVE  Held(c)'
  BY <1>1, <1>3, <1>5 DEF Held
<1>6. ASSUME call'[c].pc = "fetched", Supplied(c)' PROVE Held(c)'
  <2>1. \A i \in call'[c].taken : Settled(c, i)'
    BY <1>6 DEF Settled, Supplied
  <2> QED
    BY <1>1, <1>3, <1>6, <2>1 DEF Held, Supplied
<1>7. Held(c)'
  BY <1>2, <1>4, <1>5, <1>6
<1> QED
  BY <1>1, <1>7, IntactQuietly

LEMMA IntactProcess ==
    ASSUME Intact, NEW c \in Calls, Process(c)
    PROVE  Intact'
<1>1. /\ Only(c) /\ call[c].pc = "fetched" /\ call'[c].pc \in {"storing", "deduping"}
      /\ call'[c].taken = call[c].taken /\ call'[c].source = call[c].source
      /\ Elems(call'[c].items) = {i \in Elems(call[c].items) : Good(i)}
      /\ call'[c].kept = call[c].kept /\ call'[c].dropped = call[c].dropped
      /\ DeadLetter(Bad(c))
      /\ UNCHANGED <<now, correlated, expires, log, committed>>
      /\ committed \in Nat \cup {NoOffset} /\ Held(c)
  BY ProcessIs DEF Intact, Typed
<1>2. letters \subseteq letters' /\ unwritten \subseteq unwritten'
      /\ Bad(c) \subseteq letters' \cup unwritten'
  BY <1>1, DeadLetterIs
<1>3. Kept(c)' = Kept(c) /\ arrived' = arrived
  BY <1>1 DEF Kept, arrived
<1>4. /\ \A i \in call[c].taken : Settled(c, i)
      /\ \A i \in Elems(call[c].items) : i \in call[c].taken /\ (Good(i) \/ i \in Bad(c))
      /\ call[c].kept = <<>>
  <2>1. \A i \in Elems(call[c].items) : Good(i) \/ i \in Bad(c)
    BY DEF Elems, Bad
  <2> QED
    BY <1>1, <2>1 DEF Held
<1>5. \A i \in call'[c].taken : Settled(c, i)'
  BY <1>1, <1>2, <1>3, <1>4 DEF Settled
<1>6. Held(c)'
  BY <1>1, <1>3, <1>4, <1>5 DEF Held
<1> QED
  BY <1>1, <1>2, <1>6, IntactQuietly

LEMMA IntactHandOver ==
    ASSUME Intact, NEW c \in Calls, HandOver(c)
    PROVE  Intact'
<1>1. /\ Only(c) /\ call[c].pc = "deduping" /\ call[c].items = <<>>
      /\ call'[c].pc \in {"raised", "done"}
      /\ call'[c].taken = call[c].taken /\ call'[c].source = call[c].source /\ call'[c].items = <<>>
      /\ call'[c].kept = call[c].kept /\ call'[c].dropped = call[c].dropped
      /\ UNCHANGED <<now, expires, log, committed, letters, unwritten>>
      /\ committed \in Nat \cup {NoOffset} /\ Held(c)
  BY HandOverIs DEF Intact, Typed
<1>2. Kept(c)' = Kept(c) /\ arrived' = arrived
  BY <1>1 DEF Kept, arrived
<1>3. \A i : Settled(c, i)' <=> Settled(c, i)
  BY <1>1, <1>2 DEF Settled
<1>4. Held(c)'
  BY <1>1, <1>2, <1>3 DEF Held
<1> QED
  BY <1>1, <1>4, IntactQuietly

LEMMA IntactCheck ==
    ASSUME Intact, NEW c \in Calls, Check(c)
    PROVE  Intact'
<1> DEFINE k == call[c]
           i == Head(k.items)
           f == Finger[i]
<1>1. /\ Only(c) /\ k.pc = "deduping" /\ k.items # <<>> /\ i \in Payloads
      /\ call'[c].taken = k.taken /\ call'[c].kept = k.kept /\ call'[c].source = k.source
      /\ UNCHANGED <<now, correlated, expires, log, committed, letters, unwritten>>
  BY CheckIs DEF Intact
<1>2. \/ call'[c].pc = "raised" /\ call'[c].items = <<>> /\ call'[c].dropped = k.dropped
      \/ /\ IsDuplicate(f)
         /\ call'[c].pc = "deduping" /\ call'[c].items = Tail(k.items)
         /\ call'[c].dropped = k.dropped \cup {[item |-> i, at |-> now]}
      \/ /\ ~IsDuplicate(f)
         /\ call'[c].pc = "marking" /\ call'[c].items = k.items /\ call'[c].dropped = k.dropped
  BY CheckIs DEF Intact
<1>3. Typed /\ Held(c) /\ Represented(c) /\ committed \in Nat \cup {NoOffset}
      /\ arrived' = arrived /\ k.items \in Seq(Payloads)
  BY <1>1 DEF Intact, Typed, arrived, CallRow
<1>4. (\A g : Remembered(g)' = Remembered(g)) /\ \A d \in Calls : Kept(d)' = Kept(d)
  BY <1>1, KeptSame DEF Only
<1>5. ASSUME IsDuplicate(f), call'[c].pc = "deduping", call'[c].items = Tail(k.items),
             call'[c].dropped = k.dropped \cup {[item |-> i, at |-> now]}
      PROVE  Intact'
  <2>1. Elems(k.items) = {i} \cup Elems(Tail(k.items))
    BY <1>1, <1>3, ElemsTail
  <2>2. f \in Fingerprints /\ now \in Nat /\ Window \in Nat
    BY <1>1, <1>3, IntakeAssumption, DeduplicationAssumption DEF Typed
  <2>3. PICK r \in Remembered(f) : expires[f] = r[2].at + Window /\ r[2].at <= now /\ r[2].at \in Nat
    <3>1. expires[f] # 0 /\ Marks(f)
      BY <1>5, <2>2 DEF IsDuplicate, Intact
    <3>2. PICK r \in Remembered(f) : expires[f] = r[2].at + Window
      BY <3>1 DEF Marks
    <3>3. r[2].at <= now /\ r[2].at \in Nat
      BY <1>3, <3>1, <3>2, RememberedType DEF Marks
    <3> QED
      BY <3>2, <3>3
  <2>4. now \in r[2].at..(r[2].at + Window - 1)
    BY <1>5, <2>2, <2>3 DEF IsDuplicate
  <2>5. PICK y : y = [item |-> i, at |-> now]
    OBVIOUS
  <2>6. y.item = i /\ y.at = now /\ call'[c].dropped = k.dropped \cup {y}
    BY <1>5, <2>5
  <2> HIDE DEF k, i
  <2>7. Represented(c)'
    <3> SUFFICES ASSUME NEW x \in call'[c].dropped
                 PROVE  \E q \in Remembered(Finger[x.item])' :
                           x.at \in q[2].at..(q[2].at + Window - 1)
      BY DEF Represented
    <3>1. CASE x = y
      BY <1>4, <2>3, <2>4, <2>6, <3>1
    <3>2. CASE x \in k.dropped
      BY <1>3, <1>4, <3>2 DEF Represented, k
    <3> QED
      BY <2>6, <3>1, <3>2
  <2>8. ASSUME NEW j, Settled(c, j) PROVE Settled(c, j)'
    <3>1. \A x \in k.dropped : x \in call'[c].dropped
      BY <2>6
    <3>2. i \in {x.item : x \in call'[c].dropped}
      BY <2>6
    <3> QED
      BY <1>1, <1>4, <1>5, <2>1, <2>8, <3>1, <3>2 DEF Settled, k
  <2>9. Held(c)'
    BY <1>1, <1>3, <1>5, <2>8 DEF Held, k
  <2>10. Typed'
    BY <1>1, <1>3 DEF Typed, Only, arrived
  <2>11. Grows
    BY <1>1, <1>3, <1>4 DEF Grows, arrived, Typed
  <2>12. \A g \in Fingerprints : Marks(g)'
    BY <1>1, <1>4, MarksLeftAlone DEF Intact
  <2> QED
    BY <1>1, <2>7, <2>9, <2>10, <2>11, <2>12, IntactBut
<1>6. ASSUME call'[c].pc = "marking", call'[c].items = k.items, call'[c].dropped = k.dropped
      PROVE  Intact'
  <2>1. \A j : Settled(c, j) => Settled(c, j)'
    BY <1>1, <1>4, <1>6 DEF Settled
  <2>2. Held(c)'
    BY <1>1, <1>3, <1>6, <2>1 DEF Held
  <2> QED
    BY <1>1, <1>3, <1>6, <2>2, IntactQuietly
<1>7. ASSUME call'[c].pc = "raised", call'[c].items = <<>>, call'[c].dropped = k.dropped
      PROVE  Intact'
  <2>1. Held(c)'
    BY <1>1, <1>3, <1>7 DEF Held
  <2> QED
    BY <1>1, <1>3, <1>7, <2>1, IntactQuietly
<1> QED
  BY <1>2, <1>5, <1>6, <1>7

\* What the handler stores has no mark.
LEMMA StoreRemembers ==
    ASSUME Intact, NEW c \in Calls, Store(c), NEW g
    PROVE  Remembered(g)' = Remembered(g)
<1> DEFINE k == call[c]
<1>1. Typed /\ Only(c) /\ k.pc = "storing" /\ k.kept = <<>> /\ k.items \in Seq(Payloads)
  BY StoreIs DEF Intact, Held, Typed, CallRow
<1>2. \A n \in 1..Len(call'[c].kept) : ~call'[c].kept[n].marked
  <2>1. CASE call'[c].kept = k.kept
    BY <1>1, <2>1
  <2>2. CASE call'[c].kept = [n \in 1..Len(k.items) |->
                             [item |-> k.items[n], at |-> now, marked |-> FALSE]]
    BY <1>1, <2>2
  <2> QED
    BY <1>1, <2>1, <2>2, StoreIs
<1>3. ASSUME NEW r \in Remembered(g)' PROVE r \in Remembered(g)
  <2>1. PICK d \in Calls : \E n \in 1..Len(call'[d].kept) :
             /\ r = <<d, call'[d].kept[n]>> /\ call'[d].kept[n].marked
             /\ Finger[call'[d].kept[n].item] = g
    BY <1>3, RememberedThen
  <2>2. d # c
    BY <1>2, <2>1
  <2> QED
    BY <1>1, <2>1, <2>2, RememberedIs DEF Only
<1>4. ASSUME NEW r \in Remembered(g) PROVE r \in Remembered(g)'
  <2>1. PICK d \in Calls : \E n \in 1..Len(call[d].kept) :
             /\ r = <<d, call[d].kept[n]>> /\ call[d].kept[n].marked
             /\ Finger[call[d].kept[n].item] = g
    BY <1>4, RememberedIs
  <2>2. d # c
    BY <1>1, <2>1
  <2> QED
    BY <1>1, <2>1, <2>2, RememberedThen DEF Only
<1> QED
  BY <1>3, <1>4

LEMMA IntactStore ==
    ASSUME Intact, NEW c \in Calls, Store(c)
    PROVE  Intact'
<1> DEFINE k == call[c]
<1>1. /\ Only(c) /\ k.pc = "storing" /\ call'[c].taken = k.taken /\ call'[c].items = <<>>
      /\ call'[c].dropped = k.dropped /\ call'[c].source = k.source
      /\ UNCHANGED <<now, correlated, expires, log, committed, letters, unwritten>>
  BY StoreIs DEF Intact
<1>2. \/ call'[c].pc = "raised" /\ call'[c].kept = k.kept
      \/ /\ call'[c].pc = "done"
         /\ call'[c].kept = [n \in 1..Len(k.items) |->
                             [item |-> k.items[n], at |-> now, marked |-> FALSE]]
  BY StoreIs DEF Intact
<1>3. Typed /\ Held(c) /\ Represented(c) /\ committed \in Nat \cup {NoOffset}
      /\ arrived' = arrived /\ k.items \in Seq(Payloads)
  BY <1>1 DEF Intact, Typed, arrived, CallRow
<1>4. ASSUME call'[c].pc = "raised", call'[c].kept = k.kept
      PROVE  Intact'
  <2>2. Held(c)'
    BY <1>1, <1>3, <1>4 DEF Held
  <2> QED
    BY <1>1, <1>3, <1>4, <2>2, IntactQuietly
<1>5. ASSUME call'[c].pc = "done",
             call'[c].kept = [n \in 1..Len(k.items) |->
                             [item |-> k.items[n], at |-> now, marked |-> FALSE]]
      PROVE  Intact'
  <2>1. k.kept = <<>>
    BY <1>1, <1>3 DEF Held
  <2>2. /\ Len(call'[c].kept) = Len(k.items)
        /\ \A n \in 1..Len(k.items) :
              ~call'[c].kept[n].marked /\ call'[c].kept[n].item = k.items[n]
    BY <1>3, <1>5
  <2>3. \A g : Remembered(g)' = Remembered(g)
    BY StoreRemembers
  <2>4. Kept(c)' = Elems(k.items)
    BY <2>2 DEF Kept, Elems
  <2>5. Kept(c) = {}
    BY <2>1 DEF Kept
  <2>6. \A i : Settled(c, i) => Settled(c, i)'
    BY <1>1, <2>4, <2>5 DEF Settled
  <2>7. Held(c)'
    BY <1>1, <1>3, <1>5, <2>6 DEF Held
  <2>8. Represented(c)'
    BY <1>1, <1>3, <2>3 DEF Represented
  <2>9. Typed'
    BY <1>1, <1>3 DEF Typed, Only, arrived
  <2>10. Grows
    BY <1>1, <1>3, <2>3 DEF Grows, arrived, Typed
  <2>11. \A g \in Fingerprints : Marks(g)'
    BY <1>1, <2>3, MarksLeftAlone DEF Intact
  <2> QED
    BY <1>1, <2>7, <2>8, <2>9, <2>10, <2>11, IntactBut
<1> QED
  BY <1>2, <1>4, <1>5

\* Of what is remembered, a step that marks adds one alert at most.
LEMMA MarkAdds ==
    ASSUME Typed, NEW c \in Calls, Only(c), NEW row \in KeptRow,
           call'[c].kept = Append(call[c].kept, row), NEW f
    PROVE  Remembered(f)' = Remembered(f) \cup
              IF row.marked /\ Finger[row.item] = f THEN {<<c, row>>} ELSE {}
<1> DEFINE s == call[c].kept
           t == call'[c].kept
<1>1. s \in Seq(KeptRow)
  BY DEF Typed, CallRow
<1>2. Len(s) \in Nat /\ Len(t) = Len(s) + 1 /\ t[Len(s) + 1] = row
      /\ \A n \in 1..Len(s) : t[n] = s[n]
  BY <1>1
<1>3. ASSUME NEW r \in Remembered(f)'
      PROVE  r \in Remembered(f) \/ (row.marked /\ Finger[row.item] = f /\ r = <<c, row>>)
  <2>1. PICK d \in Calls : \E n \in 1..Len(call'[d].kept) :
             /\ r = <<d, call'[d].kept[n]>> /\ call'[d].kept[n].marked
             /\ Finger[call'[d].kept[n].item] = f
    BY <1>3 DEF Remembered, Entries
  <2>2. CASE d # c
    BY <2>1, <2>2, RememberedIs DEF Only
  <2>3. CASE d = c
    <3>1. PICK n \in 1..Len(t) : r = <<c, t[n]>> /\ t[n].marked /\ Finger[t[n].item] = f
      BY <2>1, <2>3
    <3>2. n = Len(s) + 1 \/ n \in 1..Len(s)
      BY <1>2, <3>1
    <3>3. CASE n = Len(s) + 1
      BY <1>2, <3>1, <3>3
    <3>4. CASE n \in 1..Len(s)
      BY <1>2, <3>1, <3>4, RememberedIs
    <3> QED
      BY <3>2, <3>3, <3>4
  <2> QED
    BY <2>2, <2>3
<1>4. ASSUME NEW r \in Remembered(f) PROVE r \in Remembered(f)'
  <2>1. PICK d \in Calls : \E n \in 1..Len(call[d].kept) :
             /\ r = <<d, call[d].kept[n]>> /\ call[d].kept[n].marked
             /\ Finger[call[d].kept[n].item] = f
    BY <1>4, RememberedIs
  <2>2. CASE d # c
    BY <2>1, <2>2 DEF Only, Remembered, Entries
  <2>3. CASE d = c
    <3>1. PICK n \in 1..Len(s) : r = <<c, s[n]>> /\ s[n].marked /\ Finger[s[n].item] = f
      BY <2>1, <2>3
    <3>2. n \in 1..Len(t) /\ t[n] = s[n]
      BY <1>2, <3>1
    <3>3. n \in 1..Len(call'[c].kept) /\ r = <<c, call'[c].kept[n]>>
          /\ call'[c].kept[n].marked /\ Finger[call'[c].kept[n].item] = f
      BY <3>1, <3>2
    <3> QED
      BY <3>3, RememberedThen
  <2> QED
    BY <2>2, <2>3
<1>5. ASSUME row.marked, Finger[row.item] = f PROVE <<c, row>> \in Remembered(f)'
  <2>1. Len(s) + 1 \in 1..Len(t)
    BY <1>2
  <2>2. /\ <<c, row>> = <<c, t[Len(s) + 1]>> /\ t[Len(s) + 1].marked
        /\ Finger[t[Len(s) + 1].item] = f
    BY <1>2, <1>5
  <2> HIDE DEF s
  <2> QED
    BY <2>1, <2>2, RememberedThen
<1> QED
  BY <1>3, <1>4, <1>5

LEMMA IntactMark ==
    ASSUME Intact, NEW c \in Calls, Mark(c)
    PROVE  Intact'
<1> DEFINE k == call[c]
           i == Head(k.items)
<1>0. Typed /\ Held(c) /\ k.pc = "marking" /\ k.items # <<>>
  BY DEF Intact, Mark, Held
<1>1. /\ Only(c) /\ call'[c].pc = "deduping" /\ call'[c].taken = k.taken
      /\ call'[c].source = k.source /\ call'[c].items = Tail(k.items) /\ i \in Payloads
      /\ call'[c].dropped = k.dropped
      /\ UNCHANGED <<now, correlated, log, committed, letters, unwritten>>
  BY <1>0, MarkIs
<1>2. PICK marked \in BOOLEAN :
         /\ call'[c].kept = Append(k.kept, [item |-> i, at |-> now, marked |-> marked])
         /\ marked => MarkAsSeen(Finger[i])
         /\ ~marked => UNCHANGED expires
  BY <1>0, MarkIs
<1>3. /\ arrived' = arrived /\ k.items \in Seq(Payloads) /\ k.kept \in Seq(KeptRow)
      /\ now \in Nat /\ Window \in Nat \ {0} /\ expires \in [Fingerprints -> Nat]
      /\ Finger[i] \in Fingerprints /\ Represented(c)
  BY <1>0, <1>1, IntakeAssumption, DeduplicationAssumption DEF Typed, arrived, CallRow, Intact
<1>4. PICK row \in KeptRow : row.item = i /\ row.at = now /\ row.marked = marked
                             /\ call'[c].kept = Append(k.kept, row)
  <2>1. [item |-> i, at |-> now, marked |-> marked] \in KeptRow
    BY <1>1, <1>3 DEF KeptRow
  <2> QED
    BY <1>2, <2>1
<1>5. \A f : Remembered(f)' = Remembered(f) \cup
                 IF row.marked /\ Finger[row.item] = f THEN {<<c, row>>} ELSE {}
  BY <1>0, <1>1, <1>4, MarkAdds
<1>6. Kept(c)' = Kept(c) \cup {i}
  <2>1. Len(k.kept) \in Nat /\ Len(call'[c].kept) = Len(k.kept) + 1
        /\ call'[c].kept[Len(k.kept) + 1] = row
        /\ \A n \in 1..Len(k.kept) : call'[c].kept[n] = k.kept[n]
    BY <1>3, <1>4
  <2>2. \A j : j \in Kept(c) <=> \E n \in 1..Len(k.kept) : k.kept[n].item = j
    BY DEF Kept
  <2>3. \A j : j \in Kept(c)' <=>
                \E n \in 1..Len(call'[c].kept) : call'[c].kept[n].item = j
    BY DEF Kept
  <2>4. \A n \in 1..(Len(k.kept) + 1) : n \in 1..Len(k.kept) \/ n = Len(k.kept) + 1
    BY <2>1
  <2>5. /\ Len(k.kept) + 1 \in 1..Len(call'[c].kept)
        /\ \A n \in 1..Len(k.kept) : n \in 1..Len(call'[c].kept)
    BY <2>1
  <2>6. call'[c].kept[Len(k.kept) + 1].item = i
    BY <1>4, <2>1
  <2> HIDE DEF i, k
  <2>7. \A j : j \in Kept(c)' => j \in Kept(c) \/ j = i
    BY <2>1, <2>2, <2>3, <2>4, <2>6
  <2>8. \A j : j \in Kept(c) \/ j = i => j \in Kept(c)'
    BY <2>1, <2>2, <2>3, <2>5, <2>6
  <2> QED
    BY <2>7, <2>8
<1>7. Elems(k.items) = {i} \cup Elems(Tail(k.items))
  BY <1>0, <1>3, ElemsTail
<1> HIDE DEF i
<1>8. \A j : Settled(c, j) => Settled(c, j)'
  BY <1>1, <1>6, <1>7 DEF Settled
<1>9. Held(c)'
  BY <1>0, <1>1, <1>3, <1>8 DEF Held
<1>10. Represented(c)'
  <2> SUFFICES ASSUME NEW x \in k.dropped
               PROVE  \E q \in Remembered(Finger[x.item])' :
                         x.at \in q[2].at..(q[2].at + Window - 1)
    BY <1>1 DEF Represented
  <2>1. PICK q \in Remembered(Finger[x.item]) : x.at \in q[2].at..(q[2].at + Window - 1)
    BY <1>3 DEF Represented
  <2> QED
    BY <1>5, <2>1
<1>11. Typed'
  <2>1. expires' \in [Fingerprints -> Nat]
    BY <1>2, <1>3 DEF MarkAsSeen
  <2> QED
    BY <1>0, <1>1, <2>1 DEF Typed, Only, arrived
<1>12. Grows
  BY <1>0, <1>1, <1>5 DEF Grows, arrived, Typed
<1>13. ASSUME NEW f \in Fingerprints PROVE Marks(f)'
  <2>0. Marks(f) /\ expires[f] \in Nat /\ now' = now
    BY <1>1, <1>3 DEF Intact
  <2>1. CASE ~(marked /\ Finger[i] = f)
    <3>1. Remembered(f)' = Remembered(f)
      BY <1>4, <1>5, <2>1
    <3>2. expires'[f] = expires[f]
      BY <1>2, <1>3, <2>1 DEF MarkAsSeen
    <3> QED
      BY <2>0, <3>1, <3>2 DEF Marks
  <2>2. CASE marked /\ Finger[i] = f
    <3>1. Remembered(f)' = Remembered(f) \cup {<<c, row>>}
      BY <1>4, <1>5, <2>2
    <3>2. expires'[f] = now + Window
      BY <1>2, <1>3, <2>2 DEF MarkAsSeen
    <3>3. <<c, row>>[2].at = now
      BY <1>4
    <3>4. \A r \in Remembered(f) : r[2].at <= now /\ r[2].at \in Nat
      BY <1>0, <2>0, RememberedType DEF Marks
    <3>5. expires'[f] <= now' + Window
      BY <1>3, <2>0, <3>2
    <3>6. \A r \in Remembered(f)' : r[2].at <= now' /\ r[2].at + Window <= expires'[f]
      <4>1. \A r \in Remembered(f) : r[2].at <= now' /\ r[2].at + Window <= expires'[f]
        BY <1>3, <2>0, <3>2, <3>4
      <4>2. <<c, row>>[2].at <= now' /\ <<c, row>>[2].at + Window <= expires'[f]
        BY <1>3, <2>0, <3>2, <3>3
      <4> QED
        BY <3>1, <4>1, <4>2
    <3>7. \E r \in Remembered(f)' : expires'[f] = r[2].at + Window
      BY <3>1, <3>2, <3>3
    <3> QED
      BY <3>5, <3>6, <3>7 DEF Marks
  <2> QED
    BY <2>1, <2>2
<1> QED
  BY <1>1, <1>9, <1>10, <1>11, <1>12, <1>13, IntactBut

LEMMA IntactNext == Intact /\ [Next]_vars => Intact'
<1> SUFFICES ASSUME Intact, [Next]_vars PROVE Intact'
  OBVIOUS
<1>1. CASE Arrive
  BY <1>1, IntactArrive
<1>2. CASE Elapse
  BY <1>2, IntactElapse
<1>3. CASE Crash
  BY <1>3, IntactCrash
<1>4. CASE UNCHANGED vars
  <2>1. \A f : Remembered(f)' = Remembered(f)
    BY <1>4, KeptSame DEF vars
  <2>2. Typed' /\ Grows
    BY <1>4, <2>1 DEF vars, Intact, Typed, Grows, arrived
  <2>3. \A c \in Calls : Held(c)' /\ Represented(c)'
    BY <1>4, <2>2, LeftAlone DEF vars, Intact
  <2>4. \A f \in Fingerprints : Marks(f)'
    BY <1>4, <2>1, MarksLeftAlone DEF vars, Intact
  <2> QED
    BY <2>2, <2>3, <2>4 DEF Intact
<1>5. ASSUME NEW c \in Calls,
             \/ \E source \in Sources : Begin(c, source)
             \/ Poll(c) \/ AutoCommit(c) \/ Close(c)
             \/ Fetch(c) \/ Read(c) \/ Post(c)
             \/ Process(c) \/ Check(c) \/ Mark(c) \/ HandOver(c) \/ Store(c)
      PROVE  Intact'
  BY <1>5, IntactBegin, IntactPoll, IntactAutoCommit, IntactClose, IntactReceive,
     IntactProcess, IntactCheck, IntactMark, IntactHandOver, IntactStore
<1> QED
  BY <1>1, <1>2, <1>3, <1>4, <1>5 DEF Next, Finished

LEMMA AlwaysIntact == Spec => []Intact
  BY IntactInit, IntactNext, PTL DEF Spec

\* A completed call has something left of every payload it took, whatever the other calls
\* and the clock did: an alert let through, a dead letter, or an earlier alert with its
\* fingerprint, marked within the window before.
THEOREM NothingLost == Spec => []NothingVanishes
<1>1. Intact => NothingVanishes
  <2> SUFFICES ASSUME Intact, NEW c \in Calls, call[c].pc = "done", NEW i \in call[c].taken
               PROVE  \/ i \in letters \cup unwritten \cup Kept(c)
                      \/ call[c].source = "file" /\ i \notin Objects
                      \/ \E x \in call[c].dropped, r \in Remembered(Finger[i]) :
                             x.item = i /\ x.at \in r[2].at..(r[2].at + Window - 1)
    BY DEF NothingVanishes
  <2>1. call[c].items = <<>> /\ Settled(c, i)
    BY DEF Intact, Held
  <2>2. Elems(call[c].items) = {}
    BY <2>1 DEF Elems
  <2>3. \/ i \in letters \cup unwritten \cup Kept(c)
        \/ call[c].source = "file" /\ i \notin Objects
        \/ \E x \in call[c].dropped : x.item = i
    BY <2>1, <2>2 DEF Settled, Objects
  <2> QED
    BY <2>3 DEF Intact, Represented
<1> QED
  BY <1>1, AlwaysIntact, PTL

\* Where no call was killed or raised, what a duplicate was dropped in favour of has been
\* handed over, or is held by a call that still will.
THEOREM DropsCovered == Spec => []DropsAreCovered
<1>1. Intact => DropsAreCovered
  <2> SUFFICES ASSUME Intact, \A c \in Calls : call[c].pc \notin {"lost", "raised"},
                      NEW c \in Calls, NEW x \in call[c].dropped
               PROVE  \E d \in Active \cup {e \in Calls : call[e].pc = "done"} :
                         \E i \in Kept(d) : Finger[i] = Finger[x.item]
    BY DEF DropsAreCovered
  <2>1. PICK r \in Remembered(Finger[x.item]) : TRUE
    BY DEF Intact, Represented
  <2>2. PICK d \in Calls : \E n \in 1..Len(call[d].kept) :
                 Finger[call[d].kept[n].item] = Finger[x.item]
    BY <2>1, RememberedIs
  <2>3. \E i \in Kept(d) : Finger[i] = Finger[x.item]
    BY <2>2 DEF Kept
  <2>4. call[d].kept # <<>>
    BY <2>2
  <2>5. call[d].pc # "idle"
    BY <2>4 DEF Intact, Held
  <2>6. call[d].pc \in {"idle"} \cup Stages \cup Outcomes
    BY DEF Intact, Typed, CallRow
  <2>7. d \in Active \cup {e \in Calls : call[e].pc = "done"}
    BY <2>5, <2>6 DEF Outcomes, Active
  <2> QED
    BY <2>3, <2>7
<1> QED
  BY <1>1, AlwaysIntact, PTL

\* What was dropped has an alert with its fingerprint that was let through.
LEMMA Survives ==
    ASSUME Intact, NEW c \in Calls, NEW x \in call[c].dropped
    PROVE  \E d \in Calls : \E i \in Kept(d) : i \in Payloads /\ Finger[i] = Finger[x.item]
<1>1. PICK r \in Remembered(Finger[x.item]) : TRUE
  BY DEF Intact, Represented
<1>2. PICK d \in Calls : \E n \in 1..Len(call[d].kept) :
               Finger[call[d].kept[n].item] = Finger[x.item]
  BY <1>1, RememberedIs
<1>3. PICK n \in 1..Len(call[d].kept) : Finger[call[d].kept[n].item] = Finger[x.item]
  BY <1>2
<1>4. call[d].kept[n].item \in Kept(d)
  BY DEF Kept
<1>5. call[d].kept[n].item \in Payloads
  <2>1. call[d].kept \in Seq(KeptRow)
    BY DEF Intact, Typed, CallRow
  <2>2. call[d].kept[n] \in KeptRow
    BY <2>1
  <2> QED
    BY <2>2 DEF KeptRow
<1> QED
  BY <1>3, <1>4, <1>5

\* What joining two sequences gives.
LEMMA JoinedType ==
    ASSUME NEW X, NEW p \in Seq(X), NEW q \in Seq(X)
    PROVE  p \o q \in Seq(X)
  OBVIOUS

LEMMA JoinedLen ==
    ASSUME NEW X, NEW p \in Seq(X), NEW q \in Seq(X)
    PROVE  Len(p \o q) = Len(p) + Len(q)
  OBVIOUS

LEMMA JoinedHead ==
    ASSUME NEW X, NEW p \in Seq(X), NEW q \in Seq(X), NEW i \in 1..Len(p)
    PROVE  (p \o q)[i] = p[i]
  OBVIOUS

LEMMA JoinedTail ==
    ASSUME NEW X, NEW p \in Seq(X), NEW q \in Seq(X), NEW i \in 1..Len(q)
    PROVE  (p \o q)[Len(p) + i] = q[i]
  OBVIOUS

LEMMA SameSequence ==
    ASSUME NEW X, NEW p \in Seq(X), NEW q \in Seq(X), Len(p) = Len(q),
           \A i \in 1..Len(p) : p[i] = q[i]
    PROVE  p = q
  OBVIOUS

\* Two sequences joined can be cut again where the lengths agree.
LEMMA Cut ==
    ASSUME NEW X, NEW p \in Seq(X), NEW q \in Seq(X), NEW w \in Seq(X), NEW x \in Seq(X),
           p \o q = w \o x, Len(p) = Len(w), Len(q) = Len(x)
    PROVE  p = w /\ q = x
<1>1. ASSUME NEW i \in 1..Len(p)
      PROVE  p[i] = w[i]
  <2>1. i \in 1..Len(w)
    BY Zenon
  <2>2. (p \o q)[i] = p[i]
    BY JoinedHead, Zenon
  <2>3. (w \o x)[i] = w[i]
    BY <2>1, JoinedHead, Zenon
  <2> QED
    BY <2>2, <2>3, Zenon
<1>2. ASSUME NEW i \in 1..Len(q)
      PROVE  q[i] = x[i]
  <2>1. i \in 1..Len(x)
    BY Zenon
  <2>2. (p \o q)[Len(p) + i] = q[i]
    BY JoinedTail, Zenon
  <2>3. (w \o x)[Len(w) + i] = x[i]
    BY <2>1, JoinedTail, Zenon
  <2> QED
    BY <2>2, <2>3, Zenon
<1> QED
  BY <1>1, <1>2, SameSequence, Zenon

\* Four lengths that are not zero and add up to four are one.
LEMMA FourOnes ==
    ASSUME NEW k \in Nat, NEW l \in Nat, NEW m \in Nat, NEW n \in Nat,
           k # 0, l # 0, m # 0, n # 0, ((k + l) + m) + n = ((1 + 1) + 1) + 1
    PROVE  k = 1 /\ l = 1 /\ m = 1 /\ n = 1
  OBVIOUS

LEMMA NotEmpty ==
    ASSUME NEW X, NEW p \in Seq(X)
    PROVE  Len(p) \in Nat /\ (p # <<>> => Len(p) # 0)
  OBVIOUS

\* Four texts, joined, are the same as four pieces, joined.
Joins(p, q, r, s, w, x, y, z) ==
    /\ p \in Seq(STRING) /\ q \in Seq(STRING) /\ r \in Seq(STRING) /\ s \in Seq(STRING)
    /\ p # <<>> /\ q # <<>> /\ r # <<>> /\ s # <<>>
    /\ w \in Seq(STRING) /\ x \in Seq(STRING) /\ y \in Seq(STRING) /\ z \in Seq(STRING)
    /\ Len(w) = 1 /\ Len(x) = 1 /\ Len(y) = 1 /\ Len(z) = 1
    /\ ((p \o q) \o r) \o s = ((w \o x) \o y) \o z

Same(p, q, r, s, w, x, y, z) == p = w /\ q = x /\ r = y /\ s = z

\* Four texts of at least one piece each, joined to four pieces, are one piece each.
LEMMA FourPieces ==
    \A p, q, r, s, w, x, y, z : Joins(p, q, r, s, w, x, y, z) => Same(p, q, r, s, w, x, y, z)
<1> TAKE p, q, r, s, w, x, y, z
<1>0. SUFFICES ASSUME /\ p \in Seq(STRING) /\ q \in Seq(STRING) /\ r \in Seq(STRING) /\ s \in Seq(STRING)
                      /\ p # <<>> /\ q # <<>> /\ r # <<>> /\ s # <<>>
                      /\ w \in Seq(STRING) /\ x \in Seq(STRING) /\ y \in Seq(STRING) /\ z \in Seq(STRING)
                      /\ Len(w) = 1 /\ Len(x) = 1 /\ Len(y) = 1 /\ Len(z) = 1
                      /\ ((p \o q) \o r) \o s = ((w \o x) \o y) \o z
               PROVE  p = w /\ q = x /\ r = y /\ s = z
  BY DEF Joins, Same
<1> DEFINE Lengths(a, b, c, d) ==
              /\ a \o b \in Seq(STRING) /\ (a \o b) \o c \in Seq(STRING)
              /\ Len(a \o b) = Len(a) + Len(b)
              /\ Len((a \o b) \o c) = (Len(a) + Len(b)) + Len(c)
              /\ Len(((a \o b) \o c) \o d) = ((Len(a) + Len(b)) + Len(c)) + Len(d)
<1>1. ASSUME NEW a, NEW b, NEW c, NEW d,
             a \in Seq(STRING), b \in Seq(STRING), c \in Seq(STRING), d \in Seq(STRING)
      PROVE  Lengths(a, b, c, d)
  <2>1. a \o b \in Seq(STRING) /\ Len(a \o b) = Len(a) + Len(b)
    BY <1>1, JoinedType, JoinedLen, Zenon
  <2>2. (a \o b) \o c \in Seq(STRING) /\ Len((a \o b) \o c) = Len(a \o b) + Len(c)
    BY <1>1, <2>1, JoinedType, JoinedLen, Zenon
  <2>3. Len(((a \o b) \o c) \o d) = Len((a \o b) \o c) + Len(d)
    BY <1>1, <2>2, JoinedLen, Zenon
  <2> QED
    BY <2>1, <2>2, <2>3, Zenon
<1> HIDE DEF Lengths
<1>2. Lengths(p, q, r, s)
  BY <1>0, <1>1, Zenon
<1>3. Lengths(w, x, y, z)
  BY <1>0, <1>1, Zenon
<1>4. ((Len(p) + Len(q)) + Len(r)) + Len(s) = ((1 + 1) + 1) + 1
  BY <1>0, <1>2, <1>3, Zenon DEF Lengths
<1>5. Len(p) = 1 /\ Len(q) = 1 /\ Len(r) = 1 /\ Len(s) = 1
  <2>1. /\ Len(p) \in Nat /\ Len(q) \in Nat /\ Len(r) \in Nat /\ Len(s) \in Nat
        /\ Len(p) # 0 /\ Len(q) # 0 /\ Len(r) # 0 /\ Len(s) # 0
    BY <1>0, NotEmpty, Zenon
  <2> QED
    BY <1>4, <2>1, FourOnes, Zenon
<1>6. /\ Len(p) = Len(w) /\ Len(q) = Len(x) /\ Len(r) = Len(y) /\ Len(s) = Len(z)
      /\ Len(p \o q) = Len(w \o x) /\ Len((p \o q) \o r) = Len((w \o x) \o y)
  BY <1>0, <1>2, <1>3, <1>5, Zenon DEF Lengths
<1>7. (p \o q) \o r = (w \o x) \o y /\ s = z
  <2>1. s \in Seq(STRING) /\ z \in Seq(STRING)
    BY <1>0, Zenon
  <2>2. (p \o q) \o r \in Seq(STRING) /\ (w \o x) \o y \in Seq(STRING)
    BY <1>2, <1>3, Zenon DEF Lengths
  <2>3. ((p \o q) \o r) \o s = ((w \o x) \o y) \o z
    BY <1>0, Zenon
  <2>4. Len(s) = Len(z) /\ Len((p \o q) \o r) = Len((w \o x) \o y)
    BY <1>6, Zenon
  <2> QED
    BY <2>1, <2>2, <2>3, <2>4, Cut, Zenon
<1>8. p \o q = w \o x /\ r = y
  <2>1. r \in Seq(STRING) /\ y \in Seq(STRING)
    BY <1>0, Zenon
  <2>2. p \o q \in Seq(STRING) /\ w \o x \in Seq(STRING)
    BY <1>2, <1>3, Zenon DEF Lengths
  <2>3. Len(r) = Len(y) /\ Len(p \o q) = Len(w \o x)
    BY <1>6, Zenon
  <2> QED
    BY <1>7, <2>1, <2>2, <2>3, Cut, Zenon
<1>9. p = w /\ q = x
  <2>1. p \in Seq(STRING) /\ q \in Seq(STRING) /\ w \in Seq(STRING) /\ x \in Seq(STRING)
    BY <1>0, Zenon
  <2>2. Len(p) = Len(w) /\ Len(q) = Len(x)
    BY <1>6, Zenon
  <2> QED
    BY <1>8, <2>1, <2>2, Cut, Zenon
<1> QED
  BY <1>7, <1>8, <1>9, Zenon

LEMMA SameFields ==
    ASSUME NEW i \in Payloads, NEW j \in Payloads, Finger[i] = Finger[j], Plain(j)
    PROVE  /\ Normalised[i].rule_id = Normalised[j].rule_id
           /\ Normalised[i].source_ip = Normalised[j].source_ip
           /\ Normalised[i].host = Normalised[j].host
           /\ Normalised[i].user = Normalised[j].user
<1> DEFINE a == Normalised[i]
           b == Normalised[j]
<1>1. N!Fingerprint(a) = N!Fingerprint(b)
  BY PipelineAssumption
<1>2. /\ \A v \in Texts(i) : Pieces[v] \in Seq(STRING) /\ Pieces[v] # <<>>
      /\ \A v \in Texts(j) : Pieces[v] \in Seq(STRING) /\ Len(Pieces[v]) = 1
      /\ \A v \in Texts(i), w \in Texts(j) : Pieces[v] = Pieces[w] => v = w
  BY PipelineAssumption DEF AllTexts, Plain
<1>3. /\ {a.rule_id, a.source_ip, a.host, a.user} = Texts(i)
      /\ {b.rule_id, b.source_ip, b.host, b.user} = Texts(j)
  BY DEF Texts
<1> HIDE DEF a, b
<1>4. Pieces[a.rule_id] \o Pieces[a.source_ip] \o Pieces[a.host] \o Pieces[a.user]
        = Pieces[b.rule_id] \o Pieces[b.source_ip] \o Pieces[b.host] \o Pieces[b.user]
  BY <1>1 DEF N!Fingerprint
<1>5. /\ Pieces[a.rule_id] = Pieces[b.rule_id] /\ Pieces[a.source_ip] = Pieces[b.source_ip]
      /\ Pieces[a.host] = Pieces[b.host] /\ Pieces[a.user] = Pieces[b.user]
  <2>1. /\ Pieces[a.rule_id] \in Seq(STRING) /\ Pieces[a.rule_id] # <<>>
        /\ Pieces[a.source_ip] \in Seq(STRING) /\ Pieces[a.source_ip] # <<>>
        /\ Pieces[a.host] \in Seq(STRING) /\ Pieces[a.host] # <<>>
        /\ Pieces[a.user] \in Seq(STRING) /\ Pieces[a.user] # <<>>
    BY <1>2, <1>3, Zenon
  <2>2. /\ Pieces[b.rule_id] \in Seq(STRING) /\ Len(Pieces[b.rule_id]) = 1
        /\ Pieces[b.source_ip] \in Seq(STRING) /\ Len(Pieces[b.source_ip]) = 1
        /\ Pieces[b.host] \in Seq(STRING) /\ Len(Pieces[b.host]) = 1
        /\ Pieces[b.user] \in Seq(STRING) /\ Len(Pieces[b.user]) = 1
    BY <1>2, <1>3, Zenon
  <2>3. Joins(Pieces[a.rule_id], Pieces[a.source_ip], Pieces[a.host], Pieces[a.user],
              Pieces[b.rule_id], Pieces[b.source_ip], Pieces[b.host], Pieces[b.user])
    BY <1>4, <2>1, <2>2, Zenon DEF Joins
  <2>4. Same(Pieces[a.rule_id], Pieces[a.source_ip], Pieces[a.host], Pieces[a.user],
             Pieces[b.rule_id], Pieces[b.source_ip], Pieces[b.host], Pieces[b.user])
    BY <2>3, FourPieces, Zenon
  <2> QED
    BY <2>4, Zenon DEF Same
<1>6. a.rule_id = b.rule_id /\ a.source_ip = b.source_ip /\ a.host = b.host /\ a.user = b.user
  BY <1>2, <1>3, <1>5
<1> QED
  BY <1>6 DEF a, b

\* No asset, user or network loses its group to deduplication, except that of an alert with
\* a text that holds the separator.
THEOREM EntityGroupsKept == Spec => []NoGroupLost
<1>1. ASSUME NEW i \in Payloads, NEW j \in Payloads, Finger[i] = Finger[j], Plain(j),
             NEW rule \in EntityRules
      PROVE  C!Key(rule, i) = C!Key(rule, j)
  BY <1>1, SameFields DEF EntityRules, C!Key, C!Named
<1>2. Intact => NoGroupLost
  <2> SUFFICES ASSUME Intact, NEW c \in Calls, NEW x \in call[c].dropped, Plain(x.item),
                      NEW rule \in EntityRules
               PROVE  \E d \in Calls : \E i \in Kept(d) : C!Key(rule, i) = C!Key(rule, x.item)
    BY DEF NoGroupLost
  <2>0. PICK d \in Calls : \E i \in Kept(d) : i \in Payloads /\ Finger[i] = Finger[x.item]
    BY Survives
  <2>1. PICK i \in Kept(d) : i \in Payloads /\ Finger[i] = Finger[x.item]
    BY <2>0
  <2>2. x.item \in Payloads
    BY DEF Intact, Typed, CallRow, DroppedRow
  <2> QED
    BY <1>1, <2>1, <2>2
<1> QED
  BY <1>2, AlwaysIntact, PTL

-----------------------------------------------------------------------------
(* The offset of the consumer group *)

\* What no consumer was given, of the first n messages, is older than what was taken.
Safe(n) ==
    \A i \in 1..n : i \notin Polled =>
        \A c \in Consumers : call[c].pc # "lost" => \A j \in call[c].taken : i < j

Reads(c) == call[c].pc = "fetching" /\ call[c].source = "kafka"

Offsets ==
    /\ Safe(committed)
    /\ \A c \in Calls : Reads(c) => committed <= call[c].pos /\ Safe(call[c].pos)
    /\ \A c \in Calls : call[c].pc = "idle" => call[c].source = "post" /\ call[c].taken = {}
    /\ \A c, d \in Active : call[c].source = "kafka" /\ call[d].source = "kafka" => c = d
    /\ committed = NoOffset => \A c \in Consumers :
           call[c].pc \notin {"lost", "fetching"} => call[c].taken = {}

\* A step that leaves alone what the offset depends on.
Apart(d) ==
    /\ d \in Consumers' <=> d \in Consumers
    /\ call'[d].pc = "idle" => /\ call[d].pc = "idle" /\ call'[d].source = call[d].source
                               /\ call'[d].taken = call[d].taken
    /\ call[d].source = "kafka" =>
           /\ call'[d].taken = call[d].taken
           /\ call[d].pc = "lost" => call'[d].pc = "lost"
           /\ Reads(d)' => Reads(d) /\ call'[d].pos = call[d].pos
           /\ d \in Active' => d \in Active
           /\ call'[d].pc \notin {"lost", "fetching"} => call[d].pc \notin {"lost", "fetching"}

LEMMA OffsetsApart ==
    ASSUME Offsets, \A d \in Calls : Apart(d), committed' = committed
    PROVE  Offsets'
<1>1. Consumers' = Consumers
  BY DEF Apart, Consumers
<1>2. \A d \in Consumers : /\ d \in Calls /\ call[d].source = "kafka" /\ call'[d].source = "kafka"
                           /\ call'[d].taken = call[d].taken
                           /\ call[d].pc = "lost" => call'[d].pc = "lost"
  BY <1>1 DEF Apart, Consumers
<1>3. Polled' = Polled
  BY <1>1, <1>2 DEF Polled
<1>4. ASSUME NEW n, Safe(n) PROVE Safe(n)'
  BY <1>1, <1>2, <1>3, <1>4 DEF Safe
<1>5. Safe(committed)'
  <2>1. Safe(committed)
    BY DEF Offsets
  <2> QED
    BY <1>1, <1>2, <1>3, <2>1 DEF Safe
<1>6. ASSUME NEW d \in Calls, Reads(d)'
      PROVE  committed' <= call'[d].pos /\ Safe(call[d].pos)' /\ call'[d].pos = call[d].pos
  <2>1. d \in Consumers
    BY <1>1, <1>6 DEF Reads, Consumers
  <2>2. Reads(d) /\ call'[d].pos = call[d].pos
    BY <1>2, <1>6, <2>1 DEF Apart
  <2>3. committed <= call[d].pos /\ Safe(call[d].pos)
    BY <2>2 DEF Offsets
  <2>4. Safe(call[d].pos)'
    BY <1>1, <1>2, <1>3, <2>2, <2>3 DEF Safe
  <2> QED
    BY <2>2, <2>3, <2>4
<1>7. \A d \in Calls : call'[d].pc = "idle" => call'[d].source = "post" /\ call'[d].taken = {}
  BY DEF Offsets, Apart
<1>8. \A d, e \in Active' : call'[d].source = "kafka" /\ call'[e].source = "kafka" => d = e
  <2>1. \A d \in Active' : call'[d].source = "kafka" => d \in Active /\ call[d].source = "kafka"
    BY <1>1 DEF Apart, Active, Consumers
  <2> QED
    BY <2>1 DEF Offsets
<1>9. committed' = NoOffset => \A d \in Consumers' :
           call'[d].pc \notin {"lost", "fetching"} => call'[d].taken = {}
  BY <1>1, <1>2 DEF Offsets, Apart
<1> QED
  BY <1>5, <1>6, <1>7, <1>8, <1>9 DEF Offsets, Safe

LEMMA OffsetsInit == Init => Offsets
<1> SUFFICES ASSUME Init PROVE Offsets
  OBVIOUS
<1>1. \A c \in Calls : call[c] = Idle
  BY DEF Init
<1>2. committed = NoOffset
  BY DEF Init
<1> QED
  BY <1>1, <1>2 DEF Offsets, Safe, Reads, Active, Stages, Consumers, Idle, NoOffset

\* A step of a call that reads no topic, or no longer does.
LEMMA ApartStep ==
    ASSUME NEW c \in Calls, Only(c), call'[c].source = call[c].source,
           call[c].pc \in Stages, call[c].pc # "lost", call'[c].pc # "idle",
           call[c].source = "kafka" =>
               call'[c].taken = call[c].taken /\ call[c].pc # "fetching"
               /\ call'[c].pc # "fetching"
    PROVE  \A d \in Calls : Apart(d)
<1>1. ASSUME NEW d \in Calls, d # c PROVE Apart(d)
  <2>1. call'[d] = call[d]
    BY <1>1 DEF Only
  <2> QED
    BY <2>1 DEF Apart, Consumers, Reads, Active
<1>2. Apart(c)
  BY DEF Apart, Consumers, Reads, Active
<1> QED
  BY <1>1, <1>2

LEMMA OffsetsBegin ==
    ASSUME Intact, Offsets, NEW c \in Calls, NEW source \in Sources, Begin(c, source)
    PROVE  Offsets'
<1>1. /\ Typed /\ Only(c) /\ call[c].pc = "idle" /\ call'[c].pc = "fetching"
      /\ call'[c].source = source /\ call'[c].taken = call[c].taken
      /\ call'[c].pos = IF source = "kafka" THEN StartOffset ELSE 1
  BY BeginIs DEF Intact
<1>2. committed' = committed /\ log' = log
      /\ (source = "kafka" => \A d \in Active : call[d].source # "kafka")
  BY DEF Begin
<1>3. call[c].source = "post" /\ call[c].taken = {} /\ c \notin Consumers
  BY <1>1 DEF Offsets, Consumers
<1>4. CASE source # "kafka"
  <2>1. ASSUME NEW d \in Calls, d # c PROVE Apart(d)
    <3>1. call'[d] = call[d]
      BY <1>1, <2>1 DEF Only
    <3> QED
      BY <3>1 DEF Apart, Consumers, Reads, Active
  <2>2. Apart(c)
    BY <1>1, <1>3, <1>4 DEF Apart, Consumers
  <2> QED
    BY <1>2, <2>1, <2>2, OffsetsApart
<1>5. CASE source = "kafka"
  <2>1. Consumers' = Consumers \cup {c}
    BY <1>1, <1>5 DEF Consumers, Only
  <2>2. \A d \in Consumers : d \in Calls /\ d # c /\ call'[d] = call[d]
    BY <1>1, <1>3 DEF Consumers, Only
  <2>3. call'[c].taken = {}
    BY <1>1, <1>3
  <2>4. Polled' = Polled
    BY <2>1, <2>2, <2>3 DEF Polled
  <2>5. ASSUME NEW n, Safe(n)
        PROVE  \A i \in 1..n : i \notin Polled' =>
                  \A d \in Consumers' : call'[d].pc # "lost" => \A j \in call'[d].taken : i < j
    BY <2>1, <2>2, <2>3, <2>4, <2>5 DEF Safe
  <2>6. \A d \in Consumers : d \notin Active
    BY <1>2, <1>5 DEF Consumers
  <2>7. \A d \in Consumers : call[d].pc \in Outcomes \cup {"idle"}
    BY <1>1, <2>2, <2>6 DEF Active, Typed, CallRow
  <2>8. Safe(StartOffset) /\ committed <= StartOffset
    <3>1. CASE committed # NoOffset
      <4>1. StartOffset = committed /\ committed \in Nat
        BY <1>1, <3>1 DEF StartOffset, Typed
      <4> QED
        BY <4>1 DEF Offsets
    <3>2. CASE committed = NoOffset
      <4>1. \A d \in Consumers : call[d].pc # "lost" => call[d].taken = {}
        BY <2>7, <3>2 DEF Offsets, Outcomes
      <4>2. Safe(StartOffset)
        BY <4>1 DEF Safe
      <4>3. arrived \in Nat
        BY <1>1 DEF Typed, arrived
      <4> QED
        BY <3>2, <4>2, <4>3 DEF StartOffset, NoOffset
    <3> QED
      BY <3>1, <3>2
  <2>9. Safe(committed)'
    BY <1>2, <2>5 DEF Offsets, Safe
  <2>10. ASSUME NEW d \in Calls, Reads(d)'
         PROVE  committed' <= call'[d].pos
                /\ \A i \in 1..call'[d].pos : i \notin Polled' =>
                     \A e \in Consumers' : call'[e].pc # "lost" => \A j \in call'[e].taken : i < j
    <3>1. d \in Consumers'
      BY <2>10 DEF Reads, Consumers
    <3>2. d = c
      <4>1. d \in Consumers => call[d].pc \notin {"fetching"} /\ call'[d] = call[d]
        BY <2>2, <2>7 DEF Outcomes
      <4> QED
        BY <2>1, <2>10, <3>1, <4>1 DEF Reads
    <3>3. call'[d].pos = StartOffset
      BY <1>1, <1>5, <3>2
    <3> QED
      BY <1>2, <2>5, <2>8, <3>3
  <2>11. \A d \in Calls : call'[d].pc = "idle" => call'[d].source = "post" /\ call'[d].taken = {}
    BY <1>1 DEF Offsets, Only
  <2>12. \A d, e \in Active' : call'[d].source = "kafka" /\ call'[e].source = "kafka" => d = e
    <3>1. \A d \in Active' : call'[d].source = "kafka" => d = c
      BY <2>1, <2>2, <2>6 DEF Active, Consumers
    <3> QED
      BY <3>1
  <2>13. committed' = NoOffset => \A d \in Consumers' :
           call'[d].pc \notin {"lost", "fetching"} => call'[d].taken = {}
    BY <1>2, <2>1, <2>2, <2>3 DEF Offsets
  <2> QED
    BY <2>9, <2>10, <2>11, <2>12, <2>13 DEF Offsets, Safe
<1> QED
  BY <1>4, <1>5

\* While a call reads the topic, no other does.
LEMMA OneReads ==
    ASSUME Offsets, NEW c \in Calls, Reads(c)
    PROVE  /\ c \in Consumers /\ c \in Active
           /\ committed <= call[c].pos /\ Safe(call[c].pos)
           /\ \A d \in Consumers \ {c} : d \in Calls /\ d \notin Active /\ ~Reads(d)
<1>1. c \in Consumers /\ c \in Active
  BY DEF Reads, Consumers, Active, Stages
<1>2. ASSUME NEW d \in Consumers \ {c} PROVE d \in Calls /\ d \notin Active /\ ~Reads(d)
  <2>1. d \notin Active
    BY <1>1, <1>2 DEF Offsets, Consumers
  <2> QED
    BY <2>1 DEF Reads, Active, Consumers, Stages
<1> QED
  BY <1>1, <1>2 DEF Offsets

LEMMA OffsetsAutoCommit ==
    ASSUME Intact, Offsets, NEW c \in Calls, AutoCommit(c)
    PROVE  Offsets'
<1>1. Reads(c) /\ committed' = call[c].pos /\ call' = call
  BY DEF AutoCommit, Fetching, Reads
<1>2. call[c].pos \in Nat
  BY DEF Intact, Typed, CallRow
<1>3. Safe(call[c].pos) /\ \A d \in Calls : Reads(d) => d = c
  BY <1>1, OneReads DEF Consumers, Reads
<1>4. \A d \in Calls : Reads(d) => committed' <= call[d].pos /\ Safe(call[d].pos)
  BY <1>1, <1>2, <1>3
<1>5. Safe(committed)'
  BY <1>1, <1>3 DEF Safe, Polled, Consumers
<1>6. \A d \in Calls : Reads(d)' => committed' <= call'[d].pos /\ Safe(call[d].pos)'
  BY <1>1, <1>4 DEF Safe, Polled, Consumers, Reads
<1>7. committed' # NoOffset
  BY <1>1, <1>2 DEF NoOffset
<1> QED
  BY <1>1, <1>5, <1>6, <1>7 DEF Offsets, Safe, Active

LEMMA OffsetsClose ==
    ASSUME Intact, Offsets, NEW c \in Calls, Close(c)
    PROVE  Offsets'
<1>1. /\ Typed /\ Only(c) /\ Reads(c) /\ call'[c].pc = "fetched"
      /\ call'[c].source = call[c].source /\ call'[c].pos = call[c].pos
      /\ call'[c].taken = call[c].taken
      /\ call[c].source = "kafka"
  BY CloseIs DEF Intact, Reads
<1>2. committed' = IF call[c].taken # {} THEN call[c].pos ELSE committed
  BY DEF Close, Consumed
<1>3. Consumers' = Consumers /\ \A d \in Consumers : call'[d].taken = call[d].taken
  BY <1>1 DEF Consumers, Only
<1>4. Polled' = Polled
  BY <1>3 DEF Polled
<1>5. \A d \in Consumers : call[d].pc = "lost" => call'[d].pc = "lost"
  BY <1>1 DEF Only, Reads, Consumers
<1>6. Safe(call[c].pos) /\ Safe(committed) /\ call[c].pos \in Nat
      /\ \A d \in Consumers \ {c} : d \in Calls /\ d \notin Active /\ ~Reads(d)
  BY <1>1, OneReads DEF Offsets, Typed, CallRow
<1>7. Safe(committed)'
  <2>1. \A i \in 1..committed' : i \notin Polled =>
            \A d \in Consumers : call[d].pc # "lost" => \A j \in call[d].taken : i < j
    BY <1>2, <1>6 DEF Safe
  <2> QED
    BY <1>3, <1>4, <1>5, <2>1 DEF Safe
<1>8. \A d \in Calls : ~Reads(d)'
  <2>1. ASSUME NEW d \in Calls, d # c PROVE ~Reads(d)'
    BY <1>1, <1>6, <2>1 DEF Reads, Only, Consumers
  <2> QED
    BY <1>1, <2>1 DEF Reads
<1>9. \A d \in Calls : call'[d].pc = "idle" => call'[d].source = "post" /\ call'[d].taken = {}
  BY <1>1 DEF Offsets, Only
<1>10. \A d, e \in Active' : call'[d].source = "kafka" /\ call'[e].source = "kafka" => d = e
  <2>1. \A d \in Active' : d \in Active /\ call'[d].source = call[d].source
    <3>1. c \in Active
      BY <1>1, OneReads
    <3> QED
      BY <1>1, <3>1 DEF Active, Only
  <2> QED
    BY <2>1 DEF Offsets
<1>11. committed' = NoOffset => \A d \in Consumers' :
           call'[d].pc \notin {"lost", "fetching"} => call'[d].taken = {}
  <2>1. committed' = NoOffset => committed = NoOffset /\ call[c].taken = {}
    BY <1>2, <1>6 DEF NoOffset
  <2>2. \A d \in Consumers : d # c => call'[d] = call[d]
    BY <1>1 DEF Only, Consumers
  <2> QED
    BY <1>3, <2>1, <2>2 DEF Offsets
<1> QED
  BY <1>7, <1>8, <1>9, <1>10, <1>11 DEF Offsets

LEMMA OffsetsPoll ==
    ASSUME Intact, Offsets, NEW c \in Calls, Poll(c)
    PROVE  Offsets'
<1> DEFINE k == call[c]
           i == k.pos + 1
<1>1. /\ Typed /\ Only(c) /\ Reads(c) /\ k.pos \in Nat
      /\ call'[c].source = "kafka" /\ call'[c].taken = k.taken \cup {i}
  BY PollIs DEF Intact, Reads
<1>2. \/ call'[c].pc = "fetching" /\ call'[c].pos = i /\ committed' = committed
      \/ call'[c].pc = "raised" /\ committed' = i
  BY PollIs DEF Intact
<1>3. /\ c \in Consumers /\ c \in Active /\ committed <= k.pos /\ Safe(k.pos)
      /\ \A d \in Consumers \ {c} :
            d \in Calls /\ d \notin Active /\ ~Reads(d) /\ call'[d] = call[d]
  BY <1>1, OneReads DEF Only
<1>4. Consumers' = Consumers
  BY <1>1, <1>3 DEF Consumers, Only
<1>5. Polled' = Polled \cup {i}
  <2>1. \A d \in Consumers : d # c => call'[d].taken = call[d].taken
    BY <1>3
  <2> QED
    BY <1>1, <1>3, <1>4, <2>1 DEF Polled
<1>6. committed \in Int
  BY <1>1 DEF Typed, NoOffset
<1>7. ASSUME NEW n \in Int, n <= i
      PROVE  \A m \in 1..n : m \notin Polled' =>
                \A d \in Consumers' : call'[d].pc # "lost" => \A j \in call'[d].taken : m < j
  <2> SUFFICES ASSUME NEW m \in 1..n, m \notin Polled', NEW d \in Consumers,
                      call'[d].pc # "lost", NEW j \in call'[d].taken
               PROVE  m < j
    BY <1>4
  <2>1. m # i /\ m \notin Polled
    BY <1>5
  <2>2. m \in 1..k.pos
    BY <1>1, <1>7, <2>1
  <2>3. CASE d # c
    <3>1. call'[d] = call[d]
      BY <1>3, <2>3
    <3> QED
      BY <1>3, <2>1, <2>2, <3>1 DEF Safe
  <2>4. CASE d = c
    <3>1. j \in k.taken \/ j = i
      BY <1>1, <2>4
    <3>2. k.pc # "lost"
      BY <1>1 DEF Reads
    <3>3. j \in k.taken => m < j
      BY <1>3, <2>1, <2>2, <3>2 DEF Safe
    <3>4. m < i
      BY <1>1, <2>2
    <3> QED
      BY <3>1, <3>3, <3>4
  <2> QED
    BY <2>3, <2>4
<1>8. committed' \in Int /\ committed' <= i /\ i \in Int
  BY <1>1, <1>2, <1>3, <1>6
<1>9. Safe(committed)'
  BY <1>7, <1>8 DEF Safe
<1>10. ASSUME NEW d \in Calls, Reads(d)'
       PROVE  committed' <= call'[d].pos
              /\ \A m \in 1..call'[d].pos : m \notin Polled' =>
                   \A e \in Consumers' : call'[e].pc # "lost" => \A j \in call'[e].taken : m < j
  <2>1. d = c
    <3>1. d \in Consumers
      BY <1>4, <1>10 DEF Reads, Consumers
    <3> QED
      BY <1>3, <1>10, <3>1 DEF Reads
  <2>2. call'[d].pos = i /\ committed' = committed
    BY <1>2, <1>10, <2>1 DEF Reads
  <2> QED
    BY <1>7, <1>8, <2>2
<1>11. \A d \in Calls : call'[d].pc = "idle" => call'[d].source = "post" /\ call'[d].taken = {}
  BY <1>1, <1>2 DEF Offsets, Only
<1>12. \A d, e \in Active' : call'[d].source = "kafka" /\ call'[e].source = "kafka" => d = e
  <2>1. \A d \in Active' : call'[d].source = "kafka" => d \in Active /\ call[d].source = "kafka"
    BY <1>3, <1>4 DEF Active, Consumers
  <2> QED
    BY <2>1 DEF Offsets
<1>13. committed' = NoOffset => \A d \in Consumers' :
           call'[d].pc \notin {"lost", "fetching"} => call'[d].taken = {}
  <2>1. committed' = NoOffset => committed = NoOffset /\ call'[c].pc = "fetching"
    BY <1>1, <1>2 DEF NoOffset
  <2> QED
    BY <1>3, <1>4, <2>1 DEF Offsets
<1> QED
  BY <1>9, <1>10, <1>11, <1>12, <1>13 DEF Offsets, Safe

LEMMA OffsetsNext == Intact /\ Offsets /\ [Next]_vars => Offsets'
<1> SUFFICES ASSUME Intact, Offsets, [Next]_vars PROVE Offsets'
  OBVIOUS
<1>0. Typed
  BY DEF Intact
<1>1. CASE Arrive \/ Elapse \/ UNCHANGED vars
  <2>1. call' = call /\ committed' = committed
    BY <1>1 DEF Arrive, Elapse, vars
  <2>2. \A d \in Calls : Apart(d)
    BY <2>1 DEF Apart, Consumers, Reads, Active
  <2> QED
    BY <2>1, <2>2, OffsetsApart
<1>2. CASE Crash
  <2>1. /\ \A c \in Calls :
                 /\ c \notin Active => call'[c] = call[c]
                 /\ c \in Active => call'[c].pc = "lost" /\ call'[c].items = <<>>
                 /\ call'[c].source = call[c].source /\ call'[c].taken = call[c].taken
                 /\ call'[c].kept = call[c].kept /\ call'[c].dropped = call[c].dropped
        /\ committed' = committed
    BY <1>0, <1>2, CrashIs
  <2>2. ASSUME NEW d \in Calls PROVE Apart(d)
    <3>1. CASE d \notin Active
      BY <2>1, <3>1 DEF Apart, Consumers, Reads, Active
    <3>2. CASE d \in Active
      BY <2>1, <3>2 DEF Apart, Consumers, Reads, Active, Stages
    <3> QED
      BY <3>1, <3>2
  <2> QED
    BY <2>1, <2>2, OffsetsApart
<1>3. ASSUME NEW c \in Calls, Fetch(c) \/ Read(c) \/ Post(c)
      PROVE  Offsets'
  <2>1. /\ Only(c) /\ call[c].pc = "fetching" /\ call[c].source # "kafka"
        /\ call'[c].source = call[c].source /\ call'[c].pc # "idle"
        /\ committed' = committed
    BY <1>0, <1>3, ReceiveIs
  <2>2. \A d \in Calls : Apart(d)
    BY <2>1, ApartStep DEF Stages
  <2> QED
    BY <2>1, <2>2, OffsetsApart
<1>4. ASSUME NEW c \in Calls, Process(c) \/ Check(c) \/ Mark(c) \/ HandOver(c) \/ Store(c)
      PROVE  Offsets'
  <2>1. /\ Only(c) /\ call[c].pc \in {"fetched", "deduping", "marking", "storing"}
        /\ call'[c].source = call[c].source /\ call'[c].taken = call[c].taken
        /\ call'[c].pc \notin {"idle", "fetching"} /\ committed' = committed
    <3>1. CASE Process(c)
      BY <1>0, <3>1, ProcessIs
    <3>2. CASE Check(c)
      BY <1>0, <3>2, CheckIs
    <3>3. CASE Mark(c)
      <4>1. call[c].items # <<>>
        BY <3>3 DEF Mark, Intact, Held
      <4> QED
        BY <1>0, <3>3, <4>1, MarkIs
    <3>4. CASE HandOver(c)
      BY <1>0, <3>4, HandOverIs
    <3>5. CASE Store(c)
      BY <1>0, <3>5, StoreIs
    <3> QED
      BY <1>4, <3>1, <3>2, <3>3, <3>4, <3>5
  <2>2. \A d \in Calls : Apart(d)
    BY <2>1, ApartStep DEF Stages
  <2> QED
    BY <2>1, <2>2, OffsetsApart
<1> QED
  BY <1>1, <1>2, <1>3, <1>4, OffsetsBegin, OffsetsPoll, OffsetsAutoCommit, OffsetsClose
  DEF Next, Finished

\* However polls, automatic commits, closings, crashes and other calls interleave: of the
\* messages that the committed offset has passed, those no consumer was given are older
\* than everything that a consumer that was not killed was given.
THEOREM OffsetsAreSafe == Spec => []NoMessageSkipped
<1>1. Offsets => NoMessageSkipped
  BY DEF Offsets, Safe, NoMessageSkipped
<1> QED
  BY <1>1, AlwaysIntact, OffsetsInit, OffsetsNext, PTL DEF Spec

-----------------------------------------------------------------------------
(* How many duplicates pass *)

Near(f, t) == {r \in Remembered(f) : r[2].at \in t..(t + Window - 1)}

\* The calls between their check and their mark.
Markers(f) == {c \in Active : call[c].pc = "marking" /\ Finger[Head(call[c].items)] = f}

\* A window that is not over has let nothing through, or those that may still mark have
\* their places in it.
Crowd ==
    /\ IsFiniteSet(Active) /\ Cardinality(Active) <= Workers
    /\ \A f \in Fingerprints : \A t \in Nat :
           /\ IsFiniteSet(Near(f, t)) /\ Cardinality(Near(f, t)) <= Workers
           /\ now <= t + Window - 1 =>
                 Near(f, t) = {} \/ Cardinality(Near(f, t)) + Cardinality(Markers(f)) <= Workers

LEMMA CrowdCounts ==
    ASSUME Crowd, NEW f \in Fingerprints, NEW t \in Nat
    PROVE  /\ IsFiniteSet(Active) /\ Cardinality(Active) \in Nat
           /\ Cardinality(Active) <= Workers
           /\ IsFiniteSet(Near(f, t)) /\ Cardinality(Near(f, t)) \in Nat
           /\ IsFiniteSet(Markers(f)) /\ Cardinality(Markers(f)) \in Nat
           /\ Cardinality(Markers(f)) <= Cardinality(Active)
<1>1. Markers(f) \subseteq Active
  BY DEF Markers
<1>2. IsFiniteSet(Active) /\ IsFiniteSet(Near(f, t))
  BY DEF Crowd
<1>3. IsFiniteSet(Markers(f)) /\ Cardinality(Markers(f)) <= Cardinality(Active)
  BY <1>1, <1>2, FS_Subset
<1> QED
  BY <1>2, <1>3, FS_CardinalityType DEF Crowd

LEMMA MarkersOnly ==
    ASSUME NEW c \in Calls, Only(c), call'[c].pc # "marking", Active' \subseteq Active \cup {c}
    PROVE  \A f : Markers(f)' \subseteq Markers(f) /\ c \notin Markers(f)'
<1> SUFFICES ASSUME NEW f, NEW d \in Markers(f)'
             PROVE  d \in Markers(f) /\ d # c
  OBVIOUS
<1>1. d \in Active' /\ call'[d].pc = "marking" /\ Finger[Head(call'[d].items)] = f
  BY DEF Markers
<1>2. d \in Calls /\ d # c
  BY <1>1 DEF Active
<1>3. call'[d] = call[d] /\ d \in Active
  BY <1>1, <1>2 DEF Only
<1> QED
  BY <1>1, <1>2, <1>3 DEF Markers

\* A step that lets nothing through and adds no call that may.
LEMMA CrowdQuietly ==
    ASSUME Crowd, Active' \subseteq Active, now \in Nat, now' \in Nat, now <= now',
           \A f : Remembered(f)' = Remembered(f),
           \A f \in Fingerprints : Markers(f)' \subseteq Markers(f)
    PROVE  Crowd'
<1>1. IsFiniteSet(Active') /\ Cardinality(Active') <= Cardinality(Active)
      /\ Cardinality(Active) \in Nat /\ Cardinality(Active') \in Nat /\ Cardinality(Active) <= Workers
  BY FS_Subset, FS_CardinalityType DEF Crowd
<1>2. ASSUME NEW f \in Fingerprints, NEW t \in Nat
      PROVE  /\ IsFiniteSet(Near(f, t)') /\ Cardinality(Near(f, t)') <= Workers
             /\ now' <= t + Window - 1 =>
                  Near(f, t)' = {} \/ Cardinality(Near(f, t)') + Cardinality(Markers(f)') <= Workers
  <2>1. Near(f, t)' = Near(f, t)
    BY DEF Near
  <2>2. Markers(f)' \subseteq Markers(f) /\ IsFiniteSet(Markers(f))
        /\ Cardinality(Near(f, t)) \in Nat /\ Cardinality(Markers(f)) \in Nat
    BY CrowdCounts
  <2>3. IsFiniteSet(Markers(f)') /\ Cardinality(Markers(f)') <= Cardinality(Markers(f))
    BY <2>2, FS_Subset
  <2>4. Cardinality(Markers(f)') \in Nat
    BY <2>3, FS_CardinalityType
  <2>5. IsFiniteSet(Near(f, t)) /\ Cardinality(Near(f, t)) <= Workers
        /\ (now <= t + Window - 1 =>
                 Near(f, t) = {} \/ Cardinality(Near(f, t)) + Cardinality(Markers(f)) <= Workers)
    BY DEF Crowd
  <2>6. now' <= t + Window - 1 => now <= t + Window - 1
    BY DeduplicationAssumption
  <2>7. Workers \in Nat
    BY IntakeAssumption
  <2> QED
    BY <2>1, <2>2, <2>3, <2>4, <2>5, <2>6, <2>7
<1>3. Workers \in Nat
  BY IntakeAssumption
<1> QED
  BY <1>1, <1>2, <1>3 DEF Crowd

LEMMA CrowdInit == Init => Crowd
<1> SUFFICES ASSUME Init PROVE Crowd
  OBVIOUS
<1>1. \A c \in Calls : call[c] = Idle
  BY DEF Init
<1>2. Active = {}
  BY <1>1 DEF Active, Stages, Idle
<1>3. \A f, t : Near(f, t) = {}
  BY <1>1 DEF Near, Remembered, Entries, Idle
<1> QED
  BY <1>2, <1>3, FS_EmptySet, IntakeAssumption DEF Crowd

LEMMA CrowdBegin ==
    ASSUME Intact, Crowd, NEW c \in Calls, NEW source \in Sources, Begin(c, source)
    PROVE  Crowd'
<1>1. /\ Only(c) /\ call[c].pc = "idle" /\ call'[c].pc = "fetching"
      /\ call'[c].kept = call[c].kept
  BY BeginIs DEF Intact
<1>2. now' = now /\ Cardinality(Active) < Workers
  BY DEF Begin
<1>3. \A f : Remembered(f)' = Remembered(f)
  BY <1>1, KeptSame DEF Only
<1>4. Active' = Active \cup {c} /\ c \notin Active
  BY <1>1 DEF Active, Stages, Only
<1>5. ASSUME NEW f PROVE Markers(f)' = Markers(f)
  <2>1. Markers(f)' \subseteq Markers(f)
    BY <1>1, <1>4, MarkersOnly
  <2>2. \A d \in Active : d # c /\ call'[d] = call[d]
    BY <1>1, <1>4 DEF Active, Only
  <2>3. Markers(f) \subseteq Markers(f)'
    BY <1>4, <2>2 DEF Markers
  <2> QED
    BY <2>1, <2>3
<1>6. IsFiniteSet(Active') /\ Cardinality(Active') = Cardinality(Active) + 1
      /\ Cardinality(Active) \in Nat
  BY <1>4, FS_AddElement, FS_CardinalityType DEF Crowd
<1>7. Cardinality(Active') <= Workers
  BY <1>2, <1>6, IntakeAssumption
<1>8. \A f, t : Near(f, t)' = Near(f, t)
  BY <1>3 DEF Near
<1> QED
  BY <1>2, <1>5, <1>6, <1>7, <1>8 DEF Crowd

LEMMA CrowdCheck ==
    ASSUME Intact, Crowd, NEW c \in Calls, Check(c)
    PROVE  Crowd'
<1> DEFINE k == call[c]
           g == Finger[Head(k.items)]
<1>1. /\ Typed /\ Only(c) /\ k.pc = "deduping" /\ call'[c].kept = k.kept
      /\ now' = now /\ now \in Nat /\ expires' = expires
  BY CheckIs DEF Intact, Typed
<1>2. \/ call'[c].pc \in {"deduping", "raised"}
      \/ ~IsDuplicate(g) /\ call'[c].pc = "marking" /\ call'[c].items = k.items
  BY CheckIs DEF Intact
<1>3. \A f : Remembered(f)' = Remembered(f)
  BY <1>1, KeptSame DEF Only
<1>4. Active' \subseteq Active /\ (call'[c].pc = "marking" => Active' = Active)
  BY <1>1, <1>2 DEF Active, Stages, Only
<1>5. ASSUME call'[c].pc \in {"deduping", "raised"} PROVE Crowd'
  <2>1. \A f : Markers(f)' \subseteq Markers(f)
    BY <1>1, <1>4, <1>5 DEF Markers, Only, Active
  <2> QED
    BY <1>1, <1>3, <1>4, <2>1, CrowdQuietly
<1>6. ASSUME ~IsDuplicate(g), call'[c].pc = "marking", call'[c].items = k.items
      PROVE  Crowd'
  <2>1. \A f : f # g => Markers(f)' \subseteq Markers(f)
    BY <1>1, <1>4, <1>6 DEF Markers, Only, Active
  <2>2. ASSUME NEW f \in Fingerprints, NEW t \in Nat
        PROVE  /\ IsFiniteSet(Near(f, t)') /\ Cardinality(Near(f, t)') <= Workers
               /\ now' <= t + Window - 1 =>
                    Near(f, t)' = {} \/ Cardinality(Near(f, t)') + Cardinality(Markers(f)') <= Workers
    <3>1. /\ Near(f, t)' = Near(f, t)
          /\ IsFiniteSet(Near(f, t)) /\ Cardinality(Near(f, t)) <= Workers
      BY <1>3 DEF Near, Crowd
    <3>2. CASE f # g
      <4>1. /\ Markers(f)' \subseteq Markers(f) /\ IsFiniteSet(Markers(f))
            /\ Cardinality(Near(f, t)) \in Nat /\ Cardinality(Markers(f)) \in Nat
        BY <2>1, <3>2, CrowdCounts
      <4>2. IsFiniteSet(Markers(f)') /\ Cardinality(Markers(f)') <= Cardinality(Markers(f))
        BY <4>1, FS_Subset
      <4>3. Cardinality(Markers(f)') \in Nat
        BY <4>2, FS_CardinalityType
      <4>4. now <= t + Window - 1 =>
                 Near(f, t) = {} \/ Cardinality(Near(f, t)) + Cardinality(Markers(f)) <= Workers
        BY DEF Crowd
      <4> QED
        BY <1>1, <3>1, <4>1, <4>2, <4>3, <4>4, IntakeAssumption
    <3>3. CASE f = g
      <4>1. expires[f] \in Nat /\ expires[f] <= now /\ Marks(f) /\ Window \in Nat
        BY <1>1, <1>6, <3>3, DeduplicationAssumption DEF IsDuplicate, Typed, Intact
      <4>2. ASSUME NEW r \in Remembered(f), now <= t + Window - 1
            PROVE  r[2].at \notin t..(t + Window - 1)
        <5>1. r[2].at \in Nat /\ r[2].at + Window <= expires[f]
          BY <1>1, <4>1, RememberedType DEF Marks
        <5> QED
          BY <1>1, <4>1, <4>2, <5>1
      <4>3. now <= t + Window - 1 => Near(f, t) = {}
        BY <4>2 DEF Near
      <4> QED
        BY <1>1, <3>1, <4>3
    <3> QED
      BY <3>2, <3>3
  <2> QED
    BY <1>4, <1>6, <2>2 DEF Crowd
<1> QED
  BY <1>2, <1>5, <1>6

LEMMA CrowdMark ==
    ASSUME Intact, Crowd, NEW c \in Calls, Mark(c)
    PROVE  Crowd'
<1> DEFINE k == call[c]
           i == Head(k.items)
           g == Finger[i]
<1>0. Typed /\ k.pc = "marking" /\ k.items # <<>>
  BY DEF Intact, Mark, Held
<1>1. /\ Only(c) /\ call'[c].pc = "deduping" /\ i \in Payloads /\ now' = now /\ now \in Nat
  BY <1>0, MarkIs DEF Typed
<1>2. PICK marked \in BOOLEAN :
         call'[c].kept = Append(k.kept, [item |-> i, at |-> now, marked |-> marked])
  BY <1>0, MarkIs
<1>3. PICK row \in KeptRow : row.item = i /\ row.at = now /\ row.marked = marked
                             /\ call'[c].kept = Append(k.kept, row)
  <2>1. [item |-> i, at |-> now, marked |-> marked] \in KeptRow
    BY <1>1 DEF KeptRow
  <2> QED
    BY <1>2, <2>1
<1>4. \A f : Remembered(f)' = Remembered(f) \cup
                 IF row.marked /\ Finger[row.item] = f THEN {<<c, row>>} ELSE {}
  BY <1>0, <1>1, <1>3, MarkAdds
<1>5. Active' = Active /\ c \in Active
  BY <1>0, <1>1 DEF Active, Stages, Only
<1>6. /\ \A f : Markers(f)' \subseteq Markers(f)
      /\ c \in Markers(g) /\ \A f : c \notin Markers(f)'
  <2>1. \A f : Markers(f)' \subseteq Markers(f) /\ c \notin Markers(f)'
    BY <1>1, <1>5, MarkersOnly
  <2>2. c \in Markers(g)
    BY <1>0, <1>5 DEF Markers
  <2> QED
    BY <2>1, <2>2
<1>7. ASSUME NEW f \in Fingerprints, NEW t \in Nat
      PROVE  /\ IsFiniteSet(Near(f, t)') /\ Cardinality(Near(f, t)') <= Workers
             /\ now' <= t + Window - 1 =>
                  Near(f, t)' = {} \/ Cardinality(Near(f, t)') + Cardinality(Markers(f)') <= Workers
  <2> DEFINE W == Near(f, t)
             new == <<c, row>>
  <2>1. /\ IsFiniteSet(W) /\ Cardinality(W) \in Nat /\ Cardinality(W) <= Workers
        /\ IsFiniteSet(Markers(f)) /\ Cardinality(Markers(f)) \in Nat
        /\ Cardinality(Markers(f)) <= Workers /\ Workers \in Nat
        /\ now <= t + Window - 1 => W = {} \/ Cardinality(W) + Cardinality(Markers(f)) <= Workers
    BY CrowdCounts, IntakeAssumption DEF Crowd
  <2>2. IsFiniteSet(Markers(f)') /\ Cardinality(Markers(f)') <= Cardinality(Markers(f))
        /\ Cardinality(Markers(f)') \in Nat
    BY <1>6, <2>1, FS_Subset, FS_CardinalityType
  <2>3. CASE ~(marked /\ g = f /\ now \in t..(t + Window - 1))
    <3>1. Near(f, t)' = W
      BY <1>3, <1>4, <2>3 DEF Near
    <3> QED
      BY <1>1, <2>1, <2>2, <3>1
  <2>4. CASE marked /\ g = f /\ now \in t..(t + Window - 1)
    <3>1. Near(f, t)' = W \cup {new}
      BY <1>3, <1>4, <2>4 DEF Near
    <3>2. IsFiniteSet(Near(f, t)') /\ Cardinality(Near(f, t)') \in Nat
          /\ Cardinality(Near(f, t)') <= Cardinality(W) + 1
      <4>1. CASE new \in W
        <5>1. Near(f, t)' = W
          BY <3>1, <4>1
        <5> QED
          BY <2>1, <5>1
      <4>2. CASE new \notin W
        <5>1. IsFiniteSet(W \cup {new}) /\ Cardinality(W \cup {new}) = Cardinality(W) + 1
          BY <2>1, <4>2, FS_AddElement
        <5> QED
          BY <2>1, <3>1, <5>1
      <4> QED
        BY <4>1, <4>2
    <3>3. Cardinality(Markers(f)') < Cardinality(Markers(f))
      <4>1. c \in Markers(f) /\ c \notin Markers(f)'
        BY <1>6, <2>4
      <4>2. Markers(f)' # Markers(f)
        BY <4>1
      <4>3. Cardinality(Markers(f)') = Cardinality(Markers(f)) => Markers(f)' = Markers(f)
        BY <1>6, <2>1, FS_Subset
      <4> QED
        BY <2>1, <2>2, <4>2, <4>3
    <3>4. now <= t + Window - 1 /\ Window \in Nat
      BY <1>1, <2>4, DeduplicationAssumption
    <3>5. W = {} => Cardinality(W) = 0
      BY FS_EmptySet
    <3>6. Cardinality(W) + Cardinality(Markers(f)) <= Workers
      BY <2>1, <3>4, <3>5
    <3> HIDE DEF W
    <3> QED
      BY <2>1, <2>2, <3>2, <3>3, <3>6
  <2> QED
    BY <2>3, <2>4
<1>8. IsFiniteSet(Active') /\ Cardinality(Active') <= Workers
  BY <1>5 DEF Crowd
<1> QED
  BY <1>7, <1>8 DEF Crowd

LEMMA CrowdNext == Intact /\ Crowd /\ [Next]_vars => Crowd'
<1> SUFFICES ASSUME Intact, Crowd, [Next]_vars PROVE Crowd'
  OBVIOUS
<1>0. Typed /\ now \in Nat
  BY DEF Intact, Typed
<1>1. CASE Arrive \/ Elapse \/ UNCHANGED vars
  <2>1. call' = call /\ now' \in Nat /\ now <= now'
    BY <1>0, <1>1 DEF Arrive, Elapse, Tick, vars
  <2>2. Active' = Active /\ (\A f : Markers(f)' = Markers(f)) /\ \A f : Remembered(f)' = Remembered(f)
    BY <2>1 DEF Active, Markers, Remembered, Entries
  <2> QED
    BY <1>0, <2>1, <2>2, CrowdQuietly
<1>2. CASE Crash
  <2>1. /\ \A c \in Calls :
                 /\ c \notin Active => call'[c] = call[c]
                 /\ c \in Active => call'[c].pc = "lost" /\ call'[c].items = <<>>
                 /\ call'[c].source = call[c].source /\ call'[c].taken = call[c].taken
                 /\ call'[c].kept = call[c].kept /\ call'[c].dropped = call[c].dropped
        /\ now' = now
    BY <1>0, <1>2, CrashIs
  <2>2. Active' = {}
    BY <2>1 DEF Active, Stages
  <2>3. \A f : Markers(f)' = {}
    BY <2>2 DEF Markers
  <2>4. \A f : Remembered(f)' = Remembered(f)
    BY <2>1, KeptSame
  <2> QED
    BY <1>0, <2>1, <2>2, <2>3, <2>4, CrowdQuietly
<1>3. ASSUME NEW c \in Calls, Only(c), call[c].pc \in Stages, call'[c].pc # "marking",
             \A f : Remembered(f)' = Remembered(f), now' = now
      PROVE  Crowd'
  <2>1. Active' \subseteq Active
    BY <1>3 DEF Active, Only
  <2>2. \A f : Markers(f)' \subseteq Markers(f)
    BY <1>3, <2>1, MarkersOnly
  <2> QED
    BY <1>0, <1>3, <2>1, <2>2, CrowdQuietly
<1>4. ASSUME NEW c \in Calls, Poll(c) \/ AutoCommit(c) \/ Close(c) \/ Fetch(c) \/ Read(c)
                              \/ Post(c) \/ Process(c) \/ HandOver(c)
      PROVE  Crowd'
  <2>1. /\ Only(c) /\ call[c].pc \in {"fetching", "fetched", "deduping"}
        /\ call'[c].pc # "marking" /\ call'[c].kept = call[c].kept /\ now' = now
    <3>1. CASE Poll(c)
      BY <1>0, <3>1, PollIs
    <3>2. CASE AutoCommit(c)
      BY <1>0, <3>2 DEF AutoCommit, Fetching, Only, Typed
    <3>3. CASE Close(c)
      BY <1>0, <3>3, CloseIs DEF Close
    <3>4. CASE Fetch(c) \/ Read(c) \/ Post(c)
      BY <1>0, <3>4, ReceiveIs
    <3>5. CASE Process(c)
      BY <1>0, <3>5, ProcessIs
    <3>6. CASE HandOver(c)
      BY <1>0, <3>6, HandOverIs
    <3> QED
      BY <1>4, <3>1, <3>2, <3>3, <3>4, <3>5, <3>6
  <2>2. \A f : Remembered(f)' = Remembered(f)
    BY <2>1, KeptSame DEF Only
  <2> QED
    BY <1>3, <2>1, <2>2 DEF Stages
<1>5. ASSUME NEW c \in Calls, Store(c) PROVE Crowd'
  <2>1. /\ Only(c) /\ call[c].pc = "storing" /\ call'[c].pc # "marking" /\ now' = now
    BY <1>0, <1>5, StoreIs
  <2>2. \A f : Remembered(f)' = Remembered(f)
    BY <1>5, StoreRemembers
  <2> QED
    BY <1>3, <2>1, <2>2 DEF Stages
<1> QED
  BY <1>1, <1>2, <1>4, <1>5, CrowdBegin, CrowdCheck, CrowdMark DEF Next, Finished

LEMMA EntriesFinite ==
    ASSUME Typed, NEW f, NEW calls \in SUBSET Calls
    PROVE  IsFiniteSet(Entries(f, calls))
<1> DEFINE D(c) == {m \in 1..Len(call[c].kept) : Finger[call[c].kept[m].item] = f}
           E(c) == {<<c, call[c].kept[n]>> : n \in D(c)}
           T == {E(c) : c \in calls}
<1>1. ASSUME NEW c \in calls PROVE IsFiniteSet(E(c))
  <2>1. Len(call[c].kept) \in Nat
    BY DEF Typed, CallRow
  <2>2. IsFiniteSet(D(c))
    <3>1. PICK k : k = Len(call[c].kept)
      OBVIOUS
    <3>2. k \in Int /\ 1 \in Int
      BY <2>1, <3>1
    <3>3. IsFiniteSet(1..k)
      BY <3>2, FS_Interval, Zenon
    <3>4. D(c) \in SUBSET (1..k)
      BY <3>1
    <3> HIDE DEF D
    <3> QED
      BY <3>3, <3>4, FS_Subset, Zenon
  <2> DEFINE h == [n \in D(c) |-> <<c, call[c].kept[n]>>]
  <2>b. \A n \in D(c) : h[n] = <<c, call[c].kept[n]>>
    BY Zenon
  <2>c. \A n \in D(c) : <<c, call[c].kept[n]>> \in E(c)
    BY Zenon
  <2>3. h \in Surjection(D(c), E(c))
    <3>1. h \in [D(c) -> E(c)]
      <4>1. \A X, Y, f1 : (f1 = [n \in X |-> f1[n]] /\ \A n \in X : f1[n] \in Y) => f1 \in [X -> Y]
        OBVIOUS
      <4>2. h = [n \in D(c) |-> h[n]]
        BY <2>b
      <4>3. \A n \in D(c) : h[n] \in E(c)
        BY <2>b, <2>c, Zenon
      <4> HIDE DEF h, D, E
      <4> QED
        BY <4>1, <4>2, <4>3, Zenon
    <3>2. \A t \in E(c) : \E n \in D(c) : h[n] = t
      BY <2>b, Zenon
    <3> QED
      BY <3>1, <3>2 DEF Surjection
  <2> HIDE DEF D, E, h
  <2> QED
    BY <2>2, <2>3, FS_Surjection
<1>2. IsFiniteSet(T)
  <2>1. IsFiniteSet(calls)
    BY FS_Subset, IntakeAssumption
  <2> DEFINE h == [c \in calls |-> E(c)]
  <2> HIDE DEF E
  <2>2. h \in Surjection(calls, T)
    BY DEF Surjection
  <2> HIDE DEF h, T
  <2> QED
    BY <2>1, <2>2, FS_Surjection
<1>3. \A S \in T : IsFiniteSet(S)
  BY <1>1
<1>4. IsFiniteSet(UNION T)
  <2> HIDE DEF T
  <2> QED
    BY <1>2, <1>3, FS_UNION
<1>5. Entries(f, calls) = UNION T
  BY DEF Entries
<1> QED
  BY <1>4, <1>5

\* Of the alerts with one fingerprint that pass in any one window, never more than calls in
\* progress at once have a mark, over all sources and restarts: any more that pass are
\* alerts whose own mark failed.
THEOREM FewDuplicates == Spec => []DuplicatesBounded
<1>1. Typed /\ Crowd => DuplicatesBounded
  <2> SUFFICES ASSUME Typed, Crowd, NEW f \in Fingerprints, NEW t \in 0..MaxTime
               PROVE  LET passed == {r \in Passed(f) : r[2].at \in t..(t + Window - 1)}
                      IN  Cardinality(passed)
                             <= Workers + Cardinality({r \in passed : ~r[2].marked})
    BY DEF DuplicatesBounded
  <2> DEFINE passed == {r \in Passed(f) : r[2].at \in t..(t + Window - 1)}
             failed == {r \in passed : ~r[2].marked}
             held == {r \in passed : r[2].marked}
  <2>1. t \in Nat
    OBVIOUS
  <2>2. IsFiniteSet(Near(f, t)) /\ Cardinality(Near(f, t)) <= Workers
    BY <2>1 DEF Crowd
  <2>3. IsFiniteSet(Passed(f))
    BY EntriesFinite DEF Passed
  <2>4. IsFiniteSet(passed)
    BY <2>3, FS_Subset
  <2>5. IsFiniteSet(failed) /\ IsFiniteSet(held)
    <3> HIDE DEF passed
    <3> QED
      BY <2>4, FS_Subset
  <2>6. Passed(f) \subseteq Entries(f, Calls)
    BY DEF Passed, Entries
  <2>7. held \subseteq Near(f, t)
    BY <2>6 DEF Near, Remembered
  <2>8. passed = held \cup failed /\ held \cap failed = {}
    OBVIOUS
  <2> HIDE DEF passed, failed, held
  <2>9. Cardinality(held) <= Cardinality(Near(f, t)) /\ Cardinality(held) \in Nat
        /\ Cardinality(failed) \in Nat /\ Cardinality(Near(f, t)) \in Nat /\ Workers \in Nat
    BY <2>2, <2>5, <2>7, FS_Subset, FS_CardinalityType, IntakeAssumption
  <2>10. Cardinality(passed) = Cardinality(held) + Cardinality(failed)
    <3>1. Cardinality(passed)
            = Cardinality(held) + Cardinality(failed) - Cardinality(held \cap failed)
      BY <2>5, <2>8, FS_Union
    <3>2. Cardinality(held \cap failed) = 0
      BY <2>8, FS_EmptySet
    <3> QED
      BY <2>9, <3>1, <3>2
  <2>11. Cardinality(passed) <= Workers + Cardinality(failed)
    BY <2>2, <2>9, <2>10
  <2> QED
    BY <2>11 DEF passed, failed
<1> QED
  BY <1>1, AlwaysIntact, CrowdInit, CrowdNext, PTL DEF Spec, Intact

-----------------------------------------------------------------------------
(* The semantic groups.  Their keys are defined by recursion over the alerts. *)


\* Induction: what fails for some number fails for a least one.
LEMMA LessIsWellFounded == IsWellFoundedOn({ss \in Nat \X Nat : ss[1] < ss[2]}, Nat)
  BY NatLessThanWellFounded DEF OpToRel

LEMMA LeastNumber ==
    ASSUME NEW T \in SUBSET Nat, T # {}
    PROVE  \E n \in T : \A m \in T : n <= m
<1> DEFINE R == {ss \in Nat \X Nat : ss[1] < ss[2]}
<1>1. \A m \in Nat, n \in Nat : m < n => <<m, n>> \in R
  OBVIOUS
<1>2. \E n \in T : \A m \in T : <<m, n>> \notin R
  <2> HIDE DEF R
  <2> QED
    BY LessIsWellFounded, WFMin DEF R
<1> HIDE DEF R
<1>3. PICK n \in T : \A m \in T : <<m, n>> \notin R
  BY <1>2
<1>4. \A m \in T : ~(m < n)
  BY <1>1, <1>3
<1>5. \A m \in T : n <= m
  BY <1>4
<1> QED
  BY <1>5

\* A function whose values are given at its roots, and elsewhere are those of an earlier
\* argument, is defined by saying so.
Follows(f, m, Root, base, up) ==
    f = [n \in 1..m |-> IF n \in Root THEN base[n] ELSE f[up[n]]]

LEMMA Recursion ==
    ASSUME NEW L \in Nat, NEW Root, NEW base, NEW up,
           \A n \in 1..L : n \notin Root => up[n] \in 1..(n - 1)
    PROVE  \E f : Follows(f, L, Root, base, up)
<1> USE DEF Follows
<1> DEFINE Defines(f, m) == Follows(f, m, Root, base, up)
           T == {m \in 0..L : ~\E f : Defines(f, m)}
<1>1. ASSUME T # {} PROVE FALSE
  <2>1. PICK k \in T : \A m \in T : k <= m
    <3>1. T \in SUBSET Nat
      OBVIOUS
    <3> HIDE DEF T
    <3> QED
      BY <1>1, <3>1, LeastNumber
  <2>2. k \in 0..L /\ ~\E f : Defines(f, k)
    BY <2>1
  <2>3. k # 0
    <3> SUFFICES ASSUME k = 0 PROVE FALSE
      OBVIOUS
    <3> DEFINE f == [n \in 1..0 |-> 0]
    <3>1. Defines(f, 0)
      OBVIOUS
    <3> QED
      BY <2>2, <3>1
  <2>4. k - 1 \in 0..L /\ k - 1 \notin T
    BY <2>1, <2>2, <2>3
  <2>5. PICK f : Defines(f, k - 1)
    BY <2>4
  <2> DEFINE g == [n \in 1..k |-> IF n = k THEN (IF k \in Root THEN base[k] ELSE f[up[k]]) ELSE f[n]]
  <2>6. ASSUME NEW n \in 1..k
        PROVE  g[n] = IF n \in Root THEN base[n] ELSE g[up[n]]
    <3>1. n \in 1..L /\ (n \notin Root => up[n] \in 1..(n - 1) /\ up[n] # k /\ up[n] \in 1..k)
      BY <2>2
    <3>2. n \notin Root => g[up[n]] = f[up[n]]
      BY <3>1
    <3>3. n # k => n \in 1..(k - 1)
      BY <2>2
    <3>4. n # k => f[n] = IF n \in Root THEN base[n] ELSE f[up[n]]
      BY <2>5, <3>3
    <3> QED
      BY <3>2, <3>4
  <2>7. Defines(g, k)
    <3> HIDE DEF g
    <3>1. g = [n \in 1..k |-> g[n]]
      BY DEF g
    <3> QED
      BY <2>6, <3>1
  <2> QED
    BY <2>2, <2>7
<1>2. L \notin T
  BY <1>1
<1> QED
  BY <1>2

LEMMA FirstIs ==
    ASSUME NEW S \in SUBSET Nat, S # {}
    PROVE  C!First(S) \in S
<1>1. \E m \in S : \A k \in S : m <= k
  BY LeastNumber
<1> QED
  BY <1>1 DEF C!First

\* What SemanticKeys computes: an alert without a near one founds a group, another joins
\* that of an earlier alert near to it.
LEMMA SemanticKeysIs ==
    ASSUME NEW given, Len(given) \in Nat, NEW n \in 1..Len(given)
    PROVE  /\ C!Near(given, n) = {} => C!SemanticKeys(given)[n] = <<"semantic", given[n]>>
           /\ C!Near(given, n) # {} => \E m \in C!Near(given, n) :
                  C!SemanticKeys(given)[n] = C!SemanticKeys(given)[m]
<1> DEFINE L == Len(given)
           Root == {k \in 1..L : C!Near(given, k) = {}}
           base == [k \in 1..L |-> <<"semantic", given[k]>>]
           up == [k \in 1..L |-> C!First(C!Near(given, k))]
           Keys(f) == f = [k \in 1..L |-> IF C!Near(given, k) = {} THEN <<"semantic", given[k]>>
                                          ELSE f[C!First(C!Near(given, k))]]
<1>1. \A k \in 1..L : C!Near(given, k) \subseteq 1..(k - 1)
  BY DEF C!Near
<1>2. \A k \in 1..L : C!Near(given, k) # {} => C!First(C!Near(given, k)) \in C!Near(given, k)
  <2> TAKE k \in 1..L
  <2>1. C!Near(given, k) \in SUBSET Nat
    BY <1>1
  <2> QED
    BY <2>1, FirstIs
<1>3. \A k \in 1..L : k \notin Root => up[k] \in 1..(k - 1)
  BY <1>1, <1>2
<1>4. \E f : Follows(f, L, Root, base, up)
  <2>1. L \in Nat
    OBVIOUS
  <2> HIDE DEF L, Root, base, up
  <2> QED
    BY <1>3, <2>1, Recursion
<1>5. \E f : Keys(f)
  <2>1. PICK f : Follows(f, L, Root, base, up)
    BY <1>4
  <2>2. Keys(f)
    BY <2>1 DEF Follows
  <2> QED
    BY <2>2
<1>6. C!SemanticKeys(given) = CHOOSE f : Keys(f)
  BY DEF C!SemanticKeys
<1>7. Keys(C!SemanticKeys(given))
  BY <1>5, <1>6
<1> QED
  BY <1>2, <1>7

\* The key of a rule that looks at one alert is not a semantic one.
LEMMA PlainKeys ==
    ASSUME NEW rule \in Enabled \ {"semantic_based"}, NEW i
    PROVE  C!Key(rule, i)[1] # "semantic"
<1>1. rule \in {"time_based", "asset_based", "user_based", "network_based", "rule_based"}
  BY PipelineAssumption DEF Rules
<1> QED
  BY <1>1 DEF C!Key

WithKey(s, key) == {s[n] : n \in {m \in 1..Len(s) : C!SemanticKeys(s)[m] = key}}

\* A semantic group has the alerts with its key.
LEMMA SemanticGroupIs ==
    ASSUME NEW s \in Seq(Payloads), NEW key \in DOMAIN C!Groups(<<>>, s), key[1] = "semantic"
    PROVE  C!Groups(<<>>, s)[key] = WithKey(s, key)
<1>1. <<>> \o s = s /\ Len(<<>>) = 0
  OBVIOUS
<1> DEFINE keys == C!SemanticKeys(s)
           plain == {<<C!Key(rule, s[n]), s[n]>> :
                        rule \in Enabled \ {"semantic_based"}, n \in 1..Len(s)}
           semantic == IF "semantic_based" \in Enabled
                       THEN {<<keys[0 + n], s[n]>> : n \in 1..Len(s)} ELSE {}
           pairs == plain \cup semantic
           groups == [k \in {p[1] : p \in pairs} |-> {p[2] : p \in {q \in pairs : q[1] = k}}]
<1>2. C!Groups(<<>>, s) = groups
  BY <1>1 DEF C!Groups
<1> HIDE DEF keys
<1>3. \A p \in plain : p[1] # key
  BY PlainKeys
<1>4. key \in {p[1] : p \in pairs} /\ groups[key] = {p[2] : p \in {q \in pairs : q[1] = key}}
  BY <1>2
<1>5. PICK p \in semantic : p[1] = key
  BY <1>3, <1>4
<1>6. semantic = {<<keys[n], s[n]>> : n \in 1..Len(s)}
  BY <1>5
<1>7. groups[key] = {q[2] : q \in {r \in semantic : r[1] = key}}
  BY <1>3, <1>4
<1> DEFINE found == {r \in semantic : r[1] = key}
           at == {m \in 1..Len(s) : keys[m] = key}
<1>8. {q[2] : q \in found} = {s[n] : n \in at}
  <2>1. ASSUME NEW r \in found PROVE \E n \in at : r[2] = s[n]
    BY <1>6
  <2>2. ASSUME NEW n \in at PROVE <<keys[n], s[n]>> \in found
    <3>1. <<keys[n], s[n]>> \in semantic
      BY <1>6
    <3> QED
      BY <3>1
  <2>3. ASSUME NEW n \in at PROVE \E r \in found : r[2] = s[n]
    <3>1. <<keys[n], s[n]>>[2] = s[n]
      OBVIOUS
    <3> HIDE DEF found
    <3> QED
      BY <2>2, <3>1
  <2> HIDE DEF found, at
  <2> QED
    BY <2>1, <2>3
<1> HIDE DEF groups
<1> QED
  BY <1>2, <1>7, <1>8 DEF keys, WithKey

LEMMA NearIs ==
    ASSUME NEW s \in Seq(Payloads), NEW n \in 1..Len(s), NEW m \in C!Near(s, n)
    PROVE  /\ m \in 1..Len(s) /\ m < n
           /\ Similarity[s[n]][s[m]] >= Threshold
<1>1. m \in 1..(n - 1) /\ s[m] \in C!Nearest({s[k] : k \in 1..(n - 1)}, s[n])
  BY DEF C!Near
<1> QED
  BY <1>1 DEF C!Nearest

\* Whoever of a semantic group is not its founder is near an alert of the group that came
\* before: of a part without the founder, take the alert that came first.
LEMMA PartHasNeighbour ==
    ASSUME NEW s \in Seq(Payloads), NEW key,
           NEW part \in SUBSET WithKey(s, key), part # {},
           \A a \in part : key # <<"semantic", a>>
    PROVE  \E a \in part, b \in WithKey(s, key) \ part : Similarity[a][b] >= Threshold
<1> USE DEF WithKey
<1> DEFINE T == {n \in 1..Len(s) : C!SemanticKeys(s)[n] = key /\ s[n] \in part}
<1>1. T \in SUBSET Nat /\ T # {}
  OBVIOUS
<1>2. PICK n \in T : \A m \in T : n <= m
  <2> HIDE DEF T
  <2> QED
    BY <1>1, LeastNumber
<1>3. n \in 1..Len(s) /\ C!SemanticKeys(s)[n] = key /\ s[n] \in part /\ Len(s) \in Nat
  BY <1>2
<1>4. C!Near(s, n) # {}
  BY <1>3, SemanticKeysIs
<1>5. PICK m \in C!Near(s, n) : C!SemanticKeys(s)[m] = key
  BY <1>3, <1>4, SemanticKeysIs
<1>6. m \in 1..Len(s) /\ m < n /\ Similarity[s[n]][s[m]] >= Threshold
  BY <1>3, <1>5, NearIs
<1>7. s[m] \in WithKey(s, key)
  BY <1>5, <1>6
<1>8. m \notin T
  BY <1>2, <1>3, <1>6
<1>9. s[m] \notin part
  BY <1>5, <1>6, <1>8
<1> QED
  BY <1>3, <1>6, <1>7, <1>9

LEMMA SemanticChains ==
    ASSUME correlated \in Seq(Payloads)
    PROVE  SemanticGroupsAreChains
<1> DEFINE groups == C!Groups(<<>>, correlated)
<1> SUFFICES ASSUME NEW key \in DOMAIN groups, key[1] = "semantic",
                    NEW part \in (SUBSET groups[key]) \ {{}, groups[key]}
             PROVE  \E a \in part, b \in groups[key] \ part : Similarity[a][b] >= Threshold
  BY DEF SemanticGroupsAreChains
<1> DEFINE group == WithKey(correlated, key)
           rest == group \ part
<1>1. groups[key] = group
  BY SemanticGroupIs
<1>2. group \subseteq Payloads
  BY DEF WithKey
<1> HIDE DEF groups
<1>3. part \in SUBSET group /\ part # {} /\ rest \in SUBSET group /\ rest # {}
  BY <1>1
<1>4. CASE \A a \in part : key # <<"semantic", a>>
  BY <1>1, <1>3, <1>4, PartHasNeighbour
<1>5. CASE \E a \in part : key = <<"semantic", a>>
  <2>1. \A a \in rest : key # <<"semantic", a>>
    BY <1>5
  <2>2. \E a \in rest, b \in group \ rest : Similarity[a][b] >= Threshold
    BY <1>3, <2>1, PartHasNeighbour
  <2>3. PICK a \in rest, b \in part : Similarity[a][b] >= Threshold
    BY <2>2, <1>3
  <2>4. Similarity[b][a] >= Threshold
    BY <1>2, <1>3, <2>3, PipelineAssumption
  <2> QED
    BY <1>1, <2>3, <2>4
<1> QED
  BY <1>4, <1>5

\* An engine is given alerts of payloads only.
Given == correlated \in Seq(Payloads)

LEMMA BatchIs ==
    ASSUME Typed, NEW c \in Calls
    PROVE  Batch(c) \in Seq(Payloads)
<1> DEFINE kept == call[c].kept
<1>1. kept \in Seq(KeptRow)
  BY DEF Typed, CallRow
<1> HIDE DEF kept
<1>2. Len(kept) \in Nat /\ \A n \in 1..Len(kept) : kept[n] \in KeptRow /\ kept[n].item \in Payloads
  <2>1. \A r \in KeptRow : r.item \in Payloads
    BY DEF KeptRow
  <2>2. Len(kept) \in Nat /\ \A n \in 1..Len(kept) : kept[n] \in KeptRow
    BY <1>1
  <2> QED
    BY <2>1, <2>2
<1>3. [n \in 1..Len(kept) |-> kept[n].item] \in Seq(Payloads)
  BY <1>2
<1> QED
  BY <1>3 DEF kept, Batch

LEMMA GivenNext == Intact /\ Given /\ [Next]_vars => Given'
<1> SUFFICES ASSUME Intact, Given, [Next]_vars PROVE Given'
  OBVIOUS
<1>0. Typed
  BY DEF Intact
<1>1. CASE \E c \in Calls : HandOver(c)
  <2>1. PICK c \in Calls : correlated' = correlated \o Batch(c)
    BY <1>1 DEF HandOver
  <2>2. Batch(c) \in Seq(Payloads)
    BY <1>0, BatchIs
  <2> QED
    BY <2>1, <2>2 DEF Given
<1>2. CASE Crash
  BY <1>2 DEF Crash, Given
<1>3. CASE UNCHANGED correlated
  BY <1>3 DEF Given
<1>4. CASE Arrive \/ Elapse \/ Finished \/ UNCHANGED vars
  BY <1>3, <1>4 DEF Arrive, Elapse, Finished, vars
<1>5. ASSUME NEW c \in Calls,
             \/ \E source \in Sources : Begin(c, source)
             \/ Poll(c) \/ AutoCommit(c) \/ Close(c) \/ Fetch(c) \/ Read(c) \/ Post(c)
             \/ Process(c) \/ Check(c) \/ Mark(c) \/ Store(c)
      PROVE  UNCHANGED correlated
  <2>1. CASE \E source \in Sources : Begin(c, source)
    BY <2>1 DEF Begin
  <2>2. CASE Poll(c) \/ AutoCommit(c) \/ Close(c)
    BY <2>2 DEF Poll, AutoCommit, Close
  <2>3. CASE Fetch(c) \/ Read(c) \/ Post(c)
    BY <2>3 DEF Fetch, Read, Post
  <2>4. CASE Process(c) \/ Check(c)
    BY <2>4 DEF Process, Check
  <2>5. CASE Mark(c) \/ Store(c)
    BY <2>5 DEF Mark, Store
  <2> QED
    BY <1>5, <2>1, <2>2, <2>3, <2>4, <2>5
<1> QED
  BY <1>1, <1>2, <1>3, <1>4, <1>5 DEF Next

\* Over all the batches that an engine is given, a semantic group is connected: two alerts
\* share one only over alerts of it, each within the threshold of the next, whatever
\* deduplication dropped between them.
THEOREM SemanticGroupsChain == Spec => []SemanticGroupsAreChains
<1>1. Init => Given
  BY DEF Init, Given
<1>2. Given => SemanticGroupsAreChains
  BY SemanticChains DEF Given
<1> QED
  BY <1>1, <1>2, AlwaysIntact, GivenNext, PTL DEF Spec
=============================================================================
