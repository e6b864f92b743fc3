--------------------------- MODULE AnalysisProofs --------------------------
(***************************************************************************)
(* For any number of requests, texts and overrides: a feedback row is      *)
(* explained by its override and the columns that others have changed, and *)
(* the rules keep a technique that they have read.                         *)
(***************************************************************************)
EXTENDS Analysis, TLAPS

IsRequest(r) ==
    r = [pc |-> r.pc, op |-> r.op, provider |-> r.provider, seen |-> r.seen, set |-> r.set]

Shape ==
    /\ request = [q \in Requests |-> request[q]]
    /\ \A q \in Requests : IsRequest(request[q])
    /\ row = [c \in Columns |-> row[c]]

\* A request knows the columns that no other has changed, and after its commit has them
\* as it assigned them.
Knows(q) ==
    \A c \in Columns \ touched[q] :
        /\ request[q].pc \in {"asking", "ready"} => request[q].seen[c] = row[c]
        /\ request[q].pc = "recording" =>
               row[c] = IF c \in DOMAIN request[q].set THEN request[q].set[c]
                        ELSE request[q].seen[c]

\* A row is written by a request that is over.
Explained(f) ==
    /\ f.request \in Requests /\ request[f.request].pc = "done"
    /\ f.previous = request[f.request].seen
    /\ \A c \in Columns \ touched[f.request] :
           f.new[c] = IF c \in DOMAIN request[f.request].set THEN request[f.request].set[c]
                      ELSE f.previous[c]

\* What the rules have answered names the technique that they were given.
RulesAgree(q) ==
    LET r == request[q]
    IN  r.op = "analyze" /\ ByRules(r.provider) /\ r.pc = "ready"
            /\ r.seen["mitre_technique_id"] # Null
            => r.set["mitre_technique_id"] = r.seen["mitre_technique_id"]

Inv ==
    /\ Shape
    /\ \A q \in Requests : Knows(q)
    /\ \A f \in feedback : Explained(f)

-----------------------------------------------------------------------------
(* The inductive step *)

LEMMA InvInit == Init => Inv
<1> SUFFICES ASSUME Init PROVE Inv
  OBVIOUS
<1>1. \A q \in Requests : request[q] = NotCalled
  BY DEF Init
<1>2. NotCalled.pc = "idle" /\ IsRequest(NotCalled)
  BY DEF NotCalled, IsRequest
<1>3. Shape
  BY <1>1, <1>2 DEF Init, Shape
<1> QED
  BY <1>1, <1>2, <1>3 DEF Init, Inv, Knows

\* A step that writes no column: the request that takes it knows what it knew before, or
\* reads the row now.
LEMMA StepOfOne ==
    ASSUME Inv, NEW q \in Requests, NEW new, IsRequest(new),
           request' = [request EXCEPT ![q] = new], request[q].pc # "done",
           UNCHANGED <<row, touched>>,
           Knows(q)',
           \A f \in feedback' : f \in feedback \/ Explained(f)'
    PROVE  Inv'
<1>1. request'[q] = new /\ \A p \in Requests : p # q => request'[p] = request[p]
  BY DEF Inv, Shape
<1>2. Shape'
  BY <1>1 DEF Inv, Shape
<1>3. \A p \in Requests : Knows(p)'
  BY <1>1 DEF Inv, Knows
<1>4. \A f \in feedback : Explained(f)'
  BY <1>1 DEF Inv, Explained
<1> QED
  BY <1>2, <1>3, <1>4 DEF Inv

\* A request begins, and reads the row.
LEMMA InvBegin ==
    ASSUME Inv, NEW q \in Requests,
           \/ \E op \in {"override", "update"} : \E body \in Bodies(op) : Load(q, op, body)
           \/ \E name \in Names : Analyze(q, name)
    PROVE  Inv'
<1>1. PICK new :
         /\ IsRequest(new) /\ new.pc \in {"ready", "asking"} /\ new.seen = row
         /\ request' = [request EXCEPT ![q] = new]
  BY DEF Load, Analyze, IsRequest
<1>2. request[q].pc = "idle" /\ UNCHANGED <<row, feedback, touched>>
  BY DEF Load, Analyze
<1>3. request'[q] = new
  BY <1>1 DEF Inv, Shape
<1>4. Knows(q)'
  BY <1>1, <1>2, <1>3 DEF Knows
<1> QED
  BY <1>1, <1>2, <1>4, StepOfOne

LEMMA InvAsk ==
    ASSUME Inv, NEW q \in Requests, Ask(q)
    PROVE  Inv'
<1> DEFINE r == request[q]
<1>1. r.pc = "asking" /\ UNCHANGED <<row, feedback, touched>> /\ IsRequest(r)
  BY DEF Ask, Inv, Shape
<1>2. PICK answer : Answered(q, answer)
  BY DEF Ask
<1> DEFINE new == [pc |-> "ready", op |-> "analyze", provider |-> r.provider,
                   seen |-> r.seen, set |-> answer]
<1>3. request' = [request EXCEPT ![q] = new]
  BY <1>2 DEF Answered, Inv, Shape
<1>4. IsRequest(new) /\ new.seen = r.seen /\ new.pc = "ready"
  BY DEF IsRequest
<1> HIDE DEF new
<1>5. request'[q] = new
  BY <1>3 DEF Inv, Shape
<1>6. Knows(q)'
  BY <1>1, <1>4, <1>5 DEF Inv, Knows
<1> QED
  BY <1>1, <1>3, <1>4, <1>6, StepOfOne

\* A step that only moves a request on.
LEMMA Moved ==
    ASSUME Inv, NEW q \in Requests, NEW pc, request' = [request EXCEPT ![q].pc = pc]
    PROVE  /\ request'[q].pc = pc /\ request'[q].provider = request[q].provider
           /\ request'[q].seen = request[q].seen /\ request'[q].set = request[q].set
           /\ IsRequest(request'[q])
           /\ \A p \in Requests : p # q => request'[p] = request[p]
           /\ request' = [request EXCEPT ![q] = request'[q]]
<1> DEFINE r == request[q]
           new == [pc |-> pc, op |-> r.op, provider |-> r.provider, seen |-> r.seen, set |-> r.set]
<1>1. IsRequest(r)
  BY DEF Inv, Shape
<1>2. [r EXCEPT !.pc = pc] = new
  BY <1>1 DEF IsRequest
<1>3. request' = [request EXCEPT ![q] = [r EXCEPT !.pc = pc]]
  BY DEF Inv, Shape
<1>4. /\ IsRequest(new) /\ new.seen = r.seen /\ new.provider = r.provider
      /\ new.pc = pc /\ new.set = r.set
  BY DEF IsRequest
<1> HIDE DEF new
<1>5. request' = [request EXCEPT ![q] = new]
  BY <1>2, <1>3
<1>6. request'[q] = new /\ \A p \in Requests : p # q => request'[p] = request[p]
  BY <1>5 DEF Inv, Shape
<1> QED
  BY <1>4, <1>5, <1>6

LEMMA InvCommit ==
    ASSUME Inv, NEW q \in Requests, Commit(q)
    PROVE  Inv'
<1> DEFINE r == request[q]
<1>1. r.pc = "ready" /\ UNCHANGED feedback /\ row' = Write(r)
  BY DEF Commit
<1>2. PICK pc \in {"recording", "done"} : request' = [request EXCEPT ![q].pc = pc]
  BY DEF Commit
<1>3. touched' = [p \in Requests |->
              IF p # q /\ request[p].pc \in Stages
              THEN touched[p] \cup {c \in Columns : row'[c] # row[c]} ELSE touched[p]]
  BY DEF Commit
<1>4. /\ r'.pc = pc /\ r'.seen = r.seen /\ r'.set = r.set /\ IsRequest(r')
      /\ \A p \in Requests : p # q => request'[p] = request[p]
      /\ request' = [request EXCEPT ![q] = r']
  BY <1>2, Moved
<1>5. Shape'
  BY <1>1, <1>4 DEF Inv, Shape, Write
<1>6. ASSUME NEW p \in Requests PROVE Knows(p)'
  <2>1. CASE p = q
    <3>1. touched'[q] = touched[q]
      BY <1>3
    <3>2. ASSUME NEW c \in Columns \ touched[q]
          PROVE  row'[c] = IF c \in DOMAIN r.set THEN r.set[c] ELSE r.seen[c]
      BY <1>1 DEF Inv, Knows, Write, Dirty
    <3> QED
      BY <1>2, <1>4, <2>1, <3>1, <3>2 DEF Knows
  <2>2. CASE p # q
    <3>1. CASE request[p].pc \in Stages
      <4>1. touched'[p] = touched[p] \cup {c \in Columns : row'[c] # row[c]}
        BY <1>3, <2>2, <3>1
      <4>2. \A c \in Columns \ touched'[p] : row'[c] = row[c] /\ c \notin touched[p]
        BY <4>1
      <4> QED
        BY <1>4, <2>2, <4>2 DEF Inv, Knows
    <3>2. CASE request[p].pc \notin Stages
      BY <1>4, <2>2, <3>2 DEF Knows, Stages
    <3> QED
      BY <3>1, <3>2
  <2> QED
    BY <2>1, <2>2
<1>7. ASSUME NEW f \in feedback PROVE Explained(f)'
  <2>1. Explained(f) /\ f.request # q
    BY <1>1 DEF Inv, Explained
  <2>2. touched'[f.request] = touched[f.request]
    BY <1>3, <2>1 DEF Explained, Stages
  <2> QED
    BY <1>4, <2>1, <2>2 DEF Explained
<1> QED
  BY <1>1, <1>5, <1>6, <1>7 DEF Inv

LEMMA InvRecord ==
    ASSUME Inv, NEW q \in Requests, Record(q)
    PROVE  Inv'
<1> DEFINE r == request[q]
<1>1. /\ r.pc = "recording" /\ UNCHANGED <<row, touched>>
      /\ feedback' = feedback \cup {[request |-> q, previous |-> r.seen, new |-> row]}
      /\ request' = [request EXCEPT ![q].pc = "done"]
  BY DEF Record
<1>2. /\ r'.pc = "done" /\ r'.seen = r.seen /\ r'.set = r.set /\ IsRequest(r')
      /\ request' = [request EXCEPT ![q] = r']
  BY <1>1, Moved
<1>3. Knows(q)'
  BY <1>2 DEF Knows
<1>4. Explained([request |-> q, previous |-> r.seen, new |-> row])'
  BY <1>1, <1>2 DEF Inv, Knows, Explained
<1> QED
  BY <1>1, <1>2, <1>3, <1>4, StepOfOne

LEMMA InvFail ==
    ASSUME Inv, NEW q \in Requests, Fail(q)
    PROVE  Inv'
<1> DEFINE r == request[q]
<1>1. r.pc \in {"ready", "recording"} /\ UNCHANGED <<row, feedback, touched>>
  BY DEF Fail
<1>2. PICK pc \in {"rolled back", "unrecorded"} : request' = [request EXCEPT ![q].pc = pc]
  BY DEF Fail, Inv, Shape
<1>3. r'.pc = pc /\ IsRequest(r') /\ request' = [request EXCEPT ![q] = r']
  BY <1>2, Moved
<1>4. Knows(q)'
  BY <1>2, <1>3 DEF Knows
<1> QED
  BY <1>1, <1>2, <1>3, <1>4, StepOfOne

LEMMA InvNext == Inv /\ [Next]_vars => Inv'
<1> SUFFICES ASSUME Inv, [Next]_vars PROVE Inv'
  OBVIOUS
<1>1. CASE UNCHANGED vars
  BY <1>1 DEF vars, Inv, Shape, Knows, Explained
<1> QED
  BY <1>1, InvBegin, InvAsk, InvCommit, InvRecord, InvFail DEF Next, Finished

LEMMA InvAlways == Spec => []Inv
  BY InvInit, InvNext, PTL DEF Spec

-----------------------------------------------------------------------------
(* What follows *)

\* What the feedback of an override records as changed, it changed itself or another
\* request that committed in between.
THEOREM FeedbackTrue == Spec => []FeedbackIsExplained
<1>1. Inv => FeedbackIsExplained
  BY DEF Inv, Explained, FeedbackIsExplained
<1> QED
  BY <1>1, InvAlways, PTL

-----------------------------------------------------------------------------
(* The technique *)

RulesInv == Inv /\ \A q \in Requests : RulesAgree(q)

\* A step of one request that leaves it in a state that agrees.
LEMMA AgreeOfOne ==
    ASSUME RulesInv, NEW q \in Requests, RulesAgree(q)',
           \A p \in Requests : p # q => request'[p] = request[p]
    PROVE  \A p \in Requests : RulesAgree(p)'
  BY DEF RulesInv, RulesAgree

LEMMA AgreeAsk ==
    ASSUME RulesInv, NEW q \in Requests, Ask(q)
    PROVE  \A p \in Requests : RulesAgree(p)'
<1> DEFINE r == request[q]
<1>1. PICK answer :
         /\ Answered(q, answer)
         /\ ByRules(r.provider) => answer \in RuleAnswers(r.seen)
  BY DEF Ask, ByRules, Chosen
<1> DEFINE new == [pc |-> "ready", op |-> "analyze", provider |-> r.provider,
                   seen |-> r.seen, set |-> answer]
<1>2. request' = [request EXCEPT ![q] = new]
  BY <1>1 DEF Answered, RulesInv, Inv, Shape
<1>3. new.provider = r.provider /\ new.seen = r.seen /\ new.set = answer
  OBVIOUS
<1>4. ASSUME answer \in RuleAnswers(r.seen), r.seen["mitre_technique_id"] # Null
      PROVE  answer["mitre_technique_id"] = r.seen["mitre_technique_id"]
  BY <1>4 DEF RuleAnswers, Answer
<1> HIDE DEF new
<1>5. request'[q] = new /\ \A p \in Requests : p # q => request'[p] = request[p]
  BY <1>2 DEF RulesInv, Inv, Shape
<1>6. RulesAgree(q)'
  BY <1>1, <1>3, <1>4, <1>5 DEF RulesAgree, ByRules, Chosen
<1> QED
  BY <1>5, <1>6, AgreeOfOne

LEMMA RulesNext == RulesInv /\ [Next]_vars => RulesInv'
<1> SUFFICES ASSUME RulesInv, [Next]_vars PROVE \A p \in Requests : RulesAgree(p)'
  BY InvNext DEF RulesInv
<1>1. ASSUME NEW q \in Requests, NEW op \in {"override", "update"}, NEW body \in Bodies(op),
             Load(q, op, body)
      PROVE  \A p \in Requests : RulesAgree(p)'
  <2>1. request'[q].op = op /\ \A p \in Requests : p # q => request'[p] = request[p]
    BY <1>1 DEF Load, RulesInv, Inv, Shape
  <2>2. RulesAgree(q)'
    BY <2>1 DEF RulesAgree
  <2> QED
    BY <2>1, <2>2, AgreeOfOne
<1>2. ASSUME NEW q \in Requests, NEW name, Analyze(q, name)
      PROVE  \A p \in Requests : RulesAgree(p)'
  <2>1. request'[q].pc = "asking" /\ \A p \in Requests : p # q => request'[p] = request[p]
    BY <1>2 DEF Analyze, RulesInv, Inv, Shape
  <2>2. RulesAgree(q)'
    BY <2>1 DEF RulesAgree
  <2> QED
    BY <2>1, <2>2, AgreeOfOne
<1>3. ASSUME NEW q \in Requests, Commit(q) \/ Record(q) \/ Fail(q)
      PROVE  \A p \in Requests : RulesAgree(p)'
  <2>1. PICK pc \in {"recording", "done", "rolled back", "unrecorded"} :
           request' = [request EXCEPT ![q].pc = pc]
    BY <1>3 DEF Commit, Record, Fail, RulesInv, Inv, Shape
  <2>2. request'[q].pc = pc /\ \A p \in Requests : p # q => request'[p] = request[p]
    BY <2>1, Moved DEF RulesInv
  <2>3. RulesAgree(q)'
    BY <2>2 DEF RulesAgree
  <2> QED
    BY <2>2, <2>3, AgreeOfOne
<1>4. CASE UNCHANGED vars
  BY <1>4 DEF vars, RulesInv, RulesAgree
<1> QED
  BY <1>1, <1>2, <1>3, <1>4, AgreeAsk DEF Next, Finished

\* An analysis by the rules leaves a technique that it has read as it is by then,
\* whatever requests and overrides have committed in between.
THEOREM TechniqueKept == Spec => RulesKeepTechnique
<1>1. Init => RulesInv
  BY InvInit DEF Init, NotCalled, RulesInv, RulesAgree
<1>2. ASSUME RulesInv, NEW q \in Requests, Next,
             request[q].op = "analyze", ByRules(request[q].provider),
             request[q].pc = "ready", request'[q].pc = "done",
             request[q].seen["mitre_technique_id"] # Null
      PROVE  row'["mitre_technique_id"] = row["mitre_technique_id"]
  <2> DEFINE r == request[q]
  <2>1. CASE UNCHANGED row
    BY <2>1
  <2>2. CASE Commit(q)
    <3>1. "mitre_technique_id" \notin Dirty(r)
      BY <1>2 DEF RulesInv, RulesAgree, Dirty
    <3> QED
      BY <2>2, <3>1 DEF Commit, Write, Columns
  <2>3. CASE \E p \in Requests : p # q /\ Commit(p)
    BY <1>2, <2>3 DEF Commit, RulesInv, Inv, Shape
  <2> QED
    BY <1>2, <2>1, <2>2, <2>3 DEF Next, Load, Analyze, Ask, Record, Fail, Finished, vars
<1>3. RulesInv /\ [Next]_vars => [\A q \in Requests :
           /\ request[q].op = "analyze" /\ ByRules(request[q].provider)
           /\ request[q].pc = "ready" /\ request'[q].pc = "done"
           /\ request[q].seen["mitre_technique_id"] # Null
           => row'["mitre_technique_id"] = row["mitre_technique_id"]]_vars
  BY <1>2
<1> QED
  BY <1>1, <1>3, RulesNext, PTL DEF Spec, RulesKeepTechnique
=============================================================================
