----------------------- MODULE WebhookDeliveryProofs -----------------------
(***************************************************************************)
(* For any number of webhooks, events and dispatches: the delivery log and *)
(* the count that a dispatch returns are true of the receivers, and the    *)
(* engine delivers at most MaxAttempts times with a final verdict.         *)
(***************************************************************************)
EXTENDS WebhookDelivery, FiniteSetTheorems, TLAPS

Accepted(d) == {w \in Hooks : verdict[<<d, w>>] = "accepted"}
Delivering == {"posting", "logging"}

Call ==
    [pc : {"idle", "returned", "raised", "lost"} \cup Stages,
     webhooks : SUBSET Hooks, todo : SUBSET Hooks, at : Hooks \cup {NoHook},
     attempt : 0..(MaxAttempts + 1), answer : {"none", "accepted", "refused"},
     delivered : Nat]

\* TypeOK without the bound of the count, which needs the other parts.
Shape ==
    /\ hook \in [Hooks -> {"absent", "registered", "deleted"}]
    /\ dispatch \in [Dispatches -> Call]
    /\ receipts \in [Pairs -> 0..MaxAttempts]
    /\ verdict \in [Pairs -> {"open", "accepted", "refused", "given up"}]
    /\ rows \subseteq Rows

\* Nothing has happened to a webhook that is still to do.
Untouched(d) ==
    /\ \A w \in Hooks : dispatch[d].pc = "idle" \/ w \in dispatch[d].todo =>
           verdict[<<d, w>>] = "open" /\ receipts[<<d, w>>] = 0
    /\ dispatch[d].pc = "returned" => dispatch[d].todo = {}

\* The receiver of the delivery in progress has the event as often as the attempts that
\* were made, at most.
Current(d) ==
    dispatch[d].pc \in Delivering =>
        /\ dispatch[d].at \in Hooks \ dispatch[d].todo
        /\ verdict[<<d, dispatch[d].at>>] = "open"
        /\ dispatch[d].pc = "posting" =>
               /\ dispatch[d].attempt \in 1..MaxAttempts
               /\ receipts[<<d, dispatch[d].at>>] < dispatch[d].attempt
        /\ dispatch[d].pc = "logging" =>
               /\ LoggedAttempt(dispatch[d]) \in 1..MaxAttempts
               /\ receipts[<<d, dispatch[d].at>>] <= LoggedAttempt(dispatch[d])
               /\ dispatch[d].answer # "none" => receipts[<<d, dispatch[d].at>>] >= 1

\* The count so far, and who has no verdict yet.
Tally(d) ==
    IF dispatch[d].pc \in {"choosing", "returned"} \cup Delivering
    THEN /\ dispatch[d].delivered = Cardinality(Accepted(d))
         /\ \A w \in dispatch[d].webhooks : verdict[<<d, w>>] = "open" =>
                \/ w \in dispatch[d].todo
                \/ dispatch[d].pc \in Delivering /\ w = dispatch[d].at
    ELSE dispatch[d].delivered = 0

DispatchOK(d) == Untouched(d) /\ Current(d) /\ Tally(d)

\* A row is about a delivery that has its verdict, so that nothing is received any more.
RowsOK ==
    \A r \in rows :
        /\ verdict[<<r.dispatch, r.to>>] # "open"
        /\ receipts[<<r.dispatch, r.to>>] <= r.attempt
        /\ r.status = "success" => receipts[<<r.dispatch, r.to>>] >= 1

Inv == Shape /\ (\A d \in Dispatches : DispatchOK(d)) /\ RowsOK

-----------------------------------------------------------------------------
(* The inductive step *)

LEMMA CallTypes == NotCalled \in Call /\ \A pc \in {"raised", "lost"} :
                       [NotCalled EXCEPT !.pc = pc] \in Call
<1>1. 0 \in 0..(MaxAttempts + 1)
  BY WebhookAssumption
<1> QED
  BY <1>1 DEF NotCalled, Call

LEMMA InvInit == Init => Inv
<1> SUFFICES ASSUME Init PROVE Inv
  OBVIOUS
<1>1. Shape
  <2>1. dispatch \in [Dispatches -> Call]
    BY CallTypes DEF Init
  <2> QED
    BY <2>1, WebhookAssumption DEF Init, Shape
<1>2. ASSUME NEW d \in Dispatches PROVE DispatchOK(d)
  BY DEF Init, NotCalled, DispatchOK, Untouched, Current, Tally, Delivering, Pairs
<1> QED
  BY <1>1, <1>2 DEF Inv, RowsOK, Init

\* What happens to one dispatch leaves the others as they are.
LEMMA OthersOK ==
    ASSUME Inv, NEW e \in Dispatches, dispatch'[e] = dispatch[e],
           \A w \in Hooks : /\ receipts'[<<e, w>>] = receipts[<<e, w>>]
                            /\ verdict'[<<e, w>>] = verdict[<<e, w>>]
    PROVE  DispatchOK(e)'
<1>1. DispatchOK(e) /\ dispatch[e].todo \subseteq Hooks /\ dispatch[e].webhooks \subseteq Hooks
  BY DEF Inv, Shape, Call
<1>2. Untouched(e)'
  BY <1>1 DEF DispatchOK, Untouched
<1>3. Current(e)'
  BY <1>1 DEF DispatchOK, Current, LoggedAttempt
<1>4. Tally(e)'
  <2>1. Accepted(e)' = Accepted(e)
    BY DEF Accepted
  <2> QED
    BY <1>1, <2>1 DEF DispatchOK, Tally
<1> QED
  BY <1>2, <1>3, <1>4 DEF DispatchOK

\* A step of one dispatch, which touches its own deliveries only.
LEMMA StepOfOne ==
    ASSUME Inv, NEW d \in Dispatches, NEW new \in Call,
           dispatch' = [dispatch EXCEPT ![d] = new],
           hook' = hook, rows' \subseteq Rows,
           receipts' \in [Pairs -> 0..MaxAttempts],
           verdict' \in [Pairs -> {"open", "accepted", "refused", "given up"}],
           \A e \in Dispatches : e # d => \A w \in Hooks :
               /\ receipts'[<<e, w>>] = receipts[<<e, w>>]
               /\ verdict'[<<e, w>>] = verdict[<<e, w>>],
           DispatchOK(d)', RowsOK'
    PROVE  Inv'
<1>1. Shape'
  BY DEF Inv, Shape
<1>2. ASSUME NEW e \in Dispatches, e # d PROVE DispatchOK(e)'
  BY <1>2, OthersOK DEF Inv, Shape
<1> QED
  BY <1>1, <1>2 DEF Inv

LEMMA InvDispatch ==
    ASSUME Inv, NEW d \in Dispatches, NEW event \in Events, Dispatch(d, event)
    PROVE  Inv'
<1>1. PICK W \in SUBSET Hooks :
         dispatch' = [dispatch EXCEPT ![d] =
           [pc |-> "choosing", webhooks |-> W, todo |-> W, at |-> NoHook,
            attempt |-> 0, answer |-> "none", delivered |-> 0]]
  BY DEF Dispatch, Registered
<1>2. dispatch[d].pc = "idle" /\ UNCHANGED <<hook, receipts, verdict, rows>>
  BY DEF Dispatch
<1> DEFINE new == [pc |-> "choosing", webhooks |-> W, todo |-> W, at |-> NoHook,
                   attempt |-> 0, answer |-> "none", delivered |-> 0]
<1>3. new \in Call
  BY WebhookAssumption DEF Call, Stages
<1>4. dispatch'[d] = new
  BY <1>1 DEF Inv, Shape
<1>5. \A w \in Hooks : verdict[<<d, w>>] = "open" /\ receipts[<<d, w>>] = 0
  BY <1>2 DEF Inv, DispatchOK, Untouched
<1>6. Untouched(d)' /\ Current(d)'
  BY <1>2, <1>4, <1>5 DEF Untouched, Current, Delivering
<1>7. Accepted(d)' = {}
  BY <1>2, <1>5 DEF Accepted
<1>8. Tally(d)'
  BY <1>2, <1>4, <1>7, FS_EmptySet DEF Tally
<1>9. RowsOK'
  BY <1>2 DEF Inv, RowsOK
<1> HIDE DEF new
<1> QED
  BY <1>1, <1>2, <1>3, <1>6, <1>8, <1>9, StepOfOne DEF Inv, Shape, DispatchOK, new

LEMMA InvDeliver ==
    ASSUME Inv, NEW d \in Dispatches, NEW w \in Hooks, Deliver(d, w)
    PROVE  Inv'
<1> DEFINE c == dispatch[d]
           new == [pc |-> "posting", webhooks |-> c.webhooks, todo |-> c.todo \ {w}, at |-> w,
                   attempt |-> 1, answer |-> "none", delivered |-> c.delivered]
<1>1. /\ c.pc = "choosing" /\ w \in c.todo
      /\ UNCHANGED <<hook, receipts, verdict, rows>>
  BY DEF Deliver
<1>2. dispatch' = [dispatch EXCEPT ![d] = new]
  BY DEF Deliver, Inv, Shape
<1>3. c \in Call
  BY DEF Inv, Shape
<1>4. new \in Call
  BY <1>3, WebhookAssumption DEF Call, Stages
<1>5. dispatch'[d] = new
  BY <1>2 DEF Inv, Shape
<1>6. Untouched(d) /\ Tally(d)
  BY DEF Inv, DispatchOK
<1>7. 1 \in 1..MaxAttempts
  BY WebhookAssumption
<1>8. Untouched(d)' /\ Current(d)'
  BY <1>1, <1>5, <1>6, <1>7 DEF Untouched, Current, Delivering
<1>9. Accepted(d)' = Accepted(d)
  BY <1>1 DEF Accepted
<1>10. Tally(d)'
  BY <1>1, <1>5, <1>6, <1>9 DEF Tally, Delivering
<1>11. RowsOK'
  BY <1>1 DEF Inv, RowsOK
<1> HIDE DEF new
<1> QED
  BY <1>1, <1>2, <1>4, <1>8, <1>10, <1>11, StepOfOne DEF Inv, Shape, DispatchOK

\* An attempt that the receiver has perhaps had: it has the event once more at most.
LEMMA InvPost ==
    ASSUME Inv, NEW d \in Dispatches, Post(d)
    PROVE  Inv'
<1> DEFINE c == dispatch[d]
           p == <<d, c.at>>
<1>1. c.pc = "posting" /\ UNCHANGED <<hook, verdict, rows>>
  BY DEF Post
<1>2. c \in Call /\ dispatch \in [Dispatches -> Call] /\ receipts \in [Pairs -> 0..MaxAttempts]
  BY DEF Inv, Shape
<1>3. Untouched(d) /\ Current(d) /\ Tally(d)
  BY DEF Inv, DispatchOK
<1>4. /\ c.at \in Hooks \ c.todo /\ verdict[p] = "open"
      /\ c.attempt \in 1..MaxAttempts /\ receipts[p] < c.attempt /\ receipts[p] \in Nat
      /\ p \in Pairs
  BY <1>1, <1>2, <1>3 DEF Current, Delivering, Pairs
<1>5. Accepted(d)' = Accepted(d)
  BY <1>1 DEF Accepted
<1>6. CASE c.at \in Malformed
  <2> DEFINE new == [NotCalled EXCEPT !.pc = "raised"]
  <2>1. dispatch' = [dispatch EXCEPT ![d] = new] /\ UNCHANGED receipts
    BY <1>6 DEF Post
  <2>2. new \in Call
    BY CallTypes
  <2>3. dispatch'[d].pc = "raised" /\ dispatch'[d].todo = {} /\ dispatch'[d].delivered = 0
    BY <1>2, <2>1 DEF NotCalled
  <2>4. Untouched(d)' /\ Current(d)' /\ Tally(d)'
    BY <2>3 DEF Untouched, Current, Tally, Delivering
  <2>5. RowsOK'
    BY <1>1, <2>1 DEF Inv, RowsOK
  <2> HIDE DEF new
  <2> QED
    BY <1>1, <2>1, <2>2, <2>4, <2>5, StepOfOne DEF Inv, Shape, DispatchOK
<1>7. CASE c.at \notin Malformed
  <2>1. PICK got \in {receipts[p], receipts[p] + 1}, pc \in Delivering,
             attempt \in {c.attempt, c.attempt + 1}, answer \in {"none", "accepted", "refused"} :
           /\ dispatch' = [dispatch EXCEPT ![d] = GoesOn(c, pc, attempt, answer)]
           /\ receipts' = [receipts EXCEPT ![p] = got]
           /\ \/ /\ pc = "logging" /\ attempt = c.attempt /\ answer # "none"
                 /\ got = receipts[p] + 1
              \/ /\ attempt = c.attempt + 1 /\ answer = "none"
                 /\ pc = "posting" => c.attempt < MaxAttempts
    <3>1. CASE /\ \E answer \in {"accepted", "refused"} :
                     dispatch' = [dispatch EXCEPT ![d] = GoesOn(c, "logging", c.attempt, answer)]
               /\ receipts' = [receipts EXCEPT ![p] = @ + 1]
      BY <3>1 DEF Delivering
    <3>2. CASE /\ dispatch' = [dispatch EXCEPT ![d] = Failed(d)]
               /\ receipts' \in {receipts, [receipts EXCEPT ![p] = @ + 1]}
      <4>1. \E got \in {receipts[p], receipts[p] + 1} : receipts' = [receipts EXCEPT ![p] = got]
        BY <1>2, <3>2
      <4>2. \E pc \in Delivering :
               /\ pc = "posting" => c.attempt < MaxAttempts
               /\ Failed(d) = GoesOn(c, pc, c.attempt + 1, "none")
        BY DEF Failed, Again, Delivering
      <4> QED
        BY <3>2, <4>1, <4>2
    <3> QED
      BY <1>7, <3>1, <3>2 DEF Post
  <2> DEFINE new == GoesOn(c, pc, attempt, answer)
  <2>2. attempt \in 0..(MaxAttempts + 1) /\ got \in 0..MaxAttempts
    BY <1>4, WebhookAssumption
  <2>3. new \in Call
    BY <1>2, <2>2 DEF GoesOn, Call, Stages, Delivering
  <2>4. /\ dispatch'[d].pc = pc /\ dispatch'[d].webhooks = c.webhooks /\ dispatch'[d].todo = c.todo
        /\ dispatch'[d].at = c.at /\ dispatch'[d].attempt = attempt
        /\ dispatch'[d].answer = answer /\ dispatch'[d].delivered = c.delivered
    BY <1>2, <2>1 DEF GoesOn
  <2>5. receipts'[p] = got /\ \A q \in Pairs : q # p => receipts'[q] = receipts[q]
    BY <1>2, <1>4, <2>1
  <2>6. Untouched(d)'
    BY <1>1, <1>2, <1>3, <1>4, <2>4, <2>5 DEF Untouched, Delivering, Pairs
  <2>7. Current(d)'
    <3>1. pc = "posting" => attempt \in 1..MaxAttempts /\ got < attempt
      BY <1>4, <2>1, WebhookAssumption
    <3>2. pc = "logging" =>
             LET logged == IF answer = "none" THEN attempt - 1 ELSE attempt
             IN  logged \in 1..MaxAttempts /\ got <= logged /\ (answer # "none" => got >= 1)
      BY <1>4, <2>1, WebhookAssumption
    <3> QED
      BY <1>1, <1>4, <2>4, <2>5, <3>1, <3>2 DEF Current, LoggedAttempt
  <2>8. Tally(d)'
    BY <1>1, <1>3, <1>5, <2>4 DEF Tally, Delivering
  <2>9. RowsOK'
    <3>1. \A r \in rows : <<r.dispatch, r.to>> \in Pairs \ {p}
      BY <1>4 DEF Inv, Shape, Rows, RowsOK, Pairs
    <3> QED
      BY <1>1, <2>5, <3>1 DEF Inv, RowsOK
  <2>10. receipts' \in [Pairs -> 0..MaxAttempts]
    BY <1>2, <2>1, <2>2
  <2>11. \A e \in Dispatches : e # d => \A w \in Hooks : receipts'[<<e, w>>] = receipts[<<e, w>>]
    BY <2>5 DEF Pairs
  <2> HIDE DEF new
  <2> QED
    BY <1>1, <2>1, <2>3, <2>6, <2>7, <2>8, <2>9, <2>10, <2>11, StepOfOne
    DEF Inv, Shape, DispatchOK, new
<1> QED
  BY <1>6, <1>7

\* The verdict is given once, and counted if the webhook accepted.
LEMMA InvLog ==
    ASSUME Inv, NEW d \in Dispatches, Log(d)
    PROVE  Inv'
<1> DEFINE c == dispatch[d]
           p == <<d, c.at>>
           v == IF c.answer = "none" THEN "given up" ELSE c.answer
           new == [pc |-> "choosing", webhooks |-> c.webhooks, todo |-> c.todo,
                   at |-> NoHook, attempt |-> 0, answer |-> "none",
                   delivered |-> c.delivered + Success(c)]
<1>1. /\ c.pc = "logging" /\ UNCHANGED <<hook, receipts>>
      /\ verdict' = [verdict EXCEPT ![p] = v] /\ dispatch' = [dispatch EXCEPT ![d] = new]
      /\ rows' = rows \cup {Row(d)} \/ rows' = rows
  BY DEF Log, Concluded
<1>2. /\ c \in Call /\ dispatch \in [Dispatches -> Call] /\ receipts \in [Pairs -> 0..MaxAttempts]
      /\ verdict \in [Pairs -> {"open", "accepted", "refused", "given up"}]
  BY DEF Inv, Shape
<1>3. Untouched(d) /\ Current(d) /\ Tally(d)
  BY DEF Inv, DispatchOK
<1>4. /\ c.at \in Hooks \ c.todo /\ verdict[p] = "open" /\ p \in Pairs
      /\ LoggedAttempt(c) \in 1..MaxAttempts /\ receipts[p] <= LoggedAttempt(c)
      /\ c.answer # "none" => receipts[p] >= 1
  BY <1>1, <1>2, <1>3 DEF Current, Delivering, Pairs
<1>5. new \in Call
  <2>1. 0 \in 0..(MaxAttempts + 1)
    BY WebhookAssumption
  <2>2. c.delivered \in Nat /\ Success(c) \in Nat
    BY <1>2 DEF Call, Success
  <2>3. c.delivered + Success(c) \in Nat
    BY <2>2
  <2> QED
    BY <1>2, <2>1, <2>3 DEF Call, Stages
<1>6. /\ dispatch'[d].pc = "choosing" /\ dispatch'[d].webhooks = c.webhooks
      /\ dispatch'[d].todo = c.todo /\ dispatch'[d].delivered = c.delivered + Success(c)
  BY <1>1, <1>2
<1>7. v \in {"accepted", "refused", "given up"}
  BY <1>2 DEF Call
<1>8. verdict'[p] = v /\ \A q \in Pairs : q # p => verdict'[q] = verdict[q]
  BY <1>1, <1>2, <1>4
<1>9. Untouched(d)' /\ Current(d)'
  <2>1. \A w \in c.todo : w \in Hooks /\ <<d, w>> \in Pairs /\ <<d, w>> # p
    BY <1>2, <1>4 DEF Call, Pairs
  <2> HIDE DEF new, v, p
  <2> QED
    BY <1>1, <1>3, <1>6, <1>8, <2>1 DEF Untouched, Current, Delivering
<1>10. Tally(d)'
  <2> HIDE DEF new, v
  <2>1. IsFiniteSet(Accepted(d)) /\ Cardinality(Accepted(d)) \in Nat
    BY WebhookAssumption, FS_Subset, FS_CardinalityType DEF Accepted
  <2>2. Cardinality(Accepted(d)') = Cardinality(Accepted(d)) + Success(c)
    <3>1. CASE c.answer = "accepted"
      <4>1. Accepted(d)' = Accepted(d) \cup {c.at} /\ c.at \notin Accepted(d)
        BY <1>4, <1>8, <3>1 DEF Accepted, Pairs, v
      <4> QED
        BY <2>1, <3>1, <4>1, FS_AddElement DEF Success
    <3>2. CASE c.answer # "accepted"
      <4>1. Accepted(d)' = Accepted(d)
        BY <1>2, <1>4, <1>8, <3>2 DEF Accepted, Pairs, v, Call
      <4> QED
        BY <2>1, <3>2, <4>1 DEF Success
    <3> QED
      BY <3>1, <3>2
  <2>3. \A w \in c.webhooks : verdict'[<<d, w>>] = "open" => w \in c.todo
    <3>1. \A w \in c.webhooks : verdict[<<d, w>>] = "open" => w \in c.todo \/ w = c.at
      BY <1>1, <1>3 DEF Tally, Delivering
    <3>2. \A w \in c.webhooks : <<d, w>> \in Pairs
      BY <1>2 DEF Call, Pairs
    <3> QED
      BY <1>7, <1>8, <3>1, <3>2
  <2>4. c.delivered = Cardinality(Accepted(d))
    BY <1>1, <1>3 DEF Tally, Delivering
  <2> QED
    BY <1>6, <2>2, <2>3, <2>4 DEF Tally
<1>11. Row(d) \in Rows
  BY <1>1, <1>4 DEF Row, Rows
<1>12. RowsOK'
  <2>1. ASSUME NEW r \in rows
        PROVE  /\ verdict'[<<r.dispatch, r.to>>] # "open"
               /\ receipts'[<<r.dispatch, r.to>>] <= r.attempt
               /\ r.status = "success" => receipts'[<<r.dispatch, r.to>>] >= 1
    <3>1. <<r.dispatch, r.to>> \in Pairs \ {p}
      BY <1>4 DEF Inv, Shape, Rows, RowsOK, Pairs
    <3> QED
      BY <1>1, <1>8, <3>1 DEF Inv, RowsOK
  <2>2. /\ verdict'[<<Row(d).dispatch, Row(d).to>>] # "open"
        /\ receipts'[<<Row(d).dispatch, Row(d).to>>] <= Row(d).attempt
        /\ Row(d).status = "success" => receipts'[<<Row(d).dispatch, Row(d).to>>] >= 1
    <3>1. /\ <<Row(d).dispatch, Row(d).to>> = p /\ Row(d).attempt = LoggedAttempt(c)
          /\ Row(d).status = "success" => c.answer = "accepted"
      BY DEF Row
    <3> HIDE DEF new, v
    <3> QED
      BY <1>1, <1>4, <1>7, <1>8, <3>1
  <2> QED
    BY <1>1, <2>1, <2>2 DEF RowsOK
<1>13. verdict' \in [Pairs -> {"open", "accepted", "refused", "given up"}]
  <2> HIDE DEF v
  <2> QED
    BY <1>1, <1>2, <1>7
<1>14. \A e \in Dispatches : e # d => \A w \in Hooks : verdict'[<<e, w>>] = verdict[<<e, w>>]
  BY <1>8 DEF Pairs
<1>15. rows' \subseteq Rows
  BY <1>1, <1>11 DEF Inv, Shape
<1>16. DispatchOK(d)'
  BY <1>9, <1>10 DEF DispatchOK
<1>17. receipts' = receipts /\ hook' = hook /\ dispatch' = [dispatch EXCEPT ![d] = new]
  BY <1>1
<1>18. receipts' \in [Pairs -> 0..MaxAttempts]
  BY <1>2, <1>17
<1>19. \A e \in Dispatches : e # d => \A w \in Hooks :
         receipts'[<<e, w>>] = receipts[<<e, w>>] /\ verdict'[<<e, w>>] = verdict[<<e, w>>]
  BY <1>14, <1>17
<1> HIDE DEF c, p, v, new
<1> QED
  BY <1>5, <1>12, <1>13, <1>15, <1>16, <1>17, <1>18, <1>19, StepOfOne

LEMMA InvReturn ==
    ASSUME Inv, NEW d \in Dispatches, Return(d)
    PROVE  Inv'
<1> DEFINE c == dispatch[d]
           new == [c EXCEPT !.pc = "returned"]
<1>1. /\ c.pc = "choosing" /\ c.todo = {} /\ UNCHANGED <<hook, receipts, verdict, rows>>
      /\ c \in Call /\ dispatch \in [Dispatches -> Call]
  BY DEF Return, Inv, Shape
<1>2. dispatch' = [dispatch EXCEPT ![d] = new]
  BY <1>1 DEF Return
<1>3. new = [pc |-> "returned", webhooks |-> c.webhooks, todo |-> c.todo, at |-> c.at,
             attempt |-> c.attempt, answer |-> c.answer, delivered |-> c.delivered]
  BY <1>1 DEF Call
<1> HIDE DEF new
<1>4. new \in Call
  BY <1>1, <1>3 DEF Call
<1>5. /\ dispatch'[d].pc = "returned" /\ dispatch'[d].webhooks = c.webhooks
      /\ dispatch'[d].todo = {} /\ dispatch'[d].delivered = c.delivered
  BY <1>1, <1>2, <1>3
<1>6. Untouched(d) /\ Tally(d)
  BY DEF Inv, DispatchOK
<1>7. Accepted(d)' = Accepted(d)
  BY <1>1 DEF Accepted
<1>8. Untouched(d)' /\ Current(d)' /\ Tally(d)'
  BY <1>1, <1>5, <1>6, <1>7 DEF Untouched, Current, Tally, Delivering
<1>9. RowsOK'
  BY <1>1 DEF Inv, RowsOK
<1> QED
  BY <1>1, <1>2, <1>4, <1>8, <1>9, StepOfOne DEF Inv, Shape, DispatchOK

LEMMA InvCrash ==
    ASSUME Inv, Crash
    PROVE  Inv'
<1> DEFINE lost == [NotCalled EXCEPT !.pc = "lost"]
<1>1. /\ dispatch' = [d \in Dispatches |-> IF d \in Active THEN lost ELSE dispatch[d]]
      /\ UNCHANGED <<hook, receipts, verdict, rows>>
  BY DEF Crash
<1>2. Shape'
  <2>1. lost \in Call
    BY CallTypes
  <2> HIDE DEF lost
  <2> QED
    BY <1>1, <2>1 DEF Inv, Shape
<1>3. ASSUME NEW d \in Dispatches PROVE DispatchOK(d)'
  <2>1. CASE d \in Active
    <3>1. dispatch'[d].pc = "lost" /\ dispatch'[d].todo = {} /\ dispatch'[d].delivered = 0
      BY <1>1, <2>1 DEF NotCalled
    <3> QED
      BY <3>1 DEF DispatchOK, Untouched, Current, Tally, Delivering
  <2>2. CASE d \notin Active
    BY <1>1, <2>2, OthersOK
  <2> QED
    BY <2>1, <2>2
<1>4. RowsOK'
  BY <1>1 DEF Inv, RowsOK
<1> QED
  BY <1>2, <1>3, <1>4 DEF Inv

LEMMA InvHooks ==
    ASSUME Inv, NEW w \in Hooks, Register(w) \/ Delete(w)
    PROVE  Inv'
<1>1. UNCHANGED <<dispatch, receipts, verdict>>
  BY DEF Register, Delete
<1>2. hook' \in [Hooks -> {"absent", "registered", "deleted"}]
  BY DEF Inv, Shape, Register, Delete
<1>3. \A r \in rows' : r \in Rows /\ \E q \in rows :
         /\ r.dispatch = q.dispatch /\ r.to = q.to
         /\ r.attempt = q.attempt /\ r.status = q.status
  <2>1. CASE Register(w)
    BY <2>1 DEF Register, Inv, Shape
  <2>2. CASE Delete(w)
    <3>1. SUFFICES ASSUME NEW q \in rows,
                          NEW r, r = [q EXCEPT !.hook = IF @ = w THEN NoHook ELSE @]
                   PROVE  r \in Rows /\ r.dispatch = q.dispatch /\ r.to = q.to
                          /\ r.attempt = q.attempt /\ r.status = q.status
      BY <2>2 DEF Delete
    <3>2. q \in Rows
      BY DEF Inv, Shape
    <3>3. r = [dispatch |-> q.dispatch, to |-> q.to,
               hook |-> IF q.hook = w THEN NoHook ELSE q.hook,
               attempt |-> q.attempt, status |-> q.status]
      BY <3>1, <3>2 DEF Rows
    <3> QED
      BY <3>2, <3>3 DEF Rows
  <2> QED
    BY <2>1, <2>2
<1>4. Shape'
  BY <1>1, <1>2, <1>3 DEF Inv, Shape
<1>5. RowsOK'
  BY <1>1, <1>3 DEF Inv, RowsOK
<1>6. \A d \in Dispatches : DispatchOK(d)'
  BY <1>1, OthersOK
<1> QED
  BY <1>4, <1>5, <1>6 DEF Inv

LEMMA InvNext == Inv /\ [Next]_vars => Inv'
<1> SUFFICES ASSUME Inv, [Next]_vars PROVE Inv'
  OBVIOUS
<1>1. CASE \E w \in Hooks : Register(w) \/ Delete(w)
  BY <1>1, InvHooks
<1>2. CASE \E d \in Dispatches : Step(d) \/ \E event \in Events : Dispatch(d, event)
  BY <1>2, InvDispatch, InvDeliver, InvPost, InvLog, InvReturn DEF Step
<1>3. CASE Crash
  BY <1>3, InvCrash
<1>4. CASE UNCHANGED vars
  <2>1. Shape' /\ RowsOK'
    BY <1>4 DEF vars, Inv, Shape, RowsOK
  <2>2. \A d \in Dispatches : DispatchOK(d)'
    BY <1>4, OthersOK DEF vars
  <2> QED
    BY <2>1, <2>2 DEF Inv
<1> QED
  BY <1>1, <1>2, <1>3, <1>4 DEF Next, Finished

LEMMA InvAlways == Spec => []Inv
  BY InvInit, InvNext, PTL DEF Spec

-----------------------------------------------------------------------------
(* What follows *)

\* The variables keep their types: no receiver gets an event more than MaxAttempts times
\* from one dispatch, and no dispatch counts more deliveries than there are webhooks.
THEOREM TypeCorrect == Spec => []TypeOK
<1>1. Inv => TypeOK
  <2> SUFFICES ASSUME Inv PROVE TypeOK
    OBVIOUS
  <2>1. ASSUME NEW d \in Dispatches
        PROVE  dispatch[d] \in
                  [pc : {"idle", "returned", "raised", "lost"} \cup Stages,
                   webhooks : SUBSET Hooks, todo : SUBSET Hooks, at : Hooks \cup {NoHook}, attempt : 0..(MaxAttempts + 1),
                   answer : {"none", "accepted", "refused"}, delivered : 0..Cardinality(Hooks)]
    <3>1. /\ Cardinality(Accepted(d)) \in Nat /\ Cardinality(Hooks) \in Nat
          /\ Cardinality(Accepted(d)) <= Cardinality(Hooks)
      <4>1. Accepted(d) \subseteq Hooks
        BY DEF Accepted
      <4> QED
        BY <4>1, WebhookAssumption, FS_Subset, FS_CardinalityType
    <3>2. dispatch[d] \in Call /\ Tally(d)
      BY DEF Inv, Shape, DispatchOK
    <3>3. dispatch[d].delivered \in 0..Cardinality(Hooks)
      BY <3>1, <3>2 DEF Tally
    <3> QED
      BY <3>2, <3>3 DEF Call
  <2>2. dispatch = [d \in Dispatches |-> dispatch[d]]
    BY DEF Inv, Shape
  <2> QED
    BY <2>1, <2>2 DEF Inv, Shape, TypeOK
<1> QED
  BY <1>1, InvAlways, PTL

\* The log of _log_delivery bounds what the receiver has got, lost answers included.
THEOREM LogTrue == Spec => []LogBoundsReceipts
<1>1. Inv => LogBoundsReceipts
  BY DEF Inv, RowsOK, LogBoundsReceipts
<1> QED
  BY <1>1, InvAlways, PTL

\* dispatch() returns the number of webhooks that accepted, and leaves none undecided.
THEOREM CountTrue == Spec => []CountIsTrue
<1>1. Inv => CountIsTrue
  BY DEF Inv, DispatchOK, Untouched, Tally, Accepted, CountIsTrue, Delivering
<1> QED
  BY <1>1, InvAlways, PTL

\* The engine implements at-most-MaxAttempts delivery with a final verdict: every attempt
\* is an arrival or none, every logged delivery a conclusion.
THEOREM Refines == Spec => Implements
<1>1. Init => Promise!Init
  BY DEF Init, Promise!Init
<1>2. Inv /\ [Next]_vars => [Promise!Next]_<<receipts, verdict>>
  <2> SUFFICES ASSUME Inv, [Next]_vars, ~UNCHANGED <<receipts, verdict>>
               PROVE  Promise!Next
    OBVIOUS
  <2>1. PICK d \in Dispatches : Post(d) \/ Log(d)
    BY DEF Next, vars, Finished, Crash, Register, Delete, Step, Deliver, Return, Dispatch
  <2> DEFINE c == dispatch[d]
             p == <<d, c.at>>
  <2>2. /\ c \in Call /\ receipts \in [Pairs -> 0..MaxAttempts] /\ MaxAttempts \in Nat
        /\ Current(d)
    BY WebhookAssumption DEF Inv, Shape, DispatchOK
  <2>3. CASE Post(d)
    <3>1. /\ p \in Pairs /\ verdict[p] = "open" /\ receipts[p] < MaxAttempts
      <4>1. c.attempt \in 1..MaxAttempts /\ receipts[p] < c.attempt /\ p \in Pairs
            /\ verdict[p] = "open"
        BY <2>2, <2>3 DEF Post, Current, Delivering, Pairs
      <4> QED
        BY <2>2, <4>1
    <3>2. receipts' = [receipts EXCEPT ![p] = @ + 1] /\ UNCHANGED verdict
      BY <2>3 DEF Post
    <3> QED
      BY <3>1, <3>2 DEF Promise!Next, Promise!Arrive
  <2>4. CASE Log(d)
    <3> DEFINE v == IF c.answer = "none" THEN "given up" ELSE c.answer
    <3>1. /\ p \in Pairs /\ verdict[p] = "open"
          /\ c.answer # "none" => receipts[p] >= 1
      BY <2>2, <2>4 DEF Log, Current, Delivering, Pairs
    <3>2. v \in Promise!Verdicts /\ (v # "given up" => receipts[p] > 0)
      <4>1. receipts[p] \in Nat
        BY <2>2, <3>1
      <4>2. c.answer \in {"none", "accepted", "refused"}
        BY <2>2 DEF Call
      <4>3. c.answer # "none" => receipts[p] > 0
        BY <3>1, <4>1
      <4> QED
        BY <4>2, <4>3 DEF Promise!Verdicts
    <3>3. verdict' = [verdict EXCEPT ![p] = v] /\ UNCHANGED receipts
      BY <2>4 DEF Log, Concluded
    <3> HIDE DEF v
    <3> QED
      BY <3>1, <3>2, <3>3 DEF Promise!Next, Promise!Conclude
  <2> QED
    BY <2>1, <2>3, <2>4
<1> QED
  BY <1>1, <1>2, InvAlways, PTL DEF Spec, Implements, Promise!Spec
=============================================================================
