-------------------------- MODULE WebhookDelivery --------------------------
(***************************************************************************)
(* WebhookEngine (src/webhooks/engine.py): dispatch() reads the webhooks   *)
(* that want an event and delivers it to one after the other, with         *)
(* retries, while other threads dispatch, register and delete.  A receiver *)
(* is only what it has been given.                                         *)
(***************************************************************************)
EXTENDS Naturals, FiniteSets

CONSTANTS
    Hooks, Events,
    Wanted,        \* the events of each webhook
    Malformed,     \* webhooks with a URL that httpx does not parse
    Dispatches,    \* calls of dispatch(); each is made once
    MaxAttempts,   \* retry_max_attempts
    NoHook,        \* NULL
    MayCrash       \* whether the process may be killed

ASSUME WebhookAssumption ==
    /\ IsFiniteSet(Hooks)
    /\ Wanted \in [Hooks -> SUBSET Events]
    /\ Malformed \subseteq Hooks
    /\ MaxAttempts \in Nat \ {0}
    /\ NoHook \notin Hooks
    /\ MayCrash \in BOOLEAN

VARIABLES
    hook,      \* the rows of the webhooks table
    dispatch,  \* the calls
    receipts,  \* how often a receiver got the event of a call
    verdict,   \* what became of an event for a webhook
    rows       \* the rows of the delivery log

vars == <<hook, dispatch, receipts, verdict, rows>>

Pairs == Dispatches \X Hooks
Stages == {"choosing", "posting", "logging"}
Active == {d \in Dispatches : dispatch[d].pc \in Stages}
Registered == {w \in Hooks : hook[w] = "registered"}

NotCalled == [pc |-> "idle", webhooks |-> {}, todo |-> {}, at |-> NoHook, attempt |-> 0,
              answer |-> "none", delivered |-> 0]

Init ==
    /\ hook = [w \in Hooks |-> "absent"]
    /\ dispatch = [d \in Dispatches |-> NotCalled]
    /\ receipts = [p \in Pairs |-> 0]
    /\ verdict = [p \in Pairs |-> "open"]
    /\ rows = {}

(* -- Registration ------------------------------------------------------- *)

Register(w) ==
    /\ hook[w] = "absent"
    /\ hook' = [hook EXCEPT ![w] = "registered"]
    /\ UNCHANGED <<dispatch, receipts, verdict, rows>>

\* Ids are not reused.  The foreign key clears webhook_id in the log.
Delete(w) ==
    /\ hook[w] = "registered"
    /\ hook' = [hook EXCEPT ![w] = "deleted"]
    /\ rows' = {[r EXCEPT !.hook = IF @ = w THEN NoHook ELSE @] : r \in rows}
    /\ UNCHANGED <<dispatch, receipts, verdict>>

(* -- dispatch() --------------------------------------------------------- *)

\* The list is read once, in a session that is closed before the first delivery.
Dispatch(d, event) ==
    /\ dispatch[d].pc = "idle"
    /\ LET webhooks == {w \in Registered : event \in Wanted[w]} IN
       dispatch' = [dispatch EXCEPT ![d] =
           [pc |-> "choosing", webhooks |-> webhooks, todo |-> webhooks, at |-> NoHook,
            attempt |-> 0, answer |-> "none", delivered |-> 0]]
    /\ UNCHANGED <<hook, receipts, verdict, rows>>

\* _deliver of the next webhook; the query does not order them.
Deliver(d, w) ==
    /\ dispatch[d].pc = "choosing" /\ w \in dispatch[d].todo
    /\ dispatch' = [dispatch EXCEPT ![d] =
           [pc |-> "posting", webhooks |-> @.webhooks, todo |-> @.todo \ {w}, at |-> w,
            attempt |-> 1, answer |-> "none", delivered |-> @.delivered]]
    /\ UNCHANGED <<hook, receipts, verdict, rows>>

\* (variant: one attempt too many)
OnceMore(d) == dispatch[d].attempt <= MaxAttempts
\* while attempt <= max_retries, after attempt += 1
Again(d) == dispatch[d].attempt < MaxAttempts

\* The delivery in progress goes on.
GoesOn(c, pc, attempt, answer) ==
    [pc |-> pc, webhooks |-> c.webhooks, todo |-> c.todo, at |-> c.at,
     attempt |-> attempt, answer |-> answer, delivered |-> c.delivered]

\* An httpx.HTTPError: the loop sleeps and goes on, or is exhausted.
Failed(d) ==
    GoesOn(dispatch[d], IF Again(d) THEN "posting" ELSE "logging", dispatch[d].attempt + 1, "none")

\* One POST.  Any response ends the loop; of a lost one the receiver may have had the
\* request.  A malformed URL is no HTTPError: it ends the whole dispatch.
Post(d) ==
    LET c == dispatch[d]
        p == <<d, c.at>>
    IN  /\ c.pc = "posting"
        /\ IF c.at \in Malformed
           THEN /\ dispatch' = [dispatch EXCEPT ![d] = [NotCalled EXCEPT !.pc = "raised"]]
                /\ UNCHANGED receipts
           ELSE \/ /\ \E answer \in {"accepted", "refused"} :
                          dispatch' = [dispatch EXCEPT ![d] =
                                          GoesOn(c, "logging", c.attempt, answer)]
                   /\ receipts' = [receipts EXCEPT ![p] = @ + 1]
                \/ /\ dispatch' = [dispatch EXCEPT ![d] = Failed(d)]
                   /\ receipts' \in {receipts, [receipts EXCEPT ![p] = @ + 1]}
    /\ UNCHANGED <<hook, verdict, rows>>

\* (variant that logs a first attempt whatever it took)
FirstAttempt(c) == 1
\* (variant without the correction after the loop)
AsCounted(c) == c.attempt
\* The attempt that _deliver logs.
LoggedAttempt(c) == IF c.answer = "none" THEN c.attempt - 1 ELSE c.attempt

\* (variant: a response is a success)
AnyResponse(c) == IF c.answer = "none" THEN 0 ELSE 1
\* resp.is_success
Success(c) == IF c.answer = "accepted" THEN 1 ELSE 0

Row(d) ==
    LET c == dispatch[d]
    IN  [dispatch |-> d, to |-> c.at, hook |-> c.at, attempt |-> LoggedAttempt(c),
         status |-> IF c.answer = "accepted" THEN "success" ELSE "failed"]

\* _deliver returns.
Concluded(d) ==
    LET c == dispatch[d]
    IN  /\ verdict' = [verdict EXCEPT ![<<d, c.at>>] =
                           IF c.answer = "none" THEN "given up" ELSE c.answer]
        /\ dispatch' = [dispatch EXCEPT
               ![d] = [pc |-> "choosing", webhooks |-> c.webhooks, todo |-> c.todo,
                       at |-> NoHook, attempt |-> 0, answer |-> "none",
                       delivered |-> c.delivered + Success(c)]]
        /\ UNCHANGED <<hook, receipts>>

\* (variant that insists on the row)
LogUntilWritten(d) ==
    /\ dispatch[d].pc = "logging" /\ dispatch[d].at \in Registered
    /\ rows' = rows \cup {Row(d)}
    /\ Concluded(d)
\* _log_delivery, whose errors are swallowed: the row of a webhook that has been deleted
\* violates its foreign key.
Log(d) ==
    /\ dispatch[d].pc = "logging"
    /\ \/ dispatch[d].at \in Registered /\ rows' = rows \cup {Row(d)}
       \/ UNCHANGED rows
    /\ Concluded(d)

Return(d) ==
    /\ dispatch[d].pc = "choosing" /\ dispatch[d].todo = {}
    /\ dispatch' = [dispatch EXCEPT ![d].pc = "returned"]
    /\ UNCHANGED <<hook, receipts, verdict, rows>>

\* Nothing of a dispatch is kept outside the process.
Crash ==
    /\ MayCrash /\ Active # {}
    /\ dispatch' = [d \in Dispatches |->
                       IF d \in Active THEN [NotCalled EXCEPT !.pc = "lost"] ELSE dispatch[d]]
    /\ UNCHANGED <<hook, receipts, verdict, rows>>

Finished ==
    /\ Dispatches \cap Active = {} /\ \A d \in Dispatches : dispatch[d].pc # "idle"
    /\ UNCHANGED vars

Step(d) == (\E w \in Hooks : Deliver(d, w)) \/ Post(d) \/ Log(d) \/ Return(d)

Next ==
    \/ Crash \/ Finished
    \/ \E w \in Hooks : Register(w) \/ Delete(w)
    \/ \E d \in Dispatches : Step(d) \/ \E event \in Events : Dispatch(d, event)

\* A dispatch runs in a thread: a POST has a timeout, a sleep ends.
Spec == Init /\ [][Next]_vars /\ \A d \in Dispatches : WF_vars(Step(d))

-----------------------------------------------------------------------------
(* Properties *)

Rows == [dispatch : Dispatches, to : Hooks, hook : Hooks \cup {NoHook},
         attempt : 1..MaxAttempts, status : {"success", "failed"}]

\* The counters stay within the attempts and the webhooks there are.
TypeOK ==
    /\ hook \in [Hooks -> {"absent", "registered", "deleted"}]
    /\ dispatch \in [Dispatches ->
          [pc : {"idle", "returned", "raised", "lost"} \cup Stages,
           webhooks : SUBSET Hooks, todo : SUBSET Hooks, at : Hooks \cup {NoHook}, attempt : 0..(MaxAttempts + 1),
           answer : {"none", "accepted", "refused"}, delivered : 0..Cardinality(Hooks)]]
    /\ receipts \in [Pairs -> 0..MaxAttempts]
    /\ verdict \in [Pairs -> {"open", "accepted", "refused", "given up"}]
    /\ rows \subseteq Rows

\* The log tells the truth about the receiver, lost answers and retries included: it got
\* the event no more often than the attempt of the row, and at least once if the row
\* calls it a success.
LogBoundsReceipts ==
    \A r \in rows : LET got == receipts[<<r.dispatch, r.to>>] IN
        got <= r.attempt /\ (r.status = "success" => got >= 1)

\* What dispatch() returns is how many webhooks accepted the event, and by then each one
\* that it read has a verdict, also those that were deleted meanwhile.
CountIsTrue ==
    \A d \in Dispatches : dispatch[d].pc = "returned" =>
        /\ dispatch[d].delivered = Cardinality({w \in Hooks : verdict[<<d, w>>] = "accepted"})
        /\ \A w \in dispatch[d].webhooks : verdict[<<d, w>>] # "open"

\* Every dispatch ends, whatever the receivers do.
EveryDispatchEnds == \A d \in Dispatches : d \in Active ~> d \notin Active

Promise == INSTANCE EventDelivery
    WITH Notifications <- Pairs, Max <- MaxAttempts, copies <- receipts

\* The engine implements at-most-Max delivery with a final verdict.
Implements == Promise!Spec
=============================================================================
