--------------------------- MODULE BillingWebhook ---------------------------
(***************************************************************************)
(* How the billing service takes in Stripe's webhook events                *)
(* (internal/webhook/handler.go): any replica may receive any delivery of  *)
(* an event, claims the event by inserting it in billing_events, applies   *)
(* it, records the outcome and answers.  Stripe delivers an event again    *)
(* until it gets a 2xx answer, and may deliver it twice at once.  A pod    *)
(* may die, and a database call may fail, before or after taking effect.   *)
(*                                                                         *)
(* What an event does is left to Subscriptions; here it is only counted.   *)
(***************************************************************************)
EXTENDS Naturals, FiniteSets

CONSTANTS
    Events,         \* Stripe events
    Handlers,       \* webhook requests that can be in progress at once
    MaxDeliveries,  \* bound: deliveries of one event
    MaxMishaps      \* bound: crashes, failed calls and lost answers in a run

ASSUME WebhookAssumption ==
    /\ MaxDeliveries \in Nat
    /\ MaxMishaps \in Nat

VARIABLES
    outcome,     \* outcome[e]: the row of e in billing_events: no row, or
                 \* its processed and error columns
    applied,     \* applied[e]: how often e took effect
    deliveries,  \* deliveries[e]: how often Stripe has sent e
    acked,       \* events Stripe has a 2xx answer for
    pc,          \* pc[q]: where request q stands in Process
    event,       \* event[q]: the event that q carries
    result,      \* result[q]: what Process is going to return
    mishaps      \* faults that have happened

webhookVars == <<outcome, applied, deliveries, acked, pc, event, result, mishaps>>

Outcomes == {"absent", "unprocessed", "processed", "error"}
Stages   == {"idle", "claim", "process", "mark", "respond"}

WebhookTypeOK ==
    /\ outcome \in [Events -> Outcomes]
    /\ applied \in [Events -> Nat]
    /\ deliveries \in [Events -> 0..MaxDeliveries]
    /\ acked \in SUBSET Events
    /\ pc \in [Handlers -> Stages]
    /\ event \in [Handlers -> Events]
    /\ result \in [Handlers -> {"ok", "error"}]
    /\ mishaps \in 0..MaxMishaps

WebhookInit ==
    /\ outcome = [e \in Events |-> "absent"]
    /\ applied = [e \in Events |-> 0]
    /\ deliveries = [e \in Events |-> 0]
    /\ acked = {}
    /\ pc = [q \in Handlers |-> "idle"]
    /\ event \in [Handlers -> Events]
    /\ result = [q \in Handlers |-> "ok"]
    /\ mishaps = 0

GoOn(q, step) == pc' = [pc EXCEPT ![q] = step]

Return(q, res) == result' = [result EXCEPT ![q] = res]

Mishap ==
    /\ mishaps < MaxMishaps
    /\ mishaps' = mishaps + 1

-----------------------------------------------------------------------------
(* Stripe.                                                                 *)

\* Stripe sends an event it has no 2xx answer for, a first time or again,
\* whether or not an earlier delivery is still in progress.
Deliver(q, e) ==
    /\ pc[q] = "idle"
    /\ e \notin acked
    /\ deliveries[e] < MaxDeliveries
    /\ deliveries' = [deliveries EXCEPT ![e] = @ + 1]
    /\ event' = [event EXCEPT ![q] = e]
    /\ GoOn(q, "claim")
    /\ UNCHANGED <<outcome, applied, acked, result, mishaps>>

-----------------------------------------------------------------------------
(* Process, one action per database call.                                  *)

\* INSERT INTO billing_events ... ON CONFLICT (stripe_event_id) DO NOTHING
InsertEvent(e) == outcome' = [outcome EXCEPT ![e] = IF @ = "absent" THEN "unprocessed" ELSE @]

\* Mutant of Claim: a SELECT finds no row, and the row is inserted later.
ClaimBySelect(q) ==
    /\ pc[q] = "claim"
    /\ outcome[event[q]] = "absent"
    /\ GoOn(q, "process")
    /\ UNCHANGED <<outcome, applied, deliveries, acked, event, result, mishaps>>

\* StoreBillingEvent inserted the row: this request is to process the event.
Claim(q) ==
    /\ pc[q] = "claim"
    /\ outcome[event[q]] = "absent"
    /\ InsertEvent(event[q])
    /\ GoOn(q, "process")
    /\ UNCHANGED <<applied, deliveries, acked, event, result, mishaps>>

\* Mutants of Skip: no early return; the conflict is answered as an error.
SkipNothing(q) ==
    /\ pc[q] = "claim"
    /\ outcome[event[q]] # "absent"
    /\ GoOn(q, "process")
    /\ UNCHANGED <<outcome, applied, deliveries, acked, event, result, mishaps>>

SkipWithError(q) ==
    /\ pc[q] = "claim"
    /\ outcome[event[q]] # "absent"
    /\ Return(q, "error")
    /\ GoOn(q, "respond")
    /\ UNCHANGED <<outcome, applied, deliveries, acked, event, mishaps>>

\* There was a row already: the event counts as handled and the answer is 200.
Skip(q) ==
    /\ pc[q] = "claim"
    /\ outcome[event[q]] # "absent"
    /\ Return(q, "ok")
    /\ GoOn(q, "respond")
    /\ UNCHANGED <<outcome, applied, deliveries, acked, event, mishaps>>

\* StoreBillingEvent returns an error; the row may be there all the same.
ClaimFails(q) ==
    /\ pc[q] = "claim"
    /\ Mishap
    /\ InsertEvent(event[q]) \/ UNCHANGED outcome
    /\ Return(q, "error")
    /\ GoOn(q, "respond")
    /\ UNCHANGED <<applied, deliveries, acked, event>>

\* The one statement of the event's handler: UPDATE subscriptions, or INSERT INTO
\* invoices ... ON CONFLICT (stripe_invoice_id) DO UPDATE.
TakeEffect(e) == applied' = [applied EXCEPT ![e] = @ + 1]

\* The handler of the event's type has run its statement.
ApplyEvent(q) ==
    /\ pc[q] = "process"
    /\ TakeEffect(event[q])
    /\ Return(q, "ok")
    /\ GoOn(q, "mark")
    /\ UNCHANGED <<outcome, deliveries, acked, event, mishaps>>

\* The event cannot be applied (its subscription is not known here yet, a
\* column rejects its value): nothing changes.
RejectEvent(q) ==
    /\ pc[q] = "process"
    /\ Return(q, "error")
    /\ GoOn(q, "mark")
    /\ UNCHANGED <<outcome, applied, deliveries, acked, event, mishaps>>

\* The statement took effect, but the handler got an error.
ApplyEventFails(q) ==
    /\ pc[q] = "process"
    /\ Mishap
    /\ TakeEffect(event[q])
    /\ Return(q, "error")
    /\ GoOn(q, "mark")
    /\ UNCHANGED <<outcome, deliveries, acked, event>>

\* Mutant of Mark: errors count as processed.

MarkAlwaysProcessed(q) ==
    /\ pc[q] = "mark"
    /\ outcome' = [outcome EXCEPT ![event[q]] = "processed"]
    /\ GoOn(q, "respond")
    /\ UNCHANGED <<applied, deliveries, acked, event, result, mishaps>>

\* MarkEventProcessed; its own error is only logged.
Mark(q) ==
    /\ pc[q] = "mark"
    /\ \/ /\ outcome' = [outcome EXCEPT ![event[q]] =
                            IF result[q] = "ok" THEN "processed" ELSE "error"]
          /\ UNCHANGED mishaps
       \/ UNCHANGED outcome /\ Mishap
    /\ GoOn(q, "respond")
    /\ UNCHANGED <<applied, deliveries, acked, event, result>>

\* 200 when Process returned nil, 500 otherwise; Stripe may not get the answer.
Respond(q) ==
    /\ pc[q] = "respond"
    /\ \/ /\ acked' = IF result[q] = "ok" THEN acked \cup {event[q]} ELSE acked
          /\ UNCHANGED mishaps
       \/ UNCHANGED acked /\ Mishap
    /\ GoOn(q, "idle")
    /\ UNCHANGED <<outcome, applied, deliveries, event, result>>

\* The pod dies, and the request with it.
Die(q) ==
    /\ pc[q] # "idle"
    /\ Mishap
    /\ GoOn(q, "idle")
    /\ UNCHANGED <<outcome, applied, deliveries, acked, event, result>>

Process(q) ==
    \/ Claim(q) \/ Skip(q)
    \/ ApplyEvent(q) \/ RejectEvent(q)
    \/ Mark(q) \/ Respond(q)

Failure(q) == ClaimFails(q) \/ ApplyEventFails(q) \/ Die(q)

WebhookNext == \E q \in Handlers :
    \/ \E e \in Events : Deliver(q, e)
    \/ Process(q)
    \/ Failure(q)

WebhookSpec == WebhookInit /\ [][WebhookNext]_webhookVars

(* Stripe retries what it has no answer for, and a request that was         *)
(* received is carried through.                                            *)
WebhookFairSpec ==
    /\ WebhookSpec
    /\ \A q \in Handlers : WF_webhookVars(Process(q))
    /\ \A e \in Events : WF_webhookVars(\E q \in Handlers : Deliver(q, e))

-----------------------------------------------------------------------------
(* Properties.                                                             *)

Processing(q) == pc[q] \in {"process", "mark"}

\* However often and wherever an event is delivered, it takes effect at most
\* once: the row in billing_events makes one request process it.
AtMostOnce == \A e \in Events : applied[e] <= 1

\* No two requests process one event at a time.
OneProcessor ==
    \A p, q \in Handlers :
        Processing(p) /\ Processing(q) /\ event[p] = event[q] => p = q

\* What billing_events says of an event is true: "processed" means that it took
\* effect, and an event without a row did not.
OutcomeIsTrue ==
    \A e \in Events :
        /\ outcome[e] = "processed" => applied[e] = 1
        /\ outcome[e] = "absent" => applied[e] = 0

\* An event that Stripe has been told is received, and that took no effect, can
\* be found in billing_events: it is unprocessed there, or has an error.
AckedIsRecorded ==
    \A e \in acked : applied[e] = 1 \/ outcome[e] \in {"unprocessed", "error"}

\* The webhook implements EventIntake: an event is applied once, or dropped for
\* good, for all deliveries of it.
Fate(e) ==
    IF applied[e] > 0 THEN "applied"
    ELSE IF outcome[e] = "absent" \/ \E q \in Handlers : pc[q] = "process" /\ event[q] = e
         THEN "pending"
         ELSE "dropped"

Decisions == INSTANCE EventIntake WITH fate <- [e \in Events |-> Fate(e)]

IntakeSpec == Decisions!Spec

\* Once the outcome of an event is recorded neither it nor the effect changes.
OutcomeIsFinal ==
    [][\A e \in Events :
          outcome[e] \in {"processed", "error"} =>
             outcome'[e] = outcome[e] /\ applied'[e] = applied[e]]_webhookVars

\* Stripe ends up with a 2xx answer for what it sends, provided it retries more
\* often than deliveries are answered 500 or get lost: one delivery may be
\* rejected, and each fault may spoil one more.
EventuallyAcked ==
    \A e \in Events : deliveries[e] > 0 ~> e \in acked

=============================================================================
