---------------------------- MODULE Subscriptions ----------------------------
(***************************************************************************)
(* A tenant's subscriptions: the billing service creates, upgrades and     *)
(* cancels them (cmd/server/main.go), Stripe holds their true state and    *)
(* tells of each change in an event, and a trigger of the database derives *)
(* the tenant's tier from the rows (migrations 006, 023 and 036).          *)
(*                                                                         *)
(* Events reach the rows through the webhook, in any order, each one once  *)
(* or not at all: EventIntake, which BillingWebhook implements.            *)
(***************************************************************************)
EXTENDS Naturals, Sequences, FiniteSets

CONSTANTS
    Tenants,           \* tenants
    Requests,          \* API requests that can be in progress at once
    PlanNames,         \* plans that requests ask for
    MaxCustomers,      \* bound: customers in Stripe
    MaxSubscriptions,  \* bound: rows of subscriptions
    MaxEvents,         \* bound: events of Stripe
    MaxFaults          \* bound: crashes, failed calls and lost events in a run

ASSUME SubscriptionsAssumption ==
    {MaxCustomers, MaxSubscriptions, MaxEvents, MaxFaults} \subseteq Nat

VARIABLES
    customer,   \* customer[t]: tenants.stripe_customer_id, 0 when NULL
    tier,       \* tier[t]: tenants.tier
    rows,       \* the table subscriptions, in the order of created_at
    req,        \* req[q]: where request q stands, and what it holds
    customers,  \* Stripe's customers: the tenant of each
    stripe,     \* Stripe's subscriptions
    events,     \* the events Stripe has sent, each a snapshot
    fate,       \* fate[i]: whether event i was applied or dropped
    faults      \* faults that have happened

vars == <<customer, tier, rows, req, customers, stripe, events, fate, faults>>

Intake == INSTANCE EventIntake WITH Events <- 1..MaxEvents

Plans == {"basic", "pro", "business", "enterprise"}           \* chk_subscription_plan
Tiers == {"basic", "pro", "enterprise"}                       \* chk_tenant_tier
StripeStatuses == {"trialing", "active", "past_due", "unpaid", "canceled"}
Statuses == (StripeStatuses \ {"canceled"}) \cup {"cancelled"}  \* chk_subscription_status

Paying == {"trialing", "active"}

\* A row; from is the event it was last written from, 0 for none (a history field).
Row == [tenant : Tenants, stripe : Nat, status : Statuses, plan : Plans,
        cancelling : BOOLEAN, from : Nat]

Subscription == [customer : Nat, status : StripeStatuses, plan : Plans,
                 cancelling : BOOLEAN]

Event == [sub : Nat, status : StripeStatuses, plan : Plans, cancelling : BOOLEAN]

Steps == {"lookup", "customer", "save", "insert", "subscribe", "attach", "upgrade", "cancel"}

\* customer, row and sub are what the request has got so far, 0 for nothing.
Request == [step : Steps, tenant : Tenants, plan : PlanNames \cup {"basic"},
            customer : Nat, row : Nat, sub : Nat]

Idle == [step |-> "idle"]

TypeOK ==
    /\ customer \in [Tenants -> Nat]
    /\ tier \in [Tenants -> Tiers]
    /\ rows \in Seq(Row)
    /\ req \in [Requests -> Request \cup {Idle}]
    /\ customers \in Seq(Tenants)
    /\ stripe \in Seq(Subscription)
    /\ events \in Seq(Event)
    /\ fate \in [1..MaxEvents -> Intake!Fates]
    /\ faults \in 0..MaxFaults

Begin(t, step, plan) ==
    [step |-> step, tenant |-> t, plan |-> plan, customer |-> 0, row |-> 0, sub |-> 0]

\* The control plane has created the tenants, each with the tier it was asked for.
Init ==
    /\ customer = [t \in Tenants |-> 0]
    /\ tier \in [Tenants -> Tiers]
    /\ rows = <<>>
    /\ req = [q \in Requests |-> Idle]
    /\ customers = <<>>
    /\ stripe = <<>>
    /\ events = <<>>
    /\ Intake!Init
    /\ faults = 0

Fault ==
    /\ faults < MaxFaults
    /\ faults' = faults + 1

NoFault == UNCHANGED faults

Go(q, step) == req' = [req EXCEPT ![q] = [@ EXCEPT !.step = step]]

Finish(q) == req' = [req EXCEPT ![q] = Idle]

-----------------------------------------------------------------------------
(* The table and its trigger.                                              *)

\* The CHECKs of subscriptions, and that of tenants.tier when the trigger writes
\* the plan there: a statement that fails one of them changes nothing.
Accepted(status, plan) ==
    /\ status \in Statuses
    /\ plan \in Plans
    /\ status \in Paying => plan \in Tiers

\* Mutant of SyncTenantPlan: only a plan that is paid for changes the tier.
SyncOnlyUpwards(t, status, plan) ==
    tier' = IF status \in Paying THEN [tier EXCEPT ![t] = plan] ELSE tier

\* sync_tenant_plan: the tier is the plan that is paid for, else basic.
SyncTenantPlan(t, status, plan) ==
    tier' = [tier EXCEPT ![t] = IF status \in Paying THEN plan ELSE "basic"]

\* CreateSubscription of the database client
InsertRow(t, plan) ==
    /\ Accepted("trialing", plan)
    /\ Len(rows) < MaxSubscriptions
    /\ rows' = Append(rows, [tenant |-> t, stripe |-> 0, status |-> "trialing", plan |-> plan,
                             cancelling |-> FALSE, from |-> 0])
    /\ SyncTenantPlan(t, "trialing", plan)

\* AttachStripeSubscription
AttachRow(i, s) ==
    /\ Accepted("active", rows[i].plan)
    /\ rows' = [rows EXCEPT ![i] = [@ EXCEPT !.stripe = s, !.status = "active"]]
    /\ SyncTenantPlan(rows[i].tenant, "active", rows[i].plan)

\* GetActiveSubscription returns row i: the newest one that is not over.
IsActiveRow(i, t) ==
    LET open == {j \in DOMAIN rows : /\ rows[j].tenant = t
                                     /\ rows[j].status \in {"active", "trialing", "past_due"}}
    IN  i \in open /\ \A j \in open : j <= i

-----------------------------------------------------------------------------
(* Stripe.                                                                 *)

\* Subscription s gets a new state, and an event tells of it.
StripeSets(s, new) ==
    /\ Len(events) < MaxEvents
    /\ stripe' = IF s \in DOMAIN stripe THEN [stripe EXCEPT ![s] = new] ELSE Append(stripe, new)
    /\ events' = Append(events, [sub |-> s, status |-> new.status, plan |-> new.plan,
                                 cancelling |-> new.cancelling])

Live(s) == s \in DOMAIN stripe /\ stripe[s].status # "canceled"

\* A payment succeeds or fails.
Charge(s) ==
    /\ Live(s)
    /\ \E status \in {"active", "past_due", "unpaid"} \ {stripe[s].status} :
          StripeSets(s, [stripe[s] EXCEPT !.status = status])
    /\ UNCHANGED <<customer, tier, rows, req, customers, fate, faults>>

\* The period ends after a cancellation, Stripe gives up on the payment, or the
\* tenant cancels in Stripe's portal.
End(s) ==
    /\ Live(s)
    /\ StripeSets(s, [stripe[s] EXCEPT !.status = "canceled"])
    /\ UNCHANGED <<customer, tier, rows, req, customers, fate, faults>>

-----------------------------------------------------------------------------
(* A tenant's customer in Stripe.                                          *)

\* SetStripeCustomerID: the customer of a tenant is overwritten, unasked.
SetCustomer(t, c) == customer' = [customer EXCEPT ![t] = c]

\* GetStripeCustomerID: none is ErrNotFound, for a NULL as for a missing tenant.
CustomerOf(t) == {customer[t]} \ {0}

\* The subscriptions that Stripe's portal shows tenant t, and lets it cancel: the
\* session is one of the customer that makePortalHandler looks up.
PortalSubscriptions(t) == {s \in DOMAIN stripe : stripe[s].customer \in CustomerOf(t)}

-----------------------------------------------------------------------------
(* POST: create a subscription, one action per call.                       *)

StartCreate(q, t, plan) ==
    /\ req[q] = Idle
    /\ req' = [req EXCEPT ![q] = Begin(t, "lookup", plan)]
    /\ UNCHANGED <<customer, tier, rows, customers, stripe, events, fate, faults>>

\* GetStripeCustomerID; any error of it means: create a customer.
Lookup(q) ==
    /\ req[q].step = "lookup"
    /\ \/ /\ \E c \in CustomerOf(req[q].tenant) :
                req' = [req EXCEPT ![q] = [@ EXCEPT !.step = "insert", !.customer = c]]
          /\ NoFault
       \/ /\ IF CustomerOf(req[q].tenant) = {} THEN NoFault ELSE Fault
          /\ Go(q, "customer")
    /\ UNCHANGED <<customer, tier, rows, customers, stripe, events, fate>>

\* CreateCustomer
CreateCustomer(q) ==
    /\ req[q].step = "customer"
    /\ Len(customers) < MaxCustomers
    /\ customers' = Append(customers, req[q].tenant)
    /\ req' = [req EXCEPT ![q] = [@ EXCEPT !.step = "save", !.customer = Len(customers) + 1]]
    /\ UNCHANGED <<customer, tier, rows, stripe, events, fate, faults>>

\* SetStripeCustomerID; its error is only logged.
SaveCustomer(q) ==
    /\ req[q].step = "save"
    /\ \/ SetCustomer(req[q].tenant, req[q].customer) /\ NoFault
       \/ UNCHANGED customer /\ Fault
    /\ Go(q, "insert")
    /\ UNCHANGED <<tier, rows, customers, stripe, events, fate>>

\* CreateSubscription of the database client: the row exists before Stripe knows.
Insert(q) ==
    /\ req[q].step = "insert"
    /\ InsertRow(req[q].tenant, req[q].plan)
    /\ \/ /\ req' = [req EXCEPT ![q] = [@ EXCEPT !.step = "subscribe", !.row = Len(rows) + 1]]
          /\ NoFault
       \/ Finish(q) /\ Fault
    /\ UNCHANGED <<customer, customers, stripe, events, fate>>

\* CreateSubscription of the Stripe client, with a trial.
Subscribe(q) ==
    /\ req[q].step = "subscribe"
    /\ StripeSets(Len(stripe) + 1,
                  [customer |-> req[q].customer, status |-> "trialing",
                   plan |-> req[q].plan, cancelling |-> FALSE])
    /\ \/ /\ req' = [req EXCEPT ![q] = [@ EXCEPT !.step = "attach", !.sub = Len(stripe) + 1]]
          /\ NoFault
       \/ Finish(q) /\ Fault
    /\ UNCHANGED <<customer, tier, rows, customers, fate>>

\* AttachStripeSubscription; its error is only logged.
Attach(q) ==
    /\ req[q].step = "attach"
    /\ \/ AttachRow(req[q].row, req[q].sub) /\ NoFault
       \/ UNCHANGED <<tier, rows>> /\ Fault
    /\ Finish(q)
    /\ UNCHANGED <<customer, customers, stripe, events, fate>>

\* A call that changes nothing and returns an error ends the request: a row that
\* a CHECK rejects, a plan without a price, a refusal of Stripe.  What was done
\* before the call stays.
Refuse(q) ==
    /\ req[q].step \in {"customer", "insert", "subscribe", "upgrade", "cancel"}
    /\ Finish(q)
    /\ UNCHANGED <<customer, tier, rows, customers, stripe, events, fate, faults>>

\* The pod dies, and the request with it.
Crash(q) ==
    /\ req[q] # Idle
    /\ Fault
    /\ Finish(q)
    /\ UNCHANGED <<customer, tier, rows, customers, stripe, events, fate>>

-----------------------------------------------------------------------------
(* Upgrade and cancel: the active row names the Stripe subscription, which  *)
(* is changed; the row follows when the event arrives.                     *)

\* Mutant of FindSubscription: the newest open row of any tenant.
FindAnySubscription(t) ==
    {rows[i].stripe : i \in {j \in DOMAIN rows : \E u \in Tenants : IsActiveRow(j, u)}} \ {0}

\* The Stripe subscription of GetActiveSubscription's row, when it has one.
FindSubscription(t) ==
    {rows[i].stripe : i \in {j \in DOMAIN rows : IsActiveRow(j, t)}} \ {0}

StartChange(q, t, step, plan) ==
    /\ req[q] = Idle
    /\ \E s \in FindSubscription(t) :
          req' = [req EXCEPT ![q] = [Begin(t, step, plan) EXCEPT !.sub = s]]
    /\ UNCHANGED <<customer, tier, rows, customers, stripe, events, fate, faults>>

\* UpdateSubscriptionPlan
Upgrade(q) ==
    /\ req[q].step = "upgrade"
    /\ req[q].plan \in Plans /\ Live(req[q].sub)
    /\ StripeSets(req[q].sub, [stripe[req[q].sub] EXCEPT !.plan = req[q].plan])
    /\ Finish(q)
    /\ UNCHANGED <<customer, tier, rows, customers, fate, faults>>

\* CancelSubscription, at the end of the period
Cancel(q) ==
    /\ req[q].step = "cancel"
    /\ Live(req[q].sub)
    /\ StripeSets(req[q].sub, [stripe[req[q].sub] EXCEPT !.cancelling = TRUE])
    /\ Finish(q)
    /\ UNCHANGED <<customer, tier, rows, customers, fate, faults>>

-----------------------------------------------------------------------------
(* The webhook, for events of type customer.subscription.*                 *)

\* What the handlers of updated and of deleted events write.
Written(e) ==
    IF e.status = "canceled"
    THEN [status |-> "cancelled", plan |-> "basic", cancelling |-> FALSE]
    ELSE [status |-> e.status, plan |-> e.plan, cancelling |-> e.cancelling]

RowsOf(e) == {r \in DOMAIN rows : rows[r].stripe = e.sub}

\* Mutant of UpdateRow: the event's status is left out of the UPDATE.
UpdatePlanOnly(r, i) ==
    LET new == Written(events[i])
    IN  /\ rows' = [rows EXCEPT ![r] = [@ EXCEPT !.plan = new.plan, !.cancelling = new.cancelling,
                                              !.from = i]]
        /\ SyncTenantPlan(rows[r].tenant, rows[r].status, new.plan)

\* UpdateSubscriptionFromStripe of row r from event i
UpdateRow(r, i) ==
    LET new == Written(events[i])
    IN  /\ rows' = [rows EXCEPT ![r] = [@ EXCEPT !.status = new.status, !.plan = new.plan,
                                              !.cancelling = new.cancelling, !.from = i]]
        /\ SyncTenantPlan(rows[r].tenant, new.status, new.plan)

Receive(i) ==
    /\ \E r \in RowsOf(events[i]) : UpdateRow(r, i)
    /\ Accepted(Written(events[i]).status, Written(events[i]).plan)
    /\ Intake!Apply(i)
    /\ UNCHANGED <<customer, req, customers, stripe, events, faults>>

\* ErrNotFound, or a CHECK rejects the row.
Reject(i) ==
    /\ \/ RowsOf(events[i]) = {}
       \/ ~ Accepted(Written(events[i]).status, Written(events[i]).plan)
    /\ Intake!Drop(i)
    /\ UNCHANGED <<customer, tier, rows, req, customers, stripe, events, faults>>

\* The request that claimed the event fails or dies: later deliveries are skipped.
Lose(i) ==
    /\ Fault
    /\ Intake!Drop(i)
    /\ UNCHANGED <<customer, tier, rows, req, customers, stripe, events>>

-----------------------------------------------------------------------------
Call(q) ==
    \/ Lookup(q) \/ CreateCustomer(q) \/ SaveCustomer(q)
    \/ Insert(q) \/ Subscribe(q) \/ Attach(q)
    \/ Upgrade(q) \/ Cancel(q)
    \/ Refuse(q) \/ Crash(q)

Next ==
    \/ \E q \in Requests, t \in Tenants :
          \/ \E plan \in PlanNames : StartCreate(q, t, plan) \/ StartChange(q, t, "upgrade", plan)
          \/ StartChange(q, t, "cancel", "basic")
    \/ \E q \in Requests : Call(q)
    \/ \E s \in DOMAIN stripe : Charge(s) \/ End(s)
    \/ \E i \in DOMAIN events : Receive(i) \/ Reject(i) \/ Lose(i)

Spec == Init /\ [][Next]_vars

-----------------------------------------------------------------------------
(* Properties.                                                             *)

\* Once a tenant has a subscription, it keeps no tier above basic without a row
\* that says this tier is paid for, or on trial: neither the tier it was created
\* with, nor that of another subscription, whatever order the events arrive in.
PaidTierHasSubscription ==
    \A r \in DOMAIN rows :
        LET t == rows[r].tenant
        IN  tier[t] # "basic" =>
               \E s \in DOMAIN rows : /\ rows[s].tenant = t
                                      /\ rows[s].plan = tier[t]
                                      /\ rows[s].status \in Paying

\* What a tenant's requests and rows name in Stripe, and what the portal shows
\* it there, is the tenant's own.
Owner(s) == customers[stripe[s].customer]

TenantsApart ==
    /\ \A r \in DOMAIN rows : rows[r].stripe # 0 => Owner(rows[r].stripe) = rows[r].tenant
    /\ \A q \in Requests : req[q] # Idle /\ req[q].sub # 0 => Owner(req[q].sub) = req[q].tenant
    /\ \A t \in Tenants : \A s \in PortalSubscriptions(t) : Owner(s) = t

\* A row that was last written from the newest event of its Stripe subscription
\* says what Stripe says: neither Attach, nor a request, nor the event of another
\* subscription comes in between.
Newest(i) == \A j \in DOMAIN events : events[j].sub = events[i].sub => j <= i

AgreesWithStripe ==
    \A r \in DOMAIN rows :
        rows[r].from # 0 /\ Newest(rows[r].from) =>
           LET told == Written(stripe[rows[r].stripe])
           IN  /\ rows[r].status = told.status
               /\ rows[r].plan = told.plan
               /\ rows[r].cancelling = told.cancelling

=============================================================================
