---------------------------- MODULE BillingProofs ----------------------------
(***************************************************************************)
(* Proofs about the billing service, for any tenants, requests at once,    *)
(* plans asked for, customers, subscriptions, events, deliveries and       *)
(* faults, and for every order in which events arrive.  Subscriptions and  *)
(* BillingWebhook share no state: the events that the first takes from     *)
(* EventIntake are the ones that the second is proved to implement.        *)
(***************************************************************************)
EXTENDS Subscriptions, BillingWebhook, SequenceTheorems, TLAPS

-----------------------------------------------------------------------------
(* Subscriptions.                                                          *)

\* The request holds a row that has no Stripe subscription yet.
HasRow(q) == req[q] # Idle /\ req[q].step \in {"subscribe", "attach"}

\* What request q holds exists, and is its tenant's.
HoldsOwn(q) ==
    req[q] # Idle =>
       /\ req[q].customer # 0 =>
             /\ req[q].customer \in DOMAIN customers
             /\ customers[req[q].customer] = req[q].tenant
       /\ req[q].step \in {"save", "insert", "subscribe", "attach"} => req[q].customer # 0
       /\ req[q].sub # 0 => req[q].sub \in DOMAIN stripe /\ Owner(req[q].sub) = req[q].tenant
       /\ req[q].step \in {"attach", "upgrade", "cancel"} => req[q].sub # 0

HoldsRow(q) ==
    HasRow(q) =>
       /\ req[q].row \in DOMAIN rows
       /\ rows[req[q].row].tenant = req[q].tenant
       /\ rows[req[q].row].stripe = 0
       /\ req[q].plan \in Plans

\* Two requests never hold one row.
RowsApart ==
    \A p, q \in Requests : HasRow(p) /\ HasRow(q) /\ req[p].row = req[q].row => p = q

\* What the database names in Stripe exists there, and is the tenant's.
Linked ==
    /\ \A t \in Tenants : customer[t] # 0 =>
          customer[t] \in DOMAIN customers /\ customers[customer[t]] = t
    /\ \A s \in DOMAIN stripe : stripe[s].customer \in DOMAIN customers
    /\ \A r \in DOMAIN rows : rows[r].stripe # 0 =>
          rows[r].stripe \in DOMAIN stripe /\ Owner(rows[r].stripe) = rows[r].tenant

\* The newest event of a Stripe subscription tells its present state.
NewestTells ==
    \A i \in DOMAIN events :
       /\ events[i].sub \in DOMAIN stripe
       /\ Newest(i) => Written(events[i]) = Written(stripe[events[i].sub])

\* A row says what the event said from which it was last written.
WrittenFrom ==
    \A r \in DOMAIN rows : rows[r].from # 0 =>
       /\ rows[r].from \in DOMAIN events
       /\ rows[r].stripe = events[rows[r].from].sub
       /\ LET told == Written(events[rows[r].from])
          IN  /\ rows[r].status = told.status
              /\ rows[r].plan = told.plan
              /\ rows[r].cancelling = told.cancelling

Inv ==
    /\ TypeOK
    /\ \A q \in Requests : HoldsOwn(q) /\ HoldsRow(q)
    /\ RowsApart
    /\ Linked
    /\ NewestTells
    /\ WrittenFrom
    /\ PaidTierHasSubscription

LEMMA InitInv == Init => Inv
BY SubscriptionsAssumption, EmptySeq
   DEF Init, Inv, TypeOK, HoldsOwn, HoldsRow, HasRow, RowsApart, Linked, NewestTells, WrittenFrom,
       PaidTierHasSubscription, Tiers, Idle, Intake!Init, Intake!Fates

-----------------------------------------------------------------------------
(* What the parts of a step do.                                            *)

\* An element of a sequence is replaced, or one is appended.
LEMMA Replaced ==
    ASSUME NEW S, NEW s \in Seq(S), NEW i \in DOMAIN s, NEW x \in S,
           NEW t, t = [s EXCEPT ![i] = x]
    PROVE  /\ t \in Seq(S)
           /\ DOMAIN t = DOMAIN s
           /\ t[i] = x
           /\ \A j \in DOMAIN s : j # i => t[j] = s[j]
BY ExceptSeq, LenProperties

LEMMA Appended ==
    ASSUME NEW S, NEW s \in Seq(S), NEW x \in S, NEW t, t = Append(s, x)
    PROVE  /\ t \in Seq(S)
           /\ Len(s) + 1 \in Nat \ {0}
           /\ Len(s) + 1 \notin DOMAIN s
           /\ DOMAIN t = DOMAIN s \cup {Len(s) + 1}
           /\ t[Len(s) + 1] = x
           /\ \A j \in DOMAIN s : t[j] = s[j] /\ j <= Len(s) /\ j \in Nat \ {0}
<1>1. /\ t \in Seq(S)
      /\ Len(t) = Len(s) + 1
      /\ \A j \in 1..Len(s) : t[j] = s[j]
      /\ t[Len(s) + 1] = x
    BY AppendProperties
<1>2. Len(s) \in Nat /\ DOMAIN s = 1..Len(s) /\ DOMAIN t = 1..Len(t)
    BY <1>1, LenProperties
<1> QED
    BY <1>1, <1>2

\* Stripe sets subscription s, an old or a new one of the same customer: the event
\* it sends is the newest of s and tells the new state.
LEMMA StripeStep ==
    ASSUME Inv, NEW s, NEW new \in Subscription, StripeSets(s, new),
           s \in DOMAIN stripe \/ s = Len(stripe) + 1,
           s \in DOMAIN stripe => new.customer = stripe[s].customer
    PROVE  /\ stripe' \in Seq(Subscription)
           /\ events' \in Seq(Event)
           /\ DOMAIN stripe' = DOMAIN stripe \cup {s}
           /\ stripe'[s] = new
           /\ \A x \in DOMAIN stripe : stripe'[x].customer = stripe[x].customer
           /\ \A i \in DOMAIN events : i \in DOMAIN events' /\ events'[i] = events[i]
           /\ NewestTells'
<1>1. stripe \in Seq(Subscription) /\ events \in Seq(Event)
    BY DEF Inv, TypeOK
<1>2. s \in Nat \ {0}
    BY <1>1, LenProperties
<1>3. /\ stripe' \in Seq(Subscription)
      /\ DOMAIN stripe' = DOMAIN stripe \cup {s}
      /\ stripe'[s] = new
      /\ \A x \in DOMAIN stripe : x # s => stripe'[x] = stripe[x]
  <2>1. CASE s \in DOMAIN stripe
    <3>1. stripe' = [stripe EXCEPT ![s] = new]
      BY <2>1 DEF StripeSets
    <3>2. /\ stripe' \in Seq(Subscription)
          /\ DOMAIN stripe' = DOMAIN stripe
          /\ stripe'[s] = new
          /\ \A x \in DOMAIN stripe : x # s => stripe'[x] = stripe[x]
      BY ONLY <1>1, <2>1, <3>1, new \in Subscription, Replaced, Zenon
    <3> QED
      BY <2>1, <3>2
  <2>2. CASE s \notin DOMAIN stripe
    <3>1. stripe' = Append(stripe, new)
      BY <2>2 DEF StripeSets
    <3> QED
      BY <1>1, <2>2, <3>1, Appended
  <2> QED
    BY <2>1, <2>2
<1> DEFINE e == [sub |-> s, status |-> new.status, plan |-> new.plan,
                 cancelling |-> new.cancelling]
           n == Len(events) + 1
<1>4. e \in Event
    BY <1>2 DEF Event, Subscription
<1>5. events' = Append(events, e)
    BY DEF StripeSets
<1> HIDE DEF e
<1>6. /\ events' \in Seq(Event)
      /\ n \notin DOMAIN events
      /\ DOMAIN events' = DOMAIN events \cup {n}
      /\ events'[n] = e
      /\ \A j \in DOMAIN events : events'[j] = events[j] /\ j < n /\ j \in Nat
      /\ n \in Nat
    BY <1>1, <1>4, <1>5, Appended, LenProperties
<1>7. e.sub = s /\ Written(e) = Written(new)
    BY DEF e, Written
<1> HIDE DEF n
<1>8. NewestTells'
  <2> SUFFICES ASSUME NEW i \in DOMAIN events'
               PROVE  /\ events'[i].sub \in DOMAIN stripe'
                      /\ Newest(i)' => Written(events'[i]) = Written(stripe'[events'[i].sub])
      BY DEF NewestTells, Written
  <2>1. CASE i = n
    BY <1>3, <1>6, <1>7, <2>1
  <2>2. CASE i # n /\ events[i].sub = s
    <3>1. i \in DOMAIN events /\ ~(n <= i) /\ events'[i] = events[i]
      BY <1>6, <2>2
    <3>2. ~ Newest(i)'
      BY <1>6, <1>7, <2>2, <3>1 DEF Newest
    <3> QED
      BY <1>3, <2>2, <3>1, <3>2
  <2>3. CASE i # n /\ events[i].sub # s
    <3>1. i \in DOMAIN events /\ events'[i] = events[i]
      BY <1>6, <2>3
    <3>2. Newest(i)' => Newest(i)
      BY <1>6, <3>1 DEF Newest
    <3> QED
      BY <1>3, <2>3, <3>1, <3>2 DEF Inv, NewestTells
  <2> QED
    BY <2>1, <2>2, <2>3
<1> QED
    BY <1>3, <1>6, <1>8

\* One row is inserted or updated, and the trigger follows: a paid tier still has
\* its row.
LEMMA TierStep ==
    ASSUME Inv, rows' \in Seq(Row), NEW r \in DOMAIN rows',
           DOMAIN rows' = DOMAIN rows \cup {r},
           \A j \in DOMAIN rows : j # r => rows'[j] = rows[j],
           r \in DOMAIN rows => rows'[r].tenant = rows[r].tenant,
           Accepted(rows'[r].status, rows'[r].plan),
           SyncTenantPlan(rows'[r].tenant, rows'[r].status, rows'[r].plan)
    PROVE  tier' \in [Tenants -> Tiers] /\ PaidTierHasSubscription'
<1>1. rows'[r] \in Row
    BY ElementOfSeq, LenProperties
<1>2. tier \in [Tenants -> Tiers]
    BY DEF Inv, TypeOK
<1> DEFINE t == rows'[r].tenant
           paid == IF rows'[r].status \in Paying THEN rows'[r].plan ELSE "basic"
<1>3. t \in Tenants /\ tier' = [tier EXCEPT ![t] = paid]
    BY <1>1 DEF Row, SyncTenantPlan
<1>4. paid \in Tiers
    BY DEF Accepted, Tiers
<1>5. PaidTierHasSubscription'
  <2> SUFFICES ASSUME NEW k \in DOMAIN rows', tier'[rows'[k].tenant] # "basic"
               PROVE  \E j \in DOMAIN rows' : /\ rows'[j].tenant = rows'[k].tenant
                                              /\ rows'[j].plan = tier'[rows'[k].tenant]
                                              /\ rows'[j].status \in Paying
      BY DEF PaidTierHasSubscription
  <2>1. CASE rows'[k].tenant = t
    BY <1>2, <1>3, <2>1
  <2>2. CASE rows'[k].tenant # t
    <3>1. k \in DOMAIN rows /\ rows'[k] = rows[k]
      BY <2>2
    <3>2. rows'[k] \in Row
      BY ElementOfSeq, LenProperties
    <3>3. tier'[rows[k].tenant] = tier[rows[k].tenant]
      BY <1>2, <1>3, <2>2, <3>1, <3>2 DEF Row
    <3>4. PICK j \in DOMAIN rows : /\ rows[j].tenant = rows[k].tenant
                                   /\ rows[j].plan = tier[rows[k].tenant]
                                   /\ rows[j].status \in Paying
      BY <3>1, <3>3 DEF Inv, PaidTierHasSubscription
    <3> QED
      BY <2>2, <3>1, <3>3, <3>4
  <2> QED
    BY <2>1, <2>2
<1> QED
    BY <1>2, <1>3, <1>4, <1>5

\* Customers and Stripe subscriptions are never lost, nor change hands.
StripeKept ==
    /\ \A c \in DOMAIN customers : c \in DOMAIN customers' /\ customers'[c] = customers[c]
    /\ \A s \in DOMAIN stripe : s \in DOMAIN stripe' /\ stripe'[s].customer = stripe[s].customer

LEMMA OwnerKept ==
    ASSUME Inv, StripeKept, NEW s \in DOMAIN stripe
    PROVE  Owner(s)' = Owner(s)
BY DEF Inv, Linked, StripeKept, Owner

LEMMA HoldingsKept ==
    ASSUME Inv, StripeKept, NEW p \in Requests, req'[p] = req[p]
    PROVE  HoldsOwn(p)'
<1>1. HoldsOwn(p)
    BY DEF Inv
<1>2. req[p] # Idle /\ req[p].sub # 0 => Owner(req[p].sub)' = Owner(req[p].sub)
  <2>1. ASSUME NEW s, s = req[p].sub, s # 0, req[p] # Idle PROVE Owner(s)' = Owner(s)
    BY <1>1, <2>1, OwnerKept DEF HoldsOwn
  <2> QED
    BY <2>1 DEF Owner
<1> QED
    BY <1>1, <1>2 DEF HoldsOwn, StripeKept, Owner

\* A step of request q leaves the others what they hold.
LEMMA RequestStep ==
    ASSUME Inv, StripeKept, NEW q \in Requests, NEW x \in Request \cup {Idle},
           req' = [req EXCEPT ![q] = x],
           \A r \in DOMAIN rows :
              /\ r \in DOMAIN rows'
              /\ rows'[r].tenant = rows[r].tenant
              /\ rows'[r].stripe = rows[r].stripe \/ (HasRow(q) /\ r = req[q].row),
           HoldsOwn(q)', HoldsRow(q)',
           HasRow(q)' => x.row \notin DOMAIN rows \/ (HasRow(q) /\ x.row = req[q].row)
    PROVE  /\ req' \in [Requests -> Request \cup {Idle}]
           /\ \A p \in Requests : HoldsOwn(p)' /\ HoldsRow(p)'
           /\ RowsApart'
<1>1. /\ req' \in [Requests -> Request \cup {Idle}]
      /\ req'[q] = x
      /\ \A p \in Requests : p # q => req'[p] = req[p]
    BY DEF Inv, TypeOK
<1>2. \A p \in Requests : p # q => HoldsRow(p)'
    BY <1>1 DEF Inv, HoldsRow, HasRow, RowsApart
<1>3. \A p \in Requests : p # q => HoldsOwn(p)'
    BY <1>1, HoldingsKept
<1>4. RowsApart'
    BY <1>1 DEF Inv, HoldsRow, HasRow, RowsApart
<1> QED
    BY <1>1, <1>2, <1>3, <1>4

-----------------------------------------------------------------------------
(* The actions, by what they change.                                       *)

\* Those that change nothing but a request, or its tenant's customer as well.
LEMMA StartStep ==
    ASSUME Inv, NEW q \in Requests, NEW t \in Tenants, NEW plan \in PlanNames \cup {"basic"},
           \/ StartCreate(q, t, plan)
           \/ \E step \in {"upgrade", "cancel"} : StartChange(q, t, step, plan)
    PROVE  Inv'
<1>1. PICK x \in Request :
         /\ req' = [req EXCEPT ![q] = x]
         /\ x.tenant = t /\ x.customer = 0
         /\ \/ x.step = "lookup" /\ x.sub = 0
            \/ /\ x.step \in {"upgrade", "cancel"}
               /\ x.sub \in DOMAIN stripe /\ x.sub # 0 /\ Owner(x.sub) = t
  <2>1. CASE StartCreate(q, t, plan)
    <3>1. Begin(t, "lookup", plan) \in Request
      BY DEF Begin, Request, Steps
    <3> QED
      BY <2>1, <3>1 DEF StartCreate, Begin
  <2>2. ASSUME NEW step \in {"upgrade", "cancel"}, StartChange(q, t, step, plan)
        PROVE  \E s \in FindSubscription(t) :
                  req' = [req EXCEPT ![q] = [Begin(t, step, plan) EXCEPT !.sub = s]]
    BY <2>2 DEF StartChange
  <2>3. ASSUME NEW step \in {"upgrade", "cancel"}, NEW s \in FindSubscription(t)
        PROVE  /\ s \in DOMAIN stripe /\ s # 0 /\ s \in Nat /\ Owner(s) = t
               /\ [Begin(t, step, plan) EXCEPT !.sub = s] \in Request
    <3>1. s \in DOMAIN stripe /\ s # 0 /\ Owner(s) = t
      BY DEF FindSubscription, IsActiveRow, Inv, Linked
    <3>2. s \in Nat
      BY <3>1, LenProperties DEF Inv, TypeOK
    <3> QED
      BY <3>1, <3>2 DEF Begin, Request, Steps
  <2> QED
    BY <2>1, <2>2, <2>3 DEF Begin
<1>2. UNCHANGED <<customer, tier, rows, customers, stripe, events, fate, faults>>
    BY DEF StartCreate, StartChange
<1>3. StripeKept
    BY <1>2 DEF StripeKept
<1>4. req'[q] = x /\ x # Idle
    BY <1>1 DEF Inv, TypeOK, Idle
<1>5. HoldsOwn(q)' /\ ~ HasRow(q)'
    BY <1>1, <1>2, <1>4 DEF HoldsOwn, HasRow, Owner
<1>6. /\ req' \in [Requests -> Request \cup {Idle}]
      /\ \A p \in Requests : HoldsOwn(p)' /\ HoldsRow(p)'
      /\ RowsApart'
  <2>1. HoldsRow(q)'
    BY <1>5 DEF HoldsRow
  <2> QED
    BY <1>1, <1>2, <1>3, <1>5, <2>1, RequestStep
<1> QED
    BY <1>2, <1>6 DEF Inv, TypeOK, Linked, Owner, NewestTells, Newest, WrittenFrom, PaidTierHasSubscription

LEMMA EndStep ==
    ASSUME Inv, NEW q \in Requests, Refuse(q) \/ Crash(q)
    PROVE  Inv'
<1>1. /\ req' = [req EXCEPT ![q] = Idle]
      /\ UNCHANGED <<customer, tier, rows, customers, stripe, events, fate>>
      /\ faults' \in 0..MaxFaults
    BY SubscriptionsAssumption DEF Refuse, Crash, Finish, Fault, Inv, TypeOK
<1>2. StripeKept
    BY <1>1 DEF StripeKept
<1>3. HoldsOwn(q)' /\ HoldsRow(q)' /\ ~ HasRow(q)'
    BY <1>1 DEF HoldsOwn, HoldsRow, HasRow, Inv, TypeOK
<1>4. /\ req' \in [Requests -> Request \cup {Idle}]
      /\ \A p \in Requests : HoldsOwn(p)' /\ HoldsRow(p)'
      /\ RowsApart'
    BY <1>1, <1>2, <1>3, RequestStep
<1> QED
    BY <1>1, <1>4 DEF Inv, TypeOK, Linked, Owner, NewestTells, Newest, WrittenFrom, PaidTierHasSubscription

LEMMA CustomerStep ==
    ASSUME Inv, NEW q \in Requests, Lookup(q) \/ CreateCustomer(q) \/ SaveCustomer(q)
    PROVE  Inv'
<1>0. req[q] \in Request /\ req[q] # Idle /\ ~ HasRow(q)
  <2>1. req[q].step \in {"lookup", "customer", "save"}
    BY DEF Lookup, CreateCustomer, SaveCustomer
  <2>2. req[q] \in Request \cup {Idle}
    BY DEF Inv, TypeOK
  <2> QED
    BY <2>1, <2>2 DEF Idle, HasRow
<1>1. /\ UNCHANGED <<tier, rows, stripe, events, fate>>
      /\ faults' \in 0..MaxFaults
  <2>1. UNCHANGED <<tier, rows, stripe, events, fate>> /\ (NoFault \/ Fault)
    BY DEF Lookup, CreateCustomer, SaveCustomer, NoFault
  <2> QED
    BY <2>1, SubscriptionsAssumption DEF NoFault, Fault, Inv, TypeOK
<1>2. /\ customers' \in Seq(Tenants)
      /\ \A c \in DOMAIN customers : c \in DOMAIN customers' /\ customers'[c] = customers[c]
      /\ CreateCustomer(q) => /\ Len(customers) + 1 \in DOMAIN customers'
                              /\ Len(customers) + 1 \in Nat \ {0}
                              /\ customers'[Len(customers) + 1] = req[q].tenant
  <2>1. CASE CreateCustomer(q)
    <3>1. req[q].tenant \in Tenants /\ customers \in Seq(Tenants)
      BY <1>0 DEF Request, Inv, TypeOK
    <3>2. customers' = Append(customers, req[q].tenant)
      BY <2>1 DEF CreateCustomer
    <3>3. /\ customers' \in Seq(Tenants)
          /\ Len(customers) + 1 \in Nat \ {0}
          /\ DOMAIN customers' = DOMAIN customers \cup {Len(customers) + 1}
          /\ customers'[Len(customers) + 1] = req[q].tenant
          /\ \A c \in DOMAIN customers : customers'[c] = customers[c]
      BY <3>1, <3>2, Appended
    <3> QED
      BY <3>3
  <2>2. CASE ~ CreateCustomer(q)
    BY <2>2 DEF Lookup, CustomerOf, SaveCustomer, SetCustomer, Inv, TypeOK
  <2> QED
    BY <2>1, <2>2
<1>3. StripeKept
    BY <1>1, <1>2 DEF StripeKept
<1>4. PICK x \in Request :
         /\ req' = [req EXCEPT ![q] = x]
         /\ x.tenant = req[q].tenant /\ x.sub = req[q].sub
         /\ x.step \in {"customer", "save", "insert"}
         /\ x.step \in {"save", "insert"} => x.customer # 0
         /\ x.customer # 0 => /\ x.customer \in DOMAIN customers'
                              /\ customers'[x.customer] = x.tenant
  <2>1. CASE Lookup(q)
    <3>1. customer[req[q].tenant] \in Nat
      BY <1>0 DEF Request, Inv, TypeOK
    <3>2. customer[req[q].tenant] # 0 =>
             /\ customer[req[q].tenant] \in DOMAIN customers'
             /\ customers'[customer[req[q].tenant]] = req[q].tenant
      BY <1>0, <1>2 DEF Request, Inv, Linked
    <3>3. req[q].customer # 0 => /\ req[q].customer \in DOMAIN customers'
                                 /\ customers'[req[q].customer] = req[q].tenant
      BY <1>0, <1>2 DEF Inv, HoldsOwn
    <3>4. \/ /\ req' = [req EXCEPT ![q] = [req[q] EXCEPT !.step = "insert",
                                                      !.customer = customer[req[q].tenant]]]
             /\ customer[req[q].tenant] # 0
          \/ req' = [req EXCEPT ![q] = [req[q] EXCEPT !.step = "customer"]]
      BY <2>1 DEF Lookup, CustomerOf, Go, Inv, TypeOK
    <3>5. /\ [req[q] EXCEPT !.step = "insert", !.customer = customer[req[q].tenant]] \in Request
          /\ [req[q] EXCEPT !.step = "customer"] \in Request
      BY <1>0, <3>1 DEF Request, Steps
    <3> QED
      BY <1>0, <3>2, <3>3, <3>4, <3>5 DEF Request
  <2>2. CASE CreateCustomer(q)
    <3>1. req' = [req EXCEPT ![q] = [req[q] EXCEPT !.step = "save", !.customer = Len(customers) + 1]]
      BY <2>2 DEF CreateCustomer, Inv, TypeOK
    <3>2. [req[q] EXCEPT !.step = "save", !.customer = Len(customers) + 1] \in Request
      BY <1>0, <1>2, <2>2 DEF Request, Steps
    <3> QED
      BY <1>0, <1>2, <2>2, <3>1, <3>2 DEF Request
  <2>3. CASE SaveCustomer(q)
    <3>1. req' = [req EXCEPT ![q] = [req[q] EXCEPT !.step = "insert"]]
      BY <2>3 DEF SaveCustomer, SetCustomer, Go, Inv, TypeOK
    <3>2. [req[q] EXCEPT !.step = "insert"] \in Request
      BY <1>0 DEF Request, Steps
    <3>3. /\ req[q].customer # 0
          /\ req[q].customer \in DOMAIN customers'
          /\ customers'[req[q].customer] = req[q].tenant
      BY <1>0, <1>2, <2>3 DEF SaveCustomer, Inv, HoldsOwn
    <3> QED
      BY <1>0, <3>1, <3>2, <3>3 DEF Request
  <2> QED
    BY <2>1, <2>2, <2>3
<1>5. req'[q] = x /\ x # Idle
    BY <1>4 DEF Inv, TypeOK, Idle
<1>6. HoldsOwn(q)' /\ HoldsRow(q)' /\ ~ HasRow(q)'
  <2>1. \A s \in DOMAIN stripe : s \in DOMAIN stripe' /\ Owner(s)' = Owner(s)
    BY <1>3, OwnerKept DEF StripeKept
  <2>2. ASSUME NEW s, s = req[q].sub, s # 0
        PROVE  s \in DOMAIN stripe' /\ Owner(s)' = req[q].tenant
    BY <1>0, <2>1, <2>2 DEF Inv, HoldsOwn
  <2> QED
    BY <1>4, <1>5, <2>2 DEF HoldsOwn, HoldsRow, HasRow, Owner
<1>7. /\ req' \in [Requests -> Request \cup {Idle}]
      /\ \A p \in Requests : HoldsOwn(p)' /\ HoldsRow(p)'
      /\ RowsApart'
    BY <1>1, <1>3, <1>4, <1>6, RequestStep
<1>8. customer' \in [Tenants -> Nat]
  <2>1. req[q].customer \in Nat /\ customer \in [Tenants -> Nat]
    BY <1>0 DEF Request, Inv, TypeOK
  <2>2. customer' = customer \/ customer' = [customer EXCEPT ![req[q].tenant] = req[q].customer]
    BY DEF Lookup, CustomerOf, CreateCustomer, SaveCustomer, SetCustomer
  <2> QED
    BY <2>1, <2>2
<1>9. Linked'
  <2>1. \A t \in Tenants : customer'[t] # 0 =>
           customer'[t] \in DOMAIN customers' /\ customers'[customer'[t]] = t
    <3>1. \A t \in Tenants : customer[t] # 0 =>
             customer[t] \in DOMAIN customers' /\ customers'[customer[t]] = t
      BY <1>2 DEF Inv, Linked
    <3>2. CASE customer' = customer
      BY <3>1, <3>2
    <3>3. CASE customer' # customer
      <4>1. SaveCustomer(q) /\ customer' = [customer EXCEPT ![req[q].tenant] = req[q].customer]
        BY <3>3 DEF Lookup, CustomerOf, CreateCustomer, SaveCustomer, SetCustomer
      <4>2. /\ req[q].customer \in DOMAIN customers'
            /\ customers'[req[q].customer] = req[q].tenant
        BY <1>0, <1>2, <4>1 DEF SaveCustomer, Inv, HoldsOwn
      <4>3. customer \in [Tenants -> Nat]
        BY DEF Inv, TypeOK
      <4> QED
        BY <3>1, <4>1, <4>2, <4>3
    <3> QED
      BY <3>2, <3>3
  <2>2. \A s \in DOMAIN stripe : Owner(s)' = Owner(s)
    BY <1>3, OwnerKept
  <2> QED
    BY <1>1, <1>2, <2>1, <2>2 DEF Inv, Linked, Owner
<1> QED
    BY <1>1, <1>2, <1>7, <1>8, <1>9 DEF Inv, TypeOK, NewestTells, Newest, WrittenFrom, PaidTierHasSubscription

\* Those that change the rows.
LEMMA InsertStep ==
    ASSUME Inv, NEW q \in Requests, Insert(q)
    PROVE  Inv'
<1>0. req[q] \in Request /\ req[q] # Idle /\ ~ HasRow(q) /\ req[q].customer # 0
    BY DEF Insert, Inv, TypeOK, Idle, HasRow, HoldsOwn
<1>1. /\ UNCHANGED <<customer, customers, stripe, events, fate>>
      /\ faults' \in 0..MaxFaults
    BY SubscriptionsAssumption DEF Insert, NoFault, Fault, Inv, TypeOK
<1> DEFINE t == req[q].tenant
           n == Len(rows) + 1
           new == [tenant |-> t, stripe |-> 0, status |-> "trialing", plan |-> req[q].plan,
                   cancelling |-> FALSE, from |-> 0]
<1>2. /\ Accepted("trialing", req[q].plan)
      /\ rows' = Append(rows, new)
      /\ SyncTenantPlan(t, "trialing", req[q].plan)
    BY DEF Insert, InsertRow
<1>3. new \in Row /\ t \in Tenants
    BY <1>0, <1>2 DEF Row, Request, Accepted
<1>4. /\ rows' \in Seq(Row)
      /\ n \in Nat \ {0}
      /\ n \notin DOMAIN rows
      /\ DOMAIN rows' = DOMAIN rows \cup {n}
      /\ rows'[n] = new
      /\ \A j \in DOMAIN rows : rows'[j] = rows[j]
  <2>1. rows \in Seq(Row)
    BY DEF Inv, TypeOK
  <2> HIDE DEF new
  <2> QED
    BY <1>2, <1>3, <2>1, Appended
<1> HIDE DEF n
<1>5. tier' \in [Tenants -> Tiers] /\ PaidTierHasSubscription'
    BY <1>2, <1>4, TierStep
<1>6. StripeKept
    BY <1>1 DEF StripeKept
<1>7. PICK x \in Request \cup {Idle} :
         /\ req' = [req EXCEPT ![q] = x]
         /\ x # Idle => /\ x.step = "subscribe" /\ x.row = n
                        /\ x.tenant = t /\ x.customer = req[q].customer /\ x.sub = req[q].sub
                        /\ x.plan = req[q].plan
  <2>1. \/ req' = [req EXCEPT ![q] = Idle]
        \/ req' = [req EXCEPT ![q] = [req[q] EXCEPT !.step = "subscribe", !.row = n]]
    BY DEF Insert, Finish, Inv, TypeOK, n
  <2>2. [req[q] EXCEPT !.step = "subscribe", !.row = n] \in Request
    BY <1>0, <1>4 DEF Request, Steps
  <2> QED
    BY <1>0, <2>1, <2>2 DEF Request
<1>8. req'[q] = x
    BY <1>7 DEF Inv, TypeOK
<1>9. HoldsOwn(q)'
    BY <1>0, <1>1, <1>7, <1>8 DEF Inv, HoldsOwn, Owner
<1>10. HoldsRow(q)'
    BY <1>2, <1>4, <1>7, <1>8 DEF HoldsRow, HasRow, Accepted
<1>11. /\ req' \in [Requests -> Request \cup {Idle}]
       /\ \A p \in Requests : HoldsOwn(p)' /\ HoldsRow(p)'
       /\ RowsApart'
    BY <1>4, <1>6, <1>7, <1>8, <1>9, <1>10, RequestStep DEF HasRow
<1>12. Linked' /\ WrittenFrom'
    BY <1>1, <1>4 DEF Inv, Linked, Owner, WrittenFrom
<1> QED
    BY <1>1, <1>4, <1>5, <1>11, <1>12 DEF Inv, TypeOK, NewestTells, Newest

LEMMA AttachStep ==
    ASSUME Inv, NEW q \in Requests, Attach(q)
    PROVE  Inv'
<1>0. /\ req[q] \in Request /\ HasRow(q)
      /\ req[q].sub # 0 /\ req[q].sub \in DOMAIN stripe /\ Owner(req[q].sub) = req[q].tenant
    BY DEF Attach, Inv, TypeOK, Idle, HasRow, HoldsOwn
<1>1. /\ UNCHANGED <<customer, customers, stripe, events, fate>>
      /\ faults' \in 0..MaxFaults
      /\ req' = [req EXCEPT ![q] = Idle]
    BY SubscriptionsAssumption DEF Attach, Finish, NoFault, Fault, Inv, TypeOK
<1>2. StripeKept
    BY <1>1 DEF StripeKept
<1> DEFINE r == req[q].row
<1>3. /\ r \in DOMAIN rows /\ rows[r] \in Row
      /\ rows[r].tenant = req[q].tenant /\ rows[r].stripe = 0
    BY <1>0, ElementOfSeq, LenProperties DEF Inv, TypeOK, HoldsRow
<1>4. rows[r].from = 0
  <2>1. ASSUME rows[r].from # 0 PROVE rows[r].stripe \in DOMAIN stripe
    BY <1>3, <2>1 DEF Inv, WrittenFrom, NewestTells
  <2>2. 0 \notin DOMAIN stripe
    BY LenProperties DEF Inv, TypeOK
  <2> QED
    BY <1>3, <2>1, <2>2
<1>5. /\ rows' \in Seq(Row)
      /\ DOMAIN rows' = DOMAIN rows
      /\ tier' \in [Tenants -> Tiers] /\ PaidTierHasSubscription'
      /\ rows'[r].tenant = rows[r].tenant
      /\ rows'[r].from = 0
      /\ rows'[r].stripe \in {0, req[q].sub}
      /\ \A j \in DOMAIN rows : j # r => rows'[j] = rows[j]
  <2>1. CASE AttachRow(r, req[q].sub)
    <3> DEFINE new == [rows[r] EXCEPT !.stripe = req[q].sub, !.status = "active"]
    <3>1. new \in Row
      BY <1>0, <1>3 DEF Row, Request, Statuses, StripeStatuses
    <3>2. /\ new.tenant = rows[r].tenant /\ new.from = 0 /\ new.stripe = req[q].sub
          /\ new.status = "active" /\ new.plan = rows[r].plan
      BY <1>3, <1>4 DEF Row
    <3>3. /\ rows \in Seq(Row)
          /\ rows' = [rows EXCEPT ![r] = new]
          /\ Accepted("active", rows[r].plan)
          /\ SyncTenantPlan(rows[r].tenant, "active", rows[r].plan)
      BY <2>1 DEF AttachRow, Inv, TypeOK
    <3> HIDE DEF new
    <3>4. /\ rows' \in Seq(Row)
          /\ DOMAIN rows' = DOMAIN rows
          /\ rows'[r] = new
          /\ \A j \in DOMAIN rows : j # r => rows'[j] = rows[j]
      BY <1>3, <3>1, <3>3, Replaced
    <3>5. tier' \in [Tenants -> Tiers] /\ PaidTierHasSubscription'
      BY <1>3, <3>2, <3>3, <3>4, TierStep
    <3> QED
      BY <3>2, <3>4, <3>5
  <2>2. CASE UNCHANGED <<tier, rows>>
    BY <1>3, <1>4, <2>2 DEF Inv, TypeOK, PaidTierHasSubscription
  <2> QED
    BY <2>1, <2>2 DEF Attach
<1>6. HoldsOwn(q)' /\ HoldsRow(q)' /\ ~ HasRow(q)'
    BY <1>1 DEF HoldsOwn, HoldsRow, HasRow, Inv, TypeOK
<1>7. /\ req' \in [Requests -> Request \cup {Idle}]
      /\ \A p \in Requests : HoldsOwn(p)' /\ HoldsRow(p)'
      /\ RowsApart'
    BY <1>0, <1>1, <1>2, <1>5, <1>6, RequestStep
<1>8. Linked'
    BY <1>0, <1>1, <1>3, <1>5 DEF Inv, Linked, Owner
<1>9. WrittenFrom'
    BY <1>1, <1>5 DEF Inv, WrittenFrom
<1> QED
    BY <1>1, <1>5, <1>7, <1>8, <1>9 DEF Inv, TypeOK, NewestTells, Newest

LEMMA EventStep ==
    ASSUME Inv, NEW i \in DOMAIN events, Receive(i) \/ Reject(i) \/ Lose(i)
    PROVE  Inv'
<1>1. /\ UNCHANGED <<customer, req, customers, stripe, events>>
      /\ faults' \in 0..MaxFaults
      /\ fate' \in [1..MaxEvents -> Intake!Fates]
  <2>1. UNCHANGED <<customer, req, customers, stripe, events>>
    BY DEF Receive, Reject, Lose
  <2>2. faults' \in 0..MaxFaults
    BY SubscriptionsAssumption DEF Receive, Reject, Lose, Fault, Inv, TypeOK
  <2>3. Intake!Apply(i) \/ Intake!Drop(i)
    BY DEF Receive, Reject, Lose
  <2>4. fate \in [1..MaxEvents -> Intake!Fates]
    BY DEF Inv, TypeOK
  <2> QED
    BY <2>1, <2>2, <2>3, <2>4 DEF Intake!Apply, Intake!Drop, Intake!Decide, Intake!Fates
<1>2. CASE UNCHANGED <<tier, rows>>
    BY <1>1, <1>2
       DEF Inv, TypeOK, HoldsOwn, HoldsRow, HasRow, RowsApart, Linked, Owner, NewestTells, Newest,
           WrittenFrom, PaidTierHasSubscription
<1>3. ASSUME NEW r \in RowsOf(events[i]), UpdateRow(r, i),
             Accepted(Written(events[i]).status, Written(events[i]).plan)
      PROVE  Inv'
  <2> DEFINE told == Written(events[i])
             new == [rows[r] EXCEPT !.status = told.status, !.plan = told.plan,
                                    !.cancelling = told.cancelling, !.from = i]
  <2>1. /\ r \in DOMAIN rows /\ rows[r] \in Row /\ rows \in Seq(Row)
        /\ rows[r].stripe = events[i].sub
    BY ElementOfSeq, LenProperties DEF RowsOf, Inv, TypeOK
  <2>2. events[i] \in Event /\ i \in Nat
    BY ElementOfSeq, LenProperties DEF Inv, TypeOK
  <2>3. new \in Row
    BY <1>3, <2>1, <2>2 DEF Row, Event, Written, Accepted
  <2>4. /\ new.tenant = rows[r].tenant /\ new.stripe = rows[r].stripe /\ new.from = i
        /\ new.status = told.status /\ new.plan = told.plan /\ new.cancelling = told.cancelling
    BY <2>1 DEF Row
  <2>5. /\ rows' = [rows EXCEPT ![r] = new]
        /\ Accepted(told.status, told.plan)
        /\ SyncTenantPlan(rows[r].tenant, told.status, told.plan)
    BY <1>3 DEF UpdateRow
  <2> HIDE DEF new, told
  <2>6. /\ rows' \in Seq(Row)
        /\ DOMAIN rows' = DOMAIN rows
        /\ rows'[r] = new
        /\ \A j \in DOMAIN rows : j # r => rows'[j] = rows[j]
    BY <2>1, <2>3, <2>5, Replaced
  <2>7. tier' \in [Tenants -> Tiers] /\ PaidTierHasSubscription'
    BY <2>1, <2>4, <2>5, <2>6, TierStep
  <2>8. \A p \in Requests : HoldsOwn(p)' /\ HoldsRow(p)'
    BY <1>1, <2>4, <2>6 DEF Inv, HoldsOwn, HoldsRow, HasRow, Owner
  <2>9. RowsApart'
    BY <1>1 DEF Inv, RowsApart, HasRow
  <2>10. Linked'
    BY <1>1, <2>4, <2>6 DEF Inv, Linked, Owner
  <2>11. WrittenFrom'
    <3> SUFFICES ASSUME NEW j \in DOMAIN rows', rows'[j].from # 0
                 PROVE  /\ rows'[j].from \in DOMAIN events
                        /\ rows'[j].stripe = events[rows'[j].from].sub
                        /\ rows'[j].status = Written(events[rows'[j].from]).status
                        /\ rows'[j].plan = Written(events[rows'[j].from]).plan
                        /\ rows'[j].cancelling = Written(events[rows'[j].from]).cancelling
        BY <1>1 DEF WrittenFrom, Written
    <3>1. CASE j = r
      BY <2>1, <2>4, <2>6, <3>1 DEF told
    <3>2. CASE j # r
      <4>1. j \in DOMAIN rows /\ rows'[j] = rows[j]
        BY <2>6, <3>2
      <4> QED
        BY <4>1 DEF Inv, WrittenFrom
    <3> QED
      BY <3>1, <3>2
  <2> QED
    BY <1>1, <2>6, <2>7, <2>8, <2>9, <2>10, <2>11 DEF Inv, TypeOK, NewestTells, Newest
<1> QED
    BY <1>2, <1>3 DEF Receive, Reject, Lose

\* What a change in Stripe means for the database: nothing but a newest event.
LEMMA StripeFrame ==
    ASSUME Inv, NEW s, NEW new \in Subscription, StripeSets(s, new),
           s \in DOMAIN stripe \/ s = Len(stripe) + 1,
           s \in DOMAIN stripe => new.customer = stripe[s].customer,
           new.customer \in DOMAIN customers,
           UNCHANGED <<customer, tier, rows, customers, fate>>
    PROVE  /\ stripe' \in Seq(Subscription) /\ events' \in Seq(Event)
           /\ s \in DOMAIN stripe' /\ stripe'[s] = new
           /\ StripeKept
           /\ NewestTells' /\ Linked' /\ WrittenFrom' /\ PaidTierHasSubscription'
<1>1. /\ stripe' \in Seq(Subscription)
      /\ events' \in Seq(Event)
      /\ DOMAIN stripe' = DOMAIN stripe \cup {s}
      /\ stripe'[s] = new
      /\ \A x \in DOMAIN stripe : stripe'[x].customer = stripe[x].customer
      /\ \A i \in DOMAIN events : i \in DOMAIN events' /\ events'[i] = events[i]
      /\ NewestTells'
    BY StripeStep
<1>2. StripeKept
    BY <1>1 DEF StripeKept
<1>3. Linked'
    BY <1>1 DEF Inv, Linked, Owner
<1>4. WrittenFrom'
  <2> SUFFICES ASSUME NEW r \in DOMAIN rows, rows[r].from # 0
               PROVE  /\ rows[r].from \in DOMAIN events'
                      /\ rows[r].stripe = events'[rows[r].from].sub
                      /\ rows[r].status = Written(events'[rows[r].from]).status
                      /\ rows[r].plan = Written(events'[rows[r].from]).plan
                      /\ rows[r].cancelling = Written(events'[rows[r].from]).cancelling
      BY DEF WrittenFrom, Written
  <2>1. rows[r].from \in DOMAIN events
    BY DEF Inv, WrittenFrom
  <2>2. rows[r].from \in DOMAIN events' /\ events'[rows[r].from] = events[rows[r].from]
    BY <1>1, <2>1
  <2> QED
    BY <2>2 DEF Inv, WrittenFrom
<1>5. PaidTierHasSubscription'
    BY DEF Inv, PaidTierHasSubscription
<1> QED
    BY <1>1, <1>2, <1>3, <1>4, <1>5

LEMMA SubscribeStep ==
    ASSUME Inv, NEW q \in Requests, Subscribe(q)
    PROVE  Inv'
<1>0. /\ req[q] \in Request /\ HasRow(q) /\ req[q].customer # 0
      /\ req[q].customer \in DOMAIN customers /\ customers[req[q].customer] = req[q].tenant
      /\ rows[req[q].row] \in Row
      /\ req[q].row \in DOMAIN rows
      /\ rows[req[q].row].tenant = req[q].tenant /\ rows[req[q].row].stripe = 0
      /\ req[q].plan \in Plans
    BY ElementOfSeq, LenProperties DEF Subscribe, Inv, TypeOK, Idle, HasRow, HoldsOwn, HoldsRow
<1>1. /\ UNCHANGED <<customer, tier, rows, customers, fate>>
      /\ faults' \in 0..MaxFaults
    BY SubscriptionsAssumption DEF Subscribe, NoFault, Fault, Inv, TypeOK
<1> DEFINE n == Len(stripe) + 1
           new == [customer |-> req[q].customer, status |-> "trialing",
                   plan |-> req[q].plan, cancelling |-> FALSE]
<1>2. n \in Nat \ {0} /\ n \notin DOMAIN stripe
    BY LenProperties DEF Inv, TypeOK
<1>3. new \in Subscription
    BY <1>0 DEF Subscription, Request, StripeStatuses
<1>4. StripeSets(n, new)
    BY DEF Subscribe
<1>5. new.customer = req[q].customer
    OBVIOUS
<1> HIDE DEF new
<1>6. /\ stripe' \in Seq(Subscription) /\ events' \in Seq(Event)
      /\ n \in DOMAIN stripe' /\ stripe'[n] = new
      /\ StripeKept
      /\ NewestTells' /\ Linked' /\ WrittenFrom' /\ PaidTierHasSubscription'
    BY <1>0, <1>1, <1>2, <1>3, <1>4, <1>5, StripeFrame
<1>7. PICK x \in Request \cup {Idle} :
         /\ req' = [req EXCEPT ![q] = x]
         /\ x # Idle => /\ x.step = "attach" /\ x.row = req[q].row /\ x.sub = n
                        /\ x.tenant = req[q].tenant /\ x.customer = req[q].customer
                        /\ x.plan = req[q].plan
  <2>1. \/ req' = [req EXCEPT ![q] = Idle]
        \/ req' = [req EXCEPT ![q] = [req[q] EXCEPT !.step = "attach", !.sub = n]]
    BY DEF Subscribe, Finish, Inv, TypeOK
  <2>2. [req[q] EXCEPT !.step = "attach", !.sub = n] \in Request
    BY <1>0, <1>2 DEF Request, Steps
  <2> QED
    BY <1>0, <2>1, <2>2 DEF Request
<1>8. req'[q] = x
    BY <1>7 DEF Inv, TypeOK
<1> HIDE DEF n
<1>9. HoldsOwn(q)' /\ HoldsRow(q)'
    BY <1>0, <1>1, <1>2, <1>5, <1>6, <1>7, <1>8 DEF HoldsOwn, HoldsRow, HasRow, Owner
<1>10. HasRow(q)' => x.row = req[q].row
    BY <1>7, <1>8 DEF HasRow
<1>11. /\ req' \in [Requests -> Request \cup {Idle}]
       /\ \A p \in Requests : HoldsOwn(p)' /\ HoldsRow(p)'
       /\ RowsApart'
    BY <1>0, <1>1, <1>6, <1>7, <1>9, <1>10, RequestStep
<1> QED
    BY <1>1, <1>6, <1>11 DEF Inv, TypeOK

LEMMA ChangeStep ==
    ASSUME Inv, NEW q \in Requests, Upgrade(q) \/ Cancel(q)
    PROVE  Inv'
<1>1. /\ UNCHANGED <<customer, tier, rows, customers, fate, faults>>
      /\ req' = [req EXCEPT ![q] = Idle]
    BY DEF Upgrade, Cancel, Finish
<1> DEFINE s == req[q].sub
<1>2. s \in DOMAIN stripe /\ stripe[s] \in Subscription
    BY ElementOfSeq, LenProperties DEF Upgrade, Cancel, Live, Inv, TypeOK
<1>3. PICK new \in Subscription : StripeSets(s, new) /\ new.customer = stripe[s].customer
  <2>1. CASE Upgrade(q)
    <3>1. [stripe[s] EXCEPT !.plan = req[q].plan] \in Subscription
      BY <1>2, <2>1 DEF Upgrade, Subscription
    <3> QED
      BY <1>2, <2>1, <3>1 DEF Upgrade, Subscription
  <2>2. CASE Cancel(q)
    <3>1. [stripe[s] EXCEPT !.cancelling = TRUE] \in Subscription
      BY <1>2 DEF Subscription
    <3> QED
      BY <1>2, <2>2, <3>1 DEF Cancel, Subscription
  <2> QED
    BY <2>1, <2>2
<1>4. /\ stripe' \in Seq(Subscription) /\ events' \in Seq(Event)
      /\ StripeKept
      /\ NewestTells' /\ Linked' /\ WrittenFrom' /\ PaidTierHasSubscription'
    BY <1>1, <1>2, <1>3, StripeFrame DEF Inv, Linked
<1>5. HoldsOwn(q)' /\ HoldsRow(q)' /\ ~ HasRow(q)'
    BY <1>1 DEF HoldsOwn, HoldsRow, HasRow, Inv, TypeOK
<1>6. /\ req' \in [Requests -> Request \cup {Idle}]
      /\ \A p \in Requests : HoldsOwn(p)' /\ HoldsRow(p)'
      /\ RowsApart'
    BY <1>1, <1>4, <1>5, RequestStep
<1> QED
    BY <1>1, <1>4, <1>6 DEF Inv, TypeOK

LEMMA EnvironmentStep ==
    ASSUME Inv, NEW s \in DOMAIN stripe, Charge(s) \/ End(s)
    PROVE  Inv'
<1>1. UNCHANGED <<customer, tier, rows, req, customers, fate, faults>>
    BY DEF Charge, End
<1>2. stripe[s] \in Subscription
    BY ElementOfSeq, LenProperties DEF Inv, TypeOK
<1>3. PICK new \in Subscription : StripeSets(s, new) /\ new.customer = stripe[s].customer
  <2>1. \A status \in StripeStatuses :
           LET new == [stripe[s] EXCEPT !.status = status]
           IN  new \in Subscription /\ new.customer = stripe[s].customer
    BY <1>2 DEF Subscription
  <2> QED
    BY <2>1 DEF Charge, End, StripeStatuses
<1>4. /\ stripe' \in Seq(Subscription) /\ events' \in Seq(Event)
      /\ StripeKept
      /\ NewestTells' /\ Linked' /\ WrittenFrom' /\ PaidTierHasSubscription'
    BY <1>1, <1>3, StripeFrame DEF Inv, Linked
<1>5. \A p \in Requests : HoldsOwn(p)' /\ HoldsRow(p)'
    BY <1>1, <1>4, HoldingsKept DEF Inv, HoldsRow, HasRow
<1>6. RowsApart'
    BY <1>1 DEF Inv, RowsApart, HasRow
<1> QED
    BY <1>1, <1>4, <1>5, <1>6 DEF Inv, TypeOK

LEMMA InvStep == Inv /\ [Next]_vars => Inv'
<1> SUFFICES ASSUME Inv, [Next]_vars PROVE Inv'
    OBVIOUS
<1>1. ASSUME NEW q \in Requests, NEW t \in Tenants,
             \/ \E plan \in PlanNames : StartCreate(q, t, plan) \/ StartChange(q, t, "upgrade", plan)
             \/ StartChange(q, t, "cancel", "basic")
      PROVE  Inv'
  <2>1. CASE StartChange(q, t, "cancel", "basic")
    <3>1. \E step \in {"upgrade", "cancel"} : StartChange(q, t, step, "basic")
      BY <2>1
    <3> QED
      BY <3>1, StartStep
  <2>2. ASSUME NEW plan \in PlanNames, StartCreate(q, t, plan) \/ StartChange(q, t, "upgrade", plan)
        PROVE  Inv'
    BY <2>2, StartStep, SubscriptionsAssumption
  <2> QED
    BY <1>1, <2>1, <2>2
<1>2. ASSUME NEW q \in Requests, Call(q) PROVE Inv'
    BY <1>2, CustomerStep, InsertStep, SubscribeStep, AttachStep, ChangeStep, EndStep DEF Call
<1>3. ASSUME NEW s \in DOMAIN stripe, Charge(s) \/ End(s) PROVE Inv'
    BY <1>3, EnvironmentStep
<1>4. ASSUME NEW i \in DOMAIN events, Receive(i) \/ Reject(i) \/ Lose(i) PROVE Inv'
    BY <1>4, EventStep
<1>5. CASE UNCHANGED vars
    BY <1>5 DEF vars, Inv, TypeOK, HoldsOwn, HoldsRow, HasRow, RowsApart, Linked, Owner,
                NewestTells, Newest, WrittenFrom, PaidTierHasSubscription
<1> QED
    BY <1>1, <1>2, <1>3, <1>4, <1>5 DEF Next

LEMMA Invariance == Spec => []Inv
<1> QED
    BY InitInv, InvStep, PTL DEF Spec

-----------------------------------------------------------------------------
(* The theorems.                                                           *)

\* The tables, the requests and Stripe's side keep their types.
THEOREM TypeCorrect == Spec => []TypeOK
<1>1. Inv => TypeOK
    BY DEF Inv
<1> QED
    BY <1>1, Invariance, PTL

\* A tenant above basic that has a subscription has a row that pays for its tier,
\* whatever tier it was created with, for any number of subscriptions and any order
\* of their events.
THEOREM PaidTiers == Spec => []PaidTierHasSubscription
<1>1. Inv => PaidTierHasSubscription
    BY DEF Inv
<1> QED
    BY <1>1, Invariance, PTL

\* No request and no row of a tenant names another tenant's Stripe subscription.
THEOREM Apart == Spec => []TenantsApart
<1>1. Inv => TenantsApart
    BY DEF Inv, Linked, HoldsOwn, TenantsApart, PortalSubscriptions, CustomerOf, Owner
<1> QED
    BY <1>1, Invariance, PTL

\* A row that was last written from the newest event of its Stripe subscription
\* says what Stripe says.
THEOREM Agreement == Spec => []AgreesWithStripe
<1>1. Inv => AgreesWithStripe
  <2> SUFFICES ASSUME Inv, NEW r \in DOMAIN rows, rows[r].from # 0, Newest(rows[r].from)
               PROVE  LET told == Written(stripe[rows[r].stripe])
                      IN  /\ rows[r].status = told.status
                          /\ rows[r].plan = told.plan
                          /\ rows[r].cancelling = told.cancelling
      BY DEF AgreesWithStripe
  <2>1. /\ rows[r].from \in DOMAIN events
        /\ rows[r].stripe = events[rows[r].from].sub
        /\ Written(events[rows[r].from]) = Written(stripe[rows[r].stripe])
    BY DEF Inv, WrittenFrom, NewestTells
  <2> QED
    BY <2>1 DEF Inv, WrittenFrom
<1> QED
    BY <1>1, Invariance, PTL

-----------------------------------------------------------------------------
(* The webhook: the row in billing_events makes an event take effect at    *)
(* most once, and what it says of the event is true.                       *)

\* What a request relies on from one database call to the next.
HandlerInv(q) ==
    /\ Processing(q) => outcome[event[q]] = "unprocessed"
    /\ pc[q] = "process" => applied[event[q]] = 0
    /\ pc[q] = "mark" /\ result[q] = "ok" => applied[event[q]] = 1
    /\ pc[q] = "respond" /\ result[q] = "ok" => outcome[event[q]] # "absent"

\* An event that has been acknowledged has a row.
AckedHasRow == \A e \in acked : outcome[e] # "absent"

WebhookInv ==
    /\ WebhookTypeOK
    /\ AtMostOnce
    /\ OneProcessor
    /\ OutcomeIsTrue
    /\ AckedHasRow
    /\ \A q \in Handlers : HandlerInv(q)

LEMMA WebhookInitInv == WebhookInit => WebhookInv
BY WebhookAssumption
   DEF WebhookInit, WebhookInv, WebhookTypeOK, AtMostOnce, OneProcessor, OutcomeIsTrue,
       AckedHasRow, HandlerInv, Processing, Outcomes, Stages

LEMMA WebhookTypeStep == WebhookTypeOK /\ [WebhookNext]_webhookVars => WebhookTypeOK'
<1> SUFFICES ASSUME WebhookTypeOK, [WebhookNext]_webhookVars PROVE WebhookTypeOK'
    OBVIOUS
<1> USE WebhookAssumption DEF WebhookTypeOK, Outcomes, Stages, GoOn, Return, Mishap
<1>1. ASSUME NEW q \in Handlers, NEW e \in Events, Deliver(q, e) PROVE WebhookTypeOK'
    BY <1>1 DEF Deliver
<1>2. ASSUME NEW q \in Handlers, Process(q) PROVE WebhookTypeOK'
  <2>1. CASE Claim(q) \/ Skip(q)
    BY <2>1 DEF Claim, Skip, InsertEvent
  <2>2. CASE ApplyEvent(q) \/ RejectEvent(q)
    BY <2>2 DEF ApplyEvent, RejectEvent, TakeEffect
  <2>3. CASE Mark(q)
    BY <2>3 DEF Mark
  <2>4. CASE Respond(q)
    BY <2>4 DEF Respond
  <2> QED
    BY <1>2, <2>1, <2>2, <2>3, <2>4 DEF Process
<1>3. ASSUME NEW q \in Handlers, Failure(q) PROVE WebhookTypeOK'
  <2>1. CASE ClaimFails(q)
    BY <2>1 DEF ClaimFails, InsertEvent
  <2>2. CASE ApplyEventFails(q)
    BY <2>2 DEF ApplyEventFails, TakeEffect
  <2>3. CASE Die(q)
    BY <2>3 DEF Die
  <2> QED
    BY <1>3, <2>1, <2>2, <2>3 DEF Failure
<1>4. CASE UNCHANGED webhookVars
    BY <1>4 DEF webhookVars
<1> QED
    BY <1>1, <1>2, <1>3, <1>4 DEF WebhookNext

\* Each step of a request keeps what it, and every other request, relies on:
\* only the request that inserted the row of an event processes the event.
LEMMA WebhookInvStep == WebhookInv /\ [WebhookNext]_webhookVars => WebhookInv'
<1> SUFFICES ASSUME WebhookInv, [WebhookNext]_webhookVars PROVE WebhookInv'
    OBVIOUS
<1>1. WebhookTypeOK'
    BY WebhookTypeStep DEF WebhookInv
<1> USE DEF WebhookInv, AtMostOnce, OneProcessor, OutcomeIsTrue, AckedHasRow, HandlerInv,
           Processing
<1>2. ASSUME NEW q \in Handlers, NEW e \in Events, Deliver(q, e) PROVE WebhookInv'
    BY <1>1, <1>2 DEF Deliver, WebhookTypeOK, GoOn
<1>3. ASSUME NEW q \in Handlers, Claim(q) PROVE WebhookInv'
    BY <1>1, <1>3 DEF Claim, InsertEvent, WebhookTypeOK, GoOn
<1>4. ASSUME NEW q \in Handlers, Skip(q) PROVE WebhookInv'
    BY <1>1, <1>4 DEF Skip, Return, WebhookTypeOK, GoOn
<1>5. ASSUME NEW q \in Handlers, ClaimFails(q) PROVE WebhookInv'
    BY <1>1, <1>5 DEF ClaimFails, InsertEvent, Return, WebhookTypeOK, GoOn
<1>6. ASSUME NEW q \in Handlers, ApplyEvent(q) \/ ApplyEventFails(q) PROVE WebhookInv'
    BY <1>1, <1>6 DEF ApplyEvent, ApplyEventFails, TakeEffect, Return, WebhookTypeOK, GoOn
<1>7. ASSUME NEW q \in Handlers, RejectEvent(q) PROVE WebhookInv'
    BY <1>1, <1>7 DEF RejectEvent, Return, WebhookTypeOK, GoOn
<1>8. ASSUME NEW q \in Handlers, Mark(q) PROVE WebhookInv'
    BY <1>1, <1>8 DEF Mark, WebhookTypeOK, GoOn
<1>9. ASSUME NEW q \in Handlers, Respond(q) PROVE WebhookInv'
    BY <1>1, <1>9 DEF Respond, WebhookTypeOK, GoOn
<1>10. ASSUME NEW q \in Handlers, Die(q) PROVE WebhookInv'
    BY <1>1, <1>10 DEF Die, WebhookTypeOK, GoOn
<1>11. CASE UNCHANGED webhookVars
    BY <1>11 DEF webhookVars, WebhookTypeOK
<1> QED
    BY <1>2, <1>3, <1>4, <1>5, <1>6, <1>7, <1>8, <1>9, <1>10, <1>11
       DEF WebhookNext, Process, Failure

LEMMA WebhookInvariance == WebhookSpec => []WebhookInv
<1>1. WebhookInit => WebhookInv
    BY WebhookInitInv
<1>2. WebhookInv /\ [WebhookNext]_webhookVars => WebhookInv'
    BY WebhookInvStep
<1> QED
    BY <1>1, <1>2, PTL DEF WebhookSpec

\* billing_events, the requests and what Stripe knows keep their types.
THEOREM WebhookTyped == WebhookSpec => []WebhookTypeOK
<1>1. WebhookInv => WebhookTypeOK
    BY DEF WebhookInv
<1> QED
    BY <1>1, WebhookInvariance, PTL

\* An event takes effect at most once, however many replicas receive however
\* many deliveries of it, and whatever fails half way.
THEOREM EffectAtMostOnce == WebhookSpec => [](AtMostOnce /\ OneProcessor)
<1>1. WebhookInv => AtMostOnce /\ OneProcessor
    BY DEF WebhookInv
<1> QED
    BY <1>1, WebhookInvariance, PTL

\* billing_events never says an event was processed that was not, and an
\* acknowledged event without effect is visible there.
THEOREM RecordsAreTrue == WebhookSpec => [](OutcomeIsTrue /\ AckedIsRecorded)
<1>1. WebhookInv => OutcomeIsTrue /\ AckedIsRecorded
    BY DEF WebhookInv, OutcomeIsTrue, AckedIsRecorded, AckedHasRow, WebhookTypeOK, Outcomes
<1> QED
    BY <1>1, WebhookInvariance, PTL

\* A recorded outcome is final: no later delivery applies the event again.
THEOREM OutcomesAreFinal == WebhookSpec => OutcomeIsFinal
<1>1. WebhookInv /\ [WebhookNext]_webhookVars =>
        [\A e \in Events :
            outcome[e] \in {"processed", "error"} =>
               outcome'[e] = outcome[e] /\ applied'[e] = applied[e]]_webhookVars
  <2> SUFFICES ASSUME WebhookInv, [WebhookNext]_webhookVars,
                      NEW e \in Events, outcome[e] \in {"processed", "error"}
               PROVE  outcome'[e] = outcome[e] /\ applied'[e] = applied[e]
      BY DEF webhookVars
  <2>1. \A q \in Handlers : Processing(q) => event[q] # e
      BY DEF WebhookInv, HandlerInv
  <2> QED
      BY <2>1 DEF WebhookInv, WebhookTypeOK, WebhookNext, webhookVars, Process, Failure,
                  Processing, Deliver, Claim, Skip, ClaimFails, InsertEvent, ApplyEvent,
                  ApplyEventFails, TakeEffect, RejectEvent, Mark, Respond, Die
<1> QED
    BY <1>1, WebhookInvariance, PTL DEF WebhookSpec, OutcomeIsFinal

\* A step that decides at most one event, and only a pending one, is a step of
\* EventIntake.
LEMMA OneDecided ==
    ASSUME NEW d \in Events,
           \A e \in Events \ {d} : Fate(e)' = Fate(e),
           \/ Fate(d)' = Fate(d)
           \/ Fate(d) = "pending" /\ Fate(d)' \in {"applied", "dropped"}
    PROVE  [Decisions!Next]_([e \in Events |-> Fate(e)])
<1> DEFINE fates == [e \in Events |-> Fate(e)]
<1>1. CASE Fate(d)' = Fate(d)
  <2>1. \A e \in Events : Fate(e)' = Fate(e)
    BY <1>1
  <2> QED
    BY <2>1
<1>2. CASE Fate(d) = "pending" /\ Fate(d)' \in {"applied", "dropped"}
  <2>1. fates' = [fates EXCEPT ![d] = Fate(d)']
    OBVIOUS
  <2>2. fates[d] = "pending"
    BY <1>2
  <2>3. PICK f \in {"applied", "dropped"} : Fate(d)' = f
    BY <1>2
  <2>4. Decisions!Decide(d, f)
    BY <2>1, <2>2, <2>3 DEF Decisions!Decide
  <2> QED
    BY <2>3, <2>4 DEF Decisions!Next, Decisions!Apply, Decisions!Drop
<1> QED
    BY <1>1, <1>2

\* What a request does to the fate of events: only its own event is decided, when
\* it is applied, rejected or given up.
LEMMA IntakeStep ==
    ASSUME WebhookInv, NEW q \in Handlers, Process(q) \/ Failure(q),
           NEW d \in Events, d = event[q]
    PROVE  /\ \A e \in Events \ {d} : Fate(e)' = Fate(e)
           /\ \/ Fate(d)' = Fate(d)
              \/ Fate(d) = "pending" /\ Fate(d)' \in {"applied", "dropped"}
<1> USE DEF WebhookInv, WebhookTypeOK, HandlerInv, Processing, OneProcessor,
           OutcomeIsTrue, Fate
<1>1. CASE Claim(q)
    BY <1>1 DEF Claim, InsertEvent, GoOn
<1>2. CASE Skip(q)
    BY <1>2 DEF Skip, GoOn
<1>3. CASE ClaimFails(q)
    BY <1>3 DEF ClaimFails, InsertEvent, GoOn
<1>4. CASE ApplyEvent(q) \/ ApplyEventFails(q)
    BY <1>4 DEF ApplyEvent, ApplyEventFails, TakeEffect, GoOn
<1>5. CASE RejectEvent(q)
    BY <1>5 DEF RejectEvent, GoOn
<1>6. CASE Mark(q)
    BY <1>6 DEF Mark, GoOn
<1>7. CASE Respond(q)
    BY <1>7 DEF Respond, GoOn
<1>8. CASE Die(q)
    BY <1>8 DEF Die, GoOn
<1> QED
    BY <1>1, <1>2, <1>3, <1>4, <1>5, <1>6, <1>7, <1>8 DEF Process, Failure

\* The webhook implements EventIntake: over all deliveries, requests and faults it
\* decides about an event once, and the decision stands.
THEOREM WebhookImplementsIntake == WebhookSpec => IntakeSpec
<1>1. WebhookInit => Decisions!Init
    BY DEF WebhookInit, Decisions!Init, Fate
<1>2. WebhookInv /\ [WebhookNext]_webhookVars => [Decisions!Next]_([e \in Events |-> Fate(e)])
  <2> SUFFICES ASSUME WebhookInv, [WebhookNext]_webhookVars
               PROVE  [Decisions!Next]_([e \in Events |-> Fate(e)])
      OBVIOUS
  <2>1. ASSUME NEW q \in Handlers, Process(q) \/ Failure(q)
        PROVE  [Decisions!Next]_([e \in Events |-> Fate(e)])
    <3>1. PICK d \in Events : d = event[q]
      BY DEF WebhookInv, WebhookTypeOK
    <3>2. /\ \A e \in Events \ {d} : Fate(e)' = Fate(e)
          /\ \/ Fate(d)' = Fate(d)
             \/ Fate(d) = "pending" /\ Fate(d)' \in {"applied", "dropped"}
      BY <2>1, <3>1, IntakeStep
    <3> QED
      BY <3>2, OneDecided
  <2>2. ASSUME NEW q \in Handlers, NEW e \in Events, Deliver(q, e)
        PROVE  \A d \in Events : Fate(d)' = Fate(d)
    BY <2>2 DEF Deliver, GoOn, Fate, WebhookInv, WebhookTypeOK
  <2>3. CASE UNCHANGED webhookVars
    BY <2>3 DEF webhookVars, Fate
  <2> QED
    BY <2>1, <2>2, <2>3 DEF WebhookNext
<1> QED
    BY <1>1, <1>2, WebhookInvariance, PTL DEF WebhookSpec, IntakeSpec, Decisions!Spec
=============================================================================
