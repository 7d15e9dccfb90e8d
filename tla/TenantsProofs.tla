---------------------------- MODULE TenantsProofs ----------------------------
(***************************************************************************)
(* Proofs about Tenants, for any tenants, slugs, settings, requests at     *)
(* once, pods of the operator, changes and faults.                         *)
(***************************************************************************)
EXTENDS Tenants, TLAPS

Query == [at : {"idle", "insert", "audit", "commit"}, body : Bodies \cup {None},
          row : Ids \cup Settings \cup {None}, value : Values \cup Statuses \cup {None}, entry : Nat]
Loop == [at : {"idle", "row", "create", "quota", "write"}, rows : SUBSET (Ids \X Slugs \X Tiers),
         row : (Ids \X Slugs \X Tiers) \cup {None}, fresh : BOOLEAN]
Tenant == [status : Statuses, slug : Slugs \cup {None}, tier : Tiers \cup {None},
           domain : Domains \cup {None}]

\* A tenant that exists has a slug and a tier.
TenantsInv == \A t \in Existing : tenant[t].slug \in Slugs /\ tenant[t].tier \in Tiers

\* In a transaction, with its row updated.
Holds(r) == request[r].at \in {"audit", "commit"}

\* What a request brings to a row is a value that the row may have.
ValueOf(r) ==
    /\ request[r].at = "insert" => request[r].body \in Bodies
    /\ Holds(r) => request[r].row \in Ids \cup Settings
    /\ Holds(r) /\ request[r].row \in Ids =>
          request[r].row \in Existing /\ request[r].value \in Statuses \ {"none"}
    /\ Holds(r) /\ request[r].row \in Settings => request[r].value \in Values

\* A row is held by one transaction.
RowsHeld == \A q, r \in Requests : Holds(q) /\ Holds(r) /\ request[q].row = request[r].row => q = r

HeldInv == RowsHeld /\ \A r \in Requests : ValueOf(r)

\* Rows of the query that name a tenant by its own slug.
Known == {w \in Ids \X Slugs \X Tiers : w[1] \in Existing /\ tenant[w[1]].slug = w[2]}

LoopInv(o) ==
    /\ operator[o].rows \subseteq Known
    /\ operator[o].at \in {"create", "quota", "write"} => operator[o].row \in Known

ClusterInv ==
    /\ \A o \in Operators : LoopInv(o)
    /\ \A s \in Slugs : namespace[s].tenant # None => namespace[s].tenant \in Existing

\* Ids of entries grow, and the entry of a transaction that will commit is newer
\* than any on its row.
EntryOf(r) ==
    /\ request[r].entry <= entries
    /\ faults = 0 /\ request[r].at = "commit" /\ request[r].row \in Settings =>
          request[r].entry > audited[request[r].row].entry

LogInv ==
    /\ \A x \in Settings : audited[x].entry <= entries
    /\ \A r \in Requests : EntryOf(r)

Inv ==
    /\ TypeOK /\ TenantsInv /\ HeldInv /\ ClusterInv /\ LogInv
    /\ SlugsApart /\ SettingsAgreeWithAudit

-----------------------------------------------------------------------------
(* Frames.                                                                 *)

\* What happened to the settings and their log, if anything, is no matter of
\* tenants and namespaces.
LEMMA ClusterFrame ==
    ASSUME Inv, UNCHANGED <<tenant, namespace, operator>>
    PROVE  TenantsInv' /\ ClusterInv' /\ SlugsApart' /\ Known' = Known /\ Existing' = Existing
<1>1. Existing' = Existing
    BY DEF Existing
<1>2. Known' = Known
    BY <1>1 DEF Known
<1>3. TenantsInv'
    BY <1>1 DEF Inv, TenantsInv
<1>4. ClusterInv'
    BY <1>1, <1>2 DEF Inv, ClusterInv, LoopInv
<1>5. SlugsApart'
    BY <1>1 DEF Inv, SlugsApart
<1> QED
    BY <1>1, <1>2, <1>3, <1>4, <1>5

\* The log is the same as long as requests and settings are; faults only grow.
LEMMA LogFrame ==
    ASSUME Inv, UNCHANGED <<setting, audited, entries, request>>, faults' = faults \/ faults' # 0
    PROVE  LogInv' /\ SettingsAgreeWithAudit' /\ RowsHeld'
<1>1. LogInv'
    BY DEF Inv, LogInv, EntryOf
<1>2. SettingsAgreeWithAudit'
    BY DEF Inv, SettingsAgreeWithAudit
<1>3. RowsHeld'
    BY DEF Inv, HeldInv, RowsHeld, Holds
<1> QED
    BY <1>1, <1>2, <1>3

\* Tenants stay, and keep their slugs.
LEMMA Growing ==
    ASSUME Inv, \A t \in Existing : tenant'[t].status # "none" /\ tenant'[t].slug = tenant[t].slug
    PROVE  Existing \subseteq Existing' /\ Known \subseteq Known'
<1>1. Existing \subseteq Existing'
    BY DEF Existing
<1> QED
    BY <1>1 DEF Known

\* A request ends, or gets another record.
LEMMA Asking ==
    ASSUME TypeOK, NEW r \in Requests, NEW q \in Query, request' = [request EXCEPT ![r] = q]
    PROVE  /\ request' \in [Requests -> Query] /\ request'[r] = q
           /\ \A p \in Requests \ {r} : request'[p] = request[p]
    BY DEF TypeOK, Query

LEMMA Ending ==
    ASSUME TypeOK, NEW r \in Requests, End(r)
    PROVE  /\ request' \in [Requests -> Query]
           /\ request'[r].at = "idle" /\ request'[r].entry = 0
           /\ \A p \in Requests \ {r} : request'[p] = request[p]
<1>1. Idle \in Query /\ Idle.at = "idle" /\ Idle.entry = 0
    BY DEF Idle, Query
<1> QED
    BY <1>1, Asking DEF End

\* Other requests, while settings and their log stay as they are.
LEMMA Others ==
    ASSUME Inv, NEW r \in Requests, TypeOK', UNCHANGED <<tenant, setting, audited, namespace, operator>>,
           \A p \in Requests \ {r} : request'[p] = request[p],
           entries <= entries', faults' = faults \/ faults' # 0,
           ValueOf(r)', EntryOf(r)',
           \A p \in Requests \ {r} : ~(Holds(p) /\ Holds(r)' /\ request[p].row = request'[r].row)
    PROVE  Inv'
<1>1. TenantsInv' /\ ClusterInv' /\ SlugsApart' /\ Existing' = Existing
    BY ClusterFrame
<1>2. SettingsAgreeWithAudit'
    BY DEF Inv, SettingsAgreeWithAudit
<1>3. \A p \in Requests \ {r} : ValueOf(p)' /\ (Holds(p)' <=> Holds(p))
    BY <1>1 DEF Inv, HeldInv, ValueOf, Holds
<1>4. RowsHeld'
    BY <1>3 DEF Inv, HeldInv, RowsHeld
<1>5. entries \in Nat /\ entries' \in Nat /\ \A p \in Requests : request[p].entry \in Nat
    BY DEF Inv, TypeOK
<1>6. \A p \in Requests \ {r} : EntryOf(p)'
  <2> SUFFICES ASSUME NEW p \in Requests \ {r} PROVE EntryOf(p)'
    OBVIOUS
  <2>1. request'[p] = request[p] /\ EntryOf(p)
    BY DEF Inv, LogInv
  <2> QED
    BY <1>5, <2>1 DEF EntryOf
<1>7. \A x \in Settings : audited'[x].entry <= entries'
  <2>1. \A x \in Settings : audited[x].entry \in Nat /\ audited[x].entry <= entries
    BY DEF Inv, LogInv, TypeOK
  <2> QED
    BY <1>5, <2>1
<1> QED
    BY <1>1, <1>2, <1>3, <1>4, <1>6, <1>7 DEF Inv, HeldInv, LogInv

-----------------------------------------------------------------------------
(* Requests.                                                               *)

\* A request begins: a creation, or a transaction on a row that nobody holds.
LEMMA BeginStep ==
    ASSUME Inv, NEW r \in Requests,
           \/ \E body \in Bodies : CheckSlug(r, body)
           \/ \E x \in Settings, v \in Values : ToggleKillSwitch(r, x, v) \/ SetConfig(r, x, v)
           \/ \E t \in Ids : SuspendTenant(r, t) \/ ReactivateTenant(r, t)
    PROVE  Inv'
<1> DEFINE Wanted(q) ==
              /\ q.entry = 0
              /\ q.at = "insert" => q.body \in Bodies
              /\ q.at # "insert" => /\ q.at = "audit" /\ ~Locked(q.row)
                                    /\ \/ q.row \in Settings /\ q.row \notin Ids /\ q.value \in Values
                                       \/ /\ q.row \in Existing /\ q.row \notin Settings
                                          /\ q.value \in Statuses \ {"none"}
<1>1. PICK q \in Query : Wanted(q) /\ request' = [request EXCEPT ![r] = q]
  <2>1. ASSUME NEW body \in Bodies, CheckSlug(r, body)
        PROVE  \E q \in Query : Wanted(q) /\ request' = [request EXCEPT ![r] = q]
    <3> DEFINE q == [Idle EXCEPT !.at = "insert", !.body = body]
    <3>1. q \in Query /\ q.entry = 0 /\ q.at = "insert" /\ q.body = body
      BY DEF Query, Idle
    <3>2. request' = [request EXCEPT ![r] = q]
      BY <2>1 DEF CheckSlug
    <3> QED
      BY <3>1, <3>2
  <2>2. ASSUME NEW row \in Ids \cup Settings, NEW value \in Values \cup Statuses, Begin(r, row, value),
               \/ row \in Settings /\ value \in Values
               \/ row \in Existing /\ value \in Statuses \ {"none"}
        PROVE  \E q \in Query : Wanted(q) /\ request' = [request EXCEPT ![r] = q]
    <3> DEFINE q == [Idle EXCEPT !.at = "audit", !.row = row, !.value = value]
    <3>1. q \in Query /\ q.entry = 0 /\ q.at = "audit" /\ q.row = row /\ q.value = value
      BY DEF Query, Idle
    <3>2. request' = [request EXCEPT ![r] = q] /\ ~Locked(row)
      BY <2>2 DEF Begin
    <3>3. row \in Settings => row \notin Ids
      BY TenantsAssumption DEF Settings
    <3>4. row \in Existing => row \in Ids
      BY DEF Existing
    <3>5. Wanted(q)
      BY <2>2, <3>1, <3>2, <3>3, <3>4
    <3> QED
      BY <3>1, <3>2, <3>5
  <2>3. ASSUME NEW x \in Settings, NEW v \in Values, ToggleKillSwitch(r, x, v) \/ SetConfig(r, x, v)
        PROVE  Begin(r, x, v)
    BY <2>3 DEF ToggleKillSwitch, SetConfig
  <2>4. ASSUME NEW t \in Ids, SuspendTenant(r, t) \/ ReactivateTenant(r, t)
        PROVE  t \in Existing /\ \E value \in Statuses \ {"none"} : Begin(r, t, value)
    <3>1. t \in Existing /\ tenant[t].status \in Statuses \ {"none"}
      BY <2>4 DEF SuspendTenant, ReactivateTenant, Existing, Inv, TypeOK
    <3> DEFINE down == IF tenant[t].status = "active" THEN "suspended" ELSE tenant[t].status
               up == IF tenant[t].status = "suspended" THEN "active" ELSE tenant[t].status
    <3>2. down \in Statuses \ {"none"} /\ up \in Statuses \ {"none"}
      BY <3>1 DEF Statuses
    <3>3. Begin(r, t, down) \/ Begin(r, t, up)
      BY <2>4 DEF SuspendTenant, ReactivateTenant
    <3> HIDE DEF down, up
    <3> QED
      BY <3>1, <3>2, <3>3
  <2> HIDE DEF Wanted
  <2> QED
    BY <2>1, <2>2, <2>3, <2>4
<1>2. /\ UNCHANGED <<tenant, setting, logVars, clusterVars, faults>> /\ changes' \in 0..MaxChanges
  <2>1. changes \in 0..MaxChanges /\ MaxChanges \in Nat
    BY TenantsAssumption DEF Inv, TypeOK
  <2> QED
    <3>1. ASSUME NEW row, NEW value, Begin(r, row, value)
          PROVE  UNCHANGED <<tenant, setting, logVars, clusterVars, faults>> /\ Change
      BY <3>1 DEF Begin
    <3>2. UNCHANGED <<tenant, setting, logVars, clusterVars, faults>> /\ Change
      BY <3>1 DEF CheckSlug, ToggleKillSwitch, SetConfig, SuspendTenant, ReactivateTenant
    <3> QED
      BY <2>1, <3>2 DEF Change
<1>3. /\ request' \in [Requests -> Query] /\ request'[r] = q
      /\ \A p \in Requests \ {r} : request'[p] = request[p]
    BY <1>1, Asking DEF Inv
<1>4. TypeOK'
    BY <1>2, <1>3 DEF Inv, TypeOK, Query, logVars, clusterVars
<1>5. Existing' = Existing
    BY <1>2 DEF Existing
<1>6. ValueOf(r)' /\ EntryOf(r)'
  <2>1. entries \in Nat
    BY DEF Inv, TypeOK
  <2> QED
    BY <1>1, <1>2, <1>3, <1>5, <2>1 DEF ValueOf, EntryOf, Holds, logVars, Existing
<1>7. \A p \in Requests \ {r} : ~(Holds(p) /\ Holds(r)' /\ request[p].row = request'[r].row)
    BY <1>1, <1>3 DEF Holds, Locked
<1>8. entries <= entries'
    BY <1>2 DEF Inv, TypeOK, logVars
<1> QED
    BY <1>2, <1>3, <1>4, <1>6, <1>7, <1>8, Others DEF logVars, clusterVars

\* The entry of a transaction gets the next id, or none; a transaction that
\* fails leaves nothing.
LEMMA AuditStep ==
    ASSUME Inv, NEW r \in Requests, WriteAudit(r) \/ Rollback(r)
    PROVE  Inv'
<1>1. TypeOK /\ faults \in Nat /\ MaxFaults \in Nat /\ ValueOf(r) /\ EntryOf(r) /\ entries \in Nat
    BY TenantsAssumption DEF Inv, TypeOK, HeldInv, LogInv
<1>2. CASE Rollback(r)
  <2>1. /\ UNCHANGED <<tenant, setting, logVars, clusterVars, changes>> /\ End(r)
        /\ faults' = faults + 1 /\ faults < MaxFaults
    BY <1>2 DEF Rollback, Fault
  <2>2. /\ request' \in [Requests -> Query]
        /\ request'[r].at = "idle" /\ request'[r].entry = 0
        /\ \A p \in Requests \ {r} : request'[p] = request[p]
    BY <1>1, <2>1, Ending
  <2>3. TypeOK'
    BY <1>1, <2>1, <2>2 DEF TypeOK, Query, logVars, clusterVars
  <2>4. ValueOf(r)' /\ EntryOf(r)' /\ ~Holds(r)'
    BY <1>1, <2>1, <2>2 DEF ValueOf, EntryOf, Holds, logVars
  <2> QED
    BY <1>1, <2>1, <2>2, <2>3, <2>4, Others DEF logVars, clusterVars
<1>3. CASE WriteAudit(r)
  <2>1. /\ UNCHANGED <<tenant, setting, audited, clusterVars, changes>> /\ request[r].at = "audit"
        /\ \/ /\ entries' = entries + 1 /\ faults' = faults
              /\ request' = [request EXCEPT ![r] =
                                [request[r] EXCEPT !.at = "commit", !.entry = entries + 1]]
           \/ /\ entries' = entries /\ faults' = faults + 1 /\ faults < MaxFaults
              /\ request' = [request EXCEPT ![r] = [request[r] EXCEPT !.at = "commit"]]
    BY <1>3 DEF WriteAudit, Fault, At
  <2>2. request[r] \in Query
    BY <1>1 DEF TypeOK, Query
  <2>3. PICK q \in Query :
          /\ request' = [request EXCEPT ![r] = q]
          /\ q.at = "commit" /\ q.row = request[r].row /\ q.value = request[r].value
          /\ \/ entries' = entries + 1 /\ faults' = faults /\ q.entry = entries + 1
             \/ entries' = entries /\ faults' = faults + 1 /\ q.entry = request[r].entry
    <3> DEFINE x == [request[r] EXCEPT !.at = "commit", !.entry = entries + 1]
               y == [request[r] EXCEPT !.at = "commit"]
    <3>1. /\ x \in Query /\ x.at = "commit" /\ x.row = request[r].row
          /\ x.value = request[r].value /\ x.entry = entries + 1
      <4> DEFINE n == entries + 1
      <4>1. n \in Nat
        BY <1>1
      <4> HIDE DEF n
      <4>2. /\ [request[r] EXCEPT !.at = "commit", !.entry = n] \in Query
            /\ [request[r] EXCEPT !.at = "commit", !.entry = n].entry = n
            /\ [request[r] EXCEPT !.at = "commit", !.entry = n].at = "commit"
            /\ [request[r] EXCEPT !.at = "commit", !.entry = n].row = request[r].row
            /\ [request[r] EXCEPT !.at = "commit", !.entry = n].value = request[r].value
        BY <2>2, <4>1 DEF Query
      <4> QED
        BY <4>2 DEF n
    <3>2. /\ y \in Query /\ y.at = "commit" /\ y.row = request[r].row
          /\ y.value = request[r].value /\ y.entry = request[r].entry
      BY <2>2 DEF Query
    <3> QED
      BY <2>1, <3>1, <3>2
  <2>4. /\ request' \in [Requests -> Query] /\ request'[r] = q
        /\ \A p \in Requests \ {r} : request'[p] = request[p]
    BY <1>1, <2>3, Asking
  <2>5. TypeOK'
    BY <1>1, <2>1, <2>3, <2>4 DEF TypeOK, Query, clusterVars
  <2>6. Existing' = Existing
    BY <2>1 DEF Existing
  <2>7. ValueOf(r)'
    BY <1>1, <2>1, <2>3, <2>4, <2>6 DEF ValueOf, Holds
  <2>8. EntryOf(r)'
    <3>1. \A x \in Settings : audited[x].entry \in Nat /\ audited[x].entry <= entries
      BY DEF Inv, TypeOK, LogInv
    <3> QED
      BY <1>1, <2>1, <2>3, <2>4, <3>1 DEF EntryOf
  <2>9. \A p \in Requests \ {r} : ~(Holds(p) /\ Holds(r)' /\ request[p].row = request'[r].row)
    BY <2>1, <2>3, <2>4 DEF Inv, HeldInv, RowsHeld, Holds
  <2>10. entries <= entries' /\ (faults' = faults \/ faults' # 0)
    BY <1>1, <2>3
  <2> QED
    BY <2>1, <2>4, <2>5, <2>7, <2>8, <2>9, <2>10, Others DEF clusterVars
<1> QED
    BY <1>2, <1>3

\* A tenant is inserted under a slug that no other has.
LEMMA InsertStep ==
    ASSUME Inv, NEW r \in Requests, InsertTenant(r)
    PROVE  Inv'
<1>1. TypeOK /\ ValueOf(r) /\ SlugsApart /\ TenantsInv
    BY DEF Inv, HeldInv
<1> DEFINE body == request[r].body
<1>2. /\ UNCHANGED <<setting, logVars, clusterVars, changes, faults>>
      /\ End(r) /\ body \in [slug : Slugs, tier : Tiers, domain : Domains]
    BY <1>1, TenantsAssumption DEF InsertTenant, At, ValueOf
<1>3. /\ request' \in [Requests -> Query]
      /\ request'[r].at = "idle" /\ request'[r].entry = 0
      /\ \A p \in Requests \ {r} : request'[p] = request[p]
    BY <1>1, <1>2, Ending
<1>4. /\ tenant' \in [Ids -> Tenant]
      /\ \A t \in Existing : tenant'[t] = tenant[t]
      /\ \A t \in Existing' \ Existing : /\ tenant'[t].slug \in Slugs /\ tenant'[t].tier \in Tiers
                                         /\ \A u \in Existing : tenant[u].slug # tenant'[t].slug
                                         /\ \A u \in Existing' \ Existing : u = t
  <2>1. CASE Unique(body)
    <3>1. NewId \in Ids /\ NewId \notin Existing
      <4>1. \E t \in Ids : t \notin Existing
        BY <2>1 DEF InsertTenant, Existing
      <4> QED
        BY <4>1 DEF NewId
    <3> DEFINE x == [status |-> "active", slug |-> body.slug, tier |-> body.tier, domain |-> body.domain]
               n == NewId
    <3>2. tenant' = [tenant EXCEPT ![n] = x]
      BY <2>1 DEF InsertTenant
    <3>3. x \in Tenant /\ x.slug \in Slugs /\ x.tier \in Tiers /\ x.slug = body.slug
      BY <1>2 DEF Tenant, Statuses
    <3> HIDE DEF x, n
    <3>4. n \in Ids /\ n \notin Existing
      BY <3>1 DEF n
    <3>5. tenant \in [Ids -> Tenant]
      BY <1>1 DEF TypeOK, Tenant
    <3>6. tenant'[n] = x /\ \A t \in Ids \ {n} : tenant'[t] = tenant[t]
      BY <3>2, <3>4, <3>5
    <3>7. Existing' \subseteq Existing \cup {n}
      BY <3>6 DEF Existing
    <3>8. \A u \in Existing : tenant[u].slug # x.slug
      BY <2>1, <3>3 DEF Unique
    <3>9. Existing \subseteq Ids
      BY DEF Existing
    <3> QED
      BY <3>2, <3>3, <3>4, <3>5, <3>6, <3>7, <3>8, <3>9
  <2>2. CASE ~Unique(body)
    <3>1. tenant' = tenant
      BY <2>2 DEF InsertTenant
    <3> QED
      BY <1>1, <3>1 DEF TypeOK, Tenant, Existing
  <2> QED
    BY <2>1, <2>2
<1>5. \A t \in Existing : tenant'[t].status # "none" /\ tenant'[t].slug = tenant[t].slug
    BY <1>4 DEF Existing
<1>6. Existing \subseteq Existing' /\ Known \subseteq Known'
    BY <1>5, Growing
<1>7. TypeOK'
    BY <1>1, <1>2, <1>3, <1>4 DEF TypeOK, Query, Tenant, logVars, clusterVars
<1>8. TenantsInv'
    BY <1>1, <1>4, <1>6 DEF TenantsInv
<1>9. HeldInv'
    BY <1>3, <1>6 DEF Inv, HeldInv, RowsHeld, ValueOf, Holds
<1>10. ClusterInv'
    BY <1>2, <1>6 DEF Inv, ClusterInv, LoopInv, clusterVars
<1>11. LogInv' /\ SettingsAgreeWithAudit'
  <2>1. entries \in Nat
    BY <1>1 DEF TypeOK
  <2> QED
    BY <1>2, <1>3, <2>1 DEF Inv, LogInv, EntryOf, SettingsAgreeWithAudit, logVars
<1>12. SlugsApart'
    BY <1>1, <1>2, <1>4, <1>6 DEF SlugsApart, Inv, ClusterInv, clusterVars
<1> QED
    BY <1>7, <1>8, <1>9, <1>10, <1>11, <1>12 DEF Inv

\* A row is updated, and neither its slug nor its existence.
LEMMA TenantWritten ==
    ASSUME Inv, NEW t \in Existing, NEW x \in Tenant, tenant' = [tenant EXCEPT ![t] = x],
           x.status # "none", x.slug = tenant[t].slug, x.tier \in Tiers,
           UNCHANGED clusterVars
    PROVE  /\ tenant' \in [Ids -> Tenant] /\ TenantsInv' /\ ClusterInv' /\ SlugsApart'
           /\ Existing' = Existing
<1>1. t \in Ids /\ tenant \in [Ids -> Tenant]
    BY DEF Existing, Inv, TypeOK, Tenant
<1>2. /\ tenant' \in [Ids -> Tenant] /\ tenant'[t] = x
      /\ \A u \in Ids \ {t} : tenant'[u] = tenant[u]
    BY <1>1
<1>3. Existing' = Existing
    BY <1>1, <1>2 DEF Existing
<1>4. \A u \in Existing : tenant'[u].slug = tenant[u].slug /\ tenant'[u].status # "none"
    BY <1>2 DEF Existing
<1>5. Known \subseteq Known'
    BY <1>4, Growing
<1>6. TenantsInv'
    BY <1>2, <1>3, <1>4 DEF Inv, TenantsInv, Existing
<1>7. ClusterInv'
    BY <1>3, <1>5 DEF Inv, ClusterInv, LoopInv, clusterVars
<1>8. SlugsApart'
    BY <1>3, <1>4 DEF Inv, SlugsApart, ClusterInv, clusterVars
<1> QED
    BY <1>2, <1>3, <1>6, <1>7, <1>8

\* An update outside a transaction.
LEMMA StatementStep ==
    ASSUME Inv, NEW t \in Ids, Statement(t)
    PROVE  Inv'
<1>1. TypeOK /\ changes \in 0..MaxChanges /\ MaxChanges \in Nat
    BY TenantsAssumption DEF Inv, TypeOK
<1>2. t \in Existing => tenant[t] \in Tenant /\ tenant[t].status # "none" /\ tenant[t].tier \in Tiers
    BY <1>1 DEF Existing, TypeOK, Tenant, Inv, TenantsInv
<1>3. PICK x \in Tenant :
        Update(t, x) /\ x.status # "none" /\ x.slug = tenant[t].slug /\ x.tier \in Tiers
  <2>1. t \in Existing
    BY DEF Statement, HandleSuspend, HandleDelete, HandleUpdateConfig, ChangeTier, Update
  <2>2. CASE HandleSuspend(t)
    <3> DEFINE x == [tenant[t] EXCEPT !.status = "suspended"]
    <3>1. x \in Tenant /\ x.status # "none" /\ x.slug = tenant[t].slug /\ x.tier \in Tiers
      BY <1>2, <2>1 DEF Tenant, Statuses
    <3> QED
      BY <2>2, <3>1 DEF HandleSuspend
  <2>3. CASE HandleDelete(t)
    <3> DEFINE x == [tenant[t] EXCEPT !.status = "deleted"]
    <3>1. x \in Tenant /\ x.status # "none" /\ x.slug = tenant[t].slug /\ x.tier \in Tiers
      BY <1>2, <2>1 DEF Tenant, Statuses
    <3> QED
      BY <2>3, <3>1 DEF HandleDelete
  <2>4. ASSUME NEW d \in Domains, HandleUpdateConfig(t, d)
        PROVE  \E x \in Tenant :
                 Update(t, x) /\ x.status # "none" /\ x.slug = tenant[t].slug /\ x.tier \in Tiers
    <3> DEFINE x == [tenant[t] EXCEPT !.domain = d]
    <3>1. x \in Tenant /\ x.status # "none" /\ x.slug = tenant[t].slug /\ x.tier \in Tiers
      BY <1>2, <2>1 DEF Tenant
    <3> QED
      BY <2>4, <3>1 DEF HandleUpdateConfig
  <2>5. ASSUME NEW y \in Tiers, ChangeTier(t, y)
        PROVE  \E x \in Tenant :
                 Update(t, x) /\ x.status # "none" /\ x.slug = tenant[t].slug /\ x.tier \in Tiers
    <3> DEFINE x == [tenant[t] EXCEPT !.tier = y]
    <3>1. x \in Tenant /\ x.status # "none" /\ x.slug = tenant[t].slug /\ x.tier \in Tiers
      BY <1>2, <2>1 DEF Tenant
    <3> QED
      BY <2>5, <3>1 DEF ChangeTier
  <2> QED
    BY <2>2, <2>3, <2>4, <2>5 DEF Statement
<1>4. /\ t \in Existing /\ tenant' = [tenant EXCEPT ![t] = x]
      /\ UNCHANGED <<controlVars, clusterVars, faults>> /\ changes' \in 0..MaxChanges
    BY <1>1, <1>3 DEF Update, Change
<1>5. /\ tenant' \in [Ids -> Tenant] /\ TenantsInv' /\ ClusterInv' /\ SlugsApart'
      /\ Existing' = Existing
    BY <1>3, <1>4, TenantWritten
<1>6. TypeOK'
    BY <1>1, <1>4, <1>5 DEF TypeOK, Tenant, controlVars, logVars, clusterVars
<1>7. LogInv' /\ SettingsAgreeWithAudit' /\ RowsHeld'
    BY <1>4, LogFrame DEF controlVars, logVars
<1>8. \A r \in Requests : ValueOf(r)'
    BY <1>4, <1>5 DEF Inv, HeldInv, ValueOf, Holds, controlVars
<1> QED
    BY <1>5, <1>6, <1>7, <1>8 DEF Inv, HeldInv

\* A transaction commits: its entry is newer than any on the setting, and nobody
\* else has held the row.
LEMMA CommitStep ==
    ASSUME Inv, NEW r \in Requests, CommitSetting(r) \/ CommitTenant(r)
    PROVE  Inv'
<1>1. TypeOK /\ ValueOf(r) /\ EntryOf(r) /\ entries \in Nat
    BY DEF Inv, HeldInv, LogInv, TypeOK
<1>2. End(r) /\ request[r].at = "commit" /\ UNCHANGED <<entries, clusterVars, changes, faults>>
    BY DEF CommitSetting, CommitTenant, At, logVars
<1>3. /\ request' \in [Requests -> Query]
      /\ request'[r].at = "idle" /\ request'[r].entry = 0
      /\ \A p \in Requests \ {r} : request'[p] = request[p]
    BY <1>1, <1>2, Ending
<1>4. RowsHeld'
    BY <1>3 DEF Inv, HeldInv, RowsHeld, Holds
<1>5. CASE CommitTenant(r)
  <2> DEFINE t == request[r].row
             x == [tenant[t] EXCEPT !.status = request[r].value]
  <2>1. t \in Existing /\ request[r].value \in Statuses \ {"none"} /\ UNCHANGED <<setting, audited>>
    BY <1>1, <1>2, <1>5 DEF CommitTenant, ValueOf, Holds, logVars
  <2>2. tenant[t] \in Tenant /\ tenant[t].tier \in Tiers
    BY <1>1, <2>1 DEF TypeOK, Tenant, Existing, Inv, TenantsInv
  <2>3. x \in Tenant /\ x.status # "none" /\ x.slug = tenant[t].slug /\ x.tier \in Tiers
    BY <2>1, <2>2 DEF Tenant
  <2>4. tenant' = [tenant EXCEPT ![t] = x]
    BY <1>5 DEF CommitTenant
  <2> HIDE DEF x
  <2>5. /\ tenant' \in [Ids -> Tenant] /\ TenantsInv' /\ ClusterInv' /\ SlugsApart'
        /\ Existing' = Existing
    BY <1>2, <2>1, <2>3, <2>4, TenantWritten
  <2>6. TypeOK'
    BY <1>1, <1>2, <1>3, <2>1, <2>5 DEF TypeOK, Tenant, Query, clusterVars
  <2>7. HeldInv'
    BY <1>3, <1>4, <2>5 DEF Inv, HeldInv, ValueOf, Holds
  <2>8. LogInv' /\ SettingsAgreeWithAudit'
    BY <1>1, <1>2, <1>3, <2>1 DEF Inv, LogInv, EntryOf, SettingsAgreeWithAudit
  <2> QED
    BY <2>5, <2>6, <2>7, <2>8 DEF Inv
<1>6. CASE CommitSetting(r)
  <2> DEFINE x == request[r].row
  <2>1. /\ x \in Settings /\ request[r].value \in Values /\ tenant' = tenant
        /\ setting' = [setting EXCEPT ![x] = request[r].value]
        /\ audited' = [audited EXCEPT ![x] = Later(audited[x], request[r].entry, request[r].value)]
    BY <1>1, <1>2, <1>6 DEF CommitSetting, ValueOf, Holds
  <2>2. TenantsInv' /\ ClusterInv' /\ SlugsApart' /\ Existing' = Existing
    BY <1>2, <2>1, ClusterFrame DEF clusterVars
  <2> DEFINE Entry == [entry : Nat, value : Values \cup {None}]
             new == Later(audited[x], request[r].entry, request[r].value)
  <2>3. audited \in [Settings -> Entry] /\ request[r].entry \in Nat
    BY <1>1 DEF TypeOK
  <2>4. /\ new \in Entry /\ new.entry <= entries
        /\ faults = 0 => new.entry = request[r].entry /\ new.value = request[r].value
    <3>1. audited[x] \in Entry /\ audited[x].entry <= entries /\ request[r].entry <= entries
      BY <1>1, <2>1, <2>3 DEF Inv, LogInv, EntryOf
    <3>2. faults = 0 => request[r].entry > audited[x].entry
      BY <1>1, <1>2, <2>1 DEF EntryOf
    <3> QED
      BY <2>1, <2>3, <3>1, <3>2 DEF Later
  <2> HIDE DEF new
  <2>5. /\ audited' \in [Settings -> Entry] /\ audited'[x] = new
        /\ \A y \in Settings \ {x} : audited'[y] = audited[y] /\ setting'[y] = setting[y]
        /\ setting'[x] = request[r].value /\ setting' \in [Settings -> Values \cup {None}]
    BY <1>1, <2>1, <2>3, <2>4 DEF TypeOK, new
  <2>6. TypeOK'
    BY <1>1, <1>2, <1>3, <2>1, <2>5 DEF TypeOK, Query, clusterVars
  <2>7. HeldInv'
    BY <1>3, <1>4, <2>2 DEF Inv, HeldInv, ValueOf, Holds
  <2>8. SettingsAgreeWithAudit'
    BY <1>2, <2>4, <2>5 DEF Inv, SettingsAgreeWithAudit
  <2>9. \A p \in Requests : Holds(p)' => request'[p].row # x
    BY <1>2, <1>3 DEF Inv, HeldInv, RowsHeld, Holds
  <2>10. LogInv'
    <3>1. \A y \in Settings : audited'[y].entry <= entries
      BY <2>4, <2>5 DEF Inv, LogInv
    <3>2. ASSUME NEW p \in Requests PROVE EntryOf(p)'
      <4>1. CASE p = r
        BY <1>1, <1>2, <1>3, <4>1 DEF EntryOf
      <4>2. CASE p # r
        BY <1>2, <1>3, <2>5, <2>9, <4>2 DEF Inv, LogInv, EntryOf, Holds
      <4> QED
        BY <4>1, <4>2
    <3> QED
      BY <1>2, <3>1, <3>2 DEF LogInv
  <2> QED
    BY <2>2, <2>6, <2>7, <2>8, <2>10 DEF Inv
<1> QED
    BY <1>5, <1>6

-----------------------------------------------------------------------------
(* The operator.                                                           *)

\* A pass leaves the control plane alone.
LEMMA PassFrame ==
    ASSUME Inv, UNCHANGED <<tenant, controlVars, changes>>, faults' = faults \/ faults' # 0,
           TypeOK', ClusterInv',
           \A s \in Slugs : namespace'[s].tenant # None => tenant[namespace'[s].tenant].slug = s
    PROVE  Inv'
<1>1. Existing' = Existing
    BY DEF Existing
<1>2. LogInv' /\ SettingsAgreeWithAudit' /\ RowsHeld'
    BY LogFrame DEF controlVars, logVars
<1>3. \A r \in Requests : ValueOf(r)'
    BY <1>1 DEF Inv, HeldInv, ValueOf, Holds, controlVars
<1>4. TenantsInv' /\ SlugsApart'
    BY <1>1 DEF Inv, TenantsInv, SlugsApart
<1> QED
    BY <1>2, <1>3, <1>4 DEF Inv, HeldInv

\* One loop moves, and works on rows it has read.
LEMMA LoopMoves ==
    ASSUME Inv, NEW o \in Operators, NEW x \in Loop, operator' = [operator EXCEPT ![o] = x],
           x.rows \subseteq Known, x.at \in {"create", "quota", "write"} => x.row \in Known,
           UNCHANGED <<tenant, controlVars, changes>>, faults' \in 0..MaxFaults,
           faults' = faults \/ faults' # 0,
           namespace' \in [Slugs -> [tenant : Ids \cup {None}, tier : Tiers \cup {None}]],
           quota' \in [Slugs -> QuotaTiers \cup {None}],
           \A s \in Slugs : namespace'[s].tenant # None =>
              namespace'[s].tenant \in Existing /\ tenant[namespace'[s].tenant].slug = s
    PROVE  Inv'
<1>1. /\ operator' \in [Operators -> Loop] /\ operator'[o] = x
      /\ \A p \in Operators \ {o} : operator'[p] = operator[p]
    BY DEF Inv, TypeOK, Loop
<1>2. Existing' = Existing /\ Known' = Known
    BY DEF Existing, Known
<1>3. TypeOK'
    BY <1>1 DEF Inv, TypeOK, Loop, controlVars, logVars
<1>4. ClusterInv'
    BY <1>1, <1>2 DEF Inv, ClusterInv, LoopInv
<1> QED
    BY <1>3, <1>4, PassFrame

\* Nothing in the cluster has changed.
LEMMA ClusterStays ==
    ASSUME Inv, UNCHANGED <<namespace, quota>>
    PROVE  /\ namespace' \in [Slugs -> [tenant : Ids \cup {None}, tier : Tiers \cup {None}]]
           /\ quota' \in [Slugs -> QuotaTiers \cup {None}]
           /\ \A s \in Slugs : namespace'[s].tenant # None =>
                 namespace'[s].tenant \in Existing /\ tenant[namespace'[s].tenant].slug = s
    BY DEF Inv, TypeOK, ClusterInv, SlugsApart

\* Where a loop goes when it is done with a row, or breaks off.
LEMMA Onward ==
    ASSUME Inv, NEW o \in Operators
    PROVE  /\ AtRest \in Loop /\ AtRest.rows \subseteq Known /\ AtRest.at = "idle"
           /\ After(o) \in Loop /\ After(o).rows \subseteq Known /\ After(o).at \in {"idle", "row"}
<1>1. operator[o] \in Loop /\ operator[o].rows \subseteq Known
    BY DEF Inv, TypeOK, Loop, ClusterInv, LoopInv
<1>2. AtRest \in Loop /\ AtRest.rows = {} /\ AtRest.at = "idle"
    BY DEF AtRest, Loop
<1> DEFINE x == [operator[o] EXCEPT !.at = "row", !.row = None, !.fresh = FALSE]
<1>3. x \in Loop /\ x.rows = operator[o].rows /\ x.at = "row"
    BY <1>1 DEF Loop
<1>4. After(o) = AtRest \/ After(o) = x
    BY DEF After
<1> QED
    BY <1>1, <1>2, <1>3, <1>4

\* A pass reads rows of the table, and works through them.
LEMMA ReadStep ==
    ASSUME Inv, NEW o \in Operators,
           Reconcile(o) \/ GetNamespace(o) \/ GetQuota(o) \/ CallFails(o) \/ PassBreaks(o)
    PROVE  Inv'
<1>1. /\ operator[o] \in Loop /\ LoopInv(o) /\ faults \in 0..MaxFaults /\ MaxFaults \in Nat
      /\ operator \in [Operators -> Loop]
    BY TenantsAssumption DEF Inv, TypeOK, Loop, ClusterInv
<1>2. UNCHANGED <<tenant, controlVars, namespace, quota, changes>>
    BY DEF Reconcile, GetNamespace, GetQuota, CallFails, PassBreaks
<1>3. faults' \in 0..MaxFaults /\ (faults' = faults \/ faults' # 0)
  <2>1. faults' = faults \/ (faults' = faults + 1 /\ faults < MaxFaults)
    BY DEF Reconcile, GetNamespace, GetQuota, CallFails, PassBreaks, Fault
  <2> QED
    BY <1>1, <2>1
<1>4. PICK x \in Loop :
        /\ operator' = [operator EXCEPT ![o] = x]
        /\ x.rows \subseteq Known
        /\ x.at \in {"create", "quota", "write"} => x.row \in Known
  <2>1. CASE Reconcile(o)
    <3> DEFINE S == {<<t, tenant[t].slug, tenant[t].tier>> : t \in Active}
               x == [operator[o] EXCEPT !.at = IF Active = {} THEN "idle" ELSE "row", !.rows = S]
    <3>1. S \subseteq Known
      BY DEF Active, Known, Existing, Inv, TenantsInv
    <3>2. S \subseteq Ids \X Slugs \X Tiers
      BY <3>1 DEF Known
    <3> HIDE DEF S
    <3>3. x \in Loop /\ x.rows = S /\ x.at \in {"idle", "row"}
      BY <1>1, <3>2 DEF Loop
    <3>4. operator' = [operator EXCEPT ![o] = x]
      BY <2>1 DEF Reconcile, S
    <3> QED
      BY <3>1, <3>3, <3>4
  <2>2. CASE GetNamespace(o)
    <3>1. PICK w \in operator[o].rows :
            operator' = [operator EXCEPT
              ![o].at = IF namespace[w[2]].tenant = None THEN "create" ELSE "write",
              ![o].rows = @ \ {w}, ![o].row = w, ![o].fresh = namespace[w[2]].tenant # None]
      BY <2>2 DEF GetNamespace
    <3> DEFINE there == namespace[w[2]].tenant # None
               x == [operator[o] EXCEPT !.at = IF namespace[w[2]].tenant = None THEN "create" ELSE "write",
                                        !.rows = @ \ {w}, !.row = w, !.fresh = there]
    <3>2. w \in Known /\ w \in Ids \X Slugs \X Tiers
      BY <1>1 DEF LoopInv, Known
    <3>3. there \in BOOLEAN
      OBVIOUS
    <3>4. operator' = [operator EXCEPT ![o] = x]
      BY <3>1
    <3> HIDE DEF there
    <3>5. x \in Loop /\ x.rows = operator[o].rows \ {w} /\ x.row = w
      BY <1>1, <3>2, <3>3 DEF Loop
    <3> QED
      BY <1>1, <3>2, <3>4, <3>5 DEF LoopInv
  <2>3. CASE GetQuota(o)
    <3> DEFINE x == [operator[o] EXCEPT !.at = "write", !.fresh = TRUE]
    <3>1. operator' = [operator EXCEPT ![o] = x] /\ operator[o].at = "quota"
      BY <2>3 DEF GetQuota, OperatorAt
    <3>2. x \in Loop /\ x.rows = operator[o].rows /\ x.row = operator[o].row
      BY <1>1 DEF Loop
    <3> QED
      BY <1>1, <3>1, <3>2 DEF LoopInv
  <2>4. CASE CallFails(o)
    BY <2>4, Onward DEF CallFails, NextRow
  <2>5. CASE PassBreaks(o)
    BY <2>5, Onward DEF PassBreaks
  <2> QED
    BY <2>1, <2>2, <2>3, <2>4, <2>5
<1> QED
    BY <1>2, <1>3, <1>4, ClusterStays, LoopMoves

\* A namespace is created for the tenant whose slug it bears.
LEMMA CreateStep ==
    ASSUME Inv, NEW o \in Operators, CreateNamespace(o)
    PROVE  Inv'
<1>1. /\ operator[o] \in Loop /\ LoopInv(o) /\ faults \in 0..MaxFaults
      /\ operator \in [Operators -> Loop]
    BY DEF Inv, TypeOK, Loop, ClusterInv
<1>2. UNCHANGED <<tenant, controlVars, quota, changes, faults>> /\ operator[o].at = "create"
    BY DEF CreateNamespace, OperatorAt
<1> DEFINE w == operator[o].row
<1>3. w \in Ids \X Slugs \X Tiers /\ w[1] \in Existing /\ tenant[w[1]].slug = w[2]
    BY <1>1, <1>2 DEF LoopInv, Known
<1>4. CASE namespace[w[2]].tenant = None
  <2> DEFINE x == [operator[o] EXCEPT !.at = "quota"]
  <2>1. /\ namespace' = [namespace EXCEPT ![w[2]] = [tenant |-> w[1], tier |-> w[3]]]
        /\ operator' = [operator EXCEPT ![o] = x]
    BY <1>4 DEF CreateNamespace, RowSlug, RowTier, Row, Turn
  <2>2. x \in Loop /\ x.rows = operator[o].rows /\ x.row = w
    BY <1>1 DEF Loop
  <2>3. w[1] \in Ids /\ w[2] \in Slugs /\ w[3] \in Tiers
    BY <1>3
  <2>4. /\ namespace' \in [Slugs -> [tenant : Ids \cup {None}, tier : Tiers \cup {None}]]
        /\ \A s \in Slugs : namespace'[s].tenant # None =>
              namespace'[s].tenant \in Existing /\ tenant[namespace'[s].tenant].slug = s
    BY <1>3, <2>1, <2>3 DEF Inv, TypeOK, ClusterInv, SlugsApart
  <2>5. quota' \in [Slugs -> QuotaTiers \cup {None}]
    BY <1>2 DEF Inv, TypeOK
  <2> HIDE DEF x
  <2>6. x.rows \subseteq Known /\ (x.at \in {"create", "quota", "write"} => x.row \in Known)
    BY <1>1, <1>2, <2>2 DEF LoopInv
  <2> QED
    BY <1>1, <1>2, <2>1, <2>2, <2>4, <2>5, <2>6, LoopMoves
<1>5. CASE namespace[w[2]].tenant # None
  <2>1. operator' = [operator EXCEPT ![o] = After(o)] /\ namespace' = namespace
    BY <1>5 DEF CreateNamespace, RowSlug, NextRow
  <2> QED
    BY <1>1, <1>2, <2>1, Onward, ClusterStays, LoopMoves
<1> QED
    BY <1>4, <1>5

\* The quota is written, and the loop goes on; another that has read it is
\* refused.
LEMMA QuotaStep ==
    ASSUME Inv, NEW o \in Operators, WriteQuota(o)
    PROVE  Inv'
<1>1. /\ operator[o] \in Loop /\ LoopInv(o) /\ faults \in 0..MaxFaults
      /\ operator \in [Operators -> Loop]
    BY DEF Inv, TypeOK, Loop, ClusterInv
<1>2. UNCHANGED <<tenant, controlVars, namespace, changes, faults>> /\ operator[o].at = "write"
    BY DEF WriteQuota, OperatorAt
<1>3. CASE ~operator[o].fresh
  <2>1. operator' = [operator EXCEPT ![o] = After(o)] /\ quota' = quota
    BY <1>3 DEF WriteQuota, NextRow
  <2> QED
    BY <1>1, <1>2, <2>1, Onward, ClusterStays, LoopMoves
<1>4. CASE operator[o].fresh
  <2> DEFINE new(p) == IF p = o THEN After(o)
                       ELSE IF OperatorAt(p, "write") /\ RowSlug(p) = RowSlug(o)
                       THEN [operator[p] EXCEPT !.fresh = FALSE] ELSE operator[p]
  <2>1. /\ quota' = [quota EXCEPT ![RowSlug(o)] = QuotaOf(RowTier(o))]
        /\ operator' = [p \in Operators |-> new(p)]
    BY <1>4 DEF WriteQuota
  <2>2. \A p \in Operators :
          /\ new(p) \in Loop
          /\ new(p).rows \subseteq Known
          /\ new(p).at \in {"create", "quota", "write"} => new(p).row \in Known
    <3> SUFFICES ASSUME NEW p \in Operators
                 PROVE  /\ new(p) \in Loop
                        /\ new(p).rows \subseteq Known
                        /\ new(p).at \in {"create", "quota", "write"} => new(p).row \in Known
      OBVIOUS
    <3>1. operator[p] \in Loop /\ LoopInv(p)
      BY <1>1 DEF Inv, ClusterInv
    <3> DEFINE x == [operator[p] EXCEPT !.fresh = FALSE]
    <3>2. x \in Loop /\ x.rows = operator[p].rows /\ x.at = operator[p].at /\ x.row = operator[p].row
      BY <3>1 DEF Loop
    <3>3. new(p) = After(o) \/ new(p) = x \/ new(p) = operator[p]
      OBVIOUS
    <3> HIDE DEF x, new
    <3> QED
      BY <3>1, <3>2, <3>3, Onward DEF LoopInv
  <2> HIDE DEF new
  <2>3. operator' \in [Operators -> Loop] /\ \A p \in Operators : operator'[p] = new(p)
    BY <2>1, <2>2
  <2>4. quota' \in [Slugs -> QuotaTiers \cup {None}]
    BY <2>1, TenantsAssumption DEF Inv, TypeOK, QuotaOf
  <2>5. Known' = Known /\ Existing' = Existing
    BY <1>2 DEF Known, Existing
  <2>6. TypeOK'
    BY <1>2, <2>3, <2>4 DEF Inv, TypeOK, Loop, controlVars, logVars
  <2>7. ClusterInv'
    BY <1>2, <2>2, <2>3, <2>5 DEF Inv, ClusterInv, LoopInv
  <2>8. \A s \in Slugs : namespace'[s].tenant # None => tenant[namespace'[s].tenant].slug = s
    BY <1>2 DEF Inv, SlugsApart
  <2> QED
    BY <1>2, <2>6, <2>7, <2>8, PassFrame
<1> QED
    BY <1>3, <1>4

-----------------------------------------------------------------------------
(* The theorems.                                                           *)

LEMMA InvStep == Inv /\ [Next]_vars => Inv'
<1> SUFFICES ASSUME Inv, [Next]_vars PROVE Inv'
    OBVIOUS
<1>1. ASSUME NEW r \in Requests, Control(r) PROVE Inv'
    BY <1>1, BeginStep, AuditStep, InsertStep, CommitStep DEF Control
<1>2. ASSUME NEW t \in Ids, Statement(t) PROVE Inv'
    BY <1>2, StatementStep
<1>3. ASSUME NEW o \in Operators, Pass(o) \/ CallFails(o) \/ PassBreaks(o) PROVE Inv'
    BY <1>3, ReadStep, CreateStep, QuotaStep DEF Pass
<1>4. CASE UNCHANGED vars
  <2>1. TypeOK' /\ TenantsInv' /\ ClusterInv' /\ SlugsApart' /\ Existing' = Existing
    BY <1>4, ClusterFrame DEF vars, logVars, Inv, TypeOK
  <2>2. LogInv' /\ SettingsAgreeWithAudit' /\ RowsHeld'
    BY <1>4, LogFrame DEF vars, logVars
  <2>3. \A r \in Requests : ValueOf(r)'
    BY <1>4, <2>1 DEF vars, Inv, HeldInv, ValueOf, Holds
  <2> QED
    BY <2>1, <2>2, <2>3 DEF Inv, HeldInv
<1> QED
    BY <1>1, <1>2, <1>3, <1>4 DEF Next

LEMMA Invariance == Spec => []Inv
<1>1. Init => Inv
  <2> SUFFICES ASSUME Init PROVE Inv
    OBVIOUS
  <2>1. Existing = {}
    BY DEF Init, Existing, NoTenant
  <2>2. TypeOK
    BY TenantsAssumption
       DEF Init, TypeOK, NoTenant, Idle, AtRest, Statuses, Settings
  <2>3. TenantsInv /\ HeldInv /\ ClusterInv /\ SlugsApart
    BY <2>1 DEF Init, TenantsInv, HeldInv, RowsHeld, ValueOf, Holds, ClusterInv, LoopInv, SlugsApart,
                Idle, AtRest
  <2>4. LogInv /\ SettingsAgreeWithAudit
    BY DEF Init, LogInv, EntryOf, SettingsAgreeWithAudit, Idle
  <2> QED
    BY <2>2, <2>3, <2>4 DEF Inv
<1> QED
    BY <1>1, InvStep, PTL DEF Spec

\* Tenants, settings, requests and the operator keep their types.
THEOREM TypeCorrect == Spec => []TypeOK
<1>1. Inv => TypeOK
    BY DEF Inv
<1> QED
    BY <1>1, Invariance, PTL

\* No tenant comes by the slug or the namespace of another, whatever is created,
\* deleted and reconciled at once.
THEOREM SlugsStayApart == Spec => []SlugsApart
<1>1. Inv => SlugsApart
    BY DEF Inv
<1> QED
    BY <1>1, Invariance, PTL

\* The audit log and the settings agree as long as no entry is lost, for any
\* number of transactions at once.
THEOREM AuditTellsSettings == Spec => []SettingsAgreeWithAudit
<1>1. Inv => SettingsAgreeWithAudit
    BY DEF Inv
<1> QED
    BY <1>1, Invariance, PTL

=============================================================================
