------------------------------- MODULE Tenants -------------------------------
(***************************************************************************)
(* The life of a tenant: the control plane creates, suspends, reactivates  *)
(* and deletes rows of the table tenants, billing changes their tier, and  *)
(* the tenant operator gives every active one a namespace with a quota.    *)
(* Beside it, the settings the control plane changes in transactions that  *)
(* write the audit log.                                                    *)
(*                                                                         *)
(*   src/services/control-plane/cmd/server/main.go           handlers      *)
(*   src/services/control-plane/internal/postgres/client.go  transactions  *)
(*   src/services/tenant-operator/cmd/server/main.go         reconcile     *)
(*   src/services/tenant-operator/internal/onboarding/onboarding.go        *)
(*                                                                         *)
(* The control plane writes the tier under the name the column had before  *)
(* migration 023, the operator reads it under the later one: the model has *)
(* one column. Entries of tenant_audit_log, which nothing reads and whose  *)
(* errors are ignored, are left out. A transaction holds the row it has    *)
(* updated until it ends; other writers of that row wait.                  *)
(***************************************************************************)
EXTENDS Integers, FiniteSets

CONSTANTS Ids,        \* ids of tenants
          Slugs, Domains,
          Bodies,     \* of requests to create a tenant
          Tiers,      \* values the column tier may have
          QuotaTiers, \* tiers that have a quota of their own: tierQuota
          Basic,      \* the tier whose quota stands in for the others
          Switches,   \* kill_switches
          Keys,       \* system_config
          Values,     \* of a switch (off and on) or a key
          Off,        \* the value a switch has at first
          Requests,   \* bound: requests to the control plane at once
          Operators,  \* pods of the operator
          MaxChanges, \* bound: changes asked for
          MaxFaults,
          None

ASSUME TenantsAssumption ==
  /\ Basic \in QuotaTiers
  /\ Off \in Values
  /\ Bodies \subseteq [slug : Slugs, tier : Tiers, domain : Domains]
  /\ {MaxChanges, MaxFaults} \subseteq Nat
  /\ Ids \cap (Switches \cup Keys) = {}
  /\ None \notin Ids \cup Slugs \cup Tiers \cup Values

Settings == Switches \cup Keys

VARIABLES
  tenant,    \* table tenants
  setting,   \* tables kill_switches and system_config
  audited,   \* audit_log: the entry with the highest id on a setting
  entries,   \* audit_log: the ids given so far
  request,   \* requests to the control plane
  namespace, \* Kubernetes: labels of the namespace tenant-<slug>
  quota,     \* Kubernetes: tier whose limits tenant-quota has in it
  operator,  \* the reconcile loops
  changes, faults

vars == <<tenant, setting, audited, entries, request, namespace, quota, operator, changes, faults>>
logVars == <<audited, entries>>
controlVars == <<setting, logVars, request>>
clusterVars == <<namespace, quota, operator>>

Statuses == {"none", "active", "suspended", "deleted"}
NoTenant == [status |-> "none", slug |-> None, tier |-> None, domain |-> None]
Idle == [at |-> "idle", body |-> None, row |-> None, value |-> None, entry |-> 0]

\* Rows of the query a pass still has to do, the row it is at, and whether the
\* quota it has read is still the one in the cluster.
AtRest == [at |-> "idle", rows |-> {}, row |-> None, fresh |-> FALSE]

Existing == {t \in Ids : tenant[t].status # "none"}

TypeOK ==
  /\ tenant \in [Ids -> [status : Statuses, slug : Slugs \cup {None},
                         tier : Tiers \cup {None}, domain : Domains \cup {None}]]
  /\ setting \in [Settings -> Values \cup {None}]
  /\ audited \in [Settings -> [entry : Nat, value : Values \cup {None}]]
  /\ entries \in Nat
  /\ request \in [Requests -> [at : {"idle", "insert", "audit", "commit"}, body : Bodies \cup {None},
                               row : Ids \cup Settings \cup {None},
                               value : Values \cup Statuses \cup {None}, entry : Nat]]
  /\ namespace \in [Slugs -> [tenant : Ids \cup {None}, tier : Tiers \cup {None}]]
  /\ quota \in [Slugs -> QuotaTiers \cup {None}]
  /\ operator \in [Operators -> [at : {"idle", "row", "create", "quota", "write"},
                                 rows : SUBSET (Ids \X Slugs \X Tiers),
                                 row : (Ids \X Slugs \X Tiers) \cup {None}, fresh : BOOLEAN]]
  /\ changes \in 0..MaxChanges
  /\ faults \in 0..MaxFaults

Init ==
  /\ tenant = [t \in Ids |-> NoTenant]
  /\ setting = [x \in Settings |-> IF x \in Switches THEN Off ELSE None]
  /\ audited = [x \in Settings |-> [entry |-> 0, value |-> None]]
  /\ entries = 0
  /\ request = [r \in Requests |-> Idle]
  /\ namespace = [s \in Slugs |-> [tenant |-> None, tier |-> None]]
  /\ quota = [s \in Slugs |-> None]
  /\ operator = [o \in Operators |-> AtRest]
  /\ changes = 0
  /\ faults = 0

Fault == faults < MaxFaults /\ faults' = faults + 1
Change == changes < MaxChanges /\ changes' = changes + 1

-----------------------------------------------------------------------------
(* Tenants *)

At(r, place) == request[r].at = place
End(r) == request' = [request EXCEPT ![r] = Idle]

\* Mutant of Locked: the row is not held beyond the statement.
NeverLocked(row) == FALSE

\* A transaction has updated this row and not ended.
Locked(row) == \E r \in Requests : request[r].at \in {"audit", "commit"} /\ request[r].row = row

\* POST tenants: is there a tenant of this slug?
CheckSlug(r, body) ==
  /\ At(r, "idle")
  /\ \A t \in Existing : tenant[t].slug # body.slug
  /\ Change
  /\ request' = [request EXCEPT ![r] = [Idle EXCEPT !.at = "insert", !.body = body]]
  /\ UNCHANGED <<tenant, setting, logVars, clusterVars, faults>>

\* Mutant of Unique: the slug is checked by the handler only.
UniqueDomain(body) == \A t \in Existing : tenant[t].domain # body.domain

\* UNIQUE (slug), and the unique index on custom_domain, for which a request
\* that names none has the empty string, a value as any other.
Unique(body) ==
  \A t \in Existing : tenant[t].slug # body.slug /\ tenant[t].domain # body.domain

\* gen_random_uuid: any id no tenant has.
NewId == CHOOSE t \in Ids : t \notin Existing

InsertTenant(r) ==
  /\ At(r, "insert")
  /\ LET body == request[r].body
     IN IF Unique(body)
        THEN /\ Existing # Ids
             /\ tenant' = [tenant EXCEPT ![NewId] =
                  [status |-> "active", slug |-> body.slug, tier |-> body.tier, domain |-> body.domain]]
        ELSE UNCHANGED tenant
  /\ End(r)
  /\ UNCHANGED <<setting, logVars, clusterVars, changes, faults>>

\* An UPDATE of one row outside a transaction.
Update(t, row) ==
  /\ t \in Existing /\ ~Locked(t)
  /\ Change
  /\ tenant' = [tenant EXCEPT ![t] = row]
  /\ UNCHANGED <<controlVars, clusterVars, faults>>

\* PUT suspend and DELETE, whatever status the tenant has.
HandleSuspend(t) == Update(t, [tenant[t] EXCEPT !.status = "suspended"])
HandleDelete(t) == Update(t, [tenant[t] EXCEPT !.status = "deleted"])

\* PUT config: branding and limits are left out.
HandleUpdateConfig(t, domain) ==
  /\ \A u \in Existing \ {t} : tenant[u].domain # domain
  /\ Update(t, [tenant[t] EXCEPT !.domain = domain])

\* The trigger on subscriptions of billing.
ChangeTier(t, tier) == tenant[t].tier # tier /\ Update(t, [tenant[t] EXCEPT !.tier = tier])

-----------------------------------------------------------------------------
(* Transactions with an entry in the audit log *)

\* BEGIN and UPDATE: the row is held from here.
Begin(r, row, value) ==
  /\ At(r, "idle")
  /\ ~Locked(row)
  /\ Change
  /\ request' = [request EXCEPT ![r] = [Idle EXCEPT !.at = "audit", !.row = row, !.value = value]]
  /\ UNCHANGED <<tenant, setting, logVars, clusterVars, faults>>

\* ToggleKillSwitch: a switch that no row has is not found. SetConfig: the row
\* is inserted or updated.
ToggleKillSwitch(r, name, value) == name \in Switches /\ Begin(r, name, value)
SetConfig(r, key, value) == key \in Keys /\ Begin(r, key, value)

\* SuspendTenant and ReactivateTenant: WHERE finds the row or does not, and the
\* audit is written all the same.
SuspendTenant(r, t) ==
  /\ t \in Existing
  /\ Begin(r, t, IF tenant[t].status = "active" THEN "suspended" ELSE tenant[t].status)
ReactivateTenant(r, t) ==
  /\ t \in Existing
  /\ Begin(r, t, IF tenant[t].status = "suspended" THEN "active" ELSE tenant[t].status)

\* SELECT write_audit: the entry takes the next id, and is seen by others once
\* the transaction commits. The function swallows its own errors.
WriteAudit(r) ==
  /\ At(r, "audit")
  /\ \/ /\ entries' = entries + 1
        /\ request' = [request EXCEPT ![r].at = "commit", ![r].entry = entries + 1]
        /\ UNCHANGED faults
     \/ /\ Fault
        /\ request' = [request EXCEPT ![r].at = "commit"]
        /\ UNCHANGED entries
  /\ UNCHANGED <<tenant, setting, audited, clusterVars, changes>>

\* Of two entries the one with the higher id is the later one.
Later(old, entry, value) == IF entry > old.entry THEN [entry |-> entry, value |-> value] ELSE old

CommitSetting(r) ==
  /\ At(r, "commit") /\ request[r].row \in Settings
  /\ setting' = [setting EXCEPT ![request[r].row] = request[r].value]
  /\ audited' = [audited EXCEPT ![request[r].row] = Later(@, request[r].entry, request[r].value)]
  /\ End(r)
  /\ UNCHANGED <<tenant, entries, clusterVars, changes, faults>>

CommitTenant(r) ==
  /\ At(r, "commit") /\ request[r].row \in Ids
  /\ tenant' = [tenant EXCEPT ![request[r].row].status = request[r].value]
  /\ End(r)
  /\ UNCHANGED <<setting, logVars, clusterVars, changes, faults>>

\* A statement fails, the client goes away or the pod dies: nothing is left of
\* a transaction, nor of a creation before its INSERT.
Rollback(r) ==
  /\ ~At(r, "idle")
  /\ Fault
  /\ End(r)
  /\ UNCHANGED <<tenant, setting, logVars, clusterVars, changes>>

-----------------------------------------------------------------------------
(* The operator *)

OperatorAt(o, place) == operator[o].at = place
Row(o) == operator[o].row
RowSlug(o) == operator[o].row[2]
RowTier(o) == operator[o].row[3]
Turn(o, place) == operator' = [operator EXCEPT ![o].at = place]

\* Done with a row, well or not: the next one, or the end of the pass.
After(o) == IF operator[o].rows = {} THEN AtRest
            ELSE [operator[o] EXCEPT !.at = "row", !.row = None, !.fresh = FALSE]
NextRow(o) == operator' = [operator EXCEPT ![o] = After(o)]

Active == {t \in Ids : tenant[t].status = "active"}

\* The ticker fires: SELECT of the active tenants.
Reconcile(o) ==
  /\ OperatorAt(o, "idle")
  /\ operator' = [operator EXCEPT
       ![o].at = IF Active = {} THEN "idle" ELSE "row",
       ![o].rows = {<<t, tenant[t].slug, tenant[t].tier>> : t \in Active}]
  /\ UNCHANGED <<tenant, controlVars, namespace, quota, changes, faults>>

\* rows.Next: a namespace that exists is left as it is, and its quota is read.
GetNamespace(o) ==
  /\ OperatorAt(o, "row")
  /\ \E row \in operator[o].rows :
       operator' = [operator EXCEPT
         ![o].at = IF namespace[row[2]].tenant = None THEN "create" ELSE "write",
         ![o].rows = @ \ {row}, ![o].row = row, ![o].fresh = namespace[row[2]].tenant # None]
  /\ UNCHANGED <<tenant, controlVars, namespace, quota, changes, faults>>

\* Fails when the other pod has created it since: this row is given up.
CreateNamespace(o) ==
  /\ OperatorAt(o, "create")
  /\ IF namespace[RowSlug(o)].tenant = None
     THEN /\ namespace' = [namespace EXCEPT ![RowSlug(o)] = [tenant |-> Row(o)[1], tier |-> RowTier(o)]]
          /\ Turn(o, "quota")
     ELSE NextRow(o) /\ UNCHANGED namespace
  /\ UNCHANGED <<tenant, controlVars, quota, changes, faults>>

GetQuota(o) ==
  /\ OperatorAt(o, "quota")
  /\ operator' = [operator EXCEPT ![o].at = "write", ![o].fresh = TRUE]
  /\ UNCHANGED <<tenant, controlVars, namespace, quota, changes, faults>>

\* tierQuota, with basic for a tier it does not have.
QuotaOf(tier) == IF tier \in QuotaTiers THEN tier ELSE Basic

\* Mutant of WriteQuota: a quota that exists is left as it is.
CreateQuota(o) ==
  /\ OperatorAt(o, "write")
  /\ quota' = [quota EXCEPT ![RowSlug(o)] = IF @ = None THEN QuotaOf(RowTier(o)) ELSE @]
  /\ NextRow(o)
  /\ UNCHANGED <<tenant, controlVars, namespace, changes, faults>>

\* Create or Update: refused when the quota is not the one that was read, or
\* not absent as it was then.
WriteQuota(o) ==
  /\ OperatorAt(o, "write")
  /\ IF operator[o].fresh
     THEN /\ quota' = [quota EXCEPT ![RowSlug(o)] = QuotaOf(RowTier(o))]
          /\ operator' = [p \in Operators |->
               IF p = o THEN After(o)
               ELSE IF OperatorAt(p, "write") /\ RowSlug(p) = RowSlug(o)
               THEN [operator[p] EXCEPT !.fresh = FALSE] ELSE operator[p]]
     ELSE NextRow(o) /\ UNCHANGED quota
  /\ UNCHANGED <<tenant, controlVars, namespace, changes, faults>>

\* A call to Kubernetes fails: the row is given up until the next pass.
CallFails(o) ==
  /\ operator[o].at \in {"create", "quota", "write"}
  /\ Fault
  /\ NextRow(o)
  /\ UNCHANGED <<tenant, controlVars, namespace, quota, changes>>

\* The query breaks off, or the pod dies and another takes its place.
PassBreaks(o) ==
  /\ ~OperatorAt(o, "idle")
  /\ Fault
  /\ operator' = [operator EXCEPT ![o] = AtRest]
  /\ UNCHANGED <<tenant, controlVars, namespace, quota, changes>>

-----------------------------------------------------------------------------
Control(r) ==
  \/ \E body \in Bodies : CheckSlug(r, body)
  \/ InsertTenant(r)
  \/ \E x \in Settings, v \in Values : ToggleKillSwitch(r, x, v) \/ SetConfig(r, x, v)
  \/ \E t \in Ids : SuspendTenant(r, t) \/ ReactivateTenant(r, t)
  \/ WriteAudit(r) \/ CommitSetting(r) \/ CommitTenant(r) \/ Rollback(r)

Statement(t) ==
  \/ HandleSuspend(t) \/ HandleDelete(t)
  \/ \E d \in Domains : HandleUpdateConfig(t, d)
  \/ \E x \in Tiers : ChangeTier(t, x)

Pass(o) == Reconcile(o) \/ GetNamespace(o) \/ CreateNamespace(o) \/ GetQuota(o)
           \/ WriteQuota(o)

Next ==
  \/ \E r \in Requests : Control(r)
  \/ \E t \in Ids : Statement(t)
  \/ \E o \in Operators : Pass(o) \/ CallFails(o) \/ PassBreaks(o)

\* The ticker keeps firing, and calls to Kubernetes return.
Fairness == \A o \in Operators : WF_vars(Pass(o))

Spec == Init /\ [][Next]_vars /\ Fairness

-----------------------------------------------------------------------------
(* Properties *)

\* A slug names one tenant for good, although creation looks first and inserts
\* later and deleted rows stay: so no tenant, of any status, comes by the
\* namespace of another, however old the rows are that an operator works on.
SlugsApart ==
  /\ \A t, u \in Existing : tenant[t].slug = tenant[u].slug => t = u
  /\ \A s \in Slugs : namespace[s].tenant # None => tenant[namespace[s].tenant].slug = s

\* The newest entry of the audit log on a setting tells the value it has,
\* whichever transactions on it ran at once or were rolled back, unless an entry
\* was lost: a transaction holds the row until it ends, so that entries on one
\* row get their ids in the order in which the values are committed.
SettingsAgreeWithAudit ==
  faults = 0 => \A x \in Settings : audited[x].entry # 0 => audited[x].value = setting[x]

\* An active tenant whose tier stays the same has, in the end, the quota of
\* that tier, although each pass works on rows read at its beginning, two pods
\* write the same quota, and a failed call waits for the next pass.
QuotaFollowsTier ==
  \A t \in Ids, x \in Tiers :
    <>[](tenant[t].status = "active" /\ tenant[t].tier = x)
      => <>[](\A s \in Slugs : tenant[t].slug = s => quota[s] = QuotaOf(x))

=============================================================================
