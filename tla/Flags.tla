-------------------------------- MODULE Flags --------------------------------
(***************************************************************************)
(* The feature-flags service: flags and overrides in Postgres, answers     *)
(* cached in Redis for thirty seconds (internal/evaluator/engine.go), and  *)
(* the handlers of cmd/server/main.go that read and change them.  Requests *)
(* of all three pods meet in one Redis and one database, so a request is a *)
(* process here and a pod is not.                                          *)
(*                                                                         *)
(* An entry of the cache is either the map of all flags of a context       *)
(* (ff:ctx:tenant:plan) or one flag of it (ff:single:key:tenant:plan).     *)
(* The plan of a request comes from a header; NoPlan is the empty one.     *)
(* Overrides for users, which no evaluation reads, and rollout_pct are     *)
(* left out, and so is the log of evaluations.                             *)
(***************************************************************************)
EXTENDS Naturals, FiniteSets

CONSTANTS
    Keys,        \* keys of flags
    Seeded,      \* the keys whose flags the migrations create
    Tenants,     \* tenants
    Plans,       \* plans a request may name, NoPlan among them
    NoPlan,      \* the empty plan
    Values,      \* values of flags and overrides
    All,         \* marks the entry that holds all flags of a context
    None,        \* nothing: no row, no entry, no answer
    Readers,     \* requests that evaluate flags
    Admins,      \* requests that change flags
    Off, On,     \* the values false and true, which the seeds have
    MaxChanges   \* bound: changes committed in a run

ASSUME FlagsAssumption ==
    /\ Seeded \subseteq Keys
    /\ NoPlan \in Plans
    /\ Tenants \cap Plans = {}
    /\ All \notin Keys
    /\ {Off, On} \subseteq Values
    /\ MaxChanges \in Nat

VARIABLES
    flag,      \* flag[k]: the row of feature_flags, or None
    override,  \* override[k][g]: value of the enabled override of k for g, or None
    cache,     \* cache[e]: what Redis holds for entry e, or None
    reader,    \* reader[r]: what r has read from the tables and will store, or None
    admin,     \* admin[a]: where the change a stands
    changes,   \* changes committed
    been,      \* history: been[e], the answers for e that were ever right
    missed     \* history: cached entries that some change could not remove

vars == <<flag, override, cache, reader, admin, changes, been, missed>>

\* What an override may be for: a tenant or a plan that has a name.
Targets == Tenants \cup (Plans \ {NoPlan})

Row == [default : Values, enabled : BOOLEAN]
Reasons == {"override", "disabled", "default"}

\* The cache keys that GetAll and Evaluate build.
Entries == [of : Keys \cup {All}, tenant : Tenants, plan : Plans]

\* A map of flags, or the result for one flag.
Answers ==
    (UNION {[S -> Values] : S \in SUBSET Keys}) \cup [value : Values, reason : Reasons]

\* None is no row of a table, no value and no answer.
ASSUME NoneAssumption == None \notin Row /\ None \notin Values /\ None \notin Answers

\* Types, and the foreign key of flag_overrides.
TypeOK ==
    /\ flag \in [Keys -> Row \cup {None}]
    /\ override \in [Keys -> [Targets -> Values \cup {None}]]
    /\ \A k \in Keys, g \in Targets : override[k][g] # None => flag[k] # None
    /\ cache \in [Entries -> Answers \cup {None}]
    /\ reader \in [Readers -> [entry : Entries, answer : Answers] \cup {None}]
    /\ admin \in [Admins -> [pc : {"idle", "keys", "del", "context"},
                             entries : SUBSET Entries]]
    /\ changes \in 0..MaxChanges
    /\ been \in [Entries -> SUBSET (Answers \cup {None})]
    /\ missed \in SUBSET Entries

-----------------------------------------------------------------------------
(* Evaluation by the database.                                             *)

Override(k, g) == IF g \in Targets THEN override[k][g] ELSE None

\* COALESCE: override of the tenant, else of the plan, else the default, which
\* also a disabled flag has.
Value(k, t, p) ==
    CASE Override(k, t) # None -> Override(k, t)
      [] Override(k, t) = None /\ Override(k, p) # None -> Override(k, p)
      [] OTHER -> flag[k].default

Reason(k, t, p) ==
    CASE Override(k, t) # None \/ Override(k, p) # None -> "override"
      [] Override(k, t) = None /\ Override(k, p) = None /\ ~flag[k].enabled -> "disabled"
      [] OTHER -> "default"

Existing == {k \in Keys : flag[k] # None}

\* GetFlagsForContext and EvaluateFlag: what the database answers for e now.
Truth(e) ==
    IF e.of = All
    THEN [k \in Existing |-> Value(k, e.tenant, e.plan)]
    ELSE IF e.of \in Existing
         THEN [value |-> Value(e.of, e.tenant, e.plan),
               reason |-> Reason(e.of, e.tenant, e.plan)]
         ELSE None

Cached == {e \in Entries : cache[e] # None}

Rest == [pc |-> "idle", entries |-> {}]

Seeds == {[default |-> Off, enabled |-> FALSE], [default |-> On, enabled |-> TRUE]}

\* What the migrations may have left: flags that are off, which overrides turn
\* on for plans, and flags that are on.
Init ==
    /\ flag \in [Keys -> Seeds \cup {None}]
    /\ \A k \in Keys : flag[k] # None <=> k \in Seeded
    /\ override \in [Keys -> [Targets -> {On, None}]]
    /\ \A k \in Keys, g \in Targets :
          override[k][g] # None => flag[k] # None /\ ~flag[k].enabled /\ g \in Plans
    /\ cache = [e \in Entries |-> None]
    /\ reader = [r \in Readers |-> None]
    /\ admin = [a \in Admins |-> Rest]
    /\ changes = 0
    /\ been = [e \in Entries |-> {Truth(e)}]
    /\ missed = {}

-----------------------------------------------------------------------------
(* GetAll and Evaluate: look in the cache, ask the database, store.        *)

Reading == <<flag, override, admin, changes, been>>

\* A request that finds its entry in the cache is answered with it and changes
\* nothing.  It asks the database when the entry is not there, and also when
\* Redis does not answer, which may happen at any time: whether it reads the
\* tables depends on nothing it has done before.  What it finds will be stored
\* as e; of a flag that does not exist nothing is stored.
Ask(r, e, answer) ==
    /\ reader[r] = None
    /\ answer # None
    /\ reader' = [reader EXCEPT ![r] = [entry |-> e, answer |-> answer]]
    /\ UNCHANGED Reading
    /\ UNCHANGED <<cache, missed>>

\* GET /v1/flags
GetAll(r, t, p) ==
    LET e == [of |-> All, tenant |-> t, plan |-> p] IN Ask(r, e, Truth(e))

\* Mutant of Evaluate: the key of the entry does not name the plan.
EvaluateAnyPlan(r, k, t, p) ==
    LET e == [of |-> k, tenant |-> t, plan |-> p]
    IN  Ask(r, [e EXCEPT !.plan = NoPlan], Truth(e))

\* GET /v1/flags/{key}
Evaluate(r, k, t, p) ==
    LET e == [of |-> k, tenant |-> t, plan |-> p] IN Ask(r, e, Truth(e))

\* Redis SET with the TTL; the answer goes to the client as it went to Redis.
Store(r) ==
    LET e == reader[r].entry IN
    /\ reader[r] # None
    /\ cache' = [cache EXCEPT ![e] = reader[r].answer]
    /\ missed' = IF reader[r].answer = Truth(e) THEN missed \ {e} ELSE missed \cup {e}
    /\ reader' = [reader EXCEPT ![r] = None]
    /\ UNCHANGED Reading

\* Redis fails, the client leaves, or the pod dies.
GiveUp(r) ==
    /\ reader[r] # None
    /\ reader' = [reader EXCEPT ![r] = None]
    /\ UNCHANGED Reading
    /\ UNCHANGED <<cache, missed>>

\* Mutant of Expire: entries of single flags are stored without a TTL.
ExpireContexts(e) ==
    /\ e.of = All
    /\ e \in Cached
    /\ cache' = [cache EXCEPT ![e] = None]
    /\ missed' = missed \ {e}
    /\ UNCHANGED Reading
    /\ UNCHANGED reader

\* The TTL of an entry is over, or Redis evicts it.
Expire(e) ==
    /\ e \in Cached
    /\ cache' = [cache EXCEPT ![e] = None]
    /\ missed' = missed \ {e}
    /\ UNCHANGED Reading
    /\ UNCHANGED reader

-----------------------------------------------------------------------------
(* The statements that change the tables.                                  *)

InsertFlag(k, v) ==
    /\ flag[k] = None
    /\ flag' = [flag EXCEPT ![k] = [default |-> v, enabled |-> FALSE]]
    /\ UNCHANGED override

SetEnabled(k, enabled) ==
    /\ flag[k] # None
    /\ flag' = [flag EXCEPT ![k].enabled = enabled]
    /\ UNCHANGED override

\* The overrides go with the flag (ON DELETE CASCADE).
RemoveFlag(k) ==
    /\ flag[k] # None
    /\ flag' = [flag EXCEPT ![k] = None]
    /\ override' = [override EXCEPT ![k] = [g \in Targets |-> None]]

UpsertOverride(k, g, v) ==
    /\ flag[k] # None
    /\ override' = [override EXCEPT ![k][g] = v]
    /\ UNCHANGED flag

DisableOverride(k, g) ==
    /\ override' = [override EXCEPT ![k][g] = None]
    /\ UNCHANGED flag

-----------------------------------------------------------------------------
(* The admin handlers: change the tables, then invalidate.                 *)

\* What every committed change does besides its statement.
Commit(a, step, entries) ==
    /\ admin[a].pc = "idle"
    /\ changes < MaxChanges
    /\ changes' = changes + 1
    /\ been' = [e \in Entries |-> been[e] \cup {Truth(e)'}]
    /\ admin' = [admin EXCEPT ![a] = [pc |-> step, entries |-> entries]]
    /\ UNCHANGED <<cache, reader>>

\* POST /v1/admin/flags
CreateFlag(a, k, v) ==
    /\ InsertFlag(k, v)
    /\ Commit(a, "keys", {})
    /\ UNCHANGED missed

\* PATCH /v1/admin/flags/{key}
UpdateFlag(a, k, enabled) ==
    /\ SetEnabled(k, enabled)
    /\ Commit(a, "keys", {})
    /\ UNCHANGED missed

\* Mutant of DeleteFlag: the handler does not invalidate.
DeleteFlagOnly(a, k) ==
    /\ RemoveFlag(k)
    /\ Commit(a, "idle", {})
    /\ UNCHANGED missed

\* DELETE /v1/admin/flags/{key}
DeleteFlag(a, k) ==
    /\ RemoveFlag(k)
    /\ Commit(a, "keys", {})
    /\ UNCHANGED missed

\* POST .../overrides for a tenant: InvalidateContext(tenant, "") will remove
\* one entry of the tenant, the one without a plan.
OverrideTenant(a, k, t, v) ==
    LET context == [of |-> All, tenant |-> t, plan |-> NoPlan] IN
    /\ UpsertOverride(k, t, v)
    /\ Commit(a, "context", {context})
    /\ missed' = missed \cup {e \in Cached : e.tenant = t /\ e # context}

\* POST .../overrides for a plan
OverridePlan(a, k, p, v) ==
    /\ p # NoPlan
    /\ UpsertOverride(k, p, v)
    /\ Commit(a, "keys", {})
    /\ UNCHANGED missed

\* DELETE .../overrides: no error when there is no such override.
DeleteOverride(a, k, g) ==
    /\ DisableOverride(k, g)
    /\ Commit(a, "keys", {})
    /\ UNCHANGED missed

Tables == <<flag, override, changes, been, reader>>

\* InvalidateAll: KEYS ff:*
ListKeys(a) ==
    /\ admin[a].pc = "keys"
    /\ admin' = [admin EXCEPT ![a] = IF Cached = {} THEN Rest
                                     ELSE [pc |-> "del", entries |-> Cached]]
    /\ UNCHANGED Tables
    /\ UNCHANGED <<cache, missed>>

Remove(a) ==
    /\ cache' = [e \in Entries |-> IF e \in admin[a].entries THEN None ELSE cache[e]]
    /\ missed' = missed \ admin[a].entries
    /\ admin' = [admin EXCEPT ![a] = Rest]
    /\ UNCHANGED Tables

\* ... and DEL of the keys it has listed.
DeleteKeys(a) ==
    /\ admin[a].pc = "del"
    /\ Remove(a)

InvalidateContext(a) ==
    /\ admin[a].pc = "context"
    /\ Remove(a)

\* Redis fails (no caller sees it), the database's reply to the change was
\* lost, so that the handler returns an error, or the pod dies.
InvalidationLost(a) ==
    /\ admin[a].pc # "idle"
    /\ missed' = missed \cup
           (IF admin[a].pc = "keys" THEN Cached ELSE Cached \cap admin[a].entries)
    /\ admin' = [admin EXCEPT ![a] = Rest]
    /\ UNCHANGED Tables
    /\ UNCHANGED cache

-----------------------------------------------------------------------------
Read(r) ==
    \/ \E t \in Tenants, p \in Plans :
          GetAll(r, t, p) \/ \E k \in Keys : Evaluate(r, k, t, p)
    \/ Store(r) \/ GiveUp(r)

Administer(a) ==
    \/ \E k \in Keys :
          \/ \E v \in Values : CreateFlag(a, k, v)
          \/ \E enabled \in BOOLEAN : UpdateFlag(a, k, enabled)
          \/ DeleteFlag(a, k)
          \/ \E t \in Tenants, v \in Values : OverrideTenant(a, k, t, v)
          \/ \E p \in Plans, v \in Values : OverridePlan(a, k, p, v)
          \/ \E g \in Targets : DeleteOverride(a, k, g)
    \/ ListKeys(a) \/ DeleteKeys(a) \/ InvalidateContext(a) \/ InvalidationLost(a)

Next ==
    \/ \E r \in Readers : Read(r)
    \/ \E a \in Admins : Administer(a)
    \/ \E e \in Entries : Expire(e)

Spec == Init /\ [][Next]_vars

\* Only the TTL is fair: requests may hang or die, Redis drops what is over.
FairSpec == Spec /\ \A e \in Entries : WF_vars(Expire(e))

-----------------------------------------------------------------------------
(* Properties.                                                             *)

\* What is cached and what was read from the database was, as a whole, right for that very
\* tenant and plan at some moment: no answer mixes two states of the tables, and
\* none is built for another context (evaluator/engine.go, GetAll and Evaluate).
AnswersWereRight ==
    /\ \A e \in Cached : cache[e] \in been[e]
    /\ \A r \in Readers :
          reader[r] # None => reader[r].answer \in been[reader[r].entry]

\* A change is on its way to remove entry e.
BeingRemoved(e) ==
    \E a \in Admins :
        \/ admin[a].pc = "keys"
        \/ admin[a].pc # "idle" /\ e \in admin[a].entries

\* An entry is older than the tables only while its removal is under way, or
\* because of what the invalidation of main.go cannot reach: a reader that had
\* asked the database before, an invalidation lost, the entries of a tenant
\* other than the one without a plan after an override for the tenant.
StaleIsExplained ==
    \A e \in Cached : cache[e] # Truth(e) => BeingRemoved(e) \/ e \in missed

\* After the last change the cache comes to agree with the tables, whatever
\* invalidations were missed: the short TTL that engine.go:14-17 relies on.
EventuallyFresh ==
    \A e \in Entries : <>[](cache[e] \in {None, Truth(e)})
=============================================================================
