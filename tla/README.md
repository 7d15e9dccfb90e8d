# Verification of AmniX Finance

TLA+ models of the services under `src/services`, checked with TLC and, where
it matters most, proved with TLAPS. This file says which part of the system each
module stands for, what the checks show and under which bounds and fairness,
what is proved and from what, and what is not covered.

    tlc -workers 2 -config MCTiering.cfg MCTiering.tla      # one of the runs
    tlapm TieringProofs.tla                                 # one of the proofs

`PROJECT.json` lists every run, the mutant that shows each property can fail,
the source lines behind each definition, and the hazards.

## 1. The system

Services behind an API gateway, each in several pods (numbers from
`k8s/base/*/rollout.yaml`: ingestion, billing, auth, realtime, feature-flags,
developer-portal, notifications, ml-engine and search 3; processing, jobs,
control-plane and analytics 2; hydration 1; the tenant operator 0 to 2, scaled by
KEDA). They share one Postgres, one Redpanda (Kafka), one Redis, one object store
and one ClickHouse. There is no lock and no leader between the pods of a service:
whatever coordination exists is made of SQL conditions, consumer groups, channels
and locks inside a process.

| Component | State | Operations and interactions | What is hard | What makes it correct |
|---|---|---|---|---|
| **Tiering** (ingestion, `internal/tiering`, `internal/coldstore`) | `warm_events` rows with `parquet_key`, `archived_at`; objects in the bucket | a job per pod: recover, query, upload, record the key, mark archived | three unlocked copies of the job; crash or error between any two calls | an archived row can be read back; every old row ends archived |
| **Buffered writer** (ingestion, `internal/clickhouse`) | a bounded channel, batches of workers, `done` | `Enqueue` by a goroutine per row, workers, `Close` at shutdown | two selects in `Enqueue`, drain against late senders | rows are conserved; `Close` returns and nothing is written after it |
| **Ingestion edge** (`cmd/server/main.go`, `internal/kafka`) | handlers, goroutines that send features, the servers, the producer | HTTP events to the buffer and to Kafka; gRPC health; shutdown | three effects without a transaction; five things to stop in order | an event that was accepted is not left behind; the pod stops |
| Relationship graph, schema registry client (ingestion) | two tables; none | single statements; HTTP at start | - | - |
| **Webhook** (billing, `internal/webhook`) | `billing_events` | `Process`: claim, handle, record the outcome; Stripe retries | concurrent deliveries, crash after the claim | an event takes effect at most once and the table says what happened |
| **Subscriptions** (billing, migrations 006, 023, 036) | `subscriptions`, `tenants.tier`, `tenants.stripe_customer_id`; Stripe's own state | create, upgrade, cancel, subscription events, the trigger that sets the tier | a saga over two systems, events out of order, two concurrent requests | a tenant with subscriptions has a paid tier only with a row that pays; rows agree with Stripe; tenants stay apart |
| Invoices, usage (billing) | `invoices`, `usage_records` | invoice events, reports | order of events | the newest status stays |
| **Hub** (realtime, `internal/hub`) | clients by tenant, channels `register`, `unregister`, `broadcast`, `send` | `Run`, handlers, write pumps, `Broadcast` | `select` takes channels in any order; full buffers | isolation of tenants, order, no send on a closed channel, no leak |
| **Consumer** (realtime, `internal/consumer`) | offsets of the group | poll, hand to the hub, commit | crash and rebalance between the two; records that cannot be handed out | what is committed was handed out, if a hub can take it |
| **Signing keys and their cache** (auth `internal/jwt` and `internal/middleware`; realtime `cmd/server`) | the key of each replica of auth; a map of public keys per pod of realtime | rollout of a new key, sign, validate, serve; look up, fetch, refill, read | replicas with different keys, a name used again, a read outside the lock | a token that every replica would accept is refused only for a known reason |
| **Sessions and recovery** (auth) | `active_sessions`, `users`, `user_roles`, `account_recovery_tokens`; permissions in Redis | login by Keycloak or password, refresh, logout, revocation, registration, reset | rotation against replay, a reset against logins, global passwords and sessions by tenant, errors read as absence | a refresh token is used once; a reset ends the older sessions of its tenant; roles stay |
| **MFA, API keys, agents** (auth) | `mfa_secrets`, `sms_mfa_attempts`, `api_keys`, `agents`, `agent_permissions` | enrol, send and verify codes; create, list, revoke, verify keys; create and suspend agents | read and mark in two statements; a loop of INSERTs in a transaction | an accepted code is spent; a key stands until revoked; an agent is whole |
| **Life of a tenant** (control plane, tenant operator) | `tenants`, `kill_switches`, `system_config`, `audit_log`; namespaces and quotas | create, suspend, delete; audited transactions; reconcile each minute | check before insert, old rows in two operators, partial provisioning | a slug is one tenant's; the audit tells the value; the quota follows the tier |
| **Flags** (feature-flags) | `feature_flags`, `flag_overrides`, Redis entries | evaluate, change, invalidate | a value read before an invalidation is cached after it; invalidations that fail or miss entries | answers were right for their context; a stale entry has a known cause and goes |
| **Processing** (Rust) | circuit breaker, rate limit, offsets | connect, consume, forward, commit | breaker, asynchronous commits, restarts, calls that hang | nothing is passed over unseen; the breaker agrees with its count |
| Jobs | asynq's queues, `cron_jobs` | enqueue, cron loop, handlers that log | the loop runs in every replica | - |
| ML engine, data quality | models loaded at start; none | inference; checks of a batch | - | - |
| Developer portal, notifications | keys, webhooks; mails | CRUD; send and record | - | - |
| Hydration, search, analytics | - | a copy at start; queries that read | - | - |

**Interactions that are modelled.** The webhook feeds the subscriptions: the
module `Subscriptions` uses the abstract `EventIntake`, and `BillingWebhook` is
shown to implement it. The realtime consumer feeds the hubs: `Realtime` has the
pods and their hubs as sets of clients, `Hub` has one pod's hub with its
channels. `Edge` extends `BufferedWriter`, whose steps its handlers, workers and
shutdown take, by the servers and the producer around it. `SigningKeys` has both ends
of a token: the replicas of auth that sign and validate, and a pod of realtime. Billing and the trigger
of `sync_tenant_plan` in the auth migrations write one table, which the tenant
operator reads (`Subscriptions`, `Tenants`).

## 2. Modules

| Module | Stands for | Run by | Proofs |
|---|---|---|---|
| `ColdArchive` | the promise of tiering: stored, then archived, nothing undone | through `Tiering` | |
| `Tiering` | `job.go`, the statements of `postgres/client.go`, `coldstore/writer.go` | `MCTiering` | `TieringProofs` |
| `BufferedWriter` | `clickhouse/buffer.go` | `MCBufferedWriter` | `EdgeProofs` |
| `Edge` | ingestion's `main.go` and `kafka/feature_producer.go` around `BufferedWriter` | `MCEdge` | `EdgeProofs` |
| `EventIntake` | the promise of the webhook: an event is pending, then applied once or dropped | through the next two | |
| `BillingWebhook` | `webhook/handler.go`, `Process`, and the tables' statements | `MCBillingWebhook` | `BillingProofs` |
| `Subscriptions` | billing's subscription handlers, the Stripe client, the subscription events, the trigger and the CHECKs | `MCSubscriptions` | `BillingProofs` |
| `Hub` | `hub.go` with the WebSocket handlers | `MCHub` | `RealtimeProofs` |
| `Realtime` | `consumer.go` in several pods | `MCRealtime` | `RealtimeProofs` |
| `Flags` | the feature-flags handlers, `evaluator/engine.go`, the statements of `postgres/client.go`, migrations 010 and 012 | `MCFlags` | `FlagsProofs` |
| `Processing` | the Rust consumer, its breaker, the engine's rate limit and the lengths of its indicators | `MCProcessing` | `ProcessingProofs` |
| `Sessions` | auth's login, refresh, logout, registration, reset, default role and cache of permissions | `MCSessions` | `AuthProofs` |
| `Credentials` | auth's MFA, API keys and agents | `MCCredentials` | `AuthProofs` |
| `SigningKeys` | the key that access tokens are signed with, in auth's replicas and in realtime's cache | `MCCredentials` | `AuthProofs` |
| `Tenants` | the control plane's tenants and settings, the operator's namespaces and quotas | `MCTenants` | `TenantsProofs` |

The `MC` modules only extend a module with symmetry sets and values of
functions; `MCBufferedWriter` and `MCEdge` also number the rows, and `MCEdge` lets the
lowest number that has not begun go first (requests that have not begun are
alike). `MCCredentials` runs `Credentials` and `SigningKeys`, which share no state,
side by side, but lets only one of them, or of the parts of `Credentials`, leave its
initial state in one behaviour; what the proofs say has no such restriction.

One proof module extends all the modules of a service, so the modules of a service
have names of their own: one of them has `vars`, `TypeOK`, `Init`, `Next` and `Spec`,
the others have them with a prefix (`WebhookSpec`, `HubSpec`, `BufferSpec`,
`CredSpec`, `SigningSpec`), and their sets and helpers differ. Definitions named *Mutant of X* are wrong versions of `X`, kept next
to it: each property is checked against one of them and must fail. They are used
by nothing else.

Conventions. An action is one step that others can come between: a remote call, a
statement, a channel operation. A remote call succeeds; or fails without effect;
or has its effect and reports an error (`Failure`, `Fault`). A crash takes what a
pod holds in memory. Counters are bounded in guards by constants named `Max...`;
such a bound is the only reason why a run stops, and therefore the only one for
`CHECK_DEADLOCK FALSE`.

### Tiering

`pc[r]` is the line of `runOnce` at which replica `r` stands; `olderThan`, `batch`
and `key` are its locals. `parquetKey` and `archived` are the columns of
`warm_events`, `objects` the bucket. Every `UPDATE` carries the WHERE of its
statement (`parquet_key IS NULL`, `archived_at IS NULL`). Time is one clock, minus
the cold threshold. Keys end in `UnixNano` and never repeat. Left out: the encoding
of Parquet and what a row holds besides the two columns. Two remarks on the
source: the comment on `WriteParquet` (`writer.go:129`) speaks of a tenant in the
key, and the code puts none; migration 006 would add a UNIQUE constraint that a
partitioned table refuses, and the model follows 001-005.
`InsertWarmEvents` has no caller in production code: rows simply appear.

### BufferedWriter

`ch` is the channel, `caller[r]` where the goroutine that enqueues row `r` stands:
the two selects of `Enqueue` are two steps, so `Close` can come between. A worker
goes through `wait`, `write`, `drain`, `final`, `stopped`; the select of its loop may
take any ready case. `raced` is a history variable: the rows whose `Enqueue` had
passed its first select when `done` was closed. The channel's capacity is derived
as in `NewBufferedWriter` from `MaxSize` and the number of workers. A write
succeeds or fails as a whole; a failed batch is dropped, as the code does.

### BillingWebhook, EventIntake and Subscriptions

In `BillingWebhook` a request goes through claim (`INSERT ... ON CONFLICT`), process,
mark and answer; `outcome[e]` is the row in `billing_events`, `acked` the events for
which Stripe saw a 2xx. `applied[e]` counts effects (a history variable). Nothing
re-drives unprocessed rows (`IsEventProcessed` has no caller), so a claimed event
whose request died stays as it is. `EventIntake` says only that: an event is
applied once, or dropped for good. An event of a type that the handler does not know
(`handler.go:65`) is marked as processed with no statement run; in the model it counts
as an event whose effect is nothing, which is an effect too.

In `Subscriptions` the rows, `tier` and `customer` are the database; `stripe`,
`customers` and `events` are Stripe. `req[q]` is a request in one of the handlers,
with what it holds between its calls. Every change in Stripe appends an event that
is a snapshot of the subscription; the webhook may take events in any order, each
once or never (`Receive`, `Reject`, `Lose`). A statement that fails a CHECK, in the
table or in what the trigger writes, changes nothing. `from` is a history field: the
event a row was last written from. `PortalSubscriptions` is what the portal of Stripe shows
a tenant: that of the customer the database names, one of several if requests raced. Subscriptions are created with a trial of 14
days, so Stripe's statuses are trialing, active, past_due, unpaid and canceled;
the metadata of a subscription always names its plan, so the fallback to "basic"
of the update handler has no case here. Stripe promises no order of events and the
code keeps no version of a row. A tenant may have any tier at first, since the control
plane inserts the tier it is asked for (`main.go:351`) and asks nobody to pay; the trigger
speaks only when a row is written. `PaidTierHasSubscription` is therefore about the tenants
that have rows. `AgreesWithStripe` speaks of rows written
from the newest event, and says nothing of a row that an older event was
written to afterwards. Nor is there a property that the tier is the plan of the
active row: a tenant with two open subscriptions breaks it (an older row that is
attached, or deleted, after a newer one was inserted), and nothing in the code
says that it holds.

### Hub and Realtime

`Hub` has the channels with their capacities. `handler[c]` is the goroutine of a
connection, `closed` the set of clients whose `send` was closed, `panicked` a send
on such a channel. `Run` takes register, unregister or broadcast, whichever is
ready. `overtaken` is a history variable: the clients whose unregistration was taken
before their registration. The shutdown of the server, which leaves hijacked
connections to the end of the process, is not modelled.

`Realtime` has one partition, its committed offset, and the pods' positions. A
fetch may fail for this partition, or for another one, in which case the records
of this partition are skipped with an error (`dropped`). Of the records some are `unfit`:
they do not decode, or name no tenant. `processRecord` logs the one and passes over the
other, no hub gets them, and the commit covers them all the same. A rebalance gives the
partition to another pod at any time, also between hand-out and commit. `handed`
counts and `got` records deliveries.

### Flags

The tables are `flag` and `override` (a disabled override is none); `Truth(e)` is
what `GetFlagsForContext` or `EvaluateFlag` answers for the cache entry `e` now. A
request of any pod is a process: an evaluation reads the tables in one statement
(`Ask`) and stores what it found later (`Store`); a change commits (`Commit`) and
then invalidates, with `KEYS` and `DEL` as two steps. A hit changes nothing and has
no action. Whether an evaluation reads the tables does not depend on the cache in
the model, because Redis may fail to answer at any time; every call to Redis may
fail any number of times, and requests may die anywhere. `been` and `missed` are
history variables: the answers that were ever right for an entry, and the cached
entries that some invalidation could not remove. Remark on the source: after an
override for a tenant, `main.go:304` removes `ff:ctx:tenant:` with an empty plan, while
the gateway sets `x-plan` from the token (`k8s/base/api-gateway/security-policy-feature-flags.yaml`),
so as a rule that removes nothing, and the entries of single flags are never removed there; they
go when they expire.
`enabled` and `rollout_pct` do not change the value of a flag, only the reason that is
given; the model has the first and leaves out the second.

### Edge

`phase` is the line of the shutdown at which `main` stands, the deferred calls
included. A request is admitted until the HTTP server shuts down; it is named by its row, which it enqueues
(with a hot store), starts the goroutine that sends its feature event, and is
answered "accepted" whatever the buffer said. The steps of `BufferedWriter`
are taken by the handlers, its workers and `main`. `forced`
is a history variable: `Shutdown` gave up after thirty seconds while handlers ran.
ClickHouse may be absent at the start (`hot`). A watcher of the health service is a
stream that no interceptor sees and only its client ends. Left out: the breakers of
`/readyz`, requests that are refused, and the tenant set on a pooled connection.

### Processing

One partition and the group's committed offset; a pod is `connecting`, `idle`,
`calling`, `stuck`, `noConsumer` or `down`. A call that is `stuck` has got no answer and no
error, which nothing in the client or the server limits in time (`mod.rs:260`, `288`,
`main.rs:109`); its connection may break one day (`Breaks`), or never. `owner` is the pod
the group has given the partition to, `holds` says which pods still take messages as if they
had it: the group may take it away while the pod waits for the engine (`Rebalance`), and
does once the pod has not polled for `max.poll.interval.ms` (`Expire`); the pod finishes what
it does, its commit is refused, and it learns of the loss when it polls (`Notice`). `breaker`, `failures` and `cooled` are the breaker of a
pod, lost with it. A message is an event, empty or garbled; `fate` and `processed`
are history variables. The commit is asynchronous (`pending`) and refused once the
partition has gone. After its last connection attempt a pod goes on without a
consumer, and is not ready. The engine is behind one service address, so an outage
or an exhausted quota meets all pods; its other RPCs only use the quota. Of the
indicators the module has the lengths of the series and the positions at which they
end, for any number of prices (`SignalsSound`), not their values.

### Sessions

One request is a handler that executes one statement after the other (`at`); a login through
Keycloak knows its user only once Keycloak has answered, so that an email may be registered or
taken in the meantime (`AskKeycloak`, `UpsertUser`). The n-th
refresh token of a session is the number n; `token` is the one in the row, `issued`
how many clients were given, `accepted` a history of how often each was accepted, `born`
the user's password when the session began. Users and passwords are global; sessions,
roles and cached permissions are those of a user in a tenant (`Member`), and a password
opens a session in any tenant whose slug the client names. `Home` is the tenant in the
user's row, which no statement of the service writes: a reset is stored for that tenant, and
revokes the sessions of that tenant only. A row without one (`None`) cannot be scanned, so
that its user gets no reset. `ResetEndsSessions` therefore speaks of sessions in the home
tenant; `unrevoked` is a history of the users of whom a reset ended after its password was
written and before its revocation took effect, and only that user's own entry excuses a
session. Faults are of three kinds, because the
code treats them apart: a read of the role that fails looks like no role, a handler
ends, another statement fails and is only logged. The statements name columns and
tables that no migration of the repository creates (`active_sessions` with
`refresh_token_hash`, `account_recovery_tokens`): the model assumes a schema that has
them. A login that has compared the old password and creates its session after the
reset is not told apart from one that came later: `born` is what the row could
say. Left out: the counter of failed logins (it writes host and port into a
column of type INET), the policy for passwords, and permissions given to one user.

### Credentials

A caller is a user in a tenant. A TOTP secret is `none`, `disabled` or `enabled`; codes
by SMS are rows that are read in one statement and marked in a second; a key is one
row; an agent and its permissions are one transaction of many statements, which
others see when it commits. The table refuses permissions in upper case that the handler
lets through (`Refused`). `verified`, `maker`, `withdrawn` and `wanted` are history
variables. `last_used_at`, which nothing reads, is left out.

### SigningKeys

`signing[a]` is the key that replica `a` of auth has read at its start; it signs and
validates with it, and serves its public half. `deployed` is what the next start will
read. `jwks`, `fresh` and `lock` are the cache of one pod of realtime: its map, whether
its five minutes are not over, and its lock. A request that finds no key goes through
`fetch` (any replica answers, or none), `store`, `fill` and `read`; the last reads
the map after the unlock, and may find what another request has emptied. Go may end
a process that reads a map while it is written: `Restart`. A token stands for its key, `KidOf`
gives the name it carries. `why` is a history variable: the reasons for which a request may be
refused. Tokens that have expired are left out, both sides refuse them.

### Tenants

`tenant` is the table of the control plane, with the unique constraints on slug and
custom domain; `setting` joins `kill_switches` and `system_config`; `audited` is the
entry with the highest id on a setting. A transaction holds its row from its `UPDATE` until it
ends; `audited` takes the entry when it commits, by its id. `operator[o]` is a pass
over rows read at its beginning; `fresh` says that the quota it has read is still the
one in the cluster (the resource version). The column is `plan` before migration 023 and `tier` after it; the
control plane writes the first name and the operator reads the second, and the
model has one column. The transactions are those of `internal/postgres`, the package that the
service keeps for them; its `main.go` has handlers with statements of their own and does not
import the package, so the model is of both on one schema. Left out: legal holds, reports, disclaimers, bans of users and their sessions,
impersonations, and the queries.

## 3. Runs

| Run | Bounds | Shows |
|---|---|---|
| `tiering` | 2 events, 2 replicas, batch of 2, clock to 2, 2 faults | `KeyResolves`, `ArchivedIsReadable`, refinement of `ColdArchive` (`ArchiveSpec`), and that old events end up archived (`OldEventsArchived`) |
| `buffer` | 5 rows, 2 workers, batches of 2 (capacity 4), rows numbered | every row is in one place (`RowsConserved`), what `Close` may leave behind (`CloseLeavesOnlyRaced`), `AcceptedIsWritten`, `CloseReturns` |
| `edge` | 3 events, 1 client of the health service, 1 worker, batches of 2 | the order of the shutdown (`StopsInOrder`), `NothingLeftBehind`, `StopsIfUnwatched` |
| `webhook` | 2 events, 2 requests, 4 deliveries, 2 faults | `AtMostOnce`, `OutcomeIsTrue`, refinement of `EventIntake` (`IntakeSpec`), `EventuallyAcked` |
| `subscriptions` | 2 tenants of any tier, 2 requests, 2 customers, rows and events, 1 fault, symmetric | `PaidTierHasSubscription`, `TenantsApart`, `AgreesWithStripe` |
| `hub` | 2 clients, 2 tenants, queues of 1, backlog of 2, 2 messages | isolation and order (`DeliveredInOrder`), when the hub can panic (`PanicOnlyIfOvertaken`), no leak of connections (`LeaversAreClosed`) |
| `realtime` | 2 pods, 3 records of which any may be unfit, 1 client, 2 faults | `CommittedWasHanded`, `EveryRecordHanded` |
| `flags` | 1 flag, 1 tenant with and without a plan, 2 values, 1 evaluation and 1 change at a time, 2 changes | `AnswersWereRight`, `StaleIsExplained`, `EventuallyFresh` |
| `processing` | 2 pods, 3 messages of two mixtures of kinds, threshold 2, 2 attempts, quota 1, 1 fault, 1 outage, lost answer or call that hangs | `PassedOverHasFate`, `BreakerAgrees`, `RepeatsExplained`, `EveryMessageHasFate` |
| `sessions` | 2 users, 2 tenants (3 pairs of them), 1 session, 2 requests, 2 tokens, 2 passwords, 1 recovery, 1 fault, symmetric in the requests | `RotationSound`, `ResetEndsSessions`, `RolesKept` |
| `credentials` | 2 callers, 1 phone, 2 codes, 2 attempts, 1 key, 1 agent, 2 permissions of which 1 refused, 2 requests, symmetric; and 2 replicas of auth, 3 signing keys by 2 names, 2 bearers of tokens | `AcceptedIsSpent`, `KeysStand`, `AgentsWhole`; `RefusalsExplained` |
| `tenants` | 2 ids, 2 slugs, 3 bodies, 2 requests, 2 operators, 3 changes, 1 fault | `SlugsApart`, `SettingsAgreeWithAudit`, `QuotaFollowsTier` |

The type invariants are proved for all modules (section 4) and belong to no run.

**Why the bounds suffice.** Each hazard is between two actors, so two replicas,
workers, requests, pods or clients are enough to meet it, and each needs at most
one or two faults: one to leave work half done, a second to hit what repairs it.
Two events with a batch of two let one replica's batch overlap another's. Five rows
exceed a channel of four, so the drop of a full channel occurs; in `edge` the third
event finds a full buffer, and one worker is enough, since `buffer` has two. Four deliveries are
one more than two faults and one concurrent skip can use up, so that Stripe's retry
can succeed. A hub queue of one is both empty and full in every run. Three records
let a batch be partly handed out when a pod dies. With two rows, two customers and
two events per run a tenant can have two subscriptions, events can overtake each
other, and tenants can be mixed up; the proofs do not depend on these numbers. One
tenant with and without a plan makes two contexts, whose answers differ once a plan has an
override; one evaluation races one change, and the second change lets an override be
set and taken back, or a flag be deleted and created again. Three messages and a
threshold of two let a breaker open, drop, cool and be probed; a quota of one lets
another client use up the limit. One outage is spent on an engine that is away, on an answer
that is lost or on a call that hangs; the group's taking the partition from a pod that hangs
(`Expire`) needs no fault of its own. Two refresh tokens let a session rotate once. One session
is enough, since each property is about every session by itself and sessions share nothing but
the statements that revoke them; it may be in the user's own tenant or in another, where the
user has another role. One user has a tenant in the row and one has none; two passwords are one before and one after a reset. Three signing keys, of which the
first and the last have one name, are rotated twice, so that a cache can hold the old key
by the name of the new one; two bearers meet in the lock. Two codes
with two attempts are the same code sent twice or two codes; one permission that is
inserted and one that is refused end an agent's transaction in the middle. Two ids
with bodies that share a slug or a domain meet both constraints; three changes create a
tenant, change its tier and change it again, or run two transactions on one switch.

**Fairness.** Only runs with a liveness property state fairness, and it is always
weak fairness of what the code's schedulers run: a goroutine that can take a step
takes it (Go's scheduler), a job is started again by its ticker, a pod is restarted
by Kubernetes, a consumer is assigned again by its group. For the buffer, callers,
workers and the waiting `Close` are fair; the decision to shut down is not.
For the webhook, Stripe's redelivery is fair per event, which its documented
retries justify, up to the bound on deliveries. For the hub, `Run` and
a handler's deferred unregistration are fair, while clients and the consumer
may stop whenever they want. For the flags only the expiry of an entry is
fair, which Redis does by itself; no request has to make progress. For the processing
consumers, connecting, the turn of a loop that does not wait, the assignment of the
partition and its loss by a pod that does not poll are fair. A call ends with an answer, with
an error, or hangs: in `CallEnds` the hanging is one of the outcomes, and nothing makes a call
that hangs return, so a pod may wait for ever. `EveryMessageHasFate` has as its premise that
from some time on there is always a consumer that runs and does not hang; the engine need never
come back, and a commit need never arrive.
For the operator, its ticker and the return of its calls are fair, as long as a replica of it
runs: KEDA may scale it to none, and then no quota is written. At the edge,
goroutines that can go on do, a call to `Check` is answered, and the shutdown goes on
once it has begun; that clients end their streams is a premise of `StopsIfUnwatched` (the reflection
service, registered at `main.go:255`, offers another kind of stream, which a watcher stands for too). Faults are never
fair; they are bounded (in `Flags` they need not be), which is
the assumption that in the end things work for long enough.

## 4. Proofs

All theorems hold for every value of the constants that the named assumptions
admit: any number of events, replicas, rows, workers, requests, pods and clients,
any bounds. TLC evaluates the assumptions in the runs. Every safety property that a
run checks is a theorem, and so is every type invariant. Each follows from an
inductive invariant, named below with what it adds and why.

* **TieringProofs** (`TieringAssumption`). `KeyResolves` and `ArchivedIsReadable` are
  not inductive: a replica carries a batch and a key from one call to the next. `Inv`
  adds what it may rely on meanwhile: rows it has read exist and are old
  (`CarriesOld`); until it records its key, the object named by it holds the batch; from
  there on, every row of the batch has *some* key, perhaps of another replica
  (`CarriesKey`). `Grows` states that no statement takes back a key or a mark, which
  gives `ArchiveIsStable` and keeps the other replicas' conditions. The refinement of
  `ColdArchive` follows step by step (`ArchiveStep`).
* **EdgeProofs** (`BufferAssumption`). *The buffer.* `Shutdown` ties `done`, the callers
  between their selects, and the phases of the workers together: a worker that has
  found the channel empty after `done` leaves only raced rows, because every other
  sender was refused or had sent before. With it `CloseLeavesOnlyRaced` and
  `NoWriteAfterClose` are inductive. `RowsConserved` rests on two lemmas on the channel
  (`AppendQueue`, `TailQueue`). *The pod.* Every step of `Edge` is a step of the buffer or
  leaves it alone (`PodUsesBuffer`, a refinement), so that the buffer's invariant holds in
  the pod. `PhaseInv` says what the line at which `main` stands means for the parts it
  closes, `HandlerInv` that a row between the selects has a handler that runs; together
  no row races `Close` unless `Shutdown` gave up on its handler, from which
  `StopsInOrder` and `NothingLeftBehind` follow.
* **BillingProofs** (`SubscriptionsAssumption`, `WebhookAssumption`). *Subscriptions.* The
  invariant says what a
  request holds (`HoldsOwn`, `HoldsRow`), that no two requests hold one row
  (`RowsApart`), that what the database names in Stripe exists and is the tenant's
  (`Linked`), that a subscription's newest event tells its state (`NewestTells`), and
  that a row says what the event said from which it was written (`WrittenFrom`).
  `TierStep` is the lemma about the trigger: a row and a tier written together
  establish `PaidTierHasSubscription` for all rows of the tenant, whatever its tier was. *The webhook.* `HandlerInv` says what
  a request's position implies for its event's row, `OneProcessor` that the claim is
  exclusive. Then `AtMostOnce`, `OutcomeIsTrue`, `AckedIsRecorded` and `OutcomeIsFinal`.
  `WebhookImplementsIntake`: every step of the webhook maps to a step of `EventIntake`
  or a stutter. `Subscriptions` takes its events by the actions of `EventIntake`, so it may
  be read with the webhook in their place.
* **RealtimeProofs** (`RealtimeAssumption`, `HubAssumption`). *The consumer.* `OwnerInv`: all
  that lies before the owner's position is settled (handed, unfit, or of a failed poll) or
  still in its hands; `BatchInv`: it
  holds nothing when it commits or polls. Together they give `CommittedWasHanded`; a pod
  that lost the partition cannot move the offset (`CommittedGrows`). *The hub.* A message
  passes three queues: the backlog, the client's `send`, what the client has received.
  `Ordered` says that each ascends, and that what is in a later one is older than what is
  in an earlier one; the four lemmas `OrderedBroadcast`, `OrderedDeliver`, `OrderedReply` and
  `OrderedPump` carry it over each way a queue changes, and `OwnInv` adds the tenant. They
  give `DeliveredInOrder` for queues of any size. `RegisterInv` follows a client through
  `register` and `unregister`: it is on each once, and the hub knows a client whose `send`
  is closed only if it unregistered it first. So no reply is sent on a closed channel,
  none is closed twice, and `PanicOnlyIfOvertaken` holds.
* **AuthProofs** (`SessionsAssumption`, `CredentialsAssumption`). *Sessions.* `RotationInv`:
  one handler at a time holds a session whose token was taken, and tokens not yet issued
  were not accepted, which gives `RotationSound`. `RowsInv` and `PlacesInv` say whom a
  handler at a given statement works for. `RolesInv`: the default role is never on its way
  to an administrator unless a read failed, which gives `RolesKept`. `ResetEndsSessions`
  is inductive with them: what logs in after the new password is written is younger, and
  what is older, in the tenant of the user's row (`StaleAtHome`), is revoked by the reset that is
  under way, which works for that tenant (`PlaceOf`). `Excused` names what may excuse such a
  session, and `ExcusesStand` carries the property over every step that makes no session stale
  and ends no excuse; what is left are the steps of a reset itself. *Credentials.* `CodesInv`,
  `KeysInv` and `AgentsInv` relate the tables to the histories of what was asked for.
  *SigningKeys.* `Plain` is what holds of a request without any reason to be refused: every
  replica has its key, the answer it got is that key, and the map it is about to read
  holds just that key; `LockInv` is why the last part stands while others refill the map.
* **TenantsProofs** (`TenantsAssumption`). `HeldInv`: a row is held by one transaction, and
  brings a value the row may have. `ClusterInv`: the operator's loop, which works from rows
  it has read at its beginning, names every tenant by a slug that is still its own.
  `LogInv`: the entry of a transaction that will commit is newer than any on its row. The
  three are inductive only with `SlugsApart` and `SettingsAgreeWithAudit`, which they give.
* **FlagsProofs** (`FlagsAssumption`, `NoneAssumption`). What the tables say now has been
  right (`TruthHasBeen`), so what an evaluation reads and stores has been too
  (`RightStep`). For `StaleIsExplained` every change is shown to be a statement with
  `Commit` (`ChangeStatement`, `ChangeCommits`), after which either all that is cached is about
  to be listed, or the override was for one tenant and changes no other's answers
  (`OtherTenants`).
* **ProcessingProofs** (`ProcessingAssumption`). `OwnerActs`: a pod in a call takes messages
  as if it had the partition, and only the one that has it waits for a commit. `HolderInv`:
  everything before the position of such a pod, and before its commit under way, has been
  dealt with, which gives `PassedOverHasFate`; it speaks of every pod that takes messages, since
  one that lost the partition goes on beside the one that got it. `CountInv` counts: the times a
  message was processed and the pods that still have it before them are together no more than
  the faults and the present assignment, because a pod that loses the partition keeps what is
  before it. It gives `RepeatsExplained`. `BreakerAgrees` is inductive by itself.
  `SlicesInRange` is a fact about arithmetic, for any number of prices.

`ArchiveIsStable`, `NoWriteAfterClose`, `OutcomeIsFinal`, `AckedIsRecorded`, `CommittedGrows`, the type
invariants, `SlicesInRange` and `PodUsesBuffer` are proved and belong to no run; all other theorems are about properties that a run shows on a small
instance. The proofs need no symmetry, no numbering of rows and none of the restrictions of the `MC`
modules.

Model-checked only: everything under fairness (`OldEventsArchived`,
`AcceptedIsWritten`, `CloseReturns`, `EventuallyAcked`, `LeaversAreClosed`,
`EveryRecordHanded`, `EventuallyFresh`, `EveryMessageHasFate`, `QuotaFollowsTier`,
`StopsIfUnwatched`): liveness from weak fairness needs `ENABLED`, which TLAPS does not
reason about here.

## 5. Remarks on the code

Met while modelling; the models have the behaviour of the code in each case.

Where the code does something else than a comment of the repository says:

1. **Rows left in the buffer.** `Close` is said to stop the workers after they have
   finished the whole buffer (`buffer.go:102`). An `Enqueue` past its first select can
   still put its row on the channel after the last worker found it empty, and return
   true. What can be left is exactly the rows that raced `Close` (`CloseLeavesOnlyRaced`,
   proved).
2. **Skipped events that nobody handles.** `handler.go:31` says that an event which
   cannot be claimed is done or being done. If the request that claimed it died or
   failed, it is neither, and the delivery is answered 200. `EventIntake` allows it.
3. **A client that stays in the hub.** `Run` may take a client's unregistration first;
   the registration that follows puts it back with its channel closed, and the next
   message to it panics. `PanicOnlyIfOvertaken` shows this to be the only way to that
   panic.
4. **Broadcasts that reach one pod.** All pods share one consumer group, so clients of
   the tenant on other pods do not get the message, against the comment at `hub.go:158`.
5. **A plan that is no tier.** Migration 023 restricts `tenants.tier` to basic, pro and
   enterprise; 036 copies plans into it one to one and lists business. An upgrade to
   business changes Stripe, and its event fails for good.
6. **Suspended agents.** `agent.go:191` speaks of an agent that is already suspended; the
   statement finds such an agent again and answers as if it had just been suspended.
   Nothing reactivates an agent. `ListAgents` (`agent.go:112`) is said to return the active
   agents and returns all of the tenant, as the model does.
7. **Sessions that outlive a reset.** `client.go:399` says that without an exception all
   sessions are revoked. The statement has `tenant_id = $2`: a password is that of the user in
   all tenants, and the sessions it opened in others than the one of the user's row stay.

Behaviour that no comment contradicts:

* TOTP is never enabled: `GetMFASecret` looks for an enabled row (`client.go:427`), and
  `StoreMFASecret` stores one that is not, so verification finds none. Its `ON CONFLICT`
  names columns that have no unique constraint.
* Two overlapping requests with one SMS code can both be accepted; a code stays stored
  when Twilio does not send it.
* A login that read the old password just before a reset gets its session after it.
* Records that do not decode, or have no `tenant_id`, are committed by realtime without having
  reached a hub (`consumer.go:112`-`118`, `105`); the second kind leaves no trace in the log.
* The consumer of processing calls the engine without a deadline, on a connection without
  keepalive (`mod.rs:260`, `288`). An answer that is lost without an error stops the pod's only
  loop, while the pod stays ready; its partition goes to another pod after five minutes.
* A failed read of a role is taken for no role, and the default role is written over
  it (`main.go:363`); `RolesKept` holds up to that.
* Suspending a deleted tenant makes it suspended, from where it can be reactivated.
  The label of a namespace keeps the tier the tenant had first (`onboarding.go:83`). The unique
  custom domain treats the empty string as a value, so that one tenant only can be
  created without a domain.
* `QueryAuditLog` sorts by `created_at`, the beginning of a transaction that may have
  waited; `SettingsAgreeWithAudit` is about the ids.
* An event is answered "accepted" although the buffer refused it. A stream of the
  health service that its client never ends keeps `GracefulStop`, and with it the
  buffer's drain, waiting until the pod is killed; the stream interceptors
  (`main.go:535`) are not registered.
* During a rollout of a new signing key (`k8s/base/auth/rollout.yaml:150`, in steps of 10 and
  50 percent) realtime and the other replicas of auth refuse tokens of the replicas that have it.
  `JWT_KEY_ID` is fixed in that file (line 88), so a rotation that changes the secret
  alone uses the name again, and caches refuse new tokens for up to five minutes.
* `refresh` reads `c.keys` after its unlock (`realtime/cmd/server/main.go:164`). Another refresh may have just
  emptied the map; a valid token is then refused, or Go ends the process for the
  concurrent access.
* Both replicas of jobs run the cron loop, and both enqueue an entry that is due.
* Invoice events out of order can write an older status over a newer one; two requests
  of a tenant without a customer can both create one in Stripe.
* Migrations 005 and 009 of auth both create `api_keys`; the first one wins, and has no
  column `permissions`. Several services migrate with goose, one version table and
  overlapping numbers.
* `_ = pool.Close()` and `_ = rows.Close()` do not compile with pgx, whose `Close` returns
  nothing; the files that have them are modelled as if they were corrected.

## 6. Hazards

`PROJECT.json` lists them with their lines and properties, and notes what a property leaves
out of its hazard. Without a property are the consumer group that shows a record to one pod's
hub only, and the event of a plan that the tiers refuse; it says why. The cron loop
of jobs has no property either, since jobs are not modelled.

## 7. Plan

Order of importance: data that may be lost (tiering, buffer, edge), money (webhook,
subscriptions), tenants' isolation and delivery (hub, realtime), what all services ask
(flags), events that are forwarded (processing), who is let in (sessions, credentials,
signing keys), and what a tenant is given (tenants). These are modelled, and their safety
is proved. What could come next:

1. Invoices as an extension of `Subscriptions`, with the order of their events.
2. The abstract promise of a session (a chain of tokens, each spent once), with
   `Sessions` as its implementation.
3. The counter of failed logins, if its column gets a type that can hold what the code writes.

## 8. Not modelled

Cryptography and the encoding of tokens, SQL that only reads, wording and encodings, metrics
and tracing, the object format, deployment manifests. ClickHouse, Postgres, Redis,
Kafka, Kubernetes, Keycloak and Stripe are modelled by what the code uses of them: statements
are atomic and may fail, commits of a consumer that lost its partition are refused,
Stripe repeats unanswered deliveries and orders nothing.

Jobs (a library's queue and handlers that only log), the developer portal (reading
the scopes back into a string slice always fails, so that creating a key or a webhook commits and answers 500,
and no delivery is started), notifications (a mail and a row), the relationship graph,
hydration, search, analytics, data quality and the ML engine keep no state that two
steps of their own share; `PROJECT.json` gives the reason for each.
