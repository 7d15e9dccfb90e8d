------------------------------ MODULE Tiering ------------------------------
(***************************************************************************)
(* The ingestion service's tiering job (internal/tiering/job.go) with the  *)
(* Postgres statements and the object-store upload it is made of.  Every   *)
(* replica of the service runs the job, without any lock between them, on  *)
(* one warm_events table and one bucket.  A replica may crash between any  *)
(* two remote calls; a call may fail before or after taking effect.        *)
(*                                                                         *)
(* Data: a row is its parquet_key and archived_at columns.  An object is   *)
(* the set of events in it.  Object keys end in UnixNano, so they never    *)
(* repeat: the n-th object of the bucket has key n, and key 0 is NULL.     *)
(***************************************************************************)
EXTENDS Naturals, Sequences, FiniteSets

CONSTANTS
    Events,      \* event_ids
    OccurredAt,  \* OccurredAt[e]: the occurred_at column of e
    Replicas,    \* pods of the ingestion service
    BatchSize,   \* Config.BatchSize
    MaxClock,    \* bound: the last instant of a run
    MaxFaults    \* bound: crashes and failed calls in a run

ASSUME TieringAssumption ==
    /\ OccurredAt \in [Events -> Nat]
    /\ BatchSize \in Nat \ {0}
    /\ MaxClock \in Nat
    /\ MaxFaults \in Nat

VARIABLES
    clock,       \* now minus Config.ColdThreshold
    ingested,    \* events that have a row in warm_events
    parquetKey,  \* parquetKey[e]: the parquet_key column, 0 when NULL
    archived,    \* events whose archived_at is not NULL
    objects,     \* objects[k]: the events in the object with key k
    pc,          \* pc[r]: where replica r stands in runOnce
    olderThan,   \* olderThan[r]: the run's cutoff
    batch,       \* batch[r]: the events read by GetUnarchived
    key,         \* key[r]: the key returned by WriteParquet
    faults       \* faults that have happened

vars == <<clock, ingested, parquetKey, archived, objects,
          pc, olderThan, batch, key, faults>>

table  == <<ingested, parquetKey, archived>>
worker == <<olderThan, batch, key>>

Steps == {"down", "idle", "recover", "query", "upload", "record", "mark"}

TypeOK ==
    /\ clock \in 0..MaxClock
    /\ ingested \in SUBSET Events
    /\ parquetKey \in [Events -> Nat]
    /\ archived \in SUBSET Events
    /\ objects \in Seq(SUBSET Events)
    /\ pc \in [Replicas -> Steps]
    /\ olderThan \in [Replicas -> Nat]
    /\ batch \in [Replicas -> SUBSET Events]
    /\ key \in [Replicas -> Nat]
    /\ faults \in 0..MaxFaults

Init ==
    /\ clock = 0
    /\ ingested = {}
    /\ parquetKey = [e \in Events |-> 0]
    /\ archived = {}
    /\ objects = <<>>
    /\ pc = [r \in Replicas |-> "idle"]
    /\ olderThan = [r \in Replicas |-> 0]
    /\ batch = [r \in Replicas |-> {}]
    /\ key = [r \in Replicas |-> 0]
    /\ faults = 0

-----------------------------------------------------------------------------
(* The warm table and the bucket.                                          *)

\* Mutant of Unarchived: the age is not tested.
UnarchivedAnyAge(cutoff) == {e \in ingested \ archived : parquetKey[e] = 0}

\* Rows the query of GetUnarchived selects, before ORDER BY and LIMIT.
Unarchived(cutoff) ==
    {e \in ingested \ archived : parquetKey[e] = 0 /\ OccurredAt[e] < cutoff}

\* What ORDER BY occurred_at LIMIT n may return of a set of rows.
Oldest(S, n) ==
    {T \in SUBSET S :
        /\ Cardinality(T) <= n
        /\ Cardinality(T) < n => T = S
        /\ \A t \in T, s \in S \ T : OccurredAt[t] <= OccurredAt[s]}

\* UPDATE ... SET parquet_key = k WHERE event_id = ANY(S) AND parquet_key IS NULL
WithKey(S, k) ==
    [e \in Events |->
        IF e \in S \cap ingested /\ parquetKey[e] = 0 THEN k ELSE parquetKey[e]]

\* Mutant of PendingArchive: the test of archived_at is inverted.
ArchivedAlready == {e \in archived : parquetKey[e] # 0}

\* Rows with a parquet_key but no archived_at.
PendingArchive == {e \in ingested \ archived : parquetKey[e] # 0}

\* A fault happens; the bound keeps runs finite.
Fault ==
    /\ faults < MaxFaults
    /\ faults' = faults + 1

Go(r, step) == pc' = [pc EXCEPT ![r] = step]

-----------------------------------------------------------------------------
(* runOnce, one action per remote call.  Each call succeeds, or reports an *)
(* error without having taken effect, or reports an error although it did. *)

\* The ticker (or the start of Run) begins a run: the cutoff is fixed here.
StartRun(r) ==
    /\ pc[r] = "idle"
    /\ olderThan' = [olderThan EXCEPT ![r] = clock]
    /\ Go(r, "recover")
    /\ UNCHANGED <<clock, table, objects, batch, key, faults>>

\* RecoverPendingArchive; an error is logged and the run goes on, so an error
\* after the effect is no different from success.
Recover(r) ==
    /\ pc[r] = "recover"
    /\ \/ archived' = archived \cup PendingArchive /\ UNCHANGED faults
       \/ UNCHANGED archived /\ Fault
    /\ Go(r, "query")
    /\ UNCHANGED <<clock, ingested, parquetKey, objects, worker>>

\* GetUnarchived returns a batch: an empty one ends the run.
Query(r) ==
    /\ pc[r] = "query"
    /\ \E S \in Oldest(Unarchived(olderThan[r]), BatchSize) :
          /\ batch' = [batch EXCEPT ![r] = S]
          /\ Go(r, IF S = {} THEN "idle" ELSE "upload")
    /\ UNCHANGED <<clock, table, objects, olderThan, key, faults>>

QueryFails(r) ==
    /\ pc[r] = "query"
    /\ Fault
    /\ Go(r, "idle")
    /\ UNCHANGED <<clock, table, objects, worker>>

\* Mutant of Upload: the key returned is that of the object before.
UploadStaleKey(r) ==
    /\ pc[r] = "upload"
    /\ objects' = Append(objects, batch[r])
    /\ key' = [key EXCEPT ![r] = Len(objects)]
    /\ Go(r, "record")
    /\ UNCHANGED <<clock, table, olderThan, batch, faults>>

\* WriteParquet puts the batch in a new object.
Upload(r) ==
    /\ pc[r] = "upload"
    /\ objects' = Append(objects, batch[r])
    /\ key' = [key EXCEPT ![r] = Len(objects) + 1]
    /\ Go(r, "record")
    /\ UNCHANGED <<clock, table, olderThan, batch, faults>>

UploadFails(r) ==
    /\ pc[r] = "upload"
    /\ Fault
    /\ objects' \in {objects, Append(objects, batch[r])}
    /\ Go(r, "idle")
    /\ UNCHANGED <<clock, table, worker>>

\* RecordParquetKey; an error ends the run and leaves the object behind.
Record(r) ==
    /\ pc[r] = "record"
    /\ parquetKey' = WithKey(batch[r], key[r])
    /\ Go(r, "mark")
    /\ UNCHANGED <<clock, ingested, archived, objects, worker, faults>>

RecordFails(r) ==
    /\ pc[r] = "record"
    /\ Fault
    /\ parquetKey' \in {parquetKey, WithKey(batch[r], key[r])}
    /\ Go(r, "idle")
    /\ UNCHANGED <<clock, ingested, archived, objects, worker>>

\* A full batch means there may be more; a short one ends the run.
AfterBatch(r) == IF Cardinality(batch[r]) < BatchSize THEN "idle" ELSE "query"

\* Mutant of Mark: rows are marked by age instead of by event_id.
MarkByAge(r) ==
    /\ pc[r] = "mark"
    /\ archived' = archived \cup {e \in ingested : OccurredAt[e] < olderThan[r]}
    /\ Go(r, AfterBatch(r))
    /\ UNCHANGED <<clock, ingested, parquetKey, objects, worker, faults>>

\* UPDATE warm_events SET archived_at: of the rows that are there.
MarkArchived(events) == archived' = archived \cup (events \cap ingested)

\* An error of MarkArchived is only logged here too.
Mark(r) ==
    /\ pc[r] = "mark"
    /\ \/ MarkArchived(batch[r]) /\ UNCHANGED faults
       \/ UNCHANGED archived /\ Fault
    /\ Go(r, AfterBatch(r))
    /\ UNCHANGED <<clock, ingested, parquetKey, objects, worker>>

-----------------------------------------------------------------------------
(* The environment.                                                        *)

\* A pod is killed in the middle of a run; all it remembers is lost.
Crash(r) ==
    /\ pc[r] \notin {"down", "idle"}
    /\ Fault
    /\ Go(r, "down")
    /\ UNCHANGED <<clock, table, objects, worker>>

Restart(r) ==
    /\ pc[r] = "down"
    /\ Go(r, "idle")
    /\ UNCHANGED <<clock, table, objects, worker, faults>>

\* InsertWarmEvents: a batch of events that have happened by now; an
\* event_id that has a row already is left as it is.
InsertWarmEvents(S) ==
    /\ ingested' = ingested \cup S
    /\ UNCHANGED <<clock, parquetKey, archived, objects, pc, worker, faults>>

Tick ==
    /\ clock < MaxClock
    /\ clock' = clock + 1
    /\ UNCHANGED <<table, objects, pc, worker, faults>>

Environment ==
    \/ Tick
    \/ \E S \in SUBSET Events : S # {} /\ InsertWarmEvents(S)

Step(r) ==
    StartRun(r) \/ Recover(r) \/ Query(r) \/ Upload(r) \/ Record(r) \/ Mark(r)

Failure(r) == QueryFails(r) \/ UploadFails(r) \/ RecordFails(r) \/ Crash(r)

Next ==
    \/ \E r \in Replicas : Step(r) \/ Failure(r) \/ Restart(r)
    \/ Environment

Spec == Init /\ [][Next]_vars

(* Time passes, kubelet restarts pods, and a replica that is up works on:  *)
(* the ticker fires for ever and every remote call returns.                *)
FairSpec ==
    /\ Spec
    /\ WF_vars(Tick)
    /\ \A r \in Replicas : WF_vars(Step(r)) /\ WF_vars(Restart(r))

-----------------------------------------------------------------------------
(* Properties.                                                             *)

\* The events of an object; an absent key names nothing.
Object(k) == IF k \in DOMAIN objects THEN objects[k] ELSE {}

\* Events with at least one copy in the bucket.
Stored == {e \in Events : \E k \in DOMAIN objects : e \in objects[k]}

\* A row never points at an object that does not hold it, archived or not:
\* RecoverPendingArchive relies on it when it archives without looking.
KeyResolves == \A e \in Events : parquetKey[e] # 0 => e \in Object(parquetKey[e])

\* A row marked archived can be read back from the object its parquet_key
\* names, whatever crashed, failed or ran concurrently (runOnce's order of
\* upload, RecordParquetKey, MarkArchived).
ArchivedIsReadable == \A e \in archived : e \in Object(parquetKey[e])

\* The first recorded key stays, and an archived row stays archived: a reader
\* who resolved an event once resolves it to the same object ever after.
ArchiveIsStable ==
    [][/\ archived \subseteq archived'
       /\ \A e \in Events : parquetKey[e] # 0 => parquetKey'[e] = parquetKey[e]]_vars

\* Every event that is old enough ends up archived, faults notwithstanding.
OldEventsArchived ==
    \A e \in Events :
        (e \in ingested /\ OccurredAt[e] < MaxClock) ~> (e \in archived)

\* The job implements the abstract archive.
Archive == INSTANCE ColdArchive WITH stored <- Stored
ArchiveSpec == Archive!Spec
=============================================================================
