--------------------------- MODULE TieringProofs ---------------------------
(***************************************************************************)
(* Proofs about Tiering, for any number of events and replicas, any batch  *)
(* size and any bounds: whatever crashes or fails, and however the runs of *)
(* the replicas interleave, an archived row is readable, keys are stable,  *)
(* and the job implements ColdArchive.                                     *)
(***************************************************************************)
EXTENDS Tiering, TLAPS

-----------------------------------------------------------------------------
(* The inductive invariant.                                                *)

\* A row is archived only after its parquet_key has been recorded.
ArchivedHasKey == \A e \in archived : parquetKey[e] # 0

\* What a replica carries from one remote call to the next: a batch of rows
\* that exist and are older than the cutoff; from the upload on, the key of an
\* object that holds them; from RecordParquetKey on, rows that have some key.
CarriesOld(r) ==
    /\ olderThan[r] <= clock
    /\ pc[r] \in {"upload", "record", "mark"} =>
          \A e \in batch[r] : e \in ingested /\ OccurredAt[e] < clock

CarriesKey(r) ==
    /\ pc[r] = "record" => key[r] \in DOMAIN objects /\ batch[r] \subseteq objects[key[r]]
    /\ pc[r] = "mark" => \A e \in batch[r] : parquetKey[e] # 0

Inv ==
    /\ TypeOK
    /\ KeyResolves
    /\ ArchivedHasKey
    /\ \A r \in Replicas : CarriesOld(r) /\ CarriesKey(r)

-----------------------------------------------------------------------------
\* UPDATE ... SET parquet_key keeps the keys it finds, gives every ingested row
\* of the batch some key, and changes a row only to the key it was called with.
LEMMA WithKeyFacts ==
    ASSUME TypeOK, NEW S \in SUBSET Events, NEW k \in Nat
    PROVE  /\ WithKey(S, k) \in [Events -> Nat]
           /\ \A e \in Events : parquetKey[e] # 0 => WithKey(S, k)[e] = parquetKey[e]
           /\ \A e \in Events : WithKey(S, k)[e] # parquetKey[e] => e \in S /\ WithKey(S, k)[e] = k
           /\ k # 0 => \A e \in S \cap ingested : WithKey(S, k)[e] # 0
BY DEF TypeOK, WithKey

\* A new object leaves the older ones where they are, under their keys.
LEMMA AppendFacts ==
    ASSUME TypeOK, NEW S \in SUBSET Events
    PROVE  /\ Append(objects, S) \in Seq(SUBSET Events)
           /\ DOMAIN Append(objects, S) = DOMAIN objects \cup {Len(objects) + 1}
           /\ \A k \in DOMAIN objects : Append(objects, S)[k] = objects[k]
           /\ Append(objects, S)[Len(objects) + 1] = S
           /\ Len(objects) \in Nat
           /\ Len(objects) + 1 # 0
BY DEF TypeOK

LEMMA InitInv == Init => Inv
BY TieringAssumption
   DEF Init, Inv, TypeOK, Steps, KeyResolves, ArchivedHasKey, CarriesOld, CarriesKey, Object

\* Every step keeps the variables in their types.
LEMMA TypeStep == TypeOK /\ [Next]_vars => TypeOK'
<1> SUFFICES ASSUME TypeOK, [Next]_vars PROVE TypeOK'
    OBVIOUS
<1> USE TieringAssumption DEF TypeOK, Steps, Go, Fault, table, worker
<1>1. ASSUME NEW r \in Replicas, StartRun(r) PROVE TypeOK'
    BY <1>1 DEF StartRun
<1>2. ASSUME NEW r \in Replicas, Recover(r) PROVE TypeOK'
    BY <1>2 DEF Recover, PendingArchive
<1>3. ASSUME NEW r \in Replicas, Query(r) PROVE TypeOK'
  <2>1. PICK S \in Oldest(Unarchived(olderThan[r]), BatchSize) :
           /\ batch' = [batch EXCEPT ![r] = S]
           /\ Go(r, IF S = {} THEN "idle" ELSE "upload")
    BY <1>3 DEF Query
  <2>2. S \in SUBSET Events
    BY <2>1 DEF Oldest, Unarchived
  <2> QED
    BY <1>3, <2>1, <2>2 DEF Query
<1>4. ASSUME NEW r \in Replicas, Upload(r) PROVE TypeOK'
    BY <1>4, AppendFacts DEF Upload
<1>5. ASSUME NEW r \in Replicas, Record(r) PROVE TypeOK'
    BY <1>5, WithKeyFacts DEF Record
<1>6. ASSUME NEW r \in Replicas, Mark(r) PROVE TypeOK'
  <2>1. AfterBatch(r) \in Steps
    BY DEF AfterBatch
  <2> QED
    BY <1>6, <2>1 DEF Mark, MarkArchived
<1>7. ASSUME NEW r \in Replicas, Failure(r) PROVE TypeOK'
  <2>1. ASSUME QueryFails(r) PROVE TypeOK'
    BY <2>1 DEF QueryFails
  <2>2. ASSUME UploadFails(r) PROVE TypeOK'
    <3>1. objects' \in Seq(SUBSET Events)
      BY <2>2, AppendFacts, batch[r] \in SUBSET Events DEF UploadFails
    <3> QED
      BY <2>2, <3>1 DEF UploadFails
  <2>3. ASSUME RecordFails(r) PROVE TypeOK'
    <3>1. batch[r] \in SUBSET Events /\ key[r] \in Nat
      OBVIOUS
    <3>2. WithKey(batch[r], key[r]) \in [Events -> Nat]
      BY <3>1, WithKeyFacts, Zenon
    <3> QED
      BY <2>3, <3>2 DEF RecordFails
  <2>4. ASSUME Crash(r) PROVE TypeOK'
    BY <2>4 DEF Crash
  <2> QED
    BY <1>7, <2>1, <2>2, <2>3, <2>4 DEF Failure
<1>8. ASSUME NEW r \in Replicas, Restart(r) PROVE TypeOK'
    BY <1>8 DEF Restart
<1>9. CASE Environment
    BY <1>9 DEF Environment, Tick, InsertWarmEvents
<1>10. CASE UNCHANGED vars
    BY <1>10 DEF vars
<1> QED
    BY <1>1, <1>2, <1>3, <1>4, <1>5, <1>6, <1>7, <1>8, <1>9, <1>10 DEF Next, Step

-----------------------------------------------------------------------------
(* Nothing the job has done is ever taken back.                            *)

Grows ==
    /\ clock <= clock'
    /\ ingested \subseteq ingested'
    /\ archived \subseteq archived'
    /\ \A e \in Events : parquetKey[e] # 0 => parquetKey'[e] = parquetKey[e]
    /\ DOMAIN objects \subseteq DOMAIN objects'
    /\ \A k \in DOMAIN objects : objects'[k] = objects[k]

LEMMA GrowsStep == TypeOK /\ [Next]_vars => Grows
<1> SUFFICES ASSUME TypeOK, [Next]_vars PROVE Grows
    OBVIOUS
<1>1. clock <= clock' /\ ingested \subseteq ingested' /\ archived \subseteq archived'
    BY DEF TypeOK, Next, Step, Failure, Environment, vars, table, worker, StartRun, Recover,
           Query, QueryFails, Upload, UploadFails, Record, RecordFails, Mark, MarkArchived, Crash, Restart,
           InsertWarmEvents, Tick
<1>2. \/ UNCHANGED parquetKey
      \/ \E r \in Replicas : parquetKey' = WithKey(batch[r], key[r])
    BY DEF Next, Step, Failure, Environment, vars, table, worker, StartRun, Recover, Query,
           QueryFails, Upload, UploadFails, Record, RecordFails, Mark, MarkArchived, Crash, Restart,
           InsertWarmEvents, Tick
<1>3. \A e \in Events : parquetKey[e] # 0 => parquetKey'[e] = parquetKey[e]
    BY <1>2 DEF WithKey, TypeOK
<1>4. \/ UNCHANGED objects
      \/ \E r \in Replicas : objects' = Append(objects, batch[r])
    BY DEF Next, Step, Failure, Environment, vars, table, worker, StartRun, Recover, Query,
           QueryFails, Upload, UploadFails, Record, RecordFails, Mark, MarkArchived, Crash, Restart,
           InsertWarmEvents, Tick
<1>5. /\ DOMAIN objects \subseteq DOMAIN objects'
      /\ \A k \in DOMAIN objects : objects'[k] = objects[k]
  <2>1. CASE UNCHANGED objects
    BY <2>1
  <2>2. ASSUME NEW r \in Replicas, objects' = Append(objects, batch[r])
        PROVE  /\ DOMAIN objects \subseteq DOMAIN objects'
               /\ \A k \in DOMAIN objects : objects'[k] = objects[k]
    BY <2>2, AppendFacts, batch[r] \in SUBSET Events DEF TypeOK
  <2> QED
    BY <1>4, <2>1, <2>2
<1> QED
    BY <1>1, <1>3, <1>5 DEF Grows

-----------------------------------------------------------------------------
(* Each part of the invariant is preserved.                                *)

\* Only RecordParquetKey changes a key, and only to the key of the object that
\* the replica has just written its batch to.
LEMMA KeyResolvesStep == Inv /\ [Next]_vars => KeyResolves'
<1> SUFFICES ASSUME Inv, [Next]_vars,
                    NEW e \in Events, parquetKey'[e] # 0
             PROVE  e \in Object(parquetKey[e])'
    BY DEF KeyResolves
<1>1. Grows
    BY GrowsStep DEF Inv
<1>2. CASE parquetKey'[e] = parquetKey[e]
    BY <1>1, <1>2 DEF Inv, KeyResolves, Object, Grows
<1>3. CASE parquetKey'[e] # parquetKey[e]
  <2>1. PICK r \in Replicas : /\ pc[r] = "record"
                              /\ parquetKey' = WithKey(batch[r], key[r])
                              /\ UNCHANGED objects
    BY <1>3 DEF Next, Step, Failure, Environment, vars, table, worker, StartRun, Recover,
           Query, QueryFails, Upload, UploadFails, Record, RecordFails, Mark, MarkArchived, Crash, Restart,
           InsertWarmEvents, Tick
  <2>2. key[r] \in DOMAIN objects /\ batch[r] \subseteq objects[key[r]]
    BY <2>1 DEF Inv, CarriesKey
  <2>3. e \in batch[r] /\ parquetKey'[e] = key[r]
    BY <1>3, <2>1 DEF WithKey, Inv, TypeOK
  <2> QED
    BY <2>1, <2>2, <2>3 DEF Object
<1> QED
    BY <1>2, <1>3

\* A row is archived by RecoverPendingArchive, which asks for a key, or by
\* MarkArchived, whose batch has keys.
LEMMA ArchivedHasKeyStep == Inv /\ [Next]_vars => ArchivedHasKey'
<1> SUFFICES ASSUME Inv, [Next]_vars, NEW e \in archived' PROVE parquetKey'[e] # 0
    BY DEF ArchivedHasKey
<1>1. Grows
    BY GrowsStep DEF Inv
<1>2. e \in Events /\ parquetKey[e] # 0
  <2>1. CASE e \in archived
    BY <2>1 DEF Inv, ArchivedHasKey, TypeOK
  <2>2. CASE e \notin archived
    <3>1. \/ e \in PendingArchive
          \/ \E r \in Replicas : pc[r] = "mark" /\ e \in batch[r]
      BY <2>2 DEF Next, Step, Failure, Environment, vars, table, worker, StartRun, Recover,
           Query, QueryFails, Upload, UploadFails, Record, RecordFails, Mark, MarkArchived, Crash, Restart,
           InsertWarmEvents, Tick
    <3> QED
      BY <3>1 DEF PendingArchive, Inv, TypeOK, CarriesKey
  <2> QED
    BY <2>1, <2>2
<1> QED
    BY <1>1, <1>2 DEF Grows

\* What a replica carries stays true while others work, and each of its own
\* calls establishes what the next one relies on.
LEMMA CarriesStep ==
    ASSUME Inv, [Next]_vars, TypeOK', NEW q \in Replicas
    PROVE  CarriesOld(q)' /\ CarriesKey(q)'
<1> USE DEF Inv
<1>1. Grows
    BY GrowsStep
<1>2. CASE pc'[q] = pc[q] /\ olderThan'[q] = olderThan[q] /\ batch'[q] = batch[q] /\ key'[q] = key[q]
  <2>1. CarriesOld(q)'
    <3>1. olderThan[q] \in Nat /\ clock \in Nat /\ clock' \in Nat /\ batch[q] \in SUBSET Events
      BY DEF TypeOK
    <3>2. \A e \in batch[q] : OccurredAt[e] \in Nat
      BY <3>1, TieringAssumption
    <3> QED
      BY <1>1, <1>2, <3>1, <3>2 DEF CarriesOld, Grows
  <2>2. CarriesKey(q)'
    BY <1>1, <1>2, batch[q] \in SUBSET Events DEF CarriesKey, Grows, TypeOK
  <2> QED
    BY <2>1, <2>2
<1>3. CASE StartRun(q)
    BY <1>3 DEF StartRun, Go, CarriesOld, CarriesKey, TypeOK, Steps
<1>4. CASE Recover(q) \/ QueryFails(q) \/ UploadFails(q) \/ RecordFails(q) \/ Mark(q) \/ Crash(q)
              \/ Restart(q)
  <2>1. \E s \in {"query", "idle", "down"} : pc' = [pc EXCEPT ![q] = s]
    <3>1. Go(q, "query") \/ Go(q, "idle") \/ Go(q, "down")
      BY <1>4 DEF Recover, QueryFails, UploadFails, RecordFails, Mark, MarkArchived, Crash, Restart, AfterBatch
    <3> QED
      BY <3>1 DEF Go
  <2>2. UNCHANGED <<clock, olderThan>>
    BY <1>4 DEF Recover, QueryFails, UploadFails, RecordFails, Mark, MarkArchived, Crash, Restart, worker
  <2>3. pc'[q] \in {"query", "idle", "down"}
    BY <2>1 DEF TypeOK
  <2> QED
    BY <2>2, <2>3 DEF CarriesOld, CarriesKey
<1>5. CASE Query(q)
  <2>1. PICK S \in Oldest(Unarchived(olderThan[q]), BatchSize) :
           /\ batch' = [batch EXCEPT ![q] = S]
           /\ Go(q, IF S = {} THEN "idle" ELSE "upload")
    BY <1>5 DEF Query
  <2>2. S \subseteq Unarchived(olderThan[q])
    BY <2>1 DEF Oldest
  <2>3. batch'[q] = S /\ pc'[q] \in {"idle", "upload"} /\ UNCHANGED <<clock, ingested, olderThan>>
    BY <1>5, <2>1 DEF Query, Go, TypeOK, table
  <2>4. \A e \in S : e \in ingested /\ OccurredAt[e] < clock
    <3> TAKE e \in S
    <3>1. e \in ingested /\ e \in Events /\ OccurredAt[e] < olderThan[q]
      BY <2>2 DEF Unarchived, TypeOK
    <3>2. OccurredAt[e] \in Nat /\ olderThan[q] \in Nat /\ clock \in Nat /\ olderThan[q] <= clock
      BY <3>1, TieringAssumption DEF TypeOK, CarriesOld
    <3> QED
      BY <3>1, <3>2
  <2> QED
    BY <2>3, <2>4 DEF CarriesOld, CarriesKey
<1>6. CASE Upload(q)
  <2>1. /\ objects' = Append(objects, batch[q])
        /\ pc'[q] = "record"
        /\ key'[q] = Len(objects) + 1
        /\ UNCHANGED <<clock, ingested, olderThan, batch>>
    BY <1>6 DEF Upload, Go, TypeOK, table
  <2>2. batch[q] \in SUBSET Events /\ pc[q] = "upload"
    BY <1>6 DEF Upload, TypeOK
  <2>3. Len(objects) + 1 \in DOMAIN objects' /\ objects'[Len(objects) + 1] = batch[q]
    BY <2>1, <2>2, AppendFacts, Zenon
  <2> QED
    BY <2>1, <2>2, <2>3 DEF CarriesOld, CarriesKey
<1>7. CASE Record(q)
  <2>1. /\ parquetKey' = WithKey(batch[q], key[q])
        /\ pc'[q] = "mark"
        /\ pc[q] = "record"
        /\ UNCHANGED <<clock, ingested, olderThan, batch>>
    BY <1>7 DEF Record, Go, TypeOK, worker
  <2>2. batch[q] \in SUBSET Events /\ key[q] \in Nat \ {0}
    BY <2>1 DEF TypeOK, CarriesKey
  <2>3. \A e \in batch[q] : e \in ingested /\ OccurredAt[e] < clock
    BY <2>1 DEF CarriesOld
  <2>4. \A e \in batch[q] : parquetKey'[e] # 0
    BY <2>1, <2>2, <2>3, WithKeyFacts, ZenonT(30)
  <2> QED
    BY <2>1, <2>3, <2>4 DEF CarriesOld, CarriesKey
<1> QED
  <2>1. CASE \E r \in Replicas : Step(r) \/ Failure(r) \/ Restart(r)
    <3>1. PICK r \in Replicas : Step(r) \/ Failure(r) \/ Restart(r)
      BY <2>1
    <3>2. CASE r # q
      <4>1. /\ pc'[q] = pc[q] /\ olderThan'[q] = olderThan[q]
            /\ batch'[q] = batch[q] /\ key'[q] = key[q]
        BY <3>1, <3>2 DEF Step, Failure, table, worker, StartRun, Recover, Query, QueryFails,
           Upload, UploadFails, Record, RecordFails, Mark, MarkArchived, Crash, Restart, Go, TypeOK
      <4> QED
        BY <1>2, <4>1
    <3>3. CASE r = q
      BY <3>1, <3>3, <1>3, <1>4, <1>5, <1>6, <1>7 DEF Step, Failure
    <3> QED
      BY <3>2, <3>3
  <2>2. CASE Environment \/ UNCHANGED vars
    <3>1. UNCHANGED <<pc, olderThan, batch, key>>
      BY <2>2 DEF Environment, Tick, InsertWarmEvents, vars, table, worker
    <3> QED
      BY <1>2, <3>1
  <2> QED
    BY <2>1, <2>2 DEF Next

LEMMA InvStep == Inv /\ [Next]_vars => Inv'
<1> SUFFICES ASSUME Inv, [Next]_vars PROVE Inv'
    OBVIOUS
<1>1. TypeOK'
    BY TypeStep DEF Inv
<1>2. \A r \in Replicas : CarriesOld(r)' /\ CarriesKey(r)'
    BY <1>1, CarriesStep
<1> QED
    BY <1>1, <1>2, KeyResolvesStep, ArchivedHasKeyStep DEF Inv

-----------------------------------------------------------------------------
(* The theorems.                                                           *)

LEMMA Invariance == Spec => []Inv
<1>1. Init => Inv
    BY InitInv
<1>2. Inv /\ [Next]_vars => Inv'
    BY InvStep
<1> QED
    BY <1>1, <1>2, PTL DEF Spec

\* The columns, the bucket and what each replica of the job carries keep their
\* types in every run.
THEOREM TypeCorrect == Spec => []TypeOK
<1>1. Inv => TypeOK
    BY DEF Inv
<1> QED
    BY <1>1, Invariance, PTL

\* A parquet_key never names an object without the row's event, although
\* RecordParquetKey writes the key of an object uploaded some steps before.
THEOREM KeysResolve == Spec => []KeyResolves
<1>1. Inv => KeyResolves
    BY DEF Inv
<1> QED
    BY <1>1, Invariance, PTL

\* An archived row can be read from the cold store, whatever crashed or failed
\* between the upload, RecordParquetKey and MarkArchived.
THEOREM ArchivedReadable == Spec => []ArchivedIsReadable
<1>1. Inv => ArchivedIsReadable
    BY DEF Inv, KeyResolves, ArchivedHasKey, ArchivedIsReadable, TypeOK
<1> QED
    BY <1>1, Invariance, PTL

\* No call of any replica takes an archived mark back or moves a row to another
\* object.
THEOREM ArchiveStable == Spec => ArchiveIsStable
<1>1. Inv /\ [Next]_vars =>
        [/\ archived \subseteq archived'
         /\ \A e \in Events : parquetKey[e] # 0 => parquetKey'[e] = parquetKey[e]]_vars
    BY GrowsStep DEF Inv, Grows
<1> QED
    BY <1>1, Invariance, PTL DEF Spec, ArchiveIsStable

-----------------------------------------------------------------------------
(* The job implements the abstract archive.                                *)

\* Putting an object stores its events and forgets none.
LEMMA StoredFacts ==
    ASSUME TypeOK, NEW S \in SUBSET Events, objects' = Append(objects, S)
    PROVE  Stored' = Stored \cup S
<1>1. /\ DOMAIN objects' = DOMAIN objects \cup {Len(objects) + 1}
      /\ \A k \in DOMAIN objects : objects'[k] = objects[k]
      /\ objects'[Len(objects) + 1] = S
    BY AppendFacts
<1> QED
    BY <1>1 DEF Stored

\* Every step of the job is a step of the archive or changes nothing it sees:
\* uploads store, RecoverPendingArchive and MarkArchived archive.
LEMMA ArchiveStep == Inv /\ [Next]_vars => [Archive!Next]_(Archive!vars)
<1> SUFFICES ASSUME Inv, [Next]_vars PROVE [Archive!Next]_(Archive!vars)
    OBVIOUS
<1>1. TypeOK /\ TypeOK'
    BY TypeStep DEF Inv
<1>2. CASE UNCHANGED <<clock, ingested, objects, archived>>
    BY <1>2 DEF Archive!vars, Stored
<1>3. ASSUME NEW S \in SUBSET Events, archived' = archived \cup S,
             UNCHANGED <<clock, ingested, objects>>,
             \A e \in S : parquetKey[e] # 0
      PROVE  Archive!Next
  <2>1. S \subseteq Stored
    BY <1>3 DEF Inv, KeyResolves, Object, Stored
  <2>2. Archive!Archive(S)
    BY <1>3, <2>1 DEF Archive!Archive, Stored
  <2> QED
    BY <2>2 DEF Archive!Next
<1>4. ASSUME NEW r \in Replicas, pc[r] = "upload", objects' = Append(objects, batch[r]),
             UNCHANGED <<clock, ingested, archived>>
      PROVE  Archive!Next
  <2>1. batch[r] \in SUBSET Events
    BY <1>1 DEF TypeOK
  <2>2. Stored' = Stored \cup batch[r]
    BY <1>1, <1>4, <2>1, StoredFacts
  <2>3. \A e \in batch[r] : e \in ingested /\ OccurredAt[e] < clock
    BY <1>4 DEF Inv, CarriesOld
  <2>4. Archive!Store(batch[r])
    BY <1>4, <2>2, <2>3 DEF Archive!Store
  <2> QED
    BY <2>1, <2>4 DEF Archive!Next
<1>5. CASE Environment
  <2>1. CASE Tick
    BY <2>1 DEF Tick, Archive!Next, Archive!Tick, Stored, table
  <2>2. ASSUME NEW S \in SUBSET Events, InsertWarmEvents(S) PROVE Archive!Next
    BY <2>2 DEF InsertWarmEvents, Archive!Next, Archive!Ingest, Stored
  <2> QED
    BY <1>5, <2>1, <2>2 DEF Environment
<1>6. ASSUME NEW r \in Replicas, Step(r) \/ Failure(r) \/ Restart(r)
      PROVE  [Archive!Next]_(Archive!vars)
  <2>1. CASE Recover(r)
    <3>1. PendingArchive \in SUBSET Events /\ \A e \in PendingArchive : parquetKey[e] # 0
      BY <1>1 DEF TypeOK, PendingArchive
    <3> QED
      BY <2>1, <3>1, <1>2, <1>3 DEF Recover
  <2>2. CASE Mark(r)
    <3>1. /\ batch[r] \cap ingested \in SUBSET Events
          /\ \A e \in batch[r] \cap ingested : parquetKey[e] # 0
      BY <1>1, <2>2 DEF TypeOK, Inv, CarriesKey, Mark, MarkArchived
    <3> QED
      BY <2>2, <3>1, <1>2, <1>3 DEF Mark, MarkArchived
  <2>3. CASE Upload(r) \/ UploadFails(r)
    BY <2>3, <1>2, <1>4 DEF Upload, UploadFails, table
  <2>4. CASE StartRun(r) \/ Query(r) \/ QueryFails(r) \/ Record(r) \/ RecordFails(r)
                 \/ Crash(r) \/ Restart(r)
    BY <2>4, <1>2 DEF StartRun, Query, QueryFails, Record, RecordFails, Crash, Restart, table
  <2> QED
    BY <1>6, <2>1, <2>2, <2>3, <2>4 DEF Step, Failure
<1> QED
    BY <1>2, <1>5, <1>6 DEF Next, vars, table

\* The tiering job, with its batches, keys, crashes and concurrent runs, does
\* no more than ColdArchive allows: it copies only rows that exist and are old
\* enough, archives only what it has copied, and takes nothing back.
THEOREM TieringImplementsArchive == Spec => ArchiveSpec
<1>1. Init => Archive!Init
    BY DEF Init, Archive!Init, Stored
<1>2. Inv /\ [Next]_vars => [Archive!Next]_(Archive!vars)
    BY ArchiveStep
<1> QED
    BY <1>1, <1>2, Invariance, PTL DEF Spec, ArchiveSpec, Archive!Spec
=============================================================================
