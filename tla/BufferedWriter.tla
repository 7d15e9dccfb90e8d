--------------------------- MODULE BufferedWriter ---------------------------
(***************************************************************************)
(* The ingestion service's buffer in front of ClickHouse                   *)
(* (internal/clickhouse/buffer.go): HTTP handlers Enqueue rows on a        *)
(* bounded channel, a pool of workers collects them in batches and writes  *)
(* each batch, and Close stops the workers at shutdown.  Every row is      *)
(* enqueued by a goroutine of its own, so callers, workers and Close all   *)
(* interleave; a Go select with several ready cases takes any of them.     *)
(***************************************************************************)
EXTENDS Naturals, Sequences, FiniteSets, Functions

CONSTANTS
    Rows,      \* the rows that handlers may enqueue
    Workers,   \* BufferConfig.Workers
    MaxSize    \* BufferConfig.MaxSize: rows per batch

\* NewBufferedWriter replaces a size or a number of workers that is not positive.
ASSUME BufferAssumption ==
    /\ MaxSize \in Nat \ {0}
    /\ Workers # {} /\ IsFiniteSet(Workers)

VARIABLES
    caller,    \* caller[r]: how far Enqueue(r) is, and what it returned
    ch,        \* bw.ch
    done,      \* bw.done is closed
    closer,    \* the goroutine that calls Close: open, waiting, returned
    pc,        \* pc[w]: where runWorker(w) stands
    batch,     \* batch[w]: the rows worker w has taken and not yet written
    stored,    \* rows ClickHouse has
    failed,    \* rows of a batch whose WriteBatch failed: logged and forgotten
    raced      \* history: rows whose Enqueue had passed its first select, and
               \* not its second, when done was closed

bufferVars == <<caller, ch, done, closer, pc, batch, stored, failed, raced>>

Capacity == MaxSize * Cardinality(Workers)

BufferTypeOK ==
    /\ caller \in [Rows -> {"idle", "checked", "accepted", "refused"}]
    /\ ch \in Seq(Rows) /\ Len(ch) <= Capacity
    /\ done \in BOOLEAN
    /\ closer \in {"open", "waiting", "returned"}
    /\ pc \in [Workers -> {"select", "write", "drain", "final", "stopped"}]
    /\ batch \in [Workers -> SUBSET Rows]
    /\ stored \in SUBSET Rows
    /\ failed \in SUBSET Rows
    /\ raced \in SUBSET Rows

BufferInit ==
    /\ caller = [r \in Rows |-> "idle"]
    /\ ch = <<>>
    /\ done = FALSE
    /\ closer = "open"
    /\ pc = [w \in Workers |-> "select"]
    /\ batch = [w \in Workers |-> {}]
    /\ stored = {}
    /\ failed = {}
    /\ raced = {}

-----------------------------------------------------------------------------
(* Enqueue.                                                                *)

Return(r, result) == caller' = [caller EXCEPT ![r] = result]

\* Mutant of EnqueueCheck: no first select.
EnqueueUnchecked(r) ==
    /\ caller[r] = "idle"
    /\ Return(r, "checked")
    /\ UNCHANGED <<ch, done, closer, pc, batch, stored, failed, raced>>

\* The first select: a closed writer refuses.
EnqueueCheck(r) ==
    /\ caller[r] = "idle"
    /\ Return(r, IF done THEN "refused" ELSE "checked")
    /\ UNCHANGED <<ch, done, closer, pc, batch, stored, failed, raced>>

\* The second select sends when there is room, also on a closed writer ...
EnqueueSend(r) ==
    /\ caller[r] = "checked"
    /\ Len(ch) < Capacity
    /\ ch' = Append(ch, r)
    /\ Return(r, "accepted")
    /\ UNCHANGED <<done, closer, pc, batch, stored, failed, raced>>

\* ... and refuses when the writer is closed or, by default, when it is full.
EnqueueRefuse(r) ==
    /\ caller[r] = "checked"
    /\ done \/ Len(ch) >= Capacity
    /\ Return(r, "refused")
    /\ UNCHANGED <<ch, done, closer, pc, batch, stored, failed, raced>>

-----------------------------------------------------------------------------
(* runWorker.                                                              *)

Go(w, label) == pc' = [pc EXCEPT ![w] = label]

\* A row from the channel joins the batch; a full batch is flushed at once.
Receive(w) ==
    /\ pc[w] = "select"
    /\ ch # <<>>
    /\ ch' = Tail(ch)
    /\ batch' = [batch EXCEPT ![w] = @ \cup {Head(ch)}]
    /\ Go(w, IF Cardinality(batch[w]) + 1 >= MaxSize THEN "write" ELSE "select")
    /\ UNCHANGED <<caller, done, closer, stored, failed, raced>>

\* Mutant of Interval: the ticker leaves a batch that is not full.
IntervalFull(w) ==
    /\ pc[w] = "select"
    /\ Cardinality(batch[w]) >= MaxSize
    /\ Go(w, "write")
    /\ UNCHANGED <<caller, ch, done, closer, batch, stored, failed, raced>>

\* The ticker flushes what there is.
Interval(w) ==
    /\ pc[w] = "select"
    /\ batch[w] # {}
    /\ Go(w, "write")
    /\ UNCHANGED <<caller, ch, done, closer, batch, stored, failed, raced>>

\* WriteBatch stores all rows, or fails; batch[:0] empties the batch anyway.
WriteBatch(w) ==
    /\ \/ stored' = stored \cup batch[w] /\ UNCHANGED failed
       \/ failed' = failed \cup batch[w] /\ UNCHANGED stored
    /\ batch' = [batch EXCEPT ![w] = {}]

Flush(w) ==
    /\ pc[w] = "write"
    /\ WriteBatch(w)
    /\ Go(w, "select")
    /\ UNCHANGED <<caller, ch, done, closer, raced>>

\* Mutants of SeeDone: the drain begins with a fresh batch; a worker with an
\* empty batch goes on waiting for rows.
SeeDoneFreshBatch(w) ==
    /\ pc[w] = "select"
    /\ done
    /\ Go(w, "drain")
    /\ batch' = [batch EXCEPT ![w] = {}]
    /\ UNCHANGED <<caller, ch, done, closer, stored, failed, raced>>

SeeDoneWithRows(w) ==
    /\ pc[w] = "select"
    /\ done
    /\ batch[w] # {}
    /\ Go(w, "drain")
    /\ UNCHANGED <<caller, ch, done, closer, batch, stored, failed, raced>>

\* The select takes <-bw.done: from now on the worker only drains.
SeeDone(w) ==
    /\ pc[w] = "select"
    /\ done
    /\ Go(w, "drain")
    /\ UNCHANGED <<caller, ch, done, closer, batch, stored, failed, raced>>

\* The drain loop takes a row; it has no limit on the batch.
DrainReceive(w) ==
    /\ pc[w] = "drain"
    /\ ch # <<>>
    /\ ch' = Tail(ch)
    /\ batch' = [batch EXCEPT ![w] = @ \cup {Head(ch)}]
    /\ UNCHANGED <<caller, done, closer, pc, stored, failed, raced>>

\* The drain loop finds the channel empty and goes on to its last flush.
DrainEmpty(w) ==
    /\ pc[w] = "drain"
    /\ ch = <<>>
    /\ Go(w, "final")
    /\ UNCHANGED <<caller, ch, done, closer, batch, stored, failed, raced>>

\* The last flush, and wg.Done.
FinalFlush(w) ==
    /\ pc[w] = "final"
    /\ WriteBatch(w)
    /\ Go(w, "stopped")
    /\ UNCHANGED <<caller, ch, done, closer, raced>>

-----------------------------------------------------------------------------
(* Close.                                                                  *)

CloseDone ==
    /\ closer = "open"
    /\ done' = TRUE
    /\ closer' = "waiting"
    /\ raced' = {r \in Rows : caller[r] = "checked"}
    /\ UNCHANGED <<caller, ch, pc, batch, stored, failed>>

\* wg.Wait returns when every worker has returned.
CloseReturn ==
    /\ closer = "waiting"
    /\ \A w \in Workers : pc[w] = "stopped"
    /\ closer' = "returned"
    /\ UNCHANGED <<caller, ch, done, pc, batch, stored, failed, raced>>

Enqueue(r) == EnqueueCheck(r) \/ EnqueueSend(r) \/ EnqueueRefuse(r)

runWorker(w) ==
    \/ Receive(w) \/ Interval(w) \/ Flush(w)
    \/ SeeDone(w) \/ DrainReceive(w) \/ DrainEmpty(w) \/ FinalFlush(w)

BufferNext ==
    \/ \E r \in Rows : Enqueue(r)
    \/ \E w \in Workers : runWorker(w)
    \/ CloseDone
    \/ CloseReturn

BufferSpec == BufferInit /\ [][BufferNext]_bufferVars

(* The scheduler runs every goroutine that can go on: callers and workers  *)
(* never stop half way, and wg.Wait returns.  Nothing forces a shutdown.   *)
BufferFairSpec ==
    /\ BufferSpec
    /\ \A r \in Rows : WF_bufferVars(EnqueueSend(r) \/ EnqueueRefuse(r))
    /\ \A w \in Workers : WF_bufferVars(runWorker(w))
    /\ WF_bufferVars(CloseReturn)

-----------------------------------------------------------------------------
(* Properties.                                                             *)

Accepted == {r \in Rows : caller[r] = "accepted"}

Held == UNION {batch[w] : w \in Workers}

\* An accepted row is somewhere: on the channel, in a batch, in ClickHouse, or
\* in a batch whose write failed; a row that was not accepted is nowhere.
NoRowVanishes == Accepted = Range(ch) \cup Held \cup stored \cup failed

\* ... and in one place only: no row is taken by two workers or written twice,
\* although batches are reused and workers share the channel.
NoRowTwice ==
    /\ IsInjective(ch)
    /\ \A v, w \in Workers : v # w => batch[v] \cap batch[w] = {}
    /\ Held \cap Range(ch) = {}
    /\ (stored \cup failed) \cap (Held \cup Range(ch)) = {}
    /\ stored \cap failed = {}

\* Rows are conserved: every row that Enqueue took is in exactly one place.
RowsConserved == NoRowVanishes /\ NoRowTwice

\* When Close returns the workers hold nothing, so closing the connection next
\* cuts no write; and only rows whose Enqueue was between its two selects when
\* done was closed can have been left behind on the channel.
CloseLeavesOnlyRaced ==
    closer = "returned" =>
        /\ Held = {}
        /\ Range(ch) \subseteq raced

\* Nothing is written after Close has returned.
NoWriteAfterClose ==
    [][closer = "returned" => UNCHANGED <<stored, failed>>]_bufferVars

\* Every accepted row that did not race Close gets its WriteBatch.
AcceptedIsWritten ==
    \A r \in Rows :
        (caller[r] = "accepted" /\ r \notin raced) ~> (r \in stored \cup failed)

\* Close does not hang.
CloseReturns == (closer = "waiting") ~> (closer = "returned")

=============================================================================
