---------------------------- MODULE ColdArchive ----------------------------
(***************************************************************************)
(* What warm-to-cold tiering promises, without workers, batches, keys or   *)
(* failures: an ingested event may be copied to the cold store once it is  *)
(* old enough, and may be marked archived only when a durable copy exists. *)
(* A copy and an archived mark are for ever.                               *)
(***************************************************************************)
EXTENDS Naturals

CONSTANTS
    Events,      \* event identifiers
    OccurredAt   \* OccurredAt[e]: when e happened

VARIABLES
    clock,       \* now minus the cold threshold
    ingested,    \* events that have a row in warm_events
    stored,      \* events with at least one durable copy in the cold store
    archived     \* events whose row says archived

vars == <<clock, ingested, stored, archived>>

Init ==
    /\ clock = 0
    /\ ingested = {}
    /\ stored = {}
    /\ archived = {}

Tick ==
    /\ clock' = clock + 1
    /\ UNCHANGED <<ingested, stored, archived>>

Ingest(S) ==
    /\ ingested' = ingested \cup S
    /\ UNCHANGED <<clock, stored, archived>>

Store(S) ==
    /\ \A e \in S : e \in ingested /\ OccurredAt[e] < clock
    /\ stored' = stored \cup S
    /\ UNCHANGED <<clock, ingested, archived>>

Archive(S) ==
    /\ S \subseteq stored
    /\ archived' = archived \cup S
    /\ UNCHANGED <<clock, ingested, stored>>

Next ==
    \/ Tick
    \/ \E S \in SUBSET Events : Ingest(S) \/ Store(S) \/ Archive(S)

Spec == Init /\ [][Next]_vars
=============================================================================
