------------------------------ MODULE Realtime ------------------------------
(***************************************************************************)
(* The realtime service as a whole: several pods with one Kafka consumer   *)
(* group (internal/consumer/consumer.go), each handing the records it      *)
(* polls to its own hub, and WebSocket clients spread over the pods.  One  *)
(* partition stands for all: the group gives it to one pod at a time.      *)
(* The records of the model are of one tenant and one channel, to which    *)
(* every client has subscribed; Hub has the delivery within a pod, with    *)
(* its queues and its losses.                                              *)
(***************************************************************************)
EXTENDS Naturals, FiniteSets

CONSTANTS
    Pods,        \* pods of the realtime service
    Clients,     \* WebSocket clients
    None,        \* no pod
    MaxRecords,  \* bound: records produced in a run
    MaxFaults    \* bound: crashes, rebalances, failed fetches and commits

ASSUME RealtimeAssumption ==
    /\ None \notin Pods
    /\ MaxRecords \in Nat
    /\ MaxFaults \in Nat

VARIABLES
    produced,   \* records 1..produced are in the partition
    owner,      \* the pod that the partition is assigned to
    committed,  \* the group has committed records 1..committed
    pc,         \* pc[p]: where Consumer.Run of p stands: poll, process, commit
    position,   \* position[p]: the last record p has polled
    todo,       \* todo[p]: polled records that EachRecord has still to visit
    at,         \* at[c]: the pod client c is connected to
    got,        \* got[c]: the records client c has been sent
    handed,     \* handed[r]: how often record r has been given to a hub
    dropped,    \* records of a poll that reported an error
    unfit,      \* records that do not decode, or name no tenant
    faults      \* faults that have happened

vars ==
    <<produced, owner, committed, pc, position, todo, at, got, handed, dropped, unfit, faults>>

Records == 1..MaxRecords

TypeOK ==
    /\ produced \in 0..MaxRecords
    /\ owner \in Pods \cup {None}
    /\ committed \in 0..MaxRecords
    /\ pc \in [Pods -> {"poll", "process", "commit"}]
    /\ position \in [Pods -> 0..MaxRecords]
    /\ todo \in [Pods -> SUBSET Records]
    /\ at \in [Clients -> Pods \cup {None}]
    /\ got \in [Clients -> SUBSET Records]
    /\ handed \in [Records -> Nat]
    /\ dropped \in SUBSET Records
    /\ unfit \in SUBSET Records
    /\ faults \in 0..MaxFaults

Init ==
    /\ produced = 0
    /\ owner = None
    /\ committed = 0
    /\ pc = [p \in Pods |-> "poll"]
    /\ position = [p \in Pods |-> 0]
    /\ todo = [p \in Pods |-> {}]
    /\ at = [c \in Clients |-> None]
    /\ got = [c \in Clients |-> {}]
    /\ handed = [r \in Records |-> 0]
    /\ dropped = {}
    /\ unfit = {}
    /\ faults = 0

Go(p, step) == pc' = [pc EXCEPT ![p] = step]

Fault ==
    /\ faults < MaxFaults
    /\ faults' = faults + 1

-----------------------------------------------------------------------------
(* Consumer.Run of pod p.                                                  *)

\* PollFetches returns some records after those polled before.
Fetch(p, last) ==
    /\ pc[p] = "poll"
    /\ owner = p
    /\ last \in position[p] + 1 .. produced
    /\ position' = [position EXCEPT ![p] = last]
    /\ UNCHANGED <<produced, owner, committed, at, got, handed, unfit>>

Poll(p, last) ==
    /\ Fetch(p, last)
    /\ todo' = [todo EXCEPT ![p] = position[p] + 1 .. last]
    /\ Go(p, "process")
    /\ UNCHANGED <<dropped, unfit, faults>>

\* The fetch also reports an error of some partition: Run polls again at once,
\* and what it had fetched counts as polled.
PollFails(p, last) ==
    /\ Fetch(p, last)
    /\ Fault
    /\ dropped' = dropped \cup (position[p] + 1 .. last)
    /\ UNCHANGED <<pc, todo>>

\* processRecord: Broadcast sends a record to the clients of the pod's own hub.
\* One that does not decode is an error, one without a tenant is passed over.
Hand(p, r) ==
    IF r \in unfit
    THEN UNCHANGED <<handed, got>>
    ELSE /\ handed' = [handed EXCEPT ![r] = @ + 1]
         /\ got' = [c \in Clients |-> IF at[c] = p THEN got[c] \cup {r} ELSE got[c]]

\* Mutant of ProcessRecord: the commit follows the first record.
ProcessFirst(p, r) ==
    /\ pc[p] = "process"
    /\ r \in todo[p]
    /\ \A s \in todo[p] : r <= s
    /\ todo' = [todo EXCEPT ![p] = @ \ {r}]
    /\ Hand(p, r)
    /\ Go(p, "commit")
    /\ UNCHANGED <<produced, owner, committed, position, at, dropped, unfit, faults>>

\* EachRecord visits the next record.  processRecord returns an error that is
\* only logged, or nothing: the commit that follows covers the record anyway.
ProcessRecord(p, r) ==
    /\ pc[p] = "process"
    /\ r \in todo[p]
    /\ \A s \in todo[p] : r <= s
    /\ todo' = [todo EXCEPT ![p] = @ \ {r}]
    /\ Hand(p, r)
    /\ Go(p, IF todo[p] = {r} THEN "commit" ELSE "process")
    /\ UNCHANGED <<produced, owner, committed, position, at, dropped, unfit, faults>>

\* CommitUncommittedOffsets commits what has been polled; the broker refuses a
\* pod that has lost the partition, and an error is only logged.
Commit(p) ==
    /\ pc[p] = "commit"
    /\ committed' = IF owner = p THEN position[p] ELSE committed
    /\ Go(p, "poll")
    /\ UNCHANGED <<produced, owner, position, todo, at, got, handed, dropped, unfit, faults>>

CommitFails(p) ==
    /\ pc[p] = "commit"
    /\ Fault
    /\ Go(p, "poll")
    /\ UNCHANGED <<produced, owner, committed, position, todo, at, got, handed, dropped, unfit>>

-----------------------------------------------------------------------------
(* Kafka, the clients and the pods' lives.                                 *)

\* Anything may be written to the topics, JSON with a tenant or not.
Produce ==
    /\ produced < MaxRecords
    /\ produced' = produced + 1
    /\ unfit' \in {unfit, unfit \cup {produced + 1}}
    /\ UNCHANGED <<owner, committed, pc, position, todo, at, got, handed, dropped, faults>>

\* Mutant of Assign: a pod starts at the end of the partition.
AssignAtEnd(p) ==
    /\ owner' = p
    /\ position' = [position EXCEPT ![p] = produced]
    /\ UNCHANGED <<produced, committed, pc, todo, at, got, handed, dropped, unfit>>

\* The group gives the partition to p, which starts after what is committed;
\* a pod that had it may still be in the middle of a batch.
Assign(p) ==
    /\ owner' = p
    /\ position' = [position EXCEPT ![p] = committed]
    /\ UNCHANGED <<produced, committed, pc, todo, at, got, handed, dropped, unfit>>

Join(p) ==
    /\ owner = None
    /\ Assign(p)
    /\ UNCHANGED faults

Rebalance(p) ==
    /\ owner \notin {None, p}
    /\ Fault
    /\ Assign(p)

\* A pod dies with its batch and its connections, and comes back empty.
Crash(p) ==
    /\ Fault
    /\ owner' = IF owner = p THEN None ELSE owner
    /\ Go(p, "poll")
    /\ todo' = [todo EXCEPT ![p] = {}]
    /\ at' = [c \in Clients |-> IF at[c] = p THEN None ELSE at[c]]
    /\ UNCHANGED <<produced, committed, position, got, handed, dropped, unfit>>

\* The load balancer gives a client any pod.
Connect(c, p) ==
    /\ at[c] = None
    /\ at' = [at EXCEPT ![c] = p]
    /\ UNCHANGED <<produced, owner, committed, pc, position, todo, got, handed>>
    /\ UNCHANGED <<dropped, unfit, faults>>

Run(p) ==
    \/ \E r \in Records : Poll(p, r) \/ ProcessRecord(p, r)
    \/ Commit(p)

Failure(p) ==
    \/ \E r \in Records : PollFails(p, r)
    \/ CommitFails(p)
    \/ Rebalance(p)
    \/ Crash(p)

Next ==
    \/ \E p \in Pods : Run(p) \/ Join(p) \/ Failure(p)
    \/ \E c \in Clients, p \in Pods : Connect(c, p)
    \/ Produce

Spec == Init /\ [][Next]_vars

(* Every pod keeps running its consumer, and the group gives a partition   *)
(* nobody has to somebody.                                                 *)
FairSpec ==
    /\ Spec
    /\ \A p \in Pods : WF_vars(Run(p))
    /\ WF_vars(\E p \in Pods : Join(p))

-----------------------------------------------------------------------------
(* Properties.                                                             *)

\* A record is committed only after it was handed to a hub, unless it came with
\* a poll that reported an error or cannot be handed to any: crashes, rebalances
\* and failed commits repeat records but lose none that is fit.
CommittedWasHanded ==
    \A r \in Records : r <= committed => handed[r] > 0 \/ r \in dropped \cup unfit

\* The group's offset never goes back, whoever commits and when.
CommittedGrows == [][committed <= committed']_vars

\* Every record that decodes and names a tenant is handed to some hub in the
\* end, or dropped with an error of its poll.
EveryRecordHanded ==
    \A r \in Records : r <= produced ~> (handed[r] > 0 \/ r \in dropped \cup unfit)

=============================================================================
