--------------------------- MODULE RealtimeProofs ---------------------------
(***************************************************************************)
(* Proofs about the realtime service.  Realtime, for any number of pods,   *)
(* clients, records and faults: the group's offset never passes a record   *)
(* that no hub was given, and never goes back.  Hub, for any number of     *)
(* connections, tenants and channels, and any sizes of the queues: clients *)
(* get their tenant's messages in order, and a panic has one cause.  The   *)
(* two share no state.                                                     *)
(***************************************************************************)
EXTENDS Realtime, Hub, Functions, TLAPS

-----------------------------------------------------------------------------
(* Realtime.                                                               *)

\* A record that a hub was given, that a failed poll has thrown away, or that
\* no hub can be given.
Settled(r) == handed[r] > 0 \/ r \in dropped \cup unfit

\* The owner has polled at least what is committed, and every record it has
\* polled is settled or still in its batch.
OwnerInv ==
    \A p \in Pods : owner = p =>
        /\ committed <= position[p]
        /\ \A r \in Records : r <= position[p] => Settled(r) \/ r \in todo[p]

\* A pod has nothing left of its batch when it commits and when it polls.
BatchInv == \A p \in Pods : pc[p] \in {"poll", "commit"} => todo[p] = {}

Inv ==
    /\ TypeOK
    /\ CommittedWasHanded
    /\ OwnerInv
    /\ BatchInv

LEMMA InitInv == Init => Inv
BY RealtimeAssumption
   DEF Init, Inv, TypeOK, CommittedWasHanded, OwnerInv, BatchInv, Records

LEMMA TypeStep == TypeOK /\ [Next]_vars => TypeOK'
<1> SUFFICES ASSUME TypeOK, [Next]_vars PROVE TypeOK'
    OBVIOUS
<1> USE RealtimeAssumption DEF TypeOK, Records, Go, Fault
<1>1. ASSUME NEW p \in Pods, NEW r \in Records, Poll(p, r) \/ PollFails(p, r) PROVE TypeOK'
  <2>1. /\ position' = [position EXCEPT ![p] = r]
        /\ UNCHANGED <<produced, owner, committed, at, got, handed, unfit>>
    BY <1>1 DEF Poll, PollFails, Fetch
  <2>2. position[p] + 1 .. r \in SUBSET Records
    OBVIOUS
  <2>3. position' \in [Pods -> 0..MaxRecords]
    BY <2>1
  <2>4. CASE Poll(p, r)
    BY <2>1, <2>2, <2>3, <2>4 DEF Poll
  <2>5. CASE PollFails(p, r)
    <3>1. dropped' \in SUBSET Records
      BY <2>2, <2>5 DEF PollFails
    <3>2. faults' \in 0..MaxFaults
      BY <2>5 DEF PollFails
    <3> QED
      BY <2>1, <2>3, <2>5, <3>1, <3>2 DEF PollFails
  <2> QED
    BY <1>1, <2>4, <2>5
<1>2. ASSUME NEW p \in Pods, NEW r \in Records, ProcessRecord(p, r) PROVE TypeOK'
  <2>1. /\ todo' = [todo EXCEPT ![p] = @ \ {r}]
        /\ pc' = [pc EXCEPT ![p] = IF todo[p] = {r} THEN "commit" ELSE "process"]
        /\ UNCHANGED <<produced, owner, committed, position, at, dropped, unfit, faults>>
    BY <1>2 DEF ProcessRecord
  <2>2. handed' \in [Records -> Nat] /\ got' \in [Clients -> SUBSET Records]
    <3>1. CASE r \in unfit
      BY <1>2, <3>1 DEF ProcessRecord, Hand
    <3>2. CASE r \notin unfit
      <4>1. /\ handed' = [handed EXCEPT ![r] = @ + 1]
            /\ got' = [c \in Clients |-> IF at[c] = p THEN got[c] \cup {r} ELSE got[c]]
        BY <1>2, <3>2 DEF ProcessRecord, Hand
      <4>2. handed' \in [Records -> Nat]
        BY <4>1
      <4>3. \A c \in Clients : got[c] \in SUBSET Records /\ r \in Records
        OBVIOUS
      <4>4. got' \in [Clients -> SUBSET Records]
        BY <4>1, <4>3, Zenon
      <4> QED
        BY <4>2, <4>4
    <3> QED
      BY <3>1, <3>2
  <2> QED
    BY <2>1, <2>2
<1>3. ASSUME NEW p \in Pods, Commit(p) \/ CommitFails(p) PROVE TypeOK'
  <2>1. CASE Commit(p)
    BY <2>1 DEF Commit
  <2>2. CASE CommitFails(p)
    BY <2>2 DEF CommitFails
  <2> QED
    BY <1>3, <2>1, <2>2
<1>4. ASSUME NEW p \in Pods, Join(p) \/ Rebalance(p) PROVE TypeOK'
  <2>1. CASE Join(p)
    BY <2>1 DEF Join, Assign
  <2>2. CASE Rebalance(p)
    BY <2>2 DEF Rebalance, Assign
  <2> QED
    BY <1>4, <2>1, <2>2
<1>5. ASSUME NEW p \in Pods, Crash(p) PROVE TypeOK'
    BY <1>5 DEF Crash
<1>6. ASSUME NEW c \in Clients, NEW p \in Pods, Connect(c, p) PROVE TypeOK'
    BY <1>6 DEF Connect
<1>7. CASE Produce
    BY <1>7 DEF Produce
<1>8. CASE UNCHANGED vars
    BY <1>8 DEF vars
<1> QED
    BY <1>1, <1>2, <1>3, <1>4, <1>5, <1>6, <1>7, <1>8 DEF Next, Run, Failure

\* A settled record stays settled.
LEMMA SettledStep ==
    ASSUME TypeOK, [Next]_vars, NEW r \in Records, Settled(r)
    PROVE  Settled(r)'
<1>1. dropped \subseteq dropped' /\ unfit \subseteq unfit'
    BY DEF Next, Run, Failure, vars, Poll, PollFails, Fetch, ProcessRecord, Hand, Commit,
           CommitFails, Join, Rebalance, Assign, Crash, Connect, Produce
<1>2. \/ UNCHANGED handed
      \/ \E n \in Records : handed' = [handed EXCEPT ![n] = @ + 1]
    BY DEF Next, Run, Failure, vars, Poll, PollFails, Fetch, ProcessRecord, Hand, Commit,
           CommitFails, Join, Rebalance, Assign, Crash, Connect, Produce
<1>3. handed[r] > 0 => handed'[r] > 0
    BY <1>2 DEF TypeOK
<1> QED
    BY <1>1, <1>3 DEF Settled

LEMMA InvStep == Inv /\ [Next]_vars => Inv' /\ committed <= committed'
<1> SUFFICES ASSUME Inv, [Next]_vars PROVE Inv' /\ committed <= committed'
    OBVIOUS
<1>1. TypeOK /\ TypeOK'
    BY TypeStep DEF Inv
<1>2. \A r \in Records : Settled(r) => Settled(r)'
    BY <1>1, SettledStep
<1>3. CommittedWasHanded <=> \A r \in Records : r <= committed => Settled(r)
    BY DEF CommittedWasHanded, Settled
<1>4. CommittedWasHanded' <=> \A r \in Records : r <= committed' => Settled(r)'
    BY DEF CommittedWasHanded, Settled
<1>5. SUFFICES /\ \A r \in Records : r <= committed' => Settled(r)'
               /\ OwnerInv'
               /\ BatchInv'
               /\ committed <= committed'
    BY <1>1, <1>4 DEF Inv
<1>6. \A r \in Records : r <= committed => Settled(r)'
    BY <1>2, <1>3 DEF Inv
<1> USE <1>1, <1>2, <1>6 DEF Inv, OwnerInv, BatchInv, TypeOK, Go
<1> DEFINE Goal == /\ \A r \in Records : r <= committed' => Settled(r)'
                   /\ OwnerInv'
                   /\ BatchInv'
                   /\ committed <= committed'
<1>7. ASSUME NEW p \in Pods, NEW n \in Records, Poll(p, n) PROVE Goal
  <2>1. /\ pc[p] = "poll" /\ owner = p
        /\ n \in position[p] + 1 .. produced
        /\ position' = [position EXCEPT ![p] = n]
        /\ todo' = [todo EXCEPT ![p] = position[p] + 1 .. n]
        /\ pc' = [pc EXCEPT ![p] = "process"]
        /\ UNCHANGED <<owner, committed>>
    BY <1>7 DEF Poll, Fetch
  <2>2. todo[p] = {} /\ committed <= position[p] /\ position[p] \in Nat /\ committed \in Nat
    BY <2>1
  <2>3. committed <= n
    BY <2>1, <2>2 DEF Records
  <2>4. \A r \in Records : r <= n => Settled(r)' \/ r \in todo'[p]
    <3> TAKE r \in Records
    <3>1. CASE r <= position[p]
      BY <2>1, <2>2, <3>1
    <3>2. CASE ~(r <= position[p])
      BY <2>1, <2>2, <3>2 DEF Records
    <3> QED
      BY <3>1, <3>2
  <2>5. OwnerInv'
    BY <2>1, <2>3, <2>4
  <2>6. BatchInv'
    BY <2>1
  <2> QED
    BY <2>1, <2>2, <2>5, <2>6
<1>8. ASSUME NEW p \in Pods, NEW n \in Records, PollFails(p, n) PROVE Goal
    BY <1>8 DEF PollFails, Fetch, Records, Settled
<1>9. ASSUME NEW p \in Pods, NEW n \in Records, ProcessRecord(p, n) PROVE Goal
  <2>1. Settled(n)'
    BY <1>9 DEF ProcessRecord, Hand, Settled
  <2> QED
    BY <1>9, <2>1 DEF ProcessRecord, Records
<1>10. ASSUME NEW p \in Pods, Commit(p) PROVE Goal
    BY <1>10 DEF Commit, Records
<1>11. ASSUME NEW p \in Pods, CommitFails(p) PROVE Goal
    BY <1>11 DEF CommitFails
<1>12. ASSUME NEW p \in Pods, Join(p) \/ Rebalance(p) PROVE Goal
    BY <1>12 DEF Join, Rebalance, Assign
<1>13. ASSUME NEW p \in Pods, Crash(p) PROVE Goal
    BY <1>13, RealtimeAssumption DEF Crash
<1>14. ASSUME NEW c \in Clients, NEW p \in Pods, Connect(c, p) PROVE Goal
    BY <1>14 DEF Connect
<1>15. CASE Produce
    BY <1>15 DEF Produce
<1>16. CASE UNCHANGED vars
    BY <1>16 DEF vars
<1> QED
    BY <1>7, <1>8, <1>9, <1>10, <1>11, <1>12, <1>13, <1>14, <1>15, <1>16 DEF Next, Run, Failure

LEMMA Invariance == Spec => []Inv
<1>1. Init => Inv
    BY InitInv
<1>2. Inv /\ [Next]_vars => Inv'
    BY InvStep
<1> QED
    BY <1>1, <1>2, PTL DEF Spec

\* The partition, the consumers and the clients keep their types.
THEOREM TypeCorrect == Spec => []TypeOK
<1>1. Inv => TypeOK
    BY DEF Inv
<1> QED
    BY <1>1, Invariance, PTL

\* However pods crash, the group rebalances and commits fail, no record is
\* skipped but those of a poll that reported an error.
THEOREM NothingSkipped == Spec => []CommittedWasHanded
<1>1. Inv => CommittedWasHanded
    BY DEF Inv
<1> QED
    BY <1>1, Invariance, PTL

\* A pod that commits late, after it lost the partition and got it again, does
\* not move the group's offset back.
THEOREM OffsetGrows == Spec => CommittedGrows
<1>1. Inv /\ [Next]_vars => [committed <= committed']_vars
    BY InvStep
<1> QED
    BY <1>1, Invariance, PTL DEF Spec, CommittedGrows

-----------------------------------------------------------------------------
(* Sequences without duplicates, as queues.                                *)

\* Sending puts the entry in and nothing else.
LEMMA AppendQueue ==
    ASSUME NEW S, NEW s \in Seq(S), NEW x \in S
    PROVE  /\ Append(s, x) \in Seq(S)
           /\ Len(Append(s, x)) = Len(s) + 1
           /\ Range(Append(s, x)) = Range(s) \cup {x}
           /\ IsInjective(s) /\ x \notin Range(s) => IsInjective(Append(s, x))
<1>1. /\ Append(s, x) \in Seq(S)
      /\ Len(Append(s, x)) = Len(s) + 1
      /\ DOMAIN Append(s, x) = DOMAIN s \cup {Len(s) + 1}
      /\ \A i \in DOMAIN s : Append(s, x)[i] = s[i]
      /\ Append(s, x)[Len(s) + 1] = x
    OBVIOUS
<1>2. Range(Append(s, x)) = Range(s) \cup {x}
    BY <1>1 DEF Range
<1>3. ASSUME IsInjective(s), x \notin Range(s) PROVE IsInjective(Append(s, x))
    BY <1>1, <1>3 DEF IsInjective, Range
<1> QED
    BY <1>1, <1>2, <1>3

\* Receiving takes the first entry out and nothing else.
LEMMA TailQueue ==
    ASSUME NEW S, NEW s \in Seq(S), s # <<>>
    PROVE  /\ Tail(s) \in Seq(S)
           /\ Len(Tail(s)) = Len(s) - 1
           /\ Head(s) \in S
           /\ Range(s) = {Head(s)} \cup Range(Tail(s))
           /\ IsInjective(s) => IsInjective(Tail(s)) /\ Head(s) \notin Range(Tail(s))
<1>1. /\ Tail(s) \in Seq(S)
      /\ Len(Tail(s)) = Len(s) - 1
      /\ Head(s) = s[1]
      /\ Len(s) \in Nat \ {0}
      /\ DOMAIN s = 1 .. Len(s)
      /\ DOMAIN Tail(s) = 1 .. (Len(s) - 1)
      /\ \A i \in 1 .. (Len(s) - 1) : Tail(s)[i] = s[i + 1]
    OBVIOUS
<1>2. Head(s) \in S
    BY <1>1
<1>3. Range(s) = {Head(s)} \cup Range(Tail(s))
  <2>1. ASSUME NEW x \in Range(s) PROVE x \in {Head(s)} \cup Range(Tail(s))
    <3>1. PICK i \in 1 .. Len(s) : x = s[i]
      BY <1>1 DEF Range
    <3>2. CASE i = 1
      BY <1>1, <3>1, <3>2
    <3>3. CASE i # 1
      <4>1. i - 1 \in 1 .. (Len(s) - 1) /\ Tail(s)[i - 1] = x
        BY <1>1, <3>1, <3>3
      <4> QED
        BY <1>1, <4>1 DEF Range
    <3> QED
      BY <3>2, <3>3
  <2>2. ASSUME NEW x \in {Head(s)} \cup Range(Tail(s)) PROVE x \in Range(s)
    BY <1>1 DEF Range
  <2> QED
    BY <2>1, <2>2
<1>4. ASSUME IsInjective(s) PROVE IsInjective(Tail(s)) /\ Head(s) \notin Range(Tail(s))
  <2>1. \A i, j \in 1 .. Len(s) : s[i] = s[j] => i = j
    BY <1>1, <1>4 DEF IsInjective
  <2> QED
    BY <1>1, <2>1 DEF IsInjective, Range
<1> QED
    BY <1>1, <1>2, <1>3, <1>4

-----------------------------------------------------------------------------
(* Sequences of messages. A reply has number 0, and is not ordered.        *)

\* The messages of s are older than message n, and than those of t.
Below(s, n)  == \A i \in DOMAIN s : s[i].num < n
Behind(s, t) == \A j \in DOMAIN t : t[j].num > 0 => Below(s, t[j].num)

Ascending(s) ==
    \A i, j \in DOMAIN s :
        i < j /\ s[i].num > 0 /\ s[j].num > 0 => s[i].num < s[j].num

LEMMA AppendOrder ==
    ASSUME NEW S, \A m \in S : m.num \in Nat, NEW s \in Seq(S), NEW x \in S
    PROVE  /\ \A n \in Nat : Below(s, n) /\ x.num < n => Below(Append(s, x), n)
           /\ Ascending(s) /\ (x.num > 0 => Below(s, x.num)) => Ascending(Append(s, x))
           /\ \A t : Behind(t, s) /\ (x.num > 0 => Below(t, x.num)) => Behind(t, Append(s, x))
<1>1. /\ DOMAIN s = 1 .. Len(s) /\ Len(s) \in Nat
      /\ DOMAIN Append(s, x) = 1 .. (Len(s) + 1)
      /\ \A i \in 1 .. Len(s) : Append(s, x)[i] = s[i]
      /\ Append(s, x)[Len(s) + 1] = x
    OBVIOUS
<1>2. ASSUME NEW i \in 1 .. (Len(s) + 1) PROVE i \in 1 .. Len(s) \/ i = Len(s) + 1
    BY <1>1
<1>3. ASSUME NEW n \in Nat, Below(s, n), x.num < n PROVE Below(Append(s, x), n)
    BY <1>1, <1>2, <1>3 DEF Below
<1>4. ASSUME Ascending(s), x.num > 0 => Below(s, x.num) PROVE Ascending(Append(s, x))
  <2> SUFFICES ASSUME NEW i \in 1 .. (Len(s) + 1), NEW j \in 1 .. (Len(s) + 1), i < j,
                      Append(s, x)[i].num > 0, Append(s, x)[j].num > 0
               PROVE  Append(s, x)[i].num < Append(s, x)[j].num
    BY <1>1 DEF Ascending
  <2>1. i \in 1 .. Len(s)
    BY <1>1
  <2> QED
    BY <1>1, <1>2, <1>4, <2>1 DEF Ascending, Below
<1>5. ASSUME NEW t, Behind(t, s), x.num > 0 => Below(t, x.num) PROVE Behind(t, Append(s, x))
    BY <1>1, <1>2, <1>5 DEF Behind
<1> QED
    BY <1>3, <1>4, <1>5

LEMMA TailOrder ==
    ASSUME NEW S, \A m \in S : m.num \in Nat, NEW s \in Seq(S), s # <<>>
    PROVE  /\ \A n \in Nat : Below(s, n) => Below(Tail(s), n) /\ Head(s).num < n
           /\ Ascending(s) =>
                 /\ Ascending(Tail(s))
                 /\ \A j \in DOMAIN Tail(s) : Head(s).num > 0 /\ Tail(s)[j].num > 0
                                                 => Head(s).num < Tail(s)[j].num
           /\ \A t : Behind(t, s) =>
                 /\ Behind(t, Tail(s))
                 /\ Head(s).num > 0 => Below(t, Head(s).num)
<1>1. /\ DOMAIN s = 1 .. Len(s) /\ Len(s) \in Nat \ {0}
      /\ DOMAIN Tail(s) = 1 .. (Len(s) - 1)
      /\ \A i \in 1 .. (Len(s) - 1) : Tail(s)[i] = s[i + 1]
      /\ Head(s) = s[1]
    OBVIOUS
<1>2. /\ 1 \in 1 .. Len(s)
      /\ \A i \in 1 .. (Len(s) - 1) : i + 1 \in 1 .. Len(s) /\ 1 < i + 1
    BY <1>1
<1>3. ASSUME NEW n \in Nat, Below(s, n) PROVE Below(Tail(s), n) /\ Head(s).num < n
    BY <1>1, <1>2, <1>3 DEF Below
<1>4. ASSUME Ascending(s)
      PROVE  /\ Ascending(Tail(s))
             /\ \A j \in DOMAIN Tail(s) : Head(s).num > 0 /\ Tail(s)[j].num > 0
                                             => Head(s).num < Tail(s)[j].num
  <2>1. ASSUME NEW i \in DOMAIN Tail(s), NEW j \in DOMAIN Tail(s), i < j,
               Tail(s)[i].num > 0, Tail(s)[j].num > 0
        PROVE  Tail(s)[i].num < Tail(s)[j].num
    <3>1. i + 1 \in DOMAIN s /\ j + 1 \in DOMAIN s /\ i + 1 < j + 1
      BY <1>1, <2>1
    <3>2. Tail(s)[i] = s[i + 1] /\ Tail(s)[j] = s[j + 1]
      BY <1>1
    <3> QED
      BY <1>4, <2>1, <3>1, <3>2 DEF Ascending
  <2>2. ASSUME NEW j \in DOMAIN Tail(s), Head(s).num > 0, Tail(s)[j].num > 0
        PROVE  Head(s).num < Tail(s)[j].num
    <3>1. 1 \in DOMAIN s /\ j + 1 \in DOMAIN s /\ 1 < j + 1 /\ Tail(s)[j] = s[j + 1]
      BY <1>1
    <3> QED
      BY <1>1, <1>4, <2>2, <3>1 DEF Ascending
  <2> QED
    BY <2>1, <2>2 DEF Ascending
<1>5. ASSUME NEW t, Behind(t, s)
      PROVE  /\ Behind(t, Tail(s))
             /\ Head(s).num > 0 => Below(t, Head(s).num)
    BY <1>1, <1>2, <1>5 DEF Behind
<1> QED
    BY <1>3, <1>4, <1>5

-----------------------------------------------------------------------------
(* Hub: what clients are sent.                                             *)

\* What is on its way to a client, and was written to it, is of its tenant.
Own(c) == {m \in Messages : m.tenant = TenantOf[c]}

OwnInv ==
    \A c \in Connections : /\ send[c] \in Seq(Own(c) \cup {Reply(c)})
                           /\ received[c] \in Seq(Own(c))

\* Messages go in order from the backlog b to a client's queue s to what it has
\* received, r; the next number is n.
Ordered(r, s, b, n) ==
    /\ Ascending(r) /\ Ascending(s) /\ Ascending(b)
    /\ Behind(r, s) /\ Behind(r, b) /\ Behind(s, b)
    /\ Below(r, n) /\ Below(s, n) /\ Below(b, n)

OrderInv == \A c \in Connections : Ordered(received[c], send[c], broadcast, sent + 1)

LEMMA BelowMore == ASSUME NEW s, \A i \in DOMAIN s : s[i].num \in Nat,
                          NEW m \in Nat, NEW n \in Nat, m <= n, Below(s, m)
                   PROVE  Below(s, n)
BY DEF Below

\* Broadcast numbers a message, and may drop it.
LEMMA OrderedBroadcast ==
    ASSUME NEW S, \A m \in S : m.num \in Nat, NEW n \in Nat \ {0},
           NEW r \in Seq(S), NEW s \in Seq(S), NEW b \in Seq(S), Ordered(r, s, b, n)
    PROVE  /\ Ordered(r, s, b, n + 1)
           /\ \A x \in S : x.num = n => Ordered(r, s, Append(b, x), n + 1)
<1>1. /\ \A i \in DOMAIN r : r[i].num \in Nat
      /\ \A i \in DOMAIN s : s[i].num \in Nat
      /\ \A i \in DOMAIN b : b[i].num \in Nat
    OBVIOUS
<1>2. Ordered(r, s, b, n + 1)
    BY <1>1, BelowMore DEF Ordered
<1>3. ASSUME NEW x \in S, x.num = n PROVE Ordered(r, s, Append(b, x), n + 1)
    BY <1>2, <1>3, AppendOrder DEF Ordered
<1> QED
    BY <1>2, <1>3

\* A reply is not a message.
LEMMA OrderedReply ==
    ASSUME NEW S, \A m \in S : m.num \in Nat, NEW n \in Nat \ {0},
           NEW r \in Seq(S), NEW s \in Seq(S), NEW b \in Seq(S), Ordered(r, s, b, n),
           NEW x \in S, x.num = 0
    PROVE  Ordered(r, Append(s, x), b, n)
<1>1. Below(Append(s, x), n) /\ Ascending(Append(s, x)) /\ Behind(r, Append(s, x))
    BY AppendOrder DEF Ordered
<1>2. Behind(Append(s, x), b)
  <2> SUFFICES ASSUME NEW j \in DOMAIN b, b[j].num > 0 PROVE Below(Append(s, x), b[j].num)
    BY DEF Behind
  <2>1. Below(s, b[j].num) /\ b[j].num \in Nat
    BY DEF Ordered, Behind
  <2> QED
    BY <2>1, AppendOrder
<1> QED
    BY <1>1, <1>2 DEF Ordered

\* Run takes a message from the backlog, and may skip the client.
LEMMA OrderedDeliver ==
    ASSUME NEW S, \A m \in S : m.num \in Nat, NEW n \in Nat \ {0},
           NEW r \in Seq(S), NEW s \in Seq(S), NEW b \in Seq(S), Ordered(r, s, b, n),
           b # <<>>
    PROVE  /\ Ordered(r, s, Tail(b), n)
           /\ Head(b).num > 0 => Ordered(r, Append(s, Head(b)), Tail(b), n)
<1>1. ASSUME b # <<>> PROVE Ordered(r, s, Tail(b), n)
    BY <1>1, TailOrder DEF Ordered
<1>2. ASSUME b # <<>>, Head(b).num > 0 PROVE Ordered(r, Append(s, Head(b)), Tail(b), n)
  <2>1. Head(b) \in S /\ Tail(b) \in Seq(S)
    BY <1>2, TailQueue
  <2>2. Below(s, Head(b).num) /\ Below(r, Head(b).num) /\ Head(b).num < n
    BY <1>2, TailOrder DEF Ordered
  <2>3. /\ Below(Append(s, Head(b)), n)
        /\ Ascending(Append(s, Head(b)))
        /\ Behind(r, Append(s, Head(b)))
    BY <2>1, <2>2, AppendOrder DEF Ordered
  <2>4. Behind(Append(s, Head(b)), Tail(b))
    <3> SUFFICES ASSUME NEW j \in DOMAIN Tail(b), Tail(b)[j].num > 0
                 PROVE  Below(Append(s, Head(b)), Tail(b)[j].num)
      BY DEF Behind
    <3>1. Behind(s, Tail(b)) /\ Head(b).num < Tail(b)[j].num
      BY <1>2, TailOrder DEF Ordered
    <3>2. Below(s, Tail(b)[j].num)
      BY <3>1 DEF Behind
    <3>3. Tail(b)[j].num \in Nat
      BY <2>1
    <3> QED
      BY <2>1, <3>1, <3>2, <3>3, AppendOrder
  <2> QED
    BY <1>1, <1>2, <2>3, <2>4 DEF Ordered
<1> QED
    BY <1>1, <1>2

\* The write pump takes what is next, a message or a reply.
LEMMA OrderedPump ==
    ASSUME NEW S, \A m \in S : m.num \in Nat, NEW n \in Nat \ {0},
           NEW r \in Seq(S), NEW s \in Seq(S), NEW b \in Seq(S), Ordered(r, s, b, n),
           s # <<>>
    PROVE  /\ Ordered(r, Tail(s), b, n)
           /\ Head(s).num > 0 => Ordered(Append(r, Head(s)), Tail(s), b, n)
<1>1. /\ \A i \in DOMAIN r : r[i].num \in Nat
      /\ \A i \in DOMAIN s : s[i].num \in Nat
      /\ \A i \in DOMAIN b : b[i].num \in Nat
    OBVIOUS
<1>2. ASSUME s # <<>> PROVE Ordered(r, Tail(s), b, n)
  <2>1. Behind(Tail(s), b)
    <3> SUFFICES ASSUME NEW j \in DOMAIN b, b[j].num > 0 PROVE Below(Tail(s), b[j].num)
      BY DEF Behind
    <3> QED
      BY <1>1, <1>2, TailOrder DEF Ordered, Behind
  <2> QED
    BY <1>2, <2>1, TailOrder DEF Ordered
<1>3. ASSUME s # <<>>, Head(s).num > 0 PROVE Ordered(Append(r, Head(s)), Tail(s), b, n)
  <2>1. Head(s) \in S /\ Tail(s) \in Seq(S)
    BY <1>3, TailQueue
  <2>2. Below(r, Head(s).num) /\ Head(s).num < n
    BY <1>3, TailOrder DEF Ordered
  <2>3. Below(Append(r, Head(s)), n) /\ Ascending(Append(r, Head(s)))
    BY <2>1, <2>2, AppendOrder DEF Ordered
  <2>4. Behind(Append(r, Head(s)), Tail(s))
    <3> SUFFICES ASSUME NEW j \in DOMAIN Tail(s), Tail(s)[j].num > 0
                 PROVE  Below(Append(r, Head(s)), Tail(s)[j].num)
      BY DEF Behind
    <3>1. Behind(r, Tail(s)) /\ Head(s).num < Tail(s)[j].num
      BY <1>3, TailOrder DEF Ordered
    <3>2. Below(r, Tail(s)[j].num) /\ Tail(s)[j].num \in Nat
      BY <2>1, <3>1 DEF Behind
    <3> QED
      BY <2>1, <3>1, <3>2, AppendOrder
  <2>5. Behind(Append(r, Head(s)), b)
    <3> SUFFICES ASSUME NEW j \in DOMAIN b, b[j].num > 0
                 PROVE  Below(Append(r, Head(s)), b[j].num)
      BY DEF Behind
    <3>1. Below(r, b[j].num) /\ Below(s, b[j].num) /\ b[j].num \in Nat
      BY <1>1 DEF Ordered, Behind
    <3>2. Head(s).num < b[j].num
      BY <1>3, <3>1, TailOrder
    <3> QED
      BY <2>1, <3>1, <3>2, AppendOrder
  <2> QED
    BY <1>2, <1>3, <2>3, <2>4, <2>5 DEF Ordered
<1> QED
    BY <1>2, <1>3

-----------------------------------------------------------------------------
(* Hub: who is registered.                                                 *)

\* A client is on each of the channels register and unregister once, after the
\* handler put it there; its send is closed when it was taken from the second.
\* Run knows a client whose send is closed only if it was taken first from there.
RegisterInv ==
    /\ IsInjective(register) /\ IsInjective(unregister)
    /\ \A c \in Range(register) : handler[c] # "new" /\ c \notin clients
    /\ \A c \in clients : handler[c] # "new"
    /\ \A c \in Range(unregister) : handler[c] = "gone" /\ c \notin closed
    /\ \A c \in closed : handler[c] = "gone"
    /\ closed \cap (clients \cup Range(register)) \subseteq overtaken

HubInv ==
    /\ HubTypeOK
    /\ OwnInv
    /\ OrderInv
    /\ RegisterInv
    /\ PanicOnlyIfOvertaken

LEMMA OwnTypes ==
    ASSUME NEW c \in Connections
    PROVE  /\ Own(c) \subseteq Messages
           /\ Own(c) \cup {Reply(c)} \subseteq Sendable
           /\ Reply(c).num = 0 /\ Reply(c) \in Sendable /\ Reply(c) \notin Messages
           /\ Messages \subseteq Sendable
           /\ \A m \in Messages : m.num > 0
           /\ \A m \in Sendable : m.num \in Nat
<1>1. \A m \in Messages : m.num \in 1 .. MaxMessages
    BY DEF Messages
<1>2. \A d \in Connections : Reply(d).num = 0
    BY DEF Reply
<1>3. MaxMessages \in Nat
    BY HubAssumption
<1> QED
    BY <1>1, <1>2, <1>3 DEF Own, Sendable

LEMMA WiderSeq == ASSUME NEW S, NEW T, S \subseteq T, NEW s \in Seq(S) PROVE s \in Seq(T)
OBVIOUS

LEMMA HubInitInv == HubInit => HubInv
<1> SUFFICES ASSUME HubInit PROVE HubInv
    OBVIOUS
<1>1. HubTypeOK
  <2>1. /\ QueueSize \in Nat /\ BacklogSize \in Nat /\ SendSize \in Nat /\ MaxMessages \in Nat
        /\ \A S : <<>> \in Seq(S) /\ Len(<<>>) = 0
    BY HubAssumption
  <2>2. \A c \in Connections : send[c] = <<>>
    BY DEF HubInit
  <2>3. send \in [Connections -> Seq(Sendable)] /\ received \in [Connections -> Seq(Messages)]
    BY DEF HubInit
  <2>4. /\ 0 <= QueueSize /\ 0 <= BacklogSize /\ 0 <= SendSize /\ 0 \in 0 .. MaxMessages
    BY <2>1
  <2> QED
    BY <2>1, <2>2, <2>3, <2>4 DEF HubInit, HubTypeOK
<1>2. OwnInv
    BY DEF HubInit, OwnInv
<1>3. OrderInv
    BY DEF HubInit, OrderInv, Ordered, Ascending, Behind, Below
<1>4. RegisterInv
    BY DEF HubInit, RegisterInv, IsInjective, Range
<1>5. PanicOnlyIfOvertaken
    BY DEF HubInit, PanicOnlyIfOvertaken
<1> QED
    BY <1>1, <1>2, <1>3, <1>4, <1>5 DEF HubInv

\* What the handlers and Run do with register and unregister.
LEMMA RegisterStep ==
    ASSUME HubInv, HubNext PROVE RegisterInv' /\ PanicOnlyIfOvertaken'
<1> USE DEF HubInv, HubTypeOK, RegisterInv, PanicOnlyIfOvertaken, conn, run, output
<1> DEFINE Goal == RegisterInv' /\ PanicOnlyIfOvertaken'
<1>0. ~panicked
    BY DEF HubNext
<1>1. ASSUME NEW c \in Connections, RegisterClient(c) PROVE Goal
  <2>1. /\ IsInjective(register') /\ Range(register') = Range(register) \cup {c}
    <3>1. c \notin Range(register) /\ register' = Append(register, c)
      BY <1>1 DEF RegisterClient
    <3> QED
      BY <3>1, AppendQueue
  <2> QED
    BY <1>0, <1>1, <2>1 DEF RegisterClient
<1>2. ASSUME NEW c \in Connections, SendReply(c) PROVE Goal
    BY <1>2 DEF SendReply, SendToClient
<1>3. ASSUME NEW c \in Connections, UnregisterClient(c) PROVE Goal
  <2>1. /\ IsInjective(unregister') /\ Range(unregister') = Range(unregister) \cup {c}
    <3>1. c \notin Range(unregister) /\ unregister' = Append(unregister, c)
      BY <1>3 DEF UnregisterClient
    <3> QED
      BY <3>1, AppendQueue
  <2> QED
    BY <1>0, <1>3, <2>1 DEF UnregisterClient
<1>4. ASSUME NEW c \in Connections, Disconnect(c) PROVE Goal
    BY <1>0, <1>4 DEF Disconnect
<1>5. ASSUME NEW c \in Connections, NEW ch \in Channels \cup {"*"},
             Subscribe(c, ch) \/ Unsubscribe(c, ch)
      PROVE  Goal
  <2>1. CASE Subscribe(c, ch)
    BY <1>0, <2>1 DEF Subscribe
  <2>2. CASE Unsubscribe(c, ch)
    BY <1>0, <2>2 DEF Unsubscribe
  <2> QED
    BY <1>5, <2>1, <2>2
<1>6. ASSUME NEW c \in Connections, Pump(c) PROVE Goal
    BY <1>0, <1>6 DEF Pump
<1>7. ASSUME NEW t \in Tenants, NEW ch \in Channels, Broadcast(t, ch) PROVE Goal
    BY <1>0, <1>7 DEF Broadcast
<1>8. CASE HandleRegister
  <2>1. /\ Head(register) \in Connections
        /\ Range(register) = {Head(register)} \cup Range(register')
        /\ IsInjective(register') /\ Head(register) \notin Range(register')
    BY <1>8, TailQueue DEF HandleRegister
  <2> QED
    BY <1>0, <1>8, <2>1 DEF HandleRegister
<1>9. CASE HandleUnregister
  <2>1. /\ Head(unregister) \in Connections
        /\ Range(unregister) = {Head(unregister)} \cup Range(unregister')
        /\ IsInjective(unregister') /\ Head(unregister) \notin Range(unregister')
    BY <1>9, TailQueue DEF HandleUnregister
  <2> QED
    BY <1>9, <2>1 DEF HandleUnregister
<1>10. CASE HandleBroadcast
    BY <1>10 DEF HandleBroadcast, Addressees
<1> QED
    BY <1>1, <1>2, <1>3, <1>4, <1>5, <1>6, <1>7, <1>8, <1>9, <1>10
       DEF HubNext, RunHub, Handler

\* What a client was sent keeps its tenant and its order.
LEMMA OrderStep ==
    ASSUME HubInv, HubNext PROVE OwnInv' /\ OrderInv'
<1> SUFFICES ASSUME NEW c \in Connections
             PROVE  /\ send'[c] \in Seq(Own(c) \cup {Reply(c)})
                    /\ received'[c] \in Seq(Own(c))
                    /\ Ordered(received'[c], send'[c], broadcast', sent' + 1)
    BY DEF OwnInv, OrderInv, Own, Reply
<1> DEFINE s == send[c]
           r == received[c]
           Goal == /\ send'[c] \in Seq(Own(c) \cup {Reply(c)})
                   /\ received'[c] \in Seq(Own(c))
                   /\ Ordered(received'[c], send'[c], broadcast', sent' + 1)
<1>1. /\ s \in Seq(Own(c) \cup {Reply(c)}) /\ r \in Seq(Own(c))
      /\ s \in Seq(Sendable) /\ r \in Seq(Sendable) /\ broadcast \in Seq(Sendable)
      /\ broadcast \in Seq(Messages)
      /\ sent \in Nat /\ sent + 1 \in Nat \ {0}
      /\ Ordered(r, s, broadcast, sent + 1)
      /\ send \in [Connections -> Seq(Sendable)]
      /\ received \in [Connections -> Seq(Messages)]
  <2>1. /\ s \in Seq(Own(c) \cup {Reply(c)}) /\ r \in Seq(Own(c))
        /\ Ordered(r, s, broadcast, sent + 1)
    BY DEF HubInv, OwnInv, OrderInv
  <2>2. /\ send \in [Connections -> Seq(Sendable)]
        /\ received \in [Connections -> Seq(Messages)]
        /\ broadcast \in Seq(Messages)
        /\ sent \in 0 .. MaxMessages
    BY DEF HubInv, HubTypeOK
  <2>3. r \in Seq(Sendable) /\ broadcast \in Seq(Sendable)
    BY <2>1, <2>2, OwnTypes, WiderSeq
  <2> QED
    BY <2>1, <2>2, <2>3, HubAssumption
<1>2. \A m \in Sendable : m.num \in Nat
    BY OwnTypes
<1> HIDE DEF s, r
<1>3. ASSUME send'[c] = s, received'[c] = r, broadcast' = broadcast, sent' = sent PROVE Goal
    BY <1>1, <1>3
<1>4. ASSUME NEW d \in Connections, SendReply(d) PROVE Goal
  <2>1. /\ received' = received /\ broadcast' = broadcast /\ sent' = sent
        /\ send'[c] = s \/ send'[c] = Append(s, Reply(c))
    BY <1>1, <1>4 DEF SendReply, SendToClient, s
  <2>2. CASE send'[c] = Append(s, Reply(c))
    <3>1. Append(s, Reply(c)) \in Seq(Own(c) \cup {Reply(c)})
      BY <1>1
    <3>2. Ordered(r, Append(s, Reply(c)), broadcast, sent + 1)
      BY <1>1, <1>2, OwnTypes, OrderedReply
    <3> QED
      BY <1>1, <2>1, <2>2, <3>1, <3>2 DEF r
  <2> QED
    BY <1>3, <2>1, <2>2 DEF r
<1>5. ASSUME NEW d \in Connections, Pump(d) PROVE Goal
  <2>1. broadcast' = broadcast /\ sent' = sent
    BY <1>5 DEF Pump, run
  <2>2. \/ send'[c] = s /\ received'[c] = r
        \/ /\ s # <<>> /\ send'[c] = Tail(s)
           /\ \/ Head(s) = Reply(c) /\ received'[c] = r
              \/ Head(s) # Reply(c) /\ received'[c] = Append(r, Head(s))
    BY <1>1, <1>5 DEF Pump, s, r
  <2>3. CASE s # <<>> /\ send'[c] = Tail(s) /\ received'[c] = r
    <3>1. Tail(s) \in Seq(Own(c) \cup {Reply(c)})
      BY <1>1, <2>3, TailQueue
    <3>2. Ordered(r, Tail(s), broadcast, sent + 1)
      BY <1>1, <1>2, <2>3, OrderedPump
    <3> QED
      BY <1>1, <2>1, <2>3, <3>1, <3>2
  <2>4. CASE /\ s # <<>> /\ send'[c] = Tail(s)
             /\ Head(s) # Reply(c) /\ received'[c] = Append(r, Head(s))
    <3>1. Tail(s) \in Seq(Own(c) \cup {Reply(c)}) /\ Head(s) \in Own(c) \cup {Reply(c)}
      BY <1>1, <2>4, TailQueue
    <3>2. Head(s) \in Own(c) /\ Head(s).num > 0
      BY <2>4, <3>1, OwnTypes
    <3>3. Append(r, Head(s)) \in Seq(Own(c))
      BY <1>1, <3>2
    <3>4. Ordered(Append(r, Head(s)), Tail(s), broadcast, sent + 1)
      BY <1>1, <1>2, <2>4, <3>2, OrderedPump
    <3> QED
      BY <2>1, <2>4, <3>1, <3>3, <3>4
  <2> QED
    BY <1>3, <2>1, <2>2, <2>3, <2>4
<1>6. ASSUME NEW t \in Tenants, NEW ch \in Channels, Broadcast(t, ch) PROVE Goal
  <2> DEFINE m == [num |-> sent + 1, tenant |-> t, channel |-> ch]
  <2>1. /\ send'[c] = s /\ received'[c] = r /\ sent' = sent + 1
        /\ broadcast' = broadcast \/ broadcast' = Append(broadcast, m)
    BY <1>6 DEF Broadcast, output, s, r
  <2>2. m \in Messages /\ m.num = sent + 1
    <3>1. sent + 1 \in 1 .. MaxMessages
      BY <1>1, <1>6, HubAssumption DEF Broadcast
    <3> QED
      BY <3>1 DEF Messages
  <2>3. m \in Sendable
    BY <2>2, OwnTypes
  <2> HIDE DEF m
  <2>4. /\ Ordered(r, s, broadcast, sent + 1 + 1)
        /\ Ordered(r, s, Append(broadcast, m), sent + 1 + 1)
    BY <1>1, <1>2, <2>2, <2>3, OrderedBroadcast
  <2> QED
    BY <1>1, <2>1, <2>4
<1>7. CASE HandleBroadcast
  <2> DEFINE m == Head(broadcast)
  <2>1. /\ received' = received /\ sent' = sent
        /\ broadcast # <<>> /\ broadcast' = Tail(broadcast)
        /\ \/ send'[c] = s
           \/ send'[c] = Append(s, m) /\ TenantOf[c] = m.tenant
    BY <1>7 DEF HandleBroadcast, Addressees, s
  <2>2. m \in Messages /\ m.num > 0
    BY <1>1, <2>1, TailQueue, OwnTypes
  <2>3. Ordered(r, s, Tail(broadcast), sent + 1)
    BY <1>1, <1>2, <2>1, OrderedDeliver
  <2>4. Ordered(r, Append(s, m), Tail(broadcast), sent + 1)
    BY <1>1, <1>2, <2>1, <2>2, OrderedDeliver
  <2>5. TenantOf[c] = m.tenant => Append(s, m) \in Seq(Own(c) \cup {Reply(c)})
    BY <1>1, <2>2 DEF Own
  <2> HIDE DEF m
  <2> QED
    BY <1>1, <2>1, <2>3, <2>4, <2>5 DEF r
<1>8. CASE \E d \in Connections :
               \/ RegisterClient(d) \/ UnregisterClient(d) \/ Disconnect(d)
               \/ \E ch \in Channels \cup {"*"} : Subscribe(d, ch) \/ Unsubscribe(d, ch)
    BY <1>3, <1>8 DEF RegisterClient, UnregisterClient, Disconnect, Subscribe, Unsubscribe,
                      output, s, r
<1>9. CASE HandleRegister \/ HandleUnregister
    BY <1>3, <1>9 DEF HandleRegister, HandleUnregister, output, s, r
<1> QED
    BY <1>4, <1>5, <1>6, <1>7, <1>8, <1>9 DEF HubNext, RunHub, Handler

LEMMA HubTypeStep == ASSUME HubInv, HubNext PROVE HubTypeOK'
<1> USE HubAssumption DEF HubInv, HubTypeOK, conn, run, output
<1>1. ASSUME NEW c \in Connections, RegisterClient(c) PROVE HubTypeOK'
  <2>1. register' \in Seq(Connections) /\ Len(register') <= QueueSize
    BY <1>1, AppendQueue DEF RegisterClient
  <2> QED
    BY <1>1, <2>1 DEF RegisterClient
<1>2. ASSUME NEW c \in Connections, SendReply(c) PROVE HubTypeOK'
  <2>1. Reply(c) \in Sendable
    BY OwnTypes
  <2>2. /\ send' \in [Connections -> Seq(Sendable)]
        /\ \A d \in Connections : Len(send'[d]) <= SendSize
    BY <1>2, <2>1 DEF SendReply, SendToClient
  <2> QED
    BY <1>2, <2>2 DEF SendReply, SendToClient
<1>3. ASSUME NEW c \in Connections, UnregisterClient(c) PROVE HubTypeOK'
  <2>1. unregister' \in Seq(Connections) /\ Len(unregister') <= QueueSize
    BY <1>3, AppendQueue DEF UnregisterClient
  <2> QED
    BY <1>3, <2>1 DEF UnregisterClient
<1>4. ASSUME NEW c \in Connections, Disconnect(c) PROVE HubTypeOK'
    BY <1>4 DEF Disconnect
<1>5. ASSUME NEW c \in Connections, NEW ch \in Channels \cup {"*"}, Subscribe(c, ch)
      PROVE  HubTypeOK'
    BY <1>5 DEF Subscribe
<1>6. ASSUME NEW c \in Connections, NEW ch \in Channels \cup {"*"}, Unsubscribe(c, ch)
      PROVE  HubTypeOK'
    BY <1>6 DEF Unsubscribe
<1>7. ASSUME NEW c \in Connections, Pump(c) PROVE HubTypeOK'
  <2>1. CASE pump[c] = "on" /\ pump' = [pump EXCEPT ![c] = "done"] /\ UNCHANGED <<send, received>>
    BY <1>7, <2>1 DEF Pump
  <2>2. CASE /\ send[c] # <<>>
             /\ send' = [send EXCEPT ![c] = Tail(@)]
             /\ received' = IF Head(send[c]) = Reply(c) THEN received
                            ELSE [received EXCEPT ![c] = Append(@, Head(send[c]))]
             /\ UNCHANGED pump
    <3>1. /\ Tail(send[c]) \in Seq(Sendable) /\ Len(Tail(send[c])) = Len(send[c]) - 1
      BY <2>2, TailQueue
    <3>2. Head(send[c]) \in Messages \cup {Reply(c)}
      <4>1. Head(send[c]) \in Own(c) \cup {Reply(c)}
        BY <2>2, TailQueue DEF OwnInv
      <4> QED
        BY <4>1, OwnTypes
    <3>3. /\ send' \in [Connections -> Seq(Sendable)]
          /\ \A d \in Connections : Len(send'[d]) <= SendSize
      <4>1. Len(Tail(send[c])) <= SendSize
        BY <2>2, <3>1
      <4> QED
        BY <2>2, <3>1, <4>1
    <3>4. received' \in [Connections -> Seq(Messages)]
      BY <2>2, <3>2
    <3> QED
      BY <1>7, <2>2, <3>3, <3>4 DEF Pump
  <2> QED
    BY <1>7, <2>1, <2>2 DEF Pump
<1>8. ASSUME NEW t \in Tenants, NEW ch \in Channels, Broadcast(t, ch) PROVE HubTypeOK'
  <2>1. sent + 1 \in 1 .. MaxMessages
    BY <1>8 DEF Broadcast
  <2>2. [num |-> sent + 1, tenant |-> t, channel |-> ch] \in Messages
    BY <2>1 DEF Messages
  <2>3. broadcast' \in Seq(Messages) /\ Len(broadcast') <= BacklogSize
    BY <1>8, <2>2 DEF Broadcast
  <2> QED
    BY <1>8, <2>1, <2>3 DEF Broadcast
<1>9. CASE HandleRegister
  <2>1. /\ Head(register) \in Connections
        /\ register' \in Seq(Connections) /\ Len(register') <= QueueSize
    BY <1>9, TailQueue DEF HandleRegister
  <2>2. clients' \in SUBSET Connections
    BY <1>9, <2>1 DEF HandleRegister
  <2> QED
    BY <1>9, <2>1, <2>2 DEF HandleRegister
<1>10. CASE HandleUnregister
  <2>1. /\ Head(unregister) \in Connections
        /\ unregister' \in Seq(Connections) /\ Len(unregister') <= QueueSize
    BY <1>10, TailQueue DEF HandleUnregister
  <2>2. /\ clients' \in SUBSET Connections /\ closed' \in SUBSET Connections
        /\ overtaken' \in SUBSET Connections /\ panicked' \in BOOLEAN
    BY <1>10, <2>1 DEF HandleUnregister
  <2>3. UNCHANGED <<conn, register, broadcast, sent, send, pump, received>>
    BY <1>10 DEF HandleUnregister
  <2> QED
    BY <2>1, <2>2, <2>3
<1>11. CASE HandleBroadcast
  <2>1. /\ Head(broadcast) \in Sendable
        /\ Tail(broadcast) \in Seq(Messages) /\ Len(Tail(broadcast)) = Len(broadcast) - 1
    BY <1>11, TailQueue DEF HandleBroadcast, Sendable
  <2>2. /\ send' \in [Connections -> Seq(Sendable)]
        /\ \A d \in Connections : Len(send'[d]) <= SendSize
    BY <1>11, <2>1 DEF HandleBroadcast
  <2> QED
    BY <1>11, <2>1, <2>2 DEF HandleBroadcast
<1> QED
    BY <1>1, <1>2, <1>3, <1>4, <1>5, <1>6, <1>7, <1>8, <1>9, <1>10, <1>11
       DEF HubNext, RunHub, Handler

LEMMA HubStutter == HubInv /\ UNCHANGED hubVars => HubInv'
<1> SUFFICES ASSUME HubInv, UNCHANGED hubVars PROVE HubInv'
    OBVIOUS
<1> USE DEF HubInv, hubVars
<1>1. HubTypeOK'
    BY DEF HubTypeOK
<1>2. OwnInv'
    BY DEF OwnInv, Own, Reply
<1>3. OrderInv'
    BY DEF OrderInv
<1>4. RegisterInv' /\ PanicOnlyIfOvertaken'
    BY DEF RegisterInv, PanicOnlyIfOvertaken
<1> QED
    BY <1>1, <1>2, <1>3, <1>4

LEMMA HubInvariance == HubSpec => []HubInv
<1>1. HubInv /\ [HubNext]_hubVars => HubInv'
    BY HubTypeStep, OrderStep, RegisterStep, HubStutter DEF HubInv
<1> QED
    BY <1>1, HubInitInv, PTL DEF HubSpec

\* The channels stay within their capacity.
THEOREM HubTyped == HubSpec => []HubTypeOK
<1>1. HubInv => HubTypeOK
    BY DEF HubInv
<1> QED
    BY <1>1, HubInvariance, PTL

\* A client sees its own tenant's messages only, in the order of Broadcast, however
\* slow it is and whatever Run took first from its channels.
THEOREM MessagesInOrder == HubSpec => []DeliveredInOrder
<1>1. HubInv => DeliveredInOrder
  <2> SUFFICES ASSUME HubInv, NEW c \in Connections
               PROVE  LET seen     == received[c] \o send[c]
                          messages == {i \in DOMAIN seen : seen[i] # Reply(c)}
                      IN  /\ \A i \in messages : seen[i].tenant = TenantOf[c]
                          /\ \A i, j \in messages : i < j => seen[i].num < seen[j].num
    BY DEF DeliveredInOrder
  <2> DEFINE s == send[c]
             r == received[c]
             seen == r \o s
             messages == {i \in DOMAIN seen : seen[i] # Reply(c)}
  <2>1. /\ s \in Seq(Own(c) \cup {Reply(c)}) /\ r \in Seq(Own(c))
        /\ Ascending(r) /\ Ascending(s) /\ Behind(r, s)
    BY DEF HubInv, OwnInv, OrderInv, Ordered
  <2> HIDE DEF s, r
  <2>2. /\ Len(r) \in Nat /\ Len(s) \in Nat
        /\ DOMAIN r = 1 .. Len(r) /\ DOMAIN s = 1 .. Len(s)
        /\ DOMAIN seen = 1 .. (Len(r) + Len(s))
        /\ \A i \in 1 .. Len(r) : seen[i] = r[i]
        /\ \A i \in 1 .. (Len(r) + Len(s)) : i \notin 1 .. Len(r) =>
               i - Len(r) \in 1 .. Len(s) /\ seen[i] = s[i - Len(r)]
    BY <2>1
  <2>3. /\ \A i \in 1 .. Len(r) : r[i] \in Own(c)
        /\ \A i \in 1 .. Len(s) : s[i] # Reply(c) => s[i] \in Own(c)
    BY <2>1, <2>2
  <2> HIDE DEF seen
  <2>4. \A i \in messages : seen[i] \in Own(c)
    BY <2>2, <2>3
  <2>5. \A m \in Own(c) : m.num > 0 /\ m.tenant = TenantOf[c]
    BY OwnTypes DEF Own
  <2>6. ASSUME NEW i \in messages, NEW j \in messages, i < j PROVE seen[i].num < seen[j].num
    <3>1. seen[i].num > 0 /\ seen[j].num > 0
      BY <2>4, <2>5
    <3>2. CASE j \in 1 .. Len(r)
      <4>1. i \in 1 .. Len(r)
        BY <2>2, <2>6, <3>2
      <4> QED
        BY <2>1, <2>2, <2>6, <3>1, <3>2, <4>1 DEF Ascending
    <3>3. CASE j \notin 1 .. Len(r) /\ i \in 1 .. Len(r)
      <4>1. j - Len(r) \in 1 .. Len(s) /\ seen[j] = s[j - Len(r)]
        BY <2>2, <3>3
      <4>2. Below(r, seen[j].num)
        BY <2>1, <2>2, <3>1, <4>1 DEF Behind
      <4> QED
        BY <2>2, <3>3, <4>2 DEF Below
    <3>4. CASE i \notin 1 .. Len(r) /\ j \notin 1 .. Len(r)
      <4>1. /\ j - Len(r) \in 1 .. Len(s) /\ seen[j] = s[j - Len(r)]
            /\ i - Len(r) \in 1 .. Len(s) /\ seen[i] = s[i - Len(r)]
        BY <2>2, <3>4
      <4>2. i - Len(r) < j - Len(r)
        BY <2>2, <2>6
      <4> QED
        BY <2>1, <2>2, <3>1, <4>1, <4>2 DEF Ascending
    <3> QED
      BY <3>2, <3>3, <3>4
  <2> QED
    BY <2>4, <2>5, <2>6 DEF seen, s, r
<1> QED
    BY <1>1, HubInvariance, PTL

\* The hub's goroutine sends on a closed channel only to a client it unregistered
\* before it registered it; no other step panics.
THEOREM OnePanic == HubSpec => []PanicOnlyIfOvertaken
<1>1. HubInv => PanicOnlyIfOvertaken
    BY DEF HubInv
<1> QED
    BY <1>1, HubInvariance, PTL

=============================================================================
