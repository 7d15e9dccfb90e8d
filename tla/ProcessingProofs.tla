-------------------------- MODULE ProcessingProofs --------------------------
(***************************************************************************)
(* Proofs about Processing, for any number of pods, messages, attempts and *)
(* faults, any threshold and quota: what the group passes over was dealt   *)
(* with, a breaker agrees with its count, the engine's repeats are paid    *)
(* for by faults, and the slices of the indicators stay in range.          *)
(***************************************************************************)
EXTENDS Processing, FiniteSetTheorems, TLAPS

\* Only a pod that believes it has the partition waits for the engine, and only
\* one that does have it for a commit.
OwnerActs ==
  \A p \in Pods :
    /\ phase[p] \in {"calling", "stuck"} => holds[p] /\ position[p] \in Offsets
    /\ pending[p] # 0 => owner = p
    /\ owner = p => holds[p]
    /\ holds[p] => Running(p)

\* All before the position of a pod that takes messages has been dealt with, and
\* so has what its commit under way would pass over.
HolderInv ==
  \A p \in Pods : holds[p] =>
    \A o \in Offsets : o < position[p] \/ o < pending[p] => fate[o] # {}

\* The pods that may still have the engine process message o.
Ahead(o) ==
  {p \in Pods : /\ holds[p]
                /\ \/ position[p] < o
                   \/ /\ position[p] = o
                      /\ phase[p] # "stuck"}

\* A pod that loses the partition keeps what is ahead of it, and another pod gets
\* it as well: each one is paid for by a fault.
CountInv ==
  \A o \in Offsets :
    processed[o] + Cardinality(Ahead(o)) <= faults + (IF owner = NoPod THEN 0 ELSE 1)

Inv ==
  /\ TypeOK
  /\ OwnerActs
  /\ HolderInv
  /\ PassedOverHasFate
  /\ BreakerAgrees
  /\ CountInv

LEMMA AheadFinite ==
  ASSUME NEW o
  PROVE  /\ Ahead(o) \subseteq Pods /\ IsFiniteSet(Ahead(o))
         /\ Cardinality(Ahead(o)) \in Nat
BY ProcessingAssumption, FS_Subset, FS_CardinalityType DEF Ahead

LEMMA InitInv == Init => Inv
<1> SUFFICES ASSUME Init PROVE Inv
    OBVIOUS
<1> USE ProcessingAssumption DEF Init
<1>1. CountInv
  <2>1. \A o \in Offsets : Ahead(o) = {} /\ processed[o] = 0
    BY DEF Ahead
  <2> QED
    BY <2>1, FS_EmptySet DEF CountInv
<1>2. kind \in [Offsets -> Kinds]
    BY DEF Kinds
<1> QED
    BY <1>1, <1>2 DEF Inv, TypeOK, OwnerActs, HolderInv, PassedOverHasFate, BreakerAgrees,
                      Phases, Fates, Running

States == {"closed", "open", "half"}

\* What the breakers of the pods are made of.
BreakerTypes ==
  /\ breaker \in [Pods -> States]
  /\ failures \in [Pods -> Nat]
  /\ cooled \in [Pods -> BOOLEAN]

LEMMA BreakerSteps ==
  ASSUME BreakerTypes, NEW p \in Pods,
         \/ NewBreaker(p) \/ OnSuccess(p) \/ UNCHANGED breakerVars
         \/ \E b \in States : OnFailure(p, b)
  PROVE  BreakerTypes'
<1> USE DEF BreakerTypes, States
<1>1. CASE NewBreaker(p)
  <2>1. cooled' \in [Pods -> BOOLEAN]
    BY <1>1, Zenon DEF NewBreaker
  <2> QED
    BY <1>1, <2>1 DEF NewBreaker
<1>2. CASE OnSuccess(p)
  <2>1. cooled' \in [Pods -> BOOLEAN]
    BY <1>2, Zenon DEF OnSuccess
  <2> QED
    BY <1>2, <2>1 DEF OnSuccess
<1>3. ASSUME NEW b \in States, OnFailure(p, b) PROVE BreakerTypes'
  <2>1. cooled' \in [Pods -> BOOLEAN]
    BY <1>3, Zenon DEF OnFailure
  <2>2. (IF failures[p] + 1 >= Threshold THEN "open" ELSE b) \in States
    BY <1>3
  <2>3. breaker' \in [Pods -> States]
    BY <1>3, <2>2, Zenon DEF OnFailure
  <2>4. failures' \in [Pods -> Nat]
    BY <1>3 DEF OnFailure
  <2> QED
    BY <2>1, <2>3, <2>4
<1>4. CASE UNCHANGED breakerVars
    BY <1>4 DEF breakerVars
<1> QED
    BY <1>1, <1>2, <1>3, <1>4

LEMMA AfterAllowType ==
  ASSUME BreakerTypes, NEW p \in Pods
  PROVE  breaker[p] \in States /\ AfterAllow(p) \in States
BY DEF BreakerTypes, AfterAllow, States

\* The types of all but the breakers.
OtherTypes ==
  /\ kind \in [Offsets -> Kinds]
  /\ committed \in Nat
  /\ owner \in Pods \cup {NoPod}
  /\ holds \in [Pods -> BOOLEAN]
  /\ phase \in [Pods -> Phases]
  /\ attempt \in [Pods -> 1..Attempts]
  /\ position \in [Pods -> Nat]
  /\ pending \in [Pods -> Nat]
  /\ up \in BOOLEAN
  /\ quota \in 0..Quota
  /\ fate \in [Offsets -> SUBSET Fates]
  /\ processed \in [Offsets -> Nat]
  /\ faults \in Nat /\ outages \in Nat

LEMMA SplitTypes == TypeOK <=> BreakerTypes /\ OtherTypes
BY DEF TypeOK, BreakerTypes, OtherTypes, States

LEMMA BreakerTypesStep ==
  ASSUME BreakerTypes, [Next]_vars
  PROVE  BreakerTypes'
<1>1. ASSUME NEW p \in Pods,
             \/ Connect(p) \/ Drop(p) \/ HandleHere(p)
             \/ Processed(p) \/ CallFails(p) \/ Hangs(p) \/ Breaks(p)
             \/ CommitArrives(p) \/ Assign(p) \/ Rebalance(p) \/ Expire(p) \/ Notice(p)
             \/ Die(p) \/ Restart(p)
      PROVE  BreakerTypes'
  <2>1. \/ NewBreaker(p) \/ OnSuccess(p) \/ UNCHANGED breakerVars
        \/ \E b \in States : OnFailure(p, b)
    BY <1>1, AfterAllowType
       DEF Connect, Connected, NotConnected, Drop, HandleHere, Processed, CallFails,
           Hangs, Breaks, CommitArrives, Assign, Rebalance, Expire, Lose, Notice, Die, Restart,
           breakerVars
  <2> QED
    BY <2>1, BreakerSteps
<1>2. ASSUME NEW p \in Pods, Forward(p) PROVE BreakerTypes'
  <2>1. breaker' \in [Pods -> States] /\ UNCHANGED <<failures, cooled>>
    BY <1>2, AfterAllowType DEF Forward, BreakerTypes
  <2> QED
    BY <2>1 DEF BreakerTypes
<1>3. ASSUME NEW p \in Pods, CoolDown(p) PROVE BreakerTypes'
  <2>1. cooled' \in [Pods -> BOOLEAN] /\ UNCHANGED <<breaker, failures>>
    BY <1>3, Zenon DEF CoolDown, BreakerTypes
  <2> QED
    BY <2>1 DEF BreakerTypes
<1>4. CASE Refill \/ OtherCall \/ Outage \/ Repair \/ UNCHANGED vars
    BY <1>4 DEF Refill, OtherCall, Outage, Repair, breakerVars, vars, BreakerTypes
<1> QED
    BY <1>1, <1>2, <1>3, <1>4 DEF Next, Turn, CallEnds

LEMMA OtherTypesStep ==
  ASSUME OtherTypes, OwnerActs, [Next]_vars
  PROVE  OtherTypes'
<1> USE ProcessingAssumption DEF OtherTypes, groupVars, engineVars, historyVars
<1>1. ASSUME NEW p \in Pods, Connect(p) PROVE OtherTypes'
  <2>1. attempt' \in [Pods -> 1..Attempts] /\ phase' \in [Pods -> Phases]
    BY <1>1 DEF Connect, Connected, NotConnected, Phases
  <2> QED
    BY <1>1, <2>1 DEF Connect
<1>2. ASSUME NEW p \in Pods, CoolDown(p) PROVE OtherTypes'
    BY <1>2 DEF CoolDown
<1>3. ASSUME NEW p \in Pods, Drop(p) PROVE OtherTypes'
    BY <1>3 DEF Drop, HasNext, Advance, Mark, Fates
<1>4. ASSUME NEW p \in Pods, HandleHere(p) PROVE OtherTypes'
  <2>1. position[p] \in Offsets /\ position[p] \in Nat
    BY <1>4 DEF HandleHere, HasNext
  <2>2. fate' \in [Offsets -> SUBSET Fates]
    BY <1>4, <2>1 DEF HandleHere, Mark, Fates
  <2>3. position' \in [Pods -> Nat] /\ pending' \in [Pods -> Nat]
    BY <1>4, <2>1 DEF HandleHere, Advance, Commit
  <2> QED
    BY <1>4, <2>2, <2>3 DEF HandleHere
<1>5. ASSUME NEW p \in Pods, Forward(p) PROVE OtherTypes'
    BY <1>5 DEF Forward, Phases
<1>6. ASSUME NEW p \in Pods, Processed(p) \/ CallFails(p) \/ Breaks(p) PROVE OtherTypes'
  <2>1. position[p] \in Offsets /\ position[p] \in Nat
    BY <1>6 DEF OwnerActs, Processed, CallFails, Breaks
  <2>2. \E f \in Fates : Settle(p, f)
    BY <1>6 DEF Processed, CallFails, Breaks, Fates
  <2>3. /\ fate' \in [Offsets -> SUBSET Fates]
        /\ phase' \in [Pods -> Phases]
        /\ position' \in [Pods -> Nat] /\ pending' \in [Pods -> Nat]
        /\ UNCHANGED <<kind, committed, owner, holds, attempt, up, faults>>
    BY <2>1, <2>2 DEF Settle, Mark, Advance, Commit, Phases
  <2>4. /\ quota' \in 0..Quota
        /\ processed' \in [Offsets -> Nat]
        /\ outages' \in Nat
    BY <1>6, <2>1 DEF Processed, CallFails, Breaks, ProcessEvent, TakeQuota, RateLimited
  <2> QED
    BY <2>3, <2>4
<1>7. ASSUME NEW p \in Pods, CommitArrives(p) PROVE OtherTypes'
    BY <1>7 DEF CommitArrives
<1>8. ASSUME NEW p \in Pods, Assign(p) \/ Restart(p) \/ Notice(p) PROVE OtherTypes'
  <2>1. holds' \in [Pods -> BOOLEAN]
    BY <1>8, Zenon DEF Assign, Restart, Notice
  <2> QED
    BY <1>8, <2>1 DEF Assign, Restart, Notice, Phases
<1>9. ASSUME NEW p \in Pods, Lose(p) \/ Die(p) PROVE OtherTypes'
  <2>1. /\ owner' \in Pods \cup {NoPod}
        /\ pending' \in [Pods -> Nat]
    BY <1>9 DEF Lose, Die, LeaveGroup
  <2>2. /\ phase' \in [Pods -> Phases]
        /\ position' \in [Pods -> Nat]
        /\ attempt' \in [Pods -> 1..Attempts]
        /\ faults' \in Nat
    BY <1>9 DEF Lose, Die, Phases
  <2>3. holds' \in [Pods -> BOOLEAN]
    BY <1>9, Zenon DEF Lose, Die
  <2> QED
    BY <1>9, <2>1, <2>2, <2>3 DEF Lose, Die
<1>13. ASSUME NEW p \in Pods, Hangs(p) PROVE OtherTypes'
  <2>1. position[p] \in Offsets
    BY <1>13 DEF OwnerActs, Hangs
  <2>2. /\ quota' \in 0..Quota
        /\ processed' \in [Offsets -> Nat]
        /\ outages' \in Nat
        /\ phase' \in [Pods -> Phases]
    BY <1>13, <2>1 DEF Hangs, ProcessEvent, TakeQuota, Phases
  <2> QED
    BY <1>13, <2>2 DEF Hangs
<1>10. CASE Refill \/ OtherCall
    BY <1>10 DEF Refill, OtherCall, TakeQuota
<1>11. CASE Outage \/ Repair
  <2>1. up' \in BOOLEAN
    BY <1>11, Zenon DEF Outage, Repair
  <2>2. outages' \in Nat
    BY <1>11 DEF Outage, Repair
  <2>3. UNCHANGED <<kind, committed, owner, holds, position, pending, phase, attempt, quota,
                    fate, processed, faults>>
    BY <1>11 DEF Outage, Repair
  <2> QED
    BY <2>1, <2>2, <2>3
<1>12. CASE UNCHANGED vars
    BY <1>12 DEF vars
<1> QED
    BY <1>1, <1>2, <1>3, <1>4, <1>5, <1>6, <1>7, <1>8, <1>9, <1>10, <1>11, <1>12, <1>13
       DEF Next, Turn, CallEnds, Rebalance, Expire

LEMMA TypeStep == TypeOK /\ OwnerActs /\ [Next]_vars => TypeOK'
BY SplitTypes, BreakerTypesStep, OtherTypesStep, SplitTypes DEF TypeOK, BreakerTypes, OtherTypes, States

LEMMA BreakerAgreesStep ==
  ASSUME BreakerTypes, phase \in [Pods -> Phases], BreakerAgrees, [Next]_vars
  PROVE  BreakerAgrees'
<1> USE ProcessingAssumption DEF BreakerTypes, States, BreakerAgrees, Running
<1>1. ASSUME NEW p \in Pods, Connect(p) PROVE BreakerAgrees'
    BY <1>1 DEF Connect, Connected, NotConnected, NewBreaker, breakerVars
<1>2. ASSUME NEW p \in Pods, CoolDown(p) \/ Drop(p) \/ Hangs(p) \/ CommitArrives(p)
      PROVE  BreakerAgrees'
    BY <1>2 DEF CoolDown, Drop, Hangs, CommitArrives, breakerVars
<1>3. ASSUME NEW p \in Pods, HandleHere(p) \/ Processed(p) \/ CallFails(p) \/ Breaks(p)
      PROVE  BreakerAgrees'
  <2>1. Running(p) /\ \A x \in Pods : x # p => (Running(x)' <=> Running(x))
    BY <1>3 DEF HandleHere, HasNext, Processed, CallFails, Breaks, Settle
  <2>2. \/ OnSuccess(p)
        \/ OnFailure(p, breaker[p])
        \/ OnFailure(p, AfterAllow(p))
    BY <1>3 DEF HandleHere, Processed, CallFails, Breaks
  <2>3. CASE OnSuccess(p)
    BY <2>1, <2>3 DEF OnSuccess
  <2>4. CASE OnFailure(p, breaker[p]) \/ OnFailure(p, AfterAllow(p))
    BY <2>1, <2>4 DEF OnFailure, AfterAllow
  <2> QED
    BY <2>2, <2>3, <2>4
<1>4. ASSUME NEW p \in Pods, Forward(p) PROVE BreakerAgrees'
    BY <1>4 DEF Forward, HasNext, AfterAllow
<1>5. ASSUME NEW p \in Pods, Assign(p) \/ Lose(p) \/ Notice(p) \/ Restart(p)
      PROVE  BreakerAgrees'
    BY <1>5 DEF Assign, Lose, Notice, Restart, breakerVars
<1>6. ASSUME NEW p \in Pods, Die(p) PROVE BreakerAgrees'
    BY <1>6 DEF Die, NewBreaker
<1>7. CASE Refill \/ OtherCall \/ Outage \/ Repair \/ UNCHANGED vars
    BY <1>7 DEF Refill, OtherCall, Outage, Repair, vars, breakerVars
<1> QED
    BY <1>1, <1>2, <1>3, <1>4, <1>5, <1>6, <1>7 DEF Next, Turn, CallEnds, Rebalance, Expire

LEMMA OwnerActsStep ==
  ASSUME OtherTypes, OwnerActs, [Next]_vars
  PROVE  OwnerActs'
<1> USE ProcessingAssumption DEF OtherTypes, OwnerActs, Running, groupVars
<1>1. ASSUME NEW p \in Pods, Connect(p) PROVE OwnerActs'
    BY <1>1 DEF Connect, Connected, NotConnected
<1>2. ASSUME NEW p \in Pods, CoolDown(p) PROVE OwnerActs'
    BY <1>2 DEF CoolDown
<1>3. ASSUME NEW p \in Pods, Drop(p) \/ HandleHere(p) PROVE OwnerActs'
  <2>1. /\ phase[p] = "idle"
        /\ UNCHANGED <<owner, holds, phase>>
        /\ position' = [position EXCEPT ![p] = @ + 1]
        /\ \/ pending' = pending
           \/ /\ owner = p
              /\ pending' = [pending EXCEPT ![p] = position[p] + 1]
    <3>1. CASE Drop(p)
      BY <3>1 DEF Drop, HasNext, Advance
    <3>2. CASE HandleHere(p)
      BY <3>2 DEF HandleHere, HasNext, Advance, Commit
    <3> QED
      BY <1>3, <3>1, <3>2
  <2> QED
    BY <2>1
<1>4. ASSUME NEW p \in Pods, Forward(p) PROVE OwnerActs'
    BY <1>4 DEF Forward, HasNext
<1>5. ASSUME NEW p \in Pods, Processed(p) \/ CallFails(p) \/ Breaks(p) PROVE OwnerActs'
    BY <1>5 DEF Processed, CallFails, Breaks, Settle, Advance, Commit
<1>6. ASSUME NEW p \in Pods, CommitArrives(p) \/ Hangs(p) PROVE OwnerActs'
    BY <1>6 DEF CommitArrives, Hangs
<1>7. ASSUME NEW p \in Pods, Assign(p) \/ Restart(p) \/ Notice(p) PROVE OwnerActs'
    BY <1>7 DEF Assign, Restart, Notice
<1>8. ASSUME NEW p \in Pods, Lose(p) \/ Die(p) PROVE OwnerActs'
    BY <1>8 DEF Lose, Die, LeaveGroup
<1>9. CASE Refill \/ OtherCall \/ Outage \/ Repair \/ UNCHANGED vars
    BY <1>9 DEF Refill, OtherCall, Outage, Repair, vars
<1> QED
    BY <1>1, <1>2, <1>3, <1>4, <1>5, <1>6, <1>7, <1>8, <1>9
       DEF Next, Turn, CallEnds, Rebalance, Expire

\* The steps by which pod p moves past a message.
Moves(p) == Drop(p) \/ HandleHere(p) \/ Processed(p) \/ CallFails(p) \/ Breaks(p)

\* The steps of p that leave the group and the fates alone.
Other(p) == Connect(p) \/ CoolDown(p) \/ Forward(p) \/ Hangs(p) \/ Restart(p)

LEMMA MoveStep ==
  ASSUME OtherTypes, OwnerActs, NEW p \in Pods, Moves(p)
  PROVE  /\ holds[p] /\ UNCHANGED <<owner, holds, committed, faults>>
         /\ position[p] \in Offsets /\ position[p] \in Nat
         /\ position' = [position EXCEPT ![p] = @ + 1]
         /\ \/ pending' = pending
            \/ /\ owner = p
               /\ pending' = [pending EXCEPT ![p] = position[p] + 1]
         /\ \E f \in Fates : fate' = [fate EXCEPT ![position[p]] = @ \cup {f}]
<1>1. \E f \in Fates : Mark(position[p], f)
    BY DEF Moves, Drop, HandleHere, Processed, CallFails, Breaks, Settle, Fates
<1> QED
    BY <1>1, ProcessingAssumption
       DEF Moves, Drop, HandleHere, HasNext, Processed, CallFails, Breaks, Settle, Advance,
           Commit, OwnerActs, OtherTypes, Mark

\* What was dealt with stays so, and a message that a pod moves past has been.
LEMMA FateStep ==
  ASSUME OtherTypes, OwnerActs, [Next]_vars, NEW o \in Offsets
  PROVE  /\ fate[o] \subseteq fate'[o]
         /\ \A p \in Pods : Moves(p) => fate'[position[p]] # {}
<1>1. ASSUME NEW p \in Pods, Moves(p)
      PROVE  fate[o] \subseteq fate'[o] /\ fate'[position[p]] # {}
  <2>1. position[p] \in Offsets /\ \E f \in Fates : fate' = [fate EXCEPT ![position[p]] = @ \cup {f}]
    BY <1>1, MoveStep
  <2> QED
    BY <2>1 DEF OtherTypes
<1>2. (\E p \in Pods : Moves(p)) \/ UNCHANGED fate
    BY DEF Moves, Next, Turn, CallEnds, Connect, CoolDown, Forward, Hangs, CommitArrives, Assign,
           Notice, Rebalance, Expire, Lose, Die, Restart, Refill, OtherCall, Outage, Repair, vars,
           historyVars
<1> QED
    BY <1>1, <1>2

LEMMA PassedOverStep ==
  ASSUME OtherTypes, OwnerActs, OwnerActs', HolderInv, PassedOverHasFate, [Next]_vars
  PROVE  HolderInv' /\ PassedOverHasFate'
<1> USE ProcessingAssumption DEF OtherTypes, HolderInv, PassedOverHasFate, groupVars
<1>1. \A o \in Offsets : fate[o] # {} => fate'[o] # {}
    BY FateStep
<1>2. ASSUME NEW p \in Pods, Moves(p) PROVE HolderInv' /\ PassedOverHasFate'
  <2>1. /\ holds[p] /\ UNCHANGED <<holds, committed>>
        /\ position[p] \in Offsets /\ position[p] \in Nat
        /\ position' = [position EXCEPT ![p] = @ + 1]
        /\ pending' = pending \/ pending' = [pending EXCEPT ![p] = position[p] + 1]
    BY <1>2, MoveStep
  <2>2. \A o \in Offsets : o < position[p] + 1 => fate'[o] # {}
    <3>1. fate'[position[p]] # {}
      BY <1>2, <2>1, FateStep
    <3>2. \A o \in Offsets : o < position[p] + 1 => o < position[p] \/ o = position[p]
      BY <2>1
    <3> QED
      BY <1>1, <2>1, <3>1, <3>2
  <2>3. HolderInv'
    BY <1>1, <2>1, <2>2
  <2> QED
    BY <1>1, <2>1, <2>3
<1>3. ASSUME NEW p \in Pods, CommitArrives(p) PROVE HolderInv' /\ PassedOverHasFate'
  <2>1. /\ holds[p] /\ UNCHANGED <<holds, position>>
        /\ committed' = pending[p]
        /\ pending' = [pending EXCEPT ![p] = 0]
    BY <1>3 DEF CommitArrives, OwnerActs
  <2>2. PassedOverHasFate'
    BY <1>1, <2>1
  <2>3. \A o \in Offsets : o >= 0 /\ ~(o < 0)
    OBVIOUS
  <2>4. HolderInv'
    BY <1>1, <2>1, <2>3
  <2> QED
    BY <2>2, <2>4
<1>4. ASSUME NEW p \in Pods, Assign(p) PROVE HolderInv' /\ PassedOverHasFate'
  <2>1. /\ owner = NoPod /\ UNCHANGED <<committed, pending>>
        /\ holds' = [holds EXCEPT ![p] = TRUE]
        /\ position' = [position EXCEPT ![p] = committed]
    BY <1>4 DEF Assign
  <2>2. pending[p] = 0
    BY <2>1 DEF OwnerActs
  <2> QED
    BY <1>1, <2>1, <2>2
<1>5. ASSUME NEW p \in Pods, Lose(p) \/ Die(p) \/ Notice(p) PROVE HolderInv' /\ PassedOverHasFate'
  <2>1. /\ UNCHANGED committed
        /\ \A x \in Pods : holds'[x] => holds[x] /\ position'[x] = position[x]
        /\ \A x \in Pods : pending'[x] = pending[x] \/ pending'[x] = 0
    BY <1>5 DEF Lose, Die, LeaveGroup, Notice
  <2>2. \A o \in Offsets : ~(o < 0)
    OBVIOUS
  <2> QED
    BY <1>1, <2>1, <2>2
<1>6. ASSUME \/ \E p \in Pods : Other(p)
             \/ Refill \/ OtherCall \/ Outage \/ Repair \/ UNCHANGED vars
      PROVE  HolderInv' /\ PassedOverHasFate'
  <2>1. UNCHANGED <<committed, holds, position, pending>>
    BY <1>6 DEF Other, Connect, CoolDown, Forward, Hangs, Restart, Refill, OtherCall, Outage,
                Repair, vars
  <2> QED
    BY <1>1, <2>1
<1> QED
    BY <1>2, <1>3, <1>4, <1>5, <1>6 DEF Next, Turn, CallEnds, Rebalance, Expire, Moves, Other

\* Fewer pods ahead are no more.
LEMMA FewerAhead ==
  ASSUME NEW o, Ahead(o)' \subseteq Ahead(o)
  PROVE  /\ Cardinality(Ahead(o)') <= Cardinality(Ahead(o))
         /\ Cardinality(Ahead(o)') \in Nat /\ Cardinality(Ahead(o)) \in Nat
BY AheadFinite, FS_Subset, FS_CardinalityType

\* A pod that may have the engine process message o once more, and then may not.
LEMMA OneLessAhead ==
  ASSUME NEW o, NEW p \in Ahead(o), Ahead(o)' = Ahead(o) \ {p}
  PROVE  /\ Cardinality(Ahead(o)') = Cardinality(Ahead(o)) - 1
         /\ Cardinality(Ahead(o)') \in Nat /\ Cardinality(Ahead(o)) \in Nat
<1>1. /\ Cardinality(Ahead(o) \ {p}) = Cardinality(Ahead(o)) - 1
      /\ Cardinality(Ahead(o) \ {p}) \in Nat /\ Cardinality(Ahead(o)) \in Nat
    BY AheadFinite, FS_RemoveElement, FS_CardinalityType
<1> QED
    BY <1>1

LEMMA CountStep ==
  ASSUME OtherTypes, OwnerActs, CountInv, [Next]_vars
  PROVE  CountInv'
<1> USE ProcessingAssumption DEF OtherTypes
<1> DEFINE Slack == faults + (IF owner = NoPod THEN 0 ELSE 1)
<1>0. /\ Slack \in Nat
      /\ \A o \in Offsets : /\ processed[o] + Cardinality(Ahead(o)) <= Slack
                            /\ processed[o] \in Nat
                            /\ Cardinality(Ahead(o)) \in Nat
    BY AheadFinite DEF CountInv
<1>1. ASSUME Slack' = Slack, UNCHANGED processed, \A o \in Offsets : Ahead(o)' \subseteq Ahead(o)
      PROVE  CountInv'
  <2>1. \A o \in Offsets : /\ Cardinality(Ahead(o)') <= Cardinality(Ahead(o))
                           /\ Cardinality(Ahead(o)') \in Nat
    BY <1>1, FewerAhead
  <2> HIDE DEF Slack
  <2>2. \A o \in Offsets : processed'[o] + Cardinality(Ahead(o)') <= Slack'
    BY <1>0, <1>1, <2>1
  <2> QED
    BY <2>2 DEF CountInv, Slack
<1>2. ASSUME NEW p \in Pods, NEW n \in Offsets, Slack' = Slack, p \in Ahead(n),
             processed' = [processed EXCEPT ![n] = @ + 1],
             Ahead(n)' = Ahead(n) \ {p},
             \A o \in Offsets : Ahead(o)' \subseteq Ahead(o)
      PROVE  CountInv'
  <2>1. \A o \in Offsets : /\ Cardinality(Ahead(o)') <= Cardinality(Ahead(o))
                           /\ Cardinality(Ahead(o)') \in Nat
    BY <1>2, FewerAhead
  <2>2. Cardinality(Ahead(n)') = Cardinality(Ahead(n)) - 1
    BY <1>2, OneLessAhead
  <2>3. /\ processed'[n] = processed[n] + 1
        /\ \A o \in Offsets : o # n => processed'[o] = processed[o]
    BY <1>2
  <2> HIDE DEF Slack
  <2>4. \A o \in Offsets : processed'[o] + Cardinality(Ahead(o)') <= Slack'
    <3> TAKE o \in Offsets
    <3>1. /\ processed[o] + Cardinality(Ahead(o)) <= Slack
          /\ processed[o] \in Nat /\ Cardinality(Ahead(o)) \in Nat /\ Slack \in Nat
          /\ Slack' = Slack
          /\ Cardinality(Ahead(o)') <= Cardinality(Ahead(o)) /\ Cardinality(Ahead(o)') \in Nat
      BY <1>0, <1>2, <2>1
    <3>2. CASE o = n
      <4>1. /\ processed'[o] = processed[o] + 1
            /\ Cardinality(Ahead(o)') = Cardinality(Ahead(o)) - 1
        BY <2>2, <2>3, <3>2
      <4> QED
        BY <3>1, <4>1
    <3>3. CASE o # n
      <4>1. processed'[o] = processed[o]
        BY <2>3, <3>3
      <4> QED
        BY <3>1, <4>1
    <3> QED
      BY <3>2, <3>3
  <2> QED
    BY <2>4 DEF CountInv, Slack
<1>3. ASSUME NEW p \in Pods, Moves(p) PROVE CountInv'
  <2>1. /\ holds[p] /\ UNCHANGED <<owner, holds, faults>>
        /\ position[p] \in Offsets /\ position[p] \in Nat
        /\ position' = [position EXCEPT ![p] = @ + 1]
    BY <1>3, MoveStep
  <2>2. /\ phase' = phase \/ phase' = [phase EXCEPT ![p] = "idle"]
        /\ UNCHANGED processed \/ /\ phase[p] = "calling"
                                  /\ processed' = [processed EXCEPT ![position[p]] = @ + 1]
    BY <1>3 DEF Moves, Drop, HandleHere, Processed, CallFails, Breaks, Settle, ProcessEvent
  <2>3. \A o \in Offsets : Ahead(o)' \subseteq Ahead(o)
    BY <2>1, <2>2 DEF Ahead
  <2>4. PICK n \in Offsets : n = position[p]
    BY <2>1
  <2>5. n \in Nat /\ position'[p] = n + 1 /\ \A x \in Pods \ {p} : position'[x] = position[x]
    BY <2>1, <2>4
  <2>6. phase[p] = "calling" => p \in Ahead(n) /\ Ahead(n)' = Ahead(n) \ {p}
    BY <2>1, <2>2, <2>4, <2>5 DEF Ahead
  <2> QED
    BY <1>1, <1>2, <2>1, <2>2, <2>3, <2>4, <2>6
<1>4. ASSUME NEW p \in Pods, Hangs(p) PROVE CountInv'
  <2>1. /\ holds[p] /\ UNCHANGED <<owner, holds, faults, position>>
        /\ position[p] \in Offsets /\ phase[p] = "calling"
        /\ phase' = [phase EXCEPT ![p] = "stuck"]
        /\ UNCHANGED processed \/ processed' = [processed EXCEPT ![position[p]] = @ + 1]
    BY <1>4 DEF Hangs, ProcessEvent, OwnerActs, groupVars
  <2>2. \A o \in Offsets : Ahead(o)' \subseteq Ahead(o)
    BY <2>1 DEF Ahead
  <2>3. PICK n \in Offsets : n = position[p]
    BY <2>1
  <2>4. n \in Nat /\ p \in Ahead(n) /\ Ahead(n)' = Ahead(n) \ {p}
    BY <2>1, <2>3 DEF Ahead
  <2> QED
    BY <1>1, <1>2, <2>1, <2>2, <2>3, <2>4
<1>5. ASSUME NEW p \in Pods, Assign(p) PROVE CountInv'
  <2>1. /\ owner = NoPod /\ owner' = p /\ UNCHANGED <<processed, faults, phase>>
        /\ holds' = [holds EXCEPT ![p] = TRUE]
        /\ position' = [position EXCEPT ![p] = committed]
        /\ ~holds[p]
    BY <1>5 DEF Assign, historyVars
  <2>2. \A o \in Offsets : p \notin Ahead(o) /\ Ahead(o)' \subseteq Ahead(o) \cup {p}
    BY <2>1 DEF Ahead
  <2>3. \A o \in Offsets : /\ Cardinality(Ahead(o)') <= Cardinality(Ahead(o)) + 1
                           /\ Cardinality(Ahead(o)') \in Nat
    <3> TAKE o \in Offsets
    <3>1. IsFiniteSet(Ahead(o)) /\ Cardinality(Ahead(o)) \in Nat
      BY AheadFinite
    <3>2. /\ IsFiniteSet(Ahead(o) \cup {p})
          /\ Cardinality(Ahead(o) \cup {p}) = Cardinality(Ahead(o)) + 1
      BY <2>2, <3>1, FS_AddElement
    <3> QED
      BY <2>2, <3>1, <3>2, FS_Subset, FS_CardinalityType
  <2>4. Slack' = Slack + 1
    BY <2>1
  <2> HIDE DEF Slack
  <2>5. \A o \in Offsets : processed'[o] + Cardinality(Ahead(o)') <= Slack'
    BY <1>0, <2>1, <2>3, <2>4
  <2> QED
    BY <2>5 DEF CountInv, Slack
<1>6. ASSUME NEW p \in Pods, Lose(p) \/ Die(p) PROVE CountInv'
  <2>1. /\ UNCHANGED processed /\ faults' = faults + 1
        /\ owner' = IF owner = p THEN NoPod ELSE owner
    BY <1>6 DEF Lose, Die, LeaveGroup, historyVars
  <2>2. \A o \in Offsets : Ahead(o)' \subseteq Ahead(o)
    BY <1>6 DEF Lose, Die, Ahead, Running, OwnerActs
  <2>3. \A o \in Offsets : /\ Cardinality(Ahead(o)') <= Cardinality(Ahead(o))
                           /\ Cardinality(Ahead(o)') \in Nat
    BY <2>2, FewerAhead
  <2>4. Slack' >= Slack /\ Slack' \in Nat
    BY <2>1
  <2> HIDE DEF Slack
  <2>5. \A o \in Offsets : processed'[o] + Cardinality(Ahead(o)') <= Slack'
    BY <1>0, <2>1, <2>3, <2>4
  <2> QED
    BY <2>5 DEF CountInv, Slack
<1>7. ASSUME \/ \E p \in Pods : \/ Connect(p) \/ CoolDown(p) \/ Forward(p) \/ Restart(p)
                                \/ CommitArrives(p) \/ Notice(p)
             \/ Refill \/ OtherCall \/ Outage \/ Repair \/ UNCHANGED vars
      PROVE  CountInv'
  <2>1. UNCHANGED <<owner, position, processed, faults>>
    BY <1>7 DEF Connect, CoolDown, Forward, Restart, CommitArrives, Notice, Refill, OtherCall,
                Outage, Repair, vars, groupVars, historyVars
  <2>2. \A x \in Pods : holds'[x] => holds[x]
    BY <1>7 DEF Connect, CoolDown, Forward, Restart, CommitArrives, Notice, Refill, OtherCall,
                Outage, Repair, vars, groupVars
  <2>3. \A x \in Pods : phase[x] = "stuck" => phase'[x] = "stuck"
    BY <1>7 DEF Connect, Connected, NotConnected, CoolDown, Forward, HasNext, Restart,
                CommitArrives, Notice, Refill, OtherCall, Outage, Repair, vars
  <2>4. \A o \in Offsets : Ahead(o)' \subseteq Ahead(o)
    BY <2>1, <2>2, <2>3 DEF Ahead
  <2> QED
    BY <1>1, <2>1, <2>4
<1> QED
    BY <1>3, <1>4, <1>5, <1>6, <1>7 DEF Next, Turn, CallEnds, Rebalance, Expire, Moves

LEMMA InvStep == Inv /\ [Next]_vars => Inv'
<1> SUFFICES ASSUME Inv, [Next]_vars PROVE Inv'
    OBVIOUS
<1>1. BreakerTypes /\ OtherTypes
    BY SplitTypes DEF Inv
<1>2. TypeOK' /\ OwnerActs'
    BY <1>1, TypeStep, OwnerActsStep DEF Inv
<1> QED
    BY <1>1, <1>2, BreakerAgreesStep, PassedOverStep, CountStep DEF Inv, OtherTypes

LEMMA Invariant == Spec => []Inv
BY InitInv, InvStep, PTL DEF Spec

\* The consumers, the breakers and the engine keep their types (mod.rs).
THEOREM TypeCorrect == Spec => []TypeOK
<1>1. Inv => TypeOK
    BY DEF Inv
<1> QED
    BY <1>1, Invariant, PTL

\* The committed offset never passes a message that no pod has dealt with,
\* whichever pods die or lose the partition (consumer/mod.rs, run).
THEOREM NothingPassedOver == Spec => []PassedOverHasFate
<1>1. Inv => PassedOverHasFate
    BY DEF Inv
<1> QED
    BY <1>1, Invariant, PTL

\* A breaker is closed exactly while it has counted fewer failures in a row
\* than its threshold (consumer/mod.rs, CircuitBreaker).
THEOREM BreakersAgree == Spec => []BreakerAgrees
<1>1. Inv => BreakerAgrees
    BY DEF Inv
<1> QED
    BY <1>1, Invariant, PTL

\* The engine processes a message once, and once more at most for each pod that
\* died or lost the partition, while it waited or in the middle of a call (consumer/mod.rs, handle_message).
THEOREM RepeatsAreFaults == Spec => []RepeatsExplained
<1>1. Inv => RepeatsExplained
  <2> SUFFICES ASSUME Inv, NEW o \in Offsets PROVE processed[o] <= 1 + faults
    BY DEF RepeatsExplained
  <2>1. processed[o] \in Nat /\ faults \in Nat /\ Cardinality(Ahead(o)) \in Nat
    BY AheadFinite DEF Inv, TypeOK
  <2> QED
    BY <2>1 DEF Inv, CountInv
<1> QED
    BY <1>1, Invariant, PTL

\* For any number of prices, extract_signals asks the engine for what it can
\* compute, and the slices of rsi and macd stay in range and end together
\* (engine/mod.rs, grpc/mod.rs).
THEOREM SlicesInRange == \A n \in Nat : SignalsSound(n)
BY DEF SignalsSound, Changes, EmaLen, EmaEnd, RsiPeriod, Fast, Slow, SignalPeriod, RsiNeeds,
       MacdNeeds, Asked, Computed

=============================================================================
