------------------------------ MODULE Processing ------------------------------
(***************************************************************************)
(* The processing service: every pod runs a Kafka consumer that forwards   *)
(* the messages of one partition, through a circuit breaker, to the gRPC   *)
(* engine behind the service's address, and an engine that serves calls    *)
(* under a rate limit.                                                     *)
(*                                                                         *)
(*   src/services/processing/src/consumer/mod.rs  breaker and consumer     *)
(*   src/services/processing/src/grpc/mod.rs      engine                   *)
(*   src/services/processing/src/engine/mod.rs    indicators               *)
(*   src/services/processing/src/main.rs          start and readiness      *)
(*                                                                         *)
(* External: the broker (one partition of "market-events" and the group's  *)
(* committed offset) and the network between a consumer and the engine.    *)
(***************************************************************************)
EXTENDS Integers, FiniteSets

CONSTANTS Pods,          \* replicas of the deployment
          Offsets,       \* offsets of the partition, 1..n
          Contents,      \* what the partition may hold at its offsets
          Threshold,     \* failures that open the breaker; 5 in the code
          Attempts,      \* connection attempts at start; 5 in the code
          Quota,         \* calls the limiter lets through; 500 a second
          MaxFaults,     \* bound: pods that die, or lose the partition but by Expire
          MaxOutages,    \* bound: outages of the engine, answers lost, calls that hang
          NoPod

ASSUME ProcessingAssumption ==
  /\ IsFiniteSet(Pods)
  /\ Offsets \subseteq Nat \ {0}
  /\ Contents \subseteq [Offsets -> {"event", "empty", "garbled"}]
  /\ Threshold \in Nat \ {0}
  /\ Attempts \in Nat \ {0}
  /\ Quota \in Nat
  /\ MaxFaults \in Nat /\ MaxOutages \in Nat
  /\ NoPod \notin Pods

VARIABLES
  kind,       \* what the partition holds at each offset
  committed,  \* next offset the group reads after a restart
  owner,      \* pod the partition is assigned to
  holds,      \* whether a pod takes messages as if it had the partition
  phase,      \* where each pod is
  attempt,    \* connection attempts of a starting pod
  breaker,    \* CircuitBreaker.state
  failures,   \* CircuitBreaker.consecutive_failures
  cooled,     \* 30 s have passed since CircuitBreaker.last_failure
  position,   \* next offset the pod receives
  pending,    \* asynchronous commit that has not reached the broker; 0: none
  up,         \* the engine is reachable
  quota,      \* calls the rate limiter still lets through
  fate,       \* history: what happened to each message
  processed,  \* history: how often the engine processed each message
  faults, outages

breakerVars == <<breaker, failures, cooled>>
groupVars == <<committed, owner, holds, position, pending>>
engineVars == <<up, quota, outages>>
historyVars == <<fate, processed>>
vars == <<kind, groupVars, phase, attempt, breakerVars, engineVars, historyVars, faults>>

Kinds == {"event", "empty", "garbled"}
Fates == {"forwarded", "skipped", "failed", "dropped"}
Phases == {"down", "connecting", "idle", "calling", "stuck", "noConsumer"}

\* A pod whose consumer has started; main.rs reports it ready from then on.
Running(p) == phase[p] \in {"idle", "calling", "stuck"}

TypeOK ==
  /\ kind \in [Offsets -> Kinds]
  /\ committed \in Nat
  /\ owner \in Pods \cup {NoPod}
  /\ holds \in [Pods -> BOOLEAN]
  /\ phase \in [Pods -> Phases]
  /\ attempt \in [Pods -> 1..Attempts]
  /\ breaker \in [Pods -> {"closed", "open", "half"}]
  /\ failures \in [Pods -> Nat]
  /\ cooled \in [Pods -> BOOLEAN]
  /\ position \in [Pods -> Nat]
  /\ pending \in [Pods -> Nat]
  /\ up \in BOOLEAN
  /\ quota \in 0..Quota
  /\ fate \in [Offsets -> SUBSET Fates]
  /\ processed \in [Offsets -> Nat]
  /\ faults \in Nat /\ outages \in Nat

Init ==
  /\ kind \in Contents
  /\ committed = 1                       \* auto.offset.reset = earliest
  /\ owner = NoPod
  /\ holds = [p \in Pods |-> FALSE]
  /\ phase = [p \in Pods |-> "connecting"]
  /\ attempt = [p \in Pods |-> 1]
  /\ breaker = [p \in Pods |-> "closed"]
  /\ failures = [p \in Pods |-> 0]
  /\ cooled = [p \in Pods |-> FALSE]
  /\ position = [p \in Pods |-> 1]
  /\ pending = [p \in Pods |-> 0]
  /\ up = TRUE /\ quota = Quota
  /\ fate = [o \in Offsets |-> {}]
  /\ processed = [o \in Offsets |-> 0]
  /\ faults = 0 /\ outages = 0

-----------------------------------------------------------------------------
(* Start of a pod *)

\* CircuitBreaker::new, and what is left of the breaker of a pod that dies.
NewBreaker(p) ==
  /\ breaker' = [breaker EXCEPT ![p] = "closed"]
  /\ failures' = [failures EXCEPT ![p] = 0]
  /\ cooled' = [cooled EXCEPT ![p] = FALSE]

\* The pod's consumer is built: subscribed, connected, its breaker closed.
Connected(p) ==
  /\ up
  /\ phase' = [phase EXCEPT ![p] = "idle"]
  /\ attempt' = [attempt EXCEPT ![p] = 1]
  /\ NewBreaker(p)

\* An attempt fails; after the last one the pod goes on without a consumer.
NotConnected(p) ==
  /\ ~up
  /\ IF attempt[p] < Attempts
     THEN attempt' = [attempt EXCEPT ![p] = @ + 1] /\ UNCHANGED phase
     ELSE /\ phase' = [phase EXCEPT ![p] = "noConsumer"]
          /\ attempt' = [attempt EXCEPT ![p] = 1]
  /\ UNCHANGED breakerVars

Connect(p) ==
  /\ phase[p] = "connecting"
  /\ Connected(p) \/ NotConnected(p)
  /\ UNCHANGED <<kind, groupVars, engineVars, historyVars, faults>>

-----------------------------------------------------------------------------
(* Breaker of a pod *)

\* allow: an open breaker that has cooled lets one message through, half-open.
Allowed(p) == breaker[p] # "open" \/ cooled[p]
AfterAllow(p) == IF breaker[p] = "open" THEN "half" ELSE breaker[p]

\* Mutant of OnSuccess: the count is not reset.
OnSuccessKeepsCount(p) ==
  /\ breaker' = [breaker EXCEPT ![p] = "closed"]
  /\ cooled' = [cooled EXCEPT ![p] = FALSE]
  /\ UNCHANGED failures

OnSuccess(p) ==
  /\ breaker' = [breaker EXCEPT ![p] = "closed"]
  /\ failures' = [failures EXCEPT ![p] = 0]
  /\ cooled' = [cooled EXCEPT ![p] = FALSE]

\* In state b. The count goes on in a half-open breaker: its next failure opens it.
OnFailure(p, b) ==
  /\ failures' = [failures EXCEPT ![p] = @ + 1]
  /\ breaker' = [breaker EXCEPT ![p] = IF failures[p] + 1 >= Threshold THEN "open" ELSE b]
  /\ cooled' = [cooled EXCEPT ![p] = FALSE]

\* 30 seconds pass after the last failure.
CoolDown(p) ==
  /\ breaker[p] = "open" /\ ~cooled[p]
  /\ cooled' = [cooled EXCEPT ![p] = TRUE]
  /\ UNCHANGED <<kind, groupVars, phase, attempt, breaker, failures, engineVars, historyVars, faults>>

-----------------------------------------------------------------------------
(* The engine *)

\* check_rate_limit
TakeQuota == quota > 0 /\ quota' = quota - 1
RateLimited == quota = 0 /\ UNCHANGED quota

\* Time gives the limiter a call back.
Refill ==
  /\ quota < Quota
  /\ quota' = quota + 1
  /\ UNCHANGED <<kind, groupVars, phase, attempt, breakerVars, up, outages, historyVars, faults>>

\* process_event of the message at offset o; the event is never missing.
ProcessEvent(o) ==
  /\ TakeQuota
  /\ processed' = [processed EXCEPT ![o] = @ + 1]

\* Lengths of the series that rsi and macd build from n prices, and the price
\* (counted from 0) that the i-th entry of a moving average ends at.
Changes(n) == n - 1
EmaLen(n, period) == n - period + 1
EmaEnd(period, i) == period - 1 + i

RsiPeriod == 14
Fast == 12
Slow == 26
SignalPeriod == 9

\* Fewer than these are InsufficientData to the engine.
RsiNeeds == RsiPeriod + 1
MacdNeeds == Slow + SignalPeriod

\* extract_signals of n prices: which indicators the RPC asks for.
Asked(n) == {x \in {"rsi", "macd"} : n >= (IF x = "rsi" THEN 15 ELSE 35)}

\* Those the engine computes.
Computed(n) == {x \in Asked(n) : n >= (IF x = "rsi" THEN RsiNeeds ELSE MacdNeeds)}

\* process_stream, compute_correlation and extract_signals of other clients
\* change no state but the limiter's, whatever they answer.
OtherCall ==
  /\ TakeQuota
  /\ UNCHANGED <<kind, groupVars, phase, attempt, breakerVars, up, outages, historyVars, faults>>

\* The network to the engine, or the engine, fails and comes back.
Outage ==
  /\ up /\ outages < MaxOutages
  /\ up' = FALSE /\ outages' = outages + 1
  /\ UNCHANGED <<kind, groupVars, phase, attempt, breakerVars, quota, historyVars, faults>>

Repair ==
  /\ ~up /\ up' = TRUE
  /\ UNCHANGED <<kind, groupVars, phase, attempt, breakerVars, quota, outages, historyVars, faults>>

-----------------------------------------------------------------------------
(* The loop of a consumer *)

Mark(o, f) == fate' = [fate EXCEPT ![o] = @ \cup {f}]

\* Whatever became of the message, its offset is committed, asynchronously.
\* The broker refuses that of a pod that has lost the partition.
Commit(p, o) == pending' = IF owner = p THEN [pending EXCEPT ![p] = o + 1] ELSE pending

\* The message the pod receives next.
HasNext(p) ==
  /\ phase[p] = "idle"
  /\ holds[p]
  /\ position[p] \in Offsets

Advance(p) == position' = [position EXCEPT ![p] = @ + 1]

\* The breaker is open: the message is dropped and not committed.
Drop(p) ==
  /\ HasNext(p) /\ ~Allowed(p)
  /\ Advance(p)
  /\ Mark(position[p], "dropped")
  /\ UNCHANGED <<kind, committed, owner, holds, pending, phase, attempt, breakerVars,
                 engineVars, processed, faults>>

\* handle_message needs no call: an empty payload counts as a success, one
\* that does not decode as a failure.
HandleHere(p) ==
  /\ HasNext(p) /\ Allowed(p)
  /\ \/ kind[position[p]] = "empty" /\ Mark(position[p], "skipped") /\ OnSuccess(p)
     \/ /\ kind[position[p]] = "garbled"
        /\ Mark(position[p], "failed")
        /\ OnFailure(p, AfterAllow(p))
  /\ Advance(p)
  /\ Commit(p, position[p])
  /\ UNCHANGED <<kind, committed, owner, holds, phase, attempt, engineVars, processed, faults>>

\* handle_message forwards the event and waits for the engine.
Forward(p) ==
  /\ HasNext(p) /\ Allowed(p)
  /\ kind[position[p]] = "event"
  /\ phase' = [phase EXCEPT ![p] = "calling"]
  /\ breaker' = [breaker EXCEPT ![p] = AfterAllow(p)]
  /\ UNCHANGED <<kind, groupVars, attempt, failures, cooled, engineVars, historyVars, faults>>

\* Mutant of Settle: a failed message is tried again at once.
SettleRetries(p, f) ==
  /\ phase' = [phase EXCEPT ![p] = "idle"]
  /\ Mark(position[p], f)
  /\ IF f = "failed" THEN UNCHANGED <<position, pending>>
     ELSE Advance(p) /\ Commit(p, position[p])
  /\ UNCHANGED <<kind, committed, owner, holds, attempt, up, faults>>

\* The call returned.
Settle(p, f) ==
  /\ phase' = [phase EXCEPT ![p] = "idle"]
  /\ Mark(position[p], f)
  /\ Advance(p)
  /\ Commit(p, position[p])
  /\ UNCHANGED <<kind, committed, owner, holds, attempt, up, faults>>

\* The engine processes the event and the answer arrives.
Processed(p) ==
  /\ phase[p] = "calling" /\ up
  /\ ProcessEvent(position[p])
  /\ Settle(p, "forwarded")
  /\ OnSuccess(p)
  /\ UNCHANGED outages

\* The engine is out of reach, the limit is reached, or the answer is lost
\* after the engine has processed the event.
CallFails(p) ==
  /\ phase[p] = "calling"
  /\ \/ ~up /\ UNCHANGED <<quota, processed, outages>>
     \/ up /\ RateLimited /\ UNCHANGED <<processed, outages>>
     \/ /\ up /\ ProcessEvent(position[p])
        /\ outages < MaxOutages /\ outages' = outages + 1
  /\ Settle(p, "failed")
  /\ OnFailure(p, breaker[p])

\* The call has no deadline, and the connection no keepalive: an answer that is
\* lost without an error keeps the loop waiting, the event processed or not.
Hangs(p) ==
  /\ phase[p] = "calling"
  /\ outages < MaxOutages /\ outages' = outages + 1
  /\ phase' = [phase EXCEPT ![p] = "stuck"]
  /\ \/ up /\ ProcessEvent(position[p])
     \/ UNCHANGED <<quota, processed>>
  /\ UNCHANGED <<kind, groupVars, attempt, breakerVars, up, fate, faults>>

\* The connection of a call that hangs breaks after all, which is an error.
Breaks(p) ==
  /\ phase[p] = "stuck"
  /\ Settle(p, "failed")
  /\ OnFailure(p, breaker[p])
  /\ UNCHANGED <<quota, processed, outages>>

\* The asynchronous commit reaches the broker; its failure is only logged.
CommitArrives(p) ==
  /\ pending[p] # 0
  /\ owner = p
  /\ committed' = pending[p]
  /\ pending' = [pending EXCEPT ![p] = 0]
  /\ UNCHANGED <<kind, owner, holds, position, phase, attempt, breakerVars, engineVars,
                 historyVars, faults>>

-----------------------------------------------------------------------------
(* The group and the life of a pod *)

\* Mutant of Assign: one is added to an offset that already names the next message.
AssignPastNext(p) ==
  /\ owner = NoPod
  /\ phase[p] = "idle" /\ ~holds[p]
  /\ owner' = p
  /\ holds' = [holds EXCEPT ![p] = TRUE]
  /\ position' = [position EXCEPT ![p] = IF committed = 1 THEN 1 ELSE committed + 1]
  /\ UNCHANGED <<kind, committed, pending, phase, attempt, breakerVars, engineVars, historyVars, faults>>

\* The broker assigns the partition; the pod, which polls, starts at the
\* committed offset.
Assign(p) ==
  /\ owner = NoPod
  /\ phase[p] = "idle" /\ ~holds[p]
  /\ owner' = p
  /\ holds' = [holds EXCEPT ![p] = TRUE]
  /\ position' = [position EXCEPT ![p] = committed]
  /\ UNCHANGED <<kind, committed, pending, phase, attempt, breakerVars, engineVars, historyVars, faults>>

\* What leaves with the partition: commits under way are refused from now on.
LeaveGroup(p) ==
  /\ owner' = IF owner = p THEN NoPod ELSE owner
  /\ pending' = [pending EXCEPT ![p] = 0]

\* The broker takes the partition from a pod, which goes on with what it does.
Lose(p) ==
  /\ owner = p
  /\ faults' = faults + 1
  /\ LeaveGroup(p)
  /\ UNCHANGED <<kind, committed, holds, position, phase, attempt, breakerVars, engineVars,
                 historyVars>>

\* The session of a pod expires, or a pod that joins takes the partition: while
\* the pod waits for a message or in the middle of a call.
Rebalance(p) ==
  /\ faults < MaxFaults
  /\ Lose(p)

\* Mutant of Expire: a pod that sends heartbeats stays in the group.
ExpireDown(p) ==
  /\ phase[p] = "down"
  /\ Lose(p)

\* A pod that has not polled for max.poll.interval.ms leaves the group.
Expire(p) ==
  /\ phase[p] = "stuck"
  /\ Lose(p)

\* A pod that polls learns that the partition is no longer its own.
Notice(p) ==
  /\ phase[p] = "idle"
  /\ holds[p] /\ owner # p
  /\ holds' = [holds EXCEPT ![p] = FALSE]
  /\ UNCHANGED <<kind, committed, owner, position, pending, phase, attempt, breakerVars,
                 engineVars, historyVars, faults>>

\* A crash, or SIGTERM: main returns and drops the consumer's task wherever it
\* is, so a call under way is given up and the memory of the process is lost.
Die(p) ==
  /\ phase[p] # "down"
  /\ faults < MaxFaults /\ faults' = faults + 1
  /\ phase' = [phase EXCEPT ![p] = "down"]
  /\ holds' = [holds EXCEPT ![p] = FALSE]
  /\ position' = [position EXCEPT ![p] = 1]
  /\ attempt' = [attempt EXCEPT ![p] = 1]
  /\ NewBreaker(p)
  /\ LeaveGroup(p)
  /\ UNCHANGED <<kind, committed, engineVars, historyVars>>

Restart(p) ==
  /\ phase[p] = "down"
  /\ phase' = [phase EXCEPT ![p] = "connecting"]
  /\ UNCHANGED <<kind, groupVars, attempt, breakerVars, engineVars, historyVars, faults>>

\* The loop of a consumer turns, and a call comes to an end or does not.
Turn(p) == Notice(p) \/ Drop(p) \/ HandleHere(p) \/ Forward(p)
CallEnds(p) == Processed(p) \/ CallFails(p) \/ Hangs(p)

Next ==
  \/ \E p \in Pods : \/ Connect(p) \/ CoolDown(p)
                     \/ Turn(p) \/ CallEnds(p) \/ Breaks(p) \/ CommitArrives(p)
                     \/ Assign(p) \/ Rebalance(p) \/ Expire(p)
                     \/ Die(p) \/ Restart(p)
  \/ Refill \/ OtherCall \/ Outage \/ Repair

\* The loop of a consumer goes on unless its call hangs, which may be for ever;
\* the group takes the partition from a pod that stays silent, and assigns it to
\* one that polls.  Nothing forces a pod to die, or the engine to fail or recover.
Spec ==
  /\ Init /\ [][Next]_vars
  /\ WF_vars(\E p \in Pods : Assign(p))
  /\ \A p \in Pods : /\ WF_vars(Connect(p))
                     /\ WF_vars(Turn(p))
                     /\ WF_vars(CallEnds(p))
                     /\ WF_vars(Expire(p))

-----------------------------------------------------------------------------
(* Properties *)

\* The group never commits past a message that no pod has dealt with: each one
\* was forwarded, skipped, handed over in vain, or dropped by an open breaker,
\* whichever pods died or lost the partition in between.
PassedOverHasFate == \A o \in Offsets : o < committed => fate[o] # {}

\* The state of a breaker agrees with its count: an open or half-open breaker
\* is one failure, or none, from being open again, and a closed one has seen
\* fewer than Threshold failures since the last success, so that messages are
\* dropped only after Threshold failures in a row and a failed probe stops
\* the flow at once.
BreakerAgrees ==
  \A p \in Pods : Running(p) => (breaker[p] = "closed" <=> failures[p] < Threshold)

\* The engine processes a message again only after a pod died or lost the
\* partition, which it may do in the middle of a call: within one assignment a
\* message is forwarded once at most, and a failed call is not repeated.
RepeatsExplained == \A o \in Offsets : processed[o] <= 1 + faults

\* Of n prices: extract_signals asks for an indicator exactly when the engine
\* has enough prices for it, so none is left out with a warning; the engine's
\* slices stay in range, its series are not empty, and each entry of the MACD
\* line joins two averages that end at the same price, the last at the newest.
SignalsSound(n) ==
  LET slow == EmaLen(n, Slow)
      offset == Slow - Fast
  IN /\ Computed(n) = Asked(n)
     /\ "rsi" \in Asked(n) => Changes(n) >= RsiPeriod
     /\ "macd" \in Asked(n) =>
          /\ EmaLen(n, Fast) - offset = slow
          /\ EmaLen(slow, SignalPeriod) >= 1
          /\ \A i \in 0..slow - 1 : EmaEnd(Fast, offset + i) = EmaEnd(Slow, i)
          /\ EmaEnd(Slow, slow - 1) = n - 1

\* As long as some consumer runs that no call holds up, every message is dealt
\* with in the end: neither an open breaker, nor an engine out of reach, nor the
\* call of another pod that never returns keeps the partition back.
EveryMessageHasFate ==
  <>[](\E p \in Pods : phase[p] \in {"idle", "calling"}) =>
     \A o \in Offsets : <>(fate[o] # {})

=============================================================================
