----------------------------- MODULE FlagsProofs -----------------------------
(***************************************************************************)
(* Proofs about Flags, for any flags, tenants, plans, requests and number  *)
(* of changes: every answer was right, as a whole, for its context, and an *)
(* entry is only ever stale for one of the reasons that the code knows.    *)
(***************************************************************************)
EXTENDS Flags, TLAPS

\* The two tables.
TablesOK ==
    /\ flag \in [Keys -> Row \cup {None}]
    /\ override \in [Keys -> [Targets -> Values \cup {None}]]

\* What is right now counts as having been right.
TruthHasBeen == \A e \in Entries : Truth(e) \in been[e]

Inv ==
    /\ TypeOK
    /\ TruthHasBeen
    /\ AnswersWereRight
    /\ StaleIsExplained

TruthTyped == TablesOK => \A e \in Entries : Truth(e) \in Answers \cup {None}

\* Whatever the tables hold, an evaluation is an answer or nothing.
LEMMA TruthType == TruthTyped
<1> SUFFICES ASSUME TablesOK, NEW e \in Entries PROVE Truth(e) \in Answers \cup {None}
    BY DEF TruthTyped
<1>1. \A k \in Keys, g \in Tenants \cup Plans : Override(k, g) \in Values \cup {None}
    BY DEF Override, TablesOK
<1>2. e.tenant \in Tenants /\ e.plan \in Plans /\ e.of \in Keys \cup {All}
    BY DEF Entries
<1>3. ASSUME NEW k \in Existing PROVE Value(k, e.tenant, e.plan) \in Values
  <2>1. k \in Keys /\ flag[k].default \in Values
    BY <1>3 DEF Existing, TablesOK, Row
  <2> QED
    BY <2>1, <1>1, <1>2 DEF Value
<1>4. ASSUME NEW k \in Existing PROVE Reason(k, e.tenant, e.plan) \in Reasons
    BY DEF Reason, Reasons
<1>5. CASE e.of = All
  <2>1. [k \in Existing |-> Value(k, e.tenant, e.plan)] \in [Existing -> Values]
    BY <1>3
  <2>2. Existing \in SUBSET Keys
    BY DEF Existing
  <2> QED
    BY <1>5, <2>1, <2>2 DEF Truth, Answers
<1>6. CASE e.of # All /\ e.of \in Existing
    BY <1>6, <1>3, <1>4 DEF Truth, Answers
<1>7. CASE e.of # All /\ e.of \notin Existing
    BY <1>7 DEF Truth
<1> QED
    BY <1>5, <1>6, <1>7

-----------------------------------------------------------------------------
(* The statements.                                                         *)

\* A change of the tables by any of the admin handlers.
Change(a) ==
    \E k \in Keys :
        \/ \E v \in Values : CreateFlag(a, k, v)
        \/ \E enabled \in BOOLEAN : UpdateFlag(a, k, enabled)
        \/ DeleteFlag(a, k)
        \/ \E t \in Tenants, v \in Values : OverrideTenant(a, k, t, v)
        \/ \E p \in Plans, v \in Values : OverridePlan(a, k, p, v)
        \/ \E g \in Targets : DeleteOverride(a, k, g)

ForeignKey == \A k \in Keys, g \in Targets : override[k][g] # None => flag[k] # None

\* Each statement keeps the tables well formed.
LEMMA StatementStep ==
    ASSUME TablesOK, ForeignKey, NEW k \in Keys,
           \/ \E v \in Values : InsertFlag(k, v)
           \/ \E enabled \in BOOLEAN : SetEnabled(k, enabled)
           \/ RemoveFlag(k)
           \/ \E g \in Targets, v \in Values : UpsertOverride(k, g, v)
           \/ \E g \in Targets : DisableOverride(k, g)
    PROVE  TablesOK' /\ ForeignKey'
<1> USE DEF TablesOK, ForeignKey, Row
<1>1. CASE \E v \in Values : InsertFlag(k, v)
  <2>1. PICK v \in Values : InsertFlag(k, v)
    BY <1>1
  <2>2. flag' = [flag EXCEPT ![k] = [default |-> v, enabled |-> FALSE]] /\ override' = override
    BY <2>1 DEF InsertFlag
  <2>3. flag' \in [Keys -> Row \cup {None}]
    BY <2>2
  <2> QED
    BY <2>2, <2>3, <2>1 DEF InsertFlag
<1>2. CASE \E enabled \in BOOLEAN : SetEnabled(k, enabled)
  <2>1. PICK enabled \in BOOLEAN : SetEnabled(k, enabled)
    BY <1>2
  <2>2. flag[k] \in Row
    BY <2>1 DEF SetEnabled
  <2>3. [flag[k] EXCEPT !.enabled = enabled] \in Row
    BY <2>2
  <2>4. /\ flag' = [flag EXCEPT ![k] = [flag[k] EXCEPT !.enabled = enabled]]
        /\ override' = override
    BY <2>1 DEF SetEnabled
  <2>5. flag' \in [Keys -> Row \cup {None}]
    BY <2>3, <2>4
  <2>6. \A q \in Keys : flag[q] # None => flag'[q] # None
    BY <2>3, <2>4, NoneAssumption
  <2> QED
    BY <2>4, <2>5, <2>6
<1>3. CASE RemoveFlag(k)
  <2>1. /\ flag' = [flag EXCEPT ![k] = None]
        /\ override' = [override EXCEPT ![k] = [g \in Targets |-> None]]
    BY <1>3 DEF RemoveFlag
  <2>2. flag' \in [Keys -> Row \cup {None}]
    BY <2>1
  <2>3. [g \in Targets |-> None] \in [Targets -> Values \cup {None}]
    OBVIOUS
  <2>4. override' \in [Keys -> [Targets -> Values \cup {None}]]
    BY <2>1, <2>3
  <2> QED
    BY <2>1, <2>2, <2>4
<1>4. CASE \E g \in Targets, v \in Values : UpsertOverride(k, g, v)
  BY <1>4 DEF UpsertOverride
<1>5. CASE \E g \in Targets : DisableOverride(k, g)
  BY <1>5 DEF DisableOverride
<1> QED
  BY <1>1, <1>2, <1>3, <1>4, <1>5

\* A change is one of these statements together with Commit.
LEMMA ChangeStatement ==
    ASSUME NEW a \in Admins, Change(a)
    PROVE  \E k \in Keys :
              \/ \E v \in Values : InsertFlag(k, v)
              \/ \E enabled \in BOOLEAN : SetEnabled(k, enabled)
              \/ RemoveFlag(k)
              \/ \E g \in Targets, v \in Values : UpsertOverride(k, g, v)
              \/ \E g \in Targets : DisableOverride(k, g)
BY DEF Change, CreateFlag, UpdateFlag, DeleteFlag, OverrideTenant, OverridePlan,
       DeleteOverride, Targets

\* What a change does besides its statement: either everything cached will be
\* listed and removed, or the override was for a tenant.
LEMMA ChangeCommits ==
    ASSUME NEW a \in Admins, Change(a)
    PROVE  \/ Commit(a, "keys", {}) /\ missed' = missed
           \/ \E k \in Keys, t \in Tenants, v \in Values : OverrideTenant(a, k, t, v)
BY DEF Change, CreateFlag, UpdateFlag, DeleteFlag, OverridePlan, DeleteOverride

LEMMA NextCases ==
    ASSUME Next
    PROVE  \/ \E r \in Readers, e \in Entries : Ask(r, e, Truth(e))
           \/ \E r \in Readers : Store(r) \/ GiveUp(r)
           \/ \E a \in Admins : Change(a)
           \/ \E a \in Admins : \/ ListKeys(a) \/ DeleteKeys(a)
                               \/ InvalidateContext(a) \/ InvalidationLost(a)
           \/ \E e \in Entries : Expire(e)
<1>1. ASSUME NEW r \in Readers, NEW t \in Tenants, NEW p \in Plans, GetAll(r, t, p)
      PROVE  \E e \in Entries : Ask(r, e, Truth(e))
  <2> DEFINE e == [of |-> All, tenant |-> t, plan |-> p]
  <2>1. e \in Entries
    BY DEF Entries
  <2> QED
    BY <1>1, <2>1 DEF GetAll
<1>2. ASSUME NEW r \in Readers, NEW k \in Keys, NEW t \in Tenants, NEW p \in Plans,
             Evaluate(r, k, t, p)
      PROVE  \E e \in Entries : Ask(r, e, Truth(e))
  <2> DEFINE e == [of |-> k, tenant |-> t, plan |-> p]
  <2>1. e \in Entries
    BY DEF Entries
  <2> QED
    BY <1>2, <2>1 DEF Evaluate
<1>3. ASSUME NEW r \in Readers, Read(r)
      PROVE  (\E e \in Entries : Ask(r, e, Truth(e))) \/ Store(r) \/ GiveUp(r)
  BY <1>1, <1>2, <1>3 DEF Read
<1>4. ASSUME NEW a \in Admins, Administer(a)
      PROVE  \/ Change(a)
             \/ ListKeys(a) \/ DeleteKeys(a) \/ InvalidateContext(a) \/ InvalidationLost(a)
  BY <1>4 DEF Administer, Change
<1> QED
  BY <1>3, <1>4 DEF Next

-----------------------------------------------------------------------------
(* Type correctness and the history.                                       *)

LEMMA TruthSame ==
    UNCHANGED <<flag, override>> => \A e \in Entries : Truth(e)' = Truth(e)
<1> SUFFICES ASSUME UNCHANGED <<flag, override>>, NEW e \in Entries
             PROVE  Truth(e)' = Truth(e)
    OBVIOUS
<1>1. flag' = flag /\ override' = override
  OBVIOUS
<1>2. Existing' = Existing
  BY <1>1 DEF Existing
<1>3. \A k, g : Override(k, g)' = Override(k, g)
  BY <1>1 DEF Override
<1>4. \A k, t, p : Value(k, t, p)' = Value(k, t, p)
  BY <1>1, <1>3 DEF Value
<1>5. \A k, t, p : Reason(k, t, p)' = Reason(k, t, p)
  BY <1>1, <1>3 DEF Reason
<1> QED
  BY <1>2, <1>4, <1>5 DEF Truth

LEMMA InitInv == Init => Inv
<1> SUFFICES ASSUME Init PROVE Inv
    OBVIOUS
<1> USE FlagsAssumption, NoneAssumption
<1>1. TablesOK
  <2>1. {On, None} \subseteq Values \cup {None}
    OBVIOUS
  <2>2. Seeds \subseteq Row
    BY DEF Seeds, Row
  <2>3. flag \in [Keys -> Row \cup {None}]
    BY <2>2 DEF Init
  <2>4. override \in [Keys -> [Targets -> Values \cup {None}]]
    <3>1. [Targets -> {On, None}] \subseteq [Targets -> Values \cup {None}]
      BY <2>1
    <3> QED
      BY <3>1 DEF Init
  <2> QED
    BY <2>3, <2>4 DEF TablesOK
<1>2. \A e \in Entries : Truth(e) \in Answers \cup {None}
  BY <1>1, TruthType DEF TruthTyped
<1>3. been \in [Entries -> SUBSET (Answers \cup {None})] /\ TruthHasBeen
  BY <1>2 DEF Init, TruthHasBeen
<1>4. TypeOK
  BY <1>1, <1>3 DEF Init, TypeOK, TablesOK, Rest
<1> QED
  BY <1>3, <1>4 DEF Inv, Init, AnswersWereRight, StaleIsExplained, Cached

LEMMA TypeStep ==
    ASSUME TypeOK, TruthHasBeen, [Next]_vars
    PROVE  TypeOK' /\ TruthHasBeen'
<1> USE DEF TypeOK, TruthHasBeen
<1>0. TablesOK /\ ForeignKey
  BY DEF TablesOK, ForeignKey
<1>1. ASSUME NEW r \in Readers, NEW e \in Entries, Ask(r, e, Truth(e))
      PROVE  TypeOK' /\ TruthHasBeen'
  <2>1. Truth(e) \in Answers
    BY <1>0, <1>1, TruthType DEF TruthTyped, Ask
  <2>2. [entry |-> e, answer |-> Truth(e)] \in [entry : Entries, answer : Answers]
    BY <2>1
  <2>3. reader' \in [Readers -> [entry : Entries, answer : Answers] \cup {None}]
    BY <1>1, <2>2 DEF Ask
  <2> QED
    BY <1>1, <2>3, TruthSame DEF Ask, Reading
<1>2. ASSUME NEW r \in Readers, Store(r)
      PROVE  TypeOK' /\ TruthHasBeen'
  <2>1. reader[r].entry \in Entries /\ reader[r].answer \in Answers
    BY <1>2 DEF Store
  <2>2. /\ cache' \in [Entries -> Answers \cup {None}]
        /\ reader' \in [Readers -> [entry : Entries, answer : Answers] \cup {None}]
        /\ missed' \in SUBSET Entries
    BY <1>2, <2>1 DEF Store
  <2> QED
    BY <1>2, <2>2, TruthSame DEF Store, Reading
<1>3. ASSUME NEW r \in Readers, GiveUp(r)
      PROVE  TypeOK' /\ TruthHasBeen'
  BY <1>3, TruthSame DEF GiveUp, Reading
<1>4. ASSUME NEW a \in Admins, Change(a)
      PROVE  TypeOK' /\ TruthHasBeen'
  <2>1. TablesOK' /\ ForeignKey'
    BY <1>0, <1>4, ChangeStatement, StatementStep
  <2>2. \A e \in Entries : Truth(e)' \in Answers \cup {None}
    <3>1. TruthTyped'
      BY TruthType, PTL
    <3> QED
      BY <2>1, <3>1 DEF TruthTyped
  <2>3. PICK step \in {"keys", "context"}, entries \in SUBSET Entries :
             Commit(a, step, entries)
    <3>1. \A t \in Tenants : [of |-> All, tenant |-> t, plan |-> NoPlan] \in Entries
      BY FlagsAssumption DEF Entries
    <3>2. CASE Commit(a, "keys", {})
      BY <3>2
    <3>3. CASE \E k \in Keys, t \in Tenants, v \in Values : OverrideTenant(a, k, t, v)
      <4>1. PICK t \in Tenants :
                Commit(a, "context", {[of |-> All, tenant |-> t, plan |-> NoPlan]})
        BY <3>3 DEF OverrideTenant
      <4> QED
        BY <3>1, <4>1
    <3> QED
      BY <1>4, <3>2, <3>3, ChangeCommits
  <2>4. missed' \in SUBSET Entries
    BY <1>4, ChangeCommits DEF OverrideTenant, Cached
  <2>5. been' \in [Entries -> SUBSET (Answers \cup {None})] /\ TruthHasBeen'
    BY <2>2, <2>3 DEF Commit
  <2>6. changes' \in 0..MaxChanges
    BY <2>3, FlagsAssumption DEF Commit
  <2>7. admin' \in [Admins -> [pc : {"idle", "keys", "del", "context"},
                              entries : SUBSET Entries]]
    BY <2>3 DEF Commit
  <2>8. cache' = cache /\ reader' = reader
    BY <2>3 DEF Commit
  <2> QED
    BY <2>1, <2>4, <2>5, <2>6, <2>7, <2>8 DEF TablesOK, ForeignKey
<1>5. ASSUME NEW a \in Admins,
             ListKeys(a) \/ DeleteKeys(a) \/ InvalidateContext(a) \/ InvalidationLost(a)
      PROVE  TypeOK' /\ TruthHasBeen'
  <2>1. /\ UNCHANGED Tables
        /\ cache' \in [Entries -> Answers \cup {None}]
        /\ missed' \in SUBSET Entries
    BY <1>5 DEF ListKeys, DeleteKeys, InvalidateContext, InvalidationLost, Remove, Cached
  <2>2. admin' \in [Admins -> [pc : {"idle", "keys", "del", "context"},
                              entries : SUBSET Entries]]
    BY <1>5 DEF ListKeys, DeleteKeys, InvalidateContext, InvalidationLost, Remove, Rest, Cached
  <2> QED
    BY <2>1, <2>2, TruthSame DEF Tables
<1>6. ASSUME NEW e \in Entries, Expire(e)
      PROVE  TypeOK' /\ TruthHasBeen'
  <2>1. /\ cache' \in [Entries -> Answers \cup {None}]
        /\ missed' \in SUBSET Entries
    BY <1>6 DEF Expire
  <2> QED
    BY <1>6, <2>1, TruthSame DEF Expire, Reading
<1>7. ASSUME UNCHANGED vars
      PROVE  TypeOK' /\ TruthHasBeen'
  BY <1>7, TruthSame DEF vars
<1> QED
  BY <1>1, <1>2, <1>3, <1>4, <1>5, <1>6, <1>7, NextCases

-----------------------------------------------------------------------------
(* What is cached.                                                         *)

\* Answers that were right stay so, and new ones are read from the tables.
LEMMA RightStep ==
    ASSUME TypeOK, TypeOK', TruthHasBeen, AnswersWereRight, [Next]_vars
    PROVE  AnswersWereRight'
<1> USE DEF TypeOK, TruthHasBeen, AnswersWereRight, Cached
<1>1. ASSUME NEW r \in Readers, NEW e \in Entries, Ask(r, e, Truth(e))
      PROVE  AnswersWereRight'
  BY <1>1 DEF Ask, Reading
<1>2. ASSUME NEW r \in Readers, Store(r)
      PROVE  AnswersWereRight'
  <2>1. reader[r].answer \in been[reader[r].entry] /\ reader[r].entry \in Entries
    BY <1>2 DEF Store
  <2> QED
    BY <1>2, <2>1 DEF Store, Reading
<1>3. ASSUME NEW r \in Readers, GiveUp(r)
      PROVE  AnswersWereRight'
  BY <1>3 DEF GiveUp, Reading
<1>4. ASSUME NEW a \in Admins, Change(a)
      PROVE  AnswersWereRight'
  <2>1. PICK step, entries : Commit(a, step, entries)
    BY <1>4, ChangeCommits DEF OverrideTenant
  <2>2. /\ cache' = cache /\ reader' = reader
        /\ \A e \in Entries : been[e] \subseteq been'[e]
    BY <2>1 DEF Commit
  <2>3. \A r \in Readers : reader[r] # None => reader[r].entry \in Entries
    OBVIOUS
  <2> QED
    BY <2>2, <2>3
<1>5. ASSUME NEW a \in Admins,
             ListKeys(a) \/ DeleteKeys(a) \/ InvalidateContext(a) \/ InvalidationLost(a)
      PROVE  AnswersWereRight'
  <2>1. UNCHANGED Tables /\ \A e \in Entries : cache'[e] \in {cache[e], None}
    BY <1>5 DEF ListKeys, DeleteKeys, InvalidateContext, InvalidationLost, Remove
  <2> QED
    BY <2>1 DEF Tables
<1>6. ASSUME NEW e \in Entries, Expire(e)
      PROVE  AnswersWereRight'
  BY <1>6 DEF Expire, Reading
<1>7. ASSUME UNCHANGED vars
      PROVE  AnswersWereRight'
  BY <1>7 DEF vars
<1> QED
  BY <1>1, <1>2, <1>3, <1>4, <1>5, <1>6, <1>7, NextCases

\* An override for one tenant changes the answers of no other.
LEMMA OtherTenants ==
    ASSUME TypeOK, NEW k \in Keys, NEW t \in Tenants, NEW v \in Values,
           UpsertOverride(k, t, v), NEW e \in Entries, e.tenant # t
    PROVE  Truth(e)' = Truth(e)
<1>1. e.tenant \in Tenants /\ e.plan \in Plans /\ e.of \in Keys \cup {All}
  BY DEF Entries
<1>2. e.plan # t
  BY <1>1, FlagsAssumption
<1>3. flag' = flag /\ override' = [override EXCEPT ![k][t] = v]
  BY DEF UpsertOverride
<1>4. \A q \in Keys : /\ Override(q, e.tenant)' = Override(q, e.tenant)
                     /\ Override(q, e.plan)' = Override(q, e.plan)
  BY <1>2, <1>3 DEF Override, TypeOK
<1>5. Existing' = Existing /\ Existing \subseteq Keys
  BY <1>3 DEF Existing
<1>6. \A q \in Existing : Value(q, e.tenant, e.plan)' = Value(q, e.tenant, e.plan)
  BY <1>3, <1>4, <1>5 DEF Value
<1>7. \A q \in Existing : Reason(q, e.tenant, e.plan)' = Reason(q, e.tenant, e.plan)
  BY <1>3, <1>4, <1>5 DEF Reason
<1> QED
  BY <1>5, <1>6, <1>7 DEF Truth

LEMMA StaleStep ==
    ASSUME TypeOK, TypeOK', StaleIsExplained, [Next]_vars
    PROVE  StaleIsExplained'
<1> USE DEF TypeOK, StaleIsExplained, Cached, BeingRemoved
<1>1. ASSUME NEW r \in Readers, NEW e \in Entries, Ask(r, e, Truth(e))
      PROVE  StaleIsExplained'
  BY <1>1, TruthSame DEF Ask, Reading
<1>2. ASSUME NEW r \in Readers, Store(r)
      PROVE  StaleIsExplained'
  <2>1. /\ \A e \in Entries : Truth(e)' = Truth(e)
        /\ admin' = admin
    BY <1>2, TruthSame DEF Store, Reading
  <2>2. reader[r].entry \in Entries
    BY <1>2 DEF Store
  <2> QED
    BY <1>2, <2>1, <2>2 DEF Store
<1>3. ASSUME NEW r \in Readers, GiveUp(r)
      PROVE  StaleIsExplained'
  BY <1>3, TruthSame DEF GiveUp, Reading
<1>4. ASSUME NEW a \in Admins, Change(a)
      PROVE  StaleIsExplained'
  <2>1. CASE Commit(a, "keys", {})
    <3>1. admin'[a].pc = "keys"
      BY <2>1 DEF Commit
    <3> QED
      BY <3>1
  <2>2. CASE \E k \in Keys, t \in Tenants, v \in Values : OverrideTenant(a, k, t, v)
    <3>1. PICK k \in Keys, t \in Tenants, v \in Values : OverrideTenant(a, k, t, v)
      BY <2>2
    <3> DEFINE context == [of |-> All, tenant |-> t, plan |-> NoPlan]
    <3>2. /\ admin[a].pc = "idle"
          /\ admin' = [admin EXCEPT ![a] = [pc |-> "context", entries |-> {context}]]
          /\ cache' = cache
          /\ missed' = missed \cup {e \in Cached : e.tenant = t /\ e # context}
      BY <3>1 DEF OverrideTenant, Commit
    <3>3. ASSUME NEW e \in Cached', cache'[e] # Truth(e)'
          PROVE  BeingRemoved(e)' \/ e \in missed'
      <4>1. e \in Cached
        BY <3>2
      <4>2. CASE e = context
        BY <4>2, <3>2
      <4>3. CASE e.tenant = t /\ e # context
        BY <4>1, <4>3, <3>2
      <4>4. CASE e.tenant # t
        <5>1. Truth(e)' = Truth(e)
          BY <4>1, <4>4, <3>1, OtherTenants DEF OverrideTenant
        <5>2. BeingRemoved(e) \/ e \in missed
          BY <5>1, <3>2, <3>3, <4>1
        <5> QED
          BY <5>2, <3>2
      <4> QED
        BY <4>2, <4>3, <4>4
    <3> QED
      BY <3>3
  <2> QED
    BY <1>4, <2>1, <2>2, ChangeCommits
<1>5. ASSUME NEW a \in Admins,
             ListKeys(a) \/ DeleteKeys(a) \/ InvalidateContext(a) \/ InvalidationLost(a)
      PROVE  StaleIsExplained'
  <2>1. \A e \in Entries : Truth(e)' = Truth(e)
    BY <1>5, TruthSame DEF ListKeys, DeleteKeys, InvalidateContext, InvalidationLost,
                           Remove, Tables
  <2>2. CASE ListKeys(a)
    BY <2>1, <2>2 DEF ListKeys, Rest
  <2>3. CASE Remove(a) /\ admin[a].pc # "keys"
    BY <2>1, <2>3 DEF Remove, Rest
  <2>4. CASE InvalidationLost(a)
    BY <2>1, <2>4 DEF InvalidationLost, Rest
  <2> QED
    BY <1>5, <2>2, <2>3, <2>4 DEF DeleteKeys, InvalidateContext
<1>6. ASSUME NEW e \in Entries, Expire(e)
      PROVE  StaleIsExplained'
  BY <1>6, TruthSame DEF Expire, Reading
<1>7. ASSUME UNCHANGED vars
      PROVE  StaleIsExplained'
  BY <1>7, TruthSame DEF vars
<1> QED
  BY <1>1, <1>2, <1>3, <1>4, <1>5, <1>6, <1>7, NextCases

-----------------------------------------------------------------------------
LEMMA Invariance == Spec => []Inv
<1>1. Inv /\ [Next]_vars => Inv'
  BY TypeStep, RightStep, StaleStep DEF Inv
<1> QED
  BY <1>1, InitInv, PTL DEF Spec

\* The tables, the cache and what requests hold keep their types, and every
\* override belongs to a flag (feature_flags and flag_overrides, engine.go).
THEOREM TypeCorrect == Spec => []TypeOK
BY Invariance, PTL DEF Inv

\* GetAll and Evaluate never answer with what was not right, as a whole, for the
\* tenant and plan of the request at some moment.
THEOREM AnswersRight == Spec => []AnswersWereRight
BY Invariance, PTL DEF Inv

\* InvalidateAll and InvalidateContext leave a stale entry behind in no other way
\* than by a race with a reader, a lost call, or a plan the handler did not name.
THEOREM StaleExplained == Spec => []StaleIsExplained
BY Invariance, PTL DEF Inv
=============================================================================
