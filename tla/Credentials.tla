------------------------------ MODULE Credentials ------------------------------
(***************************************************************************)
(* What a user of the auth service may prove an identity with besides a    *)
(* password: a TOTP secret, codes sent by SMS, API keys, and the agents    *)
(* that act for a tenant.  Requests run concurrently on replicas that      *)
(* share Postgres; every statement is one step, and a handler with several *)
(* statements is interleaved with the others between them.                 *)
(*                                                                         *)
(*   src/services/auth/internal/handlers/{mfa,api_keys,agent}.go           *)
(*   src/services/auth/internal/postgres/client.go    statements           *)
(*   src/services/auth/internal/postgres/agent.go     statements           *)
(*                                                                         *)
(* A caller is a user in a tenant, as the access token names them, and two *)
(* callers are of two tenants.  As in Sessions, the model assumes a schema *)
(* with the columns and the constraints that the statements name.          *)
(* last_used_at, which nothing reads back, is left out.                    *)
(***************************************************************************)
EXTENDS Integers, Sequences

CONSTANTS Callers, Phones, Codes,
          Permissions,   \* that pass the validation of the handler
          Refused,       \* of these, the ones the table refuses (upper case)
          KeyIds, AgentIds,
          Handlers,      \* bound: handlers of several statements that run at once
          MaxAttempts,   \* bound: codes sent
          Nobody

ASSUME CredentialsAssumption ==
  /\ Refused \subseteq Permissions
  /\ MaxAttempts \in Nat
  /\ Nobody \notin Callers \cup AgentIds

VARIABLES
  totp,      \* mfa_secrets: no row, or a row and whether it is enabled
  attempts,  \* sms_mfa_attempts, by id
  keys,      \* api_keys
  agents,    \* agents and agent_permissions, as committed
  handler,   \* handlers under way
  verified,  \* history: attempts a verification was answered "verified" for
  maker,     \* history: who was given each key
  withdrawn, \* history: who asked for which key to be revoked
  wanted     \* history: the permissions asked for each agent, and who asked

credVars == <<totp, attempts, keys, agents, handler, verified, maker, withdrawn, wanted>>
keyVars == <<keys, maker, withdrawn>>

NoKey == [owner |-> Nobody, expires |-> FALSE, outdated |-> FALSE]
NoAgent == [owner |-> Nobody, permissions |-> {}, suspended |-> FALSE]
NoHandler == [at |-> "idle", attempt |-> 0, agent |-> Nobody, granted |-> {}]

Attempt == [caller : Callers, phone : Phones, code : Codes,
            expired : BOOLEAN, verified : BOOLEAN]

CredTypeOK ==
  /\ totp \in [Callers -> {"none", "disabled", "enabled"}]
  /\ attempts \in Seq(Attempt)
  /\ keys \in [KeyIds -> [owner : Callers \cup {Nobody}, expires : BOOLEAN, outdated : BOOLEAN]]
  /\ agents \in [AgentIds -> [owner : Callers \cup {Nobody}, permissions : SUBSET Permissions,
                              suspended : BOOLEAN]]
  /\ handler \in [Handlers -> [at : {"idle", "spend", "grant"}, attempt : Nat,
                               agent : AgentIds \cup {Nobody}, granted : SUBSET Permissions]]
  /\ verified \subseteq DOMAIN attempts
  /\ maker \in [KeyIds -> Callers \cup {Nobody}]
  /\ withdrawn \subseteq Callers \X KeyIds
  /\ wanted \in [AgentIds -> [owner : Callers \cup {Nobody}, permissions : SUBSET Permissions]]

CredInit ==
  /\ totp = [c \in Callers |-> "none"]
  /\ attempts = <<>>
  /\ keys = [k \in KeyIds |-> NoKey]
  /\ agents = [a \in AgentIds |-> NoAgent]
  /\ handler = [r \in Handlers |-> NoHandler]
  /\ verified = {}
  /\ maker = [k \in KeyIds |-> Nobody]
  /\ withdrawn = {}
  /\ wanted = [a \in AgentIds |-> [owner |-> Nobody, permissions |-> {}]]

HandlerAt(r, place) == handler[r].at = place
Return(r) == handler' = [handler EXCEPT ![r] = NoHandler]

-----------------------------------------------------------------------------
(* TOTP *)

\* The statements that write the row of a caller.
SetSecret(c, row) == totp' = [totp EXCEPT ![c] = row]

\* A new secret replaces the one of the caller, and is not enabled.
GenerateTOTP(c) ==
  /\ SetSecret(c, "disabled")
  /\ UNCHANGED <<attempts, keyVars, agents, handler, verified, wanted>>

\* GetMFASecret looks among enabled secrets only.
HasSecret(c) == totp[c] = "enabled"

\* POST verify: with a secret and the right code the row is enabled. No row
\* ever is when it is looked for, so that this always answers "no secret found".
VerifyTOTP(c) ==
  /\ IF HasSecret(c) THEN SetSecret(c, "enabled") ELSE UNCHANGED totp
  /\ UNCHANGED <<attempts, keyVars, agents, handler, verified, wanted>>

DisableMFA(c) ==
  /\ SetSecret(c, "none")
  /\ UNCHANGED <<attempts, keyVars, agents, handler, verified, wanted>>

-----------------------------------------------------------------------------
(* Codes by SMS *)

\* The code is stored, then sent: the row stays if Twilio does not send it.
SendSMS(c, phone, code) ==
  /\ Len(attempts) < MaxAttempts
  /\ attempts' = Append(attempts, [caller |-> c, phone |-> phone, code |-> code,
                                   expired |-> FALSE, verified |-> FALSE])
  /\ UNCHANGED <<totp, keyVars, agents, handler, verified, wanted>>

ExpireAttempt(i) ==
  /\ attempts' = [attempts EXCEPT ![i].expired = TRUE]
  /\ UNCHANGED <<totp, keyVars, agents, handler, verified, wanted>>

Matching(c, phone, code) ==
  {i \in DOMAIN attempts : /\ attempts[i].caller = c
                           /\ attempts[i].phone = phone
                           /\ attempts[i].code = code
                           /\ ~attempts[i].verified}

\* VerifySMSAttempt reads the newest row with this code that is not verified,
\* and gives up when it has expired, whatever older rows there are.
VerifySMS(r, c, phone, code) ==
  /\ HandlerAt(r, "idle")
  /\ \E i \in Matching(c, phone, code) :
       /\ \A j \in Matching(c, phone, code) : j <= i
       /\ ~attempts[i].expired
       /\ handler' = [handler EXCEPT ![r] = [NoHandler EXCEPT !.at = "spend", !.attempt = i]]
  /\ UNCHANGED <<totp, attempts, keyVars, agents, verified, wanted>>

\* Mutant of SpendAttempt: the error of the update is not looked at.
SpendAttemptAnyway(r) ==
  /\ HandlerAt(r, "spend")
  /\ LET i == handler[r].attempt
     IN /\ attempts' \in {[attempts EXCEPT ![i].verified = TRUE], attempts}
        /\ verified' = verified \cup {i}
  /\ Return(r)
  /\ UNCHANGED <<totp, keyVars, agents, wanted>>

\* The row is marked by its id alone, so that two requests that read it may
\* both do so. Without an answer from Postgres the caller is refused, and the
\* row may be marked or not.
SpendAttempt(r) ==
  /\ HandlerAt(r, "spend")
  /\ LET i == handler[r].attempt
     IN \/ /\ attempts' = [attempts EXCEPT ![i].verified = TRUE]
           /\ verified' = verified \cup {i}
        \/ /\ attempts' \in {[attempts EXCEPT ![i].verified = TRUE], attempts}
           /\ UNCHANGED verified
  /\ Return(r)
  /\ UNCHANGED <<totp, keyVars, agents, wanted>>

-----------------------------------------------------------------------------
(* API keys *)

\* One insert, with the hash of a key that is answered once; a lifetime is
\* optional.
CreateAPIKey(c, k, expires) ==
  /\ maker[k] = Nobody
  /\ keys' = [keys EXCEPT ![k] = [owner |-> c, expires |-> expires, outdated |-> FALSE]]
  /\ maker' = [maker EXCEPT ![k] = c]
  /\ UNCHANGED <<totp, attempts, agents, handler, verified, withdrawn, wanted>>

ExpireKey(k) ==
  /\ keys[k].owner # Nobody /\ keys[k].expires
  /\ keys' = [keys EXCEPT ![k].outdated = TRUE]
  /\ UNCHANGED <<totp, attempts, agents, handler, verified, maker, withdrawn, wanted>>

\* Mutant of DeletedBy: the row is looked for by its id only.
DeletedByAnyone(c, k) == keys[k].owner # Nobody

\* DELETE WHERE id AND user_id AND tenant_id.
DeletedBy(c, k) == keys[k].owner = c

\* Answers the same whether or not there was such a row.
RevokeAPIKey(c, k) ==
  /\ maker[k] # Nobody
  /\ keys' = IF DeletedBy(c, k) THEN [keys EXCEPT ![k] = NoKey] ELSE keys
  /\ withdrawn' = withdrawn \cup {<<c, k>>}
  /\ UNCHANGED <<totp, attempts, agents, handler, verified, maker, wanted>>

\* There is a row with the hash of the key, and it is not outdated.
ValidateAPIKey(k) == keys[k].owner # Nobody /\ ~keys[k].outdated

\* POST internal/api-keys/verify: whom the key is answered for, if anybody.
VerifyInternal(k) == IF ValidateAPIKey(k) THEN keys[k].owner ELSE Nobody

\* SELECT WHERE user_id AND tenant_id: outdated ones among them.
HasKey(c, k) == keys[k].owner = c

\* GET api-keys.
ListAPIKeys(c) == {k \in KeyIds : HasKey(c, k)}

-----------------------------------------------------------------------------
(* Agents *)

\* The transaction begins and inserts the row, which nobody else sees yet.
Begin(r, a) == handler' = [handler EXCEPT ![r] = [NoHandler EXCEPT !.at = "grant", !.agent = a]]

\* POST agents, with permissions that are well-formed to the handler.
CreateAgent(r, c, a, permissions) ==
  /\ HandlerAt(r, "idle")
  /\ wanted[a].owner = Nobody
  /\ wanted' = [wanted EXCEPT ![a] = [owner |-> c, permissions |-> permissions]]
  /\ Begin(r, a)
  /\ UNCHANGED <<totp, attempts, keyVars, agents, verified>>

\* What the loop over the permissions has yet to insert.
Remaining(r) == wanted[handler[r].agent].permissions \ handler[r].granted
\* Mutant of Complete: permissions that were refused are not waited for.
CompleteButRefused(r) == Remaining(r) \subseteq Refused

\* The loop is through.
Complete(r) == Remaining(r) = {}

GrantPermission(r) ==
  /\ HandlerAt(r, "grant")
  /\ \E p \in Remaining(r) \ Refused : handler' = [handler EXCEPT ![r].granted = @ \cup {p}]
  /\ UNCHANGED <<totp, attempts, keyVars, agents, verified, wanted>>

\* A statement fails, the table refuses a permission, the client goes away or
\* the pod dies: the transaction is rolled back.
RollBack(r) ==
  /\ HandlerAt(r, "grant")
  /\ Return(r)
  /\ UNCHANGED <<totp, attempts, keyVars, agents, verified, wanted>>

CommitAgent(r) ==
  /\ HandlerAt(r, "grant")
  /\ Complete(r)
  /\ LET a == handler[r].agent
     IN agents' = [agents EXCEPT ![a] = [owner |-> wanted[a].owner,
                                         permissions |-> handler[r].granted,
                                         suspended |-> FALSE]]
  /\ Return(r)
  /\ UNCHANGED <<totp, attempts, keyVars, verified, wanted>>

\* The statements on one agent or on all name the tenant.
Owned(c, a) == agents[a].owner = c

Suspend(a) == agents' = [agents EXCEPT ![a].suspended = TRUE]

\* DELETE agents/{id}: an agent that is suspended already is found again.
SuspendAgent(c, a) ==
  /\ Owned(c, a)
  /\ Suspend(a)
  /\ UNCHANGED <<totp, attempts, keyVars, handler, verified, wanted>>

\* GET agents: those of the tenant of the caller, suspended ones among them.
ListAgents(c) == {a \in AgentIds : Owned(c, a)}

GetAgentPermissions(a) == agents[a].permissions

-----------------------------------------------------------------------------
ManageTOTP(c) == GenerateTOTP(c) \/ VerifyTOTP(c) \/ DisableMFA(c)

ManageKeys(c, k) ==
  \/ \E expires \in BOOLEAN : CreateAPIKey(c, k, expires)
  \/ RevokeAPIKey(c, k)

CredNext ==
  \/ \E c \in Callers :
       \/ ManageTOTP(c)
       \/ \E phone \in Phones, code \in Codes :
            \/ SendSMS(c, phone, code)
            \/ \E r \in Handlers : VerifySMS(r, c, phone, code)
       \/ \E k \in KeyIds : ManageKeys(c, k)
       \/ \E a \in AgentIds :
            \/ SuspendAgent(c, a)
            \/ \E r \in Handlers, P \in SUBSET Permissions : CreateAgent(r, c, a, P)
  \/ \E r \in Handlers : SpendAttempt(r) \/ GrantPermission(r) \/ RollBack(r) \/ CommitAgent(r)
  \/ \E i \in DOMAIN attempts : ExpireAttempt(i)
  \/ \E k \in KeyIds : ExpireKey(k)

CredSpec == CredInit /\ [][CredNext]_credVars

-----------------------------------------------------------------------------
(* Properties *)

\* A code that was answered "verified" is never looked at again, so that only
\* requests that had read it before can still be answered so: the answer is
\* given only after the row was marked, whatever happens to the update.
AcceptedIsSpent == \A i \in verified : attempts[i].verified

\* An API key is listed for the user who was given it until that user revokes
\* it, is answered for that user until then or until its time is over, and for
\* nobody after that; no request of another user takes it away.
KeysStand ==
  /\ \A c \in Callers :
       ListAPIKeys(c) = {k \in KeyIds : maker[k] = c /\ <<c, k>> \notin withdrawn}
  /\ \A k \in KeyIds :
       VerifyInternal(k) = IF <<maker[k], k>> \in withdrawn \/ keys[k].outdated
                           THEN Nobody ELSE maker[k]

\* An agent that can be seen is seen by the tenant that asked for it, with all
\* the permissions that were asked for, although they are inserted one by one,
\* may be refused one by one, and the handler may end between them.
AgentsWhole ==
  \A c \in Callers : \A a \in ListAgents(c) :
    wanted[a] = [owner |-> c, permissions |-> GetAgentPermissions(a)]

=============================================================================
