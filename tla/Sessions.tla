------------------------------- MODULE Sessions -------------------------------
(***************************************************************************)
(* Sessions of the auth service: login through Keycloak and with a         *)
(* password, rotation of refresh tokens, logout and revocation,            *)
(* registration, and recovery of an account.  Requests run concurrently on *)
(* replicas that share Postgres and Redis; every statement is one step, so *)
(* other requests fall between the steps of a handler.                     *)
(*                                                                         *)
(*   src/services/auth/cmd/server/main.go            handlers              *)
(*   src/services/auth/internal/postgres/client.go   statements            *)
(*   src/services/auth/internal/handlers/*.go        handlers              *)
(*   src/services/auth/internal/rbac/engine.go       permissions           *)
(*                                                                         *)
(* Users and passwords are global, sessions and roles those of a user in   *)
(* a tenant. The statements name columns and tables that no migration      *)
(* creates; the model assumes a schema that has them, in which no value    *)
(* that is scanned into a string is NULL but a user's tenant, which only   *)
(* the request of a reset reads. Access tokens are signed and              *)
(* kept nowhere, so only refresh tokens are state: the n-th one generated  *)
(* for a session is the number n. The counter of failed logins is left     *)
(* out: it writes host and port of the client to a column of type INET.    *)
(***************************************************************************)
EXTENDS Integers, FiniteSets, FiniteSetsExt

CONSTANTS Users,        \* by email
          Tenants,
          Members,      \* bound: which users ask for which tenants
          Home,         \* users.tenant_id, which no statement writes; None: NULL
          Admins,       \* who has the role "admin" at first, and where
          SessionIds, RecoveryIds,
          Requests,     \* bound: handlers that run at once
          MaxTokens,    \* bound: refresh tokens generated in all
          MaxPasswords, \* bound: passwords of a user
          MaxFaults,    \* bound: faults in one behaviour, one of each kind at most
          None

ASSUME SessionsAssumption ==
  /\ Members \subseteq Users \X Tenants
  /\ Admins \subseteq Members
  /\ Home \in [Users -> Tenants \cup {None}]
  /\ MaxTokens \in Nat /\ MaxFaults \in Nat
  /\ MaxPasswords \in Nat \ {0}  \* an administrator has one
  /\ None \notin Users \cup Tenants \cup SessionIds \cup RecoveryIds

VARIABLES
  account,   \* users: which statement inserted the row
  role,      \* user_roles
  cache,     \* Redis: whose permissions the entry of a member holds
  password,  \* users.password_hash: number of the newest one, 0: none
  session,   \* active_sessions
  recovery,  \* account_recovery_tokens
  request,   \* the handlers
  accepted,  \* history: how often each refresh token was accepted
  unrevoked, \* history: users of whom a reset ended without its revocation
  lost       \* history: kinds of faults that happened

vars == <<account, role, cache, password, session, recovery, request, accepted, unrevoked, lost>>
userVars == <<account, role, cache, password>>

Administrators == {m[1] : m \in Admins}

Accounts == {"none", "keycloak", "registered"}
Roles == {"admin", "viewer", "none"}
\* Whose permissions: of a role, or the least ones, given when none is read.
Grants == {"admin", "viewer", "least", None}
\* Of a read of the role, of the end of a handler, of another statement.
Faults == {"role", "end", "other"}

\* issued: tokens answered to clients; born: the password of the user then.
NoSession == [user |-> None, tenant |-> None,
              token |-> 0, issued |-> 0, revoked |-> FALSE, born |-> 0]
Idle == [at |-> "idle", user |-> None, tenant |-> None, session |-> None, recovery |-> None]

\* Where a handler is: the statement it executes next.
Places == {"idle", "exchange", "upsert", "userRole", "assign", "permissions", "create", "store",
           "insert", "grant", "update", "mark", "revoke"}

TypeOK ==
  /\ account \in [Users -> Accounts]
  /\ role \in [Members -> Roles]
  /\ cache \in [Members -> Grants]
  /\ password \in [Users -> 0..MaxPasswords]
  /\ session \in [SessionIds -> [user : Users \cup {None}, tenant : Tenants \cup {None},
                                 token : 0..MaxTokens, issued : 0..MaxTokens,
                                 revoked : BOOLEAN, born : 0..MaxPasswords]]
  /\ recovery \in [RecoveryIds -> [user : Users \cup {None}, used : BOOLEAN]]
  /\ request \in [Requests -> [at : Places, user : Users \cup {None},
                               tenant : Tenants \cup {None},
                               session : SessionIds \cup {None},
                               recovery : RecoveryIds \cup {None}]]
  /\ accepted \in [SessionIds -> [1..MaxTokens -> Nat]]
  /\ unrevoked \subseteq Users
  /\ lost \subseteq Faults

Init ==
  /\ account = [u \in Users |-> IF u \in Administrators THEN "keycloak" ELSE "none"]
  /\ role = [m \in Members |-> IF m \in Admins THEN "admin" ELSE "none"]
  /\ cache = [m \in Members |-> None]
  /\ password = [u \in Users |-> IF u \in Administrators THEN 1 ELSE 0]
  /\ session = [s \in SessionIds |-> NoSession]
  /\ recovery = [k \in RecoveryIds |-> [user |-> None, used |-> FALSE]]
  /\ request = [r \in Requests |-> Idle]
  /\ accepted = [s \in SessionIds |-> [n \in 1..MaxTokens |-> 0]]
  /\ unrevoked = {}
  /\ lost = {}

-----------------------------------------------------------------------------
(* Handlers *)

Fault(kind) ==
  /\ kind \notin lost
  /\ Cardinality(lost) < MaxFaults
  /\ lost' = lost \cup {kind}

At(r, place) == request[r].at = place
Go(r, place) == request' = [request EXCEPT ![r].at = place]
End(r) == request' = [request EXCEPT ![r] = Idle]
User(r) == request[r].user
Member(r) == <<request[r].user, request[r].tenant>>

\* The password of the user is written, the sessions are still to be revoked.
Resetting(r, u) == request[r].at \in {"mark", "revoke"} /\ User(r) = u

\* A request arrives: record q says what it knows.
Start(r, q) == At(r, "idle") /\ request' = [request EXCEPT ![r] = q]

\* A statement fails where the handler gives up, the client goes away and its
\* context is cancelled, or the pod dies. A reset that has written the password
\* ends without its revocation.
GiveUp(r) ==
  /\ ~At(r, "idle")
  /\ Fault("end")
  /\ unrevoked' = unrevoked \cup {u \in Users : Resetting(r, u)}
  /\ End(r)
  /\ UNCHANGED <<userVars, session, recovery, accepted>>

-----------------------------------------------------------------------------
(* Login *)

\* POST login: the tenant is found; a code says nothing yet of who logs in.
Login(r, t) ==
  /\ Start(r, [Idle EXCEPT !.at = "exchange", !.tenant = t])
  /\ UNCHANGED <<userVars, session, recovery, accepted, unrevoked, lost>>

\* exchangeCode and getKeycloakUserInfo: Keycloak names the user, or refuses.
AskKeycloak(r) ==
  /\ At(r, "exchange")
  /\ \/ \E u \in Users :
          /\ <<u, request[r].tenant>> \in Members
          /\ request' = [request EXCEPT ![r].at = "upsert", ![r].user = u]
     \/ End(r)
  /\ UNCHANGED <<userVars, session, recovery, accepted, unrevoked, lost>>

\* UpsertByKeycloakID inserts the user or refreshes the row; it fails when the
\* email is that of a registered user, whom the conflict clause does not find.
UpsertUser(r) ==
  /\ At(r, "upsert")
  /\ IF account[User(r)] = "registered"
     THEN End(r) /\ UNCHANGED account
     ELSE account' = [account EXCEPT ![User(r)] = "keycloak"] /\ Go(r, "userRole")
  /\ UNCHANGED <<role, cache, password, session, recovery, accepted, unrevoked, lost>>

\* Mutant of ReadRole: the default is given to whoever logs in.
ReadRoleUnasked(r) ==
  /\ At(r, "userRole")
  /\ Go(r, "assign")
  /\ UNCHANGED <<userVars, session, recovery, accepted, unrevoked, lost>>

\* GetUserRole. No row and a failed read look the same to the handler.
ReadRole(r) ==
  /\ At(r, "userRole")
  /\ \/ role[Member(r)] # "none" /\ Go(r, "permissions") /\ UNCHANGED lost
     \/ role[Member(r)] = "none" /\ Go(r, "assign") /\ UNCHANGED lost
     \/ Fault("role") /\ Go(r, "assign")
  /\ UNCHANGED <<userVars, session, recovery, accepted, unrevoked>>

\* AssignRole writes the default over whatever role there is.
AssignDefault(r) ==
  /\ At(r, "assign")
  /\ \/ role' = [role EXCEPT ![Member(r)] = "viewer"] /\ UNCHANGED lost
     \/ Fault("other") /\ UNCHANGED role
  /\ Go(r, "permissions")
  /\ UNCHANGED <<account, cache, password, session, recovery, accepted, unrevoked>>

\* What roleBasedPermissions derives from the role it reads.
GrantOf(m) == IF role[m] = "none" THEN "least" ELSE role[m]

\* Engine.GetPermissions: from the cache, or read and cached; nothing here
\* calls Invalidate. A failed read of the role caches the least permissions.
LoadPermissions(r) ==
  /\ At(r, "permissions")
  /\ LET m == Member(r)
     IN \/ cache[m] # None /\ UNCHANGED <<cache, lost>>
        \/ cache[m] = None /\ cache' = [cache EXCEPT ![m] = GrantOf(m)] /\ UNCHANGED lost
        \/ cache[m] = None /\ Fault("role") /\ cache' = [cache EXCEPT ![m] = "least"]
        \/ cache[m] = None /\ Fault("other") /\ UNCHANGED cache
  /\ Go(r, IF request[r].session = None THEN "create" ELSE "store")
  /\ UNCHANGED <<account, role, password, session, recovery, accepted, unrevoked>>

\* The entry is two minutes old.
ExpirePermissions(m) ==
  /\ cache[m] # None
  /\ cache' = [cache EXCEPT ![m] = None]
  /\ UNCHANGED <<account, role, password, session, recovery, request, accepted, unrevoked, lost>>

CreateSession(r) ==
  /\ At(r, "create")
  /\ \E s \in SessionIds :
       /\ session[s] = NoSession
       /\ session' = [session EXCEPT ![s] =
                        [NoSession EXCEPT !.user = User(r), !.tenant = request[r].tenant,
                                          !.born = password[User(r)]]]
       /\ request' = [request EXCEPT ![r].session = s, ![r].at = "store"]
  /\ UNCHANGED <<userVars, recovery, accepted, unrevoked, lost>>

\* The last steps of login and refresh: a token is generated, stored over the
\* one of the session, and answered whether or not it could be stored.
StoreRefreshToken(r) ==
  /\ At(r, "store")
  /\ LET s == request[r].session
         n == session[s].issued + 1
     IN /\ n <= MaxTokens
        /\ MapThenSumSet(LAMBDA x : session[x].issued, SessionIds) < MaxTokens
        /\ \/ /\ session' = [session EXCEPT ![s].issued = n, ![s].token = n]
              /\ UNCHANGED lost
           \/ /\ Fault("other")
              /\ session' = [session EXCEPT ![s].issued = n]
  /\ End(r)
  /\ UNCHANGED <<userVars, recovery, accepted, unrevoked>>

-----------------------------------------------------------------------------
(* Login with a password *)

\* POST login/password: the user and the hash are read, bcrypt compares; a
\* wrong password changes nothing here. The role is read for the answer only,
\* so the password opens a session in any tenant.
LoginPassword(r, u, t) ==
  /\ account[u] # "none"
  /\ password[u] # 0
  /\ Start(r, [Idle EXCEPT !.at = "permissions", !.user = u, !.tenant = t])
  /\ UNCHANGED <<userVars, session, recovery, accepted, unrevoked, lost>>

-----------------------------------------------------------------------------
(* Refresh *)

\* The row whose token this is.
Holds(s, n) == session[s].token = n

\* Mutant of ConsumeRefreshToken: the token is looked up and left in the row.
FindRefreshToken(r, s, n) ==
  /\ n <= session[s].issued
  /\ Holds(s, n)
  /\ Start(r, [Idle EXCEPT !.at = "permissions", !.user = session[s].user,
                           !.tenant = session[s].tenant, !.session = s])
  /\ accepted' = [accepted EXCEPT ![s][n] = @ + 1]
  /\ UNCHANGED <<userVars, session, recovery, unrevoked, lost>>

\* POST refresh with a token some client was given: ConsumeRefreshToken takes
\* it out of the row in the statement that finds it. The reads that follow,
\* of the session, its user and its tenant, find rows that are there whether
\* or not the session is revoked.
ConsumeRefreshToken(r, s, n) ==
  /\ n <= session[s].issued
  /\ Holds(s, n)
  /\ Start(r, [Idle EXCEPT !.at = "permissions", !.user = session[s].user,
                           !.tenant = session[s].tenant, !.session = s])
  /\ session' = [session EXCEPT ![s].token = 0]
  /\ accepted' = [accepted EXCEPT ![s][n] = @ + 1]
  /\ UNCHANGED <<userVars, recovery, unrevoked, lost>>

\* refresh_expires_at passes: no statement finds the token any more.
ExpireToken(s) ==
  /\ session[s].token # 0
  /\ session' = [session EXCEPT ![s].token = 0]
  /\ UNCHANGED <<userVars, recovery, request, accepted, unrevoked, lost>>

-----------------------------------------------------------------------------
(* Revocation *)

Revoke(S) == session' = [s \in SessionIds |->
                           IF s \in S THEN [session[s] EXCEPT !.revoked = TRUE] ELSE session[s]]
\* Mutant of SessionsOf: only sessions that can be refreshed are found.
RefreshableSessionsOf(u, t) ==
  {s \in SessionIds : session[s].user = u /\ session[s].tenant = t /\ session[s].token # 0}

\* Of a user in one tenant: what RevokeAllSessions and ListSessions find.
SessionsOf(u, t) == {s \in SessionIds : session[s].user = u /\ session[s].tenant = t}

\* POST logout and DELETE sessions/{id}: one's own session.
RevokeSession(s) ==
  /\ session[s].user # None
  /\ Revoke({s})
  /\ UNCHANGED <<userVars, recovery, request, accepted, unrevoked, lost>>

\* POST sessions/revoke-all: every session in the tenant but the one that asks.
RevokeOthers(s) ==
  /\ session[s].user # None
  /\ Revoke(SessionsOf(session[s].user, session[s].tenant) \ {s})
  /\ UNCHANGED <<userVars, recovery, request, accepted, unrevoked, lost>>

-----------------------------------------------------------------------------
(* Registration *)

\* POST register: the tenant is found, the email is looked up.
Register(r, u, t) ==
  /\ account[u] = "none"
  /\ Start(r, [Idle EXCEPT !.at = "insert", !.user = u, !.tenant = t])
  /\ UNCHANGED <<userVars, session, recovery, accepted, unrevoked, lost>>

\* INSERT: fails when the email has been taken since.
InsertUser(r) ==
  /\ At(r, "insert")
  /\ IF account[User(r)] = "none"
     THEN /\ account' = [account EXCEPT ![User(r)] = "registered"]
          /\ password' = [password EXCEPT ![User(r)] = 1]
          /\ Go(r, "grant")
     ELSE End(r) /\ UNCHANGED <<account, password>>
  /\ UNCHANGED <<role, cache, session, recovery, accepted, unrevoked, lost>>

GrantViewer(r) ==
  /\ At(r, "grant")
  /\ \/ role' = [role EXCEPT ![Member(r)] = "viewer"] /\ UNCHANGED lost
     \/ Fault("other") /\ UNCHANGED role
  /\ End(r)
  /\ UNCHANGED <<account, cache, password, session, recovery, accepted, unrevoked>>

-----------------------------------------------------------------------------
(* Recovery *)

\* POST recovery/request: a token for the user and the tenant of the user's row
\* is stored and mailed. A row without a tenant cannot be scanned: no token.
RequestReset(u) ==
  /\ account[u] # "none"
  /\ Home[u] # None
  /\ \E k \in RecoveryIds :
       /\ recovery[k].user = None
       /\ recovery' = [recovery EXCEPT ![k].user = u]
  /\ UNCHANGED <<userVars, session, request, accepted, unrevoked, lost>>

\* POST recovery/reset: the token is looked at; nothing claims it. It names
\* one tenant, while the password it resets is that of all of them.
ValidateRecoveryToken(r, k) ==
  /\ recovery[k].user # None /\ ~recovery[k].used
  /\ Start(r, [Idle EXCEPT !.at = "update", !.user = recovery[k].user,
                           !.tenant = Home[recovery[k].user], !.recovery = k])
  /\ UNCHANGED <<userVars, session, recovery, accepted, unrevoked, lost>>

UpdatePassword(r) ==
  /\ At(r, "update")
  /\ password[User(r)] < MaxPasswords
  /\ password' = [password EXCEPT ![User(r)] = @ + 1]
  /\ Go(r, "mark")
  /\ UNCHANGED <<account, role, cache, session, recovery, accepted, unrevoked, lost>>

\* The results of the last two statements are ignored.
MarkRecoveryTokenUsed(r) ==
  /\ At(r, "mark")
  /\ \/ recovery' = [recovery EXCEPT ![request[r].recovery].used = TRUE] /\ UNCHANGED lost
     \/ Fault("other") /\ UNCHANGED recovery
  /\ Go(r, "revoke")
  /\ UNCHANGED <<userVars, session, accepted, unrevoked>>

RevokeAllSessions(r) ==
  /\ At(r, "revoke")
  /\ \/ /\ Revoke(SessionsOf(User(r), request[r].tenant))
        /\ unrevoked' = unrevoked \ {User(r)}
        /\ UNCHANGED lost
     \/ /\ Fault("end")
        /\ unrevoked' = unrevoked \cup {User(r)}
        /\ UNCHANGED session
  /\ End(r)
  /\ UNCHANGED <<userVars, recovery, accepted>>

-----------------------------------------------------------------------------
Arrive(r) ==
  \/ \E t \in Tenants : Login(r, t)
  \/ \E m \in Members : LoginPassword(r, m[1], m[2]) \/ Register(r, m[1], m[2])
  \/ \E s \in SessionIds, n \in 1..MaxTokens : ConsumeRefreshToken(r, s, n)
  \/ \E k \in RecoveryIds : ValidateRecoveryToken(r, k)

Proceed(r) ==
  \/ AskKeycloak(r) \/ UpsertUser(r)
  \/ ReadRole(r) \/ AssignDefault(r) \/ LoadPermissions(r) \/ CreateSession(r)
  \/ StoreRefreshToken(r) \/ InsertUser(r) \/ GrantViewer(r)
  \/ UpdatePassword(r) \/ MarkRecoveryTokenUsed(r) \/ RevokeAllSessions(r)

Next ==
  \/ \E r \in Requests : Arrive(r) \/ Proceed(r) \/ GiveUp(r)
  \/ \E m \in Members : ExpirePermissions(m)
  \/ \E u \in Users : RequestReset(u)
  \/ \E s \in SessionIds : ExpireToken(s) \/ RevokeSession(s) \/ RevokeOthers(s)

Spec == Init /\ [][Next]_vars

-----------------------------------------------------------------------------
(* Properties *)

\* A refresh token is accepted once, whoever presents it and how often: only
\* the newest token of a session can be in its row, it has not been accepted
\* yet, and while a request that took one out is under way the row is empty.
RotationSound ==
  \A s \in SessionIds :
    /\ \A n \in 1..MaxTokens : accepted[s][n] <= 1
    /\ session[s].token # 0 => /\ session[s].token = session[s].issued
                               /\ accepted[s][session[s].token] = 0
                               /\ \A r \in Requests : request[r].session # s

\* Once a password has been reset, no session that was opened before in the
\* tenant of the user's row is left, whatever logs in, refreshes or registers
\* during the reset: a session in use there that is older than the password
\* belongs to a reset of this user that has not come to its end, or has lost
\* its own revocation. Sessions in other tenants stay: the statement names one.
ResetEndsSessions ==
  \A s \in SessionIds :
    LET u == session[s].user
    IN /\ u # None /\ session[s].tenant = Home[u]
       /\ ~session[s].revoked
       /\ session[s].born < password[u]
       => u \in unrevoked \/ \E r \in Requests : Resetting(r, u)

\* A member keeps the role given by an administrator, and is served its
\* permissions, unless a read of the role failed: no order of logins to this
\* and other tenants, registrations and expiries of the cache takes them away.
RolesKept ==
  "role" \notin lost =>
    \A m \in Admins : role[m] = "admin" /\ cache[m] \in {"admin", None}

=============================================================================
