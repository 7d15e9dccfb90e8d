------------------------------ MODULE AuthProofs ------------------------------
(***************************************************************************)
(* Proofs about the auth service, for any number of users, sessions, keys, *)
(* replicas and requests.  Sessions, Credentials and SigningKeys share no  *)
(* state: each keeps its invariants whatever the others do.                *)
(***************************************************************************)
EXTENDS Sessions, Credentials, SigningKeys, SequenceTheorems, TLAPS

-----------------------------------------------------------------------------
(* Sessions.                                                               *)

SessionRow == [user : Users \cup {None}, tenant : Tenants \cup {None},
        token : 0..MaxTokens, issued : 0..MaxTokens,
        revoked : BOOLEAN, born : 0..MaxPasswords]
Handler == [at : Places, user : Users \cup {None}, tenant : Tenants \cup {None},
            session : SessionIds \cup {None}, recovery : RecoveryIds \cup {None}]

\* A handler that knows who asks works for a user with an account, in a tenant
\* the user asked for, and hands out tokens of a session; no administrator is
\* registered; a reset is one of the tenant of the user's row.
PlaceOf(r) ==
    /\ request[r].at \notin {"idle", "exchange"} => request[r].user # None
    /\ request[r].at \in {"userRole", "assign", "permissions", "create"} =>
          account[request[r].user] # "none"
    /\ request[r].at \in {"upsert", "userRole", "assign", "permissions", "create",
                          "insert", "grant"} => Member(r) \in Members
    /\ request[r].at = "store" => request[r].session # None
    /\ request[r].at = "grant" => request[r].user \notin Administrators
    /\ request[r].at \in {"update", "mark", "revoke"} =>
          request[r].tenant = Home[request[r].user]

\* A row that nobody has opened is empty, and unknown to handlers; the user of
\* the others has an account and asked for their tenant.
RowsInv ==
    \A s \in SessionIds :
        /\ session[s].user = None => /\ session[s] = NoSession
                                     /\ \A r \in Requests : request[r].session # s
        /\ session[s].user # None => /\ account[session[s].user] # "none"
                                     /\ <<session[s].user, session[s].tenant>> \in Members

\* Tokens to come were not accepted, and one handler at a time rotates a session.
RotationInv ==
    /\ RotationSound
    /\ \A s \in SessionIds, n \in 1..MaxTokens : n > session[s].issued => accepted[s][n] = 0
    /\ \A s \in SessionIds, q, r \in Requests :
          request[q].session = s /\ request[r].session = s => q = r

\* The default role is on its way to somebody who is no administrator.
DefaultOf(r) ==
    "role" \notin lost /\ request[r].at = "assign" => Member(r) \notin Admins

RolesInv ==
    /\ \A u \in Administrators : account[u] # "none"
    /\ RolesKept
    /\ \A r \in Requests : DefaultOf(r)

PlacesInv == \A r \in Requests : PlaceOf(r)

\* What ResetEndsSessions is about: a session that a reset should have ended,
\* and what explains that it has not.
StaleAtHome(s) ==
    /\ session[s].user # None /\ session[s].tenant = Home[session[s].user]
    /\ ~session[s].revoked /\ session[s].born < password[session[s].user]
Excused(u) == u \in unrevoked \/ \E r \in Requests : Resetting(r, u)

SessionsInv ==
    TypeOK /\ PlacesInv /\ RowsInv /\ RotationInv /\ RolesInv /\ ResetEndsSessions

LEMMA StaleExcused ==
    ResetEndsSessions <=> \A s \in SessionIds : StaleAtHome(s) => Excused(session[s].user)
    BY DEF ResetEndsSessions, StaleAtHome, Excused

\* No session becomes stale, and what excuses those that are goes on.
LEMMA ExcusesStand ==
    ASSUME ResetEndsSessions, \A v : Excused(v) => Excused(v)',
           \A s \in SessionIds :
               StaleAtHome(s)' => session'[s].user = session[s].user /\ StaleAtHome(s)
    PROVE  ResetEndsSessions'
<1> SUFFICES ASSUME NEW s \in SessionIds, StaleAtHome(s)' PROVE Excused(session[s].user)'
    BY DEF ResetEndsSessions, StaleAtHome, Excused
<1>1. Excused(session[s].user)
    BY StaleExcused
<1>2. PICK v : v = session[s].user
    OBVIOUS
<1>3. Excused(v)' /\ v = session'[s].user
    BY <1>1, <1>2
<1> QED
    BY <1>3 DEF Excused

LEMMA AdministratorsAreUsers == Administrators \subseteq Users
    BY SessionsAssumption DEF Administrators

\* What the helpers of the handlers do to the handler, and to no other.
LEMMA Going ==
    ASSUME TypeOK, NEW r \in Requests, NEW place \in Places, Go(r, place)
    PROVE  /\ request' \in [Requests -> Handler]
           /\ request'[r].at = place
           /\ request'[r].user = request[r].user
           /\ request'[r].tenant = request[r].tenant
           /\ request'[r].session = request[r].session
           /\ request'[r].recovery = request[r].recovery
           /\ \A q \in Requests \ {r} : request'[q] = request[q]
<1>1. request[r] \in Handler
    BY DEF TypeOK, Handler
<1>2. request' = [request EXCEPT ![r] = [request[r] EXCEPT !.at = place]]
    BY DEF Go
<1>3. [request[r] EXCEPT !.at = place] \in Handler
    BY <1>1 DEF Handler
<1> QED
    BY <1>1, <1>2, <1>3 DEF TypeOK, Handler

LEMMA Ending ==
    ASSUME TypeOK, NEW r \in Requests, End(r)
    PROVE  /\ request' \in [Requests -> Handler]
           /\ request'[r].at = "idle" /\ request'[r].session = None
           /\ \A q \in Requests \ {r} : request'[q] = request[q]
    BY DEF TypeOK, Handler, End, Idle, Places

LEMMA Starting ==
    ASSUME TypeOK, NEW r \in Requests, NEW q \in Handler, Start(r, q)
    PROVE  /\ request' \in [Requests -> Handler]
           /\ request[r].at = "idle" /\ request'[r] = q
           /\ \A p \in Requests \ {r} : request'[p] = request[p]
    BY DEF TypeOK, Handler, Start, At

\* To write one row of a session leaves the others alone.
LEMMA Writing ==
    ASSUME TypeOK, NEW s \in SessionIds, NEW x \in SessionRow, session' = [session EXCEPT ![s] = x]
    PROVE  /\ session' \in [SessionIds -> SessionRow] /\ session'[s] = x
           /\ \A y \in SessionIds \ {s} : session'[y] = session[y]
    BY DEF TypeOK, SessionRow

\* To revoke sessions changes nothing else about them.
LEMMA Revoking ==
    ASSUME TypeOK, NEW S \in SUBSET SessionIds, Revoke(S)
    PROVE  /\ session' \in [SessionIds -> SessionRow]
           /\ \A x \in SessionIds :
                 /\ session'[x].user = session[x].user /\ session'[x].issued = session[x].issued
                 /\ session'[x].tenant = session[x].tenant
                 /\ session'[x].born = session[x].born /\ session'[x].token = session[x].token
                 /\ session[x].revoked \/ x \in S => session'[x].revoked
                 /\ x \notin S => session'[x] = session[x]
<1>1. \A x \in SessionIds : session[x] \in SessionRow
    BY DEF TypeOK, SessionRow
<1>2. \A x \in SessionIds :
        session'[x] = IF x \in S THEN [session[x] EXCEPT !.revoked = TRUE] ELSE session[x]
    BY DEF Revoke
<1>3. \A x \in SessionIds :
        LET y == [session[x] EXCEPT !.revoked = TRUE]
        IN  /\ y \in SessionRow /\ y.revoked
            /\ y.user = session[x].user /\ y.tenant = session[x].tenant
            /\ y.token = session[x].token
            /\ y.issued = session[x].issued /\ y.born = session[x].born
    BY <1>1 DEF SessionRow
<1>4. session' \in [SessionIds -> SessionRow]
    BY <1>1, <1>3 DEF Revoke
<1> QED
    BY <1>2, <1>3, <1>4

\* Nothing that concerns rows and tokens happens, and a reset goes on, or is
\* known to have been cut short.
LEMMA Quiet ==
    ASSUME SessionsInv, UNCHANGED <<session, accepted, password>>, lost \subseteq lost',
           \A u \in Users : account[u] # "none" => account'[u] # "none",
           \A q \in Requests : request'[q].session \in {request[q].session, None},
           unrevoked \subseteq unrevoked',
           \A q \in Requests, u \in Users :
               Resetting(q, u) => Resetting(q, u)' \/ u \in unrevoked',
           None \notin SessionIds
    PROVE  RowsInv' /\ RotationInv' /\ ResetEndsSessions'
<1> USE DEF SessionsInv
<1>1. RowsInv'
    BY DEF RowsInv, TypeOK
<1>2. RotationInv'
    BY DEF RotationInv, RotationSound
<1>3. ResetEndsSessions'
    BY DEF ResetEndsSessions, TypeOK
<1> QED
    BY <1>1, <1>2, <1>3

\* Rows are revoked, or tokens taken out of rows, while no handler moves.
LEMMA Withdrawing ==
    ASSUME SessionsInv, UNCHANGED <<request, accepted, account, password, unrevoked, lost>>,
           \A s \in SessionIds :
              /\ session'[s].user = session[s].user /\ session'[s].issued = session[s].issued
              /\ session'[s].tenant = session[s].tenant
              /\ session'[s].born = session[s].born
              /\ session[s].revoked => session'[s].revoked
              /\ session'[s].token \in {session[s].token, 0}
              /\ session[s].user = None => session'[s] = session[s]
    PROVE  RowsInv' /\ RotationInv' /\ ResetEndsSessions'
<1> USE DEF SessionsInv
<1>1. RowsInv'
    BY DEF RowsInv
<1>2. RotationInv'
    BY DEF RotationInv, RotationSound
<1>3. ResetEndsSessions'
    BY DEF ResetEndsSessions, Resetting, User
<1> QED
    BY <1>1, <1>2, <1>3

\* One handler moves: the places of the others are as good as they were.
LEMMA Elsewhere ==
    ASSUME SessionsInv, NEW r \in Requests,
           \A q \in Requests \ {r} : request'[q] = request[q],
           \A u \in Users : account[u] # "none" => account'[u] # "none",
           lost \subseteq lost', PlaceOf(r)', DefaultOf(r)'
    PROVE  PlacesInv' /\ \A q \in Requests : DefaultOf(q)'
<1> SUFFICES ASSUME NEW q \in Requests \ {r} PROVE PlaceOf(q)' /\ DefaultOf(q)'
    BY DEF PlacesInv
<1>1. request'[q] = request[q] /\ request[q].user \in Users \cup {None}
    BY DEF SessionsInv, TypeOK
<1> QED
    BY <1>1 DEF SessionsInv, PlacesInv, RolesInv, PlaceOf, DefaultOf, Member

\* The same for a handler that leaves rows, tokens and accounts alone.
LEMMA QuietMove ==
    ASSUME SessionsInv, NEW r \in Requests, TypeOK',
           UNCHANGED <<session, accepted, password>>, lost \subseteq lost',
           \A u \in Users : account[u] # "none" => account'[u] # "none",
           \A q \in Requests \ {r} : request'[q] = request[q],
           request'[r].session \in {request[r].session, None},
           unrevoked \subseteq unrevoked',
           \/ request[r].at \notin {"mark", "revoke"} \/ request[r].user \in unrevoked'
           \/ request'[r].at \in {"mark", "revoke"} /\ request'[r].user = request[r].user,
           PlaceOf(r)', DefaultOf(r)', RolesKept'
    PROVE  SessionsInv'
<1>1. RowsInv' /\ RotationInv' /\ ResetEndsSessions'
  <2>1. \A q \in Requests : request'[q].session \in {request[q].session, None}
    OBVIOUS
  <2>2. \A q \in Requests, u \in Users :
            Resetting(q, u) => Resetting(q, u)' \/ u \in unrevoked'
    BY DEF Resetting, User
  <2> QED
    BY <2>1, <2>2, Quiet, SessionsAssumption
<1>2. PlacesInv' /\ RolesInv'
    BY Elsewhere, AdministratorsAreUsers DEF SessionsInv, RolesInv
<1> QED
    BY <1>1, <1>2 DEF SessionsInv

\* A request arrives.
LEMMA ArriveStep ==
    ASSUME SessionsInv, NEW r \in Requests,
           \/ \E t \in Tenants : Login(r, t)
           \/ \E m \in Members : LoginPassword(r, m[1], m[2]) \/ Register(r, m[1], m[2])
           \/ \E k \in RecoveryIds : ValidateRecoveryToken(r, k)
    PROVE  SessionsInv'
<1>1. /\ UNCHANGED <<userVars, session, recovery, accepted, unrevoked, lost>>
      /\ TypeOK
  <2>1. \A t \in Tenants : Login(r, t) =>
            UNCHANGED <<userVars, session, recovery, accepted, unrevoked, lost>>
    BY DEF Login
  <2>2. \A u \in Users, t \in Tenants : LoginPassword(r, u, t) \/ Register(r, u, t) =>
            UNCHANGED <<userVars, session, recovery, accepted, unrevoked, lost>>
    BY DEF LoginPassword, Register
  <2>3. \A k \in RecoveryIds : ValidateRecoveryToken(r, k) =>
            UNCHANGED <<userVars, session, recovery, accepted, unrevoked, lost>>
    BY DEF ValidateRecoveryToken
  <2>4. \A m \in Members : m[1] \in Users /\ m[2] \in Tenants
    BY SessionsAssumption
  <2> HIDE DEF userVars
  <2> QED
    BY <2>1, <2>2, <2>3, <2>4 DEF SessionsInv
<1>2. PICK q \in Handler :
        /\ Start(r, q) /\ q.session = None
        /\ \/ q.at = "exchange"
           \/ /\ q.at = "permissions" /\ q.user # None /\ account[q.user] # "none"
              /\ <<q.user, q.tenant>> \in Members
           \/ q.at = "insert" /\ q.user # None /\ <<q.user, q.tenant>> \in Members
           \/ q.at = "update" /\ q.user # None /\ q.tenant = Home[q.user]
  <2> USE DEF Handler, Idle, Places
  <2>1. ASSUME NEW t \in Tenants, Login(r, t)
        PROVE  \E q \in Handler : Start(r, q) /\ q.session = None /\ q.at = "exchange"
    <3> DEFINE q == [Idle EXCEPT !.at = "exchange", !.tenant = t]
    <3>1. q \in Handler /\ q.session = None /\ q.at = "exchange"
      OBVIOUS
    <3>2. Start(r, q)
      BY <2>1 DEF Login
    <3> QED
      BY <3>1, <3>2
  <2>2. ASSUME NEW m \in Members, LoginPassword(r, m[1], m[2])
        PROVE  \E q \in Handler :
                  /\ Start(r, q) /\ q.session = None
                  /\ q.at = "permissions" /\ q.user # None /\ account[q.user] # "none"
                  /\ <<q.user, q.tenant>> \in Members
    <3> DEFINE q == [Idle EXCEPT !.at = "permissions", !.user = m[1], !.tenant = m[2]]
    <3>1. m[1] \in Users /\ m[2] \in Tenants /\ m = <<m[1], m[2]>> /\ m[1] # None
      BY SessionsAssumption
    <3>2. /\ q \in Handler /\ q.session = None /\ q.at = "permissions"
          /\ q.user = m[1] /\ q.tenant = m[2]
      BY <3>1
    <3>3. Start(r, q) /\ account[m[1]] # "none"
      BY <2>2 DEF LoginPassword
    <3> HIDE DEF q
    <3> QED
      BY <3>1, <3>2, <3>3
  <2>3. ASSUME NEW m \in Members, Register(r, m[1], m[2])
        PROVE  \E q \in Handler :
                  /\ Start(r, q) /\ q.session = None
                  /\ q.at = "insert" /\ q.user # None /\ <<q.user, q.tenant>> \in Members
    <3> DEFINE q == [Idle EXCEPT !.at = "insert", !.user = m[1], !.tenant = m[2]]
    <3>1. m[1] \in Users /\ m[2] \in Tenants /\ m = <<m[1], m[2]>> /\ m[1] # None
      BY SessionsAssumption
    <3>2. /\ q \in Handler /\ q.session = None /\ q.at = "insert"
          /\ q.user = m[1] /\ q.tenant = m[2]
      BY <3>1
    <3>3. Start(r, q)
      BY <2>3 DEF Register
    <3> HIDE DEF q
    <3> QED
      BY <3>1, <3>2, <3>3
  <2>4. ASSUME NEW k \in RecoveryIds, ValidateRecoveryToken(r, k)
        PROVE  \E q \in Handler :
                  /\ Start(r, q) /\ q.session = None
                  /\ q.at = "update" /\ q.user # None /\ q.tenant = Home[q.user]
    <3> DEFINE u == recovery[k].user
               q == [Idle EXCEPT !.at = "update", !.user = u, !.tenant = Home[u], !.recovery = k]
    <3>1. u \in Users /\ u # None /\ Home[u] \in Tenants \cup {None}
      BY <1>1, <2>4, SessionsAssumption DEF ValidateRecoveryToken, TypeOK
    <3>2. Start(r, q)
      BY <2>4 DEF ValidateRecoveryToken
    <3> HIDE DEF u
    <3>3. /\ q \in Handler /\ q.session = None /\ q.at = "update"
          /\ q.user = u /\ q.tenant = Home[u]
      BY <3>1
    <3> HIDE DEF q
    <3> QED
      BY <3>1, <3>2, <3>3
  <2> QED
    BY <2>1, <2>2, <2>3, <2>4
<1>3. /\ request' \in [Requests -> Handler]
      /\ request[r].at = "idle" /\ request'[r] = q
      /\ \A p \in Requests \ {r} : request'[p] = request[p]
    BY <1>1, <1>2, Starting
<1>4. TypeOK'
    BY <1>1, <1>3 DEF TypeOK, Handler, userVars
<1>5. PlaceOf(r)' /\ DefaultOf(r)' /\ RolesKept'
    BY <1>1, <1>2, <1>3 DEF PlaceOf, DefaultOf, Member, RolesKept, userVars, SessionsInv, RolesInv
<1> QED
    BY <1>1, <1>2, <1>3, <1>4, <1>5, QuietMove DEF userVars

\* A handler goes on, or gives up, and touches no row, token or account.
LEMMA QuietStep ==
    ASSUME SessionsInv, NEW r \in Requests,
           \/ AskKeycloak(r) \/ ReadRole(r) \/ AssignDefault(r) \/ LoadPermissions(r)
           \/ GrantViewer(r) \/ MarkRecoveryTokenUsed(r) \/ GiveUp(r)
    PROVE  SessionsInv'
<1> USE DEF At, User
<1>1. TypeOK /\ PlaceOf(r) /\ DefaultOf(r) /\ RolesKept
    BY DEF SessionsInv, PlacesInv, RolesInv
<1>2. CASE AskKeycloak(r)
  <2>1. /\ UNCHANGED <<userVars, session, recovery, accepted, unrevoked, lost>>
        /\ request[r].at = "exchange"
    BY <1>2 DEF AskKeycloak
  <2>2. /\ request' \in [Requests -> Handler]
        /\ \A q \in Requests \ {r} : request'[q] = request[q]
        /\ request'[r].session \in {request[r].session, None}
        /\ \/ request'[r].at = "idle"
           \/ /\ request'[r].at = "upsert" /\ request'[r].user \in Users
              /\ <<request'[r].user, request'[r].tenant>> \in Members
    <3>1. CASE End(r)
      <4>1. /\ request' \in [Requests -> Handler]
            /\ request'[r].at = "idle" /\ request'[r].session = None
            /\ \A q \in Requests \ {r} : request'[q] = request[q]
        BY <1>1, <3>1, Ending
      <4> QED
        BY <4>1
    <3>2. ASSUME NEW u \in Users, <<u, request[r].tenant>> \in Members,
                 request' = [request EXCEPT ![r].at = "upsert", ![r].user = u]
          PROVE  /\ request' \in [Requests -> Handler]
                 /\ \A q \in Requests \ {r} : request'[q] = request[q]
                 /\ request'[r].session = request[r].session
                 /\ request'[r].at = "upsert" /\ request'[r].user = u
                 /\ request'[r].tenant = request[r].tenant
      <4>1. request[r] \in Handler
        BY <1>1 DEF TypeOK, Handler
      <4>2. request' = [request EXCEPT ![r] = [request[r] EXCEPT !.at = "upsert", !.user = u]]
        BY <3>2
      <4>3. [request[r] EXCEPT !.at = "upsert", !.user = u] \in Handler
        BY <4>1 DEF Handler, Places
      <4> QED
        BY <1>1, <4>1, <4>2, <4>3 DEF TypeOK, Handler
    <3> QED
      BY <1>2, <3>1, <3>2 DEF AskKeycloak
  <2>3. TypeOK'
    BY <1>1, <2>1, <2>2 DEF TypeOK, Handler, userVars
  <2>4. PlaceOf(r)' /\ DefaultOf(r)' /\ RolesKept'
    BY <1>1, <2>1, <2>2, SessionsAssumption DEF PlaceOf, DefaultOf, Member, RolesKept, userVars
  <2> QED
    BY <2>1, <2>2, <2>3, <2>4, QuietMove DEF userVars
<1>3. CASE ReadRole(r)
  <2>1. /\ UNCHANGED <<userVars, session, recovery, accepted, unrevoked>>
        /\ request[r].at = "userRole"
        /\ lost' \subseteq Faults /\ lost \subseteq lost'
        /\ \/ Go(r, "permissions")
           \/ Go(r, "assign") /\ (role[Member(r)] = "none" \/ "role" \in lost')
    BY <1>1, <1>3 DEF ReadRole, Fault, TypeOK, Faults
  <2>2. /\ request' \in [Requests -> Handler]
        /\ \A q \in Requests \ {r} : request'[q] = request[q]
        /\ request'[r].session = request[r].session /\ request'[r].user = request[r].user
        /\ request'[r].tenant = request[r].tenant
        /\ \/ request'[r].at = "permissions"
           \/ request'[r].at = "assign" /\ (role[Member(r)] = "none" \/ "role" \in lost')
    BY <1>1, <2>1, Going DEF Places
  <2>3. TypeOK'
    BY <1>1, <2>1, <2>2 DEF TypeOK, Handler, userVars
  <2>4. PlaceOf(r)' /\ DefaultOf(r)' /\ RolesKept'
    BY <1>1, <2>1, <2>2 DEF PlaceOf, DefaultOf, Member, RolesKept, userVars
  <2> QED
    BY <2>1, <2>2, <2>3, <2>4, QuietMove DEF userVars
<1>4. CASE AssignDefault(r)
  <2>1. /\ UNCHANGED <<account, cache, password, session, recovery, accepted, unrevoked>>
        /\ request[r].at = "assign" /\ lost' \subseteq Faults /\ lost \subseteq lost'
        /\ role' = role \/ role' = [role EXCEPT ![Member(r)] = "viewer"]
        /\ Go(r, "permissions")
    BY <1>1, <1>4 DEF AssignDefault, Fault, TypeOK, Faults
  <2>2. /\ request' \in [Requests -> Handler]
        /\ \A q \in Requests \ {r} : request'[q] = request[q]
        /\ request'[r].session = request[r].session /\ request'[r].user = request[r].user
        /\ request'[r].tenant = request[r].tenant
        /\ request'[r].at = "permissions"
    BY <1>1, <2>1, Going DEF Places
  <2>3. TypeOK'
    BY <1>1, <2>1, <2>2 DEF TypeOK, Handler, Roles
  <2>4. PlaceOf(r)' /\ DefaultOf(r)'
    BY <1>1, <2>1, <2>2 DEF PlaceOf, DefaultOf, Member
  <2>5. RolesKept'
    BY <1>1, <2>1, SessionsAssumption DEF DefaultOf, RolesKept, TypeOK
  <2> QED
    BY <2>1, <2>2, <2>3, <2>4, <2>5, QuietMove
<1>5. CASE LoadPermissions(r)
  <2>1. /\ UNCHANGED <<account, role, password, session, recovery, accepted, unrevoked>>
        /\ request[r].at = "permissions" /\ lost' \subseteq Faults /\ lost \subseteq lost'
        /\ \/ cache' = cache
           \/ cache' = [cache EXCEPT ![Member(r)] = GrantOf(Member(r))]
           \/ cache' = [cache EXCEPT ![Member(r)] = "least"] /\ "role" \in lost'
        /\ Go(r, IF request[r].session = None THEN "create" ELSE "store")
    BY <1>1, <1>5 DEF LoadPermissions, Fault, TypeOK, Faults
  <2>2. /\ request' \in [Requests -> Handler]
        /\ \A q \in Requests \ {r} : request'[q] = request[q]
        /\ request'[r].session = request[r].session /\ request'[r].user = request[r].user
        /\ request'[r].tenant = request[r].tenant
        /\ request'[r].at = IF request[r].session = None THEN "create" ELSE "store"
    <3>1. (IF request[r].session = None THEN "create" ELSE "store") \in Places
      BY DEF Places
    <3> QED
      BY <1>1, <2>1, <3>1, Going
  <2>3. TypeOK'
    <3>1. cache' \in [Members -> Grants]
      BY <1>1, <2>1, ZenonT(30) DEF TypeOK, Roles, Grants, GrantOf, PlaceOf
    <3> QED
      BY <1>1, <2>1, <2>2, <3>1 DEF TypeOK, Handler
  <2>4. PlaceOf(r)' /\ DefaultOf(r)'
    BY <1>1, <2>1, <2>2 DEF PlaceOf, DefaultOf, Member
  <2>5. RolesKept'
    BY <1>1, <2>1, SessionsAssumption DEF RolesKept, TypeOK, GrantOf
  <2> QED
    BY <2>1, <2>2, <2>3, <2>4, <2>5, QuietMove
<1>6. CASE GrantViewer(r)
  <2>1. /\ UNCHANGED <<account, cache, password, session, recovery, accepted, unrevoked>>
        /\ request[r].at = "grant" /\ lost' \subseteq Faults /\ lost \subseteq lost'
        /\ role' = role \/ role' = [role EXCEPT ![Member(r)] = "viewer"]
        /\ End(r)
    BY <1>1, <1>6 DEF GrantViewer, Fault, TypeOK, Faults
  <2>2. /\ request' \in [Requests -> Handler]
        /\ \A q \in Requests \ {r} : request'[q] = request[q]
        /\ request'[r].session = None /\ request'[r].at = "idle"
    BY <1>1, <2>1, Ending
  <2>3. TypeOK'
    BY <1>1, <2>1, <2>2 DEF TypeOK, Handler, Roles
  <2>4. PlaceOf(r)' /\ DefaultOf(r)'
    BY <2>2 DEF PlaceOf, DefaultOf, Member
  <2>5. RolesKept'
    <3>1. Member(r) \notin Admins
      BY <1>1, <2>1 DEF PlaceOf, Member, Administrators
    <3> QED
      BY <1>1, <2>1, <3>1, SessionsAssumption DEF RolesKept, TypeOK
  <2> QED
    BY <2>1, <2>2, <2>3, <2>4, <2>5, QuietMove
<1>7. CASE MarkRecoveryTokenUsed(r)
  <2>1. /\ UNCHANGED <<userVars, session, accepted, unrevoked>>
        /\ request[r].at = "mark" /\ lost' \subseteq Faults /\ lost \subseteq lost'
        /\ recovery' = recovery \/ recovery' = [recovery EXCEPT ![request[r].recovery].used = TRUE]
        /\ Go(r, "revoke")
    BY <1>1, <1>7 DEF MarkRecoveryTokenUsed, Fault, TypeOK, Faults
  <2>2. /\ request' \in [Requests -> Handler]
        /\ \A q \in Requests \ {r} : request'[q] = request[q]
        /\ request'[r].session = request[r].session /\ request'[r].user = request[r].user
        /\ request'[r].tenant = request[r].tenant
        /\ request'[r].at = "revoke"
    BY <1>1, <2>1, Going DEF Places
  <2>3. recovery' \in [RecoveryIds -> [user : Users \cup {None}, used : BOOLEAN]]
    <3> DEFINE k == request[r].recovery
    <3>1. CASE recovery' = recovery
      BY <1>1, <3>1 DEF TypeOK
    <3>2. CASE k \in RecoveryIds /\ recovery' = [recovery EXCEPT ![k].used = TRUE]
      <4>1. recovery' = [recovery EXCEPT ![k] = [recovery[k] EXCEPT !.used = TRUE]]
        BY <3>2
      <4>2. recovery[k] \in [user : Users \cup {None}, used : BOOLEAN]
        BY <1>1, <3>2 DEF TypeOK
      <4> QED
        BY <1>1, <3>2, <4>1, <4>2 DEF TypeOK
    <3>3. CASE k \notin RecoveryIds /\ recovery' = [recovery EXCEPT ![k].used = TRUE]
      BY <1>1, <3>3 DEF TypeOK
    <3> QED
      BY <2>1, <3>1, <3>2, <3>3
  <2>4. TypeOK'
    BY <1>1, <2>1, <2>2, <2>3 DEF TypeOK, Handler, userVars
  <2>5. PlaceOf(r)' /\ DefaultOf(r)' /\ RolesKept'
    BY <1>1, <2>1, <2>2 DEF PlaceOf, DefaultOf, Member, RolesKept, userVars
  <2> QED
    BY <2>1, <2>2, <2>4, <2>5, QuietMove DEF userVars
<1>8. CASE GiveUp(r)
  <2>1. /\ UNCHANGED <<userVars, session, recovery, accepted>> /\ End(r)
        /\ lost' \subseteq Faults /\ lost \subseteq lost'
        /\ unrevoked' \subseteq Users /\ unrevoked \subseteq unrevoked'
        /\ request[r].at \in {"mark", "revoke"} => request[r].user \in unrevoked'
    BY <1>1, <1>8 DEF GiveUp, Fault, TypeOK, Faults, Resetting, PlaceOf
  <2>2. /\ request' \in [Requests -> Handler]
        /\ \A q \in Requests \ {r} : request'[q] = request[q]
        /\ request'[r].session = None /\ request'[r].at = "idle"
    BY <1>1, <2>1, Ending
  <2>3. TypeOK'
    BY <1>1, <2>1, <2>2 DEF TypeOK, Handler, userVars
  <2>4. PlaceOf(r)' /\ DefaultOf(r)' /\ RolesKept'
    BY <1>1, <2>1, <2>2 DEF PlaceOf, DefaultOf, Member, RolesKept, userVars
  <2> QED
    BY <2>1, <2>2, <2>3, <2>4, QuietMove DEF userVars
<1> QED
    BY <1>2, <1>3, <1>4, <1>5, <1>6, <1>7, <1>8

\* Login opens an account, registration another one: nobody has both.
LEMMA AccountStep ==
    ASSUME SessionsInv, NEW r \in Requests, UpsertUser(r) \/ InsertUser(r)
    PROVE  SessionsInv'
<1> USE DEF At, User
<1>1. TypeOK /\ PlaceOf(r) /\ DefaultOf(r) /\ RolesKept /\ RowsInv
    BY DEF SessionsInv, PlacesInv, RolesInv
<1>2. CASE UpsertUser(r)
  <2>1. /\ UNCHANGED <<role, cache, password, session, recovery, accepted, unrevoked, lost>>
        /\ request[r].at = "upsert"
    BY <1>2 DEF UpsertUser
  <2>2. /\ request' \in [Requests -> Handler]
        /\ \A q \in Requests \ {r} : request'[q] = request[q]
        /\ request'[r].session \in {request[r].session, None}
        /\ \/ account' = account /\ request'[r].at = "idle"
           \/ /\ account' = [account EXCEPT ![request[r].user] = "keycloak"]
              /\ request'[r].at = "userRole" /\ request'[r].user = request[r].user
              /\ request'[r].tenant = request[r].tenant
    <3>1. CASE account[request[r].user] = "registered"
      <4>1. End(r) /\ account' = account
        BY <1>2, <3>1 DEF UpsertUser
      <4> QED
        BY <1>1, <4>1, Ending
    <3>2. CASE account[request[r].user] # "registered"
      <4>1. Go(r, "userRole") /\ account' = [account EXCEPT ![request[r].user] = "keycloak"]
        BY <1>2, <3>2 DEF UpsertUser
      <4> QED
        BY <1>1, <4>1, Going DEF Places
    <3> QED
      BY <3>1, <3>2
  <2>3. account' \in [Users -> Accounts]
        /\ \A u \in Users : account[u] # "none" => account'[u] # "none"
    BY <1>1, <2>2 DEF TypeOK, Accounts
  <2>4. TypeOK'
    BY <1>1, <2>1, <2>2, <2>3 DEF TypeOK, Handler
  <2>5. PlaceOf(r)' /\ DefaultOf(r)' /\ RolesKept'
    BY <1>1, <2>1, <2>2 DEF PlaceOf, DefaultOf, Member, RolesKept, TypeOK
  <2> QED
    BY <2>1, <2>2, <2>3, <2>4, <2>5, QuietMove
<1>3. CASE InsertUser(r)
  <2> DEFINE u == request[r].user
  <2>1. /\ UNCHANGED <<role, cache, session, recovery, accepted, unrevoked, lost>>
        /\ request[r].at = "insert" /\ u \in Users
    BY <1>1, <1>3 DEF InsertUser, PlaceOf, TypeOK
  <2>2. CASE account[u] # "none"
    <3>1. End(r) /\ UNCHANGED <<account, password>>
      BY <1>3, <2>2 DEF InsertUser
    <3>2. /\ request' \in [Requests -> Handler]
          /\ \A q \in Requests \ {r} : request'[q] = request[q]
          /\ request'[r].session = None /\ request'[r].at = "idle"
      BY <1>1, <3>1, Ending
    <3>3. TypeOK'
      BY <1>1, <2>1, <3>1, <3>2 DEF TypeOK, Handler
    <3>4. PlaceOf(r)' /\ DefaultOf(r)' /\ RolesKept'
      BY <1>1, <2>1, <3>2 DEF PlaceOf, DefaultOf, Member, RolesKept
    <3> QED
      BY <2>1, <3>1, <3>2, <3>3, <3>4, QuietMove
  <2>3. CASE account[u] = "none"
    <3>1. /\ Go(r, "grant") /\ account' = [account EXCEPT ![u] = "registered"]
          /\ password' = [password EXCEPT ![u] = 1]
      BY <1>3, <2>3 DEF InsertUser
    <3>2. /\ request' \in [Requests -> Handler]
          /\ \A q \in Requests \ {r} : request'[q] = request[q]
          /\ request'[r].session = request[r].session /\ request'[r].user = u
          /\ request'[r].tenant = request[r].tenant
          /\ request'[r].at = "grant"
      BY <1>1, <3>1, Going DEF Places
    <3>3. \A x \in Users : account[x] # "none" => account'[x] # "none" /\ password'[x] = password[x]
      BY <1>1, <2>3, <3>1 DEF TypeOK
    <3>4. MaxPasswords >= 1 /\ MaxPasswords \in Nat
      BY SessionsAssumption
    <3>5. TypeOK'
      BY <1>1, <2>1, <3>1, <3>2, <3>4 DEF TypeOK, Handler, Accounts
    <3>6. PlaceOf(r)' /\ DefaultOf(r)' /\ RolesKept'
      BY <1>1, <2>1, <2>3, <3>2 DEF PlaceOf, DefaultOf, Member, RolesKept, SessionsInv, RolesInv
    <3>7. PlacesInv' /\ RolesInv'
      BY <2>1, <3>2, <3>3, <3>6, Elsewhere, AdministratorsAreUsers DEF SessionsInv, RolesInv
    <3>8. RowsInv'
      <4>1. \A q \in Requests : request'[q].session = request[q].session
        BY <3>2
      <4>2. \A s \in SessionIds : session[s].user \in Users \cup {None}
        BY <1>1 DEF TypeOK
      <4> QED
        BY <1>1, <2>1, <3>3, <4>1, <4>2 DEF RowsInv
    <3>9. RotationInv'
      BY <2>1, <3>2 DEF SessionsInv, RotationInv, RotationSound
    <3>10. ResetEndsSessions'
      <4>1. \A s \in SessionIds : session[s].user # None =>
               password'[session[s].user] = password[session[s].user]
        BY <1>1, <3>3 DEF RowsInv, TypeOK
      <4> QED
        BY <2>1, <3>2, <4>1 DEF SessionsInv, ResetEndsSessions, Resetting
    <3> QED
      BY <3>5, <3>7, <3>8, <3>9, <3>10 DEF SessionsInv
  <2> QED
    BY <2>2, <2>3
<1> QED
    BY <1>2, <1>3

\* A session is opened, with the password of its user then.
LEMMA CreateStep ==
    ASSUME SessionsInv, NEW r \in Requests, CreateSession(r)
    PROVE  SessionsInv'
<1>1. TypeOK /\ PlaceOf(r) /\ RowsInv
    BY DEF SessionsInv, PlacesInv
<1> DEFINE u == request[r].user
           t == request[r].tenant
<1>2. PICK s \in SessionIds :
        /\ session[s] = NoSession
        /\ session' = [session EXCEPT ![s] =
                         [NoSession EXCEPT !.user = u, !.tenant = t, !.born = password[u]]]
        /\ request' = [request EXCEPT ![r] = [request[r] EXCEPT !.session = s, !.at = "store"]]
    BY ZenonT(30) DEF CreateSession, User
<1>3. /\ UNCHANGED <<userVars, recovery, accepted, unrevoked, lost>>
      /\ request[r].at = "create" /\ u \in Users /\ account[u] # "none"
      /\ t \in Tenants \cup {None} /\ <<u, t>> \in Members
    BY <1>1 DEF CreateSession, At, PlaceOf, Member, TypeOK
<1>4. /\ request' \in [Requests -> Handler]
      /\ request'[r].at = "store" /\ request'[r].session = s /\ request'[r].user = u
      /\ \A q \in Requests \ {r} : request'[q] = request[q]
  <2>1. request[r] \in Handler
    BY <1>1 DEF TypeOK, Handler
  <2>2. [request[r] EXCEPT !.session = s, !.at = "store"] \in Handler
    BY <2>1 DEF Handler, Places
  <2> QED
    BY <1>1, <1>2, <2>1, <2>2 DEF TypeOK, Handler
<1>5. /\ session' \in [SessionIds -> SessionRow]
      /\ session'[s].user = u /\ session'[s].tenant = t
      /\ session'[s].born = password[u] /\ ~session'[s].revoked
      /\ session'[s].token = 0 /\ session'[s].issued = 0
      /\ \A x \in SessionIds \ {s} : session'[x] = session[x]
  <2> DEFINE x == [NoSession EXCEPT !.user = u, !.tenant = t, !.born = password[u]]
  <2>1. /\ x \in SessionRow /\ x.user = u /\ x.tenant = t /\ x.born = password[u]
        /\ ~x.revoked /\ x.token = 0 /\ x.issued = 0
    <3>1. password[u] \in 0..MaxPasswords /\ 0 \in 0..MaxTokens
      BY <1>1, <1>3, SessionsAssumption DEF TypeOK
    <3> QED
      BY <1>3, <3>1 DEF SessionRow, NoSession
  <2> QED
    BY <1>1, <1>2, <2>1, Writing
<1>6. /\ session[s].user = None /\ session[s].issued = 0
      /\ \A q \in Requests : request[q].session # s
  <2>1. session[s].user = None /\ session[s].issued = 0
    BY <1>2 DEF NoSession
  <2> QED
    BY <1>1, <2>1 DEF RowsInv
<1>7. TypeOK'
    BY <1>1, <1>3, <1>4, <1>5 DEF TypeOK, Handler, SessionRow, userVars
<1>8. PlaceOf(r)' /\ DefaultOf(r)' /\ RolesKept'
    BY <1>3, <1>4, SessionsAssumption
       DEF PlaceOf, DefaultOf, RolesKept, userVars, SessionsInv, RolesInv
<1>9. PlacesInv' /\ RolesInv'
    BY <1>3, <1>4, <1>8, Elsewhere DEF SessionsInv, RolesInv, userVars
<1>10. RowsInv'
  <2>1. session'[s].user # None /\ account'[u] # "none"
    BY <1>3, <1>5, SessionsAssumption DEF userVars
  <2> QED
    BY <1>1, <1>3, <1>4, <1>5, <2>1 DEF RowsInv, userVars
<1>11. RotationInv'
    BY <1>3, <1>4, <1>5, <1>6 DEF SessionsInv, RotationInv, RotationSound
<1>12. ResetEndsSessions'
  <2>1. \A x \in SessionIds : StaleAtHome(x)' => x # s
    BY <1>1, <1>3, <1>5 DEF userVars, TypeOK, StaleAtHome
  <2>2. \A x \in SessionIds : StaleAtHome(x)' =>
            session'[x].user = session[x].user /\ StaleAtHome(x)
    BY <1>3, <1>5, <2>1 DEF userVars, StaleAtHome
  <2>3. \A v : Excused(v) => Excused(v)'
    BY <1>3, <1>4 DEF Excused, Resetting, User
  <2> QED
    BY <2>2, <2>3, ExcusesStand DEF SessionsInv
<1> QED
    BY <1>7, <1>9, <1>10, <1>11, <1>12 DEF SessionsInv

\* A token is generated, and is in the row of its session or nowhere.
LEMMA StoreStep ==
    ASSUME SessionsInv, NEW r \in Requests, StoreRefreshToken(r)
    PROVE  SessionsInv'
<1>1. TypeOK /\ PlaceOf(r) /\ RowsInv
    BY DEF SessionsInv, PlacesInv
<1> DEFINE s == request[r].session
           n == session[s].issued + 1
<1>2. /\ UNCHANGED <<userVars, recovery, accepted, unrevoked>>
      /\ request[r].at = "store" /\ s \in SessionIds /\ End(r) /\ n <= MaxTokens
      /\ lost' \subseteq Faults /\ lost \subseteq lost'
      /\ \/ session' = [session EXCEPT ![s].issued = n, ![s].token = n]
         \/ session' = [session EXCEPT ![s].issued = n]
    BY <1>1 DEF StoreRefreshToken, At, PlaceOf, TypeOK, Fault, Faults
<1>3. /\ request' \in [Requests -> Handler]
      /\ request'[r].at = "idle" /\ request'[r].session = None
      /\ \A q \in Requests \ {r} : request'[q] = request[q]
    BY <1>1, <1>2, Ending
<1>4. /\ session' \in [SessionIds -> SessionRow]
      /\ session'[s].user = session[s].user /\ session'[s].born = session[s].born
      /\ session'[s].tenant = session[s].tenant
      /\ session'[s].revoked = session[s].revoked /\ session'[s].issued = n
      /\ session'[s].token \in {n, session[s].token}
      /\ \A x \in SessionIds \ {s} : session'[x] = session[x]
  <2>1. session[s] \in SessionRow /\ n \in 0..MaxTokens
    BY <1>1, <1>2, SessionsAssumption DEF TypeOK, SessionRow
  <2> DEFINE x == [session[s] EXCEPT !.issued = n, !.token = n]
             y == [session[s] EXCEPT !.issued = n]
  <2>2. CASE session' = [session EXCEPT ![s].issued = n, ![s].token = n]
    <3>1. session' = [session EXCEPT ![s] = x]
      BY <2>2
    <3>2. x \in SessionRow /\ x.user = session[s].user /\ x.born = session[s].born
          /\ x.tenant = session[s].tenant /\ x.revoked = session[s].revoked
          /\ x.issued = n /\ x.token = n
      BY <2>1 DEF SessionRow
    <3> QED
      BY <1>1, <1>2, <3>1, <3>2, Writing
  <2>3. CASE session' = [session EXCEPT ![s].issued = n]
    <3>1. session' = [session EXCEPT ![s] = y]
      BY <2>3
    <3>2. y \in SessionRow /\ y.user = session[s].user /\ y.born = session[s].born
          /\ y.tenant = session[s].tenant /\ y.revoked = session[s].revoked
          /\ y.issued = n /\ y.token = session[s].token
      BY <2>1 DEF SessionRow
    <3> QED
      BY <1>1, <1>2, <3>1, <3>2, Writing
  <2> QED
    BY <1>2, <2>2, <2>3
<1>5. /\ session[s].user # None /\ session[s].token = 0
      /\ \A q \in Requests \ {r} : request[q].session # s
      /\ session[s].issued \in Nat /\ n \in 1..MaxTokens /\ accepted[s][n] = 0
  <2>1. session[s].issued \in Nat /\ n \in 1..MaxTokens
    BY <1>1, <1>2, SessionsAssumption DEF TypeOK
  <2>2. session[s].user # None
    BY <1>1, <1>2 DEF RowsInv
  <2>3. session[s].token = 0
    BY <1>2 DEF SessionsInv, RotationInv, RotationSound
  <2>4. n > session[s].issued
    BY <2>1
  <2>5. accepted[s][n] = 0 /\ \A q \in Requests \ {r} : request[q].session # s
    BY <1>2, <2>1, <2>4 DEF SessionsInv, RotationInv
  <2> QED
    BY <2>1, <2>2, <2>3, <2>5
<1>6. TypeOK'
    BY <1>1, <1>2, <1>3, <1>4 DEF TypeOK, Handler, SessionRow, userVars
<1>7. PlaceOf(r)' /\ DefaultOf(r)' /\ RolesKept'
    BY <1>2, <1>3 DEF PlaceOf, DefaultOf, RolesKept, userVars, SessionsInv, RolesInv
<1>8. PlacesInv' /\ RolesInv'
    BY <1>2, <1>3, <1>7, Elsewhere DEF SessionsInv, RolesInv, userVars
<1>9. RowsInv'
  <2>1. \A x \in SessionIds : session'[x].user = session[x].user
                             /\ session'[x].tenant = session[x].tenant
    BY <1>4
  <2>2. UNCHANGED account
    BY <1>2 DEF userVars
  <2> SUFFICES ASSUME NEW x \in SessionIds, session'[x].user = None
               PROVE  /\ session'[x] = NoSession
                      /\ \A q \in Requests : request'[q].session # x
    BY <1>1, <2>1, <2>2 DEF RowsInv
  <2>3. session[x].user = None /\ x # s
    BY <1>5, <2>1
  <2>4. session[x] = NoSession /\ \A q \in Requests : request[q].session # x
    BY <1>1, <2>3 DEF RowsInv
  <2>5. x # None
    BY SessionsAssumption
  <2> QED
    BY <1>3, <1>4, <2>3, <2>4, <2>5
<1>10. RotationInv'
  <2>1. \A x \in SessionIds : \A q \in Requests : request'[q].session = x =>
            q # r /\ x # s /\ request[q].session = x /\ session'[x] = session[x]
    BY <1>3, <1>4, <1>5, SessionsAssumption
  <2>2. \A x \in SessionIds \ {s} : session'[x] = session[x]
    BY <1>4
  <2>3. RotationSound'
    <3> SUFFICES ASSUME NEW x \in SessionIds
                 PROVE  /\ \A m \in 1..MaxTokens : accepted[x][m] <= 1
                        /\ session'[x].token # 0 =>
                              /\ session'[x].token = session'[x].issued
                              /\ accepted[x][session'[x].token] = 0
                              /\ \A q \in Requests : request'[q].session # x
      BY <1>2 DEF RotationSound
    <3>1. CASE x = s
      BY <1>4, <1>5, <2>1, <3>1 DEF SessionsInv, RotationInv, RotationSound
    <3>2. CASE x # s
      BY <2>1, <2>2, <3>2 DEF SessionsInv, RotationInv, RotationSound
    <3> QED
      BY <3>1, <3>2
  <2>4. \A x \in SessionIds, m \in 1..MaxTokens : m > session'[x].issued => accepted[x][m] = 0
    <3> SUFFICES ASSUME NEW x \in SessionIds, NEW m \in 1..MaxTokens, m > session'[x].issued
                 PROVE  m > session[x].issued
      BY DEF SessionsInv, RotationInv
    <3> QED
      BY <1>4, <1>5
  <2>5. \A x \in SessionIds, p, q \in Requests :
            request'[p].session = x /\ request'[q].session = x => p = q
    BY <2>1 DEF SessionsInv, RotationInv
  <2> QED
    BY <1>2, <2>3, <2>4, <2>5 DEF RotationInv
<1>11. ResetEndsSessions'
  <2>1. \A x \in SessionIds : /\ session'[x].user = session[x].user
                              /\ StaleAtHome(x)' <=> StaleAtHome(x)
    BY <1>2, <1>4 DEF StaleAtHome, userVars
  <2>2. \A v : Excused(v) => Excused(v)'
    BY <1>2, <1>3 DEF Excused, Resetting, User
  <2> QED
    BY <2>1, <2>2, ExcusesStand DEF SessionsInv
<1> QED
    BY <1>6, <1>8, <1>9, <1>10, <1>11 DEF SessionsInv

\* The token of a session is taken out of its row by the one request that
\* may use it.
LEMMA ConsumeStep ==
    ASSUME SessionsInv, NEW r \in Requests, NEW s \in SessionIds, NEW n \in 1..MaxTokens,
           ConsumeRefreshToken(r, s, n)
    PROVE  SessionsInv'
<1>1. TypeOK /\ RowsInv
    BY DEF SessionsInv
<1> DEFINE u == session[s].user
           t == session[s].tenant
           x == [session[s] EXCEPT !.token = 0]
           q == [Idle EXCEPT !.at = "permissions", !.user = u, !.tenant = t, !.session = s]
<1>2. /\ UNCHANGED <<userVars, recovery, unrevoked, lost>>
      /\ session[s].token = n /\ n # 0 /\ Start(r, q)
      /\ session' = [session EXCEPT ![s] = x]
      /\ accepted' = [accepted EXCEPT ![s] = [accepted[s] EXCEPT ![n] = @ + 1]]
    BY DEF ConsumeRefreshToken, Holds
<1>3. /\ session[s] \in SessionRow /\ u \in Users /\ account[u] # "none"
      /\ t \in Tenants \cup {None} /\ <<u, t>> \in Members
    BY <1>1, <1>2 DEF TypeOK, SessionRow, RowsInv, NoSession
<1>4. /\ x \in SessionRow /\ x.user = u /\ x.token = 0 /\ x.issued = session[s].issued
      /\ x.tenant = t
      /\ x.revoked = session[s].revoked /\ x.born = session[s].born
    BY <1>3, SessionsAssumption DEF SessionRow
<1>5. /\ session' \in [SessionIds -> SessionRow] /\ session'[s] = x
      /\ \A y \in SessionIds \ {s} : session'[y] = session[y]
  <2> HIDE DEF x
  <2> QED
    BY <1>1, <1>2, <1>4, Writing
<1>6. q \in Handler /\ q.at = "permissions" /\ q.user = u /\ q.tenant = t /\ q.session = s
    BY <1>3 DEF Handler, Idle, Places
<1>7. /\ request' \in [Requests -> Handler]
      /\ request[r].at = "idle" /\ request'[r] = q
      /\ \A p \in Requests \ {r} : request'[p] = request[p]
  <2> HIDE DEF q
  <2> QED
    BY <1>1, <1>2, <1>6, Starting
<1>8. /\ accepted' \in [SessionIds -> [1..MaxTokens -> Nat]]
      /\ \A y \in SessionIds, m \in 1..MaxTokens :
            accepted'[y][m] = IF y = s /\ m = n THEN accepted[y][m] + 1 ELSE accepted[y][m]
  <2>1. accepted \in [SessionIds -> [1..MaxTokens -> Nat]] /\ accepted[s] \in [1..MaxTokens -> Nat]
    BY <1>1 DEF TypeOK
  <2> DEFINE a == [accepted[s] EXCEPT ![n] = @ + 1]
  <2>2. /\ a \in [1..MaxTokens -> Nat]
        /\ \A m \in 1..MaxTokens : a[m] = IF m = n THEN accepted[s][m] + 1 ELSE accepted[s][m]
    BY <2>1
  <2>3. accepted' = [accepted EXCEPT ![s] = a]
    BY <1>2
  <2> HIDE DEF a
  <2> QED
    BY <2>1, <2>2, <2>3
<1>9. /\ session[s].issued = n /\ accepted[s][n] = 0
      /\ \A p \in Requests : request[p].session # s
    BY <1>2 DEF SessionsInv, RotationInv, RotationSound
<1> HIDE DEF x, q
<1>10. TypeOK'
    BY <1>1, <1>2, <1>5, <1>7, <1>8 DEF TypeOK, Handler, SessionRow, userVars
<1>11. PlaceOf(r)' /\ DefaultOf(r)' /\ RolesKept'
    BY <1>2, <1>3, <1>6, <1>7, SessionsAssumption
       DEF PlaceOf, DefaultOf, Member, RolesKept, userVars, SessionsInv, RolesInv
<1>12. PlacesInv' /\ RolesInv'
    BY <1>2, <1>7, <1>11, Elsewhere DEF SessionsInv, RolesInv, userVars
<1>13. RowsInv'
    BY <1>1, <1>2, <1>3, <1>4, <1>5, <1>6, <1>7, SessionsAssumption DEF RowsInv, userVars
<1>14. RotationInv'
  <2>1. RotationSound'
    <3> SUFFICES ASSUME NEW y \in SessionIds
                 PROVE  /\ \A m \in 1..MaxTokens : accepted'[y][m] <= 1
                        /\ session'[y].token # 0 =>
                              /\ session'[y].token = session'[y].issued
                              /\ accepted'[y][session'[y].token] = 0
                              /\ \A p \in Requests : request'[p].session # y
      BY DEF RotationSound
    <3>1. CASE y = s
      BY <1>4, <1>5, <1>8, <1>9, <3>1 DEF SessionsInv, RotationInv, RotationSound
    <3>2. CASE y # s
      <4>1. session[y].token \in 0..MaxTokens
        BY <1>1 DEF TypeOK
      <4>2. \A p \in Requests : request'[p].session = y => request[p].session = y
        BY <1>6, <1>7, <3>2
      <4>3. \A m \in 1..MaxTokens : accepted'[y][m] = accepted[y][m]
        BY <1>8, <3>2
      <4>4. session'[y] = session[y]
        BY <1>5, <3>2
      <4>5. session[y].token # 0 => session[y].token \in 1..MaxTokens
        BY <4>1, SessionsAssumption
      <4> QED
        BY <4>2, <4>3, <4>4, <4>5 DEF SessionsInv, RotationInv, RotationSound
    <3> QED
      BY <3>1, <3>2
  <2>2. \A y \in SessionIds, m \in 1..MaxTokens : m > session'[y].issued => accepted'[y][m] = 0
    <3> SUFFICES ASSUME NEW y \in SessionIds, NEW m \in 1..MaxTokens, m > session'[y].issued
                 PROVE  accepted'[y][m] = 0
      OBVIOUS
    <3>1. session'[y].issued = session[y].issued
      BY <1>4, <1>5
    <3>2. ~(y = s /\ m = n)
      BY <1>9, <3>1
    <3> QED
      BY <1>8, <3>1, <3>2 DEF SessionsInv, RotationInv
  <2>3. \A y \in SessionIds, p, o \in Requests :
            request'[p].session = y /\ request'[o].session = y => p = o
    BY <1>6, <1>7, <1>9 DEF SessionsInv, RotationInv
  <2> QED
    BY <2>1, <2>2, <2>3 DEF RotationInv
<1>15. ResetEndsSessions'
  <2>1. \A y \in SessionIds : /\ session'[y].user = session[y].user
                              /\ StaleAtHome(y)' <=> StaleAtHome(y)
    BY <1>2, <1>4, <1>5 DEF StaleAtHome, userVars
  <2>2. \A v : Excused(v) => Excused(v)'
    BY <1>2, <1>7 DEF Excused, Resetting, User
  <2> QED
    BY <2>1, <2>2, ExcusesStand DEF SessionsInv
<1> QED
    BY <1>10, <1>12, <1>13, <1>14, <1>15 DEF SessionsInv

\* A reset writes the password, and ends by revoking what is older.
LEMMA ResetStep ==
    ASSUME SessionsInv, NEW r \in Requests, UpdatePassword(r) \/ RevokeAllSessions(r)
    PROVE  SessionsInv'
<1>1. TypeOK /\ PlaceOf(r) /\ RowsInv
    BY DEF SessionsInv, PlacesInv
<1> DEFINE u == request[r].user
<1>2. CASE UpdatePassword(r)
  <2>1. /\ UNCHANGED <<account, role, cache, session, recovery, accepted, unrevoked, lost>>
        /\ request[r].at = "update" /\ u \in Users /\ Go(r, "mark")
        /\ request[r].tenant = Home[u]
        /\ password[u] < MaxPasswords /\ password' = [password EXCEPT ![u] = @ + 1]
    BY <1>1, <1>2 DEF UpdatePassword, At, User, PlaceOf, TypeOK
  <2>2. /\ request' \in [Requests -> Handler]
        /\ \A q \in Requests \ {r} : request'[q] = request[q]
        /\ request'[r].session = request[r].session /\ request'[r].user = u
        /\ request'[r].tenant = request[r].tenant
        /\ request'[r].at = "mark"
    BY <1>1, <2>1, Going DEF Places
  <2>3. TypeOK'
    BY <1>1, <2>1, <2>2, SessionsAssumption DEF TypeOK, Handler
  <2>4. PlaceOf(r)' /\ DefaultOf(r)' /\ RolesKept'
    BY <1>1, <2>1, <2>2 DEF PlaceOf, DefaultOf, RolesKept, SessionsInv, RolesInv
  <2>5. PlacesInv' /\ RolesInv'
    BY <2>1, <2>2, <2>4, Elsewhere DEF SessionsInv, RolesInv
  <2>6. \A q \in Requests : request'[q].session = request[q].session
    BY <2>2
  <2>7. RowsInv' /\ RotationInv'
    BY <2>1, <2>6 DEF SessionsInv, RowsInv, RotationInv, RotationSound
  <2>8. ResetEndsSessions'
    <3> SUFFICES ASSUME NEW x \in SessionIds, StaleAtHome(x)'
                 PROVE  Excused(session[x].user)'
      BY DEF ResetEndsSessions, StaleAtHome, Excused
    <3>1. CASE session[x].user = u
      BY <2>1, <2>2, <3>1 DEF Excused, Resetting, User
    <3>2. CASE session[x].user # u
      <4>1. password'[session[x].user] = password[session[x].user]
        BY <1>1, <2>1, <3>2 DEF TypeOK
      <4>2. StaleAtHome(x)
        BY <2>1, <4>1 DEF StaleAtHome
      <4>3. Excused(session[x].user)
        BY <4>2, StaleExcused DEF SessionsInv
      <4> QED
        BY <2>1, <2>2, <4>3 DEF Excused, Resetting, User
    <3> QED
      BY <3>1, <3>2
  <2> QED
    BY <2>3, <2>5, <2>7, <2>8 DEF SessionsInv
<1>3. CASE RevokeAllSessions(r)
  <2>1. /\ UNCHANGED <<userVars, recovery, accepted>>
        /\ request[r].at = "revoke" /\ u \in Users /\ request[r].tenant = Home[u]
        /\ End(r) /\ lost' \subseteq Faults /\ lost \subseteq lost'
        /\ \/ Revoke(SessionsOf(u, Home[u])) /\ unrevoked' = unrevoked \ {u}
           \/ session' = session /\ unrevoked' = unrevoked \cup {u}
    BY <1>1, <1>3 DEF RevokeAllSessions, At, User, Fault, PlaceOf, TypeOK, Faults
  <2>2. /\ request' \in [Requests -> Handler]
        /\ \A q \in Requests \ {r} : request'[q] = request[q]
        /\ request'[r].session = None /\ request'[r].at = "idle"
    BY <1>1, <2>1, Ending
  <2>3. PlaceOf(r)' /\ DefaultOf(r)' /\ RolesKept'
    BY <2>1, <2>2 DEF PlaceOf, DefaultOf, RolesKept, SessionsInv, RolesInv, userVars
  <2>4. CASE session' = session /\ unrevoked' = unrevoked \cup {u}
    <3>1. TypeOK'
      BY <1>1, <2>1, <2>2, <2>4 DEF TypeOK, Handler, userVars
    <3> QED
      BY <2>1, <2>2, <2>3, <2>4, <3>1, QuietMove DEF userVars
  <2>5. CASE Revoke(SessionsOf(u, Home[u])) /\ unrevoked' = unrevoked \ {u}
    <3>1. /\ session' \in [SessionIds -> SessionRow]
          /\ \A x \in SessionIds :
                /\ session'[x].user = session[x].user /\ session'[x].issued = session[x].issued
                /\ session'[x].tenant = session[x].tenant
                /\ session'[x].born = session[x].born /\ session'[x].token = session[x].token
                /\ \/ session[x].revoked
                   \/ session[x].user = u /\ session[x].tenant = Home[u]
                   => session'[x].revoked
                /\ session[x].user # u => session'[x] = session[x]
                /\ session'[x].revoked \/ session'[x] = session[x]
      <4>1. SessionsOf(u, Home[u]) \in SUBSET SessionIds
        BY DEF SessionsOf
      <4>2. \A x \in SessionIds : x \in SessionsOf(u, Home[u]) <=>
                                     session[x].user = u /\ session[x].tenant = Home[u]
        BY DEF SessionsOf
      <4> QED
        BY <1>1, <2>5, <4>1, <4>2, Revoking
    <3>2. TypeOK'
      BY <1>1, <2>1, <2>2, <2>5, <3>1 DEF TypeOK, Handler, SessionRow, userVars
    <3>3. PlacesInv' /\ RolesInv'
      BY <2>1, <2>2, <2>3, Elsewhere, AdministratorsAreUsers DEF SessionsInv, RolesInv, userVars
    <3>4. \A q \in Requests : request'[q].session \in {request[q].session, None}
      BY <2>2
    <3>5. RowsInv'
      BY <1>1, <2>1, <3>1, <3>4, SessionsAssumption DEF RowsInv, userVars
    <3>6. RotationInv'
      BY <2>1, <3>1, <3>4, SessionsAssumption DEF SessionsInv, RotationInv, RotationSound
    <3>7. ResetEndsSessions'
      <4> SUFFICES ASSUME NEW x \in SessionIds, StaleAtHome(x)'
                   PROVE  Excused(session[x].user)'
        BY DEF ResetEndsSessions, StaleAtHome, Excused
      <4>1. session[x].user # u /\ session'[x] = session[x]
        BY <3>1 DEF StaleAtHome
      <4>2. StaleAtHome(x)
        BY <2>1, <4>1 DEF StaleAtHome, userVars
      <4>3. Excused(session[x].user)
        BY <4>2, StaleExcused DEF SessionsInv
      <4> QED
        BY <2>2, <2>5, <4>1, <4>3 DEF Excused, Resetting, User
    <3> QED
      BY <3>2, <3>3, <3>5, <3>6, <3>7 DEF SessionsInv
  <2> QED
    BY <2>1, <2>4, <2>5
<1> QED
    BY <1>2, <1>3

\* Rows, cached permissions and mails change while no handler moves.
LEMMA ElseStep ==
    ASSUME SessionsInv,
           \/ \E m \in Members : ExpirePermissions(m)
           \/ \E u \in Users : RequestReset(u)
           \/ \E s \in SessionIds : ExpireToken(s) \/ RevokeSession(s) \/ RevokeOthers(s)
    PROVE  SessionsInv'
<1>1. TypeOK
    BY DEF SessionsInv
<1>2. /\ UNCHANGED <<account, role, password, request, accepted, unrevoked, lost>>
      /\ \A q \in Requests : PlaceOf(q)' = PlaceOf(q) /\ DefaultOf(q)' = DefaultOf(q)
    BY DEF ExpirePermissions, RequestReset, ExpireToken, RevokeSession, RevokeOthers, userVars,
           PlaceOf, DefaultOf, Member
<1>3. PlacesInv' /\ \A q \in Requests : DefaultOf(q)'
    BY <1>2 DEF SessionsInv, PlacesInv, RolesInv
<1>4. ASSUME NEW m \in Members, ExpirePermissions(m) PROVE SessionsInv'
  <2>1. cache' = [cache EXCEPT ![m] = None] /\ UNCHANGED <<session, recovery>>
    BY <1>4 DEF ExpirePermissions
  <2>2. TypeOK'
    BY <1>1, <1>2, <2>1 DEF TypeOK, Grants
  <2>3. RolesInv'
    BY <1>1, <1>2, <1>3, <2>1, SessionsAssumption DEF SessionsInv, RolesInv, RolesKept, TypeOK
  <2>4. RowsInv' /\ RotationInv' /\ ResetEndsSessions'
    BY <1>2, <2>1, Withdrawing
  <2> QED
    BY <1>3, <2>2, <2>3, <2>4 DEF SessionsInv
<1>5. ASSUME NEW u \in Users, RequestReset(u) PROVE SessionsInv'
  <2>1. PICK k \in RecoveryIds : recovery' = [recovery EXCEPT ![k] = [recovery[k] EXCEPT !.user = u]]
    BY <1>5 DEF RequestReset
  <2>2. UNCHANGED <<cache, session>>
    BY <1>5 DEF RequestReset, userVars
  <2>3. recovery' \in [RecoveryIds -> [user : Users \cup {None}, used : BOOLEAN]]
    <3>1. recovery[k] \in [user : Users \cup {None}, used : BOOLEAN]
      BY <1>1 DEF TypeOK
    <3> QED
      BY <1>1, <2>1, <3>1 DEF TypeOK
  <2>4. TypeOK'
    BY <1>1, <1>2, <2>2, <2>3 DEF TypeOK
  <2>5. RolesInv'
    BY <1>2, <1>3, <2>2 DEF SessionsInv, RolesInv, RolesKept
  <2>6. RowsInv' /\ RotationInv' /\ ResetEndsSessions'
    BY <1>2, <2>2, Withdrawing
  <2> QED
    BY <1>3, <2>4, <2>5, <2>6 DEF SessionsInv
<1>6. ASSUME NEW s \in SessionIds, ExpireToken(s) \/ RevokeSession(s) \/ RevokeOthers(s)
      PROVE  SessionsInv'
  <2>1. UNCHANGED <<cache, recovery>>
    BY <1>6 DEF ExpireToken, RevokeSession, RevokeOthers, userVars
  <2>2. /\ session' \in [SessionIds -> SessionRow]
        /\ \A x \in SessionIds :
              /\ session'[x].user = session[x].user /\ session'[x].issued = session[x].issued
              /\ session'[x].tenant = session[x].tenant
              /\ session'[x].born = session[x].born
              /\ session[x].revoked => session'[x].revoked
              /\ session'[x].token \in {session[x].token, 0}
              /\ session[x].user = None => session'[x] = session[x]
    <3>1. CASE ExpireToken(s)
      <4> DEFINE x == [session[s] EXCEPT !.token = 0]
      <4>1. session[s].user # None
        <5>1. session[s] # NoSession
          BY <3>1 DEF ExpireToken, NoSession
        <5> QED
          BY <5>1 DEF SessionsInv, RowsInv
      <4>2. session[s] \in SessionRow
        BY <1>1 DEF TypeOK, SessionRow
      <4>3. x \in SessionRow /\ x.user = session[s].user /\ x.issued = session[s].issued
            /\ x.born = session[s].born /\ x.revoked = session[s].revoked /\ x.token = 0
            /\ x.tenant = session[s].tenant
        BY <4>2, SessionsAssumption DEF SessionRow
      <4>4. session' = [session EXCEPT ![s] = x]
        BY <3>1 DEF ExpireToken
      <4> HIDE DEF x
      <4> QED
        BY <1>1, <4>1, <4>3, <4>4, Writing
    <3>2. CASE RevokeSession(s)
      BY <1>1, <3>2, Revoking DEF RevokeSession
    <3>3. CASE RevokeOthers(s)
      BY <1>1, <3>3, Revoking DEF RevokeOthers, SessionsOf
    <3> QED
      BY <1>6, <3>1, <3>2, <3>3
  <2>3. TypeOK'
    BY <1>1, <1>2, <2>1, <2>2 DEF TypeOK, SessionRow
  <2>4. RolesInv'
    BY <1>2, <1>3, <2>1 DEF SessionsInv, RolesInv, RolesKept
  <2>5. RowsInv' /\ RotationInv' /\ ResetEndsSessions'
    BY <1>2, <2>2, Withdrawing
  <2> QED
    BY <1>3, <2>3, <2>4, <2>5 DEF SessionsInv
<1> QED
    BY <1>4, <1>5, <1>6

LEMMA SessionsStep == SessionsInv /\ [Next]_vars => SessionsInv'
<1> SUFFICES ASSUME SessionsInv, [Next]_vars PROVE SessionsInv'
    OBVIOUS
<1>1. CASE UNCHANGED vars
  <2>1. TypeOK' /\ PlacesInv' /\ RowsInv'
    BY <1>1 DEF vars, userVars, SessionsInv, TypeOK, PlacesInv, PlaceOf, Member, RowsInv
  <2>2. RotationInv' /\ RolesInv' /\ ResetEndsSessions'
    BY <1>1 DEF vars, userVars, SessionsInv, RotationInv, RotationSound, RolesInv, RolesKept,
                DefaultOf, Member, ResetEndsSessions, Resetting, User
  <2> QED
    BY <2>1, <2>2 DEF SessionsInv
<1>2. CASE Next
  <2>1. ASSUME NEW r \in Requests, Arrive(r) PROVE SessionsInv'
    BY <2>1, ArriveStep, ConsumeStep DEF Arrive
  <2>2. ASSUME NEW r \in Requests, Proceed(r) \/ GiveUp(r) PROVE SessionsInv'
    BY <2>2, QuietStep, AccountStep, CreateStep, StoreStep, ResetStep DEF Proceed
  <2> QED
    BY <1>2, <2>1, <2>2, ElseStep DEF Next
<1> QED
    BY <1>1, <1>2

LEMMA SessionsInvariance == Spec => []SessionsInv
<1>1. Init => SessionsInv
  <2> SUFFICES ASSUME Init PROVE SessionsInv
    OBVIOUS
  <2>1. TypeOK
    <3>1. 0 \in 0..MaxPasswords /\ 1 \in 0..MaxPasswords /\ 0 \in 0..MaxTokens
      BY SessionsAssumption
    <3>2. /\ \A s \in SessionIds : session[s] = NoSession
          /\ \A r \in Requests : request[r] = Idle
      BY DEF Init
    <3> QED
      BY <3>1, <3>2 DEF Init, TypeOK, NoSession, Idle, Accounts, Roles, Grants, Faults, Places
  <2>2. PlacesInv /\ RowsInv
    BY SessionsAssumption DEF Init, PlacesInv, PlaceOf, RowsInv, NoSession, Idle
  <2>3. RotationInv /\ ResetEndsSessions
    BY SessionsAssumption DEF Init, RotationInv, RotationSound, ResetEndsSessions, NoSession, Idle
  <2>4. RolesInv
    BY SessionsAssumption, AdministratorsAreUsers DEF Init, RolesInv, RolesKept, DefaultOf, Idle
  <2> QED
    BY <2>1, <2>2, <2>3, <2>4 DEF SessionsInv
<1> QED
    BY <1>1, SessionsStep, PTL DEF Spec

\* The state of the sessions is well-typed: for any number of users, sessions,
\* requests and tokens.
THEOREM SessionsTyped == Spec => []TypeOK
<1>1. SessionsInv => TypeOK
    BY DEF SessionsInv
<1> QED
    BY <1>1, SessionsInvariance, PTL

\* A refresh token is accepted once, whoever presents it and when.
THEOREM TokensAcceptedOnce == Spec => []RotationSound
<1>1. SessionsInv => RotationSound
    BY DEF SessionsInv, RotationInv
<1> QED
    BY <1>1, SessionsInvariance, PTL

\* A reset of the password ends the sessions that are older, in the tenant of
\* the user's row, unless this user's own revocation was lost.
THEOREM ResetEndsThem == Spec => []ResetEndsSessions
<1>1. SessionsInv => ResetEndsSessions
    BY DEF SessionsInv
<1> QED
    BY <1>1, SessionsInvariance, PTL

\* An administrator stays one, and is served the permissions of one, as long
\* as no read of a role fails.
THEOREM AdminsKeepRoles == Spec => []RolesKept
<1>1. SessionsInv => RolesKept
    BY DEF SessionsInv, RolesInv
<1> QED
    BY <1>1, SessionsInvariance, PTL

-----------------------------------------------------------------------------
(* SigningKeys.                                                            *)

\* A request with nothing to explain carries the key that every replica has,
\* was given it by the replica it asked, and finds it in the map it has filled.
Plain(r) ==
    /\ \A a \in Replicas : signing[a] = bearer[r].key
    /\ bearer[r].at \in {"store", "fill"} => bearer[r].answer = {bearer[r].key}
    /\ bearer[r].at = "read" => jwks = {bearer[r].key}
    /\ bearer[r].at # "refused"

\* The lock is held by the one request that fills the map, and no request that
\* has filled it before is unaware of that.
LockInv ==
    /\ \A r \in Bearers : r \in lock <=> bearer[r].at = "fill"
    /\ \A q, r \in lock : q = r
    /\ lock # {} => \A r \in Bearers : bearer[r].at = "read" => bearer[r].why # {}

KeyInv ==
    /\ SigningTypeOK
    /\ LockInv
    /\ \A r \in Bearers : bearer[r].at # "idle" /\ bearer[r].why = {} => Plain(r)

\* A request that is under way carries a key.
LEMMA Carrying ==
    ASSUME SigningTypeOK, NEW r \in Bearers, bearer[r].at # "idle"
    PROVE  bearer[r] \in [at : Stages \ {"idle"}, key : Keys, answer : SUBSET Keys,
                          why : SUBSET Reasons]
    BY DEF SigningTypeOK, NoBearer

LEMMA KeyTypeStep ==
    SigningTypeOK /\ [SigningNext]_signingVars => SigningTypeOK'
<1> SUFFICES ASSUME SigningTypeOK, [SigningNext]_signingVars PROVE SigningTypeOK'
    OBVIOUS
<1> USE DEF SigningTypeOK, NoBearer, Stages, Reasons,
            authVars, cacheVars, BearerAt, GoOn, Refuse,
            Named, Verify, Present, JWKS
<1>1. ASSUME NEW k \in Keys, Rotate(k) PROVE SigningTypeOK'
    BY <1>1 DEF Rotate
<1>2. ASSUME NEW a \in Replicas, LoadCryptoConfig(a) PROVE SigningTypeOK'
    BY <1>2 DEF LoadCryptoConfig
<1>3. ASSUME NEW a \in Replicas, IssueAccessToken(a) PROVE SigningTypeOK'
    BY <1>3 DEF IssueAccessToken
<1>4. ASSUME NEW r \in Bearers, NEW k \in tokens, Connect(r, k) PROVE SigningTypeOK'
    BY <1>4 DEF Connect
<1>5. ASSUME NEW r \in Bearers, NEW k \in tokens, NEW a \in Replicas,
             Authenticate(r, a, k)
      PROVE  SigningTypeOK'
    BY <1>5 DEF Authenticate
<1>6. ASSUME NEW r \in Bearers, GetKey(r) PROVE SigningTypeOK'
    BY <1>6 DEF GetKey
<1>7. ASSUME NEW r \in Bearers, Refresh(r) PROVE SigningTypeOK'
  <2>1. CASE FetchKeys(r)
    BY <2>1 DEF FetchKeys
  <2>2. CASE EmptyKeys(r)
    BY <2>2 DEF EmptyKeys
  <2>3. CASE FillKeys(r)
    BY <2>3 DEF FillKeys
  <2>4. CASE ReadKeys(r)
    BY <2>4 DEF ReadKeys
  <2> QED
    BY <1>7, <2>1, <2>2, <2>3, <2>4 DEF Refresh
<1>8. ASSUME NEW r \in Bearers, Answer(r) PROVE SigningTypeOK'
    BY <1>8 DEF Answer
<1>9. CASE Restart \/ Expire
    BY <1>9 DEF Restart, Expire
<1>10. CASE UNCHANGED signingVars
    BY <1>10 DEF signingVars
<1> QED
    BY <1>1, <1>2, <1>3, <1>4, <1>5, <1>6, <1>7, <1>8, <1>9, <1>10 DEF SigningNext

\* Handlers of realtime share the map and its lock.
LEMMA KeyCacheStep ==
    ASSUME KeyInv, NEW r \in Bearers, GetKey(r) \/ Refresh(r)
    PROVE  KeyInv'
<1>1. SigningTypeOK'
    BY KeyTypeStep DEF KeyInv, SigningNext
<1> USE DEF KeyInv, LockInv, Plain, SigningTypeOK, NoBearer, Stages,
            authVars, cacheVars, BearerAt, GoOn, Refuse,
            Named, Verify, JWKS
<1>2. CASE GetKey(r)
  <2>1. /\ bearer[r].at = "lookup" /\ UNCHANGED <<signing, lock, jwks>>
        /\ \/ bearer' = [bearer EXCEPT ![r].at = "accepted"]
           \/ bearer' = [bearer EXCEPT ![r].at = "fetch"]
           \/ bearer' = [bearer EXCEPT ![r].at = "refused", ![r].why = @ \cup {"reused"}]
    BY <1>2 DEF GetKey
  <2>2. /\ \A q \in Bearers \ {r} : bearer'[q] = bearer[q]
        /\ bearer'[r].key = bearer[r].key /\ bearer'[r].answer = bearer[r].answer
        /\ \/ bearer'[r].at \in {"accepted", "fetch"} /\ bearer'[r].why = bearer[r].why
           \/ bearer'[r].at = "refused" /\ bearer'[r].why # {}
    <3> HIDE DEF KeyInv, LockInv, Plain, SigningTypeOK, NoBearer, Stages
    <3>1. bearer[r] \in [at : Stages \ {"idle"}, key : Keys, answer : SUBSET Keys,
                         why : SUBSET Reasons]
      BY <2>1, Carrying DEF KeyInv
    <3>2. DOMAIN bearer = Bearers
      BY DEF KeyInv, SigningTypeOK
    <3>3. bearer' = [bearer EXCEPT ![r] = bearer'[r]]
      BY <2>1, <3>2
    <3>4. \/ bearer'[r] = [bearer[r] EXCEPT !.at = "accepted"]
          \/ bearer'[r] = [bearer[r] EXCEPT !.at = "fetch"]
          \/ bearer'[r] = [bearer[r] EXCEPT !.at = "refused", !.why = @ \cup {"reused"}]
      BY <2>1, <3>2
    <3> QED
      BY <3>1, <3>2, <3>3, <3>4
  <2> QED
    BY <1>1, <2>1, <2>2, SMTT(30)
<1>3. CASE FetchKeys(r)
    BY <1>1, <1>3, SMTT(30) DEF FetchKeys
<1>4. CASE EmptyKeys(r)
  <2>1. /\ lock = {} /\ lock' = {r}
        /\ bearer[r].at = "store" /\ bearer'[r] = [bearer[r] EXCEPT !.at = "fill"]
        /\ \A q \in Bearers \ {r} : bearer[q].at # "read" => bearer'[q] = bearer[q]
        /\ \A q \in Bearers \ {r} : bearer[q].at = "read" =>
              bearer'[q] = [bearer[q] EXCEPT !.why = @ \cup {"overlap"}]
        /\ UNCHANGED signing
    BY <1>4 DEF EmptyKeys
  <2>2. \A q \in Bearers : bearer[q].at = "read" => bearer'[q].at = "read" /\ bearer'[q].why # {}
    <3> HIDE DEF KeyInv, LockInv, Plain, SigningTypeOK, NoBearer, Stages
    <3> SUFFICES ASSUME NEW q \in Bearers, bearer[q].at = "read"
                 PROVE  bearer'[q].at = "read" /\ bearer'[q].why # {}
      OBVIOUS
    <3>1. bearer[q] \in [at : Stages \ {"idle"}, key : Keys, answer : SUBSET Keys,
                         why : SUBSET Reasons]
      BY Carrying DEF KeyInv
    <3>2. bearer'[q] = [bearer[q] EXCEPT !.why = @ \cup {"overlap"}]
      BY <2>1
    <3> QED
      BY <3>1, <3>2
  <2>3. bearer'[r].at = "fill" /\ bearer'[r].answer = bearer[r].answer
        /\ bearer'[r].key = bearer[r].key /\ bearer'[r].why = bearer[r].why
    BY <2>1
  <2>4. LockInv'
    BY <1>1, <2>1, <2>2, <2>3
  <2>5. \A q \in Bearers : bearer'[q].at # "idle" /\ bearer'[q].why = {} => Plain(q)'
    BY <1>1, <2>1, <2>2, <2>3
  <2> QED
    BY <1>1, <2>4, <2>5
<1>5. CASE FillKeys(r)
    BY <1>1, <1>5 DEF FillKeys
<1>6. CASE ReadKeys(r)
  <2>1. CASE bearer[r].key \in Named(r)
    BY <1>1, <1>6, <2>1 DEF ReadKeys
  <2>2. CASE bearer[r].key \notin Named(r)
    <3>1. bearer[r].why # {}
      BY <1>1, <1>6, <2>2 DEF ReadKeys
    <3> QED
      BY <1>1, <1>6, <2>2, <3>1 DEF ReadKeys
  <2> QED
    BY <2>1, <2>2
<1> QED
    BY <1>2, <1>3, <1>4, <1>5, <1>6 DEF Refresh

\* Everything else that happens to keys, tokens and requests.
LEMMA KeyStep == KeyInv /\ [SigningNext]_signingVars => KeyInv'
<1> SUFFICES ASSUME KeyInv, [SigningNext]_signingVars PROVE KeyInv'
    OBVIOUS
<1>1. SigningTypeOK'
    BY KeyTypeStep DEF KeyInv
<1> USE DEF KeyInv, LockInv, Plain, SigningTypeOK, NoBearer, Stages,
            authVars, cacheVars, BearerAt, Present
<1>2. ASSUME NEW k \in Keys, Rotate(k) PROVE KeyInv'
    BY <1>1, <1>2 DEF Rotate
<1>3. ASSUME NEW a \in Replicas, LoadCryptoConfig(a) PROVE KeyInv'
  <2>1. /\ signing' = [signing EXCEPT ![a] = deployed]
        /\ \A r \in Bearers : bearer[r].at = "idle" => bearer'[r] = bearer[r]
        /\ \A r \in Bearers : bearer[r].at # "idle" =>
              bearer'[r] = IF bearer[r].key # deployed
                           THEN [bearer[r] EXCEPT !.why = @ \cup {"rollout"}] ELSE bearer[r]
        /\ UNCHANGED <<jwks, lock>>
    BY <1>3 DEF LoadCryptoConfig
  <2>2. \A r \in Bearers :
           /\ bearer'[r].at = bearer[r].at
           /\ bearer[r].at # "idle" /\ bearer'[r].why = {} =>
                 bearer'[r] = bearer[r] /\ bearer[r].key = deployed
           /\ bearer[r].why # {} => bearer'[r].why # {}
    <3> TAKE r \in Bearers
    <3>1. CASE bearer[r].at = "idle"
      BY <2>1, <3>1
    <3>2. CASE bearer[r].at # "idle"
      <4> HIDE DEF KeyInv, LockInv, Plain, SigningTypeOK, NoBearer, Stages
      <4>1. bearer[r] \in [at : Stages \ {"idle"}, key : Keys, answer : SUBSET Keys,
                           why : SUBSET Reasons]
        BY <3>2, Carrying DEF KeyInv
      <4>2. CASE bearer[r].key = deployed
        BY <2>1, <3>2, <4>2
      <4>3. CASE bearer[r].key # deployed
        BY <2>1, <3>2, <4>1, <4>3
      <4> QED
        BY <4>2, <4>3
    <3> QED
      BY <3>1, <3>2
  <2> QED
    BY <1>1, <2>1, <2>2
<1>4. ASSUME NEW a \in Replicas, IssueAccessToken(a) PROVE KeyInv'
    BY <1>1, <1>4 DEF IssueAccessToken
<1>5. ASSUME NEW r \in Bearers, NEW k \in tokens, Connect(r, k) PROVE KeyInv'
    BY <1>1, <1>5, SMTT(30) DEF Connect
<1>6. ASSUME NEW r \in Bearers, NEW k \in tokens, NEW a \in Replicas,
             Authenticate(r, a, k)
      PROVE  KeyInv'
    BY <1>1, <1>6, SMTT(30) DEF Authenticate, Validate
<1>7. ASSUME NEW r \in Bearers, Answer(r) PROVE KeyInv'
    BY <1>1, <1>7 DEF Answer
<1>8. CASE Restart \/ Expire
    BY <1>1, <1>8 DEF Restart, Expire
<1>9. CASE UNCHANGED signingVars
    BY <1>1, <1>9 DEF signingVars
<1> QED
    BY KeyCacheStep, <1>2, <1>3, <1>4, <1>5, <1>6, <1>7, <1>8, <1>9 DEF SigningNext

LEMMA KeyInvariance == SigningSpec => []KeyInv
<1>1. ASSUME SigningInit PROVE KeyInv
  <2>1. \A r \in Bearers : bearer[r] = NoBearer /\ bearer[r].at = "idle"
    BY <1>1 DEF SigningInit, NoBearer
  <2>2. SigningTypeOK
    BY <1>1 DEF SigningInit, SigningTypeOK
  <2> QED
    BY <1>1, <2>1, <2>2 DEF SigningInit, KeyInv, LockInv
<1> QED
    BY <1>1, KeyStep, PTL DEF SigningSpec

\* Keys, tokens and requests are well-typed, whoever rotates what and when.
THEOREM KeysTyped == SigningSpec => []SigningTypeOK
<1>1. KeyInv => SigningTypeOK
    BY DEF KeyInv
<1> QED
    BY <1>1, KeyInvariance, PTL

\* A token with the key that every replica of auth has is refused only because
\* of a rollout, a reused name, a call that failed, or a second request that
\* emptied the map: for any number of keys, names, replicas and requests.
THEOREM RefusalsAreExplained == SigningSpec => []RefusalsExplained
<1>1. KeyInv => RefusalsExplained
    BY DEF KeyInv, Plain, SigningTypeOK, NoBearer, RefusalsExplained, BearerAt
<1> QED
    BY <1>1, KeyInvariance, PTL

-----------------------------------------------------------------------------
(* Credentials.                                                            *)

\* Codes: what was accepted is marked, and a request spends a code that is there.
CodesInv ==
    /\ AcceptedIsSpent
    /\ \A r \in Handlers : handler[r].at = "spend" => handler[r].attempt \in DOMAIN attempts

\* Keys: one is as it was made until its user withdraws it, and none is
\* withdrawn before it is made.
KeysInv ==
    \A k \in KeyIds :
        /\ keys[k].owner = IF maker[k] = Nobody \/ <<maker[k], k>> \in withdrawn THEN Nobody
                           ELSE maker[k]
        /\ \A c \in Callers : <<c, k>> \in withdrawn => maker[k] # Nobody

\* Agents: a committed one is what was asked for, and a transaction inserts
\* permissions that were asked for.
AgentsInv ==
    /\ \A a \in AgentIds :
          agents[a].owner # Nobody =>
              /\ wanted[a].owner = agents[a].owner
              /\ wanted[a].permissions = agents[a].permissions
    /\ \A r \in Handlers :
          handler[r].at = "grant" =>
              /\ handler[r].agent \in AgentIds
              /\ wanted[handler[r].agent].owner # Nobody
              /\ handler[r].granted \subseteq wanted[handler[r].agent].permissions

CredInv == CredTypeOK /\ CodesInv /\ KeysInv /\ AgentsInv

\* To write one field of one row leaves the others alone.
LEMMA RowWritten ==
    ASSUME NEW i \in DOMAIN attempts, attempts \in Seq(Attempt),
           \/ attempts' = [attempts EXCEPT ![i].verified = TRUE]
           \/ attempts' = [attempts EXCEPT ![i].expired = TRUE]
    PROVE  /\ attempts' \in Seq(Attempt)
           /\ DOMAIN attempts' = DOMAIN attempts
           /\ \A j \in DOMAIN attempts : attempts[j].verified => attempts'[j].verified
           /\ attempts' = [attempts EXCEPT ![i].verified = TRUE] => attempts'[i].verified
<1>1. /\ attempts[i] \in Attempt
      /\ DOMAIN attempts = 1 .. Len(attempts)
    OBVIOUS
<1>2. PICK e \in Attempt :
        /\ attempts' = [attempts EXCEPT ![i] = e]
        /\ attempts[i].verified => e.verified
        /\ attempts' = [attempts EXCEPT ![i].verified = TRUE] => e.verified
  <2> DEFINE v == [attempts[i] EXCEPT !.verified = TRUE]
             x == [attempts[i] EXCEPT !.expired = TRUE]
  <2>1. v \in Attempt /\ x \in Attempt /\ v.verified /\ x.verified = attempts[i].verified
    BY <1>1 DEF Attempt
  <2>2. CASE attempts' = [attempts EXCEPT ![i].verified = TRUE]
    <3>1. attempts' = [attempts EXCEPT ![i] = v]
      BY <2>2
    <3> QED
      BY <2>1, <3>1
  <2>3. CASE attempts' # [attempts EXCEPT ![i].verified = TRUE]
    <3>1. attempts' = [attempts EXCEPT ![i] = x]
      BY <2>3
    <3> QED
      BY <2>1, <2>3, <3>1
  <2> QED
    BY <2>2, <2>3
<1>3. /\ attempts' \in Seq(Attempt)
      /\ Len(attempts') = Len(attempts)
      /\ \A j \in 1 .. Len(attempts) : attempts'[j] = IF j = i THEN e ELSE attempts[j]
    BY <1>1, <1>2, ExceptSeq
<1> QED
    BY <1>1, <1>2, <1>3

\* TOTP secrets touch nothing else.
LEMMA SecretsStep ==
    ASSUME CredInv, NEW c \in Callers, ManageTOTP(c)
    PROVE  CredInv'
<1>1. /\ UNCHANGED <<attempts, keys, agents, handler, verified, maker, withdrawn, wanted>>
      /\ \/ UNCHANGED totp
         \/ \E row \in {"none", "disabled", "enabled"} : totp' = [totp EXCEPT ![c] = row]
    BY DEF ManageTOTP, GenerateTOTP, VerifyTOTP, DisableMFA,
           SetSecret, keyVars
<1>2. CredTypeOK'
    BY <1>1 DEF CredInv, CredTypeOK
<1>3. CodesInv' /\ KeysInv' /\ AgentsInv'
    BY <1>1 DEF CredInv, CodesInv, AcceptedIsSpent, KeysInv, AgentsInv
<1> QED
    BY <1>2, <1>3 DEF CredInv

\* A new code does not touch old ones.
LEMMA SendStep ==
    ASSUME CredInv, NEW c \in Callers, NEW phone \in Phones, NEW code \in Codes,
           SendSMS(c, phone, code)
    PROVE  CredInv'
<1>1. UNCHANGED <<totp, keys, agents, handler, verified, maker, withdrawn, wanted>>
    BY DEF SendSMS, keyVars
<1>2. PICK e \in Attempt : attempts' = Append(attempts, e)
    BY DEF SendSMS, Attempt
<1>3. /\ attempts' \in Seq(Attempt)
      /\ DOMAIN attempts \subseteq DOMAIN attempts'
      /\ \A i \in DOMAIN attempts : attempts'[i] = attempts[i]
    BY <1>2 DEF CredInv, CredTypeOK
<1>4. CredTypeOK'
    BY <1>1, <1>3 DEF CredInv, CredTypeOK
<1>5. CodesInv'
    BY <1>1, <1>3 DEF CredInv, CredTypeOK, CodesInv, AcceptedIsSpent
<1>6. KeysInv' /\ AgentsInv'
    BY <1>1 DEF CredInv, KeysInv, AgentsInv
<1> QED
    BY <1>4, <1>5, <1>6 DEF CredInv

\* A code once marked stays marked.
LEMMA CodesStep ==
    ASSUME CredInv,
           \/ \E r \in Handlers, c \in Callers, phone \in Phones, code \in Codes :
                 VerifySMS(r, c, phone, code)
           \/ \E r \in Handlers : SpendAttempt(r)
           \/ \E i \in DOMAIN attempts : ExpireAttempt(i)
    PROVE  CredInv'
<1>1. UNCHANGED <<totp, keys, agents, maker, withdrawn, wanted>>
    BY DEF VerifySMS, SpendAttempt, ExpireAttempt, keyVars
<1>2. attempts \in Seq(Attempt) /\ verified \subseteq DOMAIN attempts /\ DOMAIN attempts \subseteq Nat
    BY DEF CredInv, CredTypeOK
<1>3. ASSUME NEW r \in Handlers, NEW c \in Callers, NEW phone \in Phones, NEW code \in Codes,
             VerifySMS(r, c, phone, code)
      PROVE  CredInv'
  <2>1. PICK i \in DOMAIN attempts :
          handler' = [handler EXCEPT ![r] = [NoHandler EXCEPT !.at = "spend", !.attempt = i]]
    BY <1>3 DEF VerifySMS, Matching
  <2>2. UNCHANGED <<attempts, verified>>
    BY <1>3 DEF VerifySMS
  <2>3. CredTypeOK'
    BY <1>1, <1>2, <2>1, <2>2 DEF CredInv, CredTypeOK, NoHandler
  <2>4. CodesInv' /\ AgentsInv'
    BY <1>1, <2>1, <2>2
       DEF CredInv, CredTypeOK, CodesInv, AcceptedIsSpent, AgentsInv, NoHandler
  <2>5. KeysInv'
    BY <1>1 DEF CredInv, KeysInv
  <2> QED
    BY <2>3, <2>4, <2>5 DEF CredInv
<1>4. ASSUME NEW r \in Handlers, SpendAttempt(r) PROVE CredInv'
  <2> DEFINE i == handler[r].attempt
  <2>1. i \in DOMAIN attempts /\ handler' = [handler EXCEPT ![r] = NoHandler]
    BY <1>4 DEF SpendAttempt, CredInv, CodesInv, HandlerAt, Return
  <2>2. \/ attempts' = [attempts EXCEPT ![i].verified = TRUE] /\ verified' = verified \cup {i}
        \/ attempts' = [attempts EXCEPT ![i].verified = TRUE] /\ verified' = verified
        \/ attempts' = attempts /\ verified' = verified
    BY <1>4 DEF SpendAttempt
  <2>3. /\ attempts' \in Seq(Attempt)
        /\ DOMAIN attempts' = DOMAIN attempts
        /\ \A j \in DOMAIN attempts : attempts[j].verified => attempts'[j].verified
        /\ verified' # verified => attempts'[i].verified
        /\ verified' \subseteq verified \cup {i}
    BY <1>2, <2>1, <2>2, RowWritten
  <2>4. CredTypeOK'
    BY <1>1, <2>1, <2>3 DEF CredInv, CredTypeOK, NoHandler
  <2>5. CodesInv' /\ AgentsInv'
    BY <1>1, <2>1, <2>3
       DEF CredInv, CredTypeOK, CodesInv, AcceptedIsSpent, AgentsInv, NoHandler
  <2>6. KeysInv'
    BY <1>1 DEF CredInv, KeysInv
  <2> QED
    BY <2>4, <2>5, <2>6 DEF CredInv
<1>5. ASSUME NEW i \in DOMAIN attempts, ExpireAttempt(i) PROVE CredInv'
  <2>1. attempts' = [attempts EXCEPT ![i].expired = TRUE] /\ UNCHANGED <<handler, verified>>
    BY <1>5 DEF ExpireAttempt
  <2>2. /\ attempts' \in Seq(Attempt)
        /\ DOMAIN attempts' = DOMAIN attempts
        /\ \A j \in DOMAIN attempts : attempts[j].verified => attempts'[j].verified
    BY <1>2, <2>1, RowWritten
  <2>3. CredTypeOK'
    BY <1>1, <2>1, <2>2 DEF CredInv, CredTypeOK
  <2>4. CodesInv'
    BY <2>1, <2>2 DEF CredInv, CredTypeOK, CodesInv, AcceptedIsSpent
  <2>5. KeysInv' /\ AgentsInv'
    BY <1>1, <2>1 DEF CredInv, KeysInv, AgentsInv
  <2> QED
    BY <2>3, <2>4, <2>5 DEF CredInv
<1> QED
    BY <1>3, <1>4, <1>5

\* Keys are made once, and taken away only from the user who asks.
LEMMA KeysStep ==
    ASSUME CredInv, NEW k \in KeyIds,
           (\E c \in Callers : ManageKeys(c, k)) \/ ExpireKey(k)
    PROVE  CredInv'
<1> DEFINE Row == [owner : Callers \cup {Nobody}, expires : BOOLEAN, outdated : BOOLEAN]
<1>1. UNCHANGED <<totp, attempts, agents, handler, verified, wanted>>
    BY DEF ManageKeys, CreateAPIKey, RevokeAPIKey, ExpireKey
<1>2. CodesInv' /\ AgentsInv'
    BY <1>1 DEF CredInv, CodesInv, AcceptedIsSpent, AgentsInv
<1>3. /\ keys \in [KeyIds -> Row] /\ maker \in [KeyIds -> Callers \cup {Nobody}]
      /\ withdrawn \subseteq Callers \X KeyIds /\ KeysInv
    BY DEF CredInv, CredTypeOK
<1>4. SUFFICES /\ keys' \in [KeyIds -> Row] /\ maker' \in [KeyIds -> Callers \cup {Nobody}]
               /\ withdrawn' \subseteq Callers \X KeyIds /\ KeysInv'
    BY <1>1, <1>2 DEF CredInv, CredTypeOK
<1>5. ASSUME NEW c \in Callers, NEW expires \in BOOLEAN, CreateAPIKey(c, k, expires)
      PROVE  /\ keys' \in [KeyIds -> Row] /\ maker' \in [KeyIds -> Callers \cup {Nobody}]
             /\ withdrawn' \subseteq Callers \X KeyIds /\ KeysInv'
    BY <1>3, <1>5 DEF CreateAPIKey, KeysInv
<1>6. ASSUME NEW c \in Callers, RevokeAPIKey(c, k)
      PROVE  /\ keys' \in [KeyIds -> Row] /\ maker' \in [KeyIds -> Callers \cup {Nobody}]
             /\ withdrawn' \subseteq Callers \X KeyIds /\ KeysInv'
  <2>1. maker' = maker /\ withdrawn' = withdrawn \cup {<<c, k>>} /\ maker[k] # Nobody
    BY <1>6 DEF RevokeAPIKey
  <2>2. CASE keys[k].owner = c
    BY <1>3, <1>6, <2>1, <2>2 DEF RevokeAPIKey, DeletedBy, NoKey, KeysInv
  <2>3. CASE keys[k].owner # c
    BY <1>3, <1>6, <2>1, <2>3 DEF RevokeAPIKey, DeletedBy, NoKey, KeysInv
  <2> QED
    BY <2>2, <2>3
<1>7. CASE ExpireKey(k)
  <2>1. /\ keys' = [keys EXCEPT ![k].outdated = TRUE] /\ UNCHANGED <<maker, withdrawn>>
    BY <1>7 DEF ExpireKey
  <2>2. keys' \in [KeyIds -> Row] /\ \A l \in KeyIds : keys'[l].owner = keys[l].owner
    <3> HIDE <1>7
    <3>1. keys' = [keys EXCEPT ![k] = [keys[k] EXCEPT !.outdated = TRUE]]
      BY <2>1
    <3>2. keys[k] \in Row
      BY <1>3
    <3> QED
      BY <1>3, <3>1, <3>2
  <2> QED
    BY <1>3, <2>1, <2>2 DEF KeysInv
<1> QED
    BY <1>5, <1>6, <1>7 DEF ManageKeys

\* A transaction touches only what it was begun for, until it commits.
LEMMA AgentsStep ==
    ASSUME CredInv,
           \/ \E a \in AgentIds :
                 \/ \E c \in Callers : SuspendAgent(c, a)
                 \/ \E r \in Handlers, c \in Callers, P \in SUBSET Permissions :
                       CreateAgent(r, c, a, P)
           \/ \E r \in Handlers :
                 GrantPermission(r) \/ RollBack(r) \/ CommitAgent(r)
    PROVE  CredInv'
<1> DEFINE Row == [owner : Callers \cup {Nobody}, permissions : SUBSET Permissions,
                   suspended : BOOLEAN]
           Deed == [at : {"idle", "spend", "grant"}, attempt : Nat,
                    agent : AgentIds \cup {Nobody}, granted : SUBSET Permissions]
           Wish == [owner : Callers \cup {Nobody}, permissions : SUBSET Permissions]
           Typed == agents \in [AgentIds -> Row] /\ handler \in [Handlers -> Deed]
                    /\ wanted \in [AgentIds -> Wish]
           Spending == \A r \in Handlers :
                          handler[r].at = "spend" => handler[r].attempt \in DOMAIN attempts
<1>1. UNCHANGED <<totp, attempts, keys, verified, maker, withdrawn>>
    BY DEF SuspendAgent, CreateAgent, GrantPermission, RollBack,
           CommitAgent, keyVars
<1>2. Typed /\ Spending /\ AgentsInv
    BY DEF CredInv, CredTypeOK, CodesInv
<1>3. SUFFICES Typed' /\ Spending' /\ AgentsInv'
  <2>1. KeysInv' /\ AcceptedIsSpent'
    BY <1>1 DEF CredInv, CodesInv, AcceptedIsSpent, KeysInv
  <2> QED
    BY <1>1, <2>1 DEF CredInv, CredTypeOK, CodesInv
<1> USE DEF HandlerAt, Return, NoHandler
<1>4. ASSUME NEW a \in AgentIds, NEW c \in Callers, SuspendAgent(c, a)
      PROVE  Typed' /\ Spending' /\ AgentsInv'
  <2>1. agents' = [agents EXCEPT ![a] = [agents[a] EXCEPT !.suspended = TRUE]]
        /\ UNCHANGED <<handler, wanted>>
    BY <1>4 DEF SuspendAgent, Suspend
  <2>2. agents' \in [AgentIds -> Row]
        /\ \A b \in AgentIds : agents'[b].owner = agents[b].owner
                               /\ agents'[b].permissions = agents[b].permissions
    <3>1. agents[a] \in Row
      BY <1>2
    <3> QED
      BY <1>2, <2>1, <3>1
  <2> QED
    BY <1>1, <1>2, <2>1, <2>2 DEF AgentsInv
<1>5. ASSUME NEW a \in AgentIds, NEW c \in Callers, NEW r \in Handlers,
             NEW P \in SUBSET Permissions, CreateAgent(r, c, a, P)
      PROVE  Typed' /\ Spending' /\ AgentsInv'
  <2>1. /\ wanted[a].owner = Nobody
        /\ wanted' = [wanted EXCEPT ![a] = [owner |-> c, permissions |-> P]]
        /\ handler' = [handler EXCEPT ![r] = [NoHandler EXCEPT !.at = "grant", !.agent = a]]
        /\ agents' = agents
    BY <1>5 DEF CreateAgent, Begin
  <2>2. Typed' /\ Spending'
    BY <1>1, <1>2, <2>1
  <2>3. AgentsInv'
    BY CredentialsAssumption, <1>2, <2>1 DEF AgentsInv
  <2> QED
    BY <2>2, <2>3
<1>6. ASSUME NEW r \in Handlers, GrantPermission(r)
      PROVE  Typed' /\ Spending' /\ AgentsInv'
  <2>1. PICK p \in wanted[handler[r].agent].permissions \ handler[r].granted :
          handler' = [handler EXCEPT ![r] = [handler[r] EXCEPT !.granted = @ \cup {p}]]
    BY <1>6 DEF GrantPermission, Remaining
  <2>2. handler[r].at = "grant" /\ handler[r].agent \in AgentIds /\ UNCHANGED <<agents, wanted>>
    BY <1>2, <1>6 DEF GrantPermission, AgentsInv
  <2>3. p \in Permissions
    BY <1>2, <2>1, <2>2
  <2>4. /\ handler' \in [Handlers -> Deed]
        /\ handler'[r].at = "grant" /\ handler'[r].agent = handler[r].agent
        /\ handler'[r].granted = handler[r].granted \cup {p}
        /\ \A q \in Handlers \ {r} : handler'[q] = handler[q]
    <3>1. handler[r] \in Deed
      BY <1>2
    <3> QED
      BY <1>2, <2>1, <2>2, <2>3, <3>1
  <2> QED
    BY <1>1, <1>2, <2>1, <2>2, <2>4 DEF AgentsInv
<1>7. ASSUME NEW r \in Handlers, RollBack(r)
      PROVE  Typed' /\ Spending' /\ AgentsInv'
    BY <1>1, <1>2, <1>7 DEF RollBack, AgentsInv
<1>8. ASSUME NEW r \in Handlers, CommitAgent(r)
      PROVE  Typed' /\ Spending' /\ AgentsInv'
  <2> DEFINE a == handler[r].agent
  <2>1. /\ a \in AgentIds
        /\ agents' = [agents EXCEPT ![a] = [owner |-> wanted[a].owner,
                                            permissions |-> handler[r].granted, suspended |-> FALSE]]
        /\ handler' = [handler EXCEPT ![r] = NoHandler]
        /\ wanted' = wanted
    BY <1>2, <1>8 DEF CommitAgent, AgentsInv
  <2>2. handler[r].granted = wanted[a].permissions /\ wanted[a] \in Wish
    BY <1>2, <1>8, ZenonT(30) DEF CommitAgent, Complete, Remaining, AgentsInv
  <2>3. Typed' /\ Spending'
    BY <1>1, <1>2, <2>1, <2>2
  <2>4. AgentsInv'
    BY <1>2, <2>1, <2>2 DEF AgentsInv
  <2> QED
    BY <2>3, <2>4
<1> QED
    BY <1>4, <1>5, <1>6, <1>7, <1>8

LEMMA CredStep ==
    CredInv /\ [CredNext]_credVars => CredInv'
<1> SUFFICES ASSUME CredInv, [CredNext]_credVars PROVE CredInv'
    OBVIOUS
<1>1. CASE UNCHANGED credVars
    BY <1>1 DEF credVars, CredInv, CredTypeOK, CodesInv, AcceptedIsSpent, KeysInv, AgentsInv
<1>2. CASE CredNext
    BY <1>2, SecretsStep, SendStep, CodesStep, KeysStep, AgentsStep DEF CredNext
<1> QED
    BY <1>1, <1>2

LEMMA CredInvariance == CredSpec => []CredInv
<1>1. CredInit => CredInv
  <2> SUFFICES ASSUME CredInit PROVE CredInv
    OBVIOUS
  <2>1. CredTypeOK
    BY DEF CredInit, CredTypeOK, NoKey, NoAgent, NoHandler
  <2>2. CodesInv /\ KeysInv /\ AgentsInv
    BY DEF CredInit, NoKey, NoAgent, NoHandler, CodesInv, AcceptedIsSpent,
           KeysInv, AgentsInv
  <2> QED
    BY <2>1, <2>2 DEF CredInv
<1> QED
    BY <1>1, CredStep, PTL DEF CredSpec

\* Secrets, codes, keys and agents are well-typed.
THEOREM CredentialsTyped == CredSpec => []CredTypeOK
<1>1. CredInv => CredTypeOK
    BY DEF CredInv
<1> QED
    BY <1>1, CredInvariance, PTL

\* A code answered "verified" is spent: for any number of users, codes and
\* requests that run at once.
THEOREM CodesSpent == CredSpec => []AcceptedIsSpent
<1>1. CredInv => AcceptedIsSpent
    BY DEF CredInv, CodesInv
<1> QED
    BY <1>1, CredInvariance, PTL

\* A key is its user's until that user revokes it, whatever others ask for.
THEOREM KeysAreTheirs == CredSpec => []KeysStand
<1>1. CredInv => KeysStand
    BY CredentialsAssumption, ZenonT(30) DEF CredInv, CredTypeOK, KeysInv, KeysStand, ListAPIKeys, HasKey,
           VerifyInternal, ValidateAPIKey
<1> QED
    BY <1>1, CredInvariance, PTL

\* An agent that anybody sees has all its permissions, and one tenant.
THEOREM AgentsAreWhole == CredSpec => []AgentsWhole
<1>1. ASSUME CredInv, NEW c \in Callers, NEW a \in ListAgents(c)
      PROVE  wanted[a] = [owner |-> c, permissions |-> GetAgentPermissions(a)]
  <2>1. a \in AgentIds /\ agents[a].owner = c
    BY <1>1 DEF ListAgents, Owned
  <2>2. wanted[a].owner = c /\ wanted[a].permissions = agents[a].permissions
    BY CredentialsAssumption, <1>1, <2>1 DEF CredInv, AgentsInv
  <2>3. wanted[a] \in [owner : Callers \cup {Nobody}, permissions : SUBSET Permissions]
    BY <1>1, <2>1 DEF CredInv, CredTypeOK
  <2> QED
    BY <2>2, <2>3 DEF GetAgentPermissions
<1>2. ASSUME CredInv PROVE AgentsWhole
    BY <1>1, <1>2 DEF AgentsWhole
<1> QED
    BY <1>2, CredInvariance, PTL

=============================================================================
