----------------------------- MODULE SigningKeys -----------------------------
(***************************************************************************)
(* The key that access tokens are signed with, and who checks them.  Every *)
(* replica of auth reads one key when it starts, signs and validates with  *)
(* it, and serves its public half; a rotation is a rollout of auth.  A pod *)
(* of realtime keeps a map of public keys, filled from whatever replica    *)
(* answers; handlers share the map and its lock, and read it once without. *)
(*                                                                         *)
(*   src/services/auth/internal/jwt/{service,crypto_config}.go             *)
(*   src/services/auth/internal/middleware/tenant.go                       *)
(*   src/services/realtime/cmd/server/main.go   jwksCache, validateJWT     *)
(*                                                                         *)
(* Pods of realtime share nothing, so there is one.  A token stands for    *)
(* the key it is signed with; one that is out of date is refused by both   *)
(* sides, and is left out.                                                 *)
(***************************************************************************)
CONSTANTS
    Keys,      \* pairs of keys
    KidOf,     \* KidOf[k]: the JWT_KEY_ID that is deployed with k
    Replicas,  \* replicas of auth
    Bearers    \* requests with a token that can be in progress at once

VARIABLES
    deployed,  \* the key that a replica of auth reads when it starts
    signing,   \* signing[a]: the key of replica a
    tokens,    \* keys that tokens were issued with
    jwks,      \* jwksCache.keys
    fresh,     \* its expiry has not come
    lock,      \* the requests that hold c.mu for writing: one at most
    bearer     \* requests, and why they may be refused (history)

signingVars == <<deployed, signing, tokens, jwks, fresh, lock, bearer>>
authVars == <<deployed, signing, tokens>>
cacheVars == <<jwks, fresh, lock>>

Stages == {"idle", "lookup", "fetch", "store", "fill", "read", "accepted", "refused"}

\* While the request ran: replicas of auth had another key than that of its
\* token; the map had another key by the same name; its call of auth failed;
\* another request emptied the map before this one looked at what it had put there.
Reasons == {"rollout", "reused", "failed", "overlap"}

NoBearer == [at |-> "idle", answer |-> {}, why |-> {}]

SigningTypeOK ==
    /\ deployed \in Keys
    /\ signing \in [Replicas -> Keys]
    /\ tokens \subseteq Keys
    /\ jwks \subseteq Keys
    /\ fresh \in BOOLEAN
    /\ lock \subseteq Bearers
    /\ bearer \in [Bearers ->
          {NoBearer} \cup [at : Stages \ {"idle"}, key : Keys, answer : SUBSET Keys,
                        why : SUBSET Reasons]]

SigningInit ==
    /\ deployed \in Keys
    /\ signing = [a \in Replicas |-> deployed]
    /\ tokens = {}
    /\ jwks = {}
    /\ fresh = FALSE
    /\ lock = {}
    /\ bearer = [r \in Bearers |-> NoBearer]

BearerAt(r, place) == bearer[r].at = place

GoOn(r, place) == bearer' = [bearer EXCEPT ![r].at = place]

Refuse(r, reasons) ==
    bearer' = [bearer EXCEPT ![r].at = "refused", ![r].why = @ \cup reasons]

-----------------------------------------------------------------------------
(* auth.                                                                   *)

\* The secret and its name are changed; replicas that run keep what they have.
Rotate(k) ==
    /\ deployed' = k
    /\ UNCHANGED <<signing, tokens, cacheVars, bearer>>

\* A rollout, or a restart: LoadCryptoConfig reads the key and its name.
LoadCryptoConfig(a) ==
    /\ signing' = [signing EXCEPT ![a] = deployed]
    /\ bearer' = [r \in Bearers |->
                      IF bearer[r] # NoBearer /\ bearer[r].key # deployed
                      THEN [bearer[r] EXCEPT !.why = @ \cup {"rollout"}] ELSE bearer[r]]
    /\ UNCHANGED <<deployed, tokens, cacheVars>>

IssueAccessToken(a) ==
    /\ tokens' = tokens \cup {signing[a]}
    /\ UNCHANGED <<deployed, signing, cacheVars, bearer>>

\* The signature is checked with the replica's own key, whatever name the token
\* gives its key.
Validate(a, k) == signing[a] = k

\* The one key that a replica serves at /.well-known/jwks.json.
JWKS(a) == {signing[a]}

\* What can be said of a token when it is presented.
Present(k, place) ==
    [at |-> place, key |-> k, answer |-> {},
     why |-> IF \A a \in Replicas : signing[a] = k THEN {} ELSE {"rollout"}]

\* TenantContextMiddleware of replica a: no other replica is asked.
Authenticate(r, a, k) ==
    /\ BearerAt(r, "idle")
    /\ bearer' = [bearer EXCEPT
                      ![r] = Present(k, IF Validate(a, k) THEN "accepted" ELSE "refused")]
    /\ UNCHANGED <<authVars, cacheVars>>

-----------------------------------------------------------------------------
(* realtime.                                                               *)

\* A request for a WebSocket brings a token.
Connect(r, k) ==
    /\ BearerAt(r, "idle")
    /\ bearer' = [bearer EXCEPT ![r] = Present(k, "lookup")]
    /\ UNCHANGED <<authVars, cacheVars>>

\* The keys of the map under the name that the token of r gives.
Named(r) == {k \in jwks : KidOf[k] = KidOf[bearer[r].key]}

\* validateJWT with the key that was found under the name, if any was.
Verify(r, reasons) ==
    IF bearer[r].key \in Named(r) THEN GoOn(r, "accepted") ELSE Refuse(r, reasons)

\* Mutant of GetKey: a map that is fresh is not asked for again.
GetKeyOnce(r) ==
    /\ BearerAt(r, "lookup")
    /\ lock = {}
    /\ IF fresh THEN Verify(r, IF Named(r) # {} THEN {"reused"} ELSE {}) ELSE GoOn(r, "fetch")
    /\ UNCHANGED <<authVars, cacheVars>>

\* getKey: a name that a fresh map has is enough, else the map is refreshed.
GetKey(r) ==
    /\ BearerAt(r, "lookup")
    /\ lock = {}
    /\ IF fresh /\ Named(r) # {} THEN Verify(r, {"reused"}) ELSE GoOn(r, "fetch")
    /\ UNCHANGED <<authVars, cacheVars>>

\* refresh asks some replica of auth, without the lock ...
FetchKeys(r) ==
    /\ BearerAt(r, "fetch")
    /\ \/ \E a \in Replicas :
             bearer' = [bearer EXCEPT ![r].at = "store", ![r].answer = JWKS(a)]
       \/ Refuse(r, {"failed"})
    /\ UNCHANGED <<authVars, cacheVars>>

\* ... locks the map and empties it ...
EmptyKeys(r) ==
    /\ BearerAt(r, "store")
    /\ lock = {}
    /\ lock' = {r}
    /\ jwks' = {}
    /\ bearer' = [q \in Bearers |->
                      IF q = r THEN [bearer[q] EXCEPT !.at = "fill"]
                      ELSE IF BearerAt(q, "read") THEN [bearer[q] EXCEPT !.why = @ \cup {"overlap"}]
                      ELSE bearer[q]]
    /\ UNCHANGED <<authVars, fresh>>

\* ... fills it with the answer, and unlocks.
FillKeys(r) ==
    /\ BearerAt(r, "fill")
    /\ jwks' = bearer[r].answer
    /\ fresh' = TRUE
    /\ lock' = {}
    /\ GoOn(r, "read")
    /\ UNCHANGED authVars

\* The last read is without the lock. The map is the one that was filled, or
\* one that another request has emptied or filled since.
ReadKeys(r) ==
    /\ BearerAt(r, "read")
    /\ Verify(r, {})
    /\ UNCHANGED <<authVars, cacheVars>>

\* When the map is being filled Go may notice, and end the process: requests
\* end without an answer, and the pod comes back with an empty map.  So it does
\* when it dies of something else.
Restart ==
    /\ jwks' = {}
    /\ fresh' = FALSE
    /\ lock' = {}
    /\ bearer' = [r \in Bearers |-> NoBearer]
    /\ UNCHANGED authVars

\* Five minutes have passed.
Expire ==
    /\ lock = {}
    /\ fresh' = FALSE
    /\ UNCHANGED <<authVars, jwks, lock, bearer>>

\* The answer is given.
Answer(r) ==
    /\ bearer[r].at \in {"accepted", "refused"}
    /\ bearer' = [bearer EXCEPT ![r] = NoBearer]
    /\ UNCHANGED <<authVars, cacheVars>>

Refresh(r) == FetchKeys(r) \/ EmptyKeys(r) \/ FillKeys(r) \/ ReadKeys(r)

SigningNext ==
    \/ \E k \in Keys : Rotate(k)
    \/ \E a \in Replicas : LoadCryptoConfig(a) \/ IssueAccessToken(a)
    \/ \E r \in Bearers, k \in tokens :
          Connect(r, k) \/ \E a \in Replicas : Authenticate(r, a, k)
    \/ \E r \in Bearers : GetKey(r) \/ Refresh(r) \/ Answer(r)
    \/ Restart
    \/ Expire

SigningSpec == SigningInit /\ [][SigningNext]_signingVars

-----------------------------------------------------------------------------
(* Properties.                                                             *)

\* A token with the key that every replica of auth has is refused only for a
\* reason: a replica had another key while the request ran, the pod has kept
\* another key by the same name, auth did not answer, or a second request
\* emptied the map between this one's unlock and its read.
RefusalsExplained ==
    \A r \in Bearers : BearerAt(r, "refused") => bearer[r].why # {}

=============================================================================
