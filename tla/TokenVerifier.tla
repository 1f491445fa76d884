---------------------------- MODULE TokenVerifier ----------------------------
(***************************************************************************)
(* Authentication of a request along its route: the gateway's authenticate,  *)
(* the AuthGuard of the service behind it and, for POST /v1/orders, the      *)
(* user-service's AuthGuard again, which order-service's user lookup meets   *)
(* with the caller's own token.  Each of the four processes has a            *)
(* TokenVerifier of its own and, in it, a cached copy of Keycloak's public   *)
(* keys (remoteKeys).                                                        *)
(*                                                                         *)
(* A token is reduced to the key that signed it and to what its claims       *)
(* allow.  Keycloak publishes and withdraws keys and may be unreachable at   *)
(* any time.  Time is kept as ages: how long ago something happened, counted *)
(* no further than the code or a property can tell apart.                    *)
(***************************************************************************)
EXTENDS Integers, FiniteSets, FiniteSetsExt

CONSTANTS
  Keys,      \* signing keys (kid)
  Requests,  \* connections; each carries one request after the other
  Routes,    \* the endpoints that are called
  TTL,       \* AUTH_JWKS_CACHE_SECONDS
  COOLDOWN,  \* cooldownMs of remoteKeys
  TIMEOUT    \* AUTH_JWKS_TIMEOUT_MS

VARIABLES
  published, \* keys Keycloak publishes
  keyAge,    \* keyAge[k]: for how long k has been published, or withdrawn
  cache,     \* cache[v]: the keys verifier v holds
  cacheAge,  \* cacheAge[v]: how long ago it got them
  fetch,     \* fetch[v]: its pending fetch: none, sent, or served by Keycloak
  fetchAge,  \* fetchAge[v]: how long ago that was sent
  reply,     \* reply[v]: the keys in Keycloak's answer
  req        \* req[r]: the request of connection r

idp  == <<published, keyAge>>
keys == <<cache, cacheAge, fetch, fetchAge, reply>>
vars == <<idp, keys, req>>

\* The service behind the gateway that answers a route.
Service == [getUser |-> "users", createUser |-> "users", getOrder |-> "orders",
            createOrder |-> "orders", getNotifications |-> "notifications"]

ASSUME ConstantsAssumption ==
  /\ Routes \subseteq DOMAIN Service
  /\ TTL \in Nat \ {0} /\ COOLDOWN \in Nat \ {0} /\ TIMEOUT \in Nat

Verifiers == {"gateway", "users"} \cup {Service[route] : route \in Routes}

\* The token is not valid, or it is but lacks the roles of its route, or has one.
Claims == {"invalid", "norole", "good"}

\* A request is to be looked at by a verifier, waits for a fetch because that
\* has no fresh keys or does not know the token's key, is about to look up the
\* user of an order, or is answered.
Waits    == {"reload", "refetch"}
Checking == {"verify"} \cup Waits
Active == [step : Checking \cup {"lookup"}, at : Verifiers, tries : 0..2,
           key : Keys, claims : Claims, route : Routes]
Ends == [step : {"done"}, code : {200, 401, 403, 503},
         why : {"served", "refused", "forbidden", "unavailable"}]

Done(code, why) == [step |-> "done", code |-> code, why |-> why]

CacheOld == Max({TTL, COOLDOWN})
KeyOld == CacheOld + TIMEOUT + 1

Init ==
  /\ published = {} /\ keyAge = [k \in Keys |-> KeyOld]
  /\ cache = [v \in Verifiers |-> {}]
  /\ cacheAge = [v \in Verifiers |-> CacheOld]
  /\ fetch = [v \in Verifiers |-> "none"]
  /\ fetchAge = [v \in Verifiers |-> 0]
  /\ reply = [v \in Verifiers |-> {}]
  /\ req = [r \in Requests |-> Done(401, "refused")]

-----------------------------------------------------------------------------
fresh(v)       == cacheAge[v] < TTL
coolingDown(v) == cacheAge[v] < COOLDOWN

\* The order-service's lookup waits for the user-service's answer.
Nested(q) == q.route = "createOrder" /\ q.at = "users"

\* The request goes on: from the gateway to its service, which looks at roles;
\* from there to the user lookup, or to the answer.
Forward(q) == [q EXCEPT !.step = "verify", !.at = Service[q.route]]
Admit(q) ==
  IF q.claims = "norole" THEN Done(403, "forbidden")
  ELSE IF q.route = "createOrder" /\ q.at = "orders" THEN [q EXCEPT !.step = "lookup"]
  ELSE Done(200, "served")

\* The verifier refuses the token.  A lookup does not repeat what was refused.
Refuse(q) == Done(IF Nested(q) THEN 503 ELSE 401, "refused")

\* It has no keys to judge it with.  A lookup is repeated once.
Unavailable(q) ==
  IF Nested(q) /\ q.tries < 2 THEN [q EXCEPT !.step = "lookup", !.at = "orders"]
  ELSE Done(503, "unavailable")

\* What becomes of a request at a verifier that holds the keys ks.
Verdict(q, ks) ==
  IF q.key \notin ks \/ q.claims = "invalid" THEN Refuse(q)
  ELSE IF q.at = "gateway" THEN Forward(q) ELSE Admit(q)

(* A request with a bearer token reaches the gateway.                        *)
Arrive(r) ==
  /\ req[r].step = "done"
  /\ \E k \in Keys, c \in Claims, route \in Routes :
       req' = [req EXCEPT ![r] = [step |-> "verify", at |-> "gateway", tries |-> 0,
                                  key |-> k, claims |-> c, route |-> route]]
  /\ UNCHANGED <<idp, keys>>

(* A request without one is refused at once, whatever the keys.              *)
ArriveWithoutToken(r) ==
  /\ req[r].step = "done"
  /\ req' = [req EXCEPT ![r] = Done(401, "refused")]
  /\ UNCHANGED <<idp, keys>>

\* The request waits for the fetch that is running, or that it starts.
Reload(r, what) ==
  /\ req' = [req EXCEPT ![r].step = what]
  /\ fetch' = [fetch EXCEPT ![req[r].at] = IF @ = "none" THEN "sent" ELSE @]
  /\ UNCHANGED <<cache, cacheAge, fetchAge, reply>>

Decide(r) ==
  /\ req' = [req EXCEPT ![r] = Verdict(req[r], cache[req[r].at])]
  /\ UNCHANGED keys

Known(r) == req[r].key \in cache[req[r].at]

\* Mutants: a key once cached is used for ever; an unknown key is refused as
\* long as the keys are fresh; keys are fetched for every token after the cooldown.
VerifyForever(r) ==
  /\ req[r].step = "verify"
  /\ IF Known(r) \/ coolingDown(req[r].at) THEN Decide(r) ELSE Reload(r, "refetch")
  /\ UNCHANGED idp
VerifyNoRefetch(r) ==
  /\ req[r].step = "verify"
  /\ IF fresh(req[r].at) THEN Decide(r) ELSE Reload(r, "reload")
  /\ UNCHANGED idp
VerifyEager(r) ==
  /\ req[r].step = "verify"
  /\ IF fresh(req[r].at) /\ coolingDown(req[r].at) THEN Decide(r) ELSE Reload(r, "reload")
  /\ UNCHANGED idp

(* verify(): without fresh keys they are fetched.  With fresh keys the       *)
(* request is decided, unless its key is unknown and the keys were not       *)
(* fetched a moment ago: then they are fetched again.                        *)
Verify(r) ==
  /\ req[r].step = "verify"
  /\ LET v == req[r].at IN
       \/ ~fresh(v) /\ Reload(r, "reload")
       \/ fresh(v) /\ ~Known(r) /\ ~coolingDown(v) /\ Reload(r, "refetch")
       \/ fresh(v) /\ (Known(r) \/ coolingDown(v)) /\ Decide(r)
  /\ UNCHANGED idp

(* The order-service is about to ask whether the user exists: it need not    *)
(* (the order is a replay, or Redis knows the user), or it asks user-service. *)
Lookup(r) ==
  /\ req[r].step = "lookup"
  /\ \/ req[r].tries = 0 /\ req' = [req EXCEPT ![r] = Done(200, "served")]
     \/ req' = [req EXCEPT ![r].step = "verify", ![r].at = "users", ![r].tries = @ + 1]
  /\ UNCHANGED <<idp, keys>>

(* USER_LOOKUP_TIMEOUT_MS pass while the user-service waits for its keys.     *)
LookupTimeout(r) ==
  /\ req[r].step \in Waits /\ Nested(req[r])
  /\ req' = [req EXCEPT ![r] = Unavailable(@)]
  /\ UNCHANGED <<idp, keys>>

(* Keycloak answers the fetch with the keys it publishes.                    *)
Serve(v) ==
  /\ fetch[v] = "sent"
  /\ fetch' = [fetch EXCEPT ![v] = "served"]
  /\ reply' = [reply EXCEPT ![v] = published]
  /\ UNCHANGED <<idp, cache, cacheAge, fetchAge, req>>

\* The request waits for verifier v's fetch.
Waiting(r, v) == req[r].step \in Waits /\ req[r].at = v

\* The pending fetch of v is over.
FetchOver(v) ==
  /\ fetch' = [fetch EXCEPT ![v] = "none"]
  /\ fetchAge' = [fetchAge EXCEPT ![v] = 0]
  /\ reply' = [reply EXCEPT ![v] = {}]

(* The answer arrives: the keys are replaced, and every request that waited  *)
(* is decided with them (the cooldown has just begun).                       *)
FetchReturns(v) ==
  /\ fetch[v] = "served"
  /\ FetchOver(v)
  /\ cache' = [cache EXCEPT ![v] = reply[v]]
  /\ cacheAge' = [cacheAge EXCEPT ![v] = 0]
  /\ req' = [r \in Requests |-> IF Waiting(r, v) THEN Verdict(req[r], reply[v]) ELSE req[r]]
  /\ UNCHANGED idp

(* The fetch fails or times out: KeysUnavailable for all that waited.  The   *)
(* keys held are kept.                                                       *)
FetchFails(v) ==
  /\ fetch[v] # "none"
  /\ FetchOver(v)
  /\ req' = [r \in Requests |-> IF Waiting(r, v) THEN Unavailable(req[r]) ELSE req[r]]
  /\ UNCHANGED <<idp, cache, cacheAge>>

(* Keycloak publishes a key, or withdraws one: at the start, and when keys   *)
(* are rotated.                                                              *)
ChangeKey(k) ==
  /\ published' = IF k \in published THEN published \ {k} ELSE published \cup {k}
  /\ keyAge' = [keyAge EXCEPT ![k] = 0]
  /\ UNCHANGED <<keys, req>>

(* Time passes.  A fetch does not outlive its timer.                         *)
Tick ==
  /\ \A v \in Verifiers : fetch[v] # "none" => fetchAge[v] < TIMEOUT
  /\ keyAge' = [k \in Keys |-> Min({keyAge[k] + 1, KeyOld})]
  /\ cacheAge' = [v \in Verifiers |-> Min({cacheAge[v] + 1, CacheOld})]
  /\ fetchAge' = [v \in Verifiers |-> IF fetch[v] = "none" THEN 0 ELSE fetchAge[v] + 1]
  /\ UNCHANGED <<published, cache, fetch, reply, req>>

Next ==
  \/ \E r \in Requests :
       Arrive(r) \/ ArriveWithoutToken(r) \/ Verify(r) \/ Lookup(r) \/ LookupTimeout(r)
  \/ \E v \in Verifiers : Serve(v) \/ FetchReturns(v) \/ FetchFails(v)
  \/ \E k \in Keys : ChangeKey(k)
  \/ Tick

Spec == Init /\ [][Next]_vars

-----------------------------------------------------------------------------
(* Every variable has its type.                                              *)
TypeOK ==
  /\ published \subseteq Keys /\ keyAge \in [Keys -> 0..KeyOld]
  /\ cache \in [Verifiers -> SUBSET Keys] /\ cacheAge \in [Verifiers -> 0..CacheOld]
  /\ fetch \in [Verifiers -> {"none", "sent", "served"}]
  /\ fetchAge \in [Verifiers -> 0..TIMEOUT] /\ reply \in [Verifiers -> SUBSET Keys]
  /\ req \in [Requests -> Active \cup Ends]

\* In this step the verifier where request r is vouches for it.
Vouched(r) ==
  /\ req[r].step \in Checking
  /\ \/ req'[r].step = "done" /\ req'[r].why \in {"served", "forbidden"}
     \/ req'[r].step \notin Checking \cup {"done"} /\ req[r].at = "orders"
     \/ req'[r].step # "done" /\ req[r].at = "gateway" /\ req'[r].at # "gateway"

\* In this step the request ends for the given reason.
EndsAs(r, why) == req[r].step # "done" /\ req'[r].step = "done" /\ req'[r].why = why

(* A verifier vouches for a token only with a key that Keycloak publishes,   *)
(* or has withdrawn less than the lifetime of the cache and the duration of  *)
(* a fetch ago: a withdrawn key is not accepted for ever.                    *)
AcceptedKeysRecent ==
  [][\A r \in Requests : Vouched(r) =>
       req[r].key \in published \/ keyAge[req[r].key] < TTL + TIMEOUT]_vars

(* A token in order is not refused anywhere on its route, the user lookup    *)
(* included, once its key has been published for the cooldown and the        *)
(* duration of a fetch: a rotation needs no restart, and services that       *)
(* cached different keys agree again.                                        *)
RotationVisible ==
  [][\A r \in Requests : EndsAs(r, "refused") =>
       \/ req[r].claims = "invalid" \/ req[r].key \notin published
       \/ keyAge[req[r].key] < COOLDOWN + TIMEOUT]_vars

(* While every verifier on its way holds fresh keys, a request signed with   *)
(* one of them does not notice that Keycloak is down.                        *)
WarmCacheSurvivesOutage ==
  [][\A r \in Requests : EndsAs(r, "unavailable") => ~(fresh(req[r].at) /\ Known(r))]_vars
=============================================================================
