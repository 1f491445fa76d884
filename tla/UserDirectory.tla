---------------------------- MODULE UserDirectory ----------------------------
(***************************************************************************)
(* "Does this user exist?": UserDirectory.exists of the order-service, with *)
(* the Redis cache in front of the user-service and one retry of the GET.   *)
(* Calls run concurrently; users are registered meanwhile, never removed.   *)
(***************************************************************************)
EXTENDS Naturals

CONSTANTS
  Calls,     \* calls of exists
  Users,
  Attempts   \* ATTEMPTS

ASSUME ConstantsAssumption == Attempts \in Nat \ {0} /\ Users # {}

VARIABLES
  users,    \* rows of the user-service
  cache,    \* users with a live "user:<id>" entry in Redis
  step,     \* the await a call is suspended at
  user,     \* the user it asks about
  attempt,  \* the attempt that is running
  reply,    \* status of the user-service for that attempt, or "none"
  result,   \* what the call returned
  known,    \* history: the user was registered when the call began
  refused   \* history: attempts that ended without an answer 200 or 404

vars == <<users, cache, step, user, attempt, reply, result, known, refused>>
calls == <<step, user, attempt, reply, result, known, refused>>

Replies == {"none", "200", "404", "4xx", "5xx"}

Init ==
  /\ users = {} /\ cache = {}
  /\ step = [c \in Calls |-> "idle"]
  /\ user = [c \in Calls |-> CHOOSE u \in Users : TRUE]
  /\ attempt = [c \in Calls |-> 0]
  /\ reply = [c \in Calls |-> "none"]
  /\ result = [c \in Calls |-> "none"]
  /\ known = [c \in Calls |-> FALSE]
  /\ refused = [c \in Calls |-> 0]

-----------------------------------------------------------------------------
Return(c, r) ==
  /\ step' = [step EXCEPT ![c] = "done"]
  /\ result' = [result EXCEPT ![c] = r]

(* exists is called; cache.get is on its way.                               *)
Call(c, u) ==
  /\ step[c] = "idle"
  /\ step' = [step EXCEPT ![c] = "get"]
  /\ user' = [user EXCEPT ![c] = u]
  /\ known' = [known EXCEPT ![c] = u \in users]
  /\ UNCHANGED <<users, cache, attempt, reply, result, refused>>

(* A hit answers; a miss, an error or a Redis timeout sends the first GET.  *)
CacheGet(c) ==
  /\ step[c] = "get"
  /\ \/ user[c] \in cache /\ Return(c, "yes") /\ UNCHANGED attempt
     \/ /\ step' = [step EXCEPT ![c] = "fetch"]
        /\ attempt' = [attempt EXCEPT ![c] = 1]
        /\ UNCHANGED result
  /\ UNCHANGED <<users, cache, user, reply, known, refused>>

(* The user-service handles the GET: findOne, or an error of its own; 4xx   *)
(* is its authorization.                                                    *)
UserServiceReplies(c) ==
  /\ step[c] = "fetch" /\ reply[c] = "none"
  /\ \E s \in {IF user[c] \in users THEN "200" ELSE "404", "4xx", "5xx"} :
       reply' = [reply EXCEPT ![c] = s]
  /\ UNCHANGED <<users, cache, step, user, attempt, result, known, refused>>

\* Mutant: negative answers are cached too.
FetchedCachingAll(c) ==
  /\ step[c] = "fetch" /\ reply[c] \in {"200", "404"}
  /\ step' = [step EXCEPT ![c] = "set"]
  /\ UNCHANGED <<users, cache, user, attempt, reply, result, known, refused>>

(* fetchExists returns: false at once, true after cache.set.                *)
Fetched(c) ==
  /\ step[c] = "fetch"
  /\ \/ reply[c] = "404" /\ Return(c, "no")
     \/ reply[c] = "200" /\ step' = [step EXCEPT ![c] = "set"] /\ UNCHANGED result
  /\ UNCHANGED <<users, cache, user, attempt, reply, known, refused>>

\* Mutant: giving up is reported as "does not exist".
FetchFailsAsNo(c) ==
  /\ step[c] = "fetch"
  /\ refused' = [refused EXCEPT ![c] = @ + 1]
  /\ \/ /\ attempt[c] < Attempts
        /\ attempt' = [attempt EXCEPT ![c] = @ + 1]
        /\ reply' = [reply EXCEPT ![c] = "none"]
        /\ UNCHANGED <<step, result>>
     \/ /\ reply[c] = "4xx" \/ attempt[c] = Attempts
        /\ Return(c, "no")
        /\ UNCHANGED <<attempt, reply>>
  /\ UNCHANGED <<users, cache, user, known>>

(* The attempt fails: 5xx, a network error or AbortSignal.timeout, whatever *)
(* the user-service has answered or will; the GET is sent again.  A 4xx     *)
(* that arrives is final.                                                   *)
FetchFails(c) ==
  /\ step[c] = "fetch"
  /\ refused' = [refused EXCEPT ![c] = @ + 1]
  /\ \/ /\ attempt[c] < Attempts
        /\ attempt' = [attempt EXCEPT ![c] = @ + 1]
        /\ reply' = [reply EXCEPT ![c] = "none"]
        /\ UNCHANGED <<step, result>>
     \/ /\ reply[c] = "4xx" \/ attempt[c] = Attempts
        /\ Return(c, "unavailable")
        /\ UNCHANGED <<attempt, reply>>
  /\ UNCHANGED <<users, cache, user, known>>

(* cache.set returns, whether Redis has the entry or not.                   *)
CacheSet(c) ==
  /\ step[c] = "set"
  /\ cache' \in {cache, cache \cup {user[c]}}
  /\ Return(c, "yes")
  /\ UNCHANGED <<users, user, attempt, reply, known, refused>>

(* USER_CACHE_TTL_SECONDS pass, or Redis restarts empty.                    *)
Expire(u) ==
  /\ u \in cache
  /\ cache' = cache \ {u}
  /\ UNCHANGED <<users, calls>>

(* POST /v1/users.                                                          *)
RegisterUser(u) ==
  /\ u \notin users
  /\ users' = users \cup {u}
  /\ UNCHANGED <<cache, calls>>

Advance(c) == CacheGet(c) \/ Fetched(c) \/ FetchFails(c) \/ CacheSet(c)

Next ==
  \/ \E c \in Calls : (\E u \in Users : Call(c, u)) \/ Advance(c) \/ UserServiceReplies(c)
  \/ \E u \in Users : Expire(u) \/ RegisterUser(u)

Spec == Init /\ [][Next]_vars

-----------------------------------------------------------------------------
(* Type invariant.                                                          *)
TypeOK ==
  /\ users \subseteq Users /\ cache \subseteq Users
  /\ step \in [Calls -> {"idle", "get", "fetch", "set", "done"}]
  /\ user \in [Calls -> Users]
  /\ attempt \in [Calls -> 0..Attempts]
  /\ reply \in [Calls -> Replies]
  /\ result \in [Calls -> {"none", "yes", "no", "unavailable"}]
  /\ known \in [Calls -> BOOLEAN]
  /\ refused \in [Calls -> Nat]

(* FR-3: an order is only created for a registered user, also when the      *)
(* answer comes from the cache.                                             *)
YesMeansRegistered == \A c \in Calls : result[c] = "yes" => user[c] \in users

(* "a user created a moment later must not stay missing": a call that began *)
(* after the registration never answers no, whatever earlier calls saw.     *)
NoMeansNotYetRegistered == \A c \in Calls : result[c] = "no" => ~known[c]

(* NFR-3, NFR-4: Redis alone never makes the lookup unavailable; that takes *)
(* Attempts failed requests to the user-service, or one it rejects.         *)
UnavailableNeedsFailures ==
  \A c \in Calls : result[c] = "unavailable" =>
    refused[c] = Attempts \/ (reply[c] = "4xx" /\ refused[c] \in 1..Attempts)
=============================================================================
