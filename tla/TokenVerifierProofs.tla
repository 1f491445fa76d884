------------------------- MODULE TokenVerifierProofs -------------------------
(***************************************************************************)
(* What TokenVerifier promises for any keys, connections, routes and limits. *)
(***************************************************************************)
EXTENDS TokenVerifier, TLAPS

\* A request that waits shares a fetch that is running, and the keys held
\* until it returns are of no use to it.
Waiters ==
  \A r \in Requests : req[r].step \in Waits =>
    fetch[req[r].at] # "none" /\ ~(fresh(req[r].at) /\ Known(r))

\* What is held of a key, the set or an answer on its way, is what Keycloak
\* publishes, unless the key has changed since the fetch was sent.
Recent ==
  \A v \in Verifiers, k \in Keys :
    /\ cacheAge[v] < CacheOld =>
         (k \in cache[v] <=> k \in published) \/ keyAge[k] <= cacheAge[v] + TIMEOUT
    /\ fetch[v] = "served" =>
         (k \in reply[v] <=> k \in published) \/ keyAge[k] <= fetchAge[v]

\* Lookups are counted from the first one on, and repeated once.
Counted ==
  \A r \in Requests : req[r].step # "done" =>
    /\ req[r].step = "lookup" => req[r].tries < 2 /\ req[r].route = "createOrder"
    /\ req[r].step # "lookup" /\ ~Nested(req[r]) => req[r].tries = 0

Inv == TypeOK /\ Waiters /\ Recent /\ Counted

-----------------------------------------------------------------------------
(* The greater of two ages.                                                  *)
LEMMA MaxOfTwo ==
  ASSUME NEW a \in Int, NEW b \in Int
  PROVE  Max({a, b}) = IF a >= b THEN a ELSE b
BY DEF Max

(* The smaller of two ages.                                                  *)
LEMMA MinOfTwo ==
  ASSUME NEW a \in Int, NEW b \in Int
  PROVE  Min({a, b}) = IF a <= b THEN a ELSE b
BY DEF Min

(* The ages up to which the cache and the keys are told apart.               *)
LEMMA Ages ==
  /\ CacheOld \in Nat /\ TTL <= CacheOld /\ COOLDOWN <= CacheOld
  /\ KeyOld \in Nat /\ KeyOld = CacheOld + TIMEOUT + 1
BY ConstantsAssumption, MaxOfTwo DEF CacheOld, KeyOld

(* The tick of a clock that is read no further than `old`.                   *)
LEMMA Older ==
  ASSUME NEW old \in Nat, NEW a \in 0..old
  PROVE  /\ Min({a + 1, old}) \in 0..old /\ Min({a + 1, old}) <= a + 1
         /\ Min({a + 1, old}) < old => Min({a + 1, old}) = a + 1
BY MinOfTwo

-----------------------------------------------------------------------------
(* The services behind the gateway.                                          *)
LEMMA Places ==
  /\ "gateway" \in Verifiers /\ "users" \in Verifiers
  /\ \A route \in Routes : Service[route] \in Verifiers
  /\ "createOrder" \in Routes => "orders" \in Verifiers
BY DEF Verifiers, Service

(* A request under way has its fields.                                       *)
LEMMA UnderWay ==
  ASSUME TypeOK, NEW r \in Requests, req[r].step # "done"
  PROVE  req[r] \in Active /\ req[r].at \in Verifiers /\ req[r].key \in Keys
BY DEF TypeOK, Active, Ends

(* A verifier with keys decides: nobody is left waiting, and only a key it   *)
(* does not hold or an invalid token is refused.                             *)
LEMMA VerdictFacts ==
  ASSUME NEW q \in Active, NEW ks
  PROVE  /\ Verdict(q, ks) \in Active \cup Ends
         /\ Verdict(q, ks).step \in {"verify", "lookup", "done"}
         /\ Verdict(q, ks).step = "done" =>
              Verdict(q, ks).why \in {"refused", "served", "forbidden"}
         /\ Verdict(q, ks).step = "done" /\ Verdict(q, ks).why = "refused" =>
              q.key \notin ks \/ q.claims = "invalid"
         /\ q.key \notin ks => Verdict(q, ks) = Refuse(q)
<1> USE DEF Verdict, Refuse, Forward, Admit, Done, Nested
<1>1. Refuse(q) \in Ends /\ Refuse(q).step = "done" /\ Refuse(q).why = "refused"
  BY DEF Ends
<1>2. Forward(q) \in Active /\ Forward(q).step = "verify"
  BY Places, ZenonT(60) DEF Active, Checking
<1>3. /\ Admit(q) \in Active \cup Ends /\ Admit(q).step \in {"lookup", "done"}
      /\ Admit(q).step = "done" => Admit(q).why \in {"served", "forbidden"}
  BY DEF Active, Ends
<1> HIDE DEF Refuse, Forward, Admit, Done
<1> QED
  BY <1>1, <1>2, <1>3

(* Without keys it gives up, or lets the lookup be repeated.                 *)
LEMMA UnavailableFacts ==
  ASSUME NEW q \in Active
  PROVE  /\ Unavailable(q) \in Active \cup Ends
         /\ Unavailable(q).step \in {"lookup", "done"}
         /\ Unavailable(q).step = "done" => Unavailable(q).why = "unavailable"
         /\ Unavailable(q).step = "lookup" =>
              /\ Nested(q) /\ Unavailable(q).tries < 2
              /\ Unavailable(q).route = q.route
<1>1. CASE Nested(q) /\ q.tries < 2
  <2>1. q.route \in Routes /\ "orders" \in Verifiers /\ "lookup" \in Checking \cup {"lookup"}
    BY <1>1, Places DEF Active, Nested
  <2>2. Unavailable(q) = [q EXCEPT !.step = "lookup", !.at = "orders"]
    BY <1>1 DEF Unavailable
  <2>3. Unavailable(q) \in Active
    BY <2>1, <2>2, ZenonT(60) DEF Active
  <2> QED
    BY <1>1, <2>2, <2>3 DEF Active
<1>2. CASE ~(Nested(q) /\ q.tries < 2)
  BY <1>2 DEF Unavailable, Done, Ends
<1> QED
  BY <1>1, <1>2

-----------------------------------------------------------------------------
(* Every step keeps the types.                                               *)
LEMMA TypeStep == Inv /\ [Next]_vars => TypeOK'
<1> SUFFICES ASSUME Inv, [Next]_vars PROVE TypeOK'
  OBVIOUS
<1> USE ConstantsAssumption DEF TypeOK
<1> TypeOK
  BY DEF Inv
<1>1. ASSUME NEW r \in Requests, Arrive(r) \/ ArriveWithoutToken(r) PROVE TypeOK'
  <2>1. Done(401, "refused") \in Ends
    BY DEF Done, Ends
  <2>2. \A k \in Keys, c \in Claims, route \in Routes :
          [step |-> "verify", at |-> "gateway", tries |-> 0, key |-> k, claims |-> c,
           route |-> route] \in Active
    BY Places DEF Active, Checking
  <2> QED
    BY <1>1, <2>1, <2>2 DEF Arrive, ArriveWithoutToken, idp, keys
<1>2. ASSUME NEW r \in Requests, Verify(r) PROVE TypeOK'
  <2>1. req[r] \in Active /\ req[r].at \in Verifiers
    BY <1>2, UnderWay DEF Verify
  <2>2. ASSUME NEW what \in Waits, Reload(r, what) PROVE TypeOK'
    <3>1. [req[r] EXCEPT !.step = what] \in Active
      BY <2>1 DEF Active, Checking
    <3> QED
      BY <1>2, <2>1, <2>2, <3>1 DEF Reload, Verify, idp
  <2>3. CASE Decide(r)
    BY <1>2, <2>1, <2>3, VerdictFacts DEF Decide, Verify, idp, keys
  <2> QED
    BY <1>2, <2>2, <2>3 DEF Verify, Waits
<1>3. ASSUME NEW r \in Requests, Lookup(r) PROVE TypeOK'
  <2>1. req[r] \in Active /\ req[r].tries < 2
    BY <1>3, UnderWay DEF Lookup, Inv, Counted
  <2>2. [req[r] EXCEPT !.step = "verify", !.at = "users", !.tries = @ + 1] \in Active
    <3>1. req[r].tries + 1 \in 0..2
      BY <2>1 DEF Active
    <3> QED
      BY <2>1, <3>1, Places, ZenonT(60) DEF Active, Checking
  <2>3. Done(200, "served") \in Ends
    BY DEF Done, Ends
  <2>4. \/ req' = [req EXCEPT ![r] = Done(200, "served")]
        \/ req' = [req EXCEPT ![r] = [req[r] EXCEPT !.step = "verify", !.at = "users", !.tries = @ + 1]]
    BY <1>3, ZenonT(60) DEF Lookup
  <2>5. req' \in [Requests -> Active \cup Ends]
    BY <2>2, <2>3, <2>4
  <2> QED
    BY <1>3, <2>5 DEF Lookup, idp, keys
<1>4. ASSUME NEW r \in Requests, LookupTimeout(r) PROVE TypeOK'
  <2>1. req[r] \in Active
    BY <1>4, UnderWay DEF LookupTimeout, Waits
  <2> QED
    BY <1>4, <2>1, UnavailableFacts DEF LookupTimeout, idp, keys
<1>5. ASSUME NEW v \in Verifiers, Serve(v) PROVE TypeOK'
  BY <1>5 DEF Serve, idp
<1>6. ASSUME NEW v \in Verifiers, FetchReturns(v) PROVE TypeOK'
  <2>1. \A r \in Requests : Waiting(r, v) => Verdict(req[r], reply[v]) \in Active \cup Ends
    BY UnderWay, VerdictFacts DEF Waiting, Waits
  <2>2. req' \in [Requests -> Active \cup Ends]
    BY <1>6, <2>1 DEF FetchReturns
  <2> QED
    BY <1>6, <2>2, Ages DEF FetchReturns, FetchOver, idp
<1>7. ASSUME NEW v \in Verifiers, FetchFails(v) PROVE TypeOK'
  <2>1. \A r \in Requests : Waiting(r, v) => Unavailable(req[r]) \in Active \cup Ends
    BY UnderWay, UnavailableFacts DEF Waiting, Waits
  <2>2. req' \in [Requests -> Active \cup Ends]
    BY <1>7, <2>1 DEF FetchFails
  <2> QED
    BY <1>7, <2>2 DEF FetchFails, FetchOver, idp
<1>8. ASSUME NEW k \in Keys, ChangeKey(k) PROVE TypeOK'
  BY <1>8, Ages DEF ChangeKey, keys
<1>9. CASE Tick
  BY <1>9, Ages, Older DEF Tick
<1>10. CASE UNCHANGED vars
  BY <1>10 DEF vars, idp, keys
<1> QED
  BY <1>1, <1>2, <1>3, <1>4, <1>5, <1>6, <1>7, <1>8, <1>9, <1>10 DEF Next

-----------------------------------------------------------------------------
(* Ages grow together: what is held stays as recent as it was fetched.       *)
LEMMA RecentStep == Inv /\ [Next]_vars => Recent'
<1> SUFFICES ASSUME Inv, [Next]_vars PROVE Recent'
  OBVIOUS
<1> USE ConstantsAssumption DEF Recent
<1> TypeOK /\ Recent
  BY DEF Inv
<1>1. CASE UNCHANGED <<published, keyAge, cache, cacheAge, fetchAge, reply>>
           /\ \A v \in Verifiers : fetch'[v] = "served" => fetch[v] = "served"
  BY <1>1
<1>2. ASSUME NEW v \in Verifiers, Serve(v) PROVE Recent'
  BY <1>2 DEF Serve, TypeOK, idp
<1>3. ASSUME NEW v \in Verifiers, FetchReturns(v) PROVE Recent'
  BY <1>3 DEF FetchReturns, FetchOver, TypeOK, idp
<1>4. ASSUME NEW v \in Verifiers, FetchFails(v) PROVE Recent'
  BY <1>4 DEF FetchFails, FetchOver, TypeOK, idp
<1>5. ASSUME NEW k \in Keys, ChangeKey(k) PROVE Recent'
  BY <1>5 DEF ChangeKey, TypeOK, keys
<1>6. CASE Tick
  <2>1. \A k \in Keys : keyAge[k] \in Nat /\ keyAge'[k] \in Nat /\ keyAge'[k] <= keyAge[k] + 1
    BY <1>6, Ages, Older DEF Tick, TypeOK
  <2>2. \A v \in Verifiers :
          /\ cacheAge[v] \in Nat /\ fetchAge[v] \in Nat
          /\ cacheAge'[v] < CacheOld => cacheAge[v] < CacheOld /\ cacheAge'[v] = cacheAge[v] + 1
          /\ fetch[v] = "served" => fetchAge'[v] = fetchAge[v] + 1
    BY <1>6, Ages, Older DEF Tick, TypeOK
  <2>3. UNCHANGED <<published, cache, fetch, reply>>
    BY <1>6 DEF Tick
  <2> QED
    BY <2>1, <2>2, <2>3, Ages
<1>7. ASSUME NEW r \in Requests, Verify(r)
      PROVE  UNCHANGED <<published, keyAge, cache, cacheAge, fetchAge, reply>>
             /\ \A v \in Verifiers : fetch'[v] = "served" => fetch[v] = "served"
  BY <1>7 DEF Verify, Reload, Decide, idp, keys, TypeOK
<1> QED
  BY <1>1, <1>2, <1>3, <1>4, <1>5, <1>6, <1>7, ZenonT(60)
     DEF Next, Arrive, ArriveWithoutToken, Lookup, LookupTimeout, vars, idp, keys

-----------------------------------------------------------------------------
\* What a step can do to a request under way: it is decided, with keys that
\* are held or have just come; the fetch it waits for ends without an answer,
\* or is not waited for; or it begins to wait.
HeldKeys(r)  == req[r].step = "verify" /\ fresh(req[r].at) /\ (Known(r) \/ coolingDown(req[r].at))
NewKeys(r)   == req[r].step \in Waits /\ fetch[req[r].at] = "served"
Decided(r, ks) ==
  /\ \/ HeldKeys(r) /\ ks = cache[req[r].at]
     \/ NewKeys(r) /\ ks = reply[req[r].at]
  /\ req'[r] = Verdict(req[r], ks)
GivenUp(r) == req[r].step \in Waits /\ req'[r] = Unavailable(req[r])
SentToWait(r) ==
  /\ req[r].step = "verify" /\ ~(fresh(req[r].at) /\ Known(r))
  /\ \E what \in Waits : req'[r] = [req[r] EXCEPT !.step = what]
  /\ fetch'[req[r].at] # "none" /\ UNCHANGED <<cache, cacheAge>>
Arrives(r) == Arrive(r) \/ ArriveWithoutToken(r)

(* What a step does to a request is one of these.                            *)
LEMMA Fates ==
  ASSUME TypeOK, [Next]_vars, NEW r \in Requests
  PROVE  \/ req'[r] = req[r] \/ Arrives(r) \/ Lookup(r) \/ GivenUp(r) \/ SentToWait(r)
         \/ \E ks : Decided(r, ks)
<1> USE DEF TypeOK
<1>1. ASSUME NEW q \in Requests, Arrive(q) \/ ArriveWithoutToken(q) PROVE req'[r] = req[r] \/ Arrives(r)
  BY <1>1 DEF Arrive, ArriveWithoutToken, Arrives
<1>2. ASSUME NEW q \in Requests, Verify(q)
      PROVE  req'[r] = req[r] \/ SentToWait(r) \/ \E ks : Decided(r, ks)
  <2>1. CASE q # r
    BY <1>2, <2>1 DEF Verify, Reload, Decide
  <2>2. CASE q = r
    <3>1. req[r].at \in Verifiers
      BY <1>2, <2>2, UnderWay DEF Verify
    <3>2. ASSUME NEW what \in Waits, Reload(r, what), ~(fresh(req[r].at) /\ Known(r))
          PROVE  SentToWait(r)
      BY <1>2, <2>2, <3>1, <3>2 DEF Verify, Reload, SentToWait
    <3>3. ASSUME Decide(r), HeldKeys(r) PROVE Decided(r, cache[req[r].at])
      BY <3>3 DEF Decide, Decided, TypeOK
    <3> QED
      BY <1>2, <2>2, <3>2, <3>3 DEF Verify, HeldKeys, Waits
  <2> QED
    BY <2>1, <2>2
<1>3. ASSUME NEW q \in Requests, Lookup(q) PROVE req'[r] = req[r] \/ Lookup(r)
  <2>1. CASE q # r
    BY <1>3, <2>1 DEF Lookup
  <2>2. CASE q = r
    BY <1>3, <2>2
  <2> QED
    BY <2>1, <2>2
<1>4. ASSUME NEW q \in Requests, LookupTimeout(q) PROVE req'[r] = req[r] \/ GivenUp(r)
  BY <1>4 DEF LookupTimeout, GivenUp
<1>5. ASSUME NEW v \in Verifiers, FetchReturns(v)
      PROVE  req'[r] = req[r] \/ Decided(r, reply[req[r].at])
  BY <1>5 DEF FetchReturns, Decided, NewKeys, Waiting
<1>6. ASSUME NEW v \in Verifiers, FetchFails(v) PROVE req'[r] = req[r] \/ GivenUp(r)
  BY <1>6 DEF FetchFails, GivenUp, Waiting
<1> QED
  BY <1>1, <1>2, <1>3, <1>4, <1>5, <1>6 DEF Next, Serve, ChangeKey, Tick, vars

(* How many lookups a request may still need.                                *)
LEMMA CountedStep == Inv /\ [Next]_vars => Counted'
<1> DEFINE Goal(q) == /\ q.step = "lookup" => q.tries < 2 /\ q.route = "createOrder"
                      /\ q.step # "lookup" /\ ~Nested(q) => q.tries = 0
<1> SUFFICES ASSUME Inv, [Next]_vars, NEW r \in Requests, req'[r].step # "done"
             PROVE  Goal(req'[r])
  BY DEF Counted
<1> TypeOK /\ Counted
  BY DEF Inv
<1>1. CASE req'[r] = req[r]
  BY <1>1 DEF Counted
<1>2. CASE Arrives(r)
  BY <1>2 DEF Arrives, Arrive, ArriveWithoutToken, TypeOK, Done
<1>3. ASSUME NEW ks, Decided(r, ks) PROVE Goal(req'[r])
  <2>1. req[r] \in Active /\ Goal(req[r]) /\ req[r].step \in Checking
    BY <1>3, UnderWay DEF Decided, HeldKeys, NewKeys, Checking, Waits, Counted
  <2> QED
    BY <1>3, <2>1
       DEF Decided, Verdict, Refuse, Forward, Admit, Done, Nested, Active, Checking, Waits
<1>4. CASE GivenUp(r)
  BY <1>4, UnderWay, UnavailableFacts DEF GivenUp, Waits, Nested
<1>5. CASE SentToWait(r)
  BY <1>5, UnderWay DEF SentToWait, Counted, Active, Waits, Nested
<1>6. CASE Lookup(r)
  BY <1>6, UnderWay DEF Lookup, Counted, Active, Nested, Done, TypeOK
<1> QED
  BY <1>1, <1>2, <1>3, <1>4, <1>5, <1>6, Fates

(* The answer or the failure of a fetch reaches everyone who shares it.      *)
LEMMA WaitersStep == Inv /\ [Next]_vars => Waiters'
<1> SUFFICES ASSUME Inv, [Next]_vars, NEW r \in Requests, req'[r].step \in Waits
             PROVE  (fetch[req[r].at] # "none" /\ ~(fresh(req[r].at) /\ Known(r)))'
  BY DEF Waiters
<1> TypeOK /\ Waiters
  BY DEF Inv
<1>1. CASE req'[r] = req[r]
  <2> DEFINE v == req[r].at
  <2>1. v \in Verifiers /\ fetch[v] # "none" /\ ~(fresh(v) /\ Known(r))
    BY <1>1, UnderWay DEF Waiters, Waits
  <2>2. Waiting(r, v) /\ Unavailable(req[r]) # req[r]
        /\ \A ks : Verdict(req[r], ks) # req[r]
    BY <1>1, UnderWay, UnavailableFacts, VerdictFacts DEF Waiting, Waits
  <2> DEFINE Kept == fetch'[v] # "none" /\ cache'[v] = cache[v] /\ cacheAge'[v] >= cacheAge[v]
  <2> cacheAge[v] \in 0..CacheOld
    BY <2>1 DEF TypeOK
  <2>3. ASSUME UNCHANGED <<cache, cacheAge>>, fetch'[v] # "none" PROVE Kept
    BY <2>3, Ages
  <2>4. ASSUME NEW u \in Verifiers, FetchReturns(u) \/ FetchFails(u) PROVE Kept
    <3>1. u # v
      BY <1>1, <2>2, <2>4 DEF FetchReturns, FetchFails
    <3> QED
      BY <2>1, <2>4, <3>1, Ages DEF FetchReturns, FetchFails, FetchOver, TypeOK
  <2>5. ASSUME Tick PROVE Kept
    <3>1. cacheAge'[v] = Min({cacheAge[v] + 1, CacheOld})
      BY <2>1, <2>5 DEF Tick
    <3>2. Min({cacheAge[v] + 1, CacheOld}) >= cacheAge[v]
      BY Ages, MinOfTwo
    <3>3. fetch'[v] # "none" /\ cache'[v] = cache[v]
      BY <2>1, <2>5 DEF Tick
    <3> QED
      BY <3>1, <3>2, <3>3, ZenonT(60)
  <2>6. ASSUME NEW q \in Requests, Verify(q) PROVE UNCHANGED <<cache, cacheAge>> /\ fetch'[v] # "none"
    BY <2>1, <2>6 DEF Verify, Reload, Decide, keys, TypeOK
  <2>7. ASSUME NEW u \in Verifiers, Serve(u) PROVE UNCHANGED <<cache, cacheAge>> /\ fetch'[v] # "none"
    BY <2>1, <2>7 DEF Serve, TypeOK
  <2>8. Kept
    BY <2>1, <2>3, <2>4, <2>5, <2>6, <2>7, ZenonT(60)
       DEF Next, Arrive, ArriveWithoutToken, Lookup, LookupTimeout, ChangeKey, vars, keys
  <2>9. fresh(v)' => fresh(v)
    BY <1>1, <2>1, <2>8, Ages, TypeStep, ConstantsAssumption DEF fresh, TypeOK
  <2> QED
    BY <1>1, <2>1, <2>8, <2>9 DEF Known
<1>2. CASE SentToWait(r)
  <2>1. req'[r].at = req[r].at /\ req'[r].key = req[r].key
    BY <1>2, UnderWay DEF SentToWait, Active
  <2> QED
    BY <1>2, <2>1 DEF SentToWait, fresh, Known
<1>3. CASE Arrives(r) \/ Lookup(r)
  <2>1. req'[r].step \in {"verify", "done"}
    BY <1>3, UnderWay DEF Arrives, Arrive, ArriveWithoutToken, Lookup, Active, TypeOK, Done
  <2> QED
    BY <2>1 DEF Waits
<1>4. ASSUME NEW ks, Decided(r, ks) PROVE FALSE
  BY <1>4, UnderWay, VerdictFacts DEF Decided, HeldKeys, NewKeys, Waits
<1>5. CASE GivenUp(r)
  BY <1>5, UnderWay, UnavailableFacts DEF GivenUp, Waits
<1> QED
  BY <1>1, <1>2, <1>3, <1>4, <1>5, Fates

-----------------------------------------------------------------------------
(* The invariant holds before anything is fetched.                           *)
LEMMA InitInv == Init => Inv
<1> SUFFICES ASSUME Init PROVE Inv
  OBVIOUS
<1> USE ConstantsAssumption DEF Init
<1>1. \A r \in Requests : req[r] \in Ends /\ req[r].step = "done"
  BY DEF Done, Ends
<1>2. TypeOK
  BY <1>1, Ages DEF TypeOK
<1>3. Waiters /\ Counted
  BY <1>1 DEF Waiters, Counted, Waits
<1>4. Recent
  BY Ages DEF Recent
<1> QED
  BY <1>2, <1>3, <1>4 DEF Inv

(* Every step keeps the invariant.                                           *)
LEMMA NextInv == Inv /\ [Next]_vars => Inv'
BY TypeStep, WaitersStep, RecentStep, CountedStep DEF Inv

(* The clauses hold in every state of the four verifiers.                    *)
THEOREM Inductive == Spec => []Inv
BY InitInv, NextInv, PTL DEF Spec

(* The keys a request is decided with differ from what Keycloak publishes    *)
(* only in keys that changed a short while ago.                              *)
LEMMA KeysInUse ==
  ASSUME Inv, NEW r \in Requests, NEW ks, Decided(r, ks)
  PROVE  LET k == req[r].key IN
           /\ req[r] \in Active
           /\ k \in ks => k \in published \/ keyAge[k] < TTL + TIMEOUT
           /\ k \notin ks => k \notin published \/ keyAge[k] < COOLDOWN + TIMEOUT
<1> DEFINE v == req[r].at
           k == req[r].key
<1> TypeOK /\ Recent
  BY DEF Inv
<1>1. req[r] \in Active /\ v \in Verifiers /\ k \in Keys
  BY UnderWay DEF Decided, HeldKeys, NewKeys, Waits
<1>2. keyAge[k] \in Nat /\ cacheAge[v] \in Nat /\ fetchAge[v] \in 0..TIMEOUT
  BY <1>1 DEF TypeOK
<1>3. CASE HeldKeys(r) /\ ks = cache[v]
  <2>1. /\ cacheAge[v] < CacheOld /\ cacheAge[v] < TTL
        /\ k \notin cache[v] => cacheAge[v] < COOLDOWN
    BY <1>2, <1>3, Ages, ConstantsAssumption DEF HeldKeys, fresh, Known, coolingDown
  <2>2. (k \in cache[v] <=> k \in published) \/ keyAge[k] <= cacheAge[v] + TIMEOUT
    BY <1>1, <2>1 DEF Recent
  <2> HIDE DEF v, k
  <2> QED
    BY <1>1, <1>2, <1>3, <2>1, <2>2, ConstantsAssumption DEF k
<1>4. CASE NewKeys(r) /\ ks = reply[v]
  <2>1. (k \in reply[v] <=> k \in published) \/ keyAge[k] <= fetchAge[v]
    BY <1>1, <1>4 DEF NewKeys, Recent
  <2> HIDE DEF v, k
  <2> QED
    BY <1>1, <1>2, <1>4, <2>1, ConstantsAssumption DEF k
<1> QED
  BY <1>3, <1>4 DEF Decided

(* A withdrawn key is accepted for the lifetime of a cache and the duration  *)
(* of a fetch, and no longer, by any of the verifiers.                       *)
THEOREM WithdrawnKeysExpire == Spec => AcceptedKeysRecent
<1> DEFINE Goal(r) == req[r].key \in published \/ keyAge[req[r].key] < TTL + TIMEOUT
<1>1. ASSUME Inv, [Next]_vars, NEW r \in Requests, Vouched(r) PROVE Goal(r)
  <2> TypeOK
    BY <1>1 DEF Inv
  <2>1. req[r] \in Active
    BY <1>1, UnderWay DEF Vouched, Checking, Waits
  <2>2. ASSUME NEW ks, Decided(r, ks) PROVE Goal(r)
    <3>1. CASE req[r].key \in ks
      BY <1>1, <2>2, <3>1, KeysInUse
    <3>2. CASE req[r].key \notin ks
      BY <1>1, <2>1, <2>2, <3>2, VerdictFacts DEF Decided, Vouched, Refuse, Done
    <3> QED
      BY <3>1, <3>2
  <2>3. ~GivenUp(r)
    BY <1>1, <2>1, UnavailableFacts DEF GivenUp, Vouched, Nested
  <2>4. ~SentToWait(r)
    BY <1>1, <2>1 DEF SentToWait, Vouched, Active, Checking, Waits
  <2>5. ~Arrives(r) /\ ~Lookup(r) /\ req'[r] # req[r]
    BY <1>1, <2>1 DEF Arrives, Arrive, ArriveWithoutToken, Lookup, Vouched, Checking, Waits
  <2> QED
    BY <1>1, <2>2, <2>3, <2>4, <2>5, Fates
<1>2. Inv /\ [Next]_vars => [\A r \in Requests : Vouched(r) => Goal(r)]_vars
  BY <1>1
<1> QED
  BY Inductive, <1>2, PTL DEF Spec, AcceptedKeysRecent

(* A token signed with a new key is refused for the cooldown and the         *)
(* duration of a fetch, and no longer, anywhere on its route.                *)
THEOREM RotationCompletes == Spec => RotationVisible
<1> DEFINE Goal(r) == \/ req[r].claims = "invalid" \/ req[r].key \notin published
                      \/ keyAge[req[r].key] < COOLDOWN + TIMEOUT
<1>1. ASSUME Inv, [Next]_vars, NEW r \in Requests, EndsAs(r, "refused") PROVE Goal(r)
  <2> TypeOK
    BY <1>1 DEF Inv
  <2>1. req[r] \in Active
    BY <1>1, UnderWay DEF EndsAs
  <2>2. ASSUME NEW ks, Decided(r, ks) PROVE Goal(r)
    BY <1>1, <2>1, <2>2, KeysInUse, VerdictFacts DEF Decided, EndsAs
  <2>3. ~GivenUp(r)
    BY <1>1, <2>1, UnavailableFacts DEF GivenUp, EndsAs
  <2>4. ~SentToWait(r)
    BY <1>1, <2>1 DEF SentToWait, EndsAs, Active, Waits
  <2>5. ~Arrives(r) /\ ~Lookup(r) /\ req'[r] # req[r]
    BY <1>1, <2>1 DEF Arrives, Arrive, ArriveWithoutToken, Lookup, EndsAs, TypeOK, Done, Active
  <2> QED
    BY <1>1, <2>2, <2>3, <2>4, <2>5, Fates
<1>2. Inv /\ [Next]_vars => [\A r \in Requests : EndsAs(r, "refused") => Goal(r)]_vars
  BY <1>1
<1> QED
  BY Inductive, <1>2, PTL DEF Spec, RotationVisible

(* An outage of Keycloak is noticed only by requests whose key is not in a   *)
(* fresh cache.                                                              *)
THEOREM OutageSurvived == Spec => WarmCacheSurvivesOutage
<1> DEFINE Goal(r) == ~(fresh(req[r].at) /\ Known(r))
<1>1. ASSUME Inv, [Next]_vars, NEW r \in Requests, EndsAs(r, "unavailable") PROVE Goal(r)
  <2> TypeOK /\ Waiters
    BY <1>1 DEF Inv
  <2>1. req[r] \in Active
    BY <1>1, UnderWay DEF EndsAs
  <2>2. ASSUME NEW ks, Decided(r, ks) PROVE FALSE
    BY <1>1, <2>1, <2>2, VerdictFacts DEF Decided, EndsAs
  <2>3. CASE GivenUp(r)
    BY <1>1, <2>3 DEF GivenUp, Waiters
  <2>4. ~SentToWait(r)
    BY <1>1, <2>1 DEF SentToWait, EndsAs, Active, Waits
  <2>5. ~Arrives(r) /\ ~Lookup(r) /\ req'[r] # req[r]
    BY <1>1, <2>1 DEF Arrives, Arrive, ArriveWithoutToken, Lookup, EndsAs, TypeOK, Done, Active
  <2> QED
    BY <1>1, <2>2, <2>3, <2>4, <2>5, Fates
<1>2. Inv /\ [Next]_vars => [\A r \in Requests : EndsAs(r, "unavailable") => Goal(r)]_vars
  BY <1>1
<1> QED
  BY Inductive, <1>2, PTL DEF Spec, WarmCacheSurvivesOutage
=============================================================================
