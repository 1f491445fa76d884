------------------------------- MODULE OrderPath -------------------------------
(***************************************************************************)
(* POST /v1/orders behind the gateway, in time: the Gateway in front, and     *)
(* behind it create() of the order-service as the sequence of its awaits,    *)
(* each with the limit the code gives it.  The two clocks that matter are    *)
(* the gateway's proxyTimeout and the sum of those limits.                   *)
(*                                                                         *)
(* Requests for other routes are answered whenever their upstream pleases.   *)
(***************************************************************************)
EXTENDS Gateway

CONSTANTS
  JWKS,     \* AUTH_JWKS_TIMEOUT_MS of the order-service
  CACHE,    \* commandTimeout of Redis
  LOOKUP,   \* USER_LOOKUP_TIMEOUT_MS
  CONNECT,  \* CONNECT_TIMEOUT_MS of the EventPublisher
  CONFIRM,  \* CONFIRM_TIMEOUT_MS of the EventPublisher
  DATABASE, \* assumed: the longest a query or a transaction takes
  BROKER    \* assumed: the longest a connected broker takes to open a channel

ASSUME LimitsAssumption ==
  \A t \in {JWKS, CACHE, LOOKUP, CONNECT, CONFIRM, DATABASE, BROKER} : t \in Nat

VARIABLES
  job,    \* job[r]: the await create() is suspended at, answered, or none
  tries,  \* tries[r]: lookups sent to the user-service
  jobAge  \* jobAge[r]: for how long it has been suspended there

create == <<job, tries, jobAge>>
allVars == <<vars, create>>

\* Mutant: two retries.
ATTEMPTSThree == 3

ATTEMPTS == 2

Limit == [guard |-> JWKS, find |-> DATABASE, cache |-> CACHE, fetch |-> LOOKUP, set |-> CACHE,
          transaction |-> DATABASE, refind |-> DATABASE,
          channel |-> CONNECT + BROKER, confirm |-> CONFIRM]

\* What an await of create() can be followed by, whether it succeeds, fails or
\* is ended by its limit.
Follows == [guard       |-> {"find", "cache", "answered"},
            find        |-> {"cache", "answered"},
            cache       |-> {"fetch", "transaction"},
            fetch       |-> {"fetch", "set", "answered"},
            set         |-> {"transaction"},
            transaction |-> {"channel", "refind", "answered"},
            refind      |-> {"answered"},
            channel     |-> {"confirm", "answered"},
            confirm     |-> {"answered"}]
Busy == DOMAIN Follows

OrderInit ==
  /\ Init
  /\ job = [r \in Requests |-> "none"]
  /\ tries = [r \in Requests |-> 0] /\ jobAge = [r \in Requests |-> 0]

At(r, s) == job' = [job EXCEPT ![r] = s] /\ jobAge' = [jobAge EXCEPT ![r] = 0]

(* A request enters.  The connection of a create() that nobody waits for any *)
(* more is not used again before that has ended.                             *)
EnterAny(r) ==
  /\ job[r] = "none"
  /\ EnterHealth(r) \/ \E c \in Clients : EnterCounted(r, c)
  /\ UNCHANGED create

(* The gateway's verification ends; a forwarded request may be an order.     *)
Forward(r) ==
  /\ Verified(r)
  /\ \/ step'[r] = "proxy" /\ At(r, "guard") /\ tries' = [tries EXCEPT ![r] = 0]
     \/ UNCHANGED create

(* create() goes on to its next await, or answers.                           *)
Advance(r) ==
  /\ job[r] \in Busy
  /\ \E s \in Follows[job[r]] :
       /\ s = "fetch" => tries[r] < ATTEMPTS
       /\ At(r, s)
       /\ tries' = [tries EXCEPT ![r] = IF s = "fetch" THEN @ + 1 ELSE @]
  /\ UNCHANGED vars

(* The answer reaches the gateway, which may have given up waiting for it.   *)
Answer(r) ==
  /\ job[r] = "answered"
  /\ IF step[r] = "proxy" THEN UpstreamResponds(r) ELSE UNCHANGED vars
  /\ At(r, "none") /\ tries' = [tries EXCEPT ![r] = 0]

(* Another upstream responds; any upstream's connection can fail.            *)
OtherResponds(r) == job[r] = "none" /\ UpstreamResponds(r) /\ UNCHANGED create

GatewayStep(r) ==
  /\ \/ UpstreamSends(r) \/ UpstreamFails(r) \/ StreamBreaks(r) \/ ClientLeaves(r)
     \/ ProxyTimer(r) \/ GuardTimer(r)
  /\ UNCHANGED create

(* Time passes: no await of create() outlives its limit, and its answer is    *)
(* sent at once.                                                             *)
OrderTick ==
  /\ \A r \in Requests : /\ job[r] # "answered"
                         /\ job[r] \in Busy => jobAge[r] < Limit[job[r]]
  /\ Tick
  /\ jobAge' = [r \in Requests |-> IF job[r] \in Busy THEN jobAge[r] + 1 ELSE 0]
  /\ UNCHANGED <<job, tries>>

OrderNext ==
  \/ \E r \in Requests : \/ EnterAny(r) \/ Forward(r) \/ Advance(r) \/ Answer(r)
                         \/ OtherResponds(r) \/ GatewayStep(r)
  \/ OrderTick

(* Time passes, timers fire, verifications and awaits end.  Clients and       *)
(* other upstreams owe nothing.                                              *)
OrderSpec ==
  /\ OrderInit /\ [][OrderNext]_allVars
  /\ WF_allVars(OrderTick)
  /\ \A r \in Requests :
       /\ WF_allVars(Forward(r)) /\ WF_allVars(Advance(r)) /\ WF_allVars(Answer(r))
       /\ WF_allVars(ProxyTimer(r) /\ UNCHANGED create)
       /\ WF_allVars(GuardTimer(r) /\ UNCHANGED create)

-----------------------------------------------------------------------------
\* The longest way through create(): with a key, an unhelpful cache, a lookup
\* that is repeated, and the slower of the two ways to end.
SlowestCreate ==
  JWKS + DATABASE + CACHE + 2 * LOOKUP + CACHE + DATABASE
    + Max({DATABASE, CONNECT + BROKER + CONFIRM})

(* The gateway's timer never runs out on an order that create() is working   *)
(* on.  With the default limits it can; the README tells of it.              *)
OrderGetsItsTime ==
  \A r \in Requests :
    step[r] = "proxy" /\ job[r] # "none" => idle[r] < proxyTimeout - TOLERANCE

(* "Must exceed the slowest legitimate upstream call": while it does, no     *)
(* client gets a 504 for an order that is about to be committed, however     *)
(* create() spends the limits of its awaits.                                 *)
WaitsForSlowestOrder == UPSTREAM - TOLERANCE > SlowestCreate => OrderGetsItsTime
=============================================================================
