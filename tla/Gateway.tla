------------------------------- MODULE Gateway -------------------------------
(***************************************************************************)
(* The api-gateway: the middleware chain of createGateway.  A request gets   *)
(* its start time (requestId), is counted (limiter), is routed and           *)
(* authenticated (router, authenticate), is forwarded by the proxy and ends  *)
(* with the upstream's answer or with an error of the gateway's own (fail).  *)
(*                                                                         *)
(* Time is kept as ages, counted no further than the code can tell apart.    *)
(* Token verification is its outcome and its duration; TokenVerifier models  *)
(* it.                                                                       *)
(***************************************************************************)
EXTENDS Integers, FiniteSets, FiniteSetsExt

CONSTANTS
  Requests,  \* connections; each carries one request after the other
  Clients,   \* socket addresses
  LIMIT,     \* RATE_LIMIT_PER_MINUTE
  WINDOW,    \* windowMs
  UPSTREAM,  \* UPSTREAM_TIMEOUT_MS
  TOLERANCE, \* the 50 ms by which a timer may be early
  GUARD,     \* the 5000 ms the client socket's timeout adds
  AUTH       \* AUTH_JWKS_TIMEOUT_MS: the longest a verification takes

ASSUME ConstantsAssumption ==
  /\ LIMIT \in Nat \ {0} /\ WINDOW \in Nat \ {0} /\ UPSTREAM \in Nat \ {0}
  /\ TOLERANCE \in 0..UPSTREAM /\ GUARD \in Nat \ {0} /\ AUTH \in Nat \ {0}

VARIABLES
  step,      \* step[r]: done, auth, proxy, streaming, or stalled
  status,    \* status[r]: 0 until the client has a status line
  age,       \* age[r]: time since startedAt
  idle,      \* idle[r]: time since the upstream's socket was last active
  hits,      \* hits[c]: requests counted in client c's window
  windowAge, \* windowAge[c]: time since that window began
  passed     \* history: passed[c][a]: requests let through in the last a + 1 ticks

request == <<step, status, age, idle>>
limit   == <<hits, windowAge, passed>>
vars    == <<request, limit>>

\* A response of the upstream, a socket the gateway destroyed before any
\* response, and one its client closed before any.
FORWARDED == 200
CUT == 999
LEFT == 998

proxyTimeout == UPSTREAM

\* Mutant: the guard of the client socket is as long as the upstream timeout.
guardAsLong == UPSTREAM

guardTimeout == UPSTREAM + GUARD

AgeMax == AUTH + UPSTREAM
BurstMax == 2 * LIMIT + 1

Init ==
  /\ step = [r \in Requests |-> "done"]
  /\ status = [r \in Requests |-> 404]
  /\ age = [r \in Requests |-> 0] /\ idle = [r \in Requests |-> 0]
  /\ hits = [c \in Clients |-> 0]
  /\ windowAge = [c \in Clients |-> WINDOW]
  /\ passed = [c \in Clients |-> [a \in 0..WINDOW - 1 |-> 0]]

-----------------------------------------------------------------------------
Become(r, s, code) ==
  /\ step' = [step EXCEPT ![r] = s]
  /\ status' = [status EXCEPT ![r] = code]

\* A request enters: its clocks start.
Enter(r, s, code) ==
  /\ step[r] = "done"
  /\ Become(r, s, code)
  /\ age' = [age EXCEPT ![r] = 0]
  /\ idle' = [idle EXCEPT ![r] = 0]

(* A probe is neither counted nor authenticated nor forwarded.               *)
EnterHealth(r) ==
  /\ Enter(r, "done", FORWARDED)
  /\ UNCHANGED limit

\* Mutant: one request too many is let through.
overLimitByOne(n) == n > LIMIT + 1

overLimit(n) == n > LIMIT

\* The request is counted in its client's window, or begins a new one.
Count(c) == IF windowAge[c] >= WINDOW THEN 1 ELSE hits[c] + 1

(* Any other request: counted, refused when its client is over the limit,    *)
(* passed to the framework's 404 when no prefix matches, refused without a   *)
(* bearer token, and else handed to the verifier.                            *)
EnterCounted(r, c) ==
  /\ hits' = [hits EXCEPT ![c] = Min({Count(c), LIMIT + 2})]
  /\ windowAge' = [windowAge EXCEPT ![c] = IF @ >= WINDOW THEN 0 ELSE @]
  /\ \/ /\ overLimit(Count(c))
        /\ Enter(r, "done", 429)
        /\ UNCHANGED passed
     \/ /\ ~overLimit(Count(c))
        /\ Enter(r, "done", 404) \/ Enter(r, "done", 401) \/ Enter(r, "auth", 0)
        /\ passed' = [passed EXCEPT ![c] = [a \in 0..WINDOW - 1 |-> Min({passed[c][a] + 1, BurstMax})]]

(* The verifier is done: 401, 503, or on to the proxy.                       *)
Verified(r) ==
  /\ step[r] = "auth"
  /\ Become(r, "done", 401) \/ Become(r, "done", 503) \/ Become(r, "proxy", 0)
  /\ UNCHANGED <<age, idle, limit>>

(* The upstream's response begins and is passed on.                          *)
UpstreamResponds(r) ==
  /\ step[r] = "proxy"
  /\ Become(r, "streaming", FORWARDED)
  /\ idle' = [idle EXCEPT ![r] = 0]
  /\ UNCHANGED <<age, limit>>

(* More of the response, or its end.                                         *)
UpstreamSends(r) ==
  /\ step[r] = "streaming"
  /\ Become(r, "streaming", FORWARDED) \/ Become(r, "done", FORWARDED)
  /\ idle' = [idle EXCEPT ![r] = 0]
  /\ UNCHANGED <<age, limit>>

\* Mutant: the proxy's timer is expected never to be early.
timedOutExactly(r) == age[r] >= UPSTREAM

timedOut(r) == age[r] >= UPSTREAM - TOLERANCE

\* The proxy's error handler: an error of the gateway's own, or the end of a
\* response that has begun.
OnError(r) ==
  Become(r, "done",
    IF status[r] # 0 THEN status[r] ELSE IF timedOut(r) THEN 504 ELSE 502)

(* The upstream is unreachable or drops the connection before it responds.   *)
UpstreamFails(r) ==
  /\ step[r] = "proxy"
  /\ OnError(r)
  /\ UNCHANGED <<age, idle, limit>>

(* proxyTimeout expires, at most TOLERANCE early.                            *)
ProxyTimer(r) ==
  /\ step[r] = "proxy" /\ idle[r] >= proxyTimeout - TOLERANCE
  /\ OnError(r)
  /\ UNCHANGED <<age, idle, limit>>

(* The upstream's connection ends in the middle of its response: the error   *)
(* handler ends the client's, or nobody is told.                             *)
StreamBreaks(r) ==
  /\ step[r] = "streaming"
  /\ OnError(r) \/ Become(r, "stalled", FORWARDED)
  /\ UNCHANGED <<age, idle, limit>>

\* Mutant: the guard only watches for the upstream's response.
GuardTimerOnce(r) ==
  /\ step[r] = "proxy" /\ idle[r] >= guardTimeout
  /\ Become(r, "done", CUT)
  /\ UNCHANGED <<age, idle, limit>>

(* The client's socket has been silent for too long and is destroyed.        *)
GuardTimer(r) ==
  /\ step[r] \in {"proxy", "streaming", "stalled"} /\ idle[r] >= guardTimeout
  /\ Become(r, "done", IF status[r] = 0 THEN CUT ELSE status[r])
  /\ UNCHANGED <<age, idle, limit>>

(* The client goes away; the proxy drops the upstream's connection.  (While  *)
(* the token is verified nobody listens: the request is forwarded all the    *)
(* same.)                                                                    *)
ClientLeaves(r) ==
  /\ step[r] \in {"proxy", "streaming", "stalled"}
  /\ Become(r, "done", IF status[r] = 0 THEN LEFT ELSE status[r])
  /\ UNCHANGED <<age, idle, limit>>

\* No timer of request r is due.
InTime(r) ==
  /\ step[r] = "auth" => age[r] < AUTH
  /\ step[r] = "proxy" => idle[r] < proxyTimeout
  /\ step[r] \in {"streaming", "stalled"} => idle[r] < guardTimeout

(* Time passes.                                                              *)
Tick ==
  /\ \A r \in Requests : InTime(r)
  /\ age' = [r \in Requests |->
       IF step[r] \in {"auth", "proxy"} THEN Min({age[r] + 1, AgeMax}) ELSE age[r]]
  /\ idle' = [r \in Requests |->
       IF step[r] \in {"proxy", "streaming", "stalled"} THEN idle[r] + 1 ELSE idle[r]]
  /\ windowAge' = [c \in Clients |-> Min({windowAge[c] + 1, WINDOW})]
  /\ passed' = [c \in Clients |->
       [a \in 0..WINDOW - 1 |-> IF a = 0 THEN 0 ELSE passed[c][a - 1]]]
  /\ UNCHANGED <<step, status, hits>>

-----------------------------------------------------------------------------
Next ==
  \/ \E r \in Requests : EnterHealth(r) \/ \E c \in Clients : EnterCounted(r, c)
  \/ \E r \in Requests : Verified(r) \/ UpstreamResponds(r) \/ UpstreamSends(r)
  \/ \E r \in Requests : UpstreamFails(r) \/ StreamBreaks(r) \/ ClientLeaves(r)
  \/ \E r \in Requests : ProxyTimer(r) \/ GuardTimer(r)
  \/ Tick

(* Time passes, timers fire and a verification ends.  Clients and upstreams  *)
(* owe nothing.                                                              *)
Spec ==
  /\ Init /\ [][Next]_vars
  /\ WF_vars(Tick)
  /\ \A r \in Requests :
       WF_vars(Verified(r)) /\ WF_vars(ProxyTimer(r)) /\ WF_vars(GuardTimer(r))

-----------------------------------------------------------------------------
(* Every variable has its type.                                              *)
TypeOK ==
  /\ step \in [Requests -> {"done", "auth", "proxy", "streaming", "stalled"}]
  /\ status \in [Requests -> {0, FORWARDED, 401, 404, 429, 502, 503, 504, CUT, LEFT}]
  /\ age \in [Requests -> 0..AgeMax] /\ idle \in [Requests -> 0..guardTimeout]
  /\ hits \in [Clients -> 0..LIMIT + 2] /\ windowAge \in [Clients -> 0..WINDOW]
  /\ passed \in [Clients -> [0..WINDOW - 1 -> 0..BurstMax]]

(* An upstream that was given its whole time is never reported as            *)
(* unreachable (502).                                                        *)
SlowIsNotUnreachable ==
  \A r \in Requests : status[r] = 502 => idle[r] < proxyTimeout - TOLERANCE

(* The timeout of the client's socket never cuts a client off before it has  *)
(* a status: "otherwise the socket is destroyed before the 504".             *)
NeverCutOff == \A r \in Requests : status[r] # CUT

(* The limiter's window begins with a client's first request and ends after  *)
(* a minute, whatever came late in it.  So in any minute a client gets at    *)
(* most two windows' worth of requests past the limiter: what it holds to,   *)
(* and less than README.md:24 says (LimitPerMinute).                         *)
BurstBounded ==
  \A c \in Clients : passed[c][WINDOW - 1] <= 2 * LIMIT

(* "RATE_LIMIT_PER_MINUTE requests per client per minute, 429 beyond that"   *)
(* (services/api-gateway/README.md:24), for any minute.  It does not hold;   *)
(* the README tells of it.                                                   *)
LimitPerMinute ==
  \A c \in Clients : passed[c][WINDOW - 1] <= LIMIT

(* A request does not stay with the verifier, an upstream that does not      *)
(* respond, or a broken response.                                            *)
NoRequestHangs ==
  \A r \in Requests :
    step[r] \in {"auth", "proxy", "stalled"} ~> step[r] \in {"streaming", "done"}

(* A 504 is the answer for an upstream that was given its whole time; the    *)
(* README tells of it.                                                       *)
TimeoutMeansSlow ==
  \A r \in Requests : status[r] = 504 => idle[r] >= proxyTimeout - TOLERANCE
=============================================================================
