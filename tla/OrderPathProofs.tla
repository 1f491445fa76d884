--------------------------- MODULE OrderPathProofs ---------------------------
(***************************************************************************)
(* What the gateway promises for any limits, clients and connections, and   *)
(* for orders however create() spends the limits of its awaits.             *)
(***************************************************************************)
EXTENDS OrderPath, TLAPS

\* What the client of a request under way has been told, and which clocks run.
UnderWay ==
  \A r \in Requests :
    /\ step[r] \in {"auth", "proxy"} => status[r] = 0
    /\ step[r] \in {"streaming", "stalled"} => status[r] = FORWARDED
    /\ step[r] = "auth" => idle[r] = 0
    /\ step[r] = "proxy" => idle[r] <= proxyTimeout /\ idle[r] <= age[r]
    /\ status[r] = 502 => step[r] = "done" /\ idle[r] < proxyTimeout - TOLERANCE
    /\ status[r] # CUT

\* The window of a client that is over has let nothing through in this tick.
\* Requests that are as old as the window are counted in it, older ones were
\* counted in the window before.
Window(c) ==
  /\ windowAge[c] = WINDOW => passed[c][0] = 0
  /\ \A a \in 0..WINDOW - 1 :
       /\ passed[c][a] <= LIMIT + hits[c] /\ passed[c][a] <= 2 * LIMIT
       /\ a <= windowAge[c] => passed[c][a] <= hits[c] /\ passed[c][a] <= LIMIT
Windows == \A c \in Clients : Window(c)

\* The most that create() can have spent when it begins to wait at await w
\* having sent n lookups.
Lookups == JWKS + DATABASE + CACHE
Spent(w, n) ==
  CASE w = "guard" -> 0
    [] w = "find" -> JWKS
    [] w = "cache" -> JWKS + DATABASE
    [] w = "fetch" -> IF n = 1 THEN Lookups ELSE Lookups + LOOKUP
    [] w = "set" -> Lookups + 2 * LOOKUP
    [] w = "transaction" -> Lookups + 2 * LOOKUP + CACHE
    [] w = "refind" -> Lookups + 2 * LOOKUP + CACHE + DATABASE
    [] w = "channel" -> Lookups + 2 * LOOKUP + CACHE + DATABASE
    [] w = "confirm" -> Lookups + 2 * LOOKUP + CACHE + DATABASE + CONNECT + BROKER
    [] OTHER -> SlowestCreate

JobTypes ==
  /\ job \in [Requests -> Busy \cup {"none", "answered"}]
  /\ tries \in [Requests -> 0..2] /\ jobAge \in [Requests -> Nat]
InBudget(r) ==
  /\ job[r] \in Busy => jobAge[r] <= Limit[job[r]]
  /\ job[r] = "answered" => jobAge[r] = 0
  /\ job[r] = "fetch" => tries[r] # 0
  /\ step[r] = "auth" => job[r] = "none"
  /\ step[r] = "proxy" /\ job[r] # "none" => idle[r] <= Spent(job[r], tries[r]) + jobAge[r]
Progress == JobTypes /\ \A r \in Requests : InBudget(r)

GatewayInv == TypeOK /\ UnderWay /\ Windows
Inv == GatewayInv /\ Progress

-----------------------------------------------------------------------------
(* The smaller of two numbers.                                               *)
LEMMA MinOfTwo ==
  ASSUME NEW a \in Int, NEW b \in Int
  PROVE  Min({a, b}) = IF a <= b THEN a ELSE b
BY DEF Min

(* The greater of two numbers.                                               *)
LEMMA MaxOfTwo ==
  ASSUME NEW a \in Int, NEW b \in Int
  PROVE  Max({a, b}) = IF a >= b THEN a ELSE b
BY DEF Max

\* The steps of a request that has entered.
Goes(r) ==
  \/ Verified(r) \/ UpstreamResponds(r) \/ UpstreamSends(r) \/ UpstreamFails(r)
  \/ StreamBreaks(r) \/ ClientLeaves(r) \/ ProxyTimer(r) \/ GuardTimer(r)
Enters(r) == EnterHealth(r) \/ \E c \in Clients : EnterCounted(r, c)

(* A request enters, a request goes on, or time passes.                      *)
LEMMA GatewayKinds ==
  ASSUME [Next]_vars
  PROVE  (\E r \in Requests : Enters(r) \/ Goes(r)) \/ Tick \/ UNCHANGED vars
BY DEF Next, Enters, Goes

(* A request that enters is answered at once or goes on to the token check.  *)
LEMMA EntersAs ==
  ASSUME NEW r \in Requests, Enters(r)
  PROVE  \/ Enter(r, "done", FORWARDED) \/ Enter(r, "done", 429) \/ Enter(r, "done", 404)
         \/ Enter(r, "done", 401) \/ Enter(r, "auth", 0)
<1>1. CASE EnterHealth(r)
  BY <1>1 DEF EnterHealth
<1>2. ASSUME NEW c \in Clients, EnterCounted(r, c)
      PROVE  \/ Enter(r, "done", 429) \/ Enter(r, "done", 404)
             \/ Enter(r, "done", 401) \/ Enter(r, "auth", 0)
  BY <1>2 DEF EnterCounted
<1> QED
  BY <1>1, <1>2 DEF Enters

(* A step of one request leaves the others alone.                            *)
LEMMA Alone ==
  ASSUME TypeOK, NEW r \in Requests, Enters(r) \/ Goes(r), NEW q \in Requests, q # r
  PROVE  step'[q] = step[q] /\ status'[q] = status[q] /\ age'[q] = age[q] /\ idle'[q] = idle[q]
<1> USE DEF TypeOK, Become
<1>1. CASE Enters(r)
  BY <1>1, EntersAs DEF Enter
<1>2. CASE Goes(r)
  BY <1>2 DEF Goes, Verified, UpstreamResponds, UpstreamSends, UpstreamFails, StreamBreaks,
     ClientLeaves, ProxyTimer, GuardTimer, OnError
<1> QED
  BY <1>1, <1>2

Codes == {0, FORWARDED, 401, 404, 429, 502, 503, 504, LEFT}

(* A request enters with its clocks at zero, waiting or answered.            *)
LEMMA EntersFacts ==
  ASSUME TypeOK, NEW r \in Requests, Enters(r)
  PROVE  /\ step[r] = "done" /\ step'[r] \in {"auth", "done"}
         /\ status'[r] \in Codes \ {502}
         /\ step'[r] = "auth" => status'[r] = 0
         /\ age'[r] = 0 /\ idle'[r] = 0
BY EntersAs DEF TypeOK, Enter, Become, Codes, FORWARDED, LEFT

(* A request that has entered is forwarded, responded to or ended, and the   *)
(* error handler tells a slow upstream from one it cannot reach.             *)
LEMMA GoesFacts ==
  ASSUME TypeOK, UnderWay, NEW r \in Requests, Goes(r)
  PROVE  /\ UNCHANGED <<age, limit>>
         /\ step[r] # "done" /\ step'[r] \in {"proxy", "streaming", "stalled", "done"}
         /\ step'[r] = "proxy" => step[r] = "auth" /\ status'[r] = 0 /\ idle'[r] = idle[r]
         /\ step'[r] \in {"streaming", "stalled"} => status'[r] = FORWARDED
         /\ status'[r] \in Codes /\ idle'[r] \in {idle[r], 0}
         /\ status'[r] = 502 => step'[r] = "done" /\ idle'[r] < proxyTimeout - TOLERANCE
<1> USE ConstantsAssumption DEF TypeOK, Become, FORWARDED, CUT, LEFT, Codes
<1>1. CASE Verified(r)
  BY <1>1 DEF Verified
<1>2. CASE UpstreamResponds(r) \/ UpstreamSends(r)
  BY <1>2 DEF UpstreamResponds, UpstreamSends
<1>3. CASE UpstreamFails(r) \/ ProxyTimer(r)
  BY <1>3 DEF UpstreamFails, ProxyTimer, OnError, timedOut, UnderWay, proxyTimeout, AgeMax,
     guardTimeout
<1>4. CASE StreamBreaks(r)
  BY <1>4 DEF StreamBreaks, OnError, UnderWay
<1>5. CASE ClientLeaves(r)
  BY <1>5 DEF ClientLeaves, UnderWay
<1>6. CASE GuardTimer(r)
  <2>1. step[r] # "proxy"
    BY <1>6 DEF GuardTimer, UnderWay, proxyTimeout, guardTimeout
  <2> QED
    BY <1>6, <2>1 DEF GuardTimer, UnderWay
<1> QED
  BY <1>1, <1>2, <1>3, <1>4, <1>5, <1>6 DEF Goes

(* One tick of the clocks of a request.                                      *)
LEMMA TickFacts ==
  ASSUME GatewayInv, Tick, NEW r \in Requests
  PROVE  /\ age'[r] \in 0..AgeMax /\ idle'[r] \in 0..guardTimeout
         /\ step[r] \in {"auth", "done"} => idle'[r] = idle[r]
         /\ step[r] = "proxy" =>
              idle'[r] = idle[r] + 1 /\ idle'[r] <= proxyTimeout /\ idle'[r] <= age'[r]
<1> USE ConstantsAssumption
<1> TypeOK /\ UnderWay
  BY DEF GatewayInv
<1>1. age[r] \in 0..AgeMax /\ idle[r] \in 0..guardTimeout /\ InTime(r)
  BY DEF TypeOK, Tick
<1>2. AgeMax \in Nat /\ guardTimeout \in Nat /\ proxyTimeout \in Nat
      /\ proxyTimeout <= AgeMax /\ proxyTimeout <= guardTimeout
  BY DEF AgeMax, guardTimeout, proxyTimeout
<1>3. age'[r] = IF step[r] \in {"auth", "proxy"}
                THEN IF age[r] + 1 <= AgeMax THEN age[r] + 1 ELSE AgeMax
                ELSE age[r]
  <2>1. age'[r] = IF step[r] \in {"auth", "proxy"} THEN Min({age[r] + 1, AgeMax}) ELSE age[r]
    BY DEF Tick
  <2>2. Min({age[r] + 1, AgeMax}) = IF age[r] + 1 <= AgeMax THEN age[r] + 1 ELSE AgeMax
    BY <1>1, <1>2, MinOfTwo
  <2> QED
    BY <2>1, <2>2
<1>4. idle'[r] = IF step[r] \in {"proxy", "streaming", "stalled"} THEN idle[r] + 1 ELSE idle[r]
  BY DEF Tick
<1>5. step[r] = "proxy" => idle[r] <= age[r]
  BY DEF UnderWay
<1> QED
  BY <1>1, <1>2, <1>3, <1>4, <1>5 DEF InTime

(* The gateway's answers, and the times it gives a request.                  *)
LEMMA UnderWayStep == GatewayInv /\ [Next]_vars => UnderWay'
<1> SUFFICES ASSUME GatewayInv, [Next]_vars PROVE UnderWay'
  OBVIOUS
<1> USE ConstantsAssumption DEF UnderWay
<1> TypeOK /\ UnderWay
  BY DEF GatewayInv
<1>1. ASSUME NEW r \in Requests, Enters(r) PROVE UnderWay'
  <2>1. ASSUME NEW q \in Requests, q # r
        PROVE  step'[q] = step[q] /\ status'[q] = status[q] /\ age'[q] = age[q] /\ idle'[q] = idle[q]
    BY <1>1, <2>1, Alone
  <2>2. /\ step'[r] \in {"auth", "done"} /\ (step'[r] = "auth" => status'[r] = 0)
        /\ idle'[r] = 0 /\ status'[r] # 502 /\ status'[r] # CUT
    BY <1>1, EntersFacts DEF Codes, FORWARDED, LEFT, CUT
  <2> QED
    BY <2>1, <2>2
<1>2. ASSUME NEW r \in Requests, Goes(r) PROVE UnderWay'
  <2>1. ASSUME NEW q \in Requests, q # r
        PROVE  step'[q] = step[q] /\ status'[q] = status[q] /\ age'[q] = age[q] /\ idle'[q] = idle[q]
    BY <1>2, <2>1, Alone
  <2>2. /\ step'[r] \in {"proxy", "streaming", "stalled", "done"}
        /\ step'[r] = "proxy" => status'[r] = 0 /\ idle'[r] = 0
        /\ step'[r] \in {"streaming", "stalled"} => status'[r] = FORWARDED
        /\ status'[r] = 502 => step'[r] = "done" /\ idle'[r] < proxyTimeout - TOLERANCE
        /\ status'[r] # CUT
    BY <1>2, GoesFacts DEF Codes, FORWARDED, LEFT, CUT
  <2>3. age'[r] \in Nat
    BY <1>2, GoesFacts DEF TypeOK
  <2> QED
    BY <2>1, <2>2, <2>3 DEF proxyTimeout
<1>3. CASE Tick
  <2>1. UNCHANGED <<step, status>>
    BY <1>3 DEF Tick
  <2>2. ASSUME NEW r \in Requests
        PROVE  /\ step[r] \in {"auth", "done"} => idle'[r] = idle[r]
               /\ step[r] = "proxy" => idle'[r] <= proxyTimeout /\ idle'[r] <= age'[r]
    BY <1>3, TickFacts
  <2> QED
    BY <2>1, <2>2
<1>4. CASE UNCHANGED vars
  BY <1>4 DEF vars, request
<1> QED
  BY <1>1, <1>2, <1>3, <1>4, GatewayKinds

-----------------------------------------------------------------------------
(* The limiter: a request is counted in its client's window, and its client  *)
(* alone is affected.                                                        *)
LEMMA CountedFacts ==
  ASSUME GatewayInv, NEW r \in Requests, NEW c \in Clients, EnterCounted(r, c)
  PROVE  /\ hits' \in [Clients -> 0..LIMIT + 2] /\ windowAge' \in [Clients -> 0..WINDOW]
         /\ passed' \in [Clients -> [0..WINDOW - 1 -> 0..BurstMax]]
         /\ \A d \in Clients : d # c =>
              hits'[d] = hits[d] /\ windowAge'[d] = windowAge[d] /\ passed'[d] = passed[d]
         /\ windowAge'[c] = IF windowAge[c] = WINDOW THEN 0 ELSE windowAge[c]
         /\ \/ /\ overLimit(Count(c)) /\ passed'[c] = passed[c]
               /\ windowAge[c] # WINDOW /\ hits'[c] >= hits[c]
            \/ /\ ~overLimit(Count(c)) /\ hits'[c] = Count(c)
               /\ \A a \in 0..WINDOW - 1 : passed'[c][a] <= passed[c][a] + 1
<1> USE ConstantsAssumption
<1> TypeOK
  BY DEF GatewayInv
<1>1. /\ hits[c] \in 0..LIMIT + 2 /\ windowAge[c] \in 0..WINDOW /\ Count(c) \in 1..LIMIT + 3
      /\ \A a \in 0..WINDOW - 1 : passed[c][a] \in 0..BurstMax
      /\ BurstMax \in Nat
  BY DEF TypeOK, Count, BurstMax
<1>2. /\ Min({Count(c), LIMIT + 2}) = IF Count(c) <= LIMIT + 2 THEN Count(c) ELSE LIMIT + 2
      /\ \A a \in 0..WINDOW - 1 :
           Min({passed[c][a] + 1, BurstMax}) =
             IF passed[c][a] + 1 <= BurstMax THEN passed[c][a] + 1 ELSE BurstMax
  BY <1>1, MinOfTwo
<1>3. /\ hits' = [hits EXCEPT ![c] = Min({Count(c), LIMIT + 2})]
      /\ windowAge' = [windowAge EXCEPT ![c] = IF @ >= WINDOW THEN 0 ELSE @]
      /\ \/ overLimit(Count(c)) /\ UNCHANGED passed
         \/ /\ ~overLimit(Count(c))
            /\ passed' = [passed EXCEPT ![c] =
                 [a \in 0..WINDOW - 1 |-> Min({passed[c][a] + 1, BurstMax})]]
  BY DEF EnterCounted
<1>4. hits'[c] = IF Count(c) <= LIMIT + 2 THEN Count(c) ELSE LIMIT + 2
  BY <1>2, <1>3 DEF TypeOK
<1>5. hits' \in [Clients -> 0..LIMIT + 2] /\ windowAge' \in [Clients -> 0..WINDOW]
  BY <1>1, <1>2, <1>3 DEF TypeOK
<1>6. passed' \in [Clients -> [0..WINDOW - 1 -> 0..BurstMax]]
  <2> DEFINE f == [a \in 0..WINDOW - 1 |-> Min({passed[c][a] + 1, BurstMax})]
             T == [0..WINDOW - 1 -> 0..BurstMax]
  <2>1. f \in T
    BY <1>1, <1>2
  <2>2. passed \in [Clients -> T]
    BY DEF TypeOK
  <2>3. passed' = passed \/ passed' = [passed EXCEPT ![c] = f]
    BY <1>3
  <2> HIDE DEF f, T
  <2>4. passed' \in [Clients -> T]
    BY <2>1, <2>2, <2>3
  <2> QED
    BY <2>4 DEF T
<1>7. \A d \in Clients : d # c =>
        hits'[d] = hits[d] /\ windowAge'[d] = windowAge[d] /\ passed'[d] = passed[d]
  BY <1>3 DEF TypeOK
<1>8. windowAge'[c] = IF windowAge[c] = WINDOW THEN 0 ELSE windowAge[c]
  BY <1>1, <1>3 DEF TypeOK
<1>9. CASE overLimit(Count(c))
  <2>1. passed'[c] = passed[c]
    BY <1>3, <1>9
  <2>2. windowAge[c] # WINDOW /\ Count(c) = hits[c] + 1
    BY <1>1, <1>9 DEF overLimit, Count
  <2>3. hits'[c] >= hits[c]
    BY <1>1, <1>4, <2>2
  <2> QED
    BY <1>5, <1>6, <1>7, <1>8, <1>9, <2>1, <2>2, <2>3, ZenonT(60)
<1>10. CASE ~overLimit(Count(c))
  <2>1. \A a \in 0..WINDOW - 1 : passed'[c][a] = Min({passed[c][a] + 1, BurstMax})
    BY <1>3, <1>10 DEF TypeOK
  <2>2. ASSUME NEW a \in 0..WINDOW - 1 PROVE passed'[c][a] <= passed[c][a] + 1
    <3>1. passed[c][a] \in Nat
      BY <1>1
    <3>2. passed'[c][a] = IF passed[c][a] + 1 <= BurstMax THEN passed[c][a] + 1 ELSE BurstMax
      BY <1>2, <2>1, ZenonT(60)
    <3> QED
      BY <1>1, <3>1, <3>2
  <2>3. hits'[c] = Count(c)
    BY <1>1, <1>4, <1>10 DEF overLimit
  <2> QED
    BY <1>5, <1>6, <1>7, <1>8, <1>10, <2>2, <2>3, ZenonT(60)
<1> QED
  BY <1>9, <1>10, ZenonT(60)

(* No two windows of a client overlap: what the older of the ticks let       *)
(* through was counted in one window, and what the younger did in the next.  *)
LEMMA WindowsStep == GatewayInv /\ [Next]_vars => Windows'
<1> SUFFICES ASSUME GatewayInv, [Next]_vars PROVE Windows'
  OBVIOUS
<1> USE ConstantsAssumption
<1> TypeOK /\ Windows
  BY DEF GatewayInv
<1>1. \A c \in Clients : /\ hits[c] \in Nat /\ windowAge[c] \in 0..WINDOW
                         /\ \A a \in 0..WINDOW - 1 : passed[c][a] \in Nat
  BY DEF TypeOK, BurstMax
<1>2. ASSUME NEW r \in Requests, NEW c \in Clients, EnterCounted(r, c) PROVE Windows'
  <2>1. ASSUME NEW d \in Clients, d # c
        PROVE  hits'[d] = hits[d] /\ windowAge'[d] = windowAge[d] /\ passed'[d] = passed[d]
    BY <1>2, <2>1, CountedFacts
  <2>2. windowAge'[c] = IF windowAge[c] = WINDOW THEN 0 ELSE windowAge[c]
    BY <1>2, CountedFacts
  <2>3. hits'[c] \in Nat /\ hits[c] \in Nat /\ windowAge[c] \in 0..WINDOW
    BY <1>1, <1>2, CountedFacts
  <2>4. CASE passed'[c] = passed[c] /\ windowAge[c] # WINDOW /\ hits'[c] >= hits[c]
    <3>1. Window(c)'
      BY <1>1, <2>2, <2>3, <2>4 DEF Windows, Window
    <3> QED
      BY <2>1, <3>1 DEF Windows, Window
  <2>5. CASE /\ ~overLimit(Count(c)) /\ hits'[c] = Count(c)
             /\ \A a \in 0..WINDOW - 1 : passed'[c][a] <= passed[c][a] + 1
    <3>1. hits'[c] <= LIMIT /\ hits'[c] >= 1 /\ (windowAge[c] # WINDOW => hits'[c] = hits[c] + 1)
      BY <2>3, <2>5 DEF overLimit, Count
    <3>2. windowAge'[c] # WINDOW
      BY <2>2, <2>3
    <3>3. ASSUME NEW a \in 0..WINDOW - 1
          PROVE  /\ passed'[c][a] <= LIMIT + hits'[c] /\ passed'[c][a] <= 2 * LIMIT
                 /\ a <= windowAge'[c] => passed'[c][a] <= hits'[c] /\ passed'[c][a] <= LIMIT
      <4>1. passed'[c][a] \in Nat /\ passed[c][a] \in Nat /\ passed'[c][a] <= passed[c][a] + 1
        BY <1>1, <1>2, <2>5, CountedFacts DEF BurstMax
      <4>2. /\ passed[c][a] <= LIMIT + hits[c]
            /\ a <= windowAge[c] => passed[c][a] <= hits[c] /\ passed[c][a] <= LIMIT
            /\ windowAge[c] = WINDOW => passed[c][0] = 0
        BY DEF Windows, Window
      <4> QED
        BY <2>2, <2>3, <3>1, <4>1, <4>2
    <3>4. Window(c)'
      BY <3>2, <3>3 DEF Window
    <3> QED
      BY <2>1, <3>4 DEF Windows, Window
  <2> QED
    BY <1>2, <2>4, <2>5, CountedFacts
<1>3. CASE Tick
  <2> SUFFICES ASSUME NEW c \in Clients PROVE Window(c)'
    BY DEF Windows
  <2>1. /\ windowAge'[c] = IF windowAge[c] + 1 <= WINDOW THEN windowAge[c] + 1 ELSE WINDOW
        /\ hits'[c] = hits[c]
    <3>1. windowAge'[c] = Min({windowAge[c] + 1, WINDOW}) /\ hits'[c] = hits[c]
      BY <1>3 DEF Tick
    <3>2. windowAge[c] + 1 \in Int /\ WINDOW \in Int
      BY <1>1
    <3>3. Min({windowAge[c] + 1, WINDOW})
            = IF windowAge[c] + 1 <= WINDOW THEN windowAge[c] + 1 ELSE WINDOW
      BY <3>2, MinOfTwo, ZenonT(60)
    <3> QED
      BY <3>1, <3>3, ZenonT(60)
  <2>2. \A a \in 0..WINDOW - 1 : passed'[c][a] = IF a = 0 THEN 0 ELSE passed[c][a - 1]
    BY <1>3 DEF Tick
  <2>3. ASSUME NEW a \in 0..WINDOW - 1
        PROVE  /\ passed'[c][a] <= LIMIT + hits'[c] /\ passed'[c][a] <= 2 * LIMIT
               /\ a <= windowAge'[c] => passed'[c][a] <= hits'[c] /\ passed'[c][a] <= LIMIT
    <3>1. CASE a = 0
      BY <1>1, <2>1, <2>2, <3>1
    <3>2. CASE a # 0
      <4>1. a - 1 \in 0..WINDOW - 1 /\ passed[c][a - 1] \in Nat /\ passed'[c][a] = passed[c][a - 1]
        BY <1>1, <2>2, <3>2
      <4>2. /\ passed[c][a - 1] <= LIMIT + hits[c] /\ passed[c][a - 1] <= 2 * LIMIT
            /\ a - 1 <= windowAge[c] => passed[c][a - 1] <= hits[c] /\ passed[c][a - 1] <= LIMIT
        BY <4>1 DEF Windows, Window
      <4> QED
        BY <1>1, <2>1, <4>1, <4>2
    <3> QED
      BY <3>1, <3>2
  <2> QED
    BY <2>2, <2>3 DEF Window
<1>4. CASE UNCHANGED limit
  BY <1>4 DEF limit, Windows, Window
<1>5. ASSUME NEW r \in Requests, EnterHealth(r) \/ Goes(r) PROVE UNCHANGED limit
  BY <1>5, GoesFacts DEF EnterHealth, GatewayInv
<1> QED
  BY <1>2, <1>3, <1>4, <1>5, GatewayKinds DEF Enters, vars

-----------------------------------------------------------------------------
RequestTypes ==
  /\ step \in [Requests -> {"done", "auth", "proxy", "streaming", "stalled"}]
  /\ status \in [Requests -> {0, FORWARDED, 401, 404, 429, 502, 503, 504, CUT, LEFT}]
  /\ age \in [Requests -> 0..AgeMax] /\ idle \in [Requests -> 0..guardTimeout]
LimitTypes ==
  /\ hits \in [Clients -> 0..LIMIT + 2] /\ windowAge \in [Clients -> 0..WINDOW]
  /\ passed \in [Clients -> [0..WINDOW - 1 -> 0..BurstMax]]

(* The type invariant, in two halves.                                        *)
LEMMA Types == TypeOK <=> RequestTypes /\ LimitTypes
BY DEF TypeOK, RequestTypes, LimitTypes

(* The fields of one request keep their types.                               *)
LEMMA RequestTypesStep ==
  ASSUME RequestTypes, NEW r \in Requests, Enters(r) \/ Goes(r)
  PROVE  RequestTypes'
<1>0. 0 \in 0..AgeMax /\ 0 \in 0..guardTimeout
  BY ConstantsAssumption DEF AgeMax, guardTimeout
<1> USE DEF RequestTypes, Become
<1>1. CASE Enters(r)
  BY <1>0, <1>1, EntersAs DEF Enter
<1>2. CASE Verified(r)
  BY <1>2 DEF Verified
<1>3. CASE UpstreamResponds(r) \/ UpstreamSends(r)
  BY <1>0, <1>3 DEF UpstreamResponds, UpstreamSends
<1>4. CASE UpstreamFails(r) \/ ProxyTimer(r) \/ StreamBreaks(r)
  BY <1>4 DEF UpstreamFails, ProxyTimer, StreamBreaks, OnError
<1>5. CASE ClientLeaves(r) \/ GuardTimer(r)
  BY <1>5 DEF ClientLeaves, GuardTimer
<1> QED
  BY <1>1, <1>2, <1>3, <1>4, <1>5 DEF Goes

(* Every step keeps the types.                                               *)
LEMMA TypeStep == GatewayInv /\ [Next]_vars => TypeOK'
<1> SUFFICES ASSUME GatewayInv, [Next]_vars PROVE RequestTypes' /\ LimitTypes'
  BY DEF RequestTypes, LimitTypes, TypeOK
<1> RequestTypes /\ LimitTypes
  BY Types DEF GatewayInv
<1>1. ASSUME NEW r \in Requests, Enters(r) \/ Goes(r) PROVE RequestTypes' /\ LimitTypes'
  <2>1. RequestTypes'
    BY <1>1, RequestTypesStep
  <2>2. ASSUME NEW c \in Clients, EnterCounted(r, c) PROVE LimitTypes'
    BY <2>2, CountedFacts DEF LimitTypes
  <2>3. CASE UNCHANGED limit
    BY <2>3, <2>1 DEF limit, LimitTypes
  <2> QED
    BY <1>1, <2>1, <2>2, <2>3, GoesFacts DEF Enters, EnterHealth, GatewayInv
<1>2. CASE Tick
  <2>1. \A r \in Requests : age'[r] \in 0..AgeMax /\ idle'[r] \in 0..guardTimeout
    BY <1>2, TickFacts
  <2>2. UNCHANGED <<step, status>> /\ age' = [r \in Requests |-> age'[r]]
        /\ idle' = [r \in Requests |-> idle'[r]]
    BY <1>2 DEF Tick
  <2>3. RequestTypes'
    BY <2>1, <2>2 DEF RequestTypes
  <2>4. ASSUME NEW c \in Clients PROVE Min({windowAge[c] + 1, WINDOW}) \in 0..WINDOW
    <3>1. windowAge[c] \in 0..WINDOW
      BY DEF LimitTypes
    <3> QED
      BY <3>1, MinOfTwo, ConstantsAssumption
  <2>5. ASSUME NEW c \in Clients
        PROVE  [a \in 0..WINDOW - 1 |-> IF a = 0 THEN 0 ELSE passed[c][a - 1]]
                 \in [0..WINDOW - 1 -> 0..BurstMax]
    BY ConstantsAssumption DEF BurstMax, LimitTypes
  <2>6. /\ windowAge' \in [Clients -> 0..WINDOW]
        /\ passed' \in [Clients -> [0..WINDOW - 1 -> 0..BurstMax]]
    BY <1>2, <2>4, <2>5 DEF Tick
  <2> QED
    BY <1>2, <2>3, <2>6, ZenonT(60) DEF Tick, LimitTypes
<1>3. CASE UNCHANGED vars
  BY <1>3 DEF vars, request, limit, RequestTypes, LimitTypes
<1> QED
  BY <1>1, <1>2, <1>3, GatewayKinds

(* Every step of the gateway keeps the gateway's invariant.                  *)
LEMMA GatewayStepInv == GatewayInv /\ [Next]_vars => GatewayInv'
BY TypeStep, UnderWayStep, WindowsStep DEF GatewayInv

(* The gateway's invariant holds before the first request.                   *)
LEMMA GatewayInit == Init => GatewayInv
<1> SUFFICES ASSUME Init PROVE GatewayInv
  OBVIOUS
<1> USE ConstantsAssumption
<1>1. RequestTypes /\ UnderWay
  BY DEF Init, RequestTypes, UnderWay, AgeMax, guardTimeout, CUT
<1>2. LimitTypes /\ Windows
  BY DEF Init, LimitTypes, Windows, Window, BurstMax
<1> QED
  BY <1>1, <1>2, Types DEF GatewayInv

(* The promises of the gateway, from its invariant.                          *)
LEMMA GatewayPromises == GatewayInv => SlowIsNotUnreachable /\ NeverCutOff /\ BurstBounded
<1> SUFFICES ASSUME GatewayInv PROVE SlowIsNotUnreachable /\ NeverCutOff /\ BurstBounded
  OBVIOUS
<1>1. SlowIsNotUnreachable /\ NeverCutOff
  BY DEF GatewayInv, UnderWay, SlowIsNotUnreachable, NeverCutOff
<1>2. WINDOW - 1 \in 0..WINDOW - 1
  BY ConstantsAssumption
<1>3. BurstBounded
  BY <1>2 DEF GatewayInv, Windows, Window, BurstBounded
<1> QED
  BY <1>1, <1>3

-----------------------------------------------------------------------------
(* A step of the order path is a step of the gateway, or leaves it alone.    *)
LEMMA GatewayInside == [OrderNext]_allVars => [Next]_vars
<1>1. ASSUME NEW r \in Requests PROVE EnterAny(r) => Next
  BY DEF EnterAny, Next
<1>2. ASSUME NEW r \in Requests PROVE Forward(r) \/ OtherResponds(r) \/ GatewayStep(r) => Next
  BY ZenonT(60) DEF Forward, OtherResponds, GatewayStep, Next
<1>3. ASSUME NEW r \in Requests PROVE Answer(r) \/ Advance(r) => Next \/ UNCHANGED vars
  BY DEF Answer, Advance, Next
<1>4. OrderTick => Next
  BY DEF OrderTick, Next
<1> QED
  BY <1>1, <1>2, <1>3, <1>4 DEF OrderNext, allVars

(* The awaits of create() and their limits.                                  *)
LEMMA Awaits ==
  /\ Busy = {"guard", "find", "cache", "fetch", "set", "transaction", "refind", "channel", "confirm"}
  /\ \A w \in Busy : Limit[w] \in Nat
  /\ SlowestCreate \in Nat /\ SlowestCreate >= Lookups + 2 * LOOKUP + CACHE + DATABASE + DATABASE
  /\ SlowestCreate >= Lookups + 2 * LOOKUP + CACHE + DATABASE + CONNECT + BROKER + CONFIRM
<1> USE LimitsAssumption
<1>1. Busy = {"guard", "find", "cache", "fetch", "set", "transaction", "refind", "channel", "confirm"}
  BY DEF Busy, Follows
<1>2. \A w \in Busy : Limit[w] \in Nat
  BY <1>1 DEF Limit
<1>3. LET m == Max({DATABASE, CONNECT + BROKER + CONFIRM}) IN
        m \in Nat /\ m >= DATABASE /\ m >= CONNECT + BROKER + CONFIRM
  BY MaxOfTwo
<1> QED
  BY <1>1, <1>2, <1>3 DEF SlowestCreate, Lookups

(* The budget of an await covers the await before it, whichever that was.    *)
LEMMA BudgetsAdd ==
  ASSUME NEW w \in Busy, NEW n \in 0..2, NEW s \in Follows[w], s = "fetch" => n < 2,
         w = "fetch" => n # 0
  PROVE  LET m == IF s = "fetch" THEN n + 1 ELSE n IN
           /\ Spent(w, n) \in Nat /\ Spent(s, m) \in Nat
           /\ Spent(w, n) + Limit[w] <= Spent(s, m)
BY Awaits, LimitsAssumption DEF Spent, Follows, Limit, Lookups

(* The budget of any await, and its time so far, fit the slowest create().   *)
LEMMA BudgetEnds ==
  ASSUME NEW w \in Busy \cup {"answered"}, NEW n \in 0..2, NEW t \in Nat,
         w \in Busy => t <= Limit[w], w = "answered" => t = 0
  PROVE  Spent(w, n) \in Nat /\ Spent(w, n) + t <= SlowestCreate
<1>0. /\ JWKS \in Nat /\ CACHE \in Nat /\ LOOKUP \in Nat /\ CONNECT \in Nat /\ CONFIRM \in Nat
      /\ DATABASE \in Nat /\ BROKER \in Nat
  BY LimitsAssumption
<1>1. CASE w = "answered"
  BY <1>1, Awaits DEF Spent
<1>2. CASE w \in {"guard", "find", "cache"}
  <2>1. Spent(w, n) \in Nat /\ Limit[w] \in Nat /\ Spent(w, n) + Limit[w] <= Lookups
    BY <1>0, <1>2 DEF Spent, Limit, Lookups
  <2> QED
    BY <1>0, <1>2, <2>1, Awaits DEF Lookups
<1>3. CASE w \in {"fetch", "set", "transaction", "refind"}
  <2>1. /\ Spent(w, n) \in Nat /\ Limit[w] \in Nat
        /\ Spent(w, n) + Limit[w] <= Lookups + 2 * LOOKUP + CACHE + DATABASE + DATABASE
    BY <1>0, <1>3 DEF Spent, Limit, Lookups
  <2> QED
    BY <1>0, <1>3, <2>1, Awaits DEF Lookups
<1>4. CASE w \in {"channel", "confirm"}
  <2>1. /\ Spent(w, n) \in Nat /\ Limit[w] \in Nat
        /\ Spent(w, n) + Limit[w]
             <= Lookups + 2 * LOOKUP + CACHE + DATABASE + CONNECT + BROKER + CONFIRM
    BY <1>0, <1>4 DEF Spent, Limit, Lookups
  <2> QED
    BY <1>0, <1>4, <2>1, Awaits DEF Lookups
<1> QED
  BY <1>1, <1>2, <1>3, <1>4, Awaits

(* What an await is followed by is another one, or the answer.               *)
LEMMA FollowsBusy ==
  ASSUME NEW w \in Busy, NEW s \in Follows[w]
  PROVE  s \in Busy \cup {"answered"}
BY Awaits DEF Follows

(* A request that a step leaves alone stays within its budget.               *)
LEMMA BudgetKept ==
  ASSUME NEW r \in Requests, InBudget(r), job'[r] = job[r], tries'[r] = tries[r],
         jobAge'[r] = jobAge[r], idle'[r] = idle[r], step'[r] = step[r]
  PROVE  InBudget(r)'
BY ZenonT(60) DEF InBudget

(* A step that moves one create() to s keeps the others within budget.       *)
LEMMA MovesOne ==
  ASSUME Progress, NEW r \in Requests, NEW s \in Busy \cup {"none", "answered"}, At(r, s),
         NEW n \in 0..2, tries' = [tries EXCEPT ![r] = n],
         \A q \in Requests \ {r} : step'[q] = step[q] /\ idle'[q] = idle[q], InBudget(r)'
  PROVE  Progress'
<1>1. JobTypes'
  BY DEF Progress, JobTypes, At
<1>2. ASSUME NEW q \in Requests, q # r PROVE InBudget(q)'
  <2>1. job'[q] = job[q] /\ jobAge'[q] = jobAge[q] /\ tries'[q] = tries[q]
    BY <1>2 DEF Progress, JobTypes, At
  <2>2. step'[q] = step[q] /\ idle'[q] = idle[q] /\ InBudget(q)
    BY <1>2 DEF Progress
  <2> QED
    BY <2>1, <2>2, BudgetKept
<1> QED
  BY <1>1, <1>2 DEF Progress

(* A step of the gateway alone keeps create() within budget when it keeps    *)
(* the request it is about within budget.                                    *)
LEMMA MovesNone ==
  ASSUME Progress, UNCHANGED <<job, tries, jobAge>>, NEW r \in Requests,
         \A q \in Requests \ {r} : step'[q] = step[q] /\ idle'[q] = idle[q], InBudget(r)'
  PROVE  Progress'
<1>1. JobTypes'
  BY DEF Progress, JobTypes
<1>2. ASSUME NEW q \in Requests, q # r PROVE InBudget(q)'
  BY <1>2, BudgetKept DEF Progress
<1> QED
  BY <1>1, <1>2 DEF Progress

(* A request enters: no create() is left on its connection.                  *)
LEMMA ProgressEnter ==
  ASSUME Inv, NEW r \in Requests, EnterAny(r)
  PROVE  Progress'
<1>1. Enters(r) /\ job[r] = "none" /\ UNCHANGED <<job, tries, jobAge>>
  BY DEF EnterAny, Enters, create
<1>2. \A q \in Requests \ {r} : step'[q] = step[q] /\ idle'[q] = idle[q]
  BY <1>1, Alone DEF Inv, GatewayInv
<1>3. InBudget(r)'
  BY <1>1, Awaits, ZenonT(60) DEF InBudget
<1> QED
  BY <1>1, <1>2, <1>3, MovesNone DEF Inv

(* A request goes on at the gateway, and create() is not concerned.          *)
LEMMA ProgressGoes ==
  ASSUME Inv, NEW r \in Requests, Goes(r), UNCHANGED create
  PROVE  Progress'
<1>1. \A q \in Requests \ {r} : step'[q] = step[q] /\ idle'[q] = idle[q]
  BY Alone, ZenonT(60) DEF Inv, GatewayInv
<1>2. step'[r] # "auth" /\ (step'[r] = "proxy" => step[r] = "auth")
  BY GoesFacts DEF Inv, GatewayInv
<1>3. UNCHANGED <<job, tries, jobAge>> /\ InBudget(r)
  BY ZenonT(60) DEF create, Inv, Progress
<1>4. InBudget(r)'
  BY <1>2, <1>3 DEF InBudget
<1> QED
  BY <1>1, <1>3, <1>4, MovesNone, ZenonT(60) DEF Inv

(* An order is forwarded: both clocks start at 0.                            *)
LEMMA ProgressForward ==
  ASSUME Inv, NEW r \in Requests, Goes(r), step'[r] = "proxy", At(r, "guard"),
         tries' = [tries EXCEPT ![r] = 0]
  PROVE  Progress'
<1>1. \A q \in Requests \ {r} : step'[q] = step[q] /\ idle'[q] = idle[q]
  BY Alone, ZenonT(60) DEF Inv, GatewayInv
<1>2. idle'[r] = 0
  BY GoesFacts DEF Inv, GatewayInv, UnderWay
<1>3. Spent("guard", 0) = 0 /\ Limit["guard"] \in Nat /\ "guard" \in Busy
  BY Awaits DEF Spent
<1>4. job'[r] = "guard" /\ jobAge'[r] = 0 /\ tries'[r] = 0
  BY ZenonT(60) DEF At, Inv, Progress, JobTypes
<1>5. InBudget(r)'
  BY <1>2, <1>3, <1>4 DEF InBudget
<1>6. Progress /\ 0 \in 0..2
  BY DEF Inv
<1> QED
  BY <1>1, <1>3, <1>5, <1>6, MovesOne, ZenonT(60)

(* create() goes on: the budget of its next await covers the last one.       *)
LEMMA ProgressAdvance ==
  ASSUME Inv, NEW r \in Requests, Advance(r)
  PROVE  Progress'
<1>1. UNCHANGED <<step, idle>> /\ job[r] \in Busy
  BY DEF Advance, vars, request
<1>2. PICK s \in Follows[job[r]] :
        /\ s = "fetch" => tries[r] < ATTEMPTS
        /\ At(r, s)
        /\ tries' = [tries EXCEPT ![r] = IF s = "fetch" THEN @ + 1 ELSE @]
  BY ZenonT(60) DEF Advance
<1> DEFINE n == IF s = "fetch" THEN tries[r] + 1 ELSE tries[r]
<1>3. tries' = [tries EXCEPT ![r] = n]
  BY <1>2
<1>4. s \in Busy \cup {"answered"}
  BY <1>1, FollowsBusy
<1>5. tries[r] \in 0..2 /\ jobAge[r] \in Nat /\ InBudget(r)
  BY DEF Inv, Progress, JobTypes
<1>6. n \in 0..2 /\ (s = "fetch" => tries[r] < 2 /\ n # 0)
  BY <1>2, <1>5 DEF ATTEMPTS
<1>7. job'[r] = s /\ jobAge'[r] = 0 /\ tries'[r] = n
  BY <1>2, <1>3, ZenonT(60) DEF At, Inv, Progress, JobTypes
<1>8. /\ Spent(job[r], tries[r]) \in Nat /\ Spent(s, n) \in Nat
      /\ Spent(job[r], tries[r]) + Limit[job[r]] <= Spent(s, n)
  BY <1>1, <1>5, <1>6, BudgetsAdd DEF InBudget
<1>9. step[r] = "proxy" => idle[r] <= Spent(s, n)
  <2>1. idle[r] \in Int
    BY ConstantsAssumption DEF Inv, GatewayInv, TypeOK, guardTimeout
  <2>2. Limit[job[r]] \in Nat /\ jobAge[r] <= Limit[job[r]]
    BY <1>1, <1>5, Awaits DEF InBudget
  <2>3. step[r] = "proxy" => idle[r] <= Spent(job[r], tries[r]) + jobAge[r]
    BY <1>1, <1>5, Awaits DEF InBudget
  <2> HIDE DEF n
  <2> QED
    BY <1>5, <1>8, <2>1, <2>2, <2>3
<1>10. step[r] # "auth"
  BY <1>1, <1>5, Awaits DEF InBudget
<1>11. s \in Busy => Limit[s] \in Nat
  BY Awaits, ZenonT(60)
<1> HIDE DEF n
<1>12. InBudget(r)'
  BY <1>1, <1>6, <1>7, <1>8, <1>9, <1>10, <1>11 DEF InBudget
<1> QED
  BY <1>1, <1>2, <1>3, <1>4, <1>6, <1>12, MovesOne DEF Inv

(* The answer of create() ends it.                                           *)
LEMMA ProgressAnswer ==
  ASSUME Inv, NEW r \in Requests, Answer(r)
  PROVE  Progress'
<1>1. At(r, "none") /\ tries' = [tries EXCEPT ![r] = 0]
  BY ZenonT(60) DEF Answer
<1>2. Goes(r) \/ UNCHANGED vars
  BY DEF Answer, Goes
<1>3. \A q \in Requests \ {r} : step'[q] = step[q] /\ idle'[q] = idle[q]
  BY <1>2, Alone DEF Inv, GatewayInv, vars, request
<1>4. job'[r] = "none"
  BY <1>1 DEF At, Inv, Progress, JobTypes
<1>5. InBudget(r)'
  BY <1>4, Awaits DEF InBudget
<1>6. Progress /\ 0 \in 0..2 /\ "none" \in Busy \cup {"none", "answered"}
  BY DEF Inv
<1> QED
  BY <1>1, <1>3, <1>5, <1>6, MovesOne, ZenonT(60)

(* Time passes for create() and for the gateway alike.                       *)
LEMMA ProgressTick ==
  ASSUME Inv, OrderTick
  PROVE  Progress'
<1>1. UNCHANGED <<step, job, tries>> /\ Tick
  BY ZenonT(60) DEF OrderTick, Tick
<1>2. jobAge' = [r \in Requests |-> IF job[r] \in Busy THEN jobAge[r] + 1 ELSE 0]
  BY DEF OrderTick
<1>3. JobTypes'
  BY <1>1, <1>2 DEF Inv, Progress, JobTypes
<1>4. ASSUME NEW r \in Requests PROVE InBudget(r)'
  <2>1. /\ job[r] \in Busy \cup {"none", "answered"} /\ jobAge[r] \in Nat
        /\ tries[r] \in 0..2 /\ InBudget(r)
    BY DEF Inv, Progress, JobTypes
  <2>2. job[r] # "answered" /\ (job[r] \in Busy => jobAge[r] < Limit[job[r]])
    BY DEF OrderTick
  <2>3. step[r] = "proxy" => idle'[r] = idle[r] + 1
    BY <1>1, TickFacts DEF Inv
  <2>4. idle[r] \in Nat
    BY ConstantsAssumption DEF Inv, GatewayInv, TypeOK, guardTimeout
  <2>5. CASE job[r] = "none"
    BY <1>1, <2>5, Awaits, ZenonT(60) DEF InBudget
  <2>6. CASE job[r] \in Busy
    <3>1. Spent(job[r], tries[r]) \in Nat /\ Limit[job[r]] \in Nat
      BY <2>1, <2>6, BudgetEnds, Awaits DEF InBudget
    <3>2. jobAge'[r] = jobAge[r] + 1
      BY <1>2, <2>6
    <3> QED
      BY <1>1, <2>1, <2>2, <2>3, <2>4, <2>6, <3>1, <3>2 DEF InBudget
  <2> QED
    BY <2>1, <2>2, <2>5, <2>6
<1> QED
  BY <1>3, <1>4, ZenonT(60) DEF Progress

(* create() keeps within its budgets, and the gateway's clock with it.       *)
LEMMA ProgressStep == Inv /\ [OrderNext]_allVars => Progress'
<1> SUFFICES ASSUME Inv, [OrderNext]_allVars PROVE Progress'
  OBVIOUS
<1>1. CASE UNCHANGED allVars
  BY <1>1 DEF allVars, vars, request, create, Inv, Progress, JobTypes, InBudget
<1>2. ASSUME NEW r \in Requests, Forward(r) PROVE Progress'
  BY <1>2, ProgressForward, ProgressGoes, ZenonT(60) DEF Forward, Goes
<1>3. ASSUME NEW r \in Requests, OtherResponds(r) \/ GatewayStep(r) PROVE Progress'
  BY <1>3, ProgressGoes, ZenonT(60) DEF OtherResponds, GatewayStep, Goes
<1> QED
  BY <1>1, <1>2, <1>3, ProgressEnter, ProgressAdvance, ProgressAnswer, ProgressTick, ZenonT(60)
  DEF OrderNext

(* The invariant holds before the first order.                               *)
LEMMA InvInit == OrderInit => Inv
<1> SUFFICES ASSUME OrderInit PROVE Inv
  OBVIOUS
<1>1. GatewayInv
  BY GatewayInit DEF OrderInit
<1>2. Progress
  BY Awaits DEF OrderInit, Init, Progress, JobTypes, InBudget
<1> QED
  BY <1>1, <1>2 DEF Inv

(* The clauses hold in every state of the order path.                        *)
THEOREM Inductive == OrderSpec => []Inv
<1>1. Inv /\ [OrderNext]_allVars => Inv'
  BY GatewayInside, GatewayStepInv, ProgressStep DEF Inv
<1> QED
  BY InvInit, <1>1, PTL DEF OrderSpec

(* Whatever an upstream does or fails to do, the gateway by itself answers a *)
(* slow one with a 504, is never cut short by the guard of the socket and    *)
(* keeps to its limit.                                                       *)
THEOREM AnyUpstream ==
  Init /\ [][Next]_vars => [](SlowIsNotUnreachable /\ NeverCutOff /\ BurstBounded)
BY GatewayInit, GatewayStepInv, GatewayPromises, PTL

(* With the order-service behind it the gateway does nothing it would not do *)
(* with some other upstream: the order path implements the gateway.          *)
THEOREM GatewayImplemented == OrderSpec => Init /\ [][Next]_vars
<1>1. OrderInit => Init
  BY DEF OrderInit
<1> QED
  BY <1>1, GatewayInside, PTL DEF OrderSpec

(* For any timeouts, an upstream that was given its whole time is answered   *)
(* for with a 504 (the proxy's error handler).                               *)
THEOREM SlowIsTimeout == OrderSpec => []SlowIsNotUnreachable
BY Inductive, GatewayPromises, PTL DEF Inv

(* For any timeouts, the guard of the client's socket never fires first.     *)
THEOREM GuardIsLast == OrderSpec => []NeverCutOff
BY Inductive, GatewayPromises, PTL DEF Inv

(* For any limit and window, a client gets at most two windows' worth of     *)
(* requests past the limiter in any period as long as the window.            *)
THEOREM Limited == OrderSpec => []BurstBounded
BY Inductive, GatewayPromises, PTL DEF Inv

(* For any limits of create()'s awaits: if the upstream timeout exceeds the  *)
(* sum over the longest way through create(), no order in work times out.    *)
THEOREM OrdersGetTheirTime == OrderSpec => []WaitsForSlowestOrder
<1>1. Inv => WaitsForSlowestOrder
  <2> SUFFICES ASSUME Inv, UPSTREAM - TOLERANCE > SlowestCreate, NEW r \in Requests,
                      step[r] = "proxy", job[r] # "none"
               PROVE  idle[r] < proxyTimeout - TOLERANCE
    BY DEF WaitsForSlowestOrder, OrderGetsItsTime
  <2>1. idle[r] \in Int /\ idle[r] <= Spent(job[r], tries[r]) + jobAge[r]
    BY ConstantsAssumption DEF Inv, GatewayInv, Progress, InBudget, TypeOK, guardTimeout
  <2>2. Spent(job[r], tries[r]) \in Nat /\ Spent(job[r], tries[r]) + jobAge[r] <= SlowestCreate
    BY BudgetEnds DEF Inv, Progress, JobTypes, InBudget
  <2>3. jobAge[r] \in Nat /\ UPSTREAM \in Nat /\ TOLERANCE \in Nat /\ SlowestCreate \in Nat
    BY Awaits, ConstantsAssumption DEF Inv, Progress, JobTypes
  <2> QED
    BY <2>1, <2>2, <2>3 DEF proxyTimeout
<1> QED
  BY Inductive, <1>1, PTL
=============================================================================
