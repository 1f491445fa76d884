-------------------------- MODULE OrderServiceProofs --------------------------
(***************************************************************************)
(* OrderService, for any sets of requests, users and keys: its safety, that  *)
(* its requests only go forward, and that it implements IdempotentOrders.    *)
(* At the end, OrderService and NotificationWorker run together: with the    *)
(* refinements of both they implement OrderNotification, whose end-to-end    *)
(* properties are therefore theirs.                                          *)
(***************************************************************************)
EXTENDS OrderService, TLAPS

\* A stored key names a stored order that was requested with it.
KeysNameOrders ==
  \A k \in Keys : keys[k] # None => owner[keys[k]] # None /\ ask[keys[k]].key = k

\* The primary key of idempotency_keys: one open transaction per key, whether
\* or not anyone still waits for it.
LockAlone ==
  \A q, r \in Requests :
    InFlight(q) /\ InFlight(r) /\ ask[q].key \in Keys /\ ask[q].key = ask[r].key => q = r

Stored(r) == owner[r] # None

\* What holds of a request: its row, its transaction and its event; ...
AtRow(r) ==
  /\ Stored(r) => /\ owner[r] = ask[r].user
                  /\ step[r] \in {"committed", "publish", "confirm", "done", "dead"}
                  /\ ask[r].key # BadKey
                  /\ ask[r].key \in Keys => keys[ask[r].key] = r
  /\ InFlight(r) => /\ ~Stored(r) /\ ask[r].key # BadKey
                    /\ ask[r].key \in Keys => keys[ask[r].key] = None
  /\ r \in orphans => step[r] \in {"done", "dead"} /\ answer[r].code \in {0, 503}
  /\ wire[r] # "none" => Stored(r) /\ step[r] \in {"confirm", "done", "dead"}

\* ... where it is suspended; ...
AtAwait(r) ==
  /\ step[r] \in Awaits => ask[r].key # BadKey
  /\ step[r] \in {"lookup1", "load1", "lookup2", "load2", "insert_key"} => ask[r].key \in Keys
  /\ step[r] \in {"load1", "load2"} => found[r] # None /\ keys[ask[r].key] = found[r]
  /\ step[r] = "lookup2" => keys[ask[r].key] # None
  /\ step[r] \in {"committed", "publish", "confirm"} => Stored(r)

\* ... and after its answer.
AtAnswer(r) ==
  /\ answer[r].code # 0 <=> step[r] = "done"
  /\ answer[r].code = 200 => /\ ask[r].key \in Keys
                             /\ answer[r].order # None /\ keys[ask[r].key] = answer[r].order
                             /\ owner[answer[r].order] = ask[r].user
                             /\ ~Stored(r)
  /\ answer[r].code = 201 => answer[r].order = r /\ Stored(r)
  /\ answer[r].code \in {400, 403, 409, 422, 500} => ~Stored(r)

Local(r) == AtRow(r) /\ AtAwait(r) /\ AtAnswer(r)

Inv == TypeOK /\ KeysNameOrders /\ LockAlone /\ \A r \in Requests : Local(r)
-----------------------------------------------------------------------------
(* Of a request without an answer nothing is claimed about answers.         *)
LEMMA Unanswered ==
  ASSUME NEW r \in Requests, answer'[r].code = 0, step'[r] # "done"
  PROVE  AtAnswer(r)'
<1>1. 0 \notin {200, 201, 400, 403, 409, 422, 500}
  OBVIOUS
<1>2. answer'[r].code \notin {200, 201, 400, 403, 409, 422, 500}
  BY <1>1, ZenonT(60)
<1>3. answer'[r].code # 200 /\ answer'[r].code # 201
      /\ answer'[r].code \notin {400, 403, 409, 422, 500}
  BY <1>2, ZenonT(60)
<1> QED BY <1>3, ZenonT(60) DEF AtAnswer

(* What clients ask has the type of a request.                              *)
LEMMA AskFields ==
  ASSUME TypeOK, NEW r \in Requests
  PROVE  /\ ask[r] \in Asks /\ ask[r].user \in Users
         /\ ask[r].key \in Keys \cup {NoKey, BadKey}
BY ConstantsAssumption DEF TypeOK, Ask

(* Goto and Respond change one request.                                     *)
LEMMA StepFacts ==
  ASSUME TypeOK, NEW r \in Requests
  PROVE  /\ \A s : Goto(r, s) => /\ step'[r] = s /\ answer'[r] = answer[r]
                                 /\ \A q \in Requests \ {r} : step'[q] = step[q] /\ answer'[q] = answer[q]
         /\ \A c, o : Respond(r, c, o) =>
                         /\ step'[r] = "done" /\ answer'[r].code = c /\ answer'[r].order = o
                         /\ \A q \in Requests \ {r} : step'[q] = step[q] /\ answer'[q] = answer[q]
BY DEF TypeOK, Goto, Respond

(* The variables keep their types.                                          *)
LEMMA TypeStep == Inv /\ [Next]_vars => TypeOK'
<1> SUFFICES ASSUME Inv, [Next]_vars PROVE TypeOK'
  OBVIOUS
<1> TypeOK
  BY DEF Inv
<1> USE DEF TypeOK
<1>1. \A r \in Requests, s \in Awaits : Goto(r, s) =>
        /\ step' \in [Requests -> Awaits \cup {"idle", "done", "dead"}]
        /\ answer' \in [Requests -> [code : Codes, order : Requests \cup {None}]]
  BY DEF Goto
<1>2. \A r \in Requests, c \in Codes, o \in Requests \cup {None} : Respond(r, c, o) =>
        /\ step' \in [Requests -> Awaits \cup {"idle", "done", "dead"}]
        /\ answer' \in [Requests -> [code : Codes, order : Requests \cup {None}]]
  BY DEF Respond
<1>3. ASSUME NEW r \in Requests, NEW a \in Asks, Arrive(r, a) PROVE TypeOK'
  BY <1>1, <1>2, <1>3 DEF Arrive, Awaits, Codes
<1>4. ASSUME NEW r \in Requests, Advance(r) PROVE TypeOK'
  <2>1. CASE FindKey(r)
    <3>1. keys[ask[r].key] \in Requests \cup {None}
      BY <2>1 DEF FindKey, Inv, Local, AtRow, AtAwait, AtAnswer
    <3>2. found' \in [Requests -> Requests \cup {None}]
      <4>1. found' = found \/ found' = [found EXCEPT ![r] = keys[ask[r].key]]
        BY <2>1, ZenonT(60) DEF FindKey
      <4> QED BY <3>1, <4>1
    <3> QED BY <2>1, <3>2, <1>1, <1>2 DEF FindKey, KeyUnknown, Awaits, Codes
  <2>2. CASE LoadOrder(r)
    BY <2>2, <1>1, <1>2 DEF LoadOrder, KeyUnknown, replay, Awaits, Codes
  <2>3. CASE UserLookup(r)
    BY <2>3, <1>1, <1>2 DEF UserLookup, Awaits, Codes, Transaction
  <2>4. CASE InsertOrder(r) \/ InsertKey(r)
    BY <2>4, <1>1 DEF InsertOrder, InsertKey, Awaits, Transaction
  <2>5. CASE Commit(r)
    BY <2>5, <1>1, AskFields DEF Commit, Store, Awaits, Transaction
  <2>6. CASE CommitReturns(r) \/ SendEvent(r)
    BY <2>6, <1>1 DEF CommitReturns, SendEvent, Awaits
  <2>7. CASE Confirmed(r) \/ PublishFails(r)
    BY <2>7, <1>2 DEF Confirmed, PublishFails, Codes
  <2> QED BY <1>4, <2>1, <2>2, <2>3, <2>4, <2>5, <2>6, <2>7 DEF Advance
<1>5. ASSUME NEW r \in Requests, DatabaseFails(r) \/ StatementFails(r) PROVE TypeOK'
  BY <1>5, <1>2 DEF DatabaseFails, StatementFails, Abandon, Codes
<1>6. ASSUME NEW r \in Requests, EventTravels(r) \/ Crash(r) PROVE TypeOK'
  BY <1>6 DEF EventTravels, Crash, Abandon
<1>9. ASSUME NEW r \in Requests, LateCommit(r) PROVE TypeOK'
  BY <1>9, AskFields DEF LateCommit, Store
<1>7. ASSUME NEW u \in Users, RegisterUser(u) PROVE TypeOK'
  BY <1>7 DEF RegisterUser
<1>8. CASE UNCHANGED vars
  BY <1>8 DEF vars
<1> QED BY <1>3, <1>4, <1>5, <1>6, <1>7, <1>8, <1>9 DEF Next

-----------------------------------------------------------------------------
(* A step of one request that stores nothing: it need only keep its own part *)
(* of the invariant and respect the key's lock.                              *)
LEMMA QuietStep ==
  ASSUME Inv, TypeOK', NEW r \in Requests, UNCHANGED <<owner, keys, ask>>,
         \A q \in Requests \ {r} : /\ step'[q] = step[q] /\ answer'[q] = answer[q]
                                   /\ found'[q] = found[q] /\ wire'[q] = wire[q]
                                   /\ q \in orphans' <=> q \in orphans,
         InFlight(r)' /\ ask[r].key \in Keys => ~KeyLocked(r),
         Local(r)'
  PROVE  Inv'
<1>1. KeysNameOrders'
  BY DEF Inv, KeysNameOrders
<1>2. \A q \in Requests \ {r} : InFlight(q)' <=> InFlight(q)
  BY DEF InFlight
<1>3. LockAlone'
  BY <1>2, ZenonT(60) DEF Inv, LockAlone, KeyLocked
<1>4. ASSUME NEW q \in Requests \ {r} PROVE Local(q)'
  <2>1. Local(q) /\ (InFlight(q)' <=> InFlight(q))
    BY <1>2 DEF Inv
  <2> QED BY <2>1 DEF Local, AtRow, AtAwait, AtAnswer, Stored
<1> QED BY <1>1, <1>3, <1>4 DEF Inv

(* Arrive: a refused request has not begun, an accepted one has no bad key.  *)
LEMMA ArriveStep ==
  ASSUME Inv, TypeOK', NEW r \in Requests, NEW a \in Asks, Arrive(r, a) PROVE Inv'
<1> TypeOK
  BY DEF Inv
<1>1. /\ UNCHANGED <<owner, keys, found, wire, orphans>> /\ step[r] = "idle" /\ ask'[r] = a
      /\ \A q \in Requests \ {r} :
           ask'[q] = ask[q] /\ step'[q] = step[q] /\ answer'[q] = answer[q]
  BY StepFacts DEF Arrive, TypeOK
<1>2. ~Stored(r) /\ wire[r] = "none" /\ answer[r].code = 0 /\ r \notin orphans
  BY <1>1 DEF Inv, Local, AtRow, AtAwait, AtAnswer
<1>3. \/ step'[r] = "done" /\ answer'[r].code \in {400, 403}
      \/ step'[r] = "exists" /\ a.key = NoKey /\ answer'[r].code = 0
      \/ step'[r] = "lookup1" /\ a.key \in Keys /\ answer'[r].code = 0
  BY <1>2, StepFacts DEF Arrive
<1>4. Local(r)'
  <2>1. ~Stored(r)' /\ wire'[r] = "none" /\ r \notin orphans' /\ ~InFlight(r)'
    BY <1>1, <1>2, <1>3 DEF Stored, InFlight
  <2>2. CASE step'[r] = "done" /\ answer'[r].code \in {400, 403}
    BY <2>1, <2>2 DEF Local, AtRow, AtAwait, AtAnswer, Awaits, Transaction
  <2>3. CASE step'[r] = "exists" /\ a.key = NoKey /\ answer'[r].code = 0
    BY <1>1, <2>1, <2>3, ConstantsAssumption DEF Local, AtRow, AtAwait, AtAnswer, Awaits, Transaction
  <2>4. CASE step'[r] = "lookup1" /\ a.key \in Keys /\ answer'[r].code = 0
    BY <1>1, <2>1, <2>4, ConstantsAssumption DEF Local, AtRow, AtAwait, AtAnswer, Awaits, Transaction
  <2> QED BY <1>3, <2>2, <2>3, <2>4
<1>a. \A q \in Requests \ {r} : InFlight(q)' <=> InFlight(q)
  BY <1>1 DEF InFlight
<1>5. \A q \in Requests \ {r} : Local(q)'
  BY <1>1, <1>a DEF Inv, Local, AtRow, AtAwait, AtAnswer, Stored
<1>6. KeysNameOrders'
  <2>1. \A k \in Keys : keys[k] # None => keys[k] \in Requests /\ keys[k] # r
    BY <1>2, ZenonT(60) DEF Inv, KeysNameOrders, TypeOK, Stored
  <2> QED BY <1>1, <2>1 DEF Inv, KeysNameOrders
<1>7. LockAlone'
  <2>1. ~InFlight(r)'
    BY <1>1, <1>2, <1>3 DEF InFlight
  <2> QED BY <1>1, <1>a, <2>1 DEF Inv, LockAlone
<1> QED BY <1>4, <1>5, <1>6, <1>7 DEF Inv

(* findByKey: what it read of the key stays true, keys are never removed.    *)
LEMMA FindKeyStep ==
  ASSUME Inv, TypeOK', NEW r \in Requests, FindKey(r) PROVE Inv'
<1> TypeOK
  BY DEF Inv
<1>1. Local(r)
  BY DEF Inv
<1>2. /\ UNCHANGED <<owner, keys, ask, wire, orphans>> /\ step[r] \in {"lookup1", "lookup2"}
      /\ \A q \in Requests \ {r} :
           step'[q] = step[q] /\ answer'[q] = answer[q] /\ found'[q] = found[q]
  <2>1. /\ UNCHANGED <<owner, keys, ask, wire, orphans>> /\ step[r] \in {"lookup1", "lookup2"}
        /\ (\E s : Goto(r, s)) \/ Respond(r, 500, None)
    BY ZenonT(60) DEF FindKey, KeyUnknown
  <2>2. \A q \in Requests \ {r} : found'[q] = found[q]
    BY DEF FindKey, TypeOK
  <2>3. \A q \in Requests \ {r} : step'[q] = step[q] /\ answer'[q] = answer[q]
    BY <2>1, StepFacts
  <2> QED BY <2>1, <2>2, <2>3, ZenonT(60)
<1>3. /\ ask[r].key \in Keys /\ ~Stored(r) /\ wire[r] = "none" /\ answer[r].code = 0
      /\ r \notin orphans
      /\ step[r] = "lookup2" => keys[ask[r].key] # None
  BY <1>1, <1>2 DEF Local, AtRow, AtAwait, AtAnswer
<1>4. /\ answer'[r].code = 0
      /\ \/ step'[r] = "exists"
         \/ step'[r] \in {"load1", "load2"} /\ found'[r] # None /\ keys[ask[r].key] = found'[r]
  BY <1>3, StepFacts DEF FindKey, KeyUnknown, TypeOK
<1>5. ~InFlight(r)' /\ r \notin orphans'
  BY <1>2, <1>3, <1>4, ZenonT(60) DEF InFlight
<1>6. Local(r)'
  <2>1. AtRow(r)'
    BY <1>2, <1>3, <1>4, <1>5, ConstantsAssumption DEF AtRow, Local, Stored, Awaits, Transaction
  <2>2. AtAwait(r)'
    BY <1>2, <1>3, <1>4, <1>5, ConstantsAssumption DEF AtAwait, Local, Stored, Awaits, Transaction
  <2>3. AtAnswer(r)'
    BY <1>2, <1>3, <1>4, <1>5, ConstantsAssumption DEF AtAnswer, Local, Stored, Awaits, Transaction
  <2> QED BY <2>1, <2>2, <2>3, ZenonT(60) DEF Local
<1> QED BY <1>2, <1>4, <1>5, <1>6, QuietStep

(* replay: 200 only for the same user's order; the loser of a race finds one. *)
LEMMA LoadOrderStep ==
  ASSUME Inv, TypeOK', NEW r \in Requests, LoadOrder(r) PROVE Inv'
<1> TypeOK
  BY DEF Inv
<1>1. Local(r)
  BY DEF Inv
<1>2. /\ UNCHANGED <<owner, keys, ask, wire, found, orphans>> /\ step[r] \in {"load1", "load2"}
      /\ \A q \in Requests \ {r} : step'[q] = step[q] /\ answer'[q] = answer[q]
  BY StepFacts DEF LoadOrder, KeyUnknown, replay
<1>3. /\ ask[r].key \in Keys /\ ~Stored(r) /\ wire[r] = "none" /\ r \notin orphans
      /\ found[r] # None /\ keys[ask[r].key] = found[r]
  BY <1>1, <1>2 DEF Local, AtRow, AtAwait, AtAnswer
<1>4. owner[found[r]] # None
  BY <1>3, ZenonT(60) DEF Inv, KeysNameOrders
<1>5. /\ step'[r] = "done"
      /\ \/ answer'[r].code = 200 /\ answer'[r].order = found[r] /\ owner[found[r]] = ask[r].user
         \/ answer'[r].code = 409
  <2>1. \/ Respond(r, 200, found[r]) /\ owner[found[r]] = ask[r].user
        \/ Respond(r, 409, None)
    BY <1>4, ZenonT(60) DEF LoadOrder, replay
  <2> QED BY <2>1, StepFacts
<1>6. ~InFlight(r)' /\ r \notin orphans'
  BY <1>2, <1>3, <1>5 DEF InFlight
<1>7. Local(r)'
  <2>1. ~Stored(r)' /\ wire'[r] = "none" /\ keys'[ask'[r].key] = found[r] /\ ask'[r].key \in Keys
    BY <1>2, <1>3, ZenonT(60) DEF Stored
  <2>2. AtRow(r)'
    BY <1>6, <2>1, ZenonT(60) DEF AtRow
  <2>3. AtAwait(r)'
    BY <1>5, ZenonT(60) DEF AtAwait, Awaits, Transaction
  <2>4. AtAnswer(r)'
    <3>1. CASE answer'[r].code = 200 /\ answer'[r].order = found[r] /\ owner[found[r]] = ask[r].user
      BY <1>2, <1>3, <1>5, <2>1, <3>1 DEF AtAnswer
    <3>2. CASE answer'[r].code = 409
      <4>1. answer'[r].code # 0 /\ answer'[r].code # 200 /\ answer'[r].code # 201
        BY <3>2
      <4> QED BY <1>5, <2>1, <4>1, ZenonT(60) DEF AtAnswer
    <3> QED BY <1>5, <3>1, <3>2, ZenonT(60)
  <2> QED BY <2>2, <2>3, <2>4, ZenonT(60) DEF Local
<1> QED BY <1>2, <1>5, <1>6, <1>7, QuietStep

(* The other steps before the commit.                                        *)
LEMMA BeforeCommitStep ==
  ASSUME Inv, TypeOK', NEW r \in Requests, UserLookup(r) \/ InsertOrder(r) \/ InsertKey(r) PROVE Inv'
<1> TypeOK
  BY DEF Inv
<1>1. Local(r)
  BY DEF Inv
<1>2. /\ UNCHANGED <<owner, keys, ask, wire, found, orphans>>
      /\ step[r] \in {"exists", "insert_order", "insert_key"}
      /\ \A q \in Requests \ {r} : step'[q] = step[q] /\ answer'[q] = answer[q]
  BY StepFacts DEF UserLookup, InsertOrder, InsertKey
<1>3. ~Stored(r) /\ wire[r] = "none" /\ answer[r].code = 0 /\ ask[r].key # BadKey /\ r \notin orphans
  BY <1>1, <1>2 DEF Local, AtRow, AtAwait, AtAnswer, Awaits, Transaction
<1>4. \/ step'[r] = "done" /\ answer'[r].code \in {422, 503}
      \/ step'[r] = "insert_order" /\ answer'[r].code = 0
      \/ step'[r] = "insert_key" /\ ask[r].key # NoKey /\ answer'[r].code = 0
      \/ step'[r] = "lookup2" /\ ask[r].key \in Keys /\ keys[ask[r].key] # None /\ answer'[r].code = 0
      \/ step'[r] = "commit" /\ ask[r].key = NoKey /\ answer'[r].code = 0
      \/ step'[r] = "commit" /\ keys[ask[r].key] = None /\ ~KeyLocked(r) /\ answer'[r].code = 0
  <2>1. CASE UserLookup(r)
    BY <2>1, <1>3, StepFacts DEF UserLookup
  <2>2. CASE InsertOrder(r)
    <3>1. \/ ask[r].key = NoKey /\ Goto(r, "commit")
          \/ ask[r].key # NoKey /\ Goto(r, "insert_key")
      BY <2>2, ZenonT(60) DEF InsertOrder
    <3>2. \A s : Goto(r, s) => step'[r] = s /\ answer'[r].code = 0
      BY <1>3, StepFacts
    <3>3. \/ step'[r] = "commit" /\ ask[r].key = NoKey /\ answer'[r].code = 0
          \/ step'[r] = "insert_key" /\ ask[r].key # NoKey /\ answer'[r].code = 0
      BY <3>1, <3>2, ZenonT(60)
    <3> QED BY <3>3, ZenonT(60)
  <2>3. CASE InsertKey(r)
    BY <2>3, <1>1, <1>3, StepFacts DEF InsertKey, Local, AtRow, AtAwait, AtAnswer
  <2> QED BY <2>1, <2>2, <2>3, ZenonT(60)
<1>5. r \notin orphans' /\ (InFlight(r)' <=> step'[r] = "commit")
  BY <1>2, <1>3, ZenonT(60) DEF InFlight
<1>6. Local(r)'
  <2>1. AtRow(r)'
    BY <1>2, <1>3, <1>4, <1>5, AskFields, ConstantsAssumption DEF AtRow, Local, Stored, Awaits, Transaction
  <2>2. AtAwait(r)'
    BY <1>2, <1>3, <1>4, <1>5, AskFields, ConstantsAssumption DEF AtAwait, Local, Stored, Awaits, Transaction
  <2>3. AtAnswer(r)'
    BY <1>2, <1>3, <1>4, <1>5, AskFields, ConstantsAssumption DEF AtAnswer, Local, Stored, Awaits, Transaction
  <2> QED BY <2>1, <2>2, <2>3, ZenonT(60) DEF Local
<1> QED BY <1>2, <1>4, <1>5, <1>6, ConstantsAssumption, QuietStep

(* A commit, awaited or late: the lock has kept the key free since InsertKey *)
(* saw it free.                                                              *)
LEMMA StoreStep ==
  ASSUME Inv, TypeOK', NEW r \in Requests, InFlight(r), Store(r),
         UNCHANGED <<ask, wire, found, answer>>, orphans' = orphans \ {r},
         \A q \in Requests \ {r} : step'[q] = step[q],
         step'[r] \in {"committed", "done", "dead"},
         step'[r] = "committed" => answer[r].code = 0,
         step'[r] # "committed" => step'[r] = step[r] /\ r \in orphans
  PROVE  Inv'
<1> TypeOK
  BY DEF Inv
<1>1. Local(r)
  BY DEF Inv
<1>2. /\ \A q \in Requests \ {r} : owner'[q] = owner[q]
      /\ owner'[r] = ask[r].user
      /\ \A k \in Keys : keys'[k] = IF k = ask[r].key THEN r ELSE keys[k]
  BY DEF Store, TypeOK
<1>3. /\ ~Stored(r) /\ wire[r] = "none" /\ answer[r].code \in {0, 503} /\ ask[r].key # BadKey
      /\ ask[r].key \in Keys => keys[ask[r].key] = None
  BY <1>1 DEF Local, AtRow, AtAwait, AtAnswer
<1>a. ~InFlight(r)' /\ r \notin orphans' /\ \A q \in Requests \ {r} : InFlight(q)' <=> InFlight(q)
  BY DEF InFlight
<1>4. ask[r].user # None
  <2>1. ask[r].user \in Users
    BY AskFields
  <2> QED BY <2>1, ConstantsAssumption
<1>5. Local(r)'
  <2>1. /\ Stored(r)' /\ owner'[r] = ask'[r].user /\ ask'[r].key # BadKey
        /\ ask'[r].key \in Keys => keys'[ask'[r].key] = r
    BY <1>2, <1>3, <1>4 DEF Stored
  <2>2. answer'[r].code # 0 <=> step'[r] = "done"
    BY <1>1 DEF Local, AtRow, AtAwait, AtAnswer
  <2>3. wire'[r] = "none" /\ answer'[r].code \in {0, 503}
    BY <1>3, ZenonT(60)
  <2>4. AtRow(r)'
    BY <1>a, <2>1, <2>2, <2>3 DEF AtRow
  <2>5. AtAwait(r)'
    BY <1>a, <2>1, <2>2, <2>3 DEF AtAwait
  <2>6. AtAnswer(r)'
    BY <1>a, <2>1, <2>2, <2>3 DEF AtAnswer
  <2> QED BY <2>4, <2>5, <2>6, ZenonT(60) DEF Local
<1>6. ASSUME NEW q \in Requests \ {r} PROVE Local(q)'
  <2>1. Local(q)
    BY ZenonT(60) DEF Inv
  <2>2. ask[q].key \in Keys /\ keys[ask[q].key] # None => keys'[ask[q].key] = keys[ask[q].key]
    BY <1>2, <1>3, ZenonT(60)
  <2>3. InFlight(q) /\ ask[q].key \in Keys => ask[q].key # ask[r].key
    BY DEF Inv, LockAlone
  <2>4. ask[q].key \in Keys => keys'[ask[q].key] # None \/ ask[q].key # ask[r].key
    BY <1>2, ConstantsAssumption
  <2>5. \A o \in Requests : owner[o] # None => owner'[o] = owner[o]
    BY <1>2, <1>3 DEF Stored
  <2>6. answer[q].order \in Requests \cup {None}
    BY DEF TypeOK
  <2>7. ask[q].user # None
    BY AskFields, ConstantsAssumption
  <2>8. (InFlight(q)' <=> InFlight(q)) /\ (q \in orphans' <=> q \in orphans)
    BY <1>a
  <2>9. AtRow(q)'
    BY <1>2, <2>1, <2>2, <2>3, <2>4, <2>5, <2>6, <2>7, <2>8, ConstantsAssumption DEF AtRow, Local, Stored
  <2>12. /\ step'[q] = step[q] /\ ask'[q] = ask[q] /\ answer'[q] = answer[q] /\ found'[q] = found[q]
         /\ Stored(q)' <=> Stored(q)
    BY <1>2, ZenonT(60) DEF Stored
  <2>10. AtAwait(q)'
    <3>1. step[q] \in {"load1", "load2", "lookup2"} =>
            ask[q].key \in Keys /\ keys[ask[q].key] # None
      BY <2>1 DEF Local, AtAwait
    <3>2. step[q] \in {"load1", "load2", "lookup2"} => keys'[ask[q].key] = keys[ask[q].key]
      BY <3>1, <2>2, ZenonT(60)
    <3> QED BY <2>1, <2>12, <3>2, ZenonT(60) DEF Local, AtAwait
  <2>11. AtAnswer(q)'
    <3>1. answer[q].code = 200 => /\ keys'[ask[q].key] = answer[q].order
                                  /\ owner'[answer[q].order] = ask[q].user
      <4>1. HAVE answer[q].code = 200
      <4>2. /\ ask[q].key \in Keys /\ answer[q].order # None /\ keys[ask[q].key] = answer[q].order
            /\ owner[answer[q].order] = ask[q].user
        BY <2>1, <4>1, ZenonT(60) DEF Local, AtAnswer
      <4>3. answer[q].order \in Requests /\ owner[answer[q].order] # None
        BY <2>6, <2>7, <4>2
      <4> QED BY <2>2, <2>5, <4>2, <4>3, ZenonT(60)
    <3> QED BY <2>1, <2>12, <3>1, ZenonT(60) DEF Local, AtAnswer
  <2> QED BY <2>9, <2>10, <2>11, ZenonT(60) DEF Local
<1>7. KeysNameOrders'
  <2>1. \A k \in Keys : keys[k] # None => keys[k] \in Requests /\ keys[k] # r
    <3>1. \A k \in Keys : keys[k] # None => owner[keys[k]] # None
      BY ZenonT(60) DEF Inv, KeysNameOrders
    <3> QED BY <1>3, <3>1 DEF TypeOK, Stored
  <2> QED BY <1>2, <1>4, <2>1 DEF Inv, KeysNameOrders
<1>8. LockAlone'
  BY <1>a, ZenonT(60) DEF Inv, LockAlone
<1> QED BY <1>5, <1>6, <1>7, <1>8 DEF Inv

(* What the invariant says of a request at an await.                         *)
LEMMA LocalFacts ==
  ASSUME Inv, NEW r \in Requests
  PROVE  /\ step[r] \in Awaits => answer[r].code = 0 /\ ask[r].key # BadKey /\ r \notin orphans
         /\ step[r] \in {"committed", "publish"} => wire[r] = "none"
         /\ step[r] \in {"committed", "publish", "confirm"} => Stored(r)
         /\ step[r] \in Awaits \ {"committed", "publish", "confirm"} => ~Stored(r)
<1>1. Local(r)
  BY DEF Inv
<1>2. "done" \notin Awaits /\ "dead" \notin Awaits
  BY DEF Awaits, Transaction
<1>3. (step[r] \in Awaits => answer[r].code = 0 /\ ask[r].key # BadKey /\ r \notin orphans)
  BY <1>1, <1>2 DEF Local, AtRow, AtAwait, AtAnswer
<1>4. step[r] \in Awaits \ {"committed", "publish", "confirm"} => ~Stored(r)
  BY <1>1, <1>2 DEF Local, AtRow, AtAwait, AtAnswer
<1> QED BY <1>1, <1>3, <1>4 DEF Local, AtRow, AtAwait, AtAnswer

(* Commit and LateCommit, which may also find that there is nothing to do.   *)
LEMMA CommitStep ==
  ASSUME Inv, TypeOK', NEW r \in Requests, Commit(r) \/ LateCommit(r) PROVE Inv'
<1> TypeOK /\ Local(r)
  BY DEF Inv
<1>1. CASE Commit(r)
  <2>1. step'[r] = "committed" /\ \A q \in Requests \ {r} : step'[q] = step[q]
    BY <1>1, StepFacts DEF Commit
  <2>2. InFlight(r) /\ Store(r) /\ UNCHANGED <<ask, wire, found, answer, orphans>>
    BY <1>1 DEF Commit, Goto, InFlight
  <2>3. answer[r].code = 0 /\ r \notin orphans
    BY <1>1, LocalFacts DEF Commit, Awaits, Transaction
  <2> QED BY <2>1, <2>2, <2>3, StoreStep
<1>2. CASE LateCommit(r) /\ Store(r)
  <2>1. step[r] \in {"done", "dead"} /\ InFlight(r)
    BY <1>2, ZenonT(60) DEF LateCommit, Local, AtRow, AtAwait, AtAnswer, InFlight
  <2> QED BY <1>2, <2>1, StoreStep DEF LateCommit
<1>3. CASE LateCommit(r) /\ UNCHANGED <<owner, keys>>
  <2>1. /\ UNCHANGED <<owner, keys, ask, step, answer, found, wire>> /\ orphans' = orphans \ {r}
        /\ step[r] \in {"done", "dead"}
    BY <1>3 DEF LateCommit, Local, AtRow, AtAwait, AtAnswer
  <2>2. ~InFlight(r)' /\ r \notin orphans'
    BY <2>1, ZenonT(60) DEF InFlight
  <2>3. Local(r)'
    <3>1. AtRow(r)'
      <4>1. /\ Stored(r)' <=> Stored(r)
            /\ owner'[r] = owner[r] /\ ask'[r] = ask[r] /\ step'[r] = step[r] /\ wire'[r] = wire[r]
            /\ keys'[ask[r].key] = keys[ask[r].key]
        BY <2>1, ZenonT(60) DEF Stored
      <4>2. AtRow(r)
        BY ZenonT(60) DEF Local, Inv
      <4> QED BY <2>2, <4>1, <4>2, ZenonT(60) DEF AtRow
    <3>2. AtAwait(r)'
      BY <2>1, ZenonT(60) DEF AtAwait, Local, Stored
    <3>3. AtAnswer(r)'
      BY <2>1, ZenonT(60) DEF AtAnswer, Local, Stored
    <3> QED BY <3>1, <3>2, <3>3, ZenonT(60) DEF Local
  <2> QED BY <2>1, <2>2, <2>3, QuietStep, ZenonT(60)
<1> QED BY <1>1, <1>2, <1>3 DEF LateCommit

(* An event that travels leaves its request alone.                           *)
LEMMA LocalFrame ==
  ASSUME NEW r \in Requests, Local(r), wire[r] # "none",
         owner' = owner, keys' = keys, ask' = ask, found' = found, step' = step, answer' = answer,
         orphans' = orphans
  PROVE  Local(r)'
<1>1. Stored(r) /\ step[r] \in {"confirm", "done", "dead"}
  BY ZenonT(60) DEF Local, AtRow, AtAwait, AtAnswer
<1>2. AtRow(r)'
  BY <1>1, ZenonT(60) DEF AtRow, Local, Stored, InFlight
<1>3. AtAwait(r)'
  BY ZenonT(60) DEF AtAwait, Local, Stored
<1>4. AtAnswer(r)'
  <2>1. AtAnswer(r)
    BY ZenonT(60) DEF Local
  <2> QED BY <2>1, ZenonT(60) DEF AtAnswer, Stored
<1> QED BY <1>2, <1>3, <1>4, ZenonT(60) DEF Local

(* What a dead request has stored stays.                                     *)
LEMMA DeathKeepsLocal ==
  ASSUME NEW r \in Requests, Local(r), step'[r] = "dead", step[r] \in Awaits, answer[r].code = 0,
         owner' = owner, keys' = keys, ask' = ask, answer' = answer, wire' = wire,
         r \notin orphans, Abandon(r)
  PROVE  Local(r)'
<1>1. step'[r] \notin Awaits
  BY ZenonT(60) DEF Awaits, Transaction
<1>2. InFlight(r)' => InFlight(r)
  BY DEF InFlight, Abandon
<1>3. step'[r] \notin {"done", "lookup1", "load1", "lookup2", "load2", "insert_key",
                        "committed", "publish", "confirm"}
  BY ZenonT(60)
<1>4. AtRow(r)'
  <2>1. /\ Stored(r)' <=> Stored(r)
        /\ answer'[r].code \in {0, 503}
        /\ step'[r] \in {"committed", "publish", "confirm", "done", "dead"}
        /\ step'[r] \in {"confirm", "done", "dead"} /\ step'[r] \in {"done", "dead"}
    BY ZenonT(60) DEF Stored
  <2> QED BY <1>2, <2>1, ZenonT(60) DEF Local, AtRow
<1>5. AtAwait(r)'
  BY <1>1, <1>3, ZenonT(60) DEF AtAwait
<1>6. AtAnswer(r)'
  <2>1. answer'[r].code = 0
    OBVIOUS
  <2>2. step'[r] # "done"
    BY <1>3, ZenonT(60)
  <2> QED BY <2>1, <2>2, Unanswered, ZenonT(60)
<1> QED BY <1>4, <1>5, <1>6, ZenonT(60) DEF Local

(* Abandon touches one request, whose key stays locked for it alone.         *)
LEMMA AbandonFacts ==
  ASSUME Inv, NEW r \in Requests, Abandon(r), step'[r] # "commit", r \notin orphans
  PROVE  /\ \A q \in Requests \ {r} : q \in orphans' <=> q \in orphans
         /\ InFlight(r)' => InFlight(r)
         /\ InFlight(r)' /\ ask[r].key \in Keys => ~KeyLocked(r)
<1>1. (\A q \in Requests \ {r} : q \in orphans' <=> q \in orphans) /\ (InFlight(r)' => InFlight(r))
  BY ZenonT(60) DEF Abandon, InFlight
<1> QED BY <1>1 DEF Inv, LockAlone, KeyLocked

(* Publishing: nothing that was stored changes.                              *)
LEMMA PublishStep ==
  ASSUME Inv, TypeOK', NEW r \in Requests, CommitReturns(r) \/ SendEvent(r) PROVE Inv'
<1> TypeOK /\ Local(r)
  BY ZenonT(60) DEF Inv
<1>1. /\ UNCHANGED <<owner, keys, ask, found, orphans>>
      /\ \A q \in Requests \ {r} : step'[q] = step[q] /\ answer'[q] = answer[q] /\ wire'[q] = wire[q]
      /\ step[r] \in {"committed", "publish"} /\ step'[r] \in {"publish", "confirm"}
      /\ answer'[r] = answer[r]
      /\ wire'[r] # wire[r] => step'[r] = "confirm"
  <2>1. CASE CommitReturns(r)
    BY <2>1, StepFacts, ZenonT(60) DEF CommitReturns
  <2>2. CASE SendEvent(r)
    <3>1. step[r] = "publish" /\ Goto(r, "confirm") /\ UNCHANGED <<owner, keys, ask, found, orphans>>
      BY <2>2, ZenonT(60) DEF SendEvent
    <3>2. \A q \in Requests \ {r} : wire'[q] = wire[q]
      BY <2>2, ZenonT(60) DEF SendEvent, TypeOK
    <3> QED BY <3>1, <3>2, StepFacts, ZenonT(60)
  <2> QED BY <2>1, <2>2
<1>2. Stored(r) /\ answer[r].code = 0 /\ ask[r].key # BadKey /\ wire[r] = "none" /\ r \notin orphans
  BY <1>1, LocalFacts, ZenonT(60) DEF Awaits, Transaction
<1>3. owner[r] = ask[r].user /\ (ask[r].key \in Keys => keys[ask[r].key] = r)
  BY <1>2 DEF Local, AtRow, AtAwait, AtAnswer
<1>4. answer'[r].code = 0 /\ Stored(r)' /\ owner'[r] = ask'[r].user /\ ask'[r].key # BadKey
  BY <1>1, <1>2, <1>3, ZenonT(60) DEF Stored
<1>5. /\ step'[r] \in {"publish", "confirm"} /\ (wire'[r] # "none" => step'[r] = "confirm")
      /\ ask'[r].key \in Keys => keys'[ask'[r].key] = r
  BY <1>1, <1>2, <1>3, ZenonT(60)
<1>8. /\ step'[r] \notin {"done", "lookup1", "load1", "lookup2", "load2", "insert_key"}
      /\ step'[r] \in {"committed", "publish", "confirm", "done", "dead"}
  BY <1>5, ZenonT(60)
<1>6. ~InFlight(r)' /\ r \notin orphans'
  BY <1>1, <1>2, ZenonT(60) DEF InFlight
<1>7. Local(r)'
  <2>1. AtRow(r)'
    BY <1>4, <1>5, <1>6, <1>8 DEF AtRow
  <2>2. AtAwait(r)'
    BY <1>4, <1>8, ZenonT(60) DEF AtAwait
  <2>3. AtAnswer(r)'
    <3>1. answer'[r].code = 0 /\ step'[r] # "done"
      BY <1>4, <1>8, ZenonT(60)
    <3> QED BY <3>1, Unanswered, ZenonT(60)
  <2> QED BY <2>1, <2>2, <2>3, ZenonT(60) DEF Local
<1> QED BY <1>1, <1>6, <1>7, QuietStep

(* The answer after a publish, and 503 or 500 from any await on the database. *)
LEMMA AnswerStep ==
  ASSUME Inv, TypeOK', NEW r \in Requests,
         Confirmed(r) \/ PublishFails(r) \/ DatabaseFails(r) \/ StatementFails(r)
  PROVE  Inv'
<1> TypeOK /\ Local(r)
  BY ZenonT(60) DEF Inv
<1>1. /\ UNCHANGED <<owner, keys, ask, found, wire>> /\ Abandon(r)
      /\ \A q \in Requests \ {r} : step'[q] = step[q] /\ answer'[q] = answer[q]
      /\ step[r] \in Awaits /\ step'[r] = "done"
      /\ \/ /\ answer'[r].code = 201 /\ answer'[r].order = r /\ UNCHANGED orphans
            /\ step[r] \in {"publish", "confirm"}
         \/ answer'[r].code = 503
         \/ /\ answer'[r].code = 500 /\ UNCHANGED orphans
            /\ step[r] \in Awaits \ {"committed", "publish", "confirm"}
  <2>1. CASE Confirmed(r) \/ PublishFails(r)
    <3>1. Respond(r, 201, r) /\ UNCHANGED <<owner, keys, ask, found, wire, orphans>>
      BY <2>1 DEF Confirmed, PublishFails
    <3>2. step[r] \in {"publish", "confirm"}
      BY <2>1 DEF Confirmed, PublishFails
    <3>3. /\ step'[r] = "done" /\ answer'[r].code = 201 /\ answer'[r].order = r
          /\ \A q \in Requests \ {r} : step'[q] = step[q] /\ answer'[q] = answer[q]
      BY <3>1, StepFacts, ZenonT(60)
    <3>4. step[r] \in Awaits /\ Abandon(r)
      BY <3>1, <3>2, ZenonT(60) DEF Awaits, Abandon
    <3> QED BY <3>1, <3>2, <3>3, <3>4, ZenonT(60)
  <2>2. CASE DatabaseFails(r)
    <3>1. Respond(r, 503, None) /\ UNCHANGED <<owner, keys, ask, found, wire>> /\ Abandon(r)
      BY <2>2 DEF DatabaseFails
    <3>2. step[r] \in Awaits
      BY <2>2, ZenonT(60) DEF DatabaseFails, AwaitsDatabase, Awaits
    <3> QED BY <3>1, <3>2, StepFacts
  <2>3. CASE StatementFails(r)
    <3>1. /\ Respond(r, 500, None) /\ UNCHANGED <<owner, keys, ask, found, wire, orphans>>
          /\ Abandon(r)
      BY <2>3, ZenonT(60) DEF StatementFails, Abandon
    <3>2. step[r] \in Awaits \ {"committed", "publish", "confirm"}
      BY <2>3 DEF StatementFails, AwaitsDatabase, Awaits, Transaction
    <3> QED BY <3>1, <3>2, StepFacts
  <2> QED BY <2>1, <2>2, <2>3, ZenonT(60)
<1>2. "done" \notin Awaits /\ r \notin orphans
  <2>1. "done" \notin Awaits
    BY ZenonT(60) DEF Awaits, Transaction
  <2> QED BY <1>1, <2>1, LocalFacts, ZenonT(60)
<1>3. (answer'[r].code = 201 => Stored(r)) /\ (answer'[r].code = 500 => ~Stored(r))
  <2>1. step[r] \in {"publish", "confirm"} => Stored(r)
    BY LocalFacts, ZenonT(60)
  <2>2. step[r] \in Awaits \ {"committed", "publish", "confirm"} => ~Stored(r)
    BY LocalFacts, ZenonT(60)
  <2> QED BY <1>1, <2>1, <2>2
<1>4. /\ \A q \in Requests \ {r} : q \in orphans' <=> q \in orphans
      /\ InFlight(r)' => InFlight(r)
      /\ InFlight(r)' /\ ask[r].key \in Keys => ~KeyLocked(r)
  <2>1. step'[r] # "commit"
    BY <1>1
  <2> QED BY <1>1, <1>2, <2>1, AbandonFacts, ZenonT(60)
<1>5. Local(r)'
  <2>1. r \in orphans' => answer'[r].code = 503
    BY <1>1, <1>2
  <2>2. answer'[r].code \in {201, 500, 503} /\ step'[r] = "done" /\ (answer'[r].code = 201 => answer'[r].order = r)
    BY <1>1
  <2>3. (Stored(r)' <=> Stored(r)) /\ (wire'[r] # "none" => Stored(r))
    BY <1>1, ZenonT(60) DEF Local, AtRow, AtAwait, AtAnswer, Stored
  <2>4. /\ Stored(r) => owner'[r] = ask'[r].user /\ (ask'[r].key \in Keys => keys'[ask'[r].key] = r)
        /\ ask'[r].key # BadKey
        /\ InFlight(r)' => ~Stored(r) /\ (ask'[r].key \in Keys => keys'[ask'[r].key] = None)
    <3>1. UNCHANGED <<owner, keys, ask>> /\ step[r] \in Awaits
      BY <1>1, ZenonT(60)
    <3>2. InFlight(r)' => InFlight(r)
      BY <1>4, ZenonT(60)
    <3> QED BY <3>1, <3>2, ZenonT(60) DEF Local, AtRow, AtAwait
  <2>5. AtRow(r)'
    BY <2>1, <2>2, <2>3, <2>4, ZenonT(60) DEF AtRow
  <2>6. AtAwait(r)'
    BY <1>2, <2>2, ZenonT(60) DEF AtAwait
  <2>7. AtAnswer(r)'
    BY <1>3, <2>2, <2>3 DEF AtAnswer
  <2> QED BY <2>5, <2>6, <2>7, ZenonT(60) DEF Local
<1>6. UNCHANGED <<owner, keys, ask, found, wire>>
  BY <1>1, ZenonT(60)
<1>7. \A q \in Requests \ {r} : step'[q] = step[q] /\ answer'[q] = answer[q]
  BY <1>1, ZenonT(60)
<1>8. \A q \in Requests \ {r} : q \in orphans' <=> q \in orphans
  BY <1>4, ZenonT(60)
<1>9. InFlight(r)' /\ ask[r].key \in Keys => ~KeyLocked(r)
  BY <1>4, ZenonT(60)
<1> QED BY <1>5, <1>6, <1>7, <1>8, <1>9, QuietStep

(* The event travels.                                                        *)
LEMMA TravelStep ==
  ASSUME Inv, TypeOK', NEW r \in Requests, EventTravels(r) PROVE Inv'
<1> TypeOK /\ Local(r)
  BY DEF Inv
<1>1. /\ UNCHANGED <<owner, keys, ask, found, step, answer, orphans>> /\ wire[r] # "none"
      /\ \A q \in Requests \ {r} : wire'[q] = wire[q]
  BY ZenonT(60) DEF EventTravels, TypeOK
<1>2. Local(r)'
  BY <1>1, LocalFrame, ZenonT(60)
<1>3. ~InFlight(r)'
  <2>1. ~InFlight(r)
    BY <1>1, ZenonT(60) DEF Local, AtRow, AtAwait, AtAnswer
  <2> QED BY <1>1, <2>1 DEF InFlight
<1> QED BY <1>1, <1>2, <1>3, QuietStep

(* The process of a request dies.                                            *)
LEMMA CrashStep ==
  ASSUME Inv, TypeOK', NEW r \in Requests, Crash(r) PROVE Inv'
<1> TypeOK /\ Local(r)
  BY DEF Inv
<1>1. /\ UNCHANGED <<owner, keys, ask, found, answer, wire>> /\ Abandon(r)
      /\ step'[r] = "dead" /\ step[r] \in Awaits
      /\ \A q \in Requests \ {r} : step'[q] = step[q]
  <2>1. /\ UNCHANGED <<owner, keys, ask, found, answer, wire>> /\ Abandon(r) /\ step[r] \in Awaits
        /\ step' = [step EXCEPT ![r] = "dead"]
    BY ZenonT(60) DEF Crash
  <2> QED BY <2>1 DEF TypeOK
<1>2. answer[r].code = 0 /\ r \notin orphans
  BY <1>1, LocalFacts
<1>3. Local(r)'
  BY <1>1, <1>2, DeathKeepsLocal
<1>4. /\ \A q \in Requests \ {r} : q \in orphans' <=> q \in orphans
      /\ InFlight(r)' /\ ask[r].key \in Keys => ~KeyLocked(r)
  BY <1>1, <1>2, AbandonFacts
<1> QED BY <1>1, <1>3, <1>4, QuietStep, ZenonT(60)

-----------------------------------------------------------------------------
(* The invariant holds before the first request ...                          *)
LEMMA InitInv == Init => Inv
<1> SUFFICES ASSUME Init PROVE Inv
  OBVIOUS
<1>1. TypeOK
  BY ConstantsAssumption DEF Init, TypeOK, Codes
<1>2. KeysNameOrders /\ LockAlone
  BY DEF Init, KeysNameOrders, LockAlone, InFlight
<1>3. \A r \in Requests : Local(r)
  BY DEF Init, Local, AtRow, AtAwait, AtAnswer, Stored, InFlight, Awaits, Transaction
<1> QED BY <1>1, <1>2, <1>3 DEF Inv

(* ... and every step keeps it.                                              *)
LEMMA NextInv == Inv /\ [Next]_vars => Inv'
<1> SUFFICES ASSUME Inv, [Next]_vars PROVE Inv'
  OBVIOUS
<1>0. TypeOK'
  BY TypeStep
<1>1. ASSUME NEW r \in Requests, NEW a \in Asks, Arrive(r, a) PROVE Inv'
  BY <1>0, <1>1, ArriveStep
<1>2. ASSUME NEW r \in Requests,
             \/ Advance(r) \/ DatabaseFails(r) \/ StatementFails(r) \/ LateCommit(r)
             \/ EventTravels(r) \/ Crash(r)
      PROVE  Inv'
  BY <1>0, <1>2, FindKeyStep, LoadOrderStep, BeforeCommitStep, CommitStep,
     PublishStep, AnswerStep, TravelStep, CrashStep, ZenonT(60) DEF Advance
<1>3. CASE UNCHANGED vars \/ \E u \in Users : RegisterUser(u)
  <2>1. UNCHANGED <<owner, keys, ask, step, answer, found, wire, orphans>>
    BY <1>3 DEF vars, RegisterUser
  <2>2. \A r \in Requests : InFlight(r)' <=> InFlight(r)
    BY <2>1 DEF InFlight
  <2>3. KeysNameOrders'
    BY <2>1, ZenonT(60) DEF Inv, KeysNameOrders
  <2>5. LockAlone'
    BY <2>1, <2>2, ZenonT(60) DEF Inv, LockAlone
  <2>4. ASSUME NEW r \in Requests PROVE Local(r)'
    <3>1. Local(r)
      BY ZenonT(60) DEF Inv
    <3> QED BY <2>1, <2>2, <3>1 DEF Local, AtRow, AtAwait, AtAnswer, Stored
  <2> QED BY <1>0, <2>3, <2>4, <2>5 DEF Inv
<1> QED BY <1>1, <1>2, <1>3 DEF Next

(* The inductive invariant holds in every reachable state.                   *)
THEOREM Inductive == Spec => []Inv
BY InitInv, NextInv, PTL DEF Spec

(* However many requests of create() race with one key, one order is stored. *)
THEOREM AtMostOneOrder == Spec => []OneOrderPerKey
<1>1. ASSUME Inv, NEW r \in Requests, owner[r] # None, ask[r].key # NoKey
      PROVE  keys[ask[r].key] = r
  <2>1. AtRow(r)
    BY <1>1, ZenonT(60) DEF Inv, Local
  <2>2. ask[r].key # BadKey /\ (ask[r].key \in Keys => keys[ask[r].key] = r)
    BY <1>1, <2>1, ZenonT(60) DEF AtRow, Stored
  <2>3. ask[r].key \in Keys \cup {NoKey, BadKey}
    BY <1>1, AskFields, ZenonT(60) DEF Inv
  <2> QED BY <1>1, <2>2, <2>3, ZenonT(60)
<1>2. Inv => OneOrderPerKey
  BY <1>1, ZenonT(60) DEF OneOrderPerKey
<1> QED BY <1>2, Inductive, PTL

(* All successful answers for a key name the same order.                     *)
THEOREM ConsistentReplay == Spec => []SameKeySameOrder
<1>1. ASSUME Inv, NEW r \in Requests, Succeeded(r), ask[r].key # NoKey
      PROVE  answer[r].order = keys[ask[r].key]
  <2>1. AtRow(r) /\ AtAnswer(r)
    BY <1>1, ZenonT(60) DEF Inv, Local
  <2>2. CASE answer[r].code = 200
    BY <2>1, <2>2, ZenonT(60) DEF AtAnswer
  <2>3. CASE answer[r].code = 201
    <3>1. answer[r].order = r /\ Stored(r)
      BY <2>1, <2>3, ZenonT(60) DEF AtAnswer
    <3>2. ask[r].key # BadKey /\ (ask[r].key \in Keys => keys[ask[r].key] = r)
      BY <2>1, <3>1, ZenonT(60) DEF AtRow
    <3>3. ask[r].key \in Keys \cup {NoKey, BadKey}
      BY <1>1, AskFields, ZenonT(60) DEF Inv
    <3> QED BY <1>1, <3>1, <3>2, <3>3, ZenonT(60)
  <2> QED BY <1>1, <2>2, <2>3, ZenonT(60) DEF Succeeded
<1>2. Inv => SameKeySameOrder
  BY <1>1, ZenonT(60) DEF SameKeySameOrder
<1> QED BY <1>2, Inductive, PTL

(* replay() never hands a caller the order of another user.                  *)
THEOREM NoForeignOrder == Spec => []OrderOfRequestedUser
<1>1. ASSUME Inv, NEW r \in Requests, Succeeded(r)
      PROVE  owner[answer[r].order] = ask[r].user
  <2>1. AtRow(r) /\ AtAnswer(r)
    BY <1>1, ZenonT(60) DEF Inv, Local
  <2>2. CASE answer[r].code = 200
    BY <2>1, <2>2, ZenonT(60) DEF AtAnswer
  <2>3. CASE answer[r].code = 201
    <3>1. answer[r].order = r /\ Stored(r)
      BY <2>1, <2>3, ZenonT(60) DEF AtAnswer
    <3> QED BY <2>1, <3>1, ZenonT(60) DEF AtRow
  <2> QED BY <1>1, <2>2, <2>3, ZenonT(60) DEF Succeeded
<1>2. Inv => OrderOfRequestedUser
  BY <1>1, ZenonT(60) DEF OrderOfRequestedUser
<1> QED BY <1>2, Inductive, PTL

(* A request that is refused or fails with 500 stores and publishes nothing, *)
(* and nothing of it can be committed late.                                  *)
THEOREM CleanRefusal == Spec => []RefusalStoresNothing
<1>1. ASSUME Inv, NEW r \in Requests, answer[r].code \in {400, 403, 409, 422, 500}
      PROVE  owner[r] = None /\ wire[r] = "none" /\ r \notin orphans
  <2>1. AtRow(r) /\ AtAnswer(r)
    BY <1>1, ZenonT(60) DEF Inv, Local
  <2>2. ~Stored(r)
    BY <1>1, <2>1, ZenonT(60) DEF AtAnswer
  <2>3. answer[r].code \notin {0, 503}
    BY <1>1
  <2> QED BY <2>1, <2>2, <2>3, ZenonT(60) DEF AtRow, Stored
<1>2. Inv => RefusalStoresNothing
  BY <1>1, ZenonT(60) DEF RefusalStoresNothing
<1> QED BY <1>2, Inductive, PTL

(* publishCreated only ever announces a committed order.                     *)
THEOREM NoPhantomEvent == Spec => []EventOfStoredOrder
<1>1. Inv => EventOfStoredOrder
  BY ZenonT(60) DEF Inv, EventOfStoredOrder, Local, AtRow, Stored
<1> QED BY <1>1, Inductive, PTL

(* The second findByKey always finds the winner of the race.                 *)
THEOREM RaceResolved == Spec => []RaceLoserFindsWinner
<1>1. Inv => RaceLoserFindsWinner
  BY DEF Inv, RaceLoserFindsWinner, Local, AtAwait, KeysNameOrders
<1> QED BY <1>1, Inductive, PTL

(* A request that waits at its key's insert waits for one transaction, which *)
(* itself waits for nobody; one that was abandoned counts.                   *)
THEOREM OneTransactionPerKey == Spec => []LockAlone
<1>1. Inv => LockAlone
  BY DEF Inv
<1> QED BY <1>1, Inductive, PTL

\* How far create() has come; both ways out of a unique violation are ahead.
Rank(s) ==
  CASE s = "idle" -> 0 [] s = "lookup1" -> 1 [] s = "load1" -> 2 [] s = "exists" -> 3
    [] s = "insert_order" -> 4 [] s = "insert_key" -> 5 [] s \in {"commit", "lookup2"} -> 6
    [] s \in {"committed", "load2"} -> 7 [] s = "publish" -> 8 [] s = "confirm" -> 9
    [] s \in {"done", "dead"} -> 10

\* A step takes a request forward or leaves it where it is.
Forward == \A r \in Requests : step'[r] = step[r] \/ Rank(step[r]) < Rank(step'[r])

(* create() never goes back to an await it has left, not even after it lost  *)
(* the race for its key: however requests interleave and fail, each takes at *)
(* most ten steps.  With OneTransactionPerKey this is why none waits or runs *)
(* for ever.                                                                 *)
THEOREM CreateEnds == Spec => [][Forward]_vars
<1>1. ASSUME Inv, Next PROVE Forward
  <2> TypeOK
    BY <1>1 DEF Inv
  <2>a. ASSUME NEW r \in Requests, \A q \in Requests \ {r} : step'[q] = step[q],
               step'[r] = step[r] \/ Rank(step[r]) < Rank(step'[r])
        PROVE  Forward
    BY <2>a DEF Forward
  <2>1. ASSUME NEW r \in Requests, NEW a \in Asks, Arrive(r, a) PROVE Forward
    <3>1. step[r] = "idle" /\ step'[r] \in {"done", "exists", "lookup1"}
          /\ \A q \in Requests \ {r} : step'[q] = step[q]
      BY <2>1, StepFacts DEF Arrive
    <3>2. Rank(step[r]) < Rank(step'[r])
      BY <3>1 DEF Rank
    <3> QED BY <2>a, <3>1, <3>2, ZenonT(60)
  <2>2. ASSUME NEW r \in Requests, FindKey(r) \/ LoadOrder(r) PROVE Forward
    <3>1. /\ \/ step[r] = "lookup1" /\ step'[r] \in {"load1", "exists"}
             \/ step[r] = "lookup2" /\ step'[r] \in {"load2", "done"}
             \/ step[r] = "load1" /\ step'[r] \in {"exists", "done"}
             \/ step[r] = "load2" /\ step'[r] = "done"
          /\ \A q \in Requests \ {r} : step'[q] = step[q]
      BY <2>2, StepFacts DEF FindKey, LoadOrder, KeyUnknown, replay
    <3>2. Rank(step[r]) < Rank(step'[r])
      BY <3>1 DEF Rank
    <3> QED BY <2>a, <3>1, <3>2, ZenonT(60)
  <2>3. ASSUME NEW r \in Requests, UserLookup(r) \/ InsertOrder(r) \/ InsertKey(r) PROVE Forward
    <3>1. /\ \/ step[r] = "exists" /\ step'[r] \in {"insert_order", "done"}
             \/ step[r] = "insert_order" /\ step'[r] \in {"insert_key", "commit"}
             \/ step[r] = "insert_key" /\ step'[r] \in {"commit", "lookup2"}
          /\ \A q \in Requests \ {r} : step'[q] = step[q]
      BY <2>3, StepFacts DEF UserLookup, InsertOrder, InsertKey
    <3>2. Rank(step[r]) < Rank(step'[r])
      BY <3>1 DEF Rank
    <3> QED BY <2>a, <3>1, <3>2, ZenonT(60)
  <2>4. ASSUME NEW r \in Requests, Commit(r) \/ CommitReturns(r) \/ SendEvent(r) PROVE Forward
    <3>1. /\ \/ step[r] = "commit" /\ step'[r] = "committed"
             \/ step[r] = "committed" /\ step'[r] = "publish"
             \/ step[r] = "publish" /\ step'[r] = "confirm"
          /\ \A q \in Requests \ {r} : step'[q] = step[q]
      BY <2>4, StepFacts DEF Commit, CommitReturns, SendEvent
    <3>2. Rank(step[r]) < Rank(step'[r])
      BY <3>1 DEF Rank
    <3> QED BY <2>a, <3>1, <3>2, ZenonT(60)
  <2>5. ASSUME NEW r \in Requests,
               Confirmed(r) \/ PublishFails(r) \/ DatabaseFails(r) \/ StatementFails(r) \/ Crash(r)
        PROVE  Forward
    <3>1. /\ step[r] \in Awaits /\ step'[r] \in {"done", "dead"}
          /\ \A q \in Requests \ {r} : step'[q] = step[q]
      BY <2>5, StepFacts DEF Confirmed, PublishFails, DatabaseFails, StatementFails, AwaitsDatabase, Crash,
         Awaits, Transaction, TypeOK
    <3>2. \A s \in Awaits : Rank(s) < 10
      BY DEF Rank, Awaits, Transaction
    <3>3. \A s \in {"done", "dead"} : Rank(s) = 10
      BY DEF Rank
    <3>4. Rank(step[r]) < Rank(step'[r])
      BY <3>1, <3>2, <3>3, ZenonT(60)
    <3> QED BY <2>a, <3>1, <3>4, ZenonT(60)
  <2>6. ASSUME UNCHANGED step PROVE Forward
    BY <2>6 DEF Forward
  <2> QED
    BY <1>1, <2>1, <2>2, <2>3, <2>4, <2>5, <2>6 DEF Next, Advance, EventTravels, LateCommit,
       RegisterUser
<1> QED BY <1>1, Inductive, PTL DEF Spec

-----------------------------------------------------------------------------
\* Whoever may still store an order has been told that its user exists.
Storing(r) == step[r] \in {"insert_order", "insert_key"} \/ InFlight(r)
Vetted == \A r \in Requests : Storing(r) => ask[r].user \in users

(* Users are never removed, so what the lookup said stays true.              *)
LEMMA VettedStep == Inv /\ Vetted /\ [Next]_vars => Vetted'
<1> SUFFICES ASSUME Inv, Vetted, [Next]_vars PROVE Vetted'
  OBVIOUS
<1> TypeOK
  BY ZenonT(60) DEF Inv
<1>a. ASSUME NEW r \in Requests, users \subseteq users', UNCHANGED ask,
             \A q \in Requests \ {r} : step'[q] = step[q] /\ (q \in orphans' => q \in orphans),
             Storing(r)' => Storing(r) \/ ask[r].user \in users
      PROVE  Vetted'
  <2>1. \A q \in Requests \ {r} : Storing(q)' => Storing(q)
    BY <1>a DEF Storing, InFlight
  <2> QED BY <1>a, <2>1, ZenonT(60) DEF Vetted
<1>b. ASSUME NEW r \in Requests, NEW s, Goto(r, s), UNCHANGED <<users, ask, orphans>>,
             s \in {"insert_order", "insert_key", "commit"} => Storing(r) \/ ask[r].user \in users
      PROVE  Vetted'
  <2>1. step'[r] = s /\ \A q \in Requests \ {r} : step'[q] = step[q]
    BY <1>b, StepFacts
  <2>2. Storing(r)' => Storing(r) \/ ask[r].user \in users
    BY <1>b, <2>1 DEF Storing, InFlight
  <2> QED BY <1>a, <1>b, <2>1, <2>2
<1>c. ASSUME NEW r \in Requests, step'[r] \in {"done", "dead"}, UNCHANGED <<users, ask>>, Abandon(r),
             \A q \in Requests \ {r} : step'[q] = step[q]
      PROVE  Vetted'
  <2>1. Storing(r)' => Storing(r)
    BY <1>c DEF Storing, InFlight, Abandon
  <2>2. \A q \in Requests \ {r} : q \in orphans' => q \in orphans
    BY <1>c DEF Abandon
  <2> QED BY <1>a, <1>c, <2>1, <2>2
<1>d. ASSUME NEW r \in Requests, NEW c, NEW o, Respond(r, c, o), UNCHANGED <<users, ask>>,
             Abandon(r) \/ UNCHANGED orphans
      PROVE  Vetted'
  BY <1>c, <1>d, StepFacts DEF Abandon
<1>1. ASSUME NEW r \in Requests, NEW a \in Asks, Arrive(r, a) PROVE Vetted'
  <2>1. /\ users' = users /\ orphans' = orphans /\ step'[r] \in {"done", "exists", "lookup1"}
        /\ step[r] = "idle"
        /\ \A q \in Requests \ {r} : step'[q] = step[q] /\ ask'[q] = ask[q]
    <3>1. /\ users' = users /\ orphans' = orphans /\ step[r] = "idle"
          /\ \/ Goto(r, "exists") \/ Goto(r, "lookup1")
             \/ \E c \in {400, 403} : Respond(r, c, None)
      BY <1>1 DEF Arrive
    <3>2. \A q \in Requests \ {r} : ask'[q] = ask[q]
      BY <1>1 DEF Arrive, TypeOK
    <3>3. step'[r] \in {"done", "exists", "lookup1"} /\ \A q \in Requests \ {r} : step'[q] = step[q]
      BY <3>1, StepFacts
    <3> QED BY <3>1, <3>2, <3>3
  <2>2. r \notin orphans
    BY <2>1 DEF Inv, Local, AtRow, AtAwait, AtAnswer
  <2>3. ~Storing(r)' /\ \A q \in Requests \ {r} : Storing(q)' <=> Storing(q)
    BY <2>1, <2>2 DEF Storing, InFlight
  <2> QED BY <2>1, <2>3, ZenonT(60) DEF Vetted
<1>2. ASSUME NEW r \in Requests,
             \/ Advance(r) \/ DatabaseFails(r) \/ StatementFails(r) \/ LateCommit(r)
             \/ EventTravels(r) \/ Crash(r)
      PROVE  Vetted'
  <2>1. CASE UserLookup(r) \/ InsertOrder(r) \/ InsertKey(r)
    BY <1>b, <1>d, <2>1, ZenonT(60) DEF UserLookup, InsertOrder, InsertKey, Storing
  <2>2. CASE FindKey(r) \/ LoadOrder(r)
    BY <1>b, <1>d, <2>2, ZenonT(60) DEF FindKey, LoadOrder, KeyUnknown, replay
  <2>3. CASE Commit(r) \/ CommitReturns(r) \/ SendEvent(r)
    BY <1>b, <2>3, ZenonT(60) DEF Commit, CommitReturns, SendEvent
  <2>4. CASE Confirmed(r) \/ PublishFails(r) \/ DatabaseFails(r) \/ StatementFails(r)
    BY <1>d, <2>4, ZenonT(60) DEF Confirmed, PublishFails, DatabaseFails, StatementFails
  <2>5. CASE Crash(r)
    BY <1>c, <2>5 DEF Crash, TypeOK
  <2>6. CASE EventTravels(r) \/ LateCommit(r)
    <3>1. UNCHANGED <<users, ask, step>> /\ orphans' \subseteq orphans
      BY <2>6 DEF EventTravels, LateCommit
    <3>2. Storing(r)' => Storing(r)
      BY <3>1, ZenonT(60) DEF Storing, InFlight
    <3> QED BY <1>a, <3>1, <3>2
  <2> QED BY <1>2, <2>1, <2>2, <2>3, <2>4, <2>5, <2>6, ZenonT(60) DEF Advance
<1>3. CASE UNCHANGED vars \/ \E u \in Users : RegisterUser(u)
  BY <1>3 DEF vars, RegisterUser, Vetted, Storing, InFlight
<1> QED BY <1>1, <1>2, <1>3 DEF Next

(* What reaches the queue: only EventTravels changes it, and adds one event. *)
LEMMA QueueFacts ==
  ASSUME Inv
  PROVE  /\ UNCHANGED <<ask, wire>> => Queued' = Queued
         /\ \A r \in Requests, a \in Asks : Arrive(r, a) => Queued' = Queued
         /\ \A r \in Requests : SendEvent(r) => Queued' = Queued
         /\ \A r \in Requests : EventTravels(r) =>
              \/ Queued' = Queued
              \/ eventOf(r) \notin Queued /\ Queued' = Queued \cup {eventOf(r)}
<1> DEFINE landed == {q \in Requests : wire[q] = "landed"}
<1> TypeOK
  BY DEF Inv
<1>1. ASSUME landed' = landed, \A q \in landed : ask'[q] = ask[q] PROVE Queued' = Queued
  <2>1. \A q \in landed : eventOf(q)' = eventOf(q)
    BY <1>1 DEF eventOf
  <2> QED BY <1>1, <2>1 DEF Queued
<1>2. UNCHANGED <<ask, wire>> => Queued' = Queued
  BY <1>1
<1>3. ASSUME NEW r \in Requests, NEW a \in Asks, Arrive(r, a) PROVE Queued' = Queued
  <2>1. wire' = wire /\ step[r] = "idle" /\ \A q \in Requests \ {r} : ask'[q] = ask[q]
    BY <1>3, ZenonT(60) DEF Arrive, TypeOK
  <2>2. r \notin landed
    BY <2>1 DEF Inv, Local, AtRow, AtAwait, AtAnswer
  <2> QED BY <1>1, <2>1, <2>2
<1>4. ASSUME NEW r \in Requests, SendEvent(r) PROVE Queued' = Queued
  <2>1. wire[r] # "landed" /\ wire' = [wire EXCEPT ![r] = "sent"] /\ ask' = ask
    BY <1>4, LocalFacts DEF SendEvent
  <2>2. landed' = landed
    BY <2>1 DEF TypeOK
  <2> QED BY <1>1, <2>1, <2>2, ZenonT(60)
<1>5. ASSUME NEW r \in Requests, EventTravels(r)
      PROVE  \/ Queued' = Queued
             \/ eventOf(r) \notin Queued /\ Queued' = Queued \cup {eventOf(r)}
  <2>1. r \notin landed /\ ask' = ask
    BY <1>5 DEF EventTravels
  <2>2. landed' = landed \cup {r} \/ landed' = landed
    BY <1>5 DEF EventTravels, TypeOK
  <2>3. CASE landed' = landed
    BY <1>1, <2>1, <2>3
  <2>4. CASE landed' = landed \cup {r}
    <3>1. \A q \in Requests : eventOf(q)' = eventOf(q)
      BY <2>1 DEF eventOf
    <3>2. Queued' = Queued \cup {eventOf(r)}
      BY <2>4, <3>1 DEF Queued
    <3>3. \A q \in landed : eventOf(q) # eventOf(r)
      BY <2>1 DEF eventOf
    <3> QED BY <3>2, <3>3 DEF Queued
  <2> QED BY <2>2, <2>3, <2>4
<1> QED BY <1>2, <1>3, <1>4, <1>5

(* How the steps of a request look in IdempotentOrders.         *)
LEMMA PhaseFacts ==
  ASSUME TypeOK, NEW r \in Requests
  PROVE  /\ step[r] = "idle" => phaseBar[r] = "new"
         /\ step[r] \in Awaits => phaseBar[r] = "open"
         /\ \A s \in Awaits : step[r] \in Awaits /\ Goto(r, s) => phaseBar' = phaseBar
         /\ \A s \in Awaits : Goto(r, s) => phaseBar' = [phaseBar EXCEPT ![r] = "open"]
         /\ \A c, o : Respond(r, c, o) => Promise!Close(r, c, o)
<1>1. \A s \in Awaits : s # "idle" /\ s # "done"
  BY DEF Awaits, Transaction
<1>2. (step[r] = "idle" => phaseBar[r] = "new") /\ (step[r] \in Awaits => phaseBar[r] = "open")
  BY <1>1 DEF phaseBar
<1>3. ASSUME NEW s \in Awaits, Goto(r, s) PROVE phaseBar' = [phaseBar EXCEPT ![r] = "open"]
  BY <1>1, <1>3, ZenonT(60) DEF phaseBar, Goto, TypeOK
<1>4. ASSUME NEW s \in Awaits, step[r] \in Awaits, Goto(r, s) PROVE phaseBar' = phaseBar
  BY <1>1, <1>4 DEF phaseBar, Goto, TypeOK
<1>5. ASSUME NEW c, NEW o, Respond(r, c, o) PROVE Promise!Close(r, c, o)
  <2>1. phaseBar' = [phaseBar EXCEPT ![r] = "closed"]
    BY <1>5, ZenonT(60) DEF phaseBar, Respond, TypeOK
  <2> QED BY <1>5, <2>1 DEF Respond, Promise!Close
<1> QED BY <1>2, <1>3, <1>4, <1>5

(* Every step of the service is a step of IdempotentOrders or changes        *)
(* nothing there.                                                            *)
LEMMA StepRefines == Inv /\ Inv' /\ Vetted /\ [Next]_vars => [Promise!Next]_(Promise!vars)
<1> SUFFICES ASSUME Inv, Inv', Vetted, [Next]_vars
             PROVE  Promise!Next \/ UNCHANGED <<users, phaseBar, ask, owner, keys, answer, Queued>>
  BY DEF Promise!vars
<1> TypeOK
  BY DEF Inv
<1>a. (\E r \in Requests : (\E a \in Asks : Arrive(r, a)) \/ Advance(r) \/ DatabaseFails(r)
          \/ StatementFails(r) \/ LateCommit(r) \/ EventTravels(r) \/ Crash(r)) => UNCHANGED users
  BY ZenonT(60)
  DEF Arrive, Advance, FindKey, LoadOrder, UserLookup, InsertOrder, InsertKey, Commit, CommitReturns,
     SendEvent, Confirmed, PublishFails, DatabaseFails, StatementFails, LateCommit, EventTravels, Crash
<1>1. ASSUME NEW r \in Requests, NEW a \in Asks, Arrive(r, a) PROVE Promise!Receive(r, a)
  <2>1. /\ phaseBar[r] = "new" /\ ask' = [ask EXCEPT ![r] = a]
        /\ UNCHANGED <<users, owner, keys, Queued>>
    BY <1>1, PhaseFacts, QueueFacts DEF Arrive
  <2>2. \/ /\ selfOrAdmin(a) /\ a.key # BadKey
           /\ phaseBar' = [phaseBar EXCEPT ![r] = "open"] /\ UNCHANGED answer
        \/ selfOrAdmin(a) /\ a.key = BadKey /\ Promise!Close(r, 400, None)
        \/ ~selfOrAdmin(a) /\ Promise!Close(r, 403, None)
    BY <1>1, PhaseFacts, ConstantsAssumption DEF Arrive, Goto, Awaits
  <2>3. selfOrAdmin(a) <=> Promise!Allowed(a)
    BY DEF selfOrAdmin, Promise!Allowed
  <2> QED BY <2>1, <2>2, <2>3, ZenonT(60) DEF Promise!Receive
<1>2. ASSUME NEW r \in Requests, FindKey(r)
      PROVE  UNCHANGED <<phaseBar, ask, owner, keys, answer, Queued>>
  <2>1. Local(r)
    BY ZenonT(60) DEF Inv
  <2>2. \E s \in {"exists", "load1", "load2"} : Goto(r, s)
    BY <1>2, <2>1 DEF FindKey, KeyUnknown, Local, AtRow, AtAwait, AtAnswer
  <2>3. step[r] \in Awaits /\ {"exists", "load1", "load2"} \subseteq Awaits
    BY <1>2, ZenonT(60) DEF FindKey, Awaits
  <2> QED BY <1>2, <2>2, <2>3, PhaseFacts, QueueFacts, ZenonT(60) DEF FindKey, Goto
<1>3. ASSUME NEW r \in Requests, LoadOrder(r) PROVE Promise!Reply(r)
  <2>1. /\ ask[r].key \in Keys /\ found[r] # None /\ keys[ask[r].key] = found[r] /\ owner[r] = None
    <3>1. Local(r) /\ step[r] \in {"load1", "load2"}
      BY <1>3, ZenonT(60) DEF Inv, LoadOrder
    <3>2. ~Stored(r)
      BY <3>1, ZenonT(60) DEF Local, AtRow
    <3> QED BY <3>1, <3>2 DEF Local, AtRow, AtAwait, AtAnswer, Stored
  <2>2. owner[found[r]] # None
    BY <2>1, ZenonT(60) DEF Inv, KeysNameOrders
  <2>3. phaseBar[r] = "open" /\ UNCHANGED <<users, ask, owner, keys, Queued>>
    BY <1>3, PhaseFacts, QueueFacts, ZenonT(60) DEF LoadOrder, Awaits
  <2>4. \/ owner[found[r]] = ask[r].user /\ Promise!Close(r, 200, found[r])
        \/ Promise!Close(r, 409, None)
    <3>1. replay(r, found[r])
      BY <1>3, <2>2, ZenonT(60) DEF LoadOrder
    <3>2. \/ owner[found[r]] = ask[r].user /\ Respond(r, 200, found[r])
          \/ Respond(r, 409, None)
      BY <3>1, ZenonT(60) DEF replay
    <3>3. \A c, o : Respond(r, c, o) => Promise!Close(r, c, o)
      BY PhaseFacts, ZenonT(60)
    <3> QED BY <3>2, <3>3
  <2>5. /\ ask[r].key \in Keys /\ keys[ask[r].key] # None /\ owner[r] = None
        /\ \/ /\ owner[keys[ask[r].key]] = ask[r].user
              /\ Promise!Close(r, 200, keys[ask[r].key])
           \/ Promise!Close(r, 409, None)
    BY <2>1, <2>4, ZenonT(60)
  <2> QED BY <2>3, <2>5, ZenonT(60) DEF Promise!Reply
<1>4. ASSUME NEW r \in Requests, UserLookup(r)
      PROVE  Promise!Reply(r) \/ UNCHANGED <<phaseBar, ask, owner, keys, answer, Queued>>
  <2>1. /\ step[r] \in Awaits /\ phaseBar[r] = "open" /\ owner[r] = None
        /\ "insert_order" \in Awaits /\ UNCHANGED <<ask, owner, keys, Queued>>
    <3>1. /\ step[r] = "exists" /\ step[r] \in Awaits /\ "insert_order" \in Awaits
          /\ UNCHANGED <<ask, owner, keys, wire>>
      BY <1>4, ZenonT(60) DEF UserLookup, Awaits, Transaction
    <3>2. owner[r] = None
      BY <3>1, LocalFacts, ZenonT(60) DEF Stored
    <3> QED BY <3>1, <3>2, PhaseFacts, QueueFacts
  <2>2. \/ Goto(r, "insert_order")
        \/ Promise!Close(r, 422, None) \/ Promise!Close(r, 503, None)
    <3>1. Goto(r, "insert_order") \/ Respond(r, 422, None) \/ Respond(r, 503, None)
      BY <1>4, ZenonT(60) DEF UserLookup
    <3>2. \A c, o : Respond(r, c, o) => Promise!Close(r, c, o)
      BY PhaseFacts, ZenonT(60)
    <3> QED BY <3>1, <3>2
  <2>3. CASE Goto(r, "insert_order")
    BY <2>1, <2>3, PhaseFacts DEF Goto
  <2>4. CASE Promise!Close(r, 422, None) \/ Promise!Close(r, 503, None)
    <3>1. UNCHANGED users
      BY <1>4, ZenonT(60) DEF UserLookup
    <3>2. 422 \in {422, 500}
      OBVIOUS
    <3> QED BY <2>1, <2>4, <3>1, <3>2, ZenonT(60) DEF Promise!Reply
  <2> QED BY <2>2, <2>3, <2>4, ZenonT(60)
<1>5. ASSUME NEW r \in Requests,
             InsertOrder(r) \/ InsertKey(r) \/ CommitReturns(r) \/ SendEvent(r)
      PROVE  UNCHANGED <<phaseBar, ask, owner, keys, answer, Queued>>
  <2>1. \E s \in {"commit", "insert_key", "lookup2", "publish", "confirm"} : Goto(r, s)
    <3>1. CASE InsertOrder(r) \/ InsertKey(r)
      BY <3>1 DEF InsertOrder, InsertKey
    <3>2. CASE CommitReturns(r) \/ SendEvent(r)
      BY <3>2, ZenonT(60) DEF CommitReturns, SendEvent
    <3> QED BY <1>5, <3>1, <3>2, ZenonT(60)
  <2>2. /\ {"commit", "insert_key", "lookup2", "publish", "confirm"} \subseteq Awaits
        /\ step[r] \in Awaits /\ UNCHANGED <<ask, owner, keys>>
    BY <1>5 DEF InsertOrder, InsertKey, CommitReturns, SendEvent, Awaits, Transaction
  <2>3. UNCHANGED Queued
    BY <1>5, QueueFacts, ZenonT(60) DEF InsertOrder, InsertKey, CommitReturns
  <2> QED BY <2>1, <2>2, <2>3, PhaseFacts, ZenonT(60) DEF Goto
<1>6. ASSUME NEW r \in Requests, InFlight(r), Store(r), UNCHANGED <<users, phaseBar, ask, answer, wire>>
      PROVE  Promise!Place(r)
  <2>1. Local(r) /\ owner[r] = None /\ (ask[r].key \in Keys => keys[ask[r].key] = None)
    <3>1. Local(r)
      BY ZenonT(60) DEF Inv
    <3>2. ~Stored(r) /\ (ask[r].key \in Keys => keys[ask[r].key] = None)
      BY <1>6, <3>1, ZenonT(60) DEF Local, AtRow, AtAwait, AtAnswer
    <3> QED BY <3>1, <3>2 DEF Stored
  <2>2. Promise!Undecided(r)
    <3>1. CASE step[r] = "commit"
      BY <3>1, PhaseFacts DEF Promise!Undecided, Awaits, Transaction
    <3>2. CASE r \in orphans /\ step[r] = "dead"
      BY <3>2, ZenonT(60) DEF phaseBar, Promise!Undecided
    <3>3. CASE r \in orphans /\ step[r] = "done"
      BY <2>1, <3>3 DEF Local, AtRow, AtAwait, AtAnswer, Promise!Undecided
    <3>4. r \in orphans => step[r] \in {"done", "dead"}
      BY <2>1, ZenonT(60) DEF Local, AtRow, AtAwait, AtAnswer
    <3> QED BY <1>6, <3>1, <3>2, <3>3, <3>4 DEF InFlight
  <2>3. ask[r].user \in users
    BY <1>6, ZenonT(60) DEF Vetted, Storing
  <2>4. UNCHANGED Queued
    BY <1>6, QueueFacts
  <2> QED BY <1>6, <2>1, <2>2, <2>3, <2>4 DEF Store, Promise!Place, Promise!KeyUnused, Promise!Store
<1>b. ASSUME NEW r \in Requests, Commit(r) PROVE Promise!Place(r)
  <2>1. phaseBar' = phaseBar /\ UNCHANGED <<users, ask, answer, wire>> /\ Store(r)
    BY <1>b, PhaseFacts, ZenonT(60) DEF Commit, Goto, Awaits, Transaction
  <2> QED BY <1>6, <1>b, <2>1 DEF Commit, InFlight
<1>c. ASSUME NEW r \in Requests, LateCommit(r)
      PROVE  Promise!Place(r) \/ UNCHANGED <<phaseBar, ask, owner, keys, answer, Queued>>
  <2>1. UNCHANGED <<users, phaseBar, ask, answer, wire>> /\ InFlight(r)
    BY <1>c DEF LateCommit, phaseBar, InFlight
  <2> QED BY <1>6, <1>c, <2>1, QueueFacts DEF LateCommit
<1>7. ASSUME NEW r \in Requests,
             Confirmed(r) \/ PublishFails(r) \/ DatabaseFails(r) \/ StatementFails(r)
      PROVE  Promise!Reply(r)
  <2>1. step[r] \in Awaits /\ phaseBar[r] = "open" /\ UNCHANGED <<ask, owner, keys, Queued>>
    BY <1>7, PhaseFacts, QueueFacts, ZenonT(60)
    DEF Confirmed, PublishFails, DatabaseFails, StatementFails, AwaitsDatabase, Awaits
  <2>2. \/ owner[r] # None /\ Promise!Close(r, 201, r)
        \/ owner[r] = None /\ Promise!Close(r, 500, None)
        \/ Promise!Close(r, 503, None)
    <3>0. \A c, o : Respond(r, c, o) => Promise!Close(r, c, o)
      BY PhaseFacts, ZenonT(60)
    <3>3. CASE DatabaseFails(r)
      <4>1. Respond(r, 503, None)
        BY <3>3, ZenonT(60) DEF DatabaseFails
      <4> QED BY <3>0, <4>1
    <3>1. CASE Confirmed(r) \/ PublishFails(r)
      <4>1. step[r] \in {"publish", "confirm"} /\ Respond(r, 201, r)
        BY <3>1 DEF Confirmed, PublishFails
      <4>2. owner[r] # None
        <5>1. Stored(r)
          BY <4>1, LocalFacts, ZenonT(60)
        <5> QED BY <5>1 DEF Stored
      <4> QED BY <3>0, <4>1, <4>2
    <3>2. CASE StatementFails(r)
      <4>1. step[r] \in Awaits \ {"committed", "publish", "confirm"}
        BY <3>2 DEF StatementFails, AwaitsDatabase, Awaits, Transaction
      <4>2. ~Stored(r)
        BY <4>1, LocalFacts, ZenonT(60)
      <4>3. Respond(r, 500, None)
        BY <3>2, ZenonT(60) DEF StatementFails
      <4> QED BY <3>0, <4>2, <4>3 DEF Stored
    <3> QED BY <1>7, <3>1, <3>2, <3>3
  <2>3. UNCHANGED users
    BY <1>7 DEF Confirmed, PublishFails, DatabaseFails, StatementFails
  <2> QED BY <2>1, <2>2, <2>3, ZenonT(60) DEF Promise!Reply
<1>8. ASSUME NEW r \in Requests, EventTravels(r)
      PROVE  Promise!Announce(r) \/ UNCHANGED <<phaseBar, ask, owner, keys, answer, Queued>>
  <2>1. UNCHANGED <<users, phaseBar, ask, owner, keys, answer>> /\ owner[r] # None
    BY <1>8 DEF EventTravels, phaseBar, Inv, Local, AtRow, AtAwait, AtAnswer, Stored
  <2>2. eventOf(r) = Promise!eventOf(r)
    BY DEF eventOf, Promise!eventOf
  <2> QED BY <1>8, <2>1, <2>2, QueueFacts, ZenonT(60) DEF Promise!Announce
<1>9. ASSUME NEW r \in Requests, Crash(r)
      PROVE  UNCHANGED <<phaseBar, ask, owner, keys, answer, Queued>>
  <2>1. step[r] \in Awaits /\ step' = [step EXCEPT ![r] = "dead"]
    BY <1>9 DEF Crash
  <2>2. step[r] # "idle" /\ step[r] # "done"
    BY <2>1 DEF Awaits, Transaction
  <2>3. phaseBar' = phaseBar
    BY <2>1, <2>2 DEF phaseBar, TypeOK
  <2> QED BY <1>9, <2>3, QueueFacts DEF Crash
<1>10. ASSUME NEW u \in Users, RegisterUser(u) PROVE Promise!Register(u)
  BY <1>10, QueueFacts DEF RegisterUser, phaseBar, Promise!Register
<1>11. CASE UNCHANGED vars
  BY <1>11, QueueFacts DEF vars, phaseBar
<1> QED
  BY <1>a, <1>b, <1>c, <1>1, <1>2, <1>3, <1>4, <1>5, <1>7, <1>8, <1>9, <1>10, <1>11, ZenonT(60)
  DEF Next, Advance, Promise!Next

(* create() implements the atomic specification of its promise.              *)
THEOREM Refinement == Spec => KeepsPromise
<1>1. Init => Vetted /\ Promise!Init
  BY ConstantsAssumption DEF Init, Vetted, Storing, InFlight, Promise!Init, phaseBar, Queued
<1>2. Spec => []Vetted
  BY <1>1, VettedStep, Inductive, PTL DEF Spec
<1> QED BY <1>1, <1>2, StepRefines, Inductive, PTL DEF Spec, KeepsPromise, Promise!Spec
-----------------------------------------------------------------------------
(* The two services as they are, not as they promise: create() of this       *)
(* module in front of the handlers, sessions and queues of                   *)
(* NotificationWorker.  The event of an order that has landed is the one the  *)
(* worker finds in its queue; events the service writes are well formed.      *)
CONSTANTS Admins, Workers, Copies, MaxAttempts, Prefetch, MaxSessions, MaxDlqFaults, MaxReplays
VARIABLES msg, epoch, up, handlers, rows, toMove, replays

Event == [orderId : Requests, userId : Users]
workerVars == <<msg, epoch, up, handlers, rows, toMove, replays>>

Worker == INSTANCE NotificationWorkerProofs
            WITH Events <- Event, Malformed <- {}, published <- Queued

PlatformNext ==
  \/ Next /\ UNCHANGED <<Queued, workerVars>>
  \/ \E r \in Requests : EventTravels(r) /\ Worker!Publish(eventOf(r))
  \/ UNCHANGED vars /\ Worker!Next

PlatformSpec == Init /\ Worker!Init /\ [][PlatformNext]_<<vars, workerVars>>

Platform == INSTANCE OrderNotificationProofs
              WITH Subs <- Users, phase <- phaseBar, published <- Queued,
                   waiting <- Worker!Waiting, parked <- Worker!Parked, noted <- Worker!Noted

\* The constants of the two services fit together: a subject is a user, with or
\* without the admin role.
Fits ==
  /\ Worker!ConstantsAssumption
  /\ Admins \subseteq Users
  /\ \A a \in Asks : a.admin = (a.sub \in Admins)

(* They are constants the end-to-end specification allows.                    *)
LEMMA FitsPlatform == Fits => Platform!AdminsAssumption /\ Platform!PlatformAssumption
BY ConstantsAssumption, ZenonT(60) DEF Fits, Ask, Platform!AdminsAssumption, Platform!PlatformAssumption,
   Platform!isAdmin

(* A step of the platform is a step of each service or leaves it alone.       *)
LEMMA PlatformStep ==
  ASSUME [PlatformNext]_<<vars, workerVars>>
  PROVE  /\ [Next]_vars /\ (TypeOK => [Worker!Next]_(Worker!vars))
         /\ [Platform!Interleaved]_(Platform!vars)
<1>1. CASE Next /\ UNCHANGED <<Queued, workerVars>>
  <2>1. UNCHANGED Worker!vars
    BY <1>1, ZenonT(60) DEF workerVars, Worker!vars
  <2>2. UNCHANGED Platform!workerVars
    BY <1>1, ZenonT(60) DEF workerVars, Platform!workerVars, Worker!Waiting, Worker!Parked, Worker!Noted
  <2> QED BY <1>1, <2>1, <2>2, ZenonT(60) DEF Platform!Interleaved
<1>2. ASSUME NEW r \in Requests, EventTravels(r), Worker!Publish(eventOf(r))
      PROVE  Platform!Interleaved /\ Next /\ (TypeOK => Worker!Next)
  <2>1. Queued' # Queued
    BY <1>2, ZenonT(60) DEF Worker!Publish
  <2>2. TypeOK => eventOf(r) \in Event
    BY AskFields, ZenonT(60) DEF eventOf, Event
  <2> QED BY <1>2, <2>1, <2>2, ZenonT(60) DEF Platform!Interleaved, Next, Worker!Next
<1>3. CASE UNCHANGED vars /\ (Worker!Next \/ UNCHANGED workerVars)
  <2>1. UNCHANGED Platform!orderVars
    BY <1>3, ZenonT(60) DEF vars, phaseBar, Platform!orderVars
  <2>2. UNCHANGED Queued
    BY <1>3, ZenonT(60) DEF vars, Queued, eventOf
  <2> QED BY <1>3, <2>1, <2>2, ZenonT(60) DEF Platform!Interleaved, Worker!vars, workerVars
<1> QED BY <1>1, <1>2, <1>3, ZenonT(60) DEF PlatformNext

(* create() in front of the worker is create().                               *)
LEMMA ServiceInside == PlatformSpec => Spec /\ []TypeOK
<1>1. Inv => TypeOK
  BY DEF Inv
<1> QED BY <1>1, PlatformStep, Inductive, PTL DEF PlatformSpec, Spec

(* So it keeps the promise of the order-service.                              *)
LEMMA OrdersInside == PlatformSpec => Platform!Orders!Spec
<1>1. Promise!Init => Platform!Orders!Init
  BY ZenonT(60) DEF Promise!Init, Platform!Orders!Init
<1>2. [Promise!Next]_(Promise!vars) => [Platform!Orders!Next]_(Platform!Orders!vars)
  <2>0. UNCHANGED Promise!vars => UNCHANGED Platform!Orders!vars
    BY ZenonT(60) DEF Promise!vars, Platform!Orders!vars
  <2>1. ASSUME NEW u, Promise!Register(u) PROVE Platform!Orders!Register(u)
    BY <2>1, ZenonT(60) DEF Promise!Register, Platform!Orders!Register
  <2>2. ASSUME NEW r, NEW a, Promise!Receive(r, a) PROVE Platform!Orders!Receive(r, a)
    BY <2>2, ZenonT(60) DEF Promise!Receive, Promise!Allowed, Promise!Close,
       Platform!Orders!Receive, Platform!Orders!Allowed, Platform!Orders!Close
  <2>3. ASSUME NEW r, Promise!Place(r) PROVE Platform!Orders!Place(r)
    BY <2>3, ZenonT(60) DEF Promise!Place, Promise!Undecided, Promise!Store, Promise!KeyUnused,
       Platform!Orders!Place, Platform!Orders!Undecided, Platform!Orders!Store, Platform!Orders!KeyUnused
  <2>4. ASSUME NEW r, Promise!Reply(r) PROVE Platform!Orders!Reply(r)
    BY <2>4, ZenonT(60) DEF Promise!Reply, Promise!Close, Platform!Orders!Reply, Platform!Orders!Close
  <2>5. ASSUME NEW r, Promise!Announce(r) PROVE Platform!Orders!Announce(r)
    BY <2>5, ZenonT(60) DEF Promise!Announce, Promise!eventOf, Platform!Orders!Announce,
       Platform!Orders!eventOf
  <2> QED BY <2>0, <2>1, <2>2, <2>3, <2>4, <2>5, ZenonT(60) DEF Promise!Next, Platform!Orders!Next
<1> QED BY <1>1, <1>2, ServiceInside, Refinement, PTL
  DEF KeepsPromise, Promise!Spec, Platform!Orders!Spec

(* The worker behind create() keeps the promise of the worker.                *)
LEMMA WorkerInside ==
  ASSUME Fits PROVE PlatformSpec => Platform!Worker!Spec
<1>1. Worker!Delivery!Init => Platform!Worker!Init
  BY ZenonT(60) DEF Worker!Delivery!Init, Platform!Worker!Init
<1>2. [Worker!Delivery!Next]_(Worker!Delivery!vars) => [Platform!Worker!Next]_(Platform!Worker!vars)
  BY DEF Worker!Delivery!Next, Worker!Delivery!vars, Platform!Worker!Next, Platform!Worker!vars,
     Worker!Delivery!Publish, Worker!Delivery!Process, Worker!Delivery!Note, Worker!Delivery!Park,
     Worker!Delivery!Settle, Worker!Delivery!Replay, Worker!Delivery!Unpark,
     Platform!Worker!Publish, Platform!Worker!Process, Platform!Worker!Note, Platform!Worker!Park,
     Platform!Worker!Settle, Platform!Worker!Replay, Platform!Worker!Unpark, Event, Platform!Event
<1>3. PlatformSpec => Worker!Spec
  BY PlatformStep, ServiceInside, PTL DEF PlatformSpec, Worker!Spec
<1>4. Worker!Spec => Worker!KeepsDelivery
  BY Worker!DeliveryRefined, ZenonT(60) DEF Fits
<1> QED BY <1>1, <1>2, <1>3, <1>4, PTL
  DEF Worker!KeepsDelivery, Worker!Delivery!Spec, Platform!Worker!Spec

(* create() and the notification-worker, step by step and with everything    *)
(* that can fail in either, implement the end-to-end specification.           *)
THEOREM PlatformRefined == ASSUME Fits PROVE PlatformSpec => Platform!Spec
<1>1. PlatformSpec => [][Platform!Interleaved]_(Platform!vars)
  BY PlatformStep, PTL DEF PlatformSpec
<1>2. Platform!Orders!Spec /\ Platform!Worker!Spec /\ [][Platform!Interleaved]_(Platform!vars)
        => Platform!Spec
  BY FitsPlatform, Platform!PromisesCompose, ZenonT(60)
<1> QED BY <1>1, <1>2, OrdersInside, WorkerInside, PTL

(* So what is true end to end is true of the two services' own steps: what    *)
(* clients can read, that orders and notifications agree, that a key gives    *)
(* one notification, and that no order that was announced is forgotten.       *)
THEOREM EndToEnd ==
  ASSUME Fits
  PROVE  PlatformSpec => [](/\ Platform!NothingDisclosed /\ Platform!ServicesAgree
                            /\ Platform!ReadsItsWrites /\ Platform!NotifiedOncePerKey
                            /\ Platform!RefusedNeverNotified /\ Platform!NotificationDue)
<1>1. Platform!AdminsAssumption /\ Platform!PlatformAssumption
  BY FitsPlatform, ZenonT(60)
<1>2. Platform!Spec => []Platform!NothingDisclosed
  BY <1>1, Platform!OnlyOwnRowsRead, ZenonT(60)
<1>3. Platform!Spec => []Platform!ServicesAgree
  BY <1>1, Platform!OneOwnerEverywhere, ZenonT(60)
<1>4. Platform!Spec => []Platform!ReadsItsWrites
  BY <1>1, Platform!WritesAreRead, ZenonT(60)
<1>5. Platform!Spec => []Platform!NotifiedOncePerKey
  BY <1>1, Platform!OneNotificationPerKey, ZenonT(60)
<1>6. Platform!Spec => []Platform!RefusedNeverNotified
  BY <1>1, Platform!NoNoteOfRefused, ZenonT(60)
<1>7. Platform!Spec => []Platform!NotificationDue
  BY <1>1, Platform!NoOrderForgotten, ZenonT(60)
<1> QED BY <1>2, <1>3, <1>4, <1>5, <1>6, <1>7, PlatformRefined, PTL

(* Nothing the two services have stored or told is taken back: no step of     *)
(* either, a commit that comes late or a handler that outlived its session,   *)
(* gives a key another order, an order another owner or a client a second     *)
(* response, or removes a notification.                                       *)
THEOREM NothingTakenBack ==
  ASSUME Fits PROVE PlatformSpec => [][Platform!KeepsItsWord]_(Platform!vars)
<1>1. Platform!AdminsAssumption /\ Platform!PlatformAssumption
  BY FitsPlatform, ZenonT(60)
<1>2. Platform!Spec => [][Platform!KeepsItsWord]_(Platform!vars)
  BY <1>1, Platform!WordKept, ZenonT(60)
<1> QED BY <1>2, PlatformRefined, PTL
=============================================================================
