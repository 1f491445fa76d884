----------------------------- MODULE OrderService -----------------------------
(***************************************************************************)
(* POST /v1/orders of the order-service: OrdersController.create and        *)
(* OrdersService.create with its idempotency keys, its PostgreSQL           *)
(* transaction and the publish of order.created.                            *)
(*                                                                         *)
(* Every HTTP request is a process; a client's retry is another request     *)
(* with the same key.  Requests of one replica and of several interleave at *)
(* the awaits alike, and each may die with its process.  An order's id is   *)
(* the request that inserted it.                                            *)
(***************************************************************************)
EXTENDS Naturals, FiniteSets

CONSTANTS
  Requests,  \* HTTP requests
  Users,     \* user ids, in the canonical spelling PostgreSQL stores
  Keys,      \* valid Idempotency-Key headers
  NoKey,     \* the header is absent
  BadKey,    \* the header is empty or longer than 200 characters
  None,      \* no order
  Asks       \* the requests clients send

\* sub, admin: the principal; user, canonical: dto.userId and whether it is
\* spelled in lower case; key: the Idempotency-Key header.
Ask == [sub : Users, admin : BOOLEAN, user : Users, canonical : BOOLEAN,
        key : Keys \cup {NoKey, BadKey}]

ASSUME ConstantsAssumption ==
  /\ Asks \subseteq Ask /\ Asks # {}
  /\ None \notin Requests \cup Users
  /\ NoKey \notin Keys /\ BadKey \notin Keys /\ NoKey # BadKey

VARIABLES
  users,    \* users registered in the user-service
  owner,    \* owner[o]: user_id of the committed row o of orders, or None
  keys,     \* keys[k]: order_id of the committed row k of idempotency_keys, or None
  step,     \* the await a request is suspended at
  ask,      \* what it asks for
  found,    \* the order_id it has read in findByKey
  answer,   \* its HTTP response
  wire,     \* its order.created: none, sent, landed in the queue or lost
  counted,  \* requests that have incremented order.events.publish.failures
  orphans   \* requests that no longer wait for their COMMIT, which may still run

vars == <<users, owner, keys, step, ask, found, answer, wire, counted, orphans>>

\* The awaits of create, in order.  lookup2 and load2 are the second findByKey,
\* after a unique violation.
Transaction == {"insert_order", "insert_key", "commit", "committed"}
Awaits == {"lookup1", "load1", "exists", "publish", "confirm", "lookup2", "load2"}
            \cup Transaction

Codes == {0, 200, 201, 400, 403, 409, 422, 500, 503}

Init ==
  /\ users = {}
  /\ owner = [r \in Requests |-> None]
  /\ keys = [k \in Keys |-> None]
  /\ step = [r \in Requests |-> "idle"]
  /\ ask = [r \in Requests |-> CHOOSE a \in Asks : TRUE]
  /\ found = [r \in Requests |-> None]
  /\ answer = [r \in Requests |-> [code |-> 0, order |-> None]]
  /\ wire = [r \in Requests |-> "none"]
  /\ counted = {}
  /\ orphans = {}

-----------------------------------------------------------------------------
Goto(r, s) == step' = [step EXCEPT ![r] = s] /\ UNCHANGED answer

Respond(r, code, o) ==
  /\ step' = [step EXCEPT ![r] = "done"]
  /\ answer' = [answer EXCEPT ![r] = [code |-> code, order |-> o]]

(* assertSelfOrAdmin: the token's subject is the lower-cased userId.        *)
selfOrAdmin(a) == a.admin \/ a.sub = a.user

(* OrdersController.create up to the first await of OrdersService.create.   *)
Arrive(r, a) ==
  /\ step[r] = "idle"
  /\ ask' = [ask EXCEPT ![r] = a]
  /\ \/ ~selfOrAdmin(a) /\ Respond(r, 403, None)
     \/ selfOrAdmin(a) /\ a.key = BadKey /\ Respond(r, 400, None)
     \/ selfOrAdmin(a) /\ a.key = NoKey /\ Goto(r, "exists")
     \/ selfOrAdmin(a) /\ a.key \in Keys /\ Goto(r, "lookup1")
  /\ UNCHANGED <<users, owner, keys, found, wire, counted, orphans>>

\* findByKey returned null: go on, or rethrow the unique violation.
KeyUnknown(r) ==
  \/ step[r] \in {"lookup1", "load1"} /\ Goto(r, "exists")
  \/ step[r] \in {"lookup2", "load2"} /\ Respond(r, 500, None)

(* findByKey, first query: the idempotency record.                          *)
FindKey(r) ==
  /\ step[r] \in {"lookup1", "lookup2"}
  /\ LET o == keys[ask[r].key] IN
       \/ o = None /\ KeyUnknown(r) /\ UNCHANGED found
       \/ /\ o # None
          /\ found' = [found EXCEPT ![r] = o]
          /\ Goto(r, IF step[r] = "lookup1" THEN "load1" ELSE "load2")
  /\ UNCHANGED <<users, owner, keys, ask, wire, counted, orphans>>

(* replay: the stored userId is canonical, dto.userId is compared as it was *)
(* spelled.                                                                 *)
replay(r, o) ==
  IF owner[o] = ask[r].user /\ ask[r].canonical
  THEN Respond(r, 200, o) ELSE Respond(r, 409, None)

(* findByKey, second query: the order of the record.                        *)
LoadOrder(r) ==
  /\ step[r] \in {"load1", "load2"}
  /\ IF owner[found[r]] = None THEN KeyUnknown(r) ELSE replay(r, found[r])
  /\ UNCHANGED <<users, owner, keys, ask, found, wire, counted, orphans>>

(* users.exists: yes, no, or the lookup is unavailable.                     *)
UserLookup(r) ==
  /\ step[r] = "exists"
  /\ \/ ask[r].user \in users /\ Goto(r, "insert_order")
     \/ ask[r].user \notin users /\ Respond(r, 422, None)
     \/ Respond(r, 503, None)
  /\ UNCHANGED <<users, owner, keys, ask, found, wire, counted, orphans>>

\* Mutant: the order is saved outside the transaction.
InsertOrderOutside(r) ==
  /\ step[r] = "insert_order"
  /\ owner' = [owner EXCEPT ![r] = ask[r].user]
  /\ Goto(r, IF ask[r].key = NoKey THEN "commit" ELSE "insert_key")
  /\ UNCHANGED <<users, keys, ask, found, wire, counted, orphans>>

(* The transaction: BEGIN and INSERT INTO orders.                           *)
InsertOrder(r) ==
  /\ step[r] = "insert_order"
  /\ Goto(r, IF ask[r].key = NoKey THEN "commit" ELSE "insert_key")
  /\ UNCHANGED <<users, owner, keys, ask, found, wire, counted, orphans>>

\* A transaction has made its inserts and is still open; another request's
\* has inserted r's key.
InFlight(r) == step[r] = "commit" \/ r \in orphans

KeyLocked(r) == \E q \in Requests \ {r} : InFlight(q) /\ ask[q].key = ask[r].key

\* Mutant: key is a plain column, checked by a query.
InsertKeyUnlocked(r) ==
  /\ step[r] = "insert_key"
  /\ Goto(r, IF keys[ask[r].key] = None THEN "commit" ELSE "lookup2")
  /\ UNCHANGED <<users, owner, keys, ask, found, wire, counted, orphans>>

\* Mutant: a held key is a conflict at once (lock_timeout).
InsertKeyNoWait(r) ==
  /\ step[r] = "insert_key"
  /\ Goto(r, IF keys[ask[r].key] = None /\ ~KeyLocked(r) THEN "commit" ELSE "lookup2")
  /\ UNCHANGED <<users, owner, keys, ask, found, wire, counted, orphans>>

(* INSERT INTO idempotency_keys: the primary key index makes the insert     *)
(* wait for an open transaction with the same key; a committed one is a     *)
(* unique violation, and the transaction is rolled back.                    *)
InsertKey(r) ==
  /\ step[r] = "insert_key"
  /\ ~KeyLocked(r)
  /\ Goto(r, IF keys[ask[r].key] = None THEN "commit" ELSE "lookup2")
  /\ UNCHANGED <<users, owner, keys, ask, found, wire, counted, orphans>>

\* Mutant: the key is inserted on another connection, and lost.
CommitWithoutKey(r) ==
  /\ step[r] = "commit"
  /\ owner' = [owner EXCEPT ![r] = ask[r].user]
  /\ Goto(r, "committed")
  /\ UNCHANGED <<users, keys, ask, found, wire, counted, orphans>>

\* What a commit stores: order and key together.
Store(r) ==
  /\ owner' = [owner EXCEPT ![r] = ask[r].user]
  /\ keys' = [k \in Keys |-> IF k = ask[r].key THEN r ELSE keys[k]]

(* PostgreSQL executes COMMIT.                                              *)
Commit(r) ==
  /\ step[r] = "commit"
  /\ Store(r)
  /\ Goto(r, "committed")
  /\ UNCHANGED <<users, ask, found, wire, counted, orphans>>

(* transaction() resolves; publishCreated asks for a channel.               *)
CommitReturns(r) ==
  /\ step[r] = "committed"
  /\ Goto(r, "publish")
  /\ UNCHANGED <<users, owner, keys, ask, found, wire, counted, orphans>>

\* Nobody waits for r's transaction any more: it is rolled back, or its COMMIT
\* is already on the way.
Abandon(r) ==
  \/ UNCHANGED orphans
  \/ step[r] = "commit" /\ orphans' = orphans \cup {r}

AwaitsDatabase(r) == step[r] \in {"lookup1", "load1", "lookup2", "load2"} \cup Transaction

(* The connection to PostgreSQL fails while the request waits for it, and   *)
(* DatabaseUnavailableFilter answers 503.                                   *)
DatabaseFails(r) ==
  /\ AwaitsDatabase(r)
  /\ Respond(r, 503, None)
  /\ Abandon(r)
  /\ UNCHANGED <<users, owner, keys, ask, found, wire, counted>>

(* PostgreSQL reports any other error, such as a full disk or a deadlock:   *)
(* the transaction is rolled back, create rethrows and Nest answers 500.    *)
StatementFails(r) ==
  /\ AwaitsDatabase(r) /\ step[r] # "committed"
  /\ Respond(r, 500, None)
  /\ UNCHANGED <<users, owner, keys, ask, found, wire, counted, orphans>>

(* PostgreSQL gets to a COMMIT whose connection is gone, or to the end of   *)
(* the connection.                                                          *)
LateCommit(r) ==
  /\ r \in orphans
  /\ orphans' = orphans \ {r}
  /\ Store(r) \/ UNCHANGED <<owner, keys>>
  /\ UNCHANGED <<users, step, ask, found, answer, wire, counted>>

-----------------------------------------------------------------------------
(* The body of order.created: the order transaction() returned, whose       *)
(* userId is dto.userId.                                                    *)
eventOf(r) == [orderId |-> r, userId |-> ask[r].user]

(* publishCreated has a channel and publishes.                              *)
SendEvent(r) ==
  /\ step[r] = "publish"
  /\ wire' = [wire EXCEPT ![r] = "sent"]
  /\ Goto(r, "confirm")
  /\ UNCHANGED <<users, owner, keys, ask, found, counted, orphans>>

(* The broker routes the event, or it is lost with the connection.          *)
EventTravels(r) ==
  /\ wire[r] = "sent"
  /\ \E w \in {"landed", "lost"} : wire' = [wire EXCEPT ![r] = w]
  /\ UNCHANGED <<users, owner, keys, step, ask, found, answer, counted, orphans>>

(* The broker's confirm arrives.                                            *)
Confirmed(r) ==
  /\ step[r] = "confirm" /\ wire[r] = "landed"
  /\ Respond(r, 201, r)
  /\ UNCHANGED <<users, owner, keys, ask, found, wire, counted, orphans>>

\* Mutant: no timer on the confirm.
PublishFailsUntimed(r) ==
  /\ step[r] = "publish" \/ (step[r] = "confirm" /\ wire[r] = "lost")
  /\ counted' = counted \cup {r}
  /\ Respond(r, 201, r)
  /\ UNCHANGED <<users, owner, keys, ask, found, wire, orphans>>

(* No channel within its timeout, no confirm within CONFIRM_TIMEOUT_MS, or  *)
(* an error: counted, logged, and the order is returned.                    *)
PublishFails(r) ==
  /\ step[r] \in {"publish", "confirm"}
  /\ counted' = counted \cup {r}
  /\ Respond(r, 201, r)
  /\ UNCHANGED <<users, owner, keys, ask, found, wire, orphans>>

-----------------------------------------------------------------------------
(* The process of the request dies.                                         *)
Crash(r) ==
  /\ step[r] \in Awaits
  /\ step' = [step EXCEPT ![r] = "dead"]
  /\ Abandon(r)
  /\ UNCHANGED <<users, owner, keys, ask, found, answer, wire, counted>>

(* POST /v1/users of the user-service.                                      *)
RegisterUser(u) ==
  /\ u \notin users
  /\ users' = users \cup {u}
  /\ UNCHANGED <<owner, keys, step, ask, found, answer, wire, counted, orphans>>

\* The steps of a request that need no fault.
Advance(r) ==
  \/ FindKey(r) \/ LoadOrder(r) \/ UserLookup(r)
  \/ InsertOrder(r) \/ InsertKey(r) \/ Commit(r) \/ CommitReturns(r)
  \/ SendEvent(r) \/ Confirmed(r) \/ PublishFails(r)

Next ==
  \/ \E r \in Requests :
       \/ \E a \in Asks : Arrive(r, a)
       \/ Advance(r) \/ DatabaseFails(r) \/ StatementFails(r) \/ LateCommit(r)
       \/ EventTravels(r) \/ Crash(r)
  \/ \E u \in Users : RegisterUser(u)

Spec == Init /\ [][Next]_vars

(* The event loop runs every continuation that is ready and every timer;    *)
(* PostgreSQL answers, and ends a transaction whose client is gone.         *)
(* Faults, clients and the broker are not fair.                             *)
FairSpec == Spec /\ \A r \in Requests : WF_vars(Advance(r)) /\ WF_vars(LateCommit(r))

-----------------------------------------------------------------------------
(* Type invariant.                                                          *)
TypeOK ==
  /\ users \subseteq Users
  /\ owner \in [Requests -> Users \cup {None}]
  /\ keys \in [Keys -> Requests \cup {None}]
  /\ step \in [Requests -> Awaits \cup {"idle", "done", "dead"}]
  /\ ask \in [Requests -> Asks]
  /\ found \in [Requests -> Requests \cup {None}]
  /\ answer \in [Requests -> [code : Codes, order : Requests \cup {None}]]
  /\ wire \in [Requests -> {"none", "sent", "landed", "lost"}]
  /\ counted \subseteq Requests /\ orphans \subseteq Requests

Succeeded(r) == answer[r].code \in {200, 201}

(* FR-9: requests with the same key that race, retry or follow a crash      *)
(* store at most one order together.                                        *)
OneOrderPerKey ==
  \A q, r \in Requests :
    owner[q] # None /\ owner[r] # None /\ ask[q].key = ask[r].key /\ ask[q].key # NoKey => q = r

(* FR-9: whoever wins the race, all successful responses for a key name the *)
(* same order.                                                              *)
SameKeySameOrder ==
  \A q, r \in Requests :
    Succeeded(q) /\ Succeeded(r) /\ ask[q].key = ask[r].key /\ ask[q].key # NoKey
      => answer[q].order = answer[r].order

(* FR-9: a response names a stored order of the user it was requested for,  *)
(* never another user's.                                                    *)
OrderOfRequestedUser ==
  \A r \in Requests : Succeeded(r) => owner[answer[r].order] = ask[r].user

(* A request that is refused, or fails with a 500, has stored nothing and   *)
(* published nothing, and no COMMIT of it is still to come.                 *)
RefusalStoresNothing ==
  \A r \in Requests :
    answer[r].code \in {400, 403, 409, 422, 500} => owner[r] = None /\ wire[r] = "none" /\ r \notin orphans

(* An event on its way describes a committed order.                         *)
EventOfStoredOrder == \A r \in Requests : wire[r] # "none" => owner[r] # None

(* The comment "a concurrent request with the same key won the race: return *)
(* its order": from the unique violation on, the key and the order it names *)
(* are committed, so the second findByKey finds them and create does not    *)
(* rethrow the violation.                                                   *)
RaceLoserFindsWinner ==
  \A r \in Requests : step[r] \in {"lookup2", "load2"} =>
    keys[ask[r].key] # None /\ owner[keys[ask[r].key]] # None

(* Every request is answered, unless its process dies: no request waits     *)
(* forever for a key another one holds, or for a confirm.                   *)
EveryRequestAnswered ==
  \A r \in Requests : step[r] \in Awaits ~> step[r] \in {"done", "dead"}

(* The detailed specification implements IdempotentOrders.  A request is    *)
(* open from its arrival to its answer, and stays open when its process     *)
(* dies; an order is stored when PostgreSQL commits, late or not.           *)
phaseBar ==
  [r \in Requests |-> CASE step[r] = "idle" -> "new"
                       [] step[r] = "done" -> "closed"
                       [] OTHER -> "open"]
Queued == {eventOf(r) : r \in {q \in Requests : wire[q] = "landed"}}
Promise == INSTANCE IdempotentOrders WITH phase <- phaseBar, announced <- Queued

(* create() keeps the promise of IdempotentOrders in every interleaving.    *)
KeepsPromise == Promise!Spec

-----------------------------------------------------------------------------
(* Statements of the repository that the code does not keep.                *)

(* FR-9 and the comment at replay: 409 is for a key used by a different user. *)
ConflictIsAnotherUser ==
  \A r \in Requests :
    answer[r].code = 409 => owner[keys[ask[r].key]] # ask[r].user

(* Alert runbook, DatabaseUnavailable: orders answered with 503 "were not   *)
(* stored (clean 503, nothing half-written)".                               *)
UnavailableStoresNothing ==
  \A r \in Requests : answer[r].code = 503 => owner[r] = None

(* orders.metrics.ts on order.events.publish.failures: "the order is stored *)
(* but its event never reached the broker".                                 *)
CountedNeverReachesBroker ==
  \A r \in counted : wire[r] # "landed"
=============================================================================
