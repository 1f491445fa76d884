--------------------------- MODULE IdempotentOrders ---------------------------
(***************************************************************************)
(* What POST /v1/orders promises its callers (FR-3, FR-5, FR-9), without    *)
(* transactions, queries, confirms or processes: an order and its key are   *)
(* stored at once, and every answer agrees with what is stored.             *)
(***************************************************************************)
CONSTANTS
  Requests, Users, Keys, None,
  BadKey,    \* a malformed Idempotency-Key
  Asks       \* what requests ask for, as in OrderService

VARIABLES
  users,     \* the registered users
  phase,     \* phase[r]: "new", "open" or "closed"
  ask,       \* what request r asks for
  owner,     \* the user of a stored order, or None
  keys,      \* the order a key stands for, or None
  answer,    \* the response of a closed request
  announced  \* events in the queue

vars == <<users, phase, ask, owner, keys, answer, announced>>

Init ==
  /\ users = {}
  /\ phase = [r \in Requests |-> "new"]
  /\ ask = [r \in Requests |-> CHOOSE a \in Asks : TRUE]
  /\ owner = [r \in Requests |-> None]
  /\ keys = [k \in Keys |-> None]
  /\ answer = [r \in Requests |-> [code |-> 0, order |-> None]]
  /\ announced = {}

Close(r, code, o) ==
  /\ phase' = [phase EXCEPT ![r] = "closed"]
  /\ answer' = [answer EXCEPT ![r] = [code |-> code, order |-> o]]

Register(u) ==
  /\ u \notin users
  /\ users' = users \cup {u}
  /\ UNCHANGED <<phase, ask, owner, keys, answer, announced>>

(* Customers order for themselves, admins for anyone.                       *)
Allowed(a) == a.admin \/ a.sub = a.user

(* A request is accepted, or refused for what it asks.                      *)
Receive(r, a) ==
  /\ phase[r] = "new"
  /\ ask' = [ask EXCEPT ![r] = a]
  /\ \/ /\ Allowed(a) /\ a.key # BadKey
        /\ phase' = [phase EXCEPT ![r] = "open"] /\ UNCHANGED answer
     \/ Allowed(a) /\ a.key = BadKey /\ Close(r, 400, None)
     \/ ~Allowed(a) /\ Close(r, 403, None)
  /\ UNCHANGED <<users, owner, keys, announced>>

\* The order and its key.
Store(r) ==
  /\ owner' = [owner EXCEPT ![r] = ask[r].user]
  /\ keys' = [k \in Keys |-> IF k = ask[r].key THEN r ELSE keys[k]]
  /\ UNCHANGED <<users, phase, ask, answer, announced>>

KeyUnused(r) == ask[r].key \in Keys => keys[ask[r].key] = None

\* A request that is not answered yet or was answered 503.
Undecided(r) == phase[r] = "open" \/ answer[r].code = 503

\* Mutants: a used key does not matter; a refusal does not end the request.
PlaceAgain(r)   == Undecided(r) /\ owner[r] = None /\ ask[r].user \in users /\ Store(r)
PlaceRefused(r) == phase[r] # "new" /\ owner[r] = None /\ ask[r].user \in users
                   /\ KeyUnused(r) /\ Store(r)

(* The order is stored for a registered user, and with it its key, which    *)
(* nobody has used.  After a 503 that may still happen.                     *)
Place(r) ==
  /\ Undecided(r) /\ owner[r] = None
  /\ ask[r].user \in users
  /\ KeyUnused(r)
  /\ Store(r)

\* Mutant: the stored order is returned whoever asks.
ReplyAnyone(r) ==
  /\ phase[r] = "open"
  /\ ask[r].key \in Keys /\ keys[ask[r].key] # None /\ owner[r] = None
  /\ Close(r, 200, keys[ask[r].key])
  /\ UNCHANGED <<users, ask, owner, keys, announced>>

(* 201 for the caller's own new order, 200 for the order the key already    *)
(* stands for if it is the same user's, 409 only for a key in use, 422 only *)
(* and 500 only if nothing was stored; 503 says nothing.                    *)
Reply(r) ==
  /\ phase[r] = "open"
  /\ \/ owner[r] # None /\ Close(r, 201, r)
     \/ /\ ask[r].key \in Keys /\ keys[ask[r].key] # None /\ owner[r] = None
        /\ \/ owner[keys[ask[r].key]] = ask[r].user /\ Close(r, 200, keys[ask[r].key])
           \/ Close(r, 409, None)
     \/ owner[r] = None /\ \E code \in {422, 500} : Close(r, code, None)
     \/ Close(r, 503, None)
  /\ UNCHANGED <<users, ask, owner, keys, announced>>

\* Mutant: the event names the caller, who may be an admin.
eventOfCaller(r) == [orderId |-> r, userId |-> ask[r].sub]

(* The event names the order and the user it was asked for.                 *)
eventOf(r) == [orderId |-> r, userId |-> ask[r].user]

(* The event of a stored order reaches the queue, once.                     *)
Announce(r) ==
  /\ owner[r] # None /\ eventOf(r) \notin announced
  /\ announced' = announced \cup {eventOf(r)}
  /\ UNCHANGED <<users, phase, ask, owner, keys, answer>>

Next ==
  \/ \E u \in Users : Register(u)
  \/ \E r \in Requests : (\E a \in Asks : Receive(r, a)) \/ Place(r) \/ Reply(r) \/ Announce(r)

Spec == Init /\ [][Next]_vars
=============================================================================
