--------------------------- MODULE OrderNotification ---------------------------
(***************************************************************************)
(* The platform end to end: users are registered, POST /v1/orders keeps the  *)
(* promise of IdempotentOrders, the notification-worker the one of           *)
(* Notifications, and clients read all three services with the operators of  *)
(* Access.  OrderService and NotificationWorker implement the two promises.  *)
(*                                                                           *)
(* What Announce puts in the queue, an event with an order and a user, is    *)
(* what the worker finds there; an order has the name of the request that    *)
(* stored it.                                                                *)
(***************************************************************************)
EXTENDS Access

CONSTANTS Requests, Keys, NoKey, BadKey, None, Asks

\* What a token and a body hold: the admin role is the subject's.
ASSUME PlatformAssumption ==
  /\ Asks # {}
  /\ \A a \in Asks : a.sub \in Subs /\ a.admin = isAdmin(a.sub) /\ a.user \in Subs
  /\ \A a \in Asks : a.key \in Keys \cup {NoKey, BadKey}
  /\ None \notin Requests \cup Subs
  /\ NoKey \notin Keys /\ BadKey \notin Keys /\ NoKey # BadKey

VARIABLES
  users, phase, ask, owner, keys, answer,  \* as in IdempotentOrders
  published,                               \* events that have reached the queue
  waiting, parked, noted                   \* as in Notifications

Event == [orderId : Requests, userId : Subs]

Orders == INSTANCE IdempotentOrders WITH announced <- published, Users <- Subs
Worker == INSTANCE Notifications WITH Events <- Event, Malformed <- {}

orderVars  == <<users, phase, ask, owner, keys, answer>>
workerVars == <<waiting, parked, noted>>
vars == <<orderVars, published, workerVars>>

Init == Orders!Init /\ Worker!Init

\* The services act alone, or the order-service hands an event to the worker.
ServeOrders ==
  /\ \/ \E u \in Subs : Orders!Register(u)
     \/ \E r \in Requests :
          (\E a \in Asks : Orders!Receive(r, a)) \/ Orders!Place(r) \/ Orders!Reply(r)
  /\ UNCHANGED workerVars

HandOver(r) == Orders!Announce(r) /\ Worker!Publish(Orders!eventOf(r))

Work(e) == Worker!Process(e) /\ UNCHANGED orderVars

Next == ServeOrders \/ (\E r \in Requests : HandOver(r)) \/ (\E e \in Event : Work(e))

Spec == Init /\ [][Next]_vars

-----------------------------------------------------------------------------
\* The tables of the order-service and of the worker, which records what the
\* event says.
OrderTable == {[id |-> r, userId |-> owner[r]] : r \in {q \in Requests : owner[q] # None}}
NoteTable  == {[orderId |-> e.orderId, userId |-> e.userId] : e \in noted}

(* What a customer is told depends on the customer's own rows only: the      *)
(* rows of others might as well not exist (ID-7).                            *)
NothingDisclosed ==
  \A p \in Subs \ Admins :
    /\ \A id \in Subs : getUser(p, id, users) = getUser(p, id, users \cap {p})
    /\ \A id \in Requests :
         /\ getOrder(p, id, OrderTable) = getOrder(p, id, {o \in OrderTable : o.userId = p})
         /\ byOrder(p, id, NoteTable) = byOrder(p, id, {n \in NoteTable : n.userId = p})

(* Whoever is shown a notification can also read the order it is about, and  *)
(* the user it is for exists: what the worker copied from the event agrees   *)
(* with the tables of the other two services.                                *)
ServicesAgree ==
  \A p \in Subs, id \in Requests : \A n \in byOrder(p, id, NoteTable) :
    /\ getOrder(p, id, OrderTable) = <<200, [id |-> id, userId |-> n.userId]>>
    /\ getUser(p, n.userId, users) = <<200, n.userId>>

(* Whoever got 200 or 201, as customer or as admin, can GET the order the    *)
(* response names, and finds the user that was asked for.                    *)
ReadsItsWrites ==
  \A r \in Requests : answer[r].code \in {200, 201} =>
    getOrder(ask[r].sub, answer[r].order, OrderTable)
      = <<200, [id |-> answer[r].order, userId |-> ask[r].user]>>

(* FR-7 and FR-9 end to end: however often a client retries with its key and *)
(* however often the worker is handed the event, one notification is sent.   *)
NotifiedOncePerKey ==
  \A d, e \in noted :
    ask[d.orderId].key = ask[e.orderId].key /\ ask[e.orderId].key \in Keys => d = e

(* A request that was refused, or failed with a 500, never leads to a        *)
(* notification, not even when its event would be processed afterwards.      *)
RefusedNeverNotified ==
  \A r \in Requests : answer[r].code \in {400, 403, 409, 422, 500} =>
    \A p \in Subs : byOrder(p, r, NoteTable) = {}
=============================================================================
