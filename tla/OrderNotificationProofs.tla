------------------------ MODULE OrderNotificationProofs ------------------------
(***************************************************************************)
(* What holds of the platform end to end, for any sets of users, requests    *)
(* and keys, and that the platform is what the promises of its two services  *)
(* amount to together.                                                       *)
(***************************************************************************)
EXTENDS OrderNotification, TLAPS

(* Type invariant.                                                           *)
TypeOK ==
  /\ users \subseteq Subs
  /\ phase \in [Requests -> {"new", "open", "closed"}]
  /\ ask \in [Requests -> Asks]
  /\ owner \in [Requests -> Subs \cup {None}]
  /\ keys \in [Keys -> Requests \cup {None}]
  /\ answer \in [Requests -> [code : {0, 200, 201, 400, 403, 409, 422, 500, 503},
                              order : Requests \cup {None}]]
  /\ published \subseteq Event /\ noted \subseteq Event

Stored(r) == owner[r] # None

\* What holds of a request, its order and its answer.
RequestInv(r) ==
  /\ phase[r] = "new" => ~Stored(r)
  /\ phase[r] = "open" => Orders!Allowed(ask[r])
  /\ phase[r] # "closed" => answer[r].code = 0
  /\ Stored(r) => /\ owner[r] = ask[r].user /\ owner[r] \in users
                  /\ ask[r].key \in Keys => keys[ask[r].key] = r
  /\ answer[r].code \in {200, 201} =>
       /\ Orders!Allowed(ask[r])
       /\ answer[r].order \in Requests /\ owner[answer[r].order] = ask[r].user
  /\ answer[r].code \in {400, 403, 409, 422, 500} => ~Stored(r)

\* A key stands for a stored order, and only stored orders have events, which
\* name their user.
TablesInv ==
  /\ \A k \in Keys : keys[k] # None => Stored(keys[k])
  /\ \A e \in published : Stored(e.orderId) /\ e.userId = ask[e.orderId].user
  /\ noted \subseteq published

Inv == TypeOK /\ TablesInv /\ \A r \in Requests : RequestInv(r)
-----------------------------------------------------------------------------
(* A request has the fields of an Ask, and its user is not None.             *)
LEMMA AskFields ==
  ASSUME NEW a \in Asks
  PROVE  a.user \in Subs /\ a.user # None /\ a.sub \in Subs /\ a.admin = isAdmin(a.sub)
BY PlatformAssumption

(* The invariant holds before the first user is registered.                  *)
LEMMA InitInv == Init => Inv
<1> SUFFICES ASSUME Init PROVE Inv
  OBVIOUS
<1>1. TypeOK
  BY PlatformAssumption DEF Init, Orders!Init, Worker!Init, TypeOK
<1> QED BY <1>1 DEF Init, Orders!Init, Worker!Init, Inv, TablesInv, RequestInv, Stored

(* A step of one request that stores nothing concerns that request alone.    *)
LEMMA QuietStep ==
  ASSUME Inv, TypeOK', NEW r \in Requests, UNCHANGED <<users, owner, keys, published, noted>>,
         \A q \in Requests \ {r} : phase'[q] = phase[q] /\ ask'[q] = ask[q] /\ answer'[q] = answer[q],
         Stored(r) => ask'[r] = ask[r],
         RequestInv(r)'
  PROVE  Inv'
<1>1. TablesInv'
  <2>1. ASSUME NEW e \in published PROVE Stored(e.orderId)' /\ e.userId = ask'[e.orderId].user
    <3>1. e.orderId \in Requests /\ Stored(e.orderId) /\ e.userId = ask[e.orderId].user
      BY DEF Inv, TypeOK, TablesInv, Event
    <3>2. ask'[e.orderId] = ask[e.orderId]
      BY <3>1
    <3> QED BY <3>1, <3>2 DEF Stored
  <2> QED BY <2>1 DEF Inv, TablesInv, Stored
<1>2. \A q \in Requests \ {r} : RequestInv(q)'
  BY DEF Inv, RequestInv, Stored, Orders!Allowed
<1> QED BY <1>1, <1>2 DEF Inv

(* Receive: a request is allowed when it is opened.                          *)
LEMMA ReceiveStep ==
  ASSUME Inv, NEW r \in Requests, NEW a \in Asks, Orders!Receive(r, a), UNCHANGED workerVars
  PROVE  Inv'
<1> TypeOK /\ RequestInv(r)
  BY DEF Inv
<1>1. UNCHANGED <<users, owner, keys, published, noted>> /\ phase[r] = "new" /\ ~Stored(r) /\ answer[r].code = 0
  BY DEF Orders!Receive, workerVars, RequestInv
<1>2. TypeOK'
  BY <1>1 DEF TypeOK, Orders!Receive, Orders!Close
<1>3. /\ \A q \in Requests \ {r} : phase'[q] = phase[q] /\ ask'[q] = ask[q] /\ answer'[q] = answer[q]
      /\ ask'[r] = a
      /\ \/ phase'[r] = "open" /\ answer'[r] = answer[r] /\ Orders!Allowed(a)
         \/ phase'[r] = "closed" /\ answer'[r].code \in {400, 403}
  BY DEF TypeOK, Orders!Receive, Orders!Close
<1>4. RequestInv(r)'
  BY <1>1, <1>3 DEF RequestInv, Stored, Orders!Allowed
<1> QED BY <1>1, <1>2, <1>3, <1>4, QuietStep

(* Place: a key is used once, for a user who exists.                         *)
LEMMA PlaceStep ==
  ASSUME Inv, NEW r \in Requests, Orders!Place(r), UNCHANGED workerVars
  PROVE  Inv'
<1> TypeOK /\ RequestInv(r)
  BY DEF Inv
<1>1. /\ UNCHANGED <<users, phase, ask, answer, published, noted>>
      /\ Orders!Undecided(r) /\ ~Stored(r) /\ ask[r].user \in users
      /\ ask[r].key \in Keys => keys[ask[r].key] = None
      /\ owner'[r] = ask[r].user /\ \A q \in Requests \ {r} : owner'[q] = owner[q]
      /\ \A k \in Keys : keys'[k] = IF k = ask[r].key THEN r ELSE keys[k]
  BY DEF Orders!Place, Orders!Store, Orders!KeyUnused, workerVars, TypeOK, Stored
<1>2. ask[r] \in Asks /\ ask[r].user # None /\ r # None
  BY AskFields, PlatformAssumption DEF TypeOK
<1>3. TypeOK'
  BY <1>1, <1>2, AskFields DEF TypeOK, Orders!Place, Orders!Store
<1>4. \A q \in Requests : Stored(q) => Stored(q)' /\ owner'[q] = owner[q]
  BY <1>1 DEF Stored
<1>5. TablesInv'
  <2>1. ASSUME NEW k \in Keys, keys'[k] # None PROVE owner'[keys'[k]] # None
    <3>1. CASE k = ask[r].key
      BY <1>1, <1>2, <3>1
    <3>2. CASE k # ask[r].key
      <4>1. keys'[k] = keys[k] /\ keys[k] \in Requests /\ Stored(keys[k])
        BY <1>1, <2>1, <3>2 DEF Inv, TablesInv, TypeOK
      <4> QED BY <1>4, <4>1 DEF Stored
    <3> QED BY <3>1, <3>2
  <2>2. ASSUME NEW e \in published PROVE owner'[e.orderId] # None /\ e.userId = ask'[e.orderId].user
    <3>1. e.orderId \in Requests /\ Stored(e.orderId) /\ e.userId = ask[e.orderId].user
      BY DEF Inv, TablesInv, TypeOK, Event
    <3> QED BY <1>1, <1>4, <3>1 DEF Stored
  <2>3. published' = published /\ noted' = noted /\ noted \subseteq published
    BY <1>1 DEF Inv, TablesInv
  <2> QED BY <2>1, <2>2, <2>3 DEF TablesInv, Stored
<1>6. RequestInv(r)'
  <2>1. phase[r] # "new" /\ answer[r].code \in {0, 503}
    BY <1>1 DEF RequestInv, Orders!Undecided
  <2> QED BY <1>1, <1>2, <2>1 DEF RequestInv, Stored, Orders!Allowed
<1>7. ASSUME NEW q \in Requests \ {r} PROVE RequestInv(q)'
  <2>1. RequestInv(q) /\ (Stored(q)' <=> Stored(q))
    BY <1>1 DEF Inv, Stored
  <2>2. Stored(q) /\ ask[q].key \in Keys => keys'[ask[q].key] = q
    BY <1>1, <2>1, PlatformAssumption DEF RequestInv
  <2>3. answer[q].code \in {200, 201} => owner'[answer[q].order] = ask[q].user
    <3>1. ask[q].user # None
      BY AskFields DEF TypeOK
    <3> QED BY <1>4, <2>1, <3>1 DEF RequestInv, Stored
  <2> QED BY <1>1, <2>1, <2>2, <2>3 DEF RequestInv, Orders!Allowed, Stored
<1> QED BY <1>3, <1>5, <1>6, <1>7 DEF Inv

(* Reply: 200 and 201 name a stored order of the user that was asked for.    *)
LEMMA ReplyStep ==
  ASSUME Inv, NEW r \in Requests, Orders!Reply(r), UNCHANGED workerVars
  PROVE  Inv'
<1> TypeOK /\ RequestInv(r)
  BY DEF Inv
<1>1. UNCHANGED <<users, ask, owner, keys, published, noted>> /\ phase[r] = "open"
  BY DEF Orders!Reply, workerVars
<1>2. PICK c \in {200, 201, 409, 422, 500, 503}, o \in Requests \cup {None} :
        /\ Orders!Close(r, c, o)
        /\ c = 201 => o = r /\ Stored(r)
        /\ c = 200 => o \in Requests /\ owner[o] = ask[r].user
        /\ c \in {409, 422, 500} => ~Stored(r)
  BY DEF Orders!Reply, Stored, TypeOK
<1>3. TypeOK'
  BY <1>1, <1>2 DEF TypeOK, Orders!Close
<1>4. /\ \A q \in Requests \ {r} : phase'[q] = phase[q] /\ answer'[q] = answer[q]
      /\ phase'[r] = "closed" /\ answer'[r].code = c /\ answer'[r].order = o
  BY <1>2 DEF Orders!Close, TypeOK
<1>5. RequestInv(r)'
  BY <1>1, <1>2, <1>4 DEF RequestInv, Stored, Orders!Allowed
<1> QED BY <1>1, <1>3, <1>4, <1>5, QuietStep

(* Registration, the hand-over of an event and the worker leave the requests *)
(* as they are.                                                              *)
LEMMA OtherSteps ==
  ASSUME Inv,
         \/ \E u \in Subs : Orders!Register(u) /\ UNCHANGED workerVars
         \/ \E r \in Requests : HandOver(r)
         \/ \E e \in Event : Work(e)
         \/ UNCHANGED vars
  PROVE  Inv'
<1> TypeOK
  BY DEF Inv
<1>1. UNCHANGED <<phase, ask, owner, keys, answer>> /\ users \subseteq users'
  BY DEF Orders!Register, HandOver, Orders!Announce, Work, orderVars, vars
<1>2. users' \subseteq Subs
  BY DEF TypeOK, Orders!Register, HandOver, Orders!Announce, Work, orderVars, vars
<1>3. \A r \in Requests : RequestInv(r)'
  BY <1>1 DEF Inv, RequestInv, Stored, Orders!Allowed
<1>4. /\ published' \subseteq Event /\ noted' \subseteq published'
      /\ \A e \in published' : Stored(e.orderId) /\ e.userId = ask[e.orderId].user
  <2>1. CASE \E u \in Subs : Orders!Register(u) /\ UNCHANGED workerVars
    BY <1>1, <2>1 DEF Orders!Register, workerVars, Inv, TablesInv, TypeOK, Stored
  <2>2. ASSUME NEW r \in Requests, HandOver(r)
        PROVE  /\ published' \subseteq Event /\ noted' \subseteq published'
               /\ \A e \in published' : Stored(e.orderId) /\ e.userId = ask[e.orderId].user
    <3>1. /\ published' = published \cup {Orders!eventOf(r)} /\ noted' = noted /\ Stored(r)
      BY <2>2 DEF HandOver, Orders!Announce, Worker!Publish, Stored
    <3>2. Orders!eventOf(r) \in Event
      BY AskFields DEF Orders!eventOf, Event, TypeOK
    <3> QED BY <3>1, <3>2 DEF Orders!eventOf, Inv, TablesInv, TypeOK
  <2>3. CASE \E e \in Event : Work(e)
    BY <1>1, <2>3 DEF Work, Worker!Process, Worker!Note, Worker!Park, Worker!Settle, Worker!Replay,
       Worker!Unpark, Inv, TablesInv, TypeOK, Stored
  <2>4. CASE UNCHANGED vars
    BY <1>1, <2>4 DEF vars, workerVars, Inv, TablesInv, TypeOK, Stored
  <2> QED BY <2>1, <2>2, <2>3, <2>4
<1>5. TypeOK' /\ TablesInv'
  BY <1>1, <1>2, <1>4 DEF Inv, TypeOK, TablesInv, Stored
<1> QED BY <1>3, <1>5 DEF Inv

(* The inductive invariant of the composition.                               *)
THEOREM Inductive == Spec => []Inv
<1>1. Inv /\ [Next]_vars => Inv'
  BY ReceiveStep, PlaceStep, ReplyStep, OtherSteps DEF Next, ServeOrders
<1> QED BY <1>1, InitInv, PTL DEF Spec
-----------------------------------------------------------------------------
(* Composition.  A step of one service leaves the other alone, except when    *)
(* an event passes from the one to the other.                                 *)
Interleaved == UNCHANGED orderVars \/ UNCHANGED workerVars \/ published' # published

(* Seen from its clients, the order-service of the platform is               *)
(* IdempotentOrders: the worker behind it does not show.                      *)
THEOREM PlatformServesOrders == Spec => Orders!Spec
<1>1. Next => Orders!Next \/ UNCHANGED Orders!vars
  <2>1. ServeOrders => Orders!Next
    BY DEF ServeOrders, Orders!Next
  <2>2. \A r \in Requests : HandOver(r) => Orders!Next
    BY DEF HandOver, Orders!Next
  <2>3. \A e \in Event : Work(e) => UNCHANGED Orders!vars
    BY DEF Work, orderVars, Orders!vars, Worker!Process, Worker!Note, Worker!Park, Worker!Settle,
       Worker!Replay, Worker!Unpark
  <2> QED BY <2>1, <2>2, <2>3 DEF Next
<1>2. UNCHANGED vars => UNCHANGED Orders!vars
  BY DEF vars, orderVars, Orders!vars
<1> QED BY <1>1, <1>2, PTL DEF Spec, Init, Orders!Spec

(* Seen from the queue, the worker is Notifications, whatever the orders.     *)
THEOREM PlatformNotifies == Spec => Worker!Spec
<1>1. TypeOK /\ Next => Worker!Next \/ UNCHANGED Worker!vars
  <2>1. ServeOrders => UNCHANGED Worker!vars
    BY DEF ServeOrders, workerVars, Worker!vars, Orders!Register, Orders!Receive, Orders!Place,
       Orders!Store, Orders!Reply
  <2>2. \A e \in Event : Work(e) => Worker!Next
    BY DEF Work, Worker!Next
  <2>3. ASSUME TypeOK, NEW r \in Requests, HandOver(r) PROVE Worker!Next
    <3>1. Orders!eventOf(r) \in Event
      BY <2>3, AskFields DEF Orders!eventOf, Event, TypeOK
    <3> QED BY <2>3, <3>1 DEF HandOver, Worker!Next
  <2> QED BY <2>1, <2>2, <2>3 DEF Next
<1>2. UNCHANGED vars => UNCHANGED Worker!vars
  BY DEF vars, workerVars, Worker!vars
<1>3. Inv => TypeOK
  BY DEF Inv
<1> QED BY <1>1, <1>2, <1>3, Inductive, PTL DEF Spec, Init, Worker!Spec

(* And nothing else is needed: two services that keep their promises and     *)
(* share the queue make the platform, so any implementations of the two do.   *)
THEOREM PromisesCompose == Orders!Spec /\ Worker!Spec /\ [][Interleaved]_vars => Spec
<1>1. ASSUME [Orders!Next]_(Orders!vars), [Worker!Next]_(Worker!vars), [Interleaved]_vars
      PROVE  [Next]_vars
  <2>1. ASSUME NEW r \in Requests, Orders!Announce(r) PROVE HandOver(r)
    <3>1. published' # published /\ published' = published \cup {Orders!eventOf(r)}
      BY <2>1 DEF Orders!Announce
    <3>2. PICK e \in Event : Worker!Publish(e)
      BY <1>1, <3>1 DEF Worker!Next, Worker!vars, Worker!Process, Worker!Note, Worker!Park,
         Worker!Settle, Worker!Replay, Worker!Unpark
    <3>3. e = Orders!eventOf(r)
      BY <3>1, <3>2 DEF Worker!Publish
    <3> QED BY <2>1, <3>2, <3>3 DEF HandOver
  <2>2. ASSUME published' = published, UNCHANGED orderVars PROVE [Next]_vars
    <3>1. ASSUME NEW e \in Event, Worker!Publish(e) PROVE FALSE
      BY <2>2, <3>1 DEF Worker!Publish
    <3> QED BY <1>1, <2>2, <3>1 DEF Worker!Next, Worker!vars, vars, workerVars, Work, Next
  <2>3. ASSUME published' = published, UNCHANGED workerVars PROVE [Next]_vars
    <3>1. ASSUME NEW r \in Requests, Orders!Announce(r) PROVE FALSE
      BY <2>3, <3>1 DEF Orders!Announce
    <3> QED BY <1>1, <2>3, <3>1 DEF Orders!Next, Orders!vars, vars, orderVars, ServeOrders, Next
  <2>4. published' # published => \E r \in Requests : Orders!Announce(r)
    BY <1>1 DEF Orders!Next, Orders!vars, Orders!Register, Orders!Receive, Orders!Place,
       Orders!Store, Orders!Reply
  <2> QED BY <1>1, <2>1, <2>2, <2>3, <2>4 DEF Interleaved, vars, Next
<1> QED BY <1>1, PTL DEF Spec, Init, Orders!Spec, Worker!Spec
-----------------------------------------------------------------------------
(* OrdersService.findOne finds the row of a stored order, and no other.      *)
LEMMA OrderRow ==
  ASSUME TypeOK, NEW r \in Requests
  PROVE  /\ Stored(r) => findOne(r, OrderTable) = {[id |-> r, userId |-> owner[r]]}
         /\ ~Stored(r) => findOne(r, OrderTable) = {}
BY DEF findOne, OrderTable, Stored

(* OrdersController.findOne shows it to its owner and to admins.             *)
LEMMA OrderShown ==
  ASSUME TypeOK, NEW r \in Requests, Stored(r), NEW p, isAdmin(p) \/ p = owner[r]
  PROVE  getOrder(p, r, OrderTable) = <<200, [id |-> r, userId |-> owner[r]]>>
<1>1. findOne(r, OrderTable) = {[id |-> r, userId |-> owner[r]]}
  BY OrderRow
<1>2. (CHOOSE o \in findOne(r, OrderTable) : TRUE) = [id |-> r, userId |-> owner[r]]
  BY <1>1
<1> QED BY <1>1, <1>2 DEF getOrder, ownerOrNotFound

(* create() then findOne(): whoever got 2xx can read the order.              *)
THEOREM WritesAreRead == Spec => []ReadsItsWrites
<1>1. ASSUME Inv, NEW r \in Requests, answer[r].code \in {200, 201}
      PROVE  getOrder(ask[r].sub, answer[r].order, OrderTable)
               = <<200, [id |-> answer[r].order, userId |-> ask[r].user]>>
  <2>1. /\ answer[r].order \in Requests /\ owner[answer[r].order] = ask[r].user
        /\ ask[r].admin \/ ask[r].sub = ask[r].user
    BY <1>1 DEF Inv, RequestInv, Orders!Allowed
  <2>2. ask[r] \in Asks
    BY <1>1 DEF Inv, TypeOK
  <2> QED BY <1>1, <2>1, <2>2, AskFields, OrderShown DEF Inv, Stored
<1>2. Inv => ReadsItsWrites
  BY <1>1 DEF ReadsItsWrites
<1> QED BY <1>2, Inductive, PTL

(* byOrder(), findOne() of orders and findOne() of users agree.              *)
THEOREM OneOwnerEverywhere == Spec => []ServicesAgree
<1>1. ASSUME Inv, NEW p \in Subs, NEW id \in Requests, NEW n \in byOrder(p, id, NoteTable)
      PROVE  /\ getOrder(p, id, OrderTable) = <<200, [id |-> id, userId |-> n.userId]>>
             /\ getUser(p, n.userId, users) = <<200, n.userId>>
  <2>1. PICK e \in noted : n = [orderId |-> e.orderId, userId |-> e.userId]
    BY <1>1 DEF byOrder, findByOrder, NoteTable
  <2>2. n.orderId = id /\ (isAdmin(p) \/ p = n.userId)
    BY <1>1 DEF byOrder, findByOrder
  <2>3. e.orderId = id /\ Stored(id) /\ n.userId = ask[id].user
    BY <1>1, <2>1, <2>2 DEF Inv, TablesInv
  <2>4. n.userId = owner[id] /\ owner[id] \in users
    BY <1>1, <2>3 DEF Inv, RequestInv
  <2> QED BY <1>1, <2>2, <2>3, <2>4, OrderShown DEF getUser, assertSelfOrAdmin, Inv
<1>2. Inv => ServicesAgree
  BY <1>1 DEF ServicesAgree
<1> QED BY <1>2, Inductive, PTL

(* One notification for a key, however often client and worker retry.        *)
THEOREM OneNotificationPerKey == Spec => []NotifiedOncePerKey
<1>1. ASSUME Inv, NEW d \in noted, NEW e \in noted,
             ask[d.orderId].key = ask[e.orderId].key, ask[e.orderId].key \in Keys
      PROVE  d = e
  <2>1. d \in Event /\ e \in Event /\ Stored(d.orderId) /\ Stored(e.orderId)
    BY <1>1 DEF Inv, TypeOK, TablesInv
  <2>2. d.orderId \in Requests /\ e.orderId \in Requests
    BY <2>1 DEF Event
  <2>3. d.orderId = e.orderId
    BY <1>1, <2>1, <2>2 DEF Inv, RequestInv
  <2>4. d.userId = e.userId
    BY <1>1, <2>3 DEF Inv, TablesInv
  <2> QED BY <2>1, <2>3, <2>4 DEF Event
<1>2. Inv => NotifiedOncePerKey
  BY <1>1 DEF NotifiedOncePerKey
<1> QED BY <1>2, Inductive, PTL

(* No notification of a request that create() refused.                       *)
THEOREM NoNoteOfRefused == Spec => []RefusedNeverNotified
<1>1. ASSUME Inv, NEW r \in Requests, answer[r].code \in {400, 403, 409, 422, 500}, NEW p \in Subs
      PROVE  byOrder(p, r, NoteTable) = {}
  <2>1. \A e \in noted : e.orderId # r
    BY <1>1 DEF Inv, TablesInv, RequestInv
  <2> QED BY <2>1 DEF byOrder, findByOrder, NoteTable
<1>2. Inv => RefusedNeverNotified
  BY <1>1 DEF RefusedNeverNotified
<1> QED BY <1>2, Inductive, PTL

(* assertSelfOrAdmin, ownerOrNotFound and byOrder answer from the caller's   *)
(* own rows.                                                                 *)
THEOREM OnlyOwnRowsRead == Spec => []NothingDisclosed
<1>1. ASSUME Inv, NEW p \in Subs \ Admins, NEW id \in Requests
      PROVE  getOrder(p, id, OrderTable) = getOrder(p, id, {o \in OrderTable : o.userId = p})
  <2> DEFINE own == {o \in OrderTable : o.userId = p}
  <2> TypeOK
    BY <1>1 DEF Inv
  <2>1. findOne(id, own) = {o \in findOne(id, OrderTable) : o.userId = p}
    BY DEF findOne
  <2>2. CASE owner[id] = p /\ Stored(id)
    <3> DEFINE row == [id |-> id, userId |-> owner[id]]
    <3>1. findOne(id, OrderTable) = {row} /\ row.userId = p
      BY <2>2, OrderRow
    <3>2. findOne(id, own) = {row}
      BY <2>1, <3>1
    <3> HIDE DEF row, own
    <3>3. (CHOOSE o \in findOne(id, OrderTable) : TRUE) = row /\ (CHOOSE o \in findOne(id, own) : TRUE) = row
      BY <3>1, <3>2
    <3>4. getOrder(p, id, OrderTable) = getOrder(p, id, own)
      BY <3>1, <3>2, <3>3 DEF getOrder
    <3> QED BY <3>4 DEF own
  <2>3. CASE ~Stored(id)
    BY <2>1, <2>3, OrderRow DEF getOrder
  <2>4. CASE owner[id] # p /\ Stored(id)
    <3>1. findOne(id, own) = {} /\ findOne(id, OrderTable) = {[id |-> id, userId |-> owner[id]]}
      BY <2>1, <2>4, OrderRow
    <3>2. (CHOOSE o \in findOne(id, OrderTable) : TRUE) = [id |-> id, userId |-> owner[id]]
      BY <3>1
    <3> QED BY <2>4, <3>1, <3>2 DEF getOrder, ownerOrNotFound, isAdmin
  <2> QED BY <2>2, <2>3, <2>4
<1>2. ASSUME NEW p \in Subs \ Admins, NEW id \in Requests
      PROVE  byOrder(p, id, NoteTable) = byOrder(p, id, {n \in NoteTable : n.userId = p})
  BY DEF byOrder, findByOrder, isAdmin
<1>3. ASSUME NEW p \in Subs \ Admins, NEW id \in Subs
      PROVE  getUser(p, id, users) = getUser(p, id, users \cap {p})
  BY DEF getUser, assertSelfOrAdmin, isAdmin
<1>4. Inv => NothingDisclosed
  BY <1>1, <1>2, <1>3, ZenonT(60) DEF NothingDisclosed
<1> QED BY <1>4, Inductive, PTL

-----------------------------------------------------------------------------
(* FR-6 to FR-8 end to end: an order whose event has reached the queue is    *)
(* notified, or its event is still to be processed or in the dead-letter     *)
(* queue.                                                                    *)
NotificationDue == published \subseteq waiting \cup parked \cup noted

(* What the platform has told or stored stays true: no order changes hands,  *)
(* no key comes to stand for another order, no response is taken back, no    *)
(* event is withdrawn, and no notification is undone.                        *)
KeepsItsWord ==
  /\ \A r \in Requests : Stored(r) => owner'[r] = owner[r]
  /\ \A k \in Keys : keys[k] # None => keys'[k] = keys[k]
  /\ \A r \in Requests : answer[r].code # 0 => answer'[r] = answer[r] /\ ask'[r] = ask[r]
  /\ users \subseteq users' /\ published \subseteq published' /\ noted \subseteq noted'

(* Retries, dead-lettering and replays let go of no event of an order that   *)
(* is not notified.                                                          *)
THEOREM NoOrderForgotten == Spec => []NotificationDue
<1>1. Init => NotificationDue
  BY DEF Init, Worker!Init, NotificationDue
<1>2. NotificationDue /\ [Next]_vars => NotificationDue'
  <2> SUFFICES ASSUME NotificationDue, [Next]_vars PROVE NotificationDue'
    OBVIOUS
  <2>1. ASSUME ServeOrders \/ UNCHANGED vars PROVE UNCHANGED <<published, waiting, parked, noted>>
    BY <2>1 DEF ServeOrders, vars, workerVars, Orders!Register, Orders!Receive, Orders!Place,
       Orders!Store, Orders!Reply
  <2>2. ASSUME NEW r \in Requests, HandOver(r) PROVE NotificationDue'
    BY <2>2 DEF HandOver, Worker!Publish, NotificationDue
  <2>3. ASSUME NEW e \in Event, Work(e) PROVE NotificationDue'
    BY <2>3 DEF Work, Worker!Process, Worker!Note, Worker!Park, Worker!Settle, Worker!Replay,
       Worker!Unpark, NotificationDue
  <2> QED BY <2>1, <2>2, <2>3 DEF Next, NotificationDue
<1> QED BY <1>1, <1>2, PTL DEF Spec

(* The tables and the responses only grow: in particular the key of a stored *)
(* order keeps standing for it, whoever commits later.                       *)
THEOREM WordKept == Spec => [][KeepsItsWord]_vars
<1>1. ASSUME Inv, Next PROVE KeepsItsWord
  <2> TypeOK /\ TablesInv
    BY <1>1, ZenonT(60) DEF Inv
  <2>1. ASSUME NEW r \in Requests, NEW a \in Asks, Orders!Receive(r, a), UNCHANGED workerVars
        PROVE  KeepsItsWord
    <3>1. phase[r] = "new" /\ answer[r].code = 0 /\ UNCHANGED <<users, owner, keys, published, noted>>
      BY <1>1, <2>1 DEF Orders!Receive, workerVars, Inv, RequestInv
    <3>2. \A q \in Requests \ {r} : answer'[q] = answer[q] /\ ask'[q] = ask[q]
      BY <2>1 DEF Orders!Receive, Orders!Close, TypeOK
    <3> QED BY <3>1, <3>2 DEF KeepsItsWord
  <2>2. ASSUME NEW r \in Requests, Orders!Place(r), UNCHANGED workerVars PROVE KeepsItsWord
    <3>1. /\ UNCHANGED <<users, ask, answer, published, noted>> /\ ~Stored(r)
          /\ \A q \in Requests \ {r} : owner'[q] = owner[q]
          /\ \A k \in Keys : k # ask[r].key => keys'[k] = keys[k]
          /\ ask[r].key \in Keys => keys[ask[r].key] = None
      BY <2>2 DEF Orders!Place, Orders!Store, Orders!KeyUnused, workerVars, TypeOK, Stored
    <3> QED BY <3>1 DEF KeepsItsWord
  <2>3. ASSUME NEW r \in Requests, Orders!Reply(r), UNCHANGED workerVars PROVE KeepsItsWord
    <3>1. phase[r] = "open" /\ answer[r].code = 0 /\ UNCHANGED <<users, ask, owner, keys, published, noted>>
      BY <1>1, <2>3 DEF Orders!Reply, workerVars, Inv, RequestInv
    <3>2. \A q \in Requests \ {r} : answer'[q] = answer[q]
      BY <2>3 DEF Orders!Reply, Orders!Close, TypeOK
    <3> QED BY <3>1, <3>2 DEF KeepsItsWord
  <2>4. ASSUME NEW u \in Subs, Orders!Register(u), UNCHANGED workerVars PROVE KeepsItsWord
    BY <2>4 DEF Orders!Register, workerVars, KeepsItsWord
  <2>5. ASSUME NEW r \in Requests, HandOver(r) PROVE KeepsItsWord
    BY <2>5 DEF HandOver, Orders!Announce, Worker!Publish, KeepsItsWord
  <2>6. ASSUME NEW e \in Event, Work(e) PROVE KeepsItsWord
    BY <2>6 DEF Work, orderVars, Worker!Process, Worker!Note, Worker!Park, Worker!Settle,
       Worker!Replay, Worker!Unpark, KeepsItsWord
  <2> QED BY <1>1, <2>1, <2>2, <2>3, <2>4, <2>5, <2>6 DEF Next, ServeOrders
<1> QED BY <1>1, Inductive, PTL DEF Spec
=============================================================================
