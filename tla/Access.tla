-------------------------------- MODULE Access --------------------------------
(***************************************************************************)
(* Who may read what: the answers of the read endpoints (GET a user, an      *)
(* order, an order's notifications) as operators on the tables of the three  *)
(* services.                                                                 *)
(***************************************************************************)
CONSTANTS
  Subs,     \* token subjects; a user's id is its sub
  Admins    \* those with the admin role

ASSUME AdminsAssumption == Admins \subseteq Subs

isAdmin(p) == p \in Admins

assertSelfOrAdmin(p, userId) == isAdmin(p) \/ p = userId

\* Mutant: a stranger is told that the order is not theirs.
ownerOrNotFoundTelling(p, ownerId, found) ==
  IF isAdmin(p) \/ p = ownerId THEN found ELSE <<403>>

ownerOrNotFound(p, ownerId, found) ==
  IF isAdmin(p) \/ p = ownerId THEN found ELSE <<404>>

\* UsersController.findOne, on the table us of ids.
getUser(p, id, us) ==
  IF ~assertSelfOrAdmin(p, id) THEN <<403>>
  ELSE IF id \in us THEN <<200, id>> ELSE <<404>>

\* OrdersService.findOne, on the table os of rows: the row with the id, if any.
findOne(id, os) == {o \in os : o.id = id}

\* OrdersController.findOne.
getOrder(p, id, os) ==
  IF findOne(id, os) = {} THEN <<404>>
  ELSE LET o == CHOOSE o \in findOne(id, os) : TRUE IN ownerOrNotFound(p, o.userId, <<200, o>>)

\* NotificationsService.findByOrder, on the table ns, for the given users.
findByOrder(orderId, userIds, ns) == {n \in ns : n.orderId = orderId /\ n.userId \in userIds}

\* NotificationsController.byOrder: an admin asks for all users.
byOrder(p, orderId, ns) == findByOrder(orderId, IF isAdmin(p) THEN Subs ELSE {p}, ns)
=============================================================================
