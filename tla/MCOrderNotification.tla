-------------------------- MODULE MCOrderNotification --------------------------
(* The platform with one customer key, two customers and an admin.           *)
EXTENDS OrderNotification, TLC

CONSTANTS alice, bob, root, k

Order(sub, user, key) ==
  [sub |-> sub, admin |-> sub \in Admins, user |-> user, key |-> key]

\* The key shared by two customers and an admin who orders for one of them, no
\* key, a bad one, and a customer who orders for another.
MCAsks == {Order(alice, alice, k), Order(bob, bob, k), Order(root, alice, k),
           Order(alice, alice, NoKey), Order(alice, alice, BadKey), Order(bob, alice, k)}

Symmetry == Permutations(Requests)
=============================================================================
