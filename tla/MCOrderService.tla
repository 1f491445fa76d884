--------------------------- MODULE MCOrderService ---------------------------
(* Instances of OrderService for TLC.                                       *)
EXTENDS OrderService

CONSTANTS alice, bob, k

\* A customer's order, with the user id as the caller spelled it.
Order(u, canonical, key) ==
  [sub |-> u, admin |-> FALSE, user |-> u, canonical |-> canonical, key |-> key]

\* Two users who use the same key, one of them in both spellings.
SharedKey == {Order(alice, TRUE, k), Order(alice, FALSE, k), Order(bob, TRUE, k)}

\* Every kind of request: also without a key, with a bad one, by an admin for
\* someone else and by someone who may not.
AllKinds == SharedKey \cup
  {Order(alice, TRUE, NoKey), Order(alice, TRUE, BadKey),
   [sub |-> bob, admin |-> TRUE, user |-> alice, canonical |-> TRUE, key |-> k],
   [sub |-> bob, admin |-> FALSE, user |-> alice, canonical |-> TRUE, key |-> k]}
=============================================================================
