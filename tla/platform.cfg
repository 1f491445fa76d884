CONSTANTS
  alice = alice
  bob = bob
  root = root
  k = k
  Subs = {alice, bob, root}
  Admins = {root}
  Requests = {r1, r2, r3}
  Keys = {k}
  NoKey = NoKey
  BadKey = BadKey
  None = None
  Asks <- MCAsks
SPECIFICATION Spec
SYMMETRY Symmetry
INVARIANTS NothingDisclosed ServicesAgree ReadsItsWrites NotifiedOncePerKey RefusedNeverNotified
\* The platform is idle once every request is answered and every event settled.
CHECK_DEADLOCK FALSE
