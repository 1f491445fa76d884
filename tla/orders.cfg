CONSTANTS
  alice = alice
  bob = bob
  k = k
  Requests = {r1, r2}
  Users = {alice, bob}
  Keys = {k}
  NoKey = NoKey
  BadKey = BadKey
  None = None
  Asks <- AllKinds
SPECIFICATION FairSpec
INVARIANTS OneOrderPerKey RaceLoserFindsWinner RefusalStoresNothing
PROPERTIES EveryRequestAnswered KeepsPromise
\* The service is idle once every request is answered.
CHECK_DEADLOCK FALSE
