SPECIFICATION Spec
CONSTANTS
  Keys = {k1}
  Requests = {r1, r2}
  Routes = {"createOrder", "getUser"}
  TTL = 2
  COOLDOWN = 1
  TIMEOUT = 1
SYMMETRY Symmetry
PROPERTIES AcceptedKeysRecent RotationVisible WarmCacheSurvivesOutage
