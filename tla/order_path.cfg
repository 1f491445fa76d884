SPECIFICATION OrderSpec
CONSTANTS
  Requests = {r1}
  Clients = {c1, c2}
  LIMIT = 2
  WINDOW = 2
  UPSTREAM = 12
  TOLERANCE = 1
  GUARD = 2
  AUTH = 2
  JWKS = 1
  CACHE = 1
  LOOKUP = 1
  CONNECT = 1
  CONFIRM = 1
  DATABASE = 1
  BROKER = 1
INVARIANTS SlowIsNotUnreachable NeverCutOff BurstBounded WaitsForSlowestOrder
PROPERTY NoRequestHangs
