CONSTANTS
  Publishes = {p1, p2, p3}
  MaxAttempts = 3
  MaxFaults = 2
  MaxKills = 1
SPECIFICATION Spec
INVARIANTS LeakBounded StaleOnlyByRace OnlyShutdownAbandons
PROPERTY PublishSettles
\* Nothing is left to do when every publish has settled.
CHECK_DEADLOCK FALSE
