CONSTANTS
  Events = {good}
  Malformed = {}
  Workers = {w1, w2}
  Copies = {c1, c2, c3}
  MaxAttempts = 3
  Prefetch = 1
  MaxSessions = 2
  MaxDlqFaults = 1
  MaxReplays = 1
SPECIFICATION Spec
SYMMETRY Symmetry
INVARIANTS NoEventLost UnackedHasOneHandler NoEarlyGiveUp
PROPERTY KeepsDelivery
\* The system stops once every message is settled and no fault is left.
CHECK_DEADLOCK FALSE
