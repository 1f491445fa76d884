CONSTANTS
  Events = {good, bad}
  Malformed = {bad}
  Workers = {w1}
  Copies = {c1, c2, c3, c4, c5, c6, c7, c8}
  MaxAttempts = 2
  Prefetch = 2
  MaxSessions = 2
  MaxDlqFaults = 1
  MaxReplays = 0
SPECIFICATION FairSpec
INVARIANT BoundedRetries
PROPERTY EventuallySettled
\* The system stops once every message is settled and no fault is left.
CHECK_DEADLOCK FALSE
