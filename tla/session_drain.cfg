CONSTANTS
  Deliveries = {d1}
  MaxFaults = 1
  MaxDeletes = 0
  MAX_BACKOFF = 10
SPECIFICATION Spec
INVARIANT ExitDrained
\* A process that has exited stops.
CHECK_DEADLOCK FALSE
