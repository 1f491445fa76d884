CONSTANTS
  Deliveries = {d1}
  MaxFaults = 2
  MaxDeletes = 1
  MAX_BACKOFF = 3
SPECIFICATION Spec
INVARIANTS ReadyMeansConsuming OneConsumer CalmExitDrained NoConnectionForgotten
PROPERTIES SigtermExits EventuallyConsuming
\* A process that has exited stops.
CHECK_DEADLOCK FALSE
