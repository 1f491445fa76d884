CONSTANTS
  Repositories <- MCRepositories
  Service = "s1"
  MAX_EXCEPTION_DAYS = 2
  LastDay = 4
SPECIFICATION GatesSpec
INVARIANT ImageVerdictRight
PROPERTY WaitingNeverHelps
\* The days end.
CHECK_DEADLOCK FALSE
