CONSTANTS
  Calls = {c1, c2}
  Users = {alice, bob}
  Attempts = 2
SPECIFICATION Spec
INVARIANTS YesMeansRegistered NoMeansNotYetRegistered
\* Once every call has returned and every user is registered, nothing is left to do.
CHECK_DEADLOCK FALSE
