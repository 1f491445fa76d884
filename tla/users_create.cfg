SPECIFICATION UsersSpec
CONSTANTS
  Requests = {r1, r2, r3}
  Ids = {i1, i2}
  Emails = {e1, e2}
INVARIANT ConflictIsTrue
PROPERTY EveryCreateAnswered
