SPECIFICATION AccountSpec

CONSTANTS
  None = None
  Calls = {c1, c2, c3, c4}
  Users = {u1, u2}
  Registered = {u1}
  CarefulUsers = {u1}
  MayFail = TRUE

SYMMETRY Interchangeable
CONSTRAINT OneConcern
INVARIANTS
  WelcomedOwnsAccount
  NeverLockedOut
  OneLazyToken
PROPERTIES
  SpentStaysSpent

\* The system rests when every call is over.
CHECK_DEADLOCK FALSE
