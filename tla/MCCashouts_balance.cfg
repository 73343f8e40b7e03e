SPECIFICATION Spec

CONSTANTS
  u1 = u1
  c1 = c1
  c2 = c2
  c3 = c3
  k1 = k1
  k2 = k2
  NoJob = NoJob
  NoSlot = NoSlot
  Creators = {u1}
  Approved = {u1}
  Jobs = {c1, c2, c3}
  Slots = {s1}
  Notices = {n1}
  Keys = {k1, k2}
  Owner <- OneOwner
  Amount <- Amounts
  Rate <- LocalRates
  HasGateway <- BankFirst
  Key <- SharedKey
  Opening <- EnoughForTwo
  MinCashout = 2
  MaxAttempts = 1
  MaxStalls = 1
  Zombies = TRUE
  Faults = {"refused", "timeout", "db", "email", "enqueue", "crash"}

SYMMETRY Interchangeable
INVARIANTS
  BalanceNonNegative
  CompletedIsSettled
PROPERTY
  PaidOnWord

\* The system rests when every cashout is done.
CHECK_DEADLOCK FALSE
