SPECIFICATION FairSpec

CONSTANTS
  u1 = u1
  c1 = c1
  c2 = c2
  c3 = c3
  k1 = k1
  k2 = k2
  NoJob = NoJob
  NoSlot = NoSlot
  Creators = {u1}
  Approved = {u1}
  Jobs = {c1, c2}
  Slots = {s1, s2}
  Notices = {n1}
  Keys = {k1, k2}
  Owner <- OneOwner
  Amount <- Amounts
  Rate <- Dollars
  HasGateway <- AllRouted
  Key <- DistinctKey
  Opening <- EnoughForTwo
  MinCashout = 2
  MaxAttempts = 2
  MaxStalls = 1
  Zombies = FALSE
  Faults = {"refused"}

INVARIANTS
  RefundedIsFailed
  SettledWhenJobEnds
PROPERTIES
  PaidIsFinal
  WithdrawalSpec
  EveryCashoutSettles

\* The system rests when every cashout is done.
CHECK_DEADLOCK FALSE
