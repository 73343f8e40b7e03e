SPECIFICATION Spec

CONSTANTS
  p1 = p1
  p2 = p2
  r1 = r1
  r2 = r2
  e1 = e1
  e2 = e2
  NoJob = NoJob
  NoSlot = NoSlot
  NoPurchase = NoPurchase
  Purchases = {p1}
  Refs = {r1}
  Jobs = {e1}
  Slots = {s1, s2}
  Hooks = {h1, h2}
  ChargeRef <- OneCharge
  EventRef <- OneEvent
  Reports <- AnyOutcome
  MaxAttempts = 3
  MaxStalls = 2
  Zombies = FALSE
  Faults = {}

INVARIANT
  CreditedOnlyWhenCollected

\* The system rests when every purchase, event and job is done.
CHECK_DEADLOCK FALSE
