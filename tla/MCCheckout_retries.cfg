SPECIFICATION CheckoutSpec

CONSTANTS
  r1 = r1
  r2 = r2
  r3 = r3
  r4 = r4
  r5 = r5
  r6 = r6
  r7 = r7
  r8 = r8
  k1 = k1
  k2 = k2
  k3 = k3
  n1 = n1
  n2 = n2
  creator = creator
  Requests = {r1, r2, r3, r4, r5, r6, r7, r8}
  CashoutCalls = {r3, r4, r5, r6, r7, r8}
  Keys = {k1, k2, k3}
  Nodes = {n1, n2}
  KeyOf <- RetriedKeys
  NodeOf <- TwoNodes
  Headers = {k1, k2, k3}
  HeaderOf <- RetriedKeys
  Careful = {k1, k3}
  Creators = {creator}
  Approved = {creator}
  Owner <- OneCreator
  Amount <- HalfEach
  MinCashout = 1
  Opening <- Earned
  NoResponse = NoResponse
  Faults = {"check", "set", "del", "crash"}
  HandlerFaults = {"gateway", "api", "enqueue"}

CONSTRAINT OneKeyInUse
INVARIANTS
  HandlersNeverOverlap
  OneRowPerKey
PROPERTIES
  RetriesOnOneNodeAreReplayed
  LockIsFreed

\* The system rests when every request is answered and every lock is gone.
CHECK_DEADLOCK FALSE
