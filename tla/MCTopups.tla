------------------------------- MODULE MCTopups -------------------------------
(* Small instances of Topups: one charge, its webhook delivered several     *)
(* times and its job retried; purchases that share a charge, events that do. *)
EXTENDS Topups, TLC
CONSTANTS p1, p2, r1, r2, e1, e2

OneCharge     == p1 :> r1               \* purchases with keys of their own meet
OneEvent      == e1 :> r1               \* only in hooks and slots: one is enough
SameCharge    == p1 :> r1 @@ p2 :> r1   \* one key, two handlers past idempotency()
OneChargeEach == p1 :> r1 @@ p2 :> r2
OneEventEach  == e1 :> r1 @@ e2 :> r2
TwoEvents     == e1 :> r1 @@ e2 :> r1   \* two events about one charge

AnyOutcome == e1 :> {"collected", "declined"}
AnyOutcomes == AnyOutcome @@ e2 :> {"collected", "declined"}
OpenThenCollected == e1 :> {"open"} @@ e2 :> {"collected"}
=============================================================================
