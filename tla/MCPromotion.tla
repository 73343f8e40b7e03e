------------------------------ MODULE MCPromotion ------------------------------
(* Three earnings and two cashouts of two creators, two executions of the job. *)
EXTENDS Promotion, TLC
CONSTANTS e1, e2, e3, d1, d2, u1, u2, x1, x2

TwoEarners  == e1 :> u1 @@ e2 :> u1 @@ e3 :> u2
SmallShares == e1 :> 1 @@ e2 :> 2 @@ e3 :> 2
SameClaimant == [d \in Cashouts |-> u1]   \* together they claim more than u1 earns
Claims      == [d \in Cashouts |-> 2]
=============================================================================
