------------------------------ MODULE MCCheckout ------------------------------
(* Instances of Checkout: requests repeated under each of three keys.        *)
EXTENDS Checkout, TLC

CONSTANTS r1, r2, r3, r4, r5, r6, r7, r8, k1, k2, k3, n1, n2, creator

\* k1 and k3 are retried by clients that wait, k2 by one that does not; k1 is
\* a purchase's.
RetriedKeys == r1 :> k1 @@ r2 :> k1 @@ r3 :> k2 @@ r4 :> k2 @@ r5 :> k2
               @@ r6 :> k3 @@ r7 :> k3 @@ r8 :> k3

\* The second request to cash out goes to another node.
TwoNodes == [r \in Requests |-> IF r \in {r4, r7} THEN n2 ELSE n1]

\* The creator asks twice for half of the balance.
OneCreator == [r \in CashoutCalls |-> creator]
HalfEach == [r \in CashoutCalls |-> 2]
Earned == creator :> 4

\* Keys with different headers share no state but the balance, which is not what
\* this is about: behaviours that use one of them are enough.
OneKeyInUse == \A r, q \in Requests : at[r] # "idle" /\ at[q] # "idle" => HeaderOf[r] = HeaderOf[q]

\* Of two requests with one header the second is made when the access token
\* has expired: optionalAuth takes it for one of an anonymous viewer.
OneKey == r1 :> k1 @@ r2 :> k1
KeyOfLogin == r1 :> k1 @@ r2 :> k2
=============================================================================
