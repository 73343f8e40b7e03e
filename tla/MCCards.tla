--------------------------------- MODULE MCCards ---------------------------------
(* Three tabs of one viewer and one of another; four confirmations, one
   of them for the wrong wallet. *)
EXTENDS Cards, TLC
CONSTANTS w1, w2, a1, a2, a3, b1, s1, s2, s3, s4, k1, k2, k3

TabWallets  == a1 :> w1 @@ a2 :> w1 @@ a3 :> w1 @@ b1 :> w2
TabKeys     == a1 :> k1 @@ a2 :> k2 @@ a3 :> k2 @@ b1 :> k3
CardIntents == s1 :> a1 @@ s2 :> a2 @@ s3 :> a3 @@ s4 :> b1
CardWallets == s1 :> w1 @@ s2 :> w1 @@ s3 :> w1 @@ s4 :> w1
=============================================================================
