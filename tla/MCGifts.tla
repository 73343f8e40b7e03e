-------------------------------- MODULE MCGifts --------------------------------
(* Three gifts of two wallets to one creator who is 100 coins short of the    *)
(* second level.                                                              *)
EXTENDS Gifts, TLC
CONSTANTS g1, g2, g3, w1, w2, u1

TwoFromOneWallet == g1 :> w1 @@ g2 :> w1 @@ g3 :> w2
OneRecipient     == [g \in Gifts |-> u1]
GiftCoins        == g1 :> 60 @@ g2 :> 100 @@ g3 :> 40
GiftCents        == g1 :> 60 @@ g2 :> 125 @@ g3 :> 40
Purses           == w1 :> 200 @@ w2 :> 80
AlmostLevelTwo   == u1 :> 349900
=============================================================================
