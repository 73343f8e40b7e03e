SPECIFICATION Spec

CONSTANTS
  g1 = g1
  g2 = g2
  g3 = g3
  w1 = w1
  w2 = w2
  u1 = u1
  Gifts = {g1, g2, g3}
  Wallets = {w1, w2}
  Creators = {u1}
  Sender <- TwoFromOneWallet
  Recipient <- OneRecipient
  Coins <- GiftCoins
  UsdCents <- GiftCents
  Balance <- Purses
  Lifetime <- AlmostLevelTwo
  MaxTries = 2
  Resends = 0
  Faults = {}

INVARIANTS
  LevelIsEarned

\* The system rests when every request is answered.
CHECK_DEADLOCK FALSE
