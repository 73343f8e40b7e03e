SPECIFICATION Spec

CONSTANTS
  w1 = w1
  w2 = w2
  a1 = a1
  a2 = a2
  a3 = a3
  b1 = b1
  s1 = s1
  s2 = s2
  s3 = s3
  s4 = s4
  k1 = k1
  k2 = k2
  k3 = k3
  NoCustomer = NoCustomer
  Wallets = {w1, w2}
  Setups = {a1, a2, a3, b1}
  SetupWallet <- TabWallets
  SetupKey <- TabKeys
  Saves = {s1, s2, s3, s4}
  SaveSetup <- CardIntents
  SaveWallet <- CardWallets

INVARIANTS
  IntentsOnOneCustomer
  ConflictWasRaced
PROPERTIES
  DefaultStays

\* The system rests when every request is answered.
CHECK_DEADLOCK FALSE
