SPECIFICATION FairSpec

CONSTANTS
  e1 = e1
  e2 = e2
  e3 = e3
  d1 = d1
  d2 = d2
  u1 = u1
  u2 = u2
  x1 = x1
  x2 = x2
  Creators = {u1, u2}
  Earnings = {e1, e2, e3}
  Earner <- TwoEarners
  Cents <- SmallShares
  Cashouts = {d1, d2}
  Claimant <- SameClaimant
  Claim <- Claims
  Runs = {x1, x2}
  Overlap = FALSE
  RefIdFits = TRUE

INVARIANTS
  TypeOK
  PromotedOnce
  PendingIsUnpromoted
  NeverDrifts
PROPERTIES
  MaturedIsPromoted
