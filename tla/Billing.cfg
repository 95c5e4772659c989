CONSTANTS
  PaidTiers = {"starter", "team"}
  Legacy = {"starter"}
  Rank <- MCRank
  Checks <- MCChecks
  Cap <- MCCap
  FreeLimit = 1
  Orders = {o1}
  Sub = sub
  SubTier = "starter"
  Requests = {r1, r2}
  MaxUncapped = 1
  MaxFaults = 1
SPECIFICATION Spec
SYMMETRY Symmetry
INVARIANTS
  TypeOK
  NoPlanWithoutPayment
  CreditsAddUp
  FreeQuotaIsExact
  CapOvershootIsBounded
  CapturedIsNotForgotten
