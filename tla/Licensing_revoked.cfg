SPECIFICATION FairSpec
CONSTANTS
  Subjects = {s1, s2}
  Installs = {i1}
  Signers = {dev, prod}
  TrialDays = 1
  SubscriptionDays = 2
  GraceDays = 1
  Days <- OneDayBack
  Enforce = TRUE
  LastSale = 1
  MaxKeys = 2
  MaxTime = 4
  None = None
PROPERTIES RevocationEnforced
