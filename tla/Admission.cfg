SPECIFICATION AdmissionSpec
CONSTANTS
  Requests = {r1}
  Names = {"app"}
  People = {"app"}
  Backends = {"local", "cloud"}
  Targets = {"cloud"}
  NewKeys <- MCNewKeys
  KeyEdits <- MCKeyEdits
  Charges <- MCCharges
  None = None
  DaysPerMonth = 2
  MaxIssued = 2
  MaxChanges = 1
  LastClock = 2
  MaxAnswers = 2
  Subjects = {s1, s2}
  Installs = {i1}
  Signers = {dev, prod}
  TrialDays = 1
  SubscriptionDays = 2
  GraceDays = 1
  Days <- OneDayBack
  Enforce = TRUE
  LastSale = 1
  MaxKeys = 2
  MaxTime = 4
INVARIANTS
  ChargingSound
  CapsAgree
  AlertedOnce
  OwnScope
  KeysSound
  StatesAgree
PROPERTIES
  BlockLifts
  StopsHaveCause
  EndsReadOnly
