SPECIFICATION Spec
CONSTANTS
  r1 = r1
  r2 = r2
  o1 = o1
  o2 = o2
  None = None
  Backends <- mcBackends
  Models <- mcModels
  Declared <- mcDeclared
  MaxDay = 1
  Registry <- mcRegistry
  Tier <- mcTier
  InBoundary <- mcInBoundary
  ModelOf <- mcModelOf
  MinTraces = 2
  Ids <- mcIds
  Endpoints <- mcEndpoints
  Kinds <- mcKinds
  Questions <- mcQuestions
  Similarity <- mcSimilarity
  Length <- mcLength
  Timely = {}
  FeatureEdits <- mcFeatureEdits
  Requests <- mcRequests
  Latencies <- mcLatencies
  Usages <- mcUsages
  PriceEdits <- mcPriceEdits
  Brains = {"learned"}
  InitialFeatures <- mcInitialFeatures
  InitialTraces <- mcInitialTraces
  InitialPrices <- mcInitialPrices
  Ratings <- mcRatings
  MaxChanges = 1
SYMMETRY mcSymmetry
INVARIANTS
  NeverEscapes
  Undominated
  LearningSound
  ReuseScoped
  HitsAccounted
  BilledAsTraced
