SPECIFICATION Spec
CONSTANTS
  Workers = {w1, w2}
  Clients = {c1, c2}
  None = None
  MaxCalls = 5
  MaxPolicies = 2
  Dims <- OneDim
  Names <- CustomOnly
  Rules <- MCRules
  Edits <- MCEdits
  Providers <- MCProviders
  Environment <- MCEnvironment
  Keys = {"k1", "k2"}
  Registrations <- MCRegistrations
  Changes <- MCChanges
  Endpoints = {"url"}
  ConfigUpdates <- MCUpdates
  ModelInEnv = FALSE
INVARIANTS
  RegistrySound
  ChangesKept
  MostRestrictive
  NeverDead
