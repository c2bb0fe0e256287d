SPECIFICATION FairSpec
CONSTANTS
  Jobs = {j1, j2}
  Backends = {1, 2}
  Calls = {1, 2}
  FailThreshold = 2
  Cooldown = 1
  MaxTime = 2
  None = None
INVARIANTS EngineSound AttemptBound
PROPERTIES Promise JobsEnd
