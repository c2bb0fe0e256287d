SPECIFICATION Spec
CONSTANTS
  inner = inner
  outer = outer
  alice = alice
  red = red
  blue = blue
  bot = bot
  ask = ask
  AutoModel = AutoModel
  None = None
  Requests = {r1, r2, r3}
  Kinds <- GateKinds
  Keys = {alice}
  Teams = {red, blue}
  Agents = {bot}
  Prompts = {ask}
  Backends = {inner, outer}
  Outside = {outer}
  TeamScope <- InnerOnly
  Price <- OuterCostsTwo
  SpendCap = 2
  MaxCalls = 2
  AgentCap = 1
  MaxInFlight = 2
  Changes = {"license", "hour", "day"}
  StorageMayFail = TRUE
SYMMETRY Symmetry
INVARIANTS
  AuditedOnce
  LimitsHold
  ChargedExactly
  CacheTrue
