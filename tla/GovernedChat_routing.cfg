SPECIFICATION FairSpec
CONSTANTS
  inner = inner
  outer = outer
  alice = alice
  red = red
  blue = blue
  bot = bot
  ask = ask
  AutoModel = AutoModel
  None = None
  Requests = {r1, r2}
  Kinds <- RoutedKinds
  Keys = {}
  Teams = {red, blue}
  Agents = {}
  Prompts = {ask}
  Backends = {inner, outer}
  Outside = {outer}
  TeamScope <- InnerOnly
  Price <- OuterCostsTwo
  SpendCap = 0
  MaxCalls = 0
  AgentCap = 1
  MaxInFlight = 2
  Changes = {"sovereign", "sensitive", "egress"}
  StorageMayFail = FALSE
INVARIANTS
  SensitiveConfined
  SovereignConfined
PROPERTIES
  EventuallyEnds
