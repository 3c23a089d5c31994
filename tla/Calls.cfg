\* One name of each shape, every setting, every call; every entry and mode; three
\* writers, with or without a lock of their callers, two of which die, and one
\* write that fails; three calls of two decision processes, and one read that fails.
CONSTANTS
  sonnet = sonnet
  flash = flash
  gflash = gflash
  mini = mini
  llama = llama
  gemma9 = gemma9
  gemma4 = gemma4
  qwen = qwen
  auto = auto
  hub = hub
  Models <- MCModels
  Shape <- MCShape
  LocalModel = gemma4
  AutoModel = auto
  NoModel = NoModel
  FreeChain <- MCFree
  PremiumTop <- MCPremium
  FastTop <- MCFast
  LocalFirstTop <- MCLocalFirst
  Routed <- MCRouted
  Normal <- MCNormal
  Pinned <- MCPinned
  MaxRetries = 2
  StrictLimit = 2
  Writers = {w1, w2, w3}
  None = None
  MaxAppends = 2
  MaxDeaths = 2
  MaxTorn = 1
  tidy = tidy
  spend = spend
  childA = childA
  childB = childB
  Judges = {childA, childB}
  Works = {tidy, spend}
  TierOf <- MCTier
  Sensitive = {spend}
  ReadOnly = {}
  NoJudge = NoJudge
  NoAsk = NoAsk
  MaxMisreads = 1
  MaxCalls = 3
  MaxReviews = 2
SPECIFICATION MCSpec
INVARIANTS
  GatewayInv
  StrictInv
  ChainInv
  OwnerIsAsked
  DecisionInv
PROPERTIES
  CallsEnd
  ModeTradesQueueOnly
CHECK_DEADLOCK FALSE
