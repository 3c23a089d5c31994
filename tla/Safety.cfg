\* One class with a routine and an owner-decided member; two lanes; two packages,
\* every resolver.
SPECIFICATION MCSpec
CONSTANTS
  claude = claude
  codex = codex
  gemini = gemini
  core = core
  tree = tree
  HarnessOrder <- MCOrder
  HookEvents <- MCEvents
  Approving = {codex}
  Inspected = {claude}
  Roots = {core, tree}
  Core = core
  NoRoot = NoRoot
  Unfit <- MCUnfit
  MaxGroups = 2
  Budgets <- MCBudgets
  tidy = tidy
  spend = spend
  k1 = k1
  d1 = d1
  d2 = d2
  r1 = r1
  r2 = r2
  NoWork = NoWork
  Work <- MCWork
  Proposal <- MCProposal
  Legacy = {spend}
  Keys = {k1}
  Deciders = {d1}
  Reviewers = {r1}
  PolicyTiers = {"none", "hitl"}
  MaxRows = 2
  MaxCrashes = 0
  brush = brush
  mirror = mirror
  Engine = {brush}
  Runner = {mirror}
  Rounds <- MCRounds
  torch = torch
  requests = requests
  Packages = {torch, requests}
  Risk <- MCRisk
  Held = {torch}
  MaxVersion = 2
  Signatures = {"a"}
  Silent = "none"
  DigestDay = 1
  HitlDay = 1
  Expiry = 1
  Redecide = 2
  EmailLag = 1
  LastDate = 2
  Unrest = {{}, {"queue"}, {"doctor"}, {"fleet"}}
  MaxChanges = 3
  MaxLost = 1
  MaxMishaps = 1
  Metrics = {"m1"}
  LastTick = 2
  MaxEntries = 3
  Bad = {0}
  Healthy = {1}
  NoValue = NoValue
  Samples = 1
  RunWindow = 2
  Warmup = 1
  MinRuns = 1
  FruitlessRuns = 2
  AgingTicks = 1
  HeadlineTicks = 1
  own = own
  timer = timer
  Jobs = {own, timer}
  Own = own
  MaxExecRows = 3
  MaxRepairs = 2
  MaxShifts = 1
  MaxStarts = 1
  MaxFaults = 1
  snapA = snapA
  snapB = snapB
  Snapshots = {snapA, snapB}
  LastInstant = 3
  MaxSnapshots = 2
  MaxWeekEvents = 2
  MaxBreaks = 1
  Unseen = Unseen
  auditA = auditA
  auditB = auditB
  Audits = {auditA, auditB}
  Direction = "lower"
  Limits = {0, 4}
  Readings = {0, 2, 3, 4, 5}
  NoRule = NoRule
  MaxAudits = 3
  MaxEdits = 1
  MaxDeaths = 1
  cost = cost
  slop = slop
  turns = turns
  Gauges = {cost, slop, turns}
  Place <- MCPlace
  Fixable = {cost, slop}
  Paired = {cost, slop}
  Shown = 2
  Dark = Dark
  NoRun = NoRun
  StuckAfter = 2
  MaxMoves = 1
  MaxRuns = 2
  MaxEngineDeaths = 1
INVARIANTS
  PolicyInv
  ChangesKept
  InstallerKept
  
  EfficacyKept
  RecordsKept
  GuardsKept
PROPERTY EfficacySteps
CHECK_DEADLOCK FALSE
