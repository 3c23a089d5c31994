\* An install from a source tree over hooks without a record dies; an uninstall.
SPECIFICATION InstallerSpec
CONSTANTS
  claude = claude
  codex = codex
  gemini = gemini
  core = core
  tree = tree
  HarnessOrder <- MCOrder
  HookEvents <- MCEvents
  Approving = {codex}
  Inspected = {claude}
  Roots = {core, tree}
  Core = core
  NoRoot = NoRoot
  Unfit <- MCUnfit
  MaxGroups = 2
  Budgets <- MCQuiet
INVARIANT NoScriptOutlivesUninstall
CHECK_DEADLOCK FALSE
