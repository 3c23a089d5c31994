\* Two reflexes of one command, both counters of the loop breaker, one crash.
CONSTANTS
  tests = tests
  docs = docs
  audit = audit
  Nobody = Nobody
  Reflexes = {tests, docs}
  Listing <- MCListing
  Commands = {audit}
  Diagnostic = {audit}
  Entry <- MCEntry
  Windows = {"none", "code"}
  Cooldowns = {1}
  LoopBreakerLimit = 2
  IncompleteLimit = 2
  MaxCrashes = 1
SPECIFICATION FairSpec
INVARIANTS
  ReflexInv
PROPERTIES
  NoAutonomousRepair
  RestBetweenRuns
  EngineComesBack
CHECK_DEADLOCK FALSE
