\* ronin approve-hitl beside a decider and a reviewer: one approval, two runs.
CONSTANTS
  tidy = tidy
  spend = spend
  k1 = k1
  d1 = d1
  d2 = d2
  r1 = r1
  r2 = r2
  NoWork = NoWork
  Work = {tidy}
  Proposal <- MCOneProposal
  Legacy = {}
  Keys = {k1}
  Deciders = {d1}
  Reviewers = {r1}
  PolicyTiers = {"none"}
  MaxRows = 1
  MaxCrashes = 0
SPECIFICATION CliSpec
INVARIANTS
  AtMostOnce
