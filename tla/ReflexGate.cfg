\* One approval, two metrics behind one cache key.
CONSTANTS
  lint = lint
  docs = docs
  kLint = kLint
  kDocs = kDocs
  NoWork = NoWork
  Work = {lint, docs}
  Keys = {kLint, kDocs}
  Proposal <- MCProposal
  MaxRows = 3
SPECIFICATION Spec
INVARIANTS
  SettledWasReviewed
CHECK_DEADLOCK FALSE
