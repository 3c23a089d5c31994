\* Two deciders and two reviewers over one row, one of which may die; two overnight
\* runs, one of which may be killed;
\* two gates, two machines, two keys.
CONSTANTS
  tidy = tidy
  spend = spend
  k1 = k1
  d1 = d1
  d2 = d2
  r1 = r1
  r2 = r2
  NoWork = NoWork
  Work = {tidy}
  Proposal <- MCOneProposal
  Legacy = {tidy}
  Keys = {k1}
  Deciders = {d1, d2}
  Reviewers = {r1, r2}
  PolicyTiers = {"none"}
  MaxRows = 1
  MaxCrashes = 1
  n1 = n1
  n2 = n2
  c1 = c1
  Nobody = Nobody
  Nights = {n1, n2}
  Chores = {c1}
  RunHours = 1
  StaleHours = 1
  LastHour = 1
  MaxCycles = 2
  Budget = 1
  FlatLimit = 1
  MaxHands = 1
  lk1 = lk1
  lk2 = lk2
  g1 = g1
  g2 = g2
  m1 = m1
  m2 = m2
  LicenseKeys = {lk1, lk2}
  Machines = {m1, m2}
  Gates = {g1, g2}
  Forced = {g2}
  On <- MCOn
  Window = 1
  MaxActivations = 1
  MaxUses = 1
  MaxDay = 1
SPECIFICATION MCSpec
INVARIANTS
  TypeOK
  AtMostOnce
  DenialIsRespected
  ResolutionIsChained
  MeditationInv
  LicenseInv
PROPERTIES
  SettledIsFinal
  ImplementsApproval
  RowsMoveOn
CHECK_DEADLOCK FALSE
