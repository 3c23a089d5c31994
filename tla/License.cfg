\* The user deactivates while a re-check is between its read and its write.
CONSTANTS
  LicenseKeys = {k1}
  Machines = {m1}
  Gates = {g1}
  Forced = {g1}
  On <- MCOn
  Window = 1
  MaxActivations = 1
  MaxUses = 1
  MaxDay = 1
SPECIFICATION LicenseSpec
INVARIANT RemovedStaysRemoved
CHECK_DEADLOCK FALSE
