\* One writer dies; two others reclaim its lock.
SPECIFICATION ChainSpec
CONSTANTS
  Writers = {w1, w2, w3}
  None = None
  MaxAppends = 2
  MaxDeaths = 1
  MaxTorn = 0
INVARIANTS
  OneHolder
CHECK_DEADLOCK FALSE
