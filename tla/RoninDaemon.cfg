CONSTANTS
  DailyLimit = 2
  MaxFails = 2
  MaxWarns = 2
  LastDay = 1
  MaxFull = 1
SPECIFICATION DaemonSpec
INVARIANT DailyCapHolds
CHECK_DEADLOCK FALSE
