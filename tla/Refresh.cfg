\* The refresh the engine waits for and one of the timer's.
SPECIFICATION RefreshSpec
CONSTANTS
  own = own
  timer = timer
  Jobs = {own, timer}
  Own = own
  MaxExecRows = 3
  MaxRepairs = 1
  MaxShifts = 0
  MaxStarts = 1
  MaxFaults = 0
INVARIANT NoTornVerdict
CHECK_DEADLOCK FALSE
