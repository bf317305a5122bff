SPECIFICATION MapSpec
CONSTANTS
  MaxWorlds = 2
  MaxClock = 4
  Window = 2
  DayLength = 8
  Intervals = {0, 1}
  ResetHours = {0, 1}
  MaxOrders = 1
INVARIANTS
  DueOnce
CHECK_DEADLOCK FALSE
