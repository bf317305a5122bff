SPECIFICATION Spec
CONSTANTS
  Instances = {a, b}
  Players = {p}
  NoInstance = NoInstance
  MinLevel = 1
  MaxLevel = 2
  Veterans = {}
  MaxChanges = 2
  MaxRestarts = 0
  Events = {}
PROPERTIES
  StatsKeepLevel
CHECK_DEADLOCK FALSE
