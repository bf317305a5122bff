SPECIFICATION FairSpec
CONSTANTS
  Instances = {a, b}
  Players = {p}
  NoInstance = NoInstance
  MinLevel = 2
  MaxLevel = 3
  Veterans = {p}
  MaxChanges = 1
  MaxRestarts = 0
  Events = {"guild-linked"}
PROPERTIES
  Converges
CHECK_DEADLOCK FALSE
