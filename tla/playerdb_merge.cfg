SPECIFICATION Spec
CONSTANTS
  Instances = {a, b}
  Players = {p, q}
  NoInstance = NoInstance
  MinLevel = 1
  MaxLevel = 2
  Veterans = {}
  MaxChanges = 2
  MaxRestarts = 1
  Events = {"fail", "restart"}
SYMMETRY Symmetry
INVARIANTS
  TypeOK
  
  SaveScheduled
PROPERTIES
  OthersPreserved
CHECK_DEADLOCK FALSE
