SPECIFICATION Spec
CONSTANTS
  Ids = {r1}
  Shapes <- AllShapes
  MaxGen = 2
  MaxQueue = 2
  MaxUpdates = 1
  ChanCap = 1
  Events = {"ready", "update", "sigterm"}
INVARIANTS
  TypeOK
  ProcessKnown
  InstallExclusive
  NothingLeftOpen
  ExitClean
